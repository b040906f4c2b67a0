------------------------------ MODULE ShellRuns ------------------------------
(***************************************************************************)
(* What shellSessionRegistry promises about runs, seen without maps,       *)
(* rows, channels or goroutines: a run is asked for once, is open only     *)
(* after it found both caps unreached at the moment it was admitted, ends  *)
(* once and never comes back.  ShellSessions implements it.                *)
(***************************************************************************)
EXTENDS Naturals, FiniteSets

CONSTANTS Runs, Hosts, PerHostCap, GlobalCap, None

VARIABLES life,     \* "none", "asked", "open" (it holds a place) or "over"
          host      \* the host it was asked for

runVars == <<life, host>>

RunsInit ==
    /\ life = [r \in Runs |-> "none"]
    /\ host = [r \in Runs |-> None]

OpenRuns == {r \in Runs : life[r] = "open"}

NoPlace(h) ==
    \/ Cardinality(OpenRuns) >= GlobalCap
    \/ Cardinality({r \in OpenRuns : host[r] = h}) >= PerHostCap

\* reserve: the caps are looked at, no place is taken.
Ask(r, h) ==
    /\ life[r] = "none"
    /\ life' = [life EXCEPT ![r] = IF NoPlace(h) THEN "over" ELSE "asked"]
    /\ host' = [host EXCEPT ![r] = h]

\* insert: the place is taken, whoever else was asked for since.
Admit(r) ==
    /\ life[r] = "asked"
    /\ ~ NoPlace(host[r])
    /\ life' = [life EXCEPT ![r] = "open"]
    /\ UNCHANGED host

\* The open request fails on its way.
GiveUp(r) ==
    /\ life[r] = "asked"
    /\ life' = [life EXCEPT ![r] = "over"]
    /\ UNCHANGED host

\* remove
End(r) ==
    /\ life[r] = "open"
    /\ life' = [life EXCEPT ![r] = "over"]
    /\ UNCHANGED host

RunsNext ==
    \E r \in Runs : Admit(r) \/ GiveUp(r) \/ End(r) \/ \E h \in Hosts : Ask(r, h)

RunsSpec == RunsInit /\ [][RunsNext]_runVars
=============================================================================
