--------------------------- MODULE ShellSessions ---------------------------
(***************************************************************************)
(* Shell runs: POST /shell/open, the session registry with its caps, the   *)
(* per-run supervisor goroutine, the browser bridges of                    *)
(* /ws/host/:id/shell/:run_id and DELETE /shell/sessions/:run_id, over the *)
(* agent connections of AgentLink.  Every handler is a process with a pc   *)
(* and yields wherever the code releases a mutex, touches the database or  *)
(* uses a channel.  The bytes of the stream are in ShellStream.            *)
(***************************************************************************)
EXTENDS AgentLink, Naturals, Sequences, FiniteSets

CONSTANTS Hosts, HostOf,      \* HostOf[c] = agentConn.hostID once resolved
          Runs,               \* host_skill_runs ids; one open request each
          Bridges,            \* browser WebSockets
          Kickers,            \* DELETE requests
          PerHostCap,         \* perHostShellCap (4 in the code)
          GlobalCap,          \* shellSessionRegistry.globalCap
          SendCap,            \* capacity of agentConn.send (64)
          EventCap,           \* capacity of a skillPending channel (16)
          StdoutCap,          \* capacity of a skillStdoutPending channel (256)
          SinkCap,            \* capacity of shellBridge.eventSink (16)
          FinalizeMayFail,    \* does the UPDATE of finalizeHostSkillRun ever fail?
          None                \* nil

ASSUME ShellAssumption ==
    /\ HostOf \in [Conns -> Hosts]
    /\ IsFiniteSet(Runs)
    /\ {PerHostCap, GlobalCap, SendCap, EventCap, StdoutCap, SinkCap} \subseteq Nat \ {0}
    /\ FinalizeMayFail \in BOOLEAN
    /\ None \notin Conns \cup Hosts \cup Runs \cup Bridges

VARIABLES opc,        \* open handler of each run
          rhost,      \* the host the run was opened on
          rconn,      \* the agentConn the open handler looked up
          row,        \* host_skill_runs.status, with the cause of a failure
          byRun,      \* shellSessionRegistry.byRun
          byHost,     \* shellSessionRegistry.byHost
          slot,       \* shellSession.bridge
          tracked,    \* runs whose channels rconn holds (skillPending, skillStdoutPending)
          eventQ,     \* the event channel of the run
          stdoutN,    \* number of chunks in its stdout channel
          signal,     \* the channel `first` of startShellSupervisor
          spc         \* supervisor goroutine
VARIABLES sendQ,      \* agentConn.send
          pump,       \* connections whose write pump runs
          agent       \* the PTY on the agent's side
VARIABLES bpc, brun, bconn, bprev, evSink, cancelled,    \* browser bridges
          kpc, krun, khost, kconn                        \* kick handlers

openVars   == <<opc, rhost, rconn, row>>
regVars    == <<byRun, byHost, slot>>
chanVars   == <<tracked, eventQ, stdoutN, signal, spc>>
agentVars  == <<sendQ, pump, agent>>
bridgeVars == <<bpc, brun, bconn, bprev, evSink, cancelled>>
kickVars   == <<kpc, krun, khost, kconn>>
vars == <<linkVars, openVars, regVars, chanVars, agentVars, bridgeVars, kickVars>>

RowStates == {"none", "starting", "failed:dispatch", "failed:registry", "ended"}
Frames == [kind : {"start", "stop", "stdin"}, run : Runs]

OpenTypeOK ==
    /\ opc \in [Runs -> {"idle", "reserved", "routed", "created", "tracked",
                         "undispatched", "started", "refused", "inserted",
                         "waiting", "opened", "rejected"}]
    /\ rhost \in [Runs -> Hosts \cup {None}]
    /\ rconn \in [Runs -> Conns \cup {None}]
    /\ row \in [Runs -> RowStates]

RegTypeOK ==
    /\ byRun \subseteq Runs
    /\ byHost \in [Hosts -> SUBSET Runs]
    /\ slot \in [Runs -> Bridges \cup {None}]

ChanTypeOK ==
    /\ tracked \subseteq Runs
    /\ eventQ \in [Runs -> Seq({"state", "exit"})]
    /\ stdoutN \in [Runs -> 0 .. StdoutCap]
    /\ signal \in [Runs -> {"none", "ok", "failed"}]
    /\ spc \in [Runs -> {"none", "loop", "finalize", "snatch", "remove", "untrack", "done"}]

AgentTypeOK ==
    /\ sendQ \in [Conns -> Seq(Frames)]
    /\ pump \subseteq Conns
    /\ agent \in [Runs -> {"none", "running", "stopping", "over"}]

BridgeTypeOK ==
    /\ bpc \in [Bridges -> {"idle", "routed", "admitted", "evicting", "live", "closing", "done"}]
    /\ brun \in [Bridges -> Runs \cup {None}]
    /\ bconn \in [Bridges -> Conns \cup {None}]
    /\ bprev \in [Bridges -> Bridges \cup {None}]
    /\ evSink \in [Bridges -> Seq({"state", "exit"})]
    /\ cancelled \subseteq Bridges

KickTypeOK ==
    /\ kpc \in [Kickers -> {"idle", "found", "severed", "routed", "done"}]
    /\ krun \in [Kickers -> Runs \cup {None}]
    /\ khost \in [Kickers -> Hosts \cup {None}]
    /\ kconn \in [Kickers -> Conns \cup {None}]

TypeOK ==
    /\ LinkTypeOK /\ OpenTypeOK /\ RegTypeOK /\ ChanTypeOK
    /\ AgentTypeOK /\ BridgeTypeOK /\ KickTypeOK

Init ==
    /\ LinkInit
    /\ opc = [r \in Runs |-> "idle"]
    /\ rhost = [r \in Runs |-> None]
    /\ rconn = [r \in Runs |-> None]
    /\ row = [r \in Runs |-> "none"]
    /\ byRun = {}
    /\ byHost = [h \in Hosts |-> {}]
    /\ slot = [r \in Runs |-> None]
    /\ tracked = {}
    /\ eventQ = [r \in Runs |-> <<>>]
    /\ stdoutN = [r \in Runs |-> 0]
    /\ signal = [r \in Runs |-> "none"]
    /\ spc = [r \in Runs |-> "none"]
    /\ sendQ = [c \in Conns |-> <<>>]
    /\ pump = {}
    /\ agent = [r \in Runs |-> "none"]
    /\ bpc = [b \in Bridges |-> "idle"]
    /\ brun = [b \in Bridges |-> None]
    /\ bconn = [b \in Bridges |-> None]
    /\ bprev = [b \in Bridges |-> None]
    /\ evSink = [b \in Bridges |-> <<>>]
    /\ cancelled = {}
    /\ kpc = [k \in Kickers |-> "idle"]
    /\ krun = [k \in Kickers |-> None]
    /\ khost = [k \in Kickers |-> None]
    /\ kconn = [k \in Kickers |-> None]

-----------------------------------------------------------------------------
(* Helpers *)

At(pcs, x, from, to) == pcs[x] = from /\ pcs' = [pcs EXCEPT ![x] = to]

\* agentHub.lookupByHostID: some registered connection of the host.
Routes(h) == {c \in inHub : HostOf[c] = h}

\* The select of every dispatchSkill*: the frame enters the buffer, even of a
\* closed connection, while there is room ...
Enqueue(c, kind, r) ==
    /\ Len(sendQ[c]) < SendCap
    /\ sendQ' = [sendQ EXCEPT ![c] = Append(@, [kind |-> kind, run |-> r])]

\* ... or the connection is closed, or the buffer stays full for 5 s.
SendFails(c) == c \in closed \/ Len(sendQ[c]) >= SendCap

\* A dispatch whose error the caller ignores.
TryEnqueue(c, kind, r) ==
    \/ Enqueue(c, kind, r)
    \/ SendFails(c) /\ UNCHANGED sendQ

\* The cap checks of reserve and insert.
CapReached(h) ==
    \/ Cardinality(byRun) >= GlobalCap
    \/ Cardinality(byHost[h]) >= PerHostCap

\* A non-blocking send on a channel of capacity cap.
Offer(q, x, cap) == IF Len(q) < cap THEN Append(q, x) ELSE q

\* finalizeHostSkillRun; every caller ignores its error.
Finalize(r, status) ==
    \/ row' = [row EXCEPT ![r] = status]
    \/ FinalizeMayFail /\ UNCHANGED row

-----------------------------------------------------------------------------
(* POST /shell/open *)

\* shellSessions.reserve: the caps are checked, nothing is taken.
OpenReserve(r, h) ==
    /\ opc[r] = "idle"
    /\ opc' = [opc EXCEPT ![r] = IF CapReached(h) THEN "rejected" ELSE "reserved"]
    /\ rhost' = [rhost EXCEPT ![r] = h]
    /\ UNCHANGED <<linkVars, rconn, row, regVars, chanVars, agentVars, bridgeVars, kickVars>>

\* agentHub.lookupByHostID
OpenRoute(r) ==
    /\ IF Routes(rhost[r]) = {}
       THEN At(opc, r, "reserved", "rejected") /\ UNCHANGED rconn
       ELSE /\ At(opc, r, "reserved", "routed")
            /\ \E c \in Routes(rhost[r]) : rconn' = [rconn EXCEPT ![r] = c]
    /\ UNCHANGED <<linkVars, rhost, row, regVars, chanVars, agentVars, bridgeVars, kickVars>>

\* createHostSkillRunWithMeta; the INSERT may fail.
OpenCreate(r) ==
    /\ \/ At(opc, r, "routed", "created") /\ row' = [row EXCEPT ![r] = "starting"]
       \/ At(opc, r, "routed", "rejected") /\ UNCHANGED row
    /\ UNCHANGED <<linkVars, rhost, rconn, regVars, chanVars, agentVars, bridgeVars, kickVars>>

\* Mutant of OpenTrack: the channels are not tracked before the dispatch.
OpenTrackForgotten(r) ==
    /\ At(opc, r, "created", "tracked") \/ At(opc, r, "created", "rejected")
    /\ UNCHANGED <<linkVars, rhost, rconn, row, regVars, chanVars, agentVars,
                   bridgeVars, kickVars>>

\* getHostSkillForDispatch, whose error path returns at once, then
\* trackShellChannels.
OpenTrack(r) ==
    /\ \/ At(opc, r, "created", "tracked") /\ tracked' = tracked \cup {r}
       \/ At(opc, r, "created", "rejected") /\ UNCHANGED tracked
    /\ UNCHANGED <<linkVars, rhost, rconn, row, regVars, eventQ, stdoutN, signal, spc,
                   agentVars, bridgeVars, kickVars>>

\* dispatchSkillStart
OpenDispatch(r) ==
    /\ \/ At(opc, r, "tracked", "started") /\ Enqueue(rconn[r], "start", r)
       \/ At(opc, r, "tracked", "undispatched") /\ SendFails(rconn[r]) /\ UNCHANGED sendQ
    /\ UNCHANGED <<linkVars, rhost, rconn, row, regVars, chanVars, pump, agent,
                   bridgeVars, kickVars>>

\* The error path of dispatchSkillStart: untrack, finalize, 502.
OpenUndispatched(r) ==
    /\ At(opc, r, "undispatched", "rejected")
    /\ tracked' = tracked \ {r}
    /\ Finalize(r, "failed:dispatch")
    /\ UNCHANGED <<linkVars, rhost, rconn, regVars, eventQ, stdoutN, signal, spc,
                   agentVars, bridgeVars, kickVars>>

\* Mutant of OpenInsert: reserve's check is trusted.
OpenInsertUnchecked(r) ==
    /\ At(opc, r, "started", "inserted")
    /\ byRun' = byRun \cup {r}
    /\ byHost' = [byHost EXCEPT ![rhost[r]] = @ \cup {r}]
    /\ UNCHANGED <<linkVars, rhost, rconn, row, slot, chanVars, agentVars, bridgeVars, kickVars>>

\* shellSessions.insert checks the caps again and registers the session ...
OpenInsert(r) ==
    /\ At(opc, r, "started", "inserted")
    /\ ~ CapReached(rhost[r])
    /\ byRun' = byRun \cup {r}
    /\ byHost' = [byHost EXCEPT ![rhost[r]] = @ \cup {r}]
    /\ UNCHANGED <<linkVars, rhost, rconn, row, slot, chanVars, agentVars, bridgeVars, kickVars>>

\* ... or, when one was reached meanwhile, the agent is told to stop.
OpenFull(r) ==
    /\ At(opc, r, "started", "refused")
    /\ CapReached(rhost[r])
    /\ TryEnqueue(rconn[r], "stop", r)
    /\ UNCHANGED <<linkVars, rhost, rconn, row, regVars, chanVars, pump, agent,
                   bridgeVars, kickVars>>

\* Mutant of OpenRefused: the channels stay tracked.
OpenRefusedTracked(r) ==
    /\ At(opc, r, "refused", "rejected")
    /\ Finalize(r, "failed:registry")
    /\ UNCHANGED <<linkVars, rhost, rconn, regVars, chanVars, agentVars, bridgeVars, kickVars>>

\* The rest of the registry-full path: untrack, finalize, 429.
OpenRefused(r) ==
    /\ At(opc, r, "refused", "rejected")
    /\ tracked' = tracked \ {r}
    /\ Finalize(r, "failed:registry")
    /\ UNCHANGED <<linkVars, rhost, rconn, regVars, eventQ, stdoutN, signal, spc,
                   agentVars, bridgeVars, kickVars>>

\* startShellSupervisor
OpenSupervise(r) ==
    /\ At(opc, r, "inserted", "waiting")
    /\ spc' = [spc EXCEPT ![r] = "loop"]
    /\ UNCHANGED <<linkVars, rhost, rconn, row, regVars, tracked, eventQ, stdoutN, signal,
                   agentVars, bridgeVars, kickVars>>

\* Mutant of OpenAnswer: the 502 path finalizes the row as the other two do.
OpenAnswerFinalizes(r) ==
    /\ \/ signal[r] = "failed" /\ At(opc, r, "waiting", "rejected") /\ Finalize(r, "failed:dispatch")
       \/ At(opc, r, "waiting", "opened") /\ UNCHANGED row
    /\ UNCHANGED <<linkVars, rhost, rconn, regVars, chanVars, agentVars, bridgeVars, kickVars>>

\* The final select: a failed first signal is a 502, a good one or 1.5 s
\* without any is a 201.
OpenAnswer(r) ==
    /\ \/ signal[r] = "failed" /\ At(opc, r, "waiting", "rejected")
       \/ At(opc, r, "waiting", "opened")
    /\ UNCHANGED <<linkVars, rhost, rconn, row, regVars, chanVars, agentVars,
                   bridgeVars, kickVars>>

-----------------------------------------------------------------------------
(* runShellSupervisor *)

\* signalFirst: only the first call has an effect.
SignalFirst(r, s) ==
    signal' = [signal EXCEPT ![r] = IF @ = "none" THEN s ELSE @]

\* A skill event: forwardEvent to the attached bridge, then by kind.  The sink
\* is picked under the mutex and filled after it; sending never blocks and a
\* sink has no other sender, so the two are one step.
SupervisorEvent(r) ==
    /\ spc[r] = "loop"
    /\ eventQ[r] # <<>>
    /\ LET ev == Head(eventQ[r]) IN
       /\ eventQ' = [eventQ EXCEPT ![r] = Tail(@)]
       /\ evSink' = IF r \in byRun /\ slot[r] # None
                    THEN [evSink EXCEPT ![slot[r]] = Offer(@, ev, SinkCap)]
                    ELSE evSink
       /\ IF ev = "exit"
          THEN /\ SignalFirst(r, "failed")
               /\ spc' = [spc EXCEPT ![r] = "finalize"]
          ELSE /\ SignalFirst(r, "ok")
               /\ UNCHANGED spc
    /\ UNCHANGED <<linkVars, openVars, regVars, tracked, stdoutN, agentVars,
                   bpc, brun, bconn, bprev, cancelled, kickVars>>

\* A stdout chunk (what happens to its bytes is in ShellStream).
SupervisorStdout(r) ==
    /\ spc[r] = "loop"
    /\ stdoutN[r] > 0
    /\ stdoutN' = [stdoutN EXCEPT ![r] = @ - 1]
    /\ SignalFirst(r, "ok")
    /\ UNCHANGED <<linkVars, openVars, regVars, tracked, eventQ, spc, agentVars,
                   bridgeVars, kickVars>>

\* Mutant of SupervisorClosed: pending frames are drained first.
SupervisorClosedDrains(r) ==
    /\ rconn[r] \in closed /\ eventQ[r] = <<>> /\ stdoutN[r] = 0
    /\ At(spc, r, "loop", "finalize")
    /\ SignalFirst(r, "failed")
    /\ UNCHANGED <<linkVars, openVars, regVars, tracked, eventQ, stdoutN, agentVars,
                   bridgeVars, kickVars>>

\* Mutant of SupervisorClosed: a lost agent leaves the row as it is.
SupervisorClosedUnrecorded(r) ==
    /\ rconn[r] \in closed
    /\ At(spc, r, "loop", "snatch")
    /\ SignalFirst(r, "failed")
    /\ UNCHANGED <<linkVars, openVars, regVars, tracked, eventQ, stdoutN, agentVars,
                   bridgeVars, kickVars>>

\* conn.close is closed.  A select whose other cases are ready too picks any
\* of them.
SupervisorClosed(r) ==
    /\ rconn[r] \in closed
    /\ At(spc, r, "loop", "finalize")
    /\ SignalFirst(r, "failed")
    /\ UNCHANGED <<linkVars, openVars, regVars, tracked, eventQ, stdoutN, agentVars,
                   bridgeVars, kickVars>>

SupervisorFinalize(r) ==
    /\ At(spc, r, "finalize", "snatch")
    /\ Finalize(r, "ended")
    /\ UNCHANGED <<linkVars, opc, rhost, rconn, regVars, tracked, eventQ, stdoutN, signal,
                   agentVars, bridgeVars, kickVars>>

\* snatchBridge, and the cancel of the bridge it returns.
SupervisorSnatch(r) ==
    /\ At(spc, r, "snatch", "remove")
    /\ slot' = [slot EXCEPT ![r] = None]
    /\ cancelled' = cancelled \cup ({slot[r]} \ {None})
    /\ UNCHANGED <<linkVars, openVars, byRun, byHost, tracked, eventQ, stdoutN, signal,
                   agentVars, bpc, brun, bconn, bprev, evSink, kickVars>>

\* Mutant of SupervisorRemove: the host's index keeps the run.
SupervisorRemoveHalf(r) ==
    /\ At(spc, r, "remove", "untrack")
    /\ byRun' = byRun \ {r}
    /\ UNCHANGED <<linkVars, openVars, byHost, slot, tracked, eventQ, stdoutN, signal, agentVars,
                   bridgeVars, kickVars>>

\* shellSessions.remove
SupervisorRemove(r) ==
    /\ At(spc, r, "remove", "untrack")
    /\ byRun' = byRun \ {r}
    /\ byHost' = [byHost EXCEPT ![rhost[r]] = @ \ {r}]
    /\ UNCHANGED <<linkVars, openVars, slot, tracked, eventQ, stdoutN, signal, agentVars,
                   bridgeVars, kickVars>>

\* The deferred untracks; the channels become garbage.
SupervisorUntrack(r) ==
    /\ At(spc, r, "untrack", "done")
    /\ tracked' = tracked \ {r}
    /\ eventQ' = [eventQ EXCEPT ![r] = <<>>]
    /\ stdoutN' = [stdoutN EXCEPT ![r] = 0]
    /\ UNCHANGED <<linkVars, openVars, regVars, signal, agentVars, bridgeVars, kickVars>>

Supervisor(r) ==
    \/ SupervisorEvent(r) \/ SupervisorStdout(r) \/ SupervisorClosed(r)
    \/ SupervisorFinalize(r) \/ SupervisorSnatch(r) \/ SupervisorRemove(r)
    \/ SupervisorUntrack(r)

-----------------------------------------------------------------------------
(* handleHostShellWS *)

\* The connection is looked up before the session.
WSRoute(b, r, h) ==
    /\ IF Routes(h) = {}
       THEN At(bpc, b, "idle", "done") /\ UNCHANGED bconn
       ELSE /\ At(bpc, b, "idle", "routed")
            /\ \E c \in Routes(h) : bconn' = [bconn EXCEPT ![b] = c]
    /\ brun' = [brun EXCEPT ![b] = r]
    /\ UNCHANGED <<linkVars, openVars, regVars, chanVars, agentVars, bprev, evSink,
                   cancelled, kickVars>>

\* shellSessions.get, 404 without a session; the upgrade.
WSAdmit(b) ==
    /\ At(bpc, b, "routed", IF brun[b] \in byRun THEN "admitted" ELSE "done")
    /\ UNCHANGED <<linkVars, openVars, regVars, chanVars, agentVars, brun, bconn, bprev,
                   evSink, cancelled, kickVars>>

\* attachBridge returns nil when the session has gone, and the handler goes on.
WSAttach(b) ==
    /\ At(bpc, b, "admitted", "evicting")
    /\ IF brun[b] \in byRun
       THEN /\ bprev' = [bprev EXCEPT ![b] = slot[brun[b]]]
            /\ slot' = [slot EXCEPT ![brun[b]] = b]
       ELSE UNCHANGED <<bprev, slot>>
    /\ UNCHANGED <<linkVars, openVars, byRun, byHost, chanVars, agentVars, brun, bconn,
                   evSink, cancelled, kickVars>>

\* prev.cancel(), then the pumps start; prev goes out of scope.
WSEvict(b) ==
    /\ At(bpc, b, "evicting", "live")
    /\ cancelled' = cancelled \cup ({bprev[b]} \ {None})
    /\ bprev' = [bprev EXCEPT ![b] = None]
    /\ UNCHANGED <<linkVars, openVars, regVars, chanVars, agentVars, brun, bconn,
                   evSink, kickVars>>

\* An event reaches the browser loop; exit closes the socket.
WSEvent(b) ==
    /\ bpc[b] = "live"
    /\ evSink[b] # <<>>
    /\ evSink' = [evSink EXCEPT ![b] = Tail(@)]
    /\ bpc' = [bpc EXCEPT ![b] = IF Head(evSink[b]) = "exit" THEN "closing" ELSE @]
    /\ UNCHANGED <<linkVars, openVars, regVars, chanVars, agentVars, brun, bconn, bprev,
                   cancelled, kickVars>>

\* Mutant of WSStopped: the loop does not look at bridgeCtx.Done().
WSStoppedByConn(b) ==
    /\ bconn[b] \in closed
    /\ At(bpc, b, "live", "closing")
    /\ UNCHANGED <<linkVars, openVars, regVars, chanVars, agentVars, brun, bconn, bprev,
                   evSink, cancelled, kickVars>>

\* bridgeCtx.Done() or conn.close.
WSStopped(b) ==
    /\ b \in cancelled \/ bconn[b] \in closed
    /\ At(bpc, b, "live", "closing")
    /\ UNCHANGED <<linkVars, openVars, regVars, chanVars, agentVars, brun, bconn, bprev,
                   evSink, cancelled, kickVars>>

\* Keystrokes: dispatchSkillStdin; an error ends the reader, which cancels.
WSStdin(b) ==
    /\ bpc[b] = "live"
    /\ \/ Enqueue(bconn[b], "stdin", brun[b]) /\ UNCHANGED cancelled
       \/ SendFails(bconn[b]) /\ cancelled' = cancelled \cup {b} /\ UNCHANGED sendQ
    /\ UNCHANGED <<linkVars, openVars, regVars, chanVars, pump, agent, bpc, brun, bconn,
                   bprev, evSink, kickVars>>

\* The browser goes away: its reader fails and cancels, or a write fails.
WSBrowserGone(b) ==
    /\ bpc[b] = "live"
    /\ cancelled' = cancelled \cup {b}
    /\ UNCHANGED <<linkVars, openVars, regVars, chanVars, agentVars, bpc, brun, bconn,
                   bprev, evSink, kickVars>>

\* Mutant of WSDetach: the slot is cleared whoever holds it.
WSDetachAny(b) ==
    /\ At(bpc, b, "closing", "done")
    /\ slot' = IF brun[b] \in byRun THEN [slot EXCEPT ![brun[b]] = None] ELSE slot
    /\ cancelled' = cancelled \cup {b}
    /\ evSink' = [evSink EXCEPT ![b] = <<>>]
    /\ UNCHANGED <<linkVars, openVars, byRun, byHost, chanVars, agentVars, brun, bconn,
                   bprev, kickVars>>

\* The deferred detachBridge and cancel; the sinks become garbage.
WSDetach(b) ==
    /\ At(bpc, b, "closing", "done")
    /\ slot' = IF brun[b] \in byRun /\ slot[brun[b]] = b
               THEN [slot EXCEPT ![brun[b]] = None] ELSE slot
    /\ cancelled' = cancelled \cup {b}
    /\ evSink' = [evSink EXCEPT ![b] = <<>>]
    /\ UNCHANGED <<linkVars, openVars, byRun, byHost, chanVars, agentVars, brun, bconn,
                   bprev, kickVars>>

Bridge(b) ==
    \/ WSAdmit(b) \/ WSAttach(b) \/ WSEvict(b) \/ WSEvent(b) \/ WSStopped(b) \/ WSDetach(b)

-----------------------------------------------------------------------------
(* handleHostShellKick *)

\* The 404 of a run that is not registered changes nothing and is left out.
KickFind(k, r, h) ==
    /\ r \in byRun
    /\ At(kpc, k, "idle", "found")
    /\ krun' = [krun EXCEPT ![k] = r]
    /\ khost' = [khost EXCEPT ![k] = h]
    /\ UNCHANGED <<linkVars, openVars, regVars, chanVars, agentVars, bridgeVars, kconn>>

\* shellSessions.kick: the session is looked up under the mutex, its bridge is
\* read without it; the slot keeps the bridge.
KickSever(k) ==
    /\ At(kpc, k, "found", "severed")
    /\ cancelled' = IF krun[k] \in byRun
                    THEN cancelled \cup ({slot[krun[k]]} \ {None}) ELSE cancelled
    /\ UNCHANGED <<linkVars, openVars, regVars, chanVars, agentVars, bpc, brun, bconn,
                   bprev, evSink, krun, khost, kconn>>

\* lookupByHostID again: it need not find the connection the run lives on.
KickRoute(k) ==
    /\ IF Routes(khost[k]) = {}
       THEN At(kpc, k, "severed", "done") /\ UNCHANGED kconn
       ELSE /\ At(kpc, k, "severed", "routed")
            /\ \E c \in Routes(khost[k]) : kconn' = [kconn EXCEPT ![k] = c]
    /\ UNCHANGED <<linkVars, openVars, regVars, chanVars, agentVars, bridgeVars, krun, khost>>

KickStop(k) ==
    /\ At(kpc, k, "routed", "done")
    /\ TryEnqueue(kconn[k], "stop", krun[k])
    /\ UNCHANGED <<linkVars, openVars, regVars, chanVars, pump, agent, bridgeVars,
                   krun, khost, kconn>>

Kick(k) == KickSever(k) \/ KickRoute(k) \/ KickStop(k)

-----------------------------------------------------------------------------
(* The connections, their pumps and the agents behind them *)

\* A registered connection gets its write pump.
ConnAttach(c) ==
    /\ Attach(c)
    /\ pump' = pump \cup {c}
    /\ UNCHANGED <<openVars, regVars, chanVars, sendQ, agent, bridgeVars, kickVars>>

ConnClose(c) ==
    /\ Close(c)
    /\ UNCHANGED <<openVars, regVars, chanVars, agentVars, bridgeVars, kickVars>>

ConnDrop(c) ==
    /\ Drop(c)
    /\ UNCHANGED <<openVars, regVars, chanVars, agentVars, bridgeVars, kickVars>>

\* runAgentWritePump hands the next frame to the agent, which starts a PTY
\* for a run it does not know and ends the PTY it is told to stop.  (External:
\* the agent; only what hosts-svc can observe of it.)  A PTY that is told to
\* stop reports exit like one that ends by itself, in AgentExit.
PumpFrame(c) ==
    /\ c \in pump
    /\ phase[c] = "up"
    /\ sendQ[c] # <<>>
    /\ sendQ' = [sendQ EXCEPT ![c] = Tail(@)]
    /\ LET m == Head(sendQ[c]) IN
       agent' = IF m.kind = "start" /\ agent[m.run] = "none"
                THEN [agent EXCEPT ![m.run] = "running"]
                ELSE IF m.kind = "stop" /\ rconn[m.run] = c /\ agent[m.run] = "running"
                     THEN [agent EXCEPT ![m.run] = "stopping"]
                     ELSE agent
    /\ UNCHANGED <<linkVars, openVars, regVars, chanVars, pump, bridgeVars, kickVars>>

\* ac.close is closed and the frames stay queued, or a write fails and its
\* frame is lost.
PumpExit(c) ==
    /\ c \in pump
    /\ pump' = pump \ {c}
    /\ \/ c \in closed /\ UNCHANGED sendQ
       \/ sendQ[c] # <<>> /\ sendQ' = [sendQ EXCEPT ![c] = Tail(@)]
    /\ UNCHANGED <<linkVars, openVars, regVars, chanVars, agent, bridgeVars, kickVars>>

\* deliverSkillEvent of a state frame: dropped when untracked or full.
AgentState(r) ==
    /\ agent[r] \in {"running", "stopping"}
    /\ phase[rconn[r]] = "up"
    /\ eventQ' = [eventQ EXCEPT ![r] = IF r \in tracked THEN Offer(@, "state", EventCap) ELSE @]
    /\ UNCHANGED <<linkVars, openVars, regVars, tracked, stdoutN, signal, spc, agentVars,
                   bridgeVars, kickVars>>

\* Mutant of AgentStdout: the frame is delivered although the channel is full.
AgentStdoutUnbounded(r) ==
    /\ agent[r] \in {"running", "stopping"}
    /\ phase[rconn[r]] = "up"
    /\ stdoutN' = [stdoutN EXCEPT ![r] = IF r \in tracked THEN @ + 1 ELSE @]
    /\ UNCHANGED <<linkVars, openVars, regVars, tracked, eventQ, signal, spc, agentVars,
                   bridgeVars, kickVars>>

\* deliverSkillStdout
AgentStdout(r) ==
    /\ agent[r] \in {"running", "stopping"}
    /\ phase[rconn[r]] = "up"
    /\ stdoutN' = [stdoutN EXCEPT ![r] = IF r \in tracked /\ @ < StdoutCap THEN @ + 1 ELSE @]
    /\ UNCHANGED <<linkVars, openVars, regVars, tracked, eventQ, signal, spc, agentVars,
                   bridgeVars, kickVars>>

\* The PTY ends, told to or not: one exit frame, delivered like the others.
AgentExit(r) ==
    /\ agent[r] \in {"running", "stopping"}
    /\ phase[rconn[r]] = "up"
    /\ agent' = [agent EXCEPT ![r] = "over"]
    /\ eventQ' = [eventQ EXCEPT ![r] = IF r \in tracked THEN Offer(@, "exit", EventCap) ELSE @]
    /\ UNCHANGED <<linkVars, openVars, regVars, tracked, stdoutN, signal, spc, sendQ, pump,
                   bridgeVars, kickVars>>

-----------------------------------------------------------------------------

Open(r) ==
    \/ OpenRoute(r) \/ OpenCreate(r) \/ OpenTrack(r) \/ OpenDispatch(r)
    \/ OpenUndispatched(r) \/ OpenInsert(r) \/ OpenFull(r) \/ OpenRefused(r) \/ OpenSupervise(r)
    \/ OpenAnswer(r)

Next ==
    \/ \E r \in Runs, h \in Hosts : OpenReserve(r, h)
    \/ \E r \in Runs : Open(r) \/ Supervisor(r) \/ AgentState(r) \/ AgentStdout(r) \/ AgentExit(r)
    \/ \E b \in Bridges, r \in Runs, h \in Hosts : WSRoute(b, r, h)
    \/ \E b \in Bridges : Bridge(b) \/ WSStdin(b) \/ WSBrowserGone(b)
    \/ \E k \in Kickers, r \in Runs, h \in Hosts : KickFind(k, r, h)
    \/ \E k \in Kickers : Kick(k)
    \/ \E c \in Conns : ConnAttach(c) \/ ConnClose(c) \/ ConnDrop(c) \/ PumpFrame(c) \/ PumpExit(c)

Spec == Init /\ [][Next]_vars

\* Handlers and goroutines that are ready run: the Go scheduler starves none
\* of them, and every wait of the open handler and of a kick has a timeout.
\* A select whose conn.close case stays ready takes it eventually.
Fairness ==
    /\ LinkFairness
    /\ \A r \in Runs :
          /\ WF_vars(Open(r))
          /\ WF_vars(SupervisorClosed(r))
          /\ WF_vars(Supervisor(r))
    /\ \A b \in Bridges : WF_vars(Bridge(b)) /\ WF_vars(WSStopped(b))
    /\ \A k \in Kickers : WF_vars(Kick(k))

FairSpec == Spec /\ Fairness

-----------------------------------------------------------------------------
(* Properties *)

\* The caps hold in every interleaving of open requests, although reserve and
\* insert are two critical sections with a database write and a dispatch in
\* between: only insert's own check counts.
CapsHold ==
    /\ Cardinality(byRun) <= GlobalCap
    /\ \A h \in Hosts : Cardinality(byHost[h]) <= PerHostCap

\* The registry's two maps agree, and a session is registered exactly from
\* insert until its own supervisor removes it: no session is without the
\* goroutine that will end it, whichever bridges and kicks come and go.
SessionIsSupervised ==
    \A r \in Runs :
        /\ r \in byRun <=> \/ opc[r] = "inserted"
                           \/ spc[r] \in {"loop", "finalize", "snatch", "remove"}
        /\ \A h \in Hosts : r \in byHost[h] <=> r \in byRun /\ rhost[r] = h

\* trackShellChannels MUST precede dispatchSkillStart: while the start frame
\* is under way or the PTY runs, the run's channels are tracked, unless the
\* run has been given up (its open failed or its supervisor is leaving).
OutputHasChannel ==
    \A r \in Runs :
        (\/ agent[r] = "running"
         \/ \E c \in Conns, i \in 1 .. SendCap :
               i \in DOMAIN sendQ[c] /\ sendQ[c][i] = [kind |-> "start", run |-> r])
        => \/ r \in tracked
           \/ opc[r] = "rejected"
           \/ spc[r] = "done"

\* Nothing is left behind: when the open handler and the supervisor of a run
\* have both returned, the run is in no map of the registry and the connection
\* holds no channel for it.
NothingLeftBehind ==
    \A r \in Runs :
        opc[r] \in {"opened", "rejected"} /\ spc[r] \in {"none", "done"}
        => r \notin byRun \cup tracked

\* Last writer wins: while a session lives, a bridge that is attached to it and
\* has not been cancelled sits in the session's slot, or the bridge that took
\* the slot is about to cancel it.
LastWriterWins ==
    \A b \in Bridges :
        LET r == brun[b] IN
        /\ bpc[b] \in {"evicting", "live"}
        /\ b \notin cancelled
        /\ spc[r] = "loop"
        => \/ slot[r] = b
           \/ \E d \in Bridges : bpc[d] = "evicting" /\ bprev[d] = b

\* What host_skill_runs says can be relied on: a run without a row, or whose
\* row says that the dispatch failed, has no PTY and no start frame that could
\* still become one; one that the registry refused was never a session; one that
\* has ended is on its way out.
RowTellsTruth ==
    \A r \in Runs :
        /\ row[r] \in {"none", "failed:dispatch"} =>
              /\ agent[r] = "none"
              /\ \A c \in Conns : \A i \in DOMAIN sendQ[c] :
                    sendQ[c][i] # [kind |-> "start", run |-> r]
        /\ row[r] = "failed:registry" => r \notin byRun /\ spc[r] = "none"
        /\ row[r] = "ended" => spc[r] \in {"snatch", "remove", "untrack", "done"}

\* A run's outcome is recorded once: a terminal row is never written again, by
\* the handler that opened the run, its supervisor or anybody else.
FinalizedOnce ==
    [][\A r \in Runs : row[r] \notin {"none", "starting"} => row'[r] = row[r]]_vars

\* While the database answers (FinalizeMayFail = FALSE), a session never leaves the
\* registry with its row still open.  The supervisor drops the UPDATE's error: one
\* that fails leaves the row open for good (runShellSupervisor: finalize).
RowBeforeRemoval ==
    [][\A r \in Runs : r \in byRun \ byRun' => row[r] = "ended"]_vars

\* When an agent connection is closed, every run supervised over it is
\* finalized, removed and untracked.
ClosedLinkEndsRuns ==
    \A r \in Runs : (spc[r] = "loop" /\ rconn[r] \in closed) ~> spc[r] = "done"

\* A cancelled or cut off bridge lets go of its session.
CancelledBridgeLeaves ==
    \A b \in Bridges : (b \in cancelled /\ bpc[b] = "live") ~> bpc[b] = "done"

\* The life of a run as its registry and its open handler show it: asked from
\* reserve on, open while it is in byRun, over when its handler gave up or its
\* supervisor removed it.
LifeOf(r) ==
    IF r \in byRun THEN "open"
    ELSE CASE opc[r] = "idle" -> "none"
           [] opc[r] \in {"reserved", "routed", "created", "tracked", "undispatched",
                          "started", "refused"} -> "asked"
           [] OTHER -> "over"

\* With its database writes, dispatches and two maps, and with bridges and
\* kicks in between, the handlers and supervisors still do what ShellRuns
\* promises: a run is admitted while both caps have room, at one moment, and
\* one that has ended or was refused never holds a place again.
Registry == INSTANCE ShellRuns WITH life <- [r \in Runs |-> LifeOf(r)], host <- rhost
ImplementsRuns == Registry!RunsSpec

(* What the comments of the code say and the code does not do *)

\* snatchBridge is "Used by the supervisor on terminal events to evict the
\* browser before cleaning up the registry entry": once the supervisor has
\* returned, no browser of the run is left without a reason to close.
EndedRunEvictsBrowser ==
    \A b \in Bridges :
        bpc[b] = "live" /\ spc[brun[b]] = "done" =>
            \/ b \in cancelled
            \/ bconn[b] \in closed
            \/ \E i \in DOMAIN evSink[b] : evSink[b][i] = "exit"

=============================================================================
