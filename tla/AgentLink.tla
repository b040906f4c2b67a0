----------------------------- MODULE AgentLink -----------------------------
(***************************************************************************)
(* What the hub promises about one agent WebSocket, as the parts of        *)
(* hosts-svc that hold an *agentConn see it.  A connection has three       *)
(* independent facets: the read pump's life (phase), the membership in     *)
(* agentHub.byToken (inHub) and the `close` channel (closed), which other  *)
(* goroutines select on.  AgentHub implements this module.                 *)
(***************************************************************************)

CONSTANTS Conns,    \* every *agentConn the process ever creates
          Tokens,   \* agent tokens
          TokenOf   \* agentConn.tokenID, fixed when the connection is made

ASSUME LinkAssumption == TokenOf \in [Conns -> Tokens]

VARIABLES phase,    \* "new": not registered; "up": read pump runs; "down": it returned
          inHub,    \* connections byToken holds
          closed    \* connections whose close channel is closed

linkVars == <<phase, inHub, closed>>

LinkTypeOK ==
    /\ phase \in [Conns -> {"new", "up", "down"}]
    /\ inHub \subseteq Conns
    /\ closed \subseteq Conns

LinkInit ==
    /\ phase = [c \in Conns |-> "new"]
    /\ inHub = {}
    /\ closed = {}

-----------------------------------------------------------------------------

\* agentHub.register: the connection takes its token's place in the hub; the
\* previous holder leaves the map but its read pump keeps running.
Attach(c) ==
    /\ phase[c] = "new"
    /\ phase' = [phase EXCEPT ![c] = "up"]
    /\ inHub' = {d \in inHub : TokenOf[d] # TokenOf[c]} \cup {c}
    /\ UNCHANGED closed

\* The close channel is closed: by the connection that displaced this one, by
\* a kick, by a host deletion or by the read pump's defer.
Close(c) ==
    /\ phase[c] # "new"
    /\ c \notin closed
    /\ closed' = closed \cup {c}
    /\ UNCHANGED <<phase, inHub>>

\* The read pump returns and its defer unregisters the connection.
Drop(c) ==
    /\ phase[c] = "up"
    /\ phase' = [phase EXCEPT ![c] = "down"]
    /\ inHub' = inHub \ {c}
    /\ UNCHANGED closed

LinkNext == \E c \in Conns : Attach(c) \/ Close(c) \/ Drop(c)

\* A connection that has left the hub is closed sooner or later: whoever
\* displaced it, or its own defer, does so without waiting for anybody.
CloseAfterLeaving(c) == c \notin inHub /\ Close(c)

LinkFairness == \A c \in Conns : WF_linkVars(CloseAfterLeaving(c))

LinkSpec == LinkInit /\ [][LinkNext]_linkVars /\ LinkFairness
=============================================================================
