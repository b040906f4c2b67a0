------------------------------ MODULE AgentHub ------------------------------
(***************************************************************************)
(* The in-process hub of agent connections: handleAgentWS with its read    *)
(* and write pumps, agentHub.register/unregister/lookup, and the handlers  *)
(* that close a connection from outside (handleInternalAgentKick,          *)
(* handleInternalHostDelete).  Closing an already closed Go channel        *)
(* panics; gin's recovery ends only the handler it happened in.            *)
(***************************************************************************)
EXTENDS Naturals

CONSTANTS Conns,                 \* one element per /ws/agent request
          Tokens, Bots, Agents, Hosts,
          TokenOf,               \* agentConn.tokenID
          BotOf, AgentOf,        \* ?bot_id=, ?agent_id= of the request, or None
          HostOf,                \* agentConn.hostID as resolved, or None
          Kicks,                 \* kick and delete requests
          None

ASSUME HubAssumption ==
    /\ TokenOf \in [Conns -> Tokens]
    /\ BotOf \in [Conns -> Bots \cup {None}]
    /\ AgentOf \in [Conns -> Agents \cup {None}]
    /\ HostOf \in [Conns -> Hosts \cup {None}]
    /\ None \notin Conns \cup Bots \cup Agents \cup Hosts

VARIABLES hpc,         \* the handler goroutine of each connection
          displaced,   \* what register returned to it
          byToken,     \* agentHub.byToken
          byBot,       \* agentHub.byBot
          closed,      \* connections whose close channel is closed
          pump,        \* connections whose write pump runs
          kpc, kconn   \* kick handlers and the connection they looked up

vars == <<hpc, displaced, byToken, byBot, closed, pump, kpc, kconn>>

\* A handler between register and unregister.
Registered == {"displacing", "serving", "zombie", "leaving"}

TypeOK ==
    /\ hpc \in [Conns -> {"idle", "connected", "displacing", "serving", "zombie",
                          "leaving", "unregistered", "closing", "gone"}]
    /\ displaced \in [Conns -> Conns \cup {None}]
    /\ byToken \in [Tokens -> Conns \cup {None}]
    /\ byBot \in [Bots -> Conns \cup {None}]
    /\ closed \subseteq Conns
    /\ pump \subseteq Conns
    /\ kpc \in [Kicks -> {"idle", "found", "closing", "done"}]
    /\ kconn \in [Kicks -> Conns \cup {None}]

Init ==
    /\ hpc = [c \in Conns |-> "idle"]
    /\ displaced = [c \in Conns |-> None]
    /\ byToken = [t \in Tokens |-> None]
    /\ byBot = [b \in Bots |-> None]
    /\ closed = {}
    /\ pump = {}
    /\ kpc = [k \in Kicks |-> "idle"]
    /\ kconn = [k \in Kicks |-> None]

Goto(c, from, to) == hpc[c] = from /\ hpc' = [hpc EXCEPT ![c] = to]

-----------------------------------------------------------------------------
(* handleAgentWS *)

\* Token verified, host resolved, socket upgraded: the agentConn exists.
Connect(c) ==
    /\ Goto(c, "idle", "connected")
    /\ UNCHANGED <<displaced, byToken, byBot, closed, pump, kpc, kconn>>

\* Mutant of Forget: the `cur == c` test is dropped, so an old connection's
\* late cleanup removes the new one.
ForgetAny(index, key, c) ==
    [k \in DOMAIN index |-> IF k = key THEN None ELSE index[k]]

\* What an index holds under key after the connection c has left it: a newer
\* holder stays.
Forget(index, key, c) ==
    [k \in DOMAIN index |-> IF k = key /\ index[k] = c THEN None ELSE index[k]]

\* Mutant of Register: the caller's `displaced != nil` test is dropped.
RegisterDisplacesNil(c) ==
    LET prev == byToken[TokenOf[c]] IN
    /\ Goto(c, "connected", "displacing")
    /\ displaced' = [displaced EXCEPT ![c] = prev]
    /\ byToken' = [byToken EXCEPT ![TokenOf[c]] = c]
    /\ byBot' = IF BotOf[c] = None THEN byBot ELSE [byBot EXCEPT ![BotOf[c]] = c]
    /\ UNCHANGED <<closed, pump, kpc, kconn>>

\* agentHub.register
Register(c) ==
    LET prev == byToken[TokenOf[c]] IN
    /\ Goto(c, "connected", IF prev = None THEN "serving" ELSE "displacing")
    /\ displaced' = [displaced EXCEPT ![c] = prev]
    /\ byToken' = [byToken EXCEPT ![TokenOf[c]] = c]
    /\ byBot' = IF BotOf[c] = None THEN byBot ELSE [byBot EXCEPT ![BotOf[c]] = c]
    /\ pump' = IF prev = None THEN pump \cup {c} ELSE pump
    /\ UNCHANGED <<closed, kpc, kconn>>

\* Mutant of CloseDisplaced: the old connection is left open.
CloseDisplacedForgotten(c) ==
    /\ displaced[c] \notin closed
    /\ Goto(c, "displacing", "serving")
    /\ pump' = pump \cup {c}
    /\ UNCHANGED <<displaced, byToken, byBot, closed, kpc, kconn>>

\* close(displaced.close), then the pumps start.
CloseDisplaced(c) ==
    /\ displaced[c] \notin closed
    /\ Goto(c, "displacing", "serving")
    /\ closed' = closed \cup {displaced[c]}
    /\ pump' = pump \cup {c}
    /\ UNCHANGED <<displaced, byToken, byBot, kpc, kconn>>

\* The displaced connection was closed before, by a kick or by its own defer:
\* close panics, no pump starts and nobody will unregister the new connection.
DisplacePanics(c) ==
    /\ displaced[c] \in closed
    /\ Goto(c, "displacing", "zombie")
    /\ UNCHANGED <<displaced, byToken, byBot, closed, pump, kpc, kconn>>

\* ReadMessage fails: the peer went away or was silent for 90 s.  The read
\* pump does not look at ac.close.
ReadFails(c) ==
    /\ Goto(c, "serving", "leaving")
    /\ UNCHANGED <<displaced, byToken, byBot, closed, pump, kpc, kconn>>

\* Mutant of Unregister: the bot index is not cleaned up.
UnregisterKeepsBot(c) ==
    /\ Goto(c, "leaving", "unregistered")
    /\ byToken' = Forget(byToken, TokenOf[c], c)
    /\ UNCHANGED <<displaced, byBot, closed, pump, kpc, kconn>>

\* agentHub.unregister
Unregister(c) ==
    /\ Goto(c, "leaving", "unregistered")
    /\ byToken' = Forget(byToken, TokenOf[c], c)
    /\ byBot' = Forget(byBot, BotOf[c], c)
    /\ UNCHANGED <<displaced, closed, pump, kpc, kconn>>

\* Mutant of CheckOwnClose: the defer does not close ac.close.
CheckOwnCloseSkipped(c) ==
    /\ Goto(c, "unregistered", "gone")
    /\ UNCHANGED <<displaced, byToken, byBot, closed, pump, kpc, kconn>>

\* The defer's select on ac.close ...
CheckOwnClose(c) ==
    /\ Goto(c, "unregistered", IF c \in closed THEN "gone" ELSE "closing")
    /\ UNCHANGED <<displaced, byToken, byBot, closed, pump, kpc, kconn>>

\* ... and its close, which panics if somebody else was faster; the handler
\* ends either way.
CloseOwn(c) ==
    /\ Goto(c, "closing", "gone")
    /\ closed' = closed \cup {c}
    /\ UNCHANGED <<displaced, byToken, byBot, pump, kpc, kconn>>

\* runAgentWritePump returns: ac.close, or a write to the socket fails.  It
\* does not close the socket.
PumpExits(c) ==
    /\ c \in pump
    /\ pump' = pump \ {c}
    /\ UNCHANGED <<hpc, displaced, byToken, byBot, closed, kpc, kconn>>

-----------------------------------------------------------------------------
(* Lookups, and the handlers that use them to close a connection *)

\* agentHub.lookup: the bot's entry, else a scan by agent id.
Lookup(key) ==
    IF key \in Bots /\ byBot[key] # None THEN {byBot[key]}
    ELSE {c \in Conns : byToken[TokenOf[c]] = c /\ AgentOf[c] = key /\ key # None}

\* agentHub.lookupByHostID
LookupByHost(h) == {c \in Conns : byToken[TokenOf[c]] = c /\ HostOf[c] = h}

\* The kick handler tries the agent id, then the bot id; a host deletion
\* takes a connection of the host.  Not finding one changes nothing.
KickFind(k) ==
    /\ kpc[k] = "idle"
    /\ \/ \E a \in Agents \cup {None}, b \in Bots \cup {None} :
             \E c \in IF Lookup(a) # {} THEN Lookup(a) ELSE Lookup(b) :
                kconn' = [kconn EXCEPT ![k] = c]
       \/ \E h \in Hosts : \E c \in LookupByHost(h) : kconn' = [kconn EXCEPT ![k] = c]
    /\ kpc' = [kpc EXCEPT ![k] = "found"]
    /\ UNCHANGED <<hpc, displaced, byToken, byBot, closed, pump>>

\* select { case <-conn.close: default: ... }
KickCheck(k) ==
    /\ kpc[k] = "found"
    /\ kpc' = [kpc EXCEPT ![k] = IF kconn[k] \in closed THEN "done" ELSE "closing"]
    /\ UNCHANGED <<hpc, displaced, byToken, byBot, closed, pump, kconn>>

\* close(conn.close); a panic ends the handler as well.
KickClose(k) ==
    /\ kpc[k] = "closing"
    /\ kpc' = [kpc EXCEPT ![k] = "done"]
    /\ closed' = closed \cup {kconn[k]}
    /\ UNCHANGED <<hpc, displaced, byToken, byBot, pump, kconn>>

-----------------------------------------------------------------------------

Handler(c) ==
    \/ Register(c) \/ CloseDisplaced(c) \/ DisplacePanics(c) \/ Unregister(c)
    \/ CheckOwnClose(c) \/ CloseOwn(c)

Next ==
    \/ \E c \in Conns : Connect(c) \/ Handler(c) \/ ReadFails(c) \/ PumpExits(c)
    \/ \E k \in Kicks : KickFind(k) \/ KickCheck(k) \/ KickClose(k)

\* Runnable goroutines run; nothing makes an agent hang up.
Fairness ==
    /\ \A c \in Conns : WF_vars(Handler(c))
    /\ \A c \in Conns : WF_vars(c \in closed /\ PumpExits(c))
    /\ \A k \in Kicks : WF_vars(KickCheck(k) \/ KickClose(k))

Spec == Init /\ [][Next]_vars /\ Fairness

-----------------------------------------------------------------------------
(* Properties *)

\* A reconnecting agent never loses its new connection to the old one's
\* late cleanup: a connection whose handler has not unregistered is the one its
\* token leads to, unless a newer connection has displaced it.
NewestIsRegistered ==
    \A c \in Conns :
        hpc[c] \in Registered =>
            byToken[TokenOf[c]] = c \/ \E d \in Conns : displaced[d] = c

\* At most one open connection per token: of two registered handlers of one
\* token with open close channels, one is about to be closed by whoever
\* displaced it.
OneOpenPerToken ==
    \A c, d \in Conns :
        /\ c # d
        /\ TokenOf[c] = TokenOf[d]
        /\ hpc[c] \in Registered /\ hpc[d] \in Registered
        /\ {c, d} \cap closed = {}
        => \E e \in Conns : hpc[e] = "displacing" /\ displaced[e] \in {c, d}

\* The bot index never leads to a connection that has been unregistered, and
\* a bot's dispatches never reach another bot's agent.
BotLeadsToRegistered ==
    \A b \in Bots :
        byBot[b] # None => hpc[byBot[b]] \in Registered /\ BotOf[byBot[b]] = b

\* The hub is what the sessions assume of it: AgentLink, with "inHub" read off
\* the token map.
LinkPhase == [c \in Conns |->
    CASE hpc[c] \in {"idle", "connected"} -> "new"
      [] hpc[c] \in Registered -> "up"
      [] OTHER -> "down"]
InHub == {c \in Conns : byToken[TokenOf[c]] = c}
Link == INSTANCE AgentLink WITH phase <- LinkPhase, inHub <- InHub
ImplementsLink == Link!LinkSpec

\* The hub's comment "lookup resolves bot_user_id or agent_id to a live conn":
\* a connection the token map leads to has a handler that will read from it
\* and unregister it.
RegisteredIsServed ==
    \A c \in Conns : byToken[TokenOf[c]] = c => hpc[c] # "zombie"

\* What is left of it: such a handler panicked because the connection it displaced
\* had been closed already, by an endpoint that kicked it or by its own read
\* pump's defer; nothing else closes a connection under its successor's feet.
ZombieHasCause ==
    \A c \in Conns :
        hpc[c] = "zombie" =>
            /\ displaced[c] # None
            /\ \/ \E k \in Kicks : kpc[k] = "done" /\ kconn[k] = displaced[c]
               \/ hpc[displaced[c]] = "gone"
=============================================================================
