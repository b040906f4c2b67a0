--------------------------- MODULE AgentHub_proofs ---------------------------
(***************************************************************************)
(* Proofs about AgentHub for any number of connections, tokens, bots,      *)
(* agents and kick requests.                                               *)
(***************************************************************************)
EXTENDS AgentHub, TLAPS

\* A handler that has not called register yet.
Fresh == {"idle", "connected"}

\* Nothing refers to a connection before it is registered.
FreshIsUnknown ==
    \A c \in Conns :
        hpc[c] \in Fresh =>
            /\ displaced[c] = None
            /\ \A d \in Conns : displaced[d] # c
            /\ \A k \in Kicks : kconn[k] # c

\* The token map leads to a registered connection of that token.
TokenLeadsToRegistered ==
    \A t \in Tokens :
        byToken[t] # None => hpc[byToken[t]] \in Registered /\ TokenOf[byToken[t]] = t

\* register returned an older connection of the same token, which is closed
\* unless the newer one is still about to close it.
DisplacedIsClosed ==
    \A c \in Conns :
        displaced[c] # None =>
            /\ TokenOf[displaced[c]] = TokenOf[c]
            /\ hpc[c] = "displacing" \/ displaced[c] \in closed

\* A handler is in its displacing step only with something to displace, and a
\* kick in its closing step only with something to close.
CloserHasTarget ==
    /\ \A c \in Conns : hpc[c] = "displacing" => displaced[c] # None
    /\ \A k \in Kicks : kpc[k] \in {"found", "closing"} => kconn[k] # None

IInv ==
    /\ TypeOK
    /\ FreshIsUnknown
    /\ TokenLeadsToRegistered
    /\ BotLeadsToRegistered
    /\ DisplacedIsClosed
    /\ CloserHasTarget
    /\ NewestIsRegistered
-----------------------------------------------------------------------------
(* The lookups *)

\* Whatever a lookup returns is a registered connection.
LEMMA LookupFindsRegistered ==
    ASSUME TypeOK, TokenLeadsToRegistered, BotLeadsToRegistered, NEW key
    PROVE  \A c \in Lookup(key) \cup LookupByHost(key) : c \in Conns /\ hpc[c] \in Registered
  <1>1. ASSUME NEW c \in Conns, byToken[TokenOf[c]] = c PROVE hpc[c] \in Registered
    BY <1>1, HubAssumption DEF TokenLeadsToRegistered
  <1>2. ASSUME key \in Bots, byBot[key] # None
        PROVE  byBot[key] \in Conns /\ hpc[byBot[key]] \in Registered
    BY <1>2 DEF TypeOK, BotLeadsToRegistered
  <1> QED
    BY <1>1, <1>2 DEF Lookup, LookupByHost

-----------------------------------------------------------------------------
(* The inductive invariant *)

LEMMA InitInv == Init => IInv
  BY HubAssumption DEF Init, IInv, TypeOK, FreshIsUnknown, Fresh, TokenLeadsToRegistered,
     BotLeadsToRegistered, DisplacedIsClosed, CloserHasTarget, NewestIsRegistered, Registered

LEMMA StepInv == IInv /\ [Next]_vars => IInv'
  <1> SUFFICES ASSUME IInv, [Next]_vars PROVE IInv'
    OBVIOUS
  <1> USE HubAssumption DEF IInv, Goto
  \* Registering puts the newcomer where its predecessor was.
  <1>1. ASSUME NEW c \in Conns, Register(c) PROVE IInv'
    <2> DEFINE prev == byToken[TokenOf[c]]
    <2>1. /\ hpc[c] \in Fresh
          /\ prev # None => prev \in Conns /\ hpc[prev] \in Registered /\ TokenOf[prev] = TokenOf[c]
          /\ prev # c
      BY <1>1 DEF Register, TypeOK, TokenLeadsToRegistered, Registered, Fresh
    <2>2. /\ displaced' = [displaced EXCEPT ![c] = prev]
          /\ hpc' = [hpc EXCEPT ![c] = IF prev = None THEN "serving" ELSE "displacing"]
          /\ byToken' = [byToken EXCEPT ![TokenOf[c]] = c]
          /\ UNCHANGED <<closed, kpc, kconn>>
      BY <1>1 DEF Register
    <2> HIDE DEF prev
    <2>3. TypeOK'
      BY <1>1 DEF Register, TypeOK
    <2>4. FreshIsUnknown'
      BY <2>1, <2>2 DEF TypeOK, FreshIsUnknown, Fresh, Registered
    <2>5. TokenLeadsToRegistered'
      BY <1>1 DEF Register, TypeOK, TokenLeadsToRegistered, Registered
    <2>6. BotLeadsToRegistered'
      BY <1>1 DEF Register, TypeOK, BotLeadsToRegistered, Registered
    <2>7. DisplacedIsClosed'
      BY <2>1, <2>2 DEF TypeOK, DisplacedIsClosed, FreshIsUnknown, Fresh
    <2>8. CloserHasTarget'
      BY <1>1 DEF Register, TypeOK, CloserHasTarget
    <2>9. NewestIsRegistered'
      <3> SUFFICES ASSUME NEW d \in Conns, hpc'[d] \in Registered, byToken'[TokenOf[d]] # d
                   PROVE  \E e \in Conns : displaced'[e] = d
        BY DEF NewestIsRegistered
      <3>1. d # c
        BY <2>2 DEF TypeOK
      <3>2. CASE d = prev
        BY <2>2, <3>2 DEF TypeOK
      <3>3. CASE d # prev
        <4>1. hpc[d] \in Registered /\ byToken[TokenOf[d]] # d
          BY <2>2, <3>1, <3>3 DEF TypeOK, prev
        <4>2. PICK e \in Conns : displaced[e] = d
          BY <4>1 DEF NewestIsRegistered
        <4>3. e # c
          BY <2>1, <4>2 DEF FreshIsUnknown
        <4> QED
          BY <2>2, <4>2, <4>3 DEF TypeOK
      <3> QED
        BY <3>2, <3>3
    <2> QED
      BY <2>3, <2>4, <2>5, <2>6, <2>7, <2>8, <2>9
  \* Unregistering removes nobody else's entries.
  <1>2. ASSUME NEW c \in Conns, Unregister(c) PROVE IInv'
    <2>1. /\ hpc[c] = "leaving"
          /\ hpc' = [hpc EXCEPT ![c] = "unregistered"]
          /\ UNCHANGED <<displaced, closed, pump, kpc, kconn>>
      BY <1>2 DEF Unregister
    <2>2. /\ byToken' \in [Tokens -> Conns \cup {None}]
          /\ \A t \in Tokens : byToken'[t] = IF t = TokenOf[c] /\ byToken[t] = c THEN None ELSE byToken[t]
      BY <1>2 DEF Unregister, Forget, TypeOK
    <2>3. /\ byBot' \in [Bots -> Conns \cup {None}]
          /\ \A b \in Bots : byBot'[b] = IF b = BotOf[c] /\ byBot[b] = c THEN None ELSE byBot[b]
      BY <1>2 DEF Unregister, Forget, TypeOK
    <2>4. TypeOK'
      BY <2>1, <2>2, <2>3 DEF TypeOK
    <2>5. FreshIsUnknown' /\ DisplacedIsClosed' /\ CloserHasTarget'
      BY <2>1 DEF TypeOK, FreshIsUnknown, Fresh, DisplacedIsClosed, CloserHasTarget
    <2>6. TokenLeadsToRegistered'
      BY <2>1, <2>2 DEF TypeOK, TokenLeadsToRegistered, Registered
    <2>7. BotLeadsToRegistered'
      BY <2>1, <2>3 DEF TypeOK, BotLeadsToRegistered, Registered
    <2>8. NewestIsRegistered'
      BY <2>1, <2>2 DEF TypeOK, NewestIsRegistered, Registered
    <2> QED
      BY <2>4, <2>5, <2>6, <2>7, <2>8
  \* A kick finds a registered connection.
  <1>3. ASSUME NEW k \in Kicks, KickFind(k) PROVE IInv'
    <2>1. PICK c \in Conns : /\ hpc[c] \in Registered
                             /\ kconn' = [kconn EXCEPT ![k] = c]
      BY <1>3, LookupFindsRegistered DEF KickFind
    <2>2. /\ kpc' = [kpc EXCEPT ![k] = "found"]
          /\ UNCHANGED <<hpc, displaced, byToken, byBot, closed, pump>>
      BY <1>3 DEF KickFind
    <2>3. TypeOK' /\ CloserHasTarget'
      BY <2>1, <2>2 DEF TypeOK, CloserHasTarget
    <2>4. FreshIsUnknown'
      BY <2>1, <2>2 DEF TypeOK, FreshIsUnknown, Fresh, Registered
    <2>5. /\ TokenLeadsToRegistered' /\ BotLeadsToRegistered' /\ DisplacedIsClosed'
          /\ NewestIsRegistered'
      BY <2>2 DEF TokenLeadsToRegistered, BotLeadsToRegistered, DisplacedIsClosed, NewestIsRegistered
    <2> QED
      BY <2>3, <2>4, <2>5
  \* The remaining steps leave the indexes alone.
  <1>4. ASSUME NEW c \in Conns, Connect(c) PROVE IInv'
    <2>1. TypeOK' /\ CloserHasTarget'
      BY <1>4 DEF Connect, TypeOK, CloserHasTarget
    <2>2. FreshIsUnknown' /\ DisplacedIsClosed'
      BY <1>4 DEF Connect, TypeOK, FreshIsUnknown, Fresh, DisplacedIsClosed
    <2>3. TokenLeadsToRegistered' /\ BotLeadsToRegistered' /\ NewestIsRegistered'
      BY <1>4 DEF Connect, TypeOK, TokenLeadsToRegistered, BotLeadsToRegistered,
         NewestIsRegistered, Registered
    <2> QED
      BY <2>1, <2>2, <2>3
  <1>5. ASSUME NEW c \in Conns, CloseDisplaced(c) PROVE IInv'
    <2>1. TypeOK' /\ CloserHasTarget'
      BY <1>5 DEF CloseDisplaced, TypeOK, CloserHasTarget
    <2>2. FreshIsUnknown' /\ DisplacedIsClosed'
      BY <1>5 DEF CloseDisplaced, TypeOK, FreshIsUnknown, Fresh, DisplacedIsClosed
    <2>3. TokenLeadsToRegistered' /\ BotLeadsToRegistered' /\ NewestIsRegistered'
      BY <1>5 DEF CloseDisplaced, TypeOK, TokenLeadsToRegistered, BotLeadsToRegistered,
         NewestIsRegistered, Registered
    <2> QED
      BY <2>1, <2>2, <2>3
  <1>6. ASSUME NEW c \in Conns, DisplacePanics(c) PROVE IInv'
    <2>1. TypeOK' /\ CloserHasTarget'
      BY <1>6 DEF DisplacePanics, TypeOK, CloserHasTarget
    <2>2. FreshIsUnknown' /\ DisplacedIsClosed'
      BY <1>6 DEF DisplacePanics, TypeOK, FreshIsUnknown, Fresh, DisplacedIsClosed
    <2>3. TokenLeadsToRegistered' /\ BotLeadsToRegistered' /\ NewestIsRegistered'
      BY <1>6 DEF DisplacePanics, TypeOK, TokenLeadsToRegistered, BotLeadsToRegistered,
         NewestIsRegistered, Registered
    <2> QED
      BY <2>1, <2>2, <2>3
  <1>7. ASSUME NEW c \in Conns, ReadFails(c) PROVE IInv'
    <2>1. TypeOK' /\ CloserHasTarget'
      BY <1>7 DEF ReadFails, TypeOK, CloserHasTarget
    <2>2. FreshIsUnknown' /\ DisplacedIsClosed'
      BY <1>7 DEF ReadFails, TypeOK, FreshIsUnknown, Fresh, DisplacedIsClosed
    <2>3. TokenLeadsToRegistered' /\ BotLeadsToRegistered' /\ NewestIsRegistered'
      BY <1>7 DEF ReadFails, TypeOK, TokenLeadsToRegistered, BotLeadsToRegistered,
         NewestIsRegistered, Registered
    <2> QED
      BY <2>1, <2>2, <2>3
  <1>8. ASSUME NEW c \in Conns, CheckOwnClose(c) PROVE IInv'
    <2>1. TypeOK' /\ CloserHasTarget'
      BY <1>8 DEF CheckOwnClose, TypeOK, CloserHasTarget
    <2>2. FreshIsUnknown' /\ DisplacedIsClosed'
      BY <1>8 DEF CheckOwnClose, TypeOK, FreshIsUnknown, Fresh, DisplacedIsClosed
    <2>3. TokenLeadsToRegistered' /\ BotLeadsToRegistered' /\ NewestIsRegistered'
      BY <1>8 DEF CheckOwnClose, TypeOK, TokenLeadsToRegistered, BotLeadsToRegistered,
         NewestIsRegistered, Registered
    <2> QED
      BY <2>1, <2>2, <2>3
  <1>9. ASSUME NEW c \in Conns, CloseOwn(c) PROVE IInv'
    <2>1. TypeOK' /\ CloserHasTarget'
      BY <1>9 DEF CloseOwn, TypeOK, CloserHasTarget
    <2>2. FreshIsUnknown' /\ DisplacedIsClosed'
      BY <1>9 DEF CloseOwn, TypeOK, FreshIsUnknown, Fresh, DisplacedIsClosed
    <2>3. TokenLeadsToRegistered' /\ BotLeadsToRegistered' /\ NewestIsRegistered'
      BY <1>9 DEF CloseOwn, TypeOK, TokenLeadsToRegistered, BotLeadsToRegistered,
         NewestIsRegistered, Registered
    <2> QED
      BY <2>1, <2>2, <2>3
  <1>10. ASSUME NEW c \in Conns, PumpExits(c) PROVE IInv'
    <2>1. TypeOK' /\ CloserHasTarget'
      BY <1>10 DEF PumpExits, TypeOK, CloserHasTarget
    <2>2. FreshIsUnknown' /\ DisplacedIsClosed'
      BY <1>10 DEF PumpExits, TypeOK, FreshIsUnknown, Fresh, DisplacedIsClosed
    <2>3. TokenLeadsToRegistered' /\ BotLeadsToRegistered' /\ NewestIsRegistered'
      BY <1>10 DEF PumpExits, TypeOK, TokenLeadsToRegistered, BotLeadsToRegistered,
         NewestIsRegistered, Registered
    <2> QED
      BY <2>1, <2>2, <2>3
  <1>11. ASSUME NEW k \in Kicks, KickCheck(k) PROVE IInv'
    <2>1. TypeOK' /\ CloserHasTarget'
      BY <1>11 DEF KickCheck, TypeOK, CloserHasTarget
    <2>2. FreshIsUnknown' /\ DisplacedIsClosed'
      BY <1>11 DEF KickCheck, TypeOK, FreshIsUnknown, Fresh, DisplacedIsClosed
    <2>3. TokenLeadsToRegistered' /\ BotLeadsToRegistered' /\ NewestIsRegistered'
      BY <1>11 DEF KickCheck, TypeOK, TokenLeadsToRegistered, BotLeadsToRegistered,
         NewestIsRegistered, Registered
    <2> QED
      BY <2>1, <2>2, <2>3
  <1>12. ASSUME NEW k \in Kicks, KickClose(k) PROVE IInv'
    <2>1. TypeOK' /\ CloserHasTarget'
      BY <1>12 DEF KickClose, TypeOK, CloserHasTarget
    <2>2. FreshIsUnknown' /\ DisplacedIsClosed'
      BY <1>12 DEF KickClose, TypeOK, FreshIsUnknown, Fresh, DisplacedIsClosed
    <2>3. TokenLeadsToRegistered' /\ BotLeadsToRegistered' /\ NewestIsRegistered'
      BY <1>12 DEF KickClose, TypeOK, TokenLeadsToRegistered, BotLeadsToRegistered,
         NewestIsRegistered, Registered
    <2> QED
      BY <2>1, <2>2, <2>3
  <1>13. CASE UNCHANGED vars
    BY <1>13 DEF vars, TypeOK, FreshIsUnknown, TokenLeadsToRegistered, BotLeadsToRegistered,
       DisplacedIsClosed, CloserHasTarget, NewestIsRegistered
  <1> QED
    BY <1>1, <1>2, <1>3, <1>4, <1>5, <1>6, <1>7, <1>8, <1>9, <1>10, <1>11, <1>12, <1>13 DEF Next, Handler

THEOREM IInvHolds == Spec => []IInv
  BY InitInv, StepInv, PTL DEF Spec

-----------------------------------------------------------------------------
(* The properties *)

\* The variables of the hub keep their types in every behaviour.
THEOREM TypeCorrect == Spec => []TypeOK
  BY IInvHolds, PTL DEF IInv

\* agentHub.register, unregister: an old connection's cleanup never takes the
\* token's entry away from the newer connection.
THEOREM NewestStaysRegistered == Spec => []NewestIsRegistered
  BY IInvHolds, PTL DEF IInv

\* agentHub.byBot leads to registered connections of that bot only.
THEOREM BotIndexCorrect == Spec => []BotLeadsToRegistered
  BY IInvHolds, PTL DEF IInv

\* handleAgentWS: of two registered connections of one token the older has been
\* closed, or the newer one's handler is about to close it.
THEOREM OneOpenConnection == Spec => []OneOpenPerToken
  <1>1. IInv => OneOpenPerToken
    <2> SUFFICES ASSUME IInv, NEW c \in Conns, NEW d \in Conns,
                        c # d, TokenOf[c] = TokenOf[d],
                        hpc[c] \in Registered, hpc[d] \in Registered,
                        c \notin closed, d \notin closed
                 PROVE  \E e \in Conns : hpc[e] = "displacing" /\ displaced[e] \in {c, d}
      BY DEF OneOpenPerToken
    <2>1. PICK e \in Conns : displaced[e] \in {c, d}
      BY DEF IInv, NewestIsRegistered
    <2> QED
      BY <2>1, HubAssumption DEF IInv, DisplacedIsClosed
  <1> QED
    BY <1>1, IInvHolds, PTL

-----------------------------------------------------------------------------
(* Why a connection is closed *)

\* register returns a connection to one handler at most, and not one that is still
\* in the token map.
DisplacedOnce ==
    /\ \A c, d \in Conns : displaced[c] # None /\ displaced[c] = displaced[d] => c = d
    /\ \A c, d \in Conns : byToken[TokenOf[c]] = c => displaced[d] # c

\* Every closed connection has been closed by the handler that displaced it, by a
\* kick, or by its own defer.
ClosedHasCause ==
    \A c \in closed :
        \/ \E d \in Conns : displaced[d] = c /\ hpc[d] \notin {"displacing", "zombie"}
        \/ \E k \in Kicks : kpc[k] = "done" /\ kconn[k] = c
        \/ hpc[c] = "gone"

ZombieDisplaced == \A c \in Conns : hpc[c] = "zombie" => displaced[c] # None

CInv == DisplacedOnce /\ ClosedHasCause /\ ZombieDisplaced

LEMMA InitCauses == Init => CInv
  BY HubAssumption DEF Init, CInv, DisplacedOnce, ClosedHasCause, ZombieDisplaced

LEMMA StepCauses == IInv /\ CInv /\ [Next]_vars => CInv'
  <1> SUFFICES ASSUME IInv, CInv, [Next]_vars PROVE CInv'
    OBVIOUS
  <1> USE HubAssumption DEF IInv, CInv, Goto
  <1>1. ASSUME NEW c \in Conns, Register(c) PROVE CInv'
    <2> DEFINE prev == byToken[TokenOf[c]]
    <2>1. /\ hpc[c] = "connected" /\ hpc[c] \in Fresh
          /\ prev # c /\ prev \in Conns \cup {None}
          /\ prev # None => TokenOf[prev] = TokenOf[c]
      BY <1>1 DEF Register, TypeOK, TokenLeadsToRegistered, Registered, Fresh
    <2>2. /\ displaced' = [displaced EXCEPT ![c] = prev]
          /\ hpc' = [hpc EXCEPT ![c] = IF prev = None THEN "serving" ELSE "displacing"]
          /\ byToken' = [byToken EXCEPT ![TokenOf[c]] = c]
          /\ UNCHANGED <<closed, kpc, kconn>>
      BY <1>1 DEF Register
    <2> HIDE DEF prev
    <2>3. displaced[c] = None /\ \A d \in Conns : displaced[d] # c
      BY <2>1 DEF FreshIsUnknown
    <2>4. \A d \in Conns : prev # None => displaced[d] # prev
      BY <2>1 DEF DisplacedOnce, prev
    <2>5. \A d \in Conns : displaced'[d] = IF d = c THEN prev ELSE displaced[d]
      BY <2>2 DEF TypeOK
    <2>6. \A d, e \in Conns : displaced'[d] # None /\ displaced'[d] = displaced'[e] => d = e
      BY <2>4, <2>5 DEF DisplacedOnce
    <2>7. ASSUME NEW d \in Conns, NEW e \in Conns, byToken'[TokenOf[d]] = d PROVE displaced'[e] # d
      <3>1. CASE d = c
        BY <2>1, <2>3, <2>5, <3>1
      <3>2. CASE d # c
        <4>1. TokenOf[d] # TokenOf[c] /\ byToken[TokenOf[d]] = d
          BY <2>2, <2>7, <3>2 DEF TypeOK
        <4> QED BY <2>1, <2>5, <4>1 DEF DisplacedOnce
      <3> QED BY <3>1, <3>2
    <2>8. ClosedHasCause'
      <3> SUFFICES ASSUME NEW d \in closed
                   PROVE  \/ \E e \in Conns : displaced'[e] = d /\ hpc'[e] \notin {"displacing", "zombie"}
                          \/ \E k \in Kicks : kpc[k] = "done" /\ kconn[k] = d
                          \/ hpc'[d] = "gone"
        BY <2>2 DEF ClosedHasCause
      <3>1. CASE \E e \in Conns : displaced[e] = d /\ hpc[e] \notin {"displacing", "zombie"}
        <4>1. PICK e \in Conns : displaced[e] = d /\ hpc[e] \notin {"displacing", "zombie"}
          BY <3>1
        <4>2. e # c
          BY <2>3, <4>1 DEF TypeOK
        <4> QED BY <2>2, <2>5, <4>1, <4>2 DEF TypeOK
      <3>2. CASE hpc[d] = "gone"
        BY <2>1, <2>2, <3>2 DEF TypeOK
      <3> QED BY <3>1, <3>2 DEF ClosedHasCause
    <2>9. ZombieDisplaced'
      BY <2>1, <2>2, <2>5 DEF TypeOK, ZombieDisplaced
    <2> QED
      BY <2>6, <2>7, <2>8, <2>9 DEF DisplacedOnce
  <1>2. ASSUME NEW c \in Conns, CloseDisplaced(c) PROVE CInv'
    <2>1. /\ hpc[c] = "displacing" /\ hpc' = [hpc EXCEPT ![c] = "serving"]
          /\ closed' = closed \cup {displaced[c]}
          /\ UNCHANGED <<displaced, byToken, kpc, kconn>>
      BY <1>2 DEF CloseDisplaced
    <2>2. DisplacedOnce' /\ ZombieDisplaced'
      BY <2>1 DEF TypeOK, DisplacedOnce, ZombieDisplaced
    <2>3. ClosedHasCause'
      BY <2>1 DEF TypeOK, ClosedHasCause
    <2> QED BY <2>2, <2>3
  <1>3. ASSUME NEW c \in Conns, DisplacePanics(c) PROVE CInv'
    <2>1. /\ hpc[c] = "displacing" /\ hpc' = [hpc EXCEPT ![c] = "zombie"]
          /\ UNCHANGED <<displaced, byToken, closed, kpc, kconn>>
      BY <1>3 DEF DisplacePanics
    <2>2. DisplacedOnce' /\ ZombieDisplaced'
      BY <2>1 DEF TypeOK, DisplacedOnce, ZombieDisplaced, CloserHasTarget
    <2>3. ClosedHasCause'
      BY <2>1 DEF TypeOK, ClosedHasCause
    <2> QED BY <2>2, <2>3
  \* The other steps of a handler: it was not displacing and is not afterwards.
  <1>4. ASSUME NEW c \in Conns, Connect(c) \/ ReadFails(c) \/ CheckOwnClose(c) \/ CloseOwn(c)
        PROVE  CInv'
    <2>1. /\ hpc[c] \notin {"displacing", "zombie", "gone"}
          /\ \E to \in {"connected", "leaving", "gone", "closing"} : hpc' = [hpc EXCEPT ![c] = to]
          /\ closed' = closed \/ (closed' = closed \cup {c} /\ hpc'[c] = "gone")
          /\ UNCHANGED <<displaced, byToken, kpc, kconn>>
      BY <1>4 DEF Connect, ReadFails, CheckOwnClose, CloseOwn, TypeOK
    <2>2. DisplacedOnce' /\ ZombieDisplaced'
      BY <2>1 DEF TypeOK, DisplacedOnce, ZombieDisplaced
    <2>3. ClosedHasCause'
      BY <2>1 DEF TypeOK, ClosedHasCause
    <2> QED BY <2>2, <2>3
  <1>5. ASSUME NEW c \in Conns, Unregister(c) PROVE CInv'
    <2>1. /\ hpc[c] = "leaving" /\ hpc' = [hpc EXCEPT ![c] = "unregistered"]
          /\ UNCHANGED <<displaced, closed, kpc, kconn>>
          /\ \A t \in Tokens : byToken'[t] = IF t = TokenOf[c] /\ byToken[t] = c THEN None ELSE byToken[t]
      BY <1>5 DEF Unregister, Forget, TypeOK
    <2>2. DisplacedOnce' /\ ZombieDisplaced'
      BY <2>1 DEF TypeOK, DisplacedOnce, ZombieDisplaced
    <2>3. ClosedHasCause'
      BY <2>1 DEF TypeOK, ClosedHasCause
    <2> QED BY <2>2, <2>3
  <1>6. ASSUME NEW k \in Kicks, KickFind(k) \/ KickCheck(k) \/ KickClose(k) PROVE CInv'
    <2>1. /\ kpc[k] \in {"idle", "found", "closing"}
          /\ \/ closed' = closed
             \/ closed' = closed \cup {kconn[k]} /\ kpc'[k] = "done" /\ kconn' = kconn
          /\ \A j \in Kicks \ {k} : kpc'[j] = kpc[j] /\ kconn'[j] = kconn[j]
          /\ UNCHANGED <<hpc, displaced, byToken>>
      <3>1. CASE KickFind(k)
        BY <3>1 DEF KickFind, TypeOK
      <3>2. CASE KickCheck(k)
        BY <3>2 DEF KickCheck, TypeOK
      <3>3. CASE KickClose(k)
        BY <3>3 DEF KickClose, TypeOK
      <3> QED BY <1>6, <3>1, <3>2, <3>3
    <2>2. DisplacedOnce' /\ ZombieDisplaced'
      BY <2>1 DEF DisplacedOnce, ZombieDisplaced
    <2>3. ClosedHasCause'
      BY <2>1 DEF ClosedHasCause
    <2> QED BY <2>2, <2>3
  <1>7. CASE UNCHANGED vars \/ \E c \in Conns : PumpExits(c)
    BY <1>7 DEF vars, PumpExits, DisplacedOnce, ClosedHasCause, ZombieDisplaced
  <1> QED
    BY <1>1, <1>2, <1>3, <1>4, <1>5, <1>6, <1>7 DEF Next, Handler

\* handleAgentWS: a connection that is in the hub and that nobody reads is there
\* because its predecessor was closed twice, the first time by a kick or by the
\* predecessor's own defer.
THEOREM ZombiesHaveCause == Spec => []ZombieHasCause
  <1>1. IInv /\ CInv => ZombieHasCause
    <2> SUFFICES ASSUME IInv, CInv, NEW c \in Conns, hpc[c] = "zombie"
                 PROVE  /\ displaced[c] # None
                        /\ \/ \E k \in Kicks : kpc[k] = "done" /\ kconn[k] = displaced[c]
                           \/ hpc[displaced[c]] = "gone"
      BY DEF ZombieHasCause
    <2>1. displaced[c] # None /\ displaced[c] \in closed
      BY DEF IInv, CInv, ZombieDisplaced, DisplacedIsClosed
    <2>2. \A d \in Conns : displaced[d] = displaced[c] => hpc[d] = "zombie"
      BY <2>1 DEF CInv, DisplacedOnce
    <2> QED
      BY <2>1, <2>2 DEF CInv, ClosedHasCause
  <1> QED
    BY <1>1, IInvHolds, InitCauses, StepCauses, PTL DEF Spec

-----------------------------------------------------------------------------
(* The hub implements AgentLink *)

LEMMA LinkInitial == Init => Link!LinkInit
  BY HubAssumption DEF Init, Link!LinkInit, LinkPhase, InHub, Registered

LEMMA LinkStep == IInv /\ [Next]_vars => [Link!LinkNext]_(Link!linkVars)
  <1> SUFFICES ASSUME IInv, [Next]_vars PROVE [Link!LinkNext]_(Link!linkVars)
    OBVIOUS
  <1> USE HubAssumption DEF IInv, Goto
  <1>1. ASSUME NEW c \in Conns, Register(c) PROVE Link!Attach(c)
    <2>1. LinkPhase[c] = "new" /\ LinkPhase' = [LinkPhase EXCEPT ![c] = "up"]
      BY <1>1 DEF Register, TypeOK, LinkPhase, Registered
    <2>2. InHub' = {d \in InHub : TokenOf[d] # TokenOf[c]} \cup {c}
      BY <1>1 DEF Register, TypeOK, TokenLeadsToRegistered, InHub
    <2> QED
      BY <1>1, <2>1, <2>2 DEF Register, Link!Attach
  <1>2. ASSUME NEW c \in Conns, Unregister(c) PROVE Link!Drop(c)
    <2>1. LinkPhase[c] = "up" /\ LinkPhase' = [LinkPhase EXCEPT ![c] = "down"]
      BY <1>2 DEF Unregister, TypeOK, LinkPhase, Registered
    <2>2. InHub' = InHub \ {c}
      BY <1>2 DEF Unregister, Forget, TypeOK, InHub
    <2> QED
      BY <1>2, <2>1, <2>2 DEF Unregister, Link!Drop
  \* Closing twice panics: the link stutters.
  <1>3. ASSUME NEW c \in Conns, hpc[c] \notin Fresh, closed' = closed \cup {c},
               LinkPhase' = LinkPhase, InHub' = InHub
        PROVE  Link!Close(c) \/ UNCHANGED Link!linkVars
    <2>1. LinkPhase[c] # "new"
      BY <1>3 DEF TypeOK, LinkPhase, Fresh, Registered
    <2>2. CASE c \in closed
      BY <1>3, <2>2 DEF Link!linkVars
    <2>3. CASE c \notin closed
      BY <1>3, <2>1, <2>3 DEF Link!Close
    <2> QED
      BY <2>2, <2>3
  <1>4. ASSUME NEW c \in Conns, CloseDisplaced(c) PROVE [Link!LinkNext]_(Link!linkVars)
    <2>1. displaced[c] \in Conns /\ hpc[displaced[c]] \notin Fresh
      BY <1>4 DEF CloseDisplaced, TypeOK, CloserHasTarget, FreshIsUnknown
    <2>2. LinkPhase' = LinkPhase /\ InHub' = InHub
      BY <1>4 DEF CloseDisplaced, TypeOK, LinkPhase, Registered, InHub
    <2> QED
      BY <1>3, <1>4, <2>1, <2>2 DEF CloseDisplaced, Link!LinkNext
  <1>5. ASSUME NEW c \in Conns, CloseOwn(c) PROVE [Link!LinkNext]_(Link!linkVars)
    <2>1. LinkPhase' = LinkPhase /\ InHub' = InHub /\ hpc[c] \notin Fresh
      BY <1>5 DEF CloseOwn, TypeOK, LinkPhase, Registered, InHub, Fresh
    <2> QED
      BY <1>3, <1>5, <2>1 DEF CloseOwn, Link!LinkNext
  <1>6. ASSUME NEW k \in Kicks, KickClose(k) PROVE [Link!LinkNext]_(Link!linkVars)
    <2>1. kconn[k] \in Conns /\ hpc[kconn[k]] \notin Fresh
      BY <1>6 DEF KickClose, TypeOK, CloserHasTarget, FreshIsUnknown
    <2>2. LinkPhase' = LinkPhase /\ InHub' = InHub
      BY <1>6 DEF KickClose, LinkPhase, InHub
    <2> QED
      BY <1>3, <1>6, <2>1, <2>2 DEF KickClose, Link!LinkNext
  \* Nothing else is visible.
  <1>7. ASSUME NEW c \in Conns,
               Connect(c) \/ DisplacePanics(c) \/ ReadFails(c) \/ CheckOwnClose(c) \/ PumpExits(c)
        PROVE  UNCHANGED Link!linkVars
    <2>1. LinkPhase' = LinkPhase
      BY <1>7 DEF Connect, DisplacePanics, ReadFails, CheckOwnClose, PumpExits, TypeOK,
         LinkPhase, Registered
    <2>2. UNCHANGED <<InHub, closed>>
      BY <1>7 DEF Connect, DisplacePanics, ReadFails, CheckOwnClose, PumpExits, InHub
    <2> QED
      BY <2>1, <2>2 DEF Link!linkVars
  <1>8. ASSUME NEW k \in Kicks, KickFind(k) \/ KickCheck(k) PROVE UNCHANGED Link!linkVars
    BY <1>8 DEF KickFind, KickCheck, Link!linkVars, LinkPhase, InHub
  <1>9. CASE UNCHANGED vars
    BY <1>9 DEF vars, Link!linkVars, LinkPhase, InHub
  <1> QED
    BY <1>1, <1>2, <1>4, <1>5, <1>6, <1>7, <1>8, <1>9 DEF Next, Handler, Link!LinkNext

\* AgentHub is a correct implementation of the link the other components assume:
\* every behaviour of the hub is, step by step, a behaviour of AgentLink.
THEOREM HubImplementsLink == Spec => Link!LinkInit /\ [][Link!LinkNext]_(Link!linkVars)
  BY LinkInitial, LinkStep, IInvHolds, PTL DEF Spec
=============================================================================
