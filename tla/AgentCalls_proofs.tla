-------------------------- MODULE AgentCalls_proofs --------------------------
(***************************************************************************)
(* Proofs about AgentCalls for any number of requests, ids and connections.*)
(***************************************************************************)
EXTENDS AgentCalls, SequenceTheorems, TLAPS

\* What a request is, from the moment it is made.
RequestKnown ==
    \A x \in Calls :
        /\ IF cpc[x] = "idle" THEN id[x] = None ELSE id[x] \in Ids
        /\ cpc[x] \in {"routed", "tracked", "waiting", "expired"} => cconn[x] \in Conns

\* Only requests that were made are under way or have arrived.
SentIsKnown ==
    /\ \A c \in Conns : \A n \in 1 .. Len(sendQ[c]) : cpc[sendQ[c][n]] # "idle"
    /\ \A x \in received : cpc[x] # "idle"
    /\ \A c \in Conns : delivery[c] # None => cpc[delivery[c].of] # "idle"

\* A handler that has not tracked its channel yet.
Untracked == {"idle", "asked", "routed"}

\* The channel of a tracked request is empty: an entry is one right to one send.
EntryIsEmptyChannel ==
    \A c \in Conns, i \in Ids :
        LET x == pending[c][i] IN
        x # None => /\ cconn[x] = c /\ id[x] = i
                    /\ cpc[x] \notin Untracked
                    /\ resultCh[x] = <<>>

\* A result that is being delivered took the entry away, so the channel is
\* still empty and nobody else can fill it.
DeliveryIsExclusive ==
    \A c \in Conns :
        LET x == delivery[c].to IN
        delivery[c] # None =>
            /\ cconn[x] = c /\ id[delivery[c].of] = id[x]
            /\ cpc[x] \notin Untracked
            /\ resultCh[x] = <<>>
            /\ \A i \in Ids : pending[c][i] # x

\* An untracked request has no result.
UntrackedIsEmpty == \A x \in Calls : cpc[x] \in Untracked => resultCh[x] = <<>>

IInv ==
    /\ TypeOK
    /\ RequestKnown
    /\ SentIsKnown
    /\ EntryIsEmptyChannel
    /\ DeliveryIsExclusive
    /\ UntrackedIsEmpty
    /\ LeftoversExplained
    /\ WaiterIsReachable
-----------------------------------------------------------------------------

\* A handler that moves on without touching a map or a channel keeps what
\* relates them to the requests, if it comes from where its entry says.
LEMMA HandlerStep ==
  ASSUME IInv, NEW x \in Calls,
         cpc' \in [Calls -> PCs],
         \A y \in Calls \ {x} : cpc'[y] = cpc[y] /\ cconn'[y] = cconn[y] /\ outcome'[y] = outcome[y],
         UNCHANGED <<id, resultCh, pending, delivery>>,
         cpc[x] # "idle", cpc'[x] # "idle",
         cpc[x] # "asked" => cconn'[x] = cconn[x],
         cpc'[x] \in {"routed", "tracked", "waiting", "expired"} => cconn'[x] \in Conns,
         cpc'[x] \in Untracked => cpc[x] \in Untracked,
         cpc'[x] \in {"tracked", "waiting"} => cpc[x] = "tracked",
         cpc'[x] = "done" => \/ outcome'[x] \in {"disconnected", "sendTimeout"}
                             \/ cpc[x] \in Untracked \/ resultCh[x] # <<>>
  PROVE  /\ RequestKnown' /\ EntryIsEmptyChannel' /\ DeliveryIsExclusive'
         /\ UntrackedIsEmpty' /\ LeftoversExplained' /\ WaiterIsReachable'
  <1> USE CallsAssumption
  <1>0. /\ TypeOK /\ RequestKnown /\ EntryIsEmptyChannel /\ DeliveryIsExclusive
        /\ UntrackedIsEmpty /\ LeftoversExplained /\ WaiterIsReachable
    BY DEF IInv
  <1>1. RequestKnown' /\ UntrackedIsEmpty'
    BY <1>0 DEF RequestKnown, UntrackedIsEmpty
  <1>2. \A y \in Calls : cpc[y] \notin Untracked => /\ cpc'[y] \notin Untracked
                                                    /\ cconn'[y] = cconn[y]
    BY DEF Untracked
  <1>t. /\ \A c \in Conns, i \in Ids : pending[c][i] \in Calls \cup {None}
        /\ \A c \in Conns : delivery[c] # None => delivery[c].to \in Calls
    BY <1>0 DEF TypeOK
  <1>3. EntryIsEmptyChannel'
    <2> SUFFICES ASSUME NEW c \in Conns, NEW i \in Ids, pending[c][i] # None
                 PROVE  LET y == pending[c][i] IN
                        cconn'[y] = c /\ id[y] = i /\ cpc'[y] \notin Untracked /\ resultCh[y] = <<>>
      BY DEF EntryIsEmptyChannel
    <2> QED
      BY <1>0, <1>2, <1>t DEF EntryIsEmptyChannel
  <1>4. DeliveryIsExclusive'
    <2> SUFFICES ASSUME NEW c \in Conns, delivery[c] # None
                 PROVE  LET y == delivery[c].to IN
                        /\ cconn'[y] = c /\ id[delivery[c].of] = id[y]
                        /\ cpc'[y] \notin Untracked
                        /\ resultCh[y] = <<>>
                        /\ \A i \in Ids : pending[c][i] # y
      BY DEF DeliveryIsExclusive
    <2> QED
      BY <1>0, <1>2, <1>t DEF DeliveryIsExclusive
  <1>5. LeftoversExplained'
    <2>0. \A c \in Conns, i \in Ids : pending'[c][i] = pending[c][i]
      OBVIOUS
    <2> SUFFICES ASSUME NEW c \in Conns, NEW i \in Ids, pending[c][i] # None
                 PROVE  LET y == pending[c][i] IN
                        /\ cconn'[y] = c /\ id'[y] = i
                        /\ cpc'[y] = "done" => outcome'[y] \in {"disconnected", "sendTimeout"}
      BY <2>0 DEF LeftoversExplained
    <2> DEFINE y == pending[c][i]
    <2>1. y \in Calls /\ cpc[y] \notin Untracked /\ resultCh[y] = <<>>
      BY <1>0, <1>t DEF EntryIsEmptyChannel
    <2>2. /\ cconn[y] = c /\ id[y] = i
          /\ cpc[y] = "done" => outcome[y] \in {"disconnected", "sendTimeout"}
      BY <1>0 DEF LeftoversExplained
    <2> QED
      BY <1>2, <2>1, <2>2
  <1>6. WaiterIsReachable'
    <2>0. \A y \in Calls : Unique(y)' = Unique(y)
      BY DEF Unique
    <2> SUFFICES ASSUME NEW y \in Calls, Unique(y), cpc'[y] \in {"tracked", "waiting"}
                 PROVE  \/ pending[cconn'[y]][id[y]] = y
                        \/ delivery[cconn'[y]] = [to |-> y, of |-> y]
                        \/ resultCh[y] = <<y>>
      BY <2>0 DEF WaiterIsReachable
    <2>1. cpc[y] \in {"tracked", "waiting"} /\ cconn'[y] = cconn[y]
      OBVIOUS
    <2> QED
      BY <1>0, <2>1 DEF WaiterIsReachable
  <1> QED
    BY <1>1, <1>3, <1>4, <1>5, <1>6

\* What was sent and received stays known while no request is forgotten.
LEMMA SentStays ==
  ASSUME SentIsKnown, TypeOK, \A y \in Calls : cpc[y] # "idle" => cpc'[y] # "idle",
         UNCHANGED <<sendQ, received, delivery>>
  PROVE  SentIsKnown'
  <1>1. \A c \in Conns : \A n \in 1 .. Len(sendQ[c]) : sendQ[c][n] \in Calls
    BY DEF TypeOK
  <1> QED
    BY <1>1, CallsAssumption DEF SentIsKnown, TypeOK

\* A connection that comes, goes or says hello touches no request.
LEMMA QuietStep ==
  ASSUME IInv, TypeOK', UNCHANGED <<callVars, pending, sendQ, delivery, received>>
  PROVE  IInv'
  BY DEF IInv, callVars, RequestKnown, SentIsKnown, EntryIsEmptyChannel, DeliveryIsExclusive,
     UntrackedIsEmpty, LeftoversExplained, WaiterIsReachable, Unique

LEMMA InitInv == Init => IInv
  BY CallsAssumption, LinkAssumption DEF Init, LinkInit, IInv, TypeOK, LinkTypeOK, PCs, RequestKnown,
     SentIsKnown, EntryIsEmptyChannel, DeliveryIsExclusive, UntrackedIsEmpty, Untracked,
     LeftoversExplained, WaiterIsReachable

LEMMA StepInv == IInv /\ [Next]_vars => IInv'
  <1> SUFFICES ASSUME IInv, [Next]_vars PROVE IInv'
    OBVIOUS
  <1> USE CallsAssumption DEF IInv, Goto, Return, Untracked, PCs
  \* A request changes nothing for the others: a new id only makes them less unique.
  <1>1. ASSUME NEW x \in Calls, NEW k \in Dispatches, NEW i \in Ids, Request(x, k, i)
        PROVE  IInv'
    <2>1. /\ cpc[x] = "idle" /\ id[x] = None
          /\ cpc' = [cpc EXCEPT ![x] = "asked"]
          /\ kind' = [kind EXCEPT ![x] = k]
          /\ id' = [id EXCEPT ![x] = i]
          /\ UNCHANGED <<linkVars, outcome, cconn, resultCh, connVars, agentVars>>
      BY <1>1 DEF Request, RequestKnown
    <2>2. TypeOK'
      BY <2>1 DEF TypeOK, LinkTypeOK, linkVars, connVars, agentVars
    <2>3. RequestKnown' /\ SentIsKnown' /\ UntrackedIsEmpty'
      <3>1. RequestKnown' /\ UntrackedIsEmpty'
        BY <2>1 DEF TypeOK, RequestKnown, UntrackedIsEmpty
      <3>2. \A y \in Calls : cpc[y] # "idle" => cpc'[y] # "idle"
        BY <2>1 DEF TypeOK
      <3>3. SentIsKnown'
        BY <2>1, <3>2, SentStays DEF connVars, agentVars
      <3> QED BY <3>1, <3>3
    <2>4. EntryIsEmptyChannel' /\ LeftoversExplained'
      BY <2>1 DEF TypeOK, EntryIsEmptyChannel, LeftoversExplained, connVars
    <2>5. DeliveryIsExclusive'
      BY <2>1 DEF TypeOK, DeliveryIsExclusive, SentIsKnown, connVars
    <2>6. WaiterIsReachable'
      <3> SUFFICES ASSUME NEW y \in Calls, Unique(y)', cpc'[y] \in {"tracked", "waiting"}
                   PROVE  \/ pending[cconn[y]][id[y]] = y
                          \/ delivery[cconn[y]] = [to |-> y, of |-> y]
                          \/ resultCh[y] = <<y>>
        BY <2>1 DEF TypeOK, WaiterIsReachable, connVars
      <3>1. y # x /\ cpc[y] \in {"tracked", "waiting"}
        BY <2>1 DEF TypeOK
      <3>2. Unique(y)
        BY <2>1, <3>1 DEF TypeOK, Unique, RequestKnown
      <3> QED
        BY <3>1, <3>2 DEF WaiterIsReachable
    <2> QED
      BY <2>2, <2>3, <2>4, <2>5, <2>6
  \* The lookup fixes the connection.
  <1>2. ASSUME NEW x \in Calls, Route(x) PROVE IInv'
    <2> DEFINE Typed == /\ cpc' \in [Calls -> PCs]
                        /\ outcome' \in [Calls -> Outcomes \cup {None}]
                        /\ cconn' \in [Calls -> Conns \cup {None}]
               OnlyX == \A y \in Calls \ {x} : /\ cpc'[y] = cpc[y] /\ cconn'[y] = cconn[y]
                                               /\ outcome'[y] = outcome[y]
               Routed == \/ cpc'[x] = "done"
                         \/ cpc'[x] = "routed" /\ cconn'[x] \in Conns
    <2>1. cpc[x] = "asked" /\ UNCHANGED <<linkVars, kind, id, resultCh, connVars, agentVars>>
      BY <1>2 DEF Route
    <2>2. ASSUME Return(x, "asked", "unattached"), UNCHANGED cconn
          PROVE  Typed /\ OnlyX /\ Routed
      <3>1. Typed
        BY <2>2 DEF TypeOK, Outcomes
      <3>2. OnlyX /\ Routed
        BY <2>2 DEF TypeOK
      <3> QED
        BY <3>1, <3>2
    <2>3. ASSUME NEW c \in Conns, cconn' = [cconn EXCEPT ![x] = c], Return(x, "asked", "unsupported")
          PROVE  Typed /\ OnlyX /\ Routed
      <3>1. Typed
        BY <2>3 DEF TypeOK, Outcomes
      <3>2. OnlyX /\ Routed
        BY <2>3 DEF TypeOK
      <3> QED
        BY <3>1, <3>2
    <2>4. ASSUME NEW c \in Conns, cconn' = [cconn EXCEPT ![x] = c],
                 Goto(x, "asked", "routed"), UNCHANGED outcome
          PROVE  Typed /\ OnlyX /\ Routed
      <3>1. Typed
        BY <2>4 DEF TypeOK
      <3>2. OnlyX /\ Routed
        BY <2>4 DEF TypeOK
      <3> QED
        BY <3>1, <3>2
    <2>5. Typed /\ OnlyX /\ Routed
      <3>1. CASE Return(x, "asked", "unattached") /\ UNCHANGED cconn
        BY <2>2, <3>1
      <3>2. CASE \E c \in Conns :
                    /\ cconn' = [cconn EXCEPT ![x] = c]
                    /\ \/ Return(x, "asked", "unsupported")
                       \/ Goto(x, "asked", "routed") /\ UNCHANGED outcome
        <4> HIDE DEF Typed, OnlyX, Routed, Return, Goto
        <4> QED
          BY <2>3, <2>4, <3>2
      <3> QED
        BY <1>2, <3>1, <3>2 DEF Route
    <2>6. TypeOK'
      BY <2>1, <2>5 DEF TypeOK, LinkTypeOK, linkVars, connVars, agentVars
    <2>7. SentIsKnown'
      BY <2>1, <2>5, SentStays DEF connVars, agentVars
    <2> QED
      BY <2>1, <2>5, <2>6, <2>7, HandlerStep DEF connVars
  <1>3. ASSUME NEW x \in Calls, Track(x) PROVE IInv'
    <2>1. TypeOK'
      BY <1>3 DEF Track, linkVars, connVars, agentVars, TypeOK, LinkTypeOK, Outcomes
    <2>2. RequestKnown'
      BY <1>3 DEF Track, linkVars, connVars, agentVars, TypeOK, LinkTypeOK, RequestKnown
    <2>3. SentIsKnown'
      BY <1>3 DEF Track, linkVars, connVars, agentVars, TypeOK, SentIsKnown
    <2>4. EntryIsEmptyChannel'
      BY <1>3 DEF Track, linkVars, connVars, agentVars, TypeOK, EntryIsEmptyChannel, DeliveryIsExclusive, UntrackedIsEmpty, RequestKnown
    <2>5. DeliveryIsExclusive'
      BY <1>3 DEF Track, linkVars, connVars, agentVars, TypeOK, EntryIsEmptyChannel, DeliveryIsExclusive, UntrackedIsEmpty
    <2>6. UntrackedIsEmpty'
      BY <1>3 DEF Track, linkVars, connVars, agentVars, TypeOK, UntrackedIsEmpty, DeliveryIsExclusive
    <2>7. LeftoversExplained'
      BY <1>3 DEF Track, linkVars, connVars, agentVars, TypeOK, LeftoversExplained, EntryIsEmptyChannel, RequestKnown
    <2>8. WaiterIsReachable'
      BY <1>3 DEF Track, linkVars, connVars, agentVars, TypeOK, WaiterIsReachable, Unique, RequestKnown, SentIsKnown
    <2> QED
      BY <2>1, <2>2, <2>3, <2>4, <2>5, <2>6, <2>7, <2>8
  \* The buffer takes a request that has been made, up to its capacity.
  <1>4. ASSUME NEW x \in Calls, Post(x) PROVE IInv'
    <2> DEFINE c == cconn[x]
    <2>1. /\ cpc[x] \in {"routed", "tracked"}
          /\ c \in Conns
          /\ Len(sendQ[c]) < SendCap
          /\ sendQ' = [sendQ EXCEPT ![c] = Append(sendQ[c], x)]
          /\ \/ Return(x, "routed", "queued")
             \/ Goto(x, "tracked", "waiting") /\ UNCHANGED outcome
          /\ UNCHANGED <<linkVars, kind, id, cconn, resultCh, pending, pump, chatty, delivery, agentVars>>
      BY <1>4 DEF Post, Sending, RequestKnown
    <2>2. /\ Append(sendQ[c], x) \in Seq(Calls)
          /\ Len(Append(sendQ[c], x)) = Len(sendQ[c]) + 1
          /\ \A n \in 1 .. Len(sendQ[c]) + 1 :
                Append(sendQ[c], x)[n] = IF n = Len(sendQ[c]) + 1 THEN x ELSE sendQ[c][n]
      BY <2>1 DEF TypeOK
    <2>3. Len(sendQ[c]) + 1 <= SendCap
      BY <2>1 DEF TypeOK
    <2>4. /\ cpc' \in [Calls -> PCs]
          /\ outcome' \in [Calls -> Outcomes \cup {None}]
          /\ \A y \in Calls \ {x} : cpc'[y] = cpc[y] /\ outcome'[y] = outcome[y]
          /\ \/ cpc[x] = "routed" /\ cpc'[x] = "done"
             \/ cpc[x] = "tracked" /\ cpc'[x] = "waiting"
      <3>1. CASE Return(x, "routed", "queued")
        <4>1. outcome' \in [Calls -> Outcomes \cup {None}]
          BY <3>1 DEF TypeOK, Outcomes
        <4> QED
          BY <3>1, <4>1 DEF TypeOK
      <3>2. CASE Goto(x, "tracked", "waiting") /\ UNCHANGED outcome
        BY <3>2 DEF TypeOK
      <3> QED
        BY <2>1, <3>1, <3>2
    <2> HIDE DEF c
    <2>5. sendQ' \in [Conns -> Seq(Calls)] /\ \A d \in Conns : Len(sendQ'[d]) <= SendCap
      BY <2>1, <2>2, <2>3 DEF TypeOK
    <2>6. TypeOK'
      BY <2>1, <2>4, <2>5 DEF TypeOK, LinkTypeOK, linkVars, agentVars
    <2>7. \A y \in Calls : cpc[y] # "idle" => cpc'[y] # "idle"
      BY <2>4
    <2>8. ASSUME NEW d \in Conns, NEW n \in 1 .. Len(sendQ'[d]) PROVE cpc'[sendQ'[d][n]] # "idle"
      <3>1. CASE d # c
        <4>1. sendQ'[d] = sendQ[d] /\ sendQ[d][n] \in Calls
          BY <2>1, <2>8, <3>1 DEF TypeOK
        <4> QED
          BY <2>7, <2>8, <4>1 DEF SentIsKnown
      <3>2. CASE d = c /\ n = Len(sendQ[c]) + 1
        <4>1. sendQ'[d][n] = x
          BY <2>1, <2>2, <3>2 DEF TypeOK
        <4> QED
          BY <2>1, <2>7, <4>1
      <3>3. CASE d = c /\ n # Len(sendQ[c]) + 1
        <4>1. n \in 1 .. Len(sendQ[c]) /\ sendQ'[d][n] = sendQ[c][n] /\ sendQ[c][n] \in Calls
          BY <2>1, <2>2, <2>8, <3>3 DEF TypeOK
        <4> QED
          BY <2>1, <2>7, <4>1 DEF SentIsKnown
      <3> QED
        BY <3>1, <3>2, <3>3
    <2>9. SentIsKnown'
      BY <2>1, <2>7, <2>8 DEF TypeOK, SentIsKnown, agentVars
    <2> QED
      BY <2>1, <2>4, <2>6, <2>9, HandlerStep DEF c
  <1>5. ASSUME NEW x \in Calls, PostFails(x) PROVE IInv'
    <2>1. PICK o \in {"disconnected", "sendTimeout"} :
             /\ cpc[x] \in {"routed", "tracked"}
             /\ cpc' = [cpc EXCEPT ![x] = "done"]
             /\ outcome' = [outcome EXCEPT ![x] = o]
             /\ UNCHANGED <<linkVars, kind, id, cconn, resultCh, connVars, agentVars>>
      BY <1>5 DEF PostFails, Sending
    <2>2. TypeOK'
      BY <2>1 DEF TypeOK, LinkTypeOK, Outcomes, linkVars, connVars, agentVars
    <2>3. /\ cpc'[x] = "done" /\ outcome'[x] = o
          /\ \A y \in Calls \ {x} : cpc'[y] = cpc[y] /\ outcome'[y] = outcome[y]
      BY <2>1 DEF TypeOK
    <2>4. SentIsKnown'
      BY <2>1, <2>3, SentStays DEF connVars, agentVars
    <2> QED
      BY <2>1, <2>2, <2>3, <2>4, HandlerStep DEF TypeOK, connVars
  \* A handler that waits returns, or its timer fires.
  <1>6. ASSUME NEW x \in Calls, TakeAnswer(x) PROVE IInv'
    <2>1. /\ cpc[x] = "waiting" /\ resultCh[x] # <<>>
          /\ cpc' = [cpc EXCEPT ![x] = "done"] /\ outcome' = [outcome EXCEPT ![x] = "answered"]
          /\ UNCHANGED <<linkVars, kind, id, cconn, resultCh, connVars, agentVars>>
      BY <1>6 DEF TakeAnswer
    <2>2. TypeOK'
      BY <2>1 DEF TypeOK, LinkTypeOK, Outcomes, linkVars, connVars, agentVars
    <2>3. /\ cpc'[x] = "done" /\ outcome'[x] = "answered"
          /\ \A y \in Calls \ {x} : cpc'[y] = cpc[y] /\ outcome'[y] = outcome[y]
      BY <2>1 DEF TypeOK
    <2>4. SentIsKnown'
      BY <2>1, <2>3, SentStays DEF connVars, agentVars
    <2>5. cconn[x] \in Conns
      BY <2>1 DEF RequestKnown
    <2> QED
      BY <2>1, <2>2, <2>3, <2>4, <2>5, HandlerStep DEF TypeOK, connVars
  <1>7. ASSUME NEW x \in Calls, WaitClosed(x) PROVE IInv'
    <2>1. /\ cpc[x] = "waiting"
          /\ cpc' = [cpc EXCEPT ![x] = "done"] /\ outcome' = [outcome EXCEPT ![x] = "disconnected"]
          /\ UNCHANGED <<linkVars, kind, id, cconn, resultCh, connVars, agentVars>>
      BY <1>7 DEF WaitClosed
    <2>2. TypeOK'
      BY <2>1 DEF TypeOK, LinkTypeOK, Outcomes, linkVars, connVars, agentVars
    <2>3. /\ cpc'[x] = "done" /\ outcome'[x] = "disconnected"
          /\ \A y \in Calls \ {x} : cpc'[y] = cpc[y] /\ outcome'[y] = outcome[y]
      BY <2>1 DEF TypeOK
    <2>4. SentIsKnown'
      BY <2>1, <2>3, SentStays DEF connVars, agentVars
    <2>5. cconn[x] \in Conns
      BY <2>1 DEF RequestKnown
    <2> QED
      BY <2>1, <2>2, <2>3, <2>4, <2>5, HandlerStep DEF TypeOK, connVars
  <1>8. ASSUME NEW x \in Calls, WaitExpires(x) PROVE IInv'
    <2>1. /\ cpc[x] = "waiting"
          /\ cpc' = [cpc EXCEPT ![x] = "expired"] /\ UNCHANGED outcome
          /\ UNCHANGED <<linkVars, kind, id, cconn, resultCh, connVars, agentVars>>
      BY <1>8 DEF WaitExpires
    <2>2. TypeOK'
      BY <2>1 DEF TypeOK, LinkTypeOK, Outcomes, linkVars, connVars, agentVars
    <2>3. /\ cpc'[x] = "expired"
          /\ \A y \in Calls \ {x} : cpc'[y] = cpc[y] /\ outcome'[y] = outcome[y]
      BY <2>1 DEF TypeOK
    <2>4. SentIsKnown'
      BY <2>1, <2>3, SentStays DEF connVars, agentVars
    <2>5. cconn[x] \in Conns
      BY <2>1 DEF RequestKnown
    <2> QED
      BY <2>1, <2>2, <2>3, <2>4, <2>5, HandlerStep DEF TypeOK, connVars
  <1>9. ASSUME NEW x \in Calls, Expire(x) PROVE IInv'
    <2>1. /\ cpc[x] = "expired" /\ cconn[x] \in Conns /\ id[x] \in Ids
          /\ cpc' = [cpc EXCEPT ![x] = "done"] /\ outcome' = [outcome EXCEPT ![x] = "timeout"]
          /\ pending' = [pending EXCEPT ![cconn[x]][id[x]] = None]
          /\ UNCHANGED <<linkVars, kind, id, cconn, resultCh, sendQ, pump, chatty, delivery, agentVars>>
      BY <1>9 DEF Expire, Without, RequestKnown
    <2>2. TypeOK'
      BY <2>1 DEF TypeOK, LinkTypeOK, linkVars, agentVars, Outcomes
    <2>3. /\ \A c \in Conns, i \in Ids :
                pending'[c][i] = IF c = cconn[x] /\ i = id[x] THEN None ELSE pending[c][i]
          /\ \A y \in Calls : cpc'[y] = IF y = x THEN "done" ELSE cpc[y]
          /\ \A y \in Calls : outcome'[y] = IF y = x THEN "timeout" ELSE outcome[y]
      BY <2>1 DEF TypeOK
    <2>4. RequestKnown' /\ UntrackedIsEmpty'
      BY <2>1, <2>3 DEF RequestKnown, UntrackedIsEmpty
    <2>5. SentIsKnown'
      BY <2>1, <2>3, SentStays DEF agentVars
    <2>6. EntryIsEmptyChannel'
      BY <2>1, <2>3 DEF TypeOK, EntryIsEmptyChannel
    <2>7. DeliveryIsExclusive'
      BY <2>1, <2>3 DEF TypeOK, DeliveryIsExclusive
    <2>8. LeftoversExplained'
      <3> SUFFICES ASSUME NEW c \in Conns, NEW i \in Ids, pending'[c][i] # None
                   PROVE  LET y == pending'[c][i] IN
                          /\ cconn[y] = c /\ id[y] = i
                          /\ cpc'[y] = "done" => outcome'[y] \in {"disconnected", "sendTimeout"}
        BY <2>1 DEF LeftoversExplained
      <3> DEFINE y == pending[c][i]
      <3>1. pending'[c][i] = y /\ ~ (c = cconn[x] /\ i = id[x])
        BY <2>3
      <3>2. /\ y \in Calls /\ cconn[y] = c /\ id[y] = i
            /\ cpc[y] = "done" => outcome[y] \in {"disconnected", "sendTimeout"}
        BY <3>1 DEF TypeOK, LeftoversExplained
      <3>3. y # x
        BY <3>1, <3>2
      <3> QED BY <2>3, <3>1, <3>2, <3>3
    <2>9. WaiterIsReachable'
      BY <2>1, <2>3 DEF TypeOK, WaiterIsReachable, Unique, RequestKnown
    <2> QED
      BY <2>2, <2>4, <2>5, <2>6, <2>7, <2>8, <2>9
  \* The connections.
  <1>10. ASSUME NEW c \in Conns, ConnAttach(c) PROVE IInv'
    <2>1. TypeOK'
      BY <1>10 DEF ConnAttach, Attach, connVars, callVars, agentVars, TypeOK, LinkTypeOK
    <2> QED
      BY <1>10, <2>1, QuietStep DEF ConnAttach, connVars, agentVars
  <1>11. ASSUME NEW c \in Conns, ConnClose(c) PROVE IInv'
    <2>1. TypeOK'
      BY <1>11 DEF ConnClose, Close, connVars, callVars, agentVars, TypeOK, LinkTypeOK
    <2> QED
      BY <1>11, <2>1, QuietStep DEF ConnClose, connVars, agentVars
  <1>12. ASSUME NEW c \in Conns, ConnDrop(c) PROVE IInv'
    <2>1. TypeOK'
      BY <1>12 DEF ConnDrop, Drop, connVars, callVars, agentVars, TypeOK, LinkTypeOK
    <2> QED
      BY <1>12, <2>1, QuietStep DEF ConnDrop, connVars, agentVars
  <1>13. ASSUME NEW c \in Conns, Hello(c) PROVE IInv'
    <2>1. TypeOK'
      BY <1>13 DEF Hello, linkVars, connVars, callVars, agentVars, TypeOK, LinkTypeOK
    <2> QED
      BY <1>13, <2>1, QuietStep DEF Hello, connVars, agentVars
  <1>15. ASSUME NEW c \in Conns, PumpExit(c) PROVE IInv'
    <2>1. TypeOK'
      BY <1>15 DEF PumpExit, linkVars, connVars, callVars, agentVars, TypeOK, LinkTypeOK
    <2> QED
      BY <1>15, <2>1, QuietStep DEF PumpExit, connVars, agentVars
  \* The write pump takes the head of the buffer.
  <1>14. ASSUME NEW c \in Conns, PumpFrame(c) PROVE IInv'
    <2>1. /\ sendQ[c] # <<>> /\ sendQ[c] \in Seq(Calls)
          /\ sendQ' = [sendQ EXCEPT ![c] = Tail(sendQ[c])]
          /\ received' = received \cup {Head(sendQ[c])}
          /\ UNCHANGED <<linkVars, callVars, pending, pump, chatty, delivery, answers>>
      BY <1>14 DEF PumpFrame, TypeOK
    <2>2. /\ Len(sendQ[c]) \in Nat /\ Len(sendQ[c]) > 0
          /\ Head(sendQ[c]) = sendQ[c][1] /\ Head(sendQ[c]) \in Calls
          /\ Tail(sendQ[c]) \in Seq(Calls) /\ Len(Tail(sendQ[c])) = Len(sendQ[c]) - 1
          /\ \A n \in 1 .. Len(sendQ[c]) - 1 : Tail(sendQ[c])[n] = sendQ[c][n + 1]
      BY <2>1
    <2>3. /\ sendQ' \in [Conns -> Seq(Calls)]
          /\ \A d \in Conns : Len(sendQ'[d]) <= SendCap
      BY <2>1, <2>2 DEF TypeOK
    <2>4. TypeOK'
      BY <2>1, <2>2, <2>3 DEF TypeOK, LinkTypeOK, linkVars, callVars
    <2>5. ASSUME NEW d \in Conns, NEW n \in 1 .. Len(sendQ'[d]) PROVE cpc[sendQ'[d][n]] # "idle"
      <3>1. CASE d # c
        BY <2>1, <2>5, <3>1 DEF TypeOK, SentIsKnown
      <3>2. CASE d = c
        <4>0. sendQ'[d] = Tail(sendQ[c])
          BY <2>1, <3>2 DEF TypeOK
        <4>1. n + 1 \in 1 .. Len(sendQ[c]) /\ sendQ'[d][n] = sendQ[c][n + 1]
          BY <2>2, <2>5, <4>0
        <4> QED
          BY <4>1 DEF SentIsKnown
      <3> QED
        BY <3>1, <3>2
    <2>6. cpc[Head(sendQ[c])] # "idle"
      BY <2>2 DEF SentIsKnown
    <2>7. SentIsKnown'
      BY <2>1, <2>5, <2>6 DEF SentIsKnown, callVars
    <2> QED
      BY <2>1, <2>4, <2>7 DEF callVars, RequestKnown, EntryIsEmptyChannel, DeliveryIsExclusive,
         UntrackedIsEmpty, LeftoversExplained, WaiterIsReachable, Unique
  \* The send fills the channel of the request the entry belonged to.
  <1>16. ASSUME NEW c \in Conns, Deliver(c) PROVE IInv'
    <2> DEFINE x == delivery[c].to
    <2>1. /\ delivery[c] # None /\ x \in Calls /\ delivery[c].of \in Calls
          /\ delivery[c] = [to |-> x, of |-> delivery[c].of]
          /\ resultCh' = [resultCh EXCEPT ![x] = <<delivery[c].of>>]
          /\ delivery' = [delivery EXCEPT ![c] = None]
          /\ UNCHANGED <<linkVars, cpc, kind, id, outcome, cconn, pending, sendQ, pump, chatty, agentVars>>
      BY <1>16 DEF Deliver, TypeOK
    <2>2. cconn[x] = c /\ cpc[x] \notin Untracked /\ \A i \in Ids : pending[c][i] # x
      BY <2>1 DEF DeliveryIsExclusive
    <2> HIDE DEF x
    <2>3. TypeOK'
      BY <2>1 DEF TypeOK, LinkTypeOK, linkVars, agentVars
    <2>4. RequestKnown' /\ SentIsKnown' /\ UntrackedIsEmpty'
      BY <2>1, <2>2 DEF TypeOK, RequestKnown, SentIsKnown, UntrackedIsEmpty, agentVars
    <2>5. EntryIsEmptyChannel' /\ LeftoversExplained'
      BY <2>1, <2>2 DEF TypeOK, EntryIsEmptyChannel, LeftoversExplained
    <2>6. DeliveryIsExclusive'
      BY <2>1, <2>2 DEF TypeOK, DeliveryIsExclusive
    <2>7. WaiterIsReachable'
      <3> SUFFICES ASSUME NEW y \in Calls, Unique(y), cpc[y] \in {"tracked", "waiting"}
                   PROVE  \/ pending[cconn[y]][id[y]] = y
                          \/ delivery'[cconn[y]] = [to |-> y, of |-> y]
                          \/ resultCh'[y] = <<y>>
        BY <2>1 DEF WaiterIsReachable, Unique
      <3>1. CASE delivery[cconn[y]] = [to |-> y, of |-> y] /\ cconn[y] = c
        BY <2>1, <3>1 DEF TypeOK, x
      <3>2. CASE delivery[cconn[y]] = [to |-> y, of |-> y] /\ cconn[y] # c
        BY <2>1, <3>2 DEF TypeOK
      <3>3. CASE resultCh[y] = <<y>>
        BY <2>1, <3>3 DEF TypeOK, DeliveryIsExclusive, x
      <3>4. CASE pending[cconn[y]][id[y]] = y
        BY <3>4
      <3> QED
        BY <3>1, <3>2, <3>3, <3>4 DEF WaiterIsReachable
    <2> QED
      BY <2>3, <2>4, <2>5, <2>6, <2>7
  \* The read pump trades the entry for the right to deliver.
  <1>17. ASSUME NEW c \in Conns, NEW x \in Calls, ReadResult(c, x) PROVE IInv'
    <2> DEFINE y == pending[c][id[x]]
    <2>1. /\ delivery[c] = None /\ x \in received /\ answers[x] < MaxAnswers
          /\ answers' = [answers EXCEPT ![x] = answers[x] + 1]
          /\ UNCHANGED <<linkVars, callVars, sendQ, pump, chatty, received>>
      BY <1>17 DEF ReadResult
    <2>2. /\ cpc[x] # "idle" /\ id[x] \in Ids
          /\ y \in Calls \cup {None}
          /\ answers' \in [Calls -> 0 .. MaxAnswers]
      BY <2>1 DEF TypeOK, SentIsKnown, RequestKnown
    <2>3. CASE y = None
      <3>1. UNCHANGED <<pending, delivery>>
        BY <1>17, <2>3 DEF ReadResult
      <3>2. TypeOK'
        BY <2>1, <2>2, <3>1 DEF TypeOK, LinkTypeOK, linkVars, callVars
      <3> QED
        BY <2>1, <3>1, <3>2 DEF callVars, RequestKnown, SentIsKnown, EntryIsEmptyChannel, DeliveryIsExclusive,
           UntrackedIsEmpty, LeftoversExplained, WaiterIsReachable, Unique
    <2>4. CASE y # None
      <3>1. /\ pending' = [pending EXCEPT ![c][id[x]] = None]
            /\ delivery' = [delivery EXCEPT ![c] = [to |-> y, of |-> x]]
        BY <1>17, <2>4 DEF ReadResult, Without
      <3>2. /\ y \in Calls /\ cconn[y] = c /\ id[y] = id[x]
            /\ cpc[y] \notin Untracked /\ resultCh[y] = <<>>
        BY <2>2, <2>4 DEF EntryIsEmptyChannel
      <3>3. \A d \in Conns, i \in Ids :
                pending'[d][i] = IF d = c /\ i = id[x] THEN None ELSE pending[d][i]
        BY <2>2, <3>1 DEF TypeOK
      <3>4. \A d \in Conns : delivery'[d] = IF d = c THEN [to |-> y, of |-> x] ELSE delivery[d]
        BY <3>1 DEF TypeOK
      <3>5. \A i \in Ids : pending'[c][i] # y
        BY <2>4, <3>2, <3>3 DEF EntryIsEmptyChannel
      <3>6. pending' \in [Conns -> [Ids -> Calls \cup {None}]]
        BY <2>2, <3>1 DEF TypeOK
      <3>7. delivery' \in [Conns -> [to : Calls, of : Calls] \cup {None}]
        BY <3>1, <3>2 DEF TypeOK
      <3>8. TypeOK'
        BY <2>1, <2>2, <3>6, <3>7 DEF TypeOK, LinkTypeOK, linkVars, callVars
      <3> HIDE DEF y
      <3>9. RequestKnown' /\ UntrackedIsEmpty'
        BY <2>1 DEF callVars, RequestKnown, UntrackedIsEmpty
      <3>10. SentIsKnown'
        BY <2>1, <2>2, <3>4 DEF callVars, SentIsKnown
      <3>11. EntryIsEmptyChannel' /\ LeftoversExplained'
        BY <2>1, <3>3 DEF callVars, EntryIsEmptyChannel, LeftoversExplained
      <3>12. DeliveryIsExclusive'
        <4> SUFFICES ASSUME NEW d \in Conns, delivery'[d] # None
                     PROVE  LET z == delivery'[d].to IN
                            /\ cconn[z] = d /\ id[delivery'[d].of] = id[z]
                            /\ cpc[z] \notin Untracked
                            /\ resultCh[z] = <<>>
                            /\ \A i \in Ids : pending'[d][i] # z
          BY <2>1 DEF callVars, DeliveryIsExclusive
        <4>1. CASE d = c
          BY <3>2, <3>4, <3>5, <4>1
        <4>2. CASE d # c
          BY <3>3, <3>4, <4>2 DEF DeliveryIsExclusive
        <4> QED
          BY <4>1, <4>2
      <3>13. WaiterIsReachable'
        <4> SUFFICES ASSUME NEW z \in Calls, Unique(z), cpc[z] \in {"tracked", "waiting"}
                     PROVE  \/ pending'[cconn[z]][id[z]] = z
                            \/ delivery'[cconn[z]] = [to |-> z, of |-> z]
                            \/ resultCh[z] = <<z>>
          BY <2>1 DEF callVars, WaiterIsReachable, Unique
        <4>1. cconn[z] \in Conns /\ id[z] \in Ids
          BY DEF RequestKnown
        <4>2. CASE pending[cconn[z]][id[z]] = z /\ cconn[z] = c /\ id[z] = id[x]
          <5>1. z = x /\ y = z
            BY <4>2 DEF Unique, y
          <5> QED
            BY <3>4, <4>1, <4>2, <5>1
        <4>3. CASE pending[cconn[z]][id[z]] = z /\ ~ (cconn[z] = c /\ id[z] = id[x])
          BY <3>3, <4>1, <4>3
        <4>4. CASE delivery[cconn[z]] = [to |-> z, of |-> z]
          BY <2>1, <3>4, <4>1, <4>4, CallsAssumption DEF TypeOK
        <4> QED
          BY <4>2, <4>3, <4>4 DEF WaiterIsReachable
      <3> QED
        BY <3>8, <3>9, <3>10, <3>11, <3>12, <3>13
    <2> QED
      BY <2>3, <2>4
  <1>18. CASE UNCHANGED vars
    <2>1. TypeOK'
      BY <1>18 DEF vars, linkVars, callVars, connVars, agentVars, TypeOK, LinkTypeOK
    <2> QED
      BY <1>18, <2>1, QuietStep DEF vars, connVars, agentVars
  <1> QED
    BY <1>1, <1>2, <1>3, <1>4, <1>5, <1>6, <1>7, <1>8, <1>9, <1>10, <1>11, <1>12, <1>13, <1>14, <1>15, <1>16, <1>17, <1>18 DEF Next, Call

\* The inductive invariant holds in every reachable state.
THEOREM IInvHolds == Spec => []IInv
  BY InitInv, StepInv, PTL DEF Spec

\* Every variable keeps its type; the send buffers keep their capacity.
THEOREM TypeCorrect == Spec => []TypeOK
  <1>1. IInv => TypeOK
    BY DEF IInv
  <1> QED
    BY <1>1, IInvHolds, PTL

\* deliverResult never blocks the read pump.
THEOREM ReadPumpFree == Spec => []ReadPumpNeverBlocks
  <1>1. IInv => ReadPumpNeverBlocks
    BY DEF IInv, DeliveryIsExclusive, ReadPumpNeverBlocks
  <1> QED
    BY <1>1, IInvHolds, PTL

\* A waiting call with an id of its own can still be answered.
THEOREM WaiterReachable == Spec => []WaiterIsReachable
  <1>1. IInv => WaiterIsReachable
    BY DEF IInv
  <1> QED
    BY <1>1, IInvHolds, PTL

\* Only a failed send or a lost connection leaves an entry behind.
THEOREM LeftoversAreExplained == Spec => []LeftoversExplained
  <1>1. IInv => LeftoversExplained
    BY DEF IInv
  <1> QED
    BY <1>1, IInvHolds, PTL

-----------------------------------------------------------------------------
(* What a call is answered with *)

\* A request that is made has a kind, and a chat's id is nobody else's.
KindsApart ==
    /\ \A x \in Calls : cpc[x] # "idle" => kind[x] # None
    /\ \A x, y \in Calls : kind[x] = "chat" /\ id[x] # None /\ id[y] = id[x] => y = x

\* Requests of one id whose results go to the same map.
Fits(x, y) == id[x] # None /\ id[y] = id[x] /\ kind[x] # "frame" /\ kind[y] # "frame"

EntriesExpect ==
    \A c \in Conns, i \in Ids : pending[c][i] # None => kind[pending[c][i]] # "frame"

DeliveriesFit ==
    \A c \in Conns :
        delivery[c] # None => delivery[c].of \in received /\ Fits(delivery[c].to, delivery[c].of)

ResultsFit ==
    /\ \A x \in Calls : resultCh[x] # <<>> => \E y \in received : resultCh[x] = <<y>> /\ Fits(x, y)
    /\ \A x \in Calls : outcome[x] = "answered" => resultCh[x] # <<>>

AInv == KindsApart /\ EntriesExpect /\ DeliveriesFit /\ ResultsFit

\* Requests that are made keep their id and kind, and the agent does not forget
\* them, so that fitting results go on to fit.
LEMMA FitsOn ==
  ASSUME IInv, AInv,
         \A x \in Calls : cpc[x] # "idle" => id'[x] = id[x] /\ kind'[x] = kind[x],
         received \subseteq received', NEW x \in Calls, NEW y \in Calls, Fits(x, y)
  PROVE  Fits(x, y)'
  <1>1. cpc[x] # "idle" /\ cpc[y] # "idle"
    BY DEF IInv, RequestKnown, Fits
  <1> QED BY <1>1 DEF Fits

\* A step that makes no request and touches no map but to delete, no delivery and
\* no channel keeps AInv.
LEMMA AnswersKept ==
  ASSUME IInv, AInv, \A x \in Calls : cpc[x] # "idle" <=> cpc'[x] # "idle",
         UNCHANGED <<id, kind, resultCh, delivery>>, received \subseteq received',
         \A x \in Calls : outcome'[x] = "answered" => resultCh[x] # <<>>,
         \A c \in Conns, i \in Ids : pending'[c][i] \in {pending[c][i], None}
  PROVE  AInv'
  <1>1. KindsApart'
    BY DEF AInv, KindsApart
  <1>2. EntriesExpect'
    BY DEF AInv, EntriesExpect
  <1>3. DeliveriesFit' /\ ResultsFit'
    BY DEF AInv, DeliveriesFit, ResultsFit, Fits
  <1> QED BY <1>1, <1>2, <1>3 DEF AInv

LEMMA InitAnswers == Init => AInv
  BY CallsAssumption DEF Init, Outcomes, AInv, KindsApart, EntriesExpect, DeliveriesFit, ResultsFit

LEMMA StepAnswers == IInv /\ AInv /\ [Next]_vars => AInv'
  <1> SUFFICES ASSUME IInv, AInv, [Next]_vars PROVE AInv'
    OBVIOUS
  <1> USE CallsAssumption DEF Goto, Return, Dispatches, Outcomes
  <1>0. TypeOK
    BY DEF IInv
  <1>1. ASSUME NEW x \in Calls, NEW k \in Dispatches, NEW i \in Ids, Request(x, k, i)
        PROVE  AInv'
    <2>1. /\ cpc[x] = "idle" /\ id[x] = None /\ k # None /\ i # None
          /\ \A y \in Calls : id[y] = i => k # "chat" /\ kind[y] # "chat"
          /\ \A y \in Calls \ {x} : id'[y] = id[y] /\ kind'[y] = kind[y] /\ cpc'[y] = cpc[y]
          /\ id'[x] = i /\ kind'[x] = k
          /\ UNCHANGED <<outcome, resultCh, pending, delivery, received>>
      BY <1>0, <1>1 DEF Request, IInv, RequestKnown, TypeOK, connVars, agentVars
    <2>2. KindsApart'
      BY <2>1 DEF AInv, KindsApart
    <2>3. \A y, z \in Calls : Fits(y, z) => Fits(y, z)'
      BY <2>1, FitsOn
    <2>4. EntriesExpect'
      BY <1>0, <2>1 DEF TypeOK, IInv, EntryIsEmptyChannel, Untracked, AInv, EntriesExpect
    <2>5. DeliveriesFit' /\ ResultsFit'
      BY <1>0, <2>1, <2>3 DEF TypeOK, AInv, DeliveriesFit, ResultsFit
    <2> QED BY <2>2, <2>4, <2>5 DEF AInv
  <1>2. ASSUME NEW x \in Calls, Track(x) PROVE AInv'
    <2>1. /\ cpc[x] = "routed" /\ kind[x] # "frame"
          /\ \A y \in Calls : cpc[y] # "idle" <=> cpc'[y] # "idle"
          /\ UNCHANGED <<id, kind, outcome, resultCh, delivery, received>>
          /\ \A c \in Conns, i \in Ids : pending'[c][i] \in {pending[c][i], x}
      BY <1>0, <1>2 DEF Track, TypeOK, agentVars
    <2>2. EntriesExpect'
      BY <2>1 DEF AInv, EntriesExpect
    <2>3. KindsApart' /\ DeliveriesFit' /\ ResultsFit'
      BY <2>1 DEF AInv, KindsApart, DeliveriesFit, ResultsFit, Fits
    <2> QED BY <2>2, <2>3 DEF AInv
  <1>3. ASSUME NEW x \in Calls,
               Route(x) \/ Post(x) \/ PostFails(x) \/ TakeAnswer(x) \/ WaitClosed(x) \/ WaitExpires(x) \/ Expire(x)
        PROVE  AInv'
    <2>1. /\ \A y \in Calls : cpc[y] # "idle" <=> cpc'[y] # "idle"
          /\ UNCHANGED <<id, kind, resultCh, delivery, received>>
          /\ \A y \in Calls : outcome'[y] = "answered" => outcome[y] = "answered" \/ resultCh[y] # <<>>
          /\ \A c \in Conns, i \in Ids : pending'[c][i] \in {pending[c][i], None}
      <3>1. CASE Route(x)
        BY <1>0, <3>1 DEF Route, TypeOK, connVars, agentVars
      <3>2. CASE Post(x) \/ PostFails(x)
        BY <1>0, <3>2 DEF Post, PostFails, Sending, TypeOK, connVars, agentVars
      <3>3. CASE TakeAnswer(x) \/ WaitClosed(x) \/ WaitExpires(x)
        BY <1>0, <3>3 DEF TakeAnswer, WaitClosed, WaitExpires, TypeOK, connVars, agentVars
      <3>4. CASE Expire(x)
        BY <1>0, <3>4 DEF Expire, Without, TypeOK, agentVars
      <3> QED BY <1>3, <3>1, <3>2, <3>3, <3>4
    <2>2. \A y \in Calls : outcome'[y] = "answered" => resultCh[y] # <<>>
      BY <2>1 DEF AInv, ResultsFit
    <2> QED BY <2>1, <2>2, AnswersKept
  <1>4. ASSUME NEW c \in Conns, NEW x \in Calls, ReadResult(c, x) PROVE AInv'
    <2> DEFINE y == pending[c][id[x]]
    <2>1. /\ x \in received /\ kind[x] # "frame" /\ delivery[c] = None
          /\ UNCHANGED <<cpc, id, kind, outcome, resultCh, received>>
      BY <1>4 DEF ReadResult, callVars
    <2>2. id[x] \in Ids /\ id[x] # None
      BY <2>1 DEF IInv, SentIsKnown, RequestKnown
    <2>3. CASE y = None
      <3>1. UNCHANGED <<pending, delivery>>
        BY <1>4, <2>3 DEF ReadResult
      <3> QED BY <2>1, <3>1, AnswersKept DEF AInv, ResultsFit
    <2>4. CASE y # None
      <3>1. y \in Calls /\ id[y] = id[x] /\ kind[y] # "frame"
        BY <1>0, <2>2, <2>4 DEF TypeOK, IInv, EntryIsEmptyChannel, AInv, EntriesExpect
      <3>2. Fits(y, x)
        BY <2>1, <2>2, <3>1 DEF Fits
      <3>0. /\ pending' = [pending EXCEPT ![c][id[x]] = None]
            /\ delivery' = [delivery EXCEPT ![c] = [to |-> y, of |-> x]]
        BY <1>4, <2>4 DEF ReadResult, Without
      <3>3. \A d \in Conns, i \in Ids : pending'[d][i] \in {pending[d][i], None}
        BY <1>0, <3>0 DEF TypeOK
      <3> HIDE DEF y
      <3>4. DeliveriesFit'
        BY <1>0, <2>1, <3>0, <3>2 DEF TypeOK, AInv, DeliveriesFit, Fits
      <3>5. KindsApart' /\ ResultsFit'
        BY <2>1 DEF AInv, KindsApart, ResultsFit, Fits
      <3>6. EntriesExpect'
        BY <2>1, <3>3 DEF AInv, EntriesExpect
      <3> QED BY <3>4, <3>5, <3>6 DEF AInv
    <2> QED BY <2>3, <2>4
  <1>5. ASSUME NEW c \in Conns, Deliver(c) PROVE AInv'
    <2> DEFINE d == delivery[c]
    <2>1. /\ d # None /\ d \in [to : Calls, of : Calls]
          /\ resultCh' = [resultCh EXCEPT ![d.to] = <<d.of>>]
          /\ delivery' = [delivery EXCEPT ![c] = None]
          /\ UNCHANGED <<cpc, id, kind, outcome, pending, received>>
      BY <1>0, <1>5 DEF Deliver, TypeOK, agentVars
    <2>2. d.of \in received /\ Fits(d.to, d.of)
      BY <2>1 DEF AInv, DeliveriesFit
    <2> HIDE DEF d
    <2>3. \A x \in Calls : resultCh'[x] = IF x = d.to THEN <<d.of>> ELSE resultCh[x]
      BY <1>0, <2>1 DEF TypeOK
    <2>4. <<d.of>> # <<>>
      OBVIOUS
    <2>5. ResultsFit'
      BY <2>1, <2>2, <2>3, <2>4 DEF AInv, ResultsFit, Fits
    <2>6. KindsApart' /\ EntriesExpect' /\ DeliveriesFit'
      BY <1>0, <2>1 DEF TypeOK, AInv, KindsApart, EntriesExpect, DeliveriesFit, Fits
    <2> QED BY <2>5, <2>6 DEF AInv
  <1>6. ASSUME NEW c \in Conns,
               ConnAttach(c) \/ ConnClose(c) \/ ConnDrop(c) \/ Hello(c) \/ PumpFrame(c) \/ PumpExit(c)
        PROVE  AInv'
    <2>1. UNCHANGED <<callVars, pending, delivery>> /\ received \subseteq received'
      BY <1>6 DEF ConnAttach, ConnClose, ConnDrop, Hello, PumpFrame, PumpExit, connVars, agentVars
    <2> QED BY <2>1, AnswersKept DEF callVars, AInv, ResultsFit
  <1>7. CASE UNCHANGED vars
    BY <1>7, AnswersKept DEF vars, callVars, connVars, agentVars, AInv, ResultsFit
  <1> QED
    BY <1>1, <1>2, <1>3, <1>4, <1>5, <1>6, <1>7 DEF Next, Call

\* dispatchToolCall and dispatchChatMessage return the answer to a request of
\* their own id and kind or none, whatever an agent sends and ids are reused.
THEOREM AnswersAlwaysFit == Spec => []AnswersFit
  <1>1. IInv /\ AInv => AnswersFit
    <2> SUFFICES ASSUME IInv, AInv, NEW x \in Calls, outcome[x] = "answered"
                 PROVE  \E y \in received : /\ resultCh[x] = <<y>>
                                            /\ id[y] = id[x] /\ kind[y] = kind[x]
                                            /\ kind[x] = "chat" => y = x
      BY DEF AnswersFit
    <2>1. PICK y \in received : resultCh[x] = <<y>> /\ Fits(x, y)
      BY DEF AInv, ResultsFit
    <2>2. y \in Calls /\ cpc[x] # "idle" /\ cpc[y] # "idle"
      BY <2>1 DEF IInv, TypeOK, RequestKnown, Fits
    <2>3. kind[x] \in {"tool", "chat"} /\ kind[y] \in {"tool", "chat"}
      BY <2>1, <2>2 DEF IInv, TypeOK, Dispatches, Fits, AInv, KindsApart
    <2>4. kind[x] = "chat" \/ kind[y] = "chat" => y = x
      BY <2>1, <2>2 DEF AInv, KindsApart, Fits
    <2> QED BY <2>1, <2>3, <2>4 DEF Fits
  <1> QED
    BY <1>1, IInvHolds, InitAnswers, StepAnswers, PTL DEF Spec
=============================================================================
