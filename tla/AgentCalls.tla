----------------------------- MODULE AgentCalls -----------------------------
(***************************************************************************)
(* Round trips to an agent: dispatchToolCall and dispatchChatMessage wait  *)
(* for the answer that the read pump delivers through a channel of         *)
(* capacity one, found by id in agentConn.pending or chatPending;          *)
(* dispatchFrame waits for nothing.  The connections are AgentLink's.      *)
(***************************************************************************)
EXTENDS AgentLink, Naturals, Sequences

CONSTANTS Calls,         \* dispatch requests
          Ids,           \* keys of the two maps: call_ids and chat ids
          SendCap,       \* capacity of agentConn.send (64)
          MaxAnswers,    \* bound: how often an agent answers one request
          None

Dispatches == {"tool", "chat", "frame"}

Outcomes == {"unattached", "unsupported", "disconnected", "sendTimeout",
             "timeout", "answered", "queued"}

ASSUME CallsAssumption ==
    /\ SendCap \in Nat \ {0}
    /\ MaxAnswers \in Nat
    /\ None \notin Calls \cup Conns \cup Ids \cup [to : Calls, of : Calls]
    /\ None \notin Dispatches \cup Outcomes

VARIABLES cpc,        \* the dispatching handler
          kind, id,   \* what is dispatched, and under which key
          outcome,    \* what it returned
          cconn,      \* the connection its lookup returned
          resultCh,   \* its result channel: the requests answered through it
          pending,    \* pending[c][i]: whose channel connection c holds under i
          sendQ,      \* agentConn.send
          pump,       \* connections whose write pump runs
          chatty,     \* connections whose capabilities include passthrough
          delivery,   \* the result a read pump is about to deliver
          received,   \* requests the agent has seen (external)
          answers     \* how often it has answered them (external)

callVars == <<cpc, kind, id, outcome, cconn, resultCh>>
connVars == <<pending, sendQ, pump, chatty, delivery>>
agentVars == <<received, answers>>
vars == <<linkVars, callVars, connVars, agentVars>>

\* A handler: before the lookup, after it, its channel in the map, its frame in
\* the buffer, its timer fired, returned.
PCs == {"idle", "asked", "routed", "tracked", "waiting", "expired", "done"}

TypeOK ==
    /\ LinkTypeOK
    /\ cpc \in [Calls -> PCs]
    /\ kind \in [Calls -> Dispatches \cup {None}]
    /\ id \in [Calls -> Ids \cup {None}]
    /\ outcome \in [Calls -> Outcomes \cup {None}]
    /\ cconn \in [Calls -> Conns \cup {None}]
    /\ resultCh \in [Calls -> Seq(Calls)]
    /\ pending \in [Conns -> [Ids -> Calls \cup {None}]]
    /\ sendQ \in [Conns -> Seq(Calls)]
    /\ \A c \in Conns : Len(sendQ[c]) <= SendCap
    /\ pump \subseteq Conns
    /\ chatty \subseteq Conns
    /\ delivery \in [Conns -> [to : Calls, of : Calls] \cup {None}]
    /\ received \subseteq Calls
    /\ answers \in [Calls -> 0 .. MaxAnswers]

Init ==
    /\ LinkInit
    /\ cpc = [x \in Calls |-> "idle"]
    /\ kind = [x \in Calls |-> None]
    /\ id = [x \in Calls |-> None]
    /\ outcome = [x \in Calls |-> None]
    /\ cconn = [x \in Calls |-> None]
    /\ resultCh = [x \in Calls |-> <<>>]
    /\ pending = [c \in Conns |-> [i \in Ids |-> None]]
    /\ sendQ = [c \in Conns |-> <<>>]
    /\ pump = {}
    /\ chatty = {}
    /\ delivery = [c \in Conns |-> None]
    /\ received = {}
    /\ answers = [x \in Calls |-> 0]

-----------------------------------------------------------------------------
(* The dispatching handlers *)

Goto(x, from, to) == cpc[x] = from /\ cpc' = [cpc EXCEPT ![x] = to]

Return(x, from, result) ==
    /\ Goto(x, from, "done")
    /\ outcome' = [outcome EXCEPT ![x] = result]

\* A request: a tool call's id is the caller's choice, a chat's is fresh and
\* the key of another map.
Request(x, k, i) ==
    /\ \A y \in Calls : id[y] = i => k # "chat" /\ kind[y] # "chat"
    /\ Goto(x, "idle", "asked")
    /\ kind' = [kind EXCEPT ![x] = k]
    /\ id' = [id EXCEPT ![x] = i]
    /\ UNCHANGED <<linkVars, outcome, cconn, resultCh, connVars, agentVars>>

\* agentHub.lookup; a chat is refused by an agent without passthrough.  The bot
\* index may miss a connection that is there (see AgentHub), so not finding one
\* is always possible, and it may lead to one that has been displaced and not
\* unregistered yet.
Route(x) ==
    /\ \/ Return(x, "asked", "unattached") /\ UNCHANGED cconn
       \/ \E c \in {d \in Conns : phase[d] = "up"} :
             /\ cconn' = [cconn EXCEPT ![x] = c]
             /\ IF kind[x] = "chat" /\ c \notin chatty
                THEN Return(x, "asked", "unsupported")
                ELSE Goto(x, "asked", "routed") /\ UNCHANGED outcome
    /\ UNCHANGED <<linkVars, kind, id, resultCh, connVars, agentVars>>

\* Mutant of Track: the entry is made by the answer's reader, too late.
TrackForgotten(x) ==
    /\ kind[x] # "frame"
    /\ Goto(x, "routed", "tracked")
    /\ UNCHANGED <<linkVars, kind, id, outcome, cconn, resultCh, connVars, agentVars>>

\* trackPending, trackChatPending: an older entry of the same id is replaced.
Track(x) ==
    /\ kind[x] # "frame"
    /\ Goto(x, "routed", "tracked")
    /\ pending' = [pending EXCEPT ![cconn[x]][id[x]] = x]
    /\ UNCHANGED <<linkVars, kind, id, outcome, cconn, resultCh, sendQ, pump, chatty, delivery, agentVars>>

\* A handler in front of the first select.
Sending(x) == cpc[x] = IF kind[x] = "frame" THEN "routed" ELSE "tracked"

\* Mutant of Post: the capacity of the buffer is ignored.
PostUnbounded(x) ==
    /\ Sending(x)
    /\ sendQ' = [sendQ EXCEPT ![cconn[x]] = Append(@, x)]
    /\ IF kind[x] = "frame"
       THEN Return(x, "routed", "queued")
       ELSE Goto(x, "tracked", "waiting") /\ UNCHANGED outcome
    /\ UNCHANGED <<linkVars, kind, id, cconn, resultCh, pending, pump, chatty, delivery, agentVars>>

\* The first select: the frame enters the buffer, even of a closed connection ...
Post(x) ==
    /\ Sending(x)
    /\ Len(sendQ[cconn[x]]) < SendCap
    /\ sendQ' = [sendQ EXCEPT ![cconn[x]] = Append(@, x)]
    /\ IF kind[x] = "frame"
       THEN Return(x, "routed", "queued")
       ELSE Goto(x, "tracked", "waiting") /\ UNCHANGED outcome
    /\ UNCHANGED <<linkVars, kind, id, cconn, resultCh, pending, pump, chatty, delivery, agentVars>>

\* ... or the connection is closed, or the buffer stays full for 5 s.  Neither
\* takes the entry out of the map.
PostFails(x) ==
    /\ Sending(x)
    /\ \/ cconn[x] \in closed /\ Return(x, cpc[x], "disconnected")
       \/ Len(sendQ[cconn[x]]) >= SendCap /\ Return(x, cpc[x], "sendTimeout")
    /\ UNCHANGED <<linkVars, kind, id, cconn, resultCh, connVars, agentVars>>

\* The second select, with its three cases.
TakeAnswer(x) ==
    /\ Return(x, "waiting", "answered")
    /\ resultCh[x] # <<>>
    /\ UNCHANGED <<linkVars, kind, id, cconn, resultCh, connVars, agentVars>>

WaitClosed(x) ==
    /\ Return(x, "waiting", "disconnected")
    /\ cconn[x] \in closed
    /\ UNCHANGED <<linkVars, kind, id, cconn, resultCh, connVars, agentVars>>

\* Mutant of WaitExpires: there is no timeout while the agent is connected.
WaitExpiresClosed(x) ==
    /\ Goto(x, "waiting", "expired")
    /\ cconn[x] \in closed
    /\ UNCHANGED <<linkVars, kind, id, outcome, cconn, resultCh, connVars, agentVars>>

WaitExpires(x) ==
    /\ Goto(x, "waiting", "expired")
    /\ UNCHANGED <<linkVars, kind, id, outcome, cconn, resultCh, connVars, agentVars>>

\* Mutant of Without: the entry stays.
WithoutNothing(c, i) == pending

\* What is left in the map of a connection once the entry under i is deleted.
Without(c, i) == [pending EXCEPT ![c][i] = None]

\* Mutant of Expire: the timeout does not clean up.
ExpireKeeps(x) ==
    /\ Return(x, "expired", "timeout")
    /\ UNCHANGED <<linkVars, kind, id, cconn, resultCh, connVars, agentVars>>

\* The timeout's delete, under the mutex: whoever's entry it is by now.
Expire(x) ==
    /\ Return(x, "expired", "timeout")
    /\ pending' = Without(cconn[x], id[x])
    /\ UNCHANGED <<linkVars, kind, id, cconn, resultCh, sendQ, pump, chatty, delivery, agentVars>>

Call(x) ==
    \/ Route(x) \/ Track(x) \/ Post(x) \/ PostFails(x) \/ TakeAnswer(x) \/ WaitClosed(x)
    \/ WaitExpires(x) \/ Expire(x)

-----------------------------------------------------------------------------
(* The connections *)

ConnAttach(c) ==
    /\ Attach(c)
    /\ pump' = pump \cup {c}
    /\ UNCHANGED <<callVars, pending, sendQ, chatty, delivery, agentVars>>

ConnClose(c) ==
    /\ Close(c)
    /\ UNCHANGED <<callVars, connVars, agentVars>>

\* A read pump that is delivering does not notice the loss of its socket.
ConnDrop(c) ==
    /\ delivery[c] = None
    /\ Drop(c)
    /\ UNCHANGED <<callVars, connVars, agentVars>>

\* The hello frame: the agent's capabilities, in the place of earlier ones.
Hello(c) ==
    /\ phase[c] = "up" /\ delivery[c] = None
    /\ chatty' \in {chatty \cup {c}, chatty \ {c}}
    /\ UNCHANGED <<linkVars, callVars, pending, sendQ, pump, delivery, agentVars>>

\* runAgentWritePump
PumpFrame(c) ==
    /\ c \in pump /\ phase[c] = "up"
    /\ sendQ[c] # <<>>
    /\ sendQ' = [sendQ EXCEPT ![c] = Tail(@)]
    /\ received' = received \cup {Head(sendQ[c])}
    /\ UNCHANGED <<linkVars, callVars, pending, pump, chatty, delivery, answers>>

PumpExit(c) ==
    /\ c \in pump
    /\ pump' = pump \ {c}
    /\ UNCHANGED <<linkVars, callVars, pending, sendQ, chatty, delivery, agentVars>>

\* A tool_result or chat_reply arrives, on this connection or on one the agent
\* opened later: deliverResult finds the channel and deletes its entry, and
\* drops a result nobody is tracked for.
ReadResult(c, x) ==
    /\ phase[c] = "up" /\ delivery[c] = None
    /\ x \in received /\ kind[x] # "frame" /\ answers[x] < MaxAnswers
    /\ answers' = [answers EXCEPT ![x] = @ + 1]
    /\ LET y == pending[c][id[x]] IN
       IF y = None
       THEN UNCHANGED <<pending, delivery>>
       ELSE /\ pending' = Without(c, id[x])
            /\ delivery' = [delivery EXCEPT ![c] = [to |-> y, of |-> x]]
    /\ UNCHANGED <<linkVars, callVars, sendQ, pump, chatty, received>>

\* ch <- r, after the mutex is released: it blocks while the channel is full.
Deliver(c) ==
    /\ delivery[c] # None
    /\ resultCh[delivery[c].to] = <<>>
    /\ resultCh' = [resultCh EXCEPT ![delivery[c].to] = <<delivery[c].of>>]
    /\ delivery' = [delivery EXCEPT ![c] = None]
    /\ UNCHANGED <<linkVars, cpc, kind, id, outcome, cconn, pending, sendQ, pump, chatty, agentVars>>

-----------------------------------------------------------------------------

Next ==
    \/ \E x \in Calls, k \in Dispatches, i \in Ids : Request(x, k, i)
    \/ \E x \in Calls : Call(x)
    \/ \E c \in Conns : \/ ConnAttach(c) \/ ConnClose(c) \/ ConnDrop(c) \/ Hello(c)
                        \/ PumpFrame(c) \/ PumpExit(c) \/ Deliver(c)
    \/ \E c \in Conns, x \in Calls : ReadResult(c, x)

Spec == Init /\ [][Next]_vars

\* The handlers run and their timers fire; a select with a closed connection
\* notices it.
Fairness ==
    /\ \A x \in Calls : WF_vars(Call(x))
    /\ \A c \in Conns : WF_vars(Deliver(c))

FairSpec == Spec /\ Fairness

-----------------------------------------------------------------------------
(* Properties *)

\* deliverResult sends outside the mutex on a channel of capacity one, in the
\* read pump of the whole connection.  Whatever an agent answers, twice, late or
\* under a reused id, the channel has room and the read pump never blocks.
ReadPumpNeverBlocks ==
    \A c \in Conns : delivery[c] # None => resultCh[delivery[c].to] = <<>>

Unique(x) == \A y \in Calls \ {x} : id[y] # id[x]

\* A call with an id of its own can be answered from before its request is sent
\* until it returns: it is tracked, or its
\* answer is on the way or there, and the answer is to its own request.
WaiterIsReachable ==
    \A x \in Calls :
        Unique(x) /\ cpc[x] \in {"tracked", "waiting"} =>
            \/ pending[cconn[x]][id[x]] = x
            \/ delivery[cconn[x]] = [to |-> x, of |-> x]
            \/ resultCh[x] = <<x>>

\* An entry is left behind only by a call that failed to send or lost its
\* connection; answered and timed out calls leave nothing.
LeftoversExplained ==
    \A c \in Conns, i \in Ids :
        LET x == pending[c][i] IN
        x # None => /\ cconn[x] = c /\ id[x] = i
                    /\ cpc[x] = "done" => outcome[x] \in {"disconnected", "sendTimeout"}

\* A call that returns a result returns the answer to a request of its own id and
\* kind that the agent has seen, and a chat the answer to itself, however late
\* answers come and ids are used again.
AnswersFit ==
    \A x \in Calls :
        outcome[x] = "answered" =>
            \E y \in received : /\ resultCh[x] = <<y>>
                                /\ id[y] = id[x] /\ kind[y] = kind[x]
                                /\ kind[x] = "chat" => y = x

\* Every dispatch returns, whatever the agent and the connection do.
EveryCallReturns == \A x \in Calls : cpc[x] = "asked" ~> cpc[x] = "done"
=============================================================================
