------------------------ MODULE ShellSessions_proofs ------------------------
(***************************************************************************)
(* Proofs about ShellSessions, for any number of connections, runs,        *)
(* browsers and kicks, and any caps and capacities.                        *)
(***************************************************************************)
EXTENDS ShellSessions, FiniteSetTheorems, SequenceTheorems, TLAPS

-----------------------------------------------------------------------------
(* The processes *)

OpenStep(r) == Open(r) \/ \E h \in Hosts : OpenReserve(r, h)
AgentStep(r) == AgentState(r) \/ AgentStdout(r) \/ AgentExit(r)
BridgeStep(b) ==
    \/ Bridge(b) \/ WSStdin(b) \/ WSBrowserGone(b)
    \/ \E r \in Runs, h \in Hosts : WSRoute(b, r, h)
KickStep(k) == Kick(k) \/ \E r \in Runs, h \in Hosts : KickFind(k, r, h)
ConnStep(c) == ConnAttach(c) \/ ConnClose(c) \/ ConnDrop(c) \/ PumpFrame(c) \/ PumpExit(c)

\* Every step is a step of one process.
LEMMA StepOfOne ==
    ASSUME [Next]_vars
    PROVE  \/ \E r \in Runs : OpenStep(r) \/ Supervisor(r) \/ AgentStep(r)
           \/ \E b \in Bridges : BridgeStep(b)
           \/ \E k \in Kickers : KickStep(k)
           \/ \E c \in Conns : ConnStep(c)
           \/ UNCHANGED vars
  BY DEF Next, OpenStep, AgentStep, BridgeStep, KickStep, ConnStep

-----------------------------------------------------------------------------
(* Types *)

\* Init establishes the types.
LEMMA InitType == Init => TypeOK
  BY ShellAssumption DEF Init, LinkInit, TypeOK, LinkTypeOK, OpenTypeOK, RegTypeOK, ChanTypeOK,
     AgentTypeOK, BridgeTypeOK, KickTypeOK, RowStates

\* What a send into a channel leaves has the channel's type.
LEMMA OfferType ==
    ASSUME NEW S, NEW q \in Seq(S), NEW x \in S, NEW cap
    PROVE  Offer(q, x, cap) \in Seq(S)
  BY DEF Offer

\* One more in a channel that is not full, and one less in one that is not empty.
LEMMA CountType ==
    ASSUME NEW cap \in Nat, NEW n \in 0 .. cap
    PROVE  (n < cap => n + 1 \in 0 .. cap) /\ (n > 0 => n - 1 \in 0 .. cap)
  OBVIOUS

\* A queue a frame was offered to holds frames.
LEMMA EnqueueType ==
    ASSUME AgentTypeOK, NEW c, NEW kind \in {"start", "stop", "stdin"}, NEW r \in Runs,
           Enqueue(c, kind, r) \/ TryEnqueue(c, kind, r)
    PROVE  sendQ' \in [Conns -> Seq(Frames)]
  <1>1. sendQ \in [Conns -> Seq(Frames)]
    BY DEF AgentTypeOK
  <1>2. CASE UNCHANGED sendQ
    BY <1>1, <1>2
  <1>3. CASE sendQ' = [sendQ EXCEPT ![c] = Append(sendQ[c], [kind |-> kind, run |-> r])]
    <2> DEFINE m == [kind |-> kind, run |-> r]
    <2>1. m \in Frames
      BY DEF Frames
    <2> HIDE DEF m
    <2>2. \A d \in Conns : Append(sendQ[d], m) \in Seq(Frames)
      BY <1>1, <2>1
    <2>3. sendQ' = [sendQ EXCEPT ![c] = Append(sendQ[c], m)]
      BY <1>3 DEF m
    <2> QED BY <1>1, <2>2, <2>3
  <1> QED BY <1>2, <1>3 DEF TryEnqueue, Enqueue

\* What an action leaves alone keeps its type.
LEMMA TypeKept ==
    ASSUME TypeOK
    PROVE  /\ UNCHANGED linkVars => LinkTypeOK'
           /\ UNCHANGED openVars => OpenTypeOK'
           /\ UNCHANGED regVars => RegTypeOK'
           /\ UNCHANGED chanVars => ChanTypeOK'
           /\ UNCHANGED agentVars => AgentTypeOK'
           /\ UNCHANGED bridgeVars => BridgeTypeOK'
           /\ UNCHANGED kickVars => KickTypeOK'
  <1>1. UNCHANGED linkVars => LinkTypeOK'
    BY DEF TypeOK, LinkTypeOK, linkVars
  <1>2. UNCHANGED openVars => OpenTypeOK'
    BY DEF TypeOK, OpenTypeOK, openVars
  <1>3. UNCHANGED regVars => RegTypeOK'
    BY DEF TypeOK, RegTypeOK, regVars
  <1>4. UNCHANGED chanVars => ChanTypeOK'
    BY DEF TypeOK, ChanTypeOK, chanVars
  <1>5. UNCHANGED agentVars => AgentTypeOK'
    BY DEF TypeOK, AgentTypeOK, agentVars
  <1>6. UNCHANGED bridgeVars => BridgeTypeOK'
    BY DEF TypeOK, BridgeTypeOK, bridgeVars
  <1>7. UNCHANGED kickVars => KickTypeOK'
    BY DEF TypeOK, KickTypeOK, kickVars
  <1> QED BY <1>1, <1>2, <1>3, <1>4, <1>5, <1>6, <1>7

\* A bridge past its first step has a run, and so has a kick.
OnItsRun(b) == bpc[b] # "idle" => brun[b] \in Runs
KnowsItsRun(k) == kpc[k] # "idle" => krun[k] \in Runs

\* The open handler keeps the types,
LEMMA OpenType ==
    ASSUME TypeOK, NEW r \in Runs, OpenStep(r)
    PROVE  TypeOK'
  <1>1. CASE \E h \in Hosts : OpenReserve(r, h)
    <2>1. OpenTypeOK'
      BY <1>1 DEF OpenReserve, TypeOK, OpenTypeOK, openVars
    <2>2. UNCHANGED <<linkVars, regVars, chanVars, agentVars, bridgeVars, kickVars>>
      BY <1>1 DEF OpenReserve
    <2> QED BY <2>1, <2>2, TypeKept DEF TypeOK
  <1>2. CASE OpenRoute(r)
    <2>1. OpenTypeOK'
      <3>1. opc' \in [Runs -> {"idle", "reserved", "routed", "created", "tracked",
                                   "undispatched", "started", "refused", "inserted",
                                   "waiting", "opened", "rejected"}]
        BY <1>2 DEF OpenRoute, At, TypeOK, OpenTypeOK
      <3>2. rconn' \in [Runs -> Conns \cup {None}]
        BY <1>2 DEF OpenRoute, Routes, TypeOK, OpenTypeOK, LinkTypeOK
      <3> QED BY <1>2, <3>1, <3>2 DEF OpenRoute, TypeOK, OpenTypeOK
    <2>2. UNCHANGED <<linkVars, regVars, chanVars, agentVars, bridgeVars, kickVars>>
      BY <1>2 DEF OpenRoute
    <2> QED BY <2>1, <2>2, TypeKept DEF TypeOK
  <1>3. CASE OpenCreate(r)
    <2>1. OpenTypeOK'
      BY <1>3 DEF OpenCreate, TypeOK, OpenTypeOK, At, RowStates
    <2>2. UNCHANGED <<linkVars, regVars, chanVars, agentVars, bridgeVars, kickVars>>
      BY <1>3 DEF OpenCreate
    <2> QED BY <2>1, <2>2, TypeKept DEF TypeOK
  <1>4. CASE OpenTrack(r)
    <2>1. OpenTypeOK'
      BY <1>4 DEF OpenTrack, TypeOK, OpenTypeOK, At
    <2>2. ChanTypeOK'
      BY <1>4 DEF OpenTrack, TypeOK, ChanTypeOK
    <2>3. UNCHANGED <<linkVars, regVars, agentVars, bridgeVars, kickVars>>
      BY <1>4 DEF OpenTrack
    <2> QED BY <2>1, <2>2, <2>3, TypeKept DEF TypeOK
  <1>5. CASE OpenDispatch(r)
    <2>1. OpenTypeOK'
      BY <1>5 DEF OpenDispatch, TypeOK, OpenTypeOK, At
    <2>2. AgentTypeOK'
      <3>1. sendQ' \in [Conns -> Seq(Frames)]
        BY <1>5, EnqueueType DEF OpenDispatch, TryEnqueue, TypeOK
      <3> QED BY <1>5, <3>1 DEF OpenDispatch, TypeOK, AgentTypeOK
    <2>3. UNCHANGED <<linkVars, regVars, chanVars, bridgeVars, kickVars>>
      BY <1>5 DEF OpenDispatch
    <2> QED BY <2>1, <2>2, <2>3, TypeKept DEF TypeOK
  <1>6. CASE OpenUndispatched(r)
    <2>1. OpenTypeOK'
      BY <1>6 DEF OpenUndispatched, TypeOK, OpenTypeOK, At, Finalize, RowStates
    <2>2. ChanTypeOK'
      BY <1>6 DEF OpenUndispatched, TypeOK, ChanTypeOK
    <2>3. UNCHANGED <<linkVars, regVars, agentVars, bridgeVars, kickVars>>
      BY <1>6 DEF OpenUndispatched
    <2> QED BY <2>1, <2>2, <2>3, TypeKept DEF TypeOK
  <1>7. CASE OpenInsert(r)
    <2>1. OpenTypeOK'
      BY <1>7 DEF OpenInsert, TypeOK, OpenTypeOK, At
    <2>2. RegTypeOK'
      BY <1>7 DEF OpenInsert, TypeOK, RegTypeOK
    <2>3. UNCHANGED <<linkVars, chanVars, agentVars, bridgeVars, kickVars>>
      BY <1>7 DEF OpenInsert
    <2> QED BY <2>1, <2>2, <2>3, TypeKept DEF TypeOK
  <1>8. CASE OpenFull(r)
    <2>1. OpenTypeOK'
      BY <1>8 DEF OpenFull, TypeOK, OpenTypeOK, At
    <2>2. AgentTypeOK'
      <3>1. sendQ' \in [Conns -> Seq(Frames)]
        BY <1>8, EnqueueType DEF OpenFull, TryEnqueue, TypeOK
      <3> QED BY <1>8, <3>1 DEF OpenFull, TypeOK, AgentTypeOK
    <2>3. UNCHANGED <<linkVars, regVars, chanVars, bridgeVars, kickVars>>
      BY <1>8 DEF OpenFull
    <2> QED BY <2>1, <2>2, <2>3, TypeKept DEF TypeOK
  <1>9. CASE OpenRefused(r)
    <2>1. OpenTypeOK'
      BY <1>9 DEF OpenRefused, TypeOK, OpenTypeOK, At, Finalize, RowStates
    <2>2. ChanTypeOK'
      BY <1>9 DEF OpenRefused, TypeOK, ChanTypeOK
    <2>3. UNCHANGED <<linkVars, regVars, agentVars, bridgeVars, kickVars>>
      BY <1>9 DEF OpenRefused
    <2> QED BY <2>1, <2>2, <2>3, TypeKept DEF TypeOK
  <1>10. CASE OpenSupervise(r)
    <2>1. OpenTypeOK'
      BY <1>10 DEF OpenSupervise, TypeOK, OpenTypeOK, At
    <2>2. ChanTypeOK'
      BY <1>10 DEF OpenSupervise, TypeOK, ChanTypeOK
    <2>3. UNCHANGED <<linkVars, regVars, agentVars, bridgeVars, kickVars>>
      BY <1>10 DEF OpenSupervise
    <2> QED BY <2>1, <2>2, <2>3, TypeKept DEF TypeOK
  <1>11. CASE OpenAnswer(r)
    <2>1. OpenTypeOK'
      BY <1>11 DEF OpenAnswer, TypeOK, OpenTypeOK, At
    <2>2. UNCHANGED <<linkVars, regVars, chanVars, agentVars, bridgeVars, kickVars>>
      BY <1>11 DEF OpenAnswer
    <2> QED BY <2>1, <2>2, TypeKept DEF TypeOK
  <1> QED BY <1>1, <1>2, <1>3, <1>4, <1>5, <1>6, <1>7, <1>8, <1>9, <1>10, <1>11 DEF Open, OpenStep

\* the supervisor does,
LEMMA SupervisorType ==
    ASSUME TypeOK, NEW r \in Runs, Supervisor(r)
    PROVE  TypeOK'
  <1>1. CASE SupervisorEvent(r)
    <2>1. ChanTypeOK'
      <3> DEFINE ev == Head(eventQ[r])
      <3>1. eventQ[r] \in Seq({"state", "exit"}) /\ eventQ[r] # <<>>
        BY <1>1 DEF SupervisorEvent, TypeOK, ChanTypeOK
      <3>2. Tail(eventQ[r]) \in Seq({"state", "exit"})
        BY <3>1
      <3>3. eventQ' \in [Runs -> Seq({"state", "exit"})]
        BY <1>1, <3>2 DEF SupervisorEvent, TypeOK, ChanTypeOK
      <3>4. /\ signal' \in [Runs -> {"none", "ok", "failed"}]
            /\ spc' \in [Runs -> {"none", "loop", "finalize", "snatch", "remove", "untrack",
                                  "done"}]
        BY <1>1 DEF SupervisorEvent, SignalFirst, TypeOK, ChanTypeOK
      <3> QED BY <1>1, <3>3, <3>4 DEF SupervisorEvent, TypeOK, ChanTypeOK
    <2>2. BridgeTypeOK'
      <3> DEFINE ev == Head(eventQ[r])
      <3>1. ev \in {"state", "exit"}
        BY <1>1 DEF SupervisorEvent, TypeOK, ChanTypeOK
      <3> DEFINE q == Offer(evSink[slot[r]], ev, SinkCap)
      <3>2. slot[r] \in Bridges => q \in Seq({"state", "exit"})
        BY <3>1, OfferType DEF TypeOK, BridgeTypeOK
      <3>3. evSink' = evSink \/ evSink' = [evSink EXCEPT ![slot[r]] = q]
        BY <1>1 DEF SupervisorEvent
      <3> HIDE DEF q
      <3>4. evSink' \in [Bridges -> Seq({"state", "exit"})]
        BY <3>2, <3>3 DEF TypeOK, BridgeTypeOK
      <3> QED BY <1>1, <3>4 DEF SupervisorEvent, TypeOK, BridgeTypeOK
    <2>3. UNCHANGED <<linkVars, openVars, regVars, agentVars, kickVars>>
      BY <1>1 DEF SupervisorEvent
    <2> QED BY <2>1, <2>2, <2>3, TypeKept DEF TypeOK
  <1>2. CASE SupervisorStdout(r)
    <2>1. ChanTypeOK'
      <3>1. stdoutN[r] - 1 \in 0 .. StdoutCap
        BY <1>2, ShellAssumption, CountType DEF SupervisorStdout, TypeOK, ChanTypeOK
      <3>2. stdoutN' \in [Runs -> 0 .. StdoutCap]
        BY <1>2, <3>1 DEF SupervisorStdout, TypeOK, ChanTypeOK
      <3> QED BY <1>2, <3>2 DEF SupervisorStdout, SignalFirst, TypeOK, ChanTypeOK
    <2>2. UNCHANGED <<linkVars, openVars, regVars, agentVars, bridgeVars, kickVars>>
      BY <1>2 DEF SupervisorStdout
    <2> QED BY <2>1, <2>2, TypeKept DEF TypeOK
  <1>3. CASE SupervisorClosed(r)
    <2>1. ChanTypeOK'
      BY <1>3 DEF SupervisorClosed, TypeOK, ChanTypeOK, At, SignalFirst
    <2>2. UNCHANGED <<linkVars, openVars, regVars, agentVars, bridgeVars, kickVars>>
      BY <1>3 DEF SupervisorClosed
    <2> QED BY <2>1, <2>2, TypeKept DEF TypeOK
  <1>4. CASE SupervisorFinalize(r)
    <2>1. OpenTypeOK'
      BY <1>4 DEF SupervisorFinalize, TypeOK, OpenTypeOK, Finalize, RowStates
    <2>2. ChanTypeOK'
      BY <1>4 DEF SupervisorFinalize, TypeOK, ChanTypeOK, At
    <2>3. UNCHANGED <<linkVars, regVars, agentVars, bridgeVars, kickVars>>
      BY <1>4 DEF SupervisorFinalize
    <2> QED BY <2>1, <2>2, <2>3, TypeKept DEF TypeOK
  <1>5. CASE SupervisorSnatch(r)
    <2>1. RegTypeOK'
      BY <1>5 DEF SupervisorSnatch, TypeOK, RegTypeOK
    <2>2. ChanTypeOK'
      BY <1>5 DEF SupervisorSnatch, TypeOK, ChanTypeOK, At
    <2>3. BridgeTypeOK'
      BY <1>5 DEF SupervisorSnatch, TypeOK, RegTypeOK, BridgeTypeOK
    <2>4. UNCHANGED <<linkVars, openVars, agentVars, kickVars>>
      BY <1>5 DEF SupervisorSnatch
    <2> QED BY <2>1, <2>2, <2>3, <2>4, TypeKept DEF TypeOK
  <1>6. CASE SupervisorRemove(r)
    <2>1. RegTypeOK'
      BY <1>6 DEF SupervisorRemove, TypeOK, RegTypeOK
    <2>2. ChanTypeOK'
      BY <1>6 DEF SupervisorRemove, TypeOK, ChanTypeOK, At
    <2>3. UNCHANGED <<linkVars, openVars, agentVars, bridgeVars, kickVars>>
      BY <1>6 DEF SupervisorRemove
    <2> QED BY <2>1, <2>2, <2>3, TypeKept DEF TypeOK
  <1>7. CASE SupervisorUntrack(r)
    <2>1. ChanTypeOK'
      <3>1. 0 \in 0 .. StdoutCap /\ <<>> \in Seq({"state", "exit"})
        BY ShellAssumption
      <3> QED BY <1>7, <3>1 DEF SupervisorUntrack, At, TypeOK, ChanTypeOK
    <2>2. UNCHANGED <<linkVars, openVars, regVars, agentVars, bridgeVars, kickVars>>
      BY <1>7 DEF SupervisorUntrack
    <2> QED BY <2>1, <2>2, TypeKept DEF TypeOK
  <1> QED BY <1>1, <1>2, <1>3, <1>4, <1>5, <1>6, <1>7 DEF Supervisor

\* a browser bridge of a known run does,
LEMMA BridgeType ==
    ASSUME TypeOK, NEW b \in Bridges, OnItsRun(b), BridgeStep(b)
    PROVE  TypeOK'
  <1>1. CASE \E r \in Runs, h \in Hosts : WSRoute(b, r, h)
    <2>1. BridgeTypeOK'
      <3>1. bpc' \in [Bridges -> {"idle", "routed", "admitted", "evicting", "live", "closing",
                                  "done"}]
        BY <1>1 DEF WSRoute, At, TypeOK, BridgeTypeOK
      <3>2. bconn' \in [Bridges -> Conns \cup {None}]
        <4>1. inHub \subseteq Conns /\ bconn \in [Bridges -> Conns \cup {None}]
          BY DEF TypeOK, BridgeTypeOK, LinkTypeOK
        <4>2. bconn' = bconn \/ \E c \in inHub : bconn' = [bconn EXCEPT ![b] = c]
          BY <1>1 DEF WSRoute, Routes
        <4> QED BY <4>1, <4>2
      <3>3. /\ brun' \in [Bridges -> Runs \cup {None}]
            /\ UNCHANGED <<bprev, evSink, cancelled>>
        BY <1>1 DEF WSRoute, TypeOK, BridgeTypeOK
      <3>4. BridgeTypeOK
        BY DEF TypeOK
      <3> QED BY <3>1, <3>2, <3>3, <3>4 DEF BridgeTypeOK
    <2>2. UNCHANGED <<linkVars, openVars, regVars, chanVars, agentVars, kickVars>>
      BY <1>1 DEF WSRoute
    <2> QED BY <2>1, <2>2, TypeKept DEF TypeOK
  <1>2. CASE WSAdmit(b)
    <2>1. BridgeTypeOK'
      BY <1>2 DEF WSAdmit, TypeOK, BridgeTypeOK, At
    <2>2. UNCHANGED <<linkVars, openVars, regVars, chanVars, agentVars, kickVars>>
      BY <1>2 DEF WSAdmit
    <2> QED BY <2>1, <2>2, TypeKept DEF TypeOK
  <1>3. CASE WSAttach(b)
    <2>1. RegTypeOK'
      BY <1>3 DEF WSAttach, TypeOK, RegTypeOK, At
    <2>2. BridgeTypeOK'
      <3>1. bprev' \in [Bridges -> Bridges \cup {None}]
        <4>1. CASE UNCHANGED bprev
          BY <4>1 DEF TypeOK, BridgeTypeOK
        <4>2. CASE brun[b] \in byRun
          <5>1. slot[brun[b]] \in Bridges \cup {None}
            BY <4>2 DEF TypeOK, RegTypeOK
          <5>2. bprev' = [bprev EXCEPT ![b] = slot[brun[b]]]
            BY <1>3, <4>2 DEF WSAttach
          <5> QED BY <5>1, <5>2 DEF TypeOK, BridgeTypeOK
        <4> QED BY <1>3, <4>1, <4>2 DEF WSAttach
      <3> QED BY <1>3, <3>1 DEF WSAttach, At, TypeOK, BridgeTypeOK
    <2>3. UNCHANGED <<linkVars, openVars, chanVars, agentVars, kickVars>>
      BY <1>3 DEF WSAttach
    <2> QED BY <2>1, <2>2, <2>3, TypeKept DEF TypeOK
  <1>4. CASE WSEvict(b)
    <2>1. BridgeTypeOK'
      <3>1. bprev' \in [Bridges -> Bridges \cup {None}]
        BY <1>4 DEF WSEvict, TypeOK, BridgeTypeOK
      <3>2. cancelled' \subseteq Bridges
        BY <1>4 DEF WSEvict, TypeOK, BridgeTypeOK
      <3> QED BY <1>4, <3>1, <3>2 DEF WSEvict, At, TypeOK, BridgeTypeOK
    <2>2. UNCHANGED <<linkVars, openVars, regVars, chanVars, agentVars, kickVars>>
      BY <1>4 DEF WSEvict
    <2> QED BY <2>1, <2>2, TypeKept DEF TypeOK
  <1>5. CASE WSEvent(b)
    <2>1. BridgeTypeOK'
      <3>1. Tail(evSink[b]) \in Seq({"state", "exit"})
        BY <1>5 DEF WSEvent, TypeOK, BridgeTypeOK
      <3>2. evSink' \in [Bridges -> Seq({"state", "exit"})]
        BY <1>5, <3>1 DEF WSEvent, TypeOK, BridgeTypeOK
      <3> QED BY <1>5, <3>2 DEF WSEvent, TypeOK, BridgeTypeOK
    <2>2. UNCHANGED <<linkVars, openVars, regVars, chanVars, agentVars, kickVars>>
      BY <1>5 DEF WSEvent
    <2> QED BY <2>1, <2>2, TypeKept DEF TypeOK
  <1>6. CASE WSStopped(b)
    <2>1. BridgeTypeOK'
      BY <1>6 DEF WSStopped, TypeOK, BridgeTypeOK, At
    <2>2. UNCHANGED <<linkVars, openVars, regVars, chanVars, agentVars, kickVars>>
      BY <1>6 DEF WSStopped
    <2> QED BY <2>1, <2>2, TypeKept DEF TypeOK
  <1>7. CASE WSDetach(b)
    <2>1. RegTypeOK'
      BY <1>7 DEF WSDetach, TypeOK, RegTypeOK, At
    <2>2. BridgeTypeOK'
      BY <1>7 DEF WSDetach, TypeOK, BridgeTypeOK, At
    <2>3. UNCHANGED <<linkVars, openVars, chanVars, agentVars, kickVars>>
      BY <1>7 DEF WSDetach
    <2> QED BY <2>1, <2>2, <2>3, TypeKept DEF TypeOK
  <1>8. CASE WSStdin(b)
    <2>1. AgentTypeOK'
      <3>1. CASE UNCHANGED sendQ
        BY <1>8, <3>1 DEF WSStdin, TypeOK, AgentTypeOK
      <3>2. CASE Enqueue(bconn[b], "stdin", brun[b])
        <4>1. sendQ' \in [Conns -> Seq(Frames)]
          BY <1>8, <3>2, EnqueueType DEF WSStdin, TypeOK, OnItsRun
        <4> QED BY <1>8, <4>1 DEF WSStdin, TypeOK, AgentTypeOK
      <3> QED BY <1>8, <3>1, <3>2 DEF WSStdin
    <2>2. BridgeTypeOK'
      BY <1>8 DEF WSStdin, TypeOK, BridgeTypeOK
    <2>3. UNCHANGED <<linkVars, openVars, regVars, chanVars, kickVars>>
      BY <1>8 DEF WSStdin
    <2> QED BY <2>1, <2>2, <2>3, TypeKept DEF TypeOK
  <1>9. CASE WSBrowserGone(b)
    <2>1. BridgeTypeOK'
      BY <1>9 DEF WSBrowserGone, TypeOK, BridgeTypeOK
    <2>2. UNCHANGED <<linkVars, openVars, regVars, chanVars, agentVars, kickVars>>
      BY <1>9 DEF WSBrowserGone
    <2> QED BY <2>1, <2>2, TypeKept DEF TypeOK
  <1> QED BY <1>1, <1>2, <1>3, <1>4, <1>5, <1>6, <1>7, <1>8, <1>9 DEF Bridge, BridgeStep

\* a kick of a known run does,
LEMMA KickType ==
    ASSUME TypeOK, NEW k \in Kickers, KnowsItsRun(k), KickStep(k)
    PROVE  TypeOK'
  <1>1. CASE \E r \in Runs, h \in Hosts : KickFind(k, r, h)
    <2>1. KickTypeOK'
      BY <1>1 DEF KickFind, TypeOK, KickTypeOK, At
    <2>2. UNCHANGED <<linkVars, openVars, regVars, chanVars, agentVars, bridgeVars>>
      BY <1>1 DEF KickFind
    <2> QED BY <2>1, <2>2, TypeKept DEF TypeOK
  <1>2. CASE KickSever(k)
    <2>1. BridgeTypeOK'
      <3>1. cancelled' \subseteq Bridges
        BY <1>2 DEF KickSever, TypeOK, BridgeTypeOK, RegTypeOK
      <3> QED BY <1>2, <3>1 DEF KickSever, TypeOK, BridgeTypeOK
    <2>2. KickTypeOK'
      BY <1>2 DEF KickSever, TypeOK, KickTypeOK, At
    <2>3. UNCHANGED <<linkVars, openVars, regVars, chanVars, agentVars>>
      BY <1>2 DEF KickSever
    <2> QED BY <2>1, <2>2, <2>3, TypeKept DEF TypeOK
  <1>3. CASE KickRoute(k)
    <2>1. KickTypeOK'
      <3>1. kpc' \in [Kickers -> {"idle", "found", "severed", "routed", "done"}]
        BY <1>3 DEF KickRoute, At, TypeOK, KickTypeOK
      <3>2. kconn' \in [Kickers -> Conns \cup {None}]
        BY <1>3 DEF KickRoute, Routes, TypeOK, KickTypeOK, LinkTypeOK
      <3> QED BY <1>3, <3>1, <3>2 DEF KickRoute, TypeOK, KickTypeOK
    <2>2. UNCHANGED <<linkVars, openVars, regVars, chanVars, agentVars, bridgeVars>>
      BY <1>3 DEF KickRoute
    <2> QED BY <2>1, <2>2, TypeKept DEF TypeOK
  <1>4. CASE KickStop(k)
    <2>1. AgentTypeOK'
      <3>1. CASE UNCHANGED sendQ
        BY <1>4, <3>1 DEF KickStop, TypeOK, AgentTypeOK
      <3>2. CASE Enqueue(kconn[k], "stop", krun[k])
        <4>1. sendQ' \in [Conns -> Seq(Frames)]
          BY <1>4, <3>2, EnqueueType DEF KickStop, At, TypeOK, KnowsItsRun
        <4> QED BY <1>4, <4>1 DEF KickStop, TypeOK, AgentTypeOK
      <3> QED BY <1>4, <3>1, <3>2 DEF KickStop, TryEnqueue
    <2>2. KickTypeOK'
      BY <1>4 DEF KickStop, TypeOK, KickTypeOK, At
    <2>3. UNCHANGED <<linkVars, openVars, regVars, chanVars, bridgeVars>>
      BY <1>4 DEF KickStop
    <2> QED BY <2>1, <2>2, <2>3, TypeKept DEF TypeOK
  <1> QED BY <1>1, <1>2, <1>3, <1>4 DEF Kick, KickStep

\* the connections and their pumps do,
LEMMA ConnType ==
    ASSUME TypeOK, NEW c \in Conns, ConnStep(c)
    PROVE  TypeOK'
  <1>1. CASE ConnAttach(c)
    <2>1. LinkTypeOK'
      BY <1>1 DEF ConnAttach, TypeOK, LinkTypeOK, Attach
    <2>2. AgentTypeOK'
      BY <1>1 DEF ConnAttach, TypeOK, AgentTypeOK
    <2>3. UNCHANGED <<openVars, regVars, chanVars, bridgeVars, kickVars>>
      BY <1>1 DEF ConnAttach
    <2> QED BY <2>1, <2>2, <2>3, TypeKept DEF TypeOK
  <1>2. CASE ConnClose(c)
    <2>1. LinkTypeOK'
      BY <1>2 DEF ConnClose, TypeOK, LinkTypeOK, Close
    <2>2. UNCHANGED <<openVars, regVars, chanVars, agentVars, bridgeVars, kickVars>>
      BY <1>2 DEF ConnClose
    <2> QED BY <2>1, <2>2, TypeKept DEF TypeOK
  <1>3. CASE ConnDrop(c)
    <2>1. LinkTypeOK'
      BY <1>3 DEF ConnDrop, TypeOK, LinkTypeOK, Drop
    <2>2. UNCHANGED <<openVars, regVars, chanVars, agentVars, bridgeVars, kickVars>>
      BY <1>3 DEF ConnDrop
    <2> QED BY <2>1, <2>2, TypeKept DEF TypeOK
  <1>4. CASE PumpFrame(c)
    <2>1. AgentTypeOK'
      <3>1. sendQ[c] \in Seq(Frames) /\ sendQ[c] # <<>>
        BY <1>4 DEF PumpFrame, TypeOK, AgentTypeOK
      <3>2. Tail(sendQ[c]) \in Seq(Frames)
        BY <3>1
      <3>3. sendQ' \in [Conns -> Seq(Frames)]
        BY <1>4, <3>2 DEF PumpFrame, TypeOK, AgentTypeOK
      <3>4. agent' \in [Runs -> {"none", "running", "stopping", "over"}]
        BY <1>4 DEF PumpFrame, TypeOK, AgentTypeOK
      <3> QED BY <1>4, <3>3, <3>4 DEF PumpFrame, TypeOK, AgentTypeOK
    <2>2. UNCHANGED <<linkVars, openVars, regVars, chanVars, bridgeVars, kickVars>>
      BY <1>4 DEF PumpFrame
    <2> QED BY <2>1, <2>2, TypeKept DEF TypeOK
  <1>5. CASE PumpExit(c)
    <2>1. AgentTypeOK'
      <3>1. sendQ[c] # <<>> => Tail(sendQ[c]) \in Seq(Frames)
        BY DEF TypeOK, AgentTypeOK
      <3>2. sendQ' \in [Conns -> Seq(Frames)]
        BY <1>5, <3>1 DEF PumpExit, TypeOK, AgentTypeOK
      <3> QED BY <1>5, <3>2 DEF PumpExit, TypeOK, AgentTypeOK
    <2>2. UNCHANGED <<linkVars, openVars, regVars, chanVars, bridgeVars, kickVars>>
      BY <1>5 DEF PumpExit
    <2> QED BY <2>1, <2>2, TypeKept DEF TypeOK
  <1> QED BY <1>1, <1>2, <1>3, <1>4, <1>5 DEF ConnStep

\* and so do the agents.
LEMMA AgentType ==
    ASSUME TypeOK, NEW r \in Runs, AgentStep(r)
    PROVE  TypeOK'
  <1>1. CASE AgentState(r)
    <2>1. ChanTypeOK'
      <3>1. Offer(eventQ[r], "state", EventCap) \in Seq({"state", "exit"})
        BY OfferType DEF TypeOK, ChanTypeOK
      <3>2. eventQ' \in [Runs -> Seq({"state", "exit"})]
        BY <1>1, <3>1 DEF AgentState, TypeOK, ChanTypeOK
      <3> QED BY <1>1, <3>2 DEF AgentState, TypeOK, ChanTypeOK
    <2>2. UNCHANGED <<linkVars, openVars, regVars, agentVars, bridgeVars, kickVars>>
      BY <1>1 DEF AgentState
    <2> QED BY <2>1, <2>2, TypeKept DEF TypeOK
  <1>2. CASE AgentStdout(r)
    <2>1. ChanTypeOK'
      <3>1. stdoutN[r] < StdoutCap => stdoutN[r] + 1 \in 0 .. StdoutCap
        BY ShellAssumption, CountType DEF TypeOK, ChanTypeOK
      <3>2. stdoutN' \in [Runs -> 0 .. StdoutCap]
        BY <1>2, <3>1 DEF AgentStdout, TypeOK, ChanTypeOK
      <3> QED BY <1>2, <3>2 DEF AgentStdout, TypeOK, ChanTypeOK
    <2>2. UNCHANGED <<linkVars, openVars, regVars, agentVars, bridgeVars, kickVars>>
      BY <1>2 DEF AgentStdout
    <2> QED BY <2>1, <2>2, TypeKept DEF TypeOK
  <1>3. CASE AgentExit(r)
    <2>1. ChanTypeOK'
      <3>1. Offer(eventQ[r], "exit", EventCap) \in Seq({"state", "exit"})
        BY OfferType DEF TypeOK, ChanTypeOK
      <3>2. eventQ' \in [Runs -> Seq({"state", "exit"})]
        BY <1>3, <3>1 DEF AgentExit, TypeOK, ChanTypeOK
      <3> QED BY <1>3, <3>2 DEF AgentExit, TypeOK, ChanTypeOK
    <2>2. AgentTypeOK'
      BY <1>3 DEF AgentExit, TypeOK, AgentTypeOK
    <2>3. UNCHANGED <<linkVars, openVars, regVars, bridgeVars, kickVars>>
      BY <1>3 DEF AgentExit
    <2> QED BY <2>1, <2>2, <2>3, TypeKept DEF TypeOK
  <1> QED BY <1>1, <1>2, <1>3 DEF AgentStep

-----------------------------------------------------------------------------
(* The run: its handler, its supervisor, the registry and its channels *)

\* The two processes of a run hand it over: the supervisor runs only after the
\* handler has started it, and from then on the handler only waits and answers.
HandsOver(r) ==
    /\ spc[r] # "none" => opc[r] \in {"waiting", "opened", "rejected"}
    /\ opc[r] \in {"waiting", "opened"} => spc[r] # "none"
    /\ opc[r] # "idle" => rhost[r] \in Hosts

\* SessionIsSupervised, for one run.
Registered(r) ==
    /\ r \in byRun <=> \/ opc[r] = "inserted"
                       \/ spc[r] \in {"loop", "finalize", "snatch", "remove"}
    /\ \A h \in Hosts : r \in byHost[h] <=> r \in byRun /\ rhost[r] = h

\* The channels are tracked from trackShellChannels until the error path or
\* the supervisor untracks them.
TrackedWhileServed(r) ==
    r \in tracked <=>
        \/ opc[r] \in {"tracked", "undispatched", "started", "refused", "inserted"}
        \/ spc[r] \in {"loop", "finalize", "snatch", "remove", "untrack"}

\* The row is open while anybody may still close it.
RowIsOpen(r) ==
    /\ opc[r] \in {"idle", "reserved", "routed"} => row[r] = "none"
    /\ \/ opc[r] \in {"created", "tracked", "undispatched", "started", "refused", "inserted"}
       \/ spc[r] \in {"loop", "finalize"}
       => row[r] = "starting"
    /\ FinalizeMayFail = FALSE /\ spc[r] \in {"snatch", "remove"} => row[r] = "ended"

\* The row says who closed it.
RowNamesCloser(r) ==
    /\ row[r] \in {"failed:dispatch", "failed:registry"} => opc[r] = "rejected" /\ spc[r] = "none"
    /\ row[r] = "ended" => spc[r] \in {"snatch", "remove", "untrack", "done"}

RunInv(r) ==
    HandsOver(r) /\ Registered(r) /\ TrackedWhileServed(r) /\ RowIsOpen(r) /\ RowNamesCloser(r)

\* The open handler keeps the invariant of its run.
LEMMA OpenRun ==
    ASSUME TypeOK, NEW r \in Runs, RunInv(r), OpenStep(r)
    PROVE  RunInv(r)'
  <1> USE DEF RunInv, HandsOver, Registered, TrackedWhileServed, RowIsOpen, RowNamesCloser
  <1> USE DEF At, TypeOK, OpenTypeOK, RegTypeOK, ChanTypeOK, linkVars, regVars, chanVars
  <1>1. CASE \E h \in Hosts : OpenReserve(r, h)
    BY <1>1 DEF OpenReserve
  <1>2. CASE OpenRoute(r)
    BY <1>2 DEF OpenRoute
  <1>3. CASE OpenCreate(r)
    BY <1>3 DEF OpenCreate
  <1>4. CASE OpenTrack(r)
    BY <1>4 DEF OpenTrack
  <1>5. CASE OpenDispatch(r)
    BY <1>5 DEF OpenDispatch
  <1>6. CASE OpenUndispatched(r)
    BY <1>6 DEF OpenUndispatched, Finalize
  <1>7. CASE OpenInsert(r)
    BY <1>7 DEF OpenInsert
  <1>8. CASE OpenFull(r)
    BY <1>8 DEF OpenFull
  <1>9. CASE OpenRefused(r)
    BY <1>9 DEF OpenRefused, Finalize
  <1>10. CASE OpenSupervise(r)
    BY <1>10 DEF OpenSupervise
  <1>11. CASE OpenAnswer(r)
    BY <1>11 DEF OpenAnswer
  <1> QED BY <1>1, <1>2, <1>3, <1>4, <1>5, <1>6, <1>7, <1>8, <1>9, <1>10, <1>11 DEF Open, OpenStep

\* And so does its supervisor.
LEMMA SupervisorRun ==
    ASSUME TypeOK, NEW r \in Runs, RunInv(r), Supervisor(r)
    PROVE  RunInv(r)'
  <1> USE DEF RunInv, HandsOver, Registered, TrackedWhileServed, RowIsOpen, RowNamesCloser
  <1> USE DEF At, TypeOK, OpenTypeOK, RegTypeOK, ChanTypeOK, linkVars, openVars, regVars
  <1>1. CASE SupervisorEvent(r)
    BY <1>1 DEF SupervisorEvent
  <1>2. CASE SupervisorStdout(r)
    BY <1>2 DEF SupervisorStdout
  <1>3. CASE SupervisorClosed(r)
    BY <1>3 DEF SupervisorClosed
  <1>4. CASE SupervisorFinalize(r)
    BY <1>4, ShellAssumption DEF SupervisorFinalize, Finalize
  <1>5. CASE SupervisorSnatch(r)
    BY <1>5 DEF SupervisorSnatch
  <1>6. CASE SupervisorRemove(r)
    BY <1>6 DEF SupervisorRemove
  <1>7. CASE SupervisorUntrack(r)
    BY <1>7 DEF SupervisorUntrack
  <1> QED BY <1>1, <1>2, <1>3, <1>4, <1>5, <1>6, <1>7 DEF Supervisor

\* What the run's invariant is about, as far as another process of run r
\* leaves run s alone.
Untouched(s) ==
    /\ opc'[s] = opc[s] /\ spc'[s] = spc[s] /\ rhost'[s] = rhost[s] /\ row'[s] = row[s]
    /\ s \in byRun' <=> s \in byRun
    /\ \A h \in Hosts : s \in byHost'[h] <=> s \in byHost[h]
    /\ s \in tracked' <=> s \in tracked

\* A process of one run leaves the other runs alone.
LEMMA OthersUntouched ==
    ASSUME TypeOK, NEW r \in Runs, NEW s \in Runs, s # r, OpenStep(r) \/ Supervisor(r)
    PROVE  Untouched(s)
  <1> USE DEF Untouched, At, TypeOK, OpenTypeOK, RegTypeOK, ChanTypeOK
  <1> USE DEF linkVars, openVars, regVars, chanVars
  <1>1. CASE OpenStep(r)
    <2>1. CASE \E h \in Hosts : OpenReserve(r, h)
      BY <2>1 DEF OpenReserve
    <2>2. CASE OpenRoute(r)
      BY <2>2 DEF OpenRoute
    <2>3. CASE OpenCreate(r)
      BY <2>3 DEF OpenCreate
    <2>4. CASE OpenTrack(r)
      BY <2>4 DEF OpenTrack
    <2>5. CASE OpenDispatch(r)
      BY <2>5 DEF OpenDispatch
    <2>6. CASE OpenUndispatched(r)
      BY <2>6 DEF OpenUndispatched, Finalize
    <2>7. CASE OpenInsert(r)
      BY <2>7 DEF OpenInsert
    <2>8. CASE OpenFull(r)
      BY <2>8 DEF OpenFull
    <2>9. CASE OpenRefused(r)
      BY <2>9 DEF OpenRefused, Finalize
    <2>10. CASE OpenSupervise(r)
      BY <2>10 DEF OpenSupervise
    <2>11. CASE OpenAnswer(r)
      BY <2>11 DEF OpenAnswer
    <2> QED BY <1>1, <2>1, <2>2, <2>3, <2>4, <2>5, <2>6, <2>7, <2>8, <2>9, <2>10, <2>11
            DEF OpenStep, Open
  <1>2. CASE Supervisor(r)
    <2>1. CASE SupervisorEvent(r)
      BY <2>1 DEF SupervisorEvent
    <2>2. CASE SupervisorStdout(r)
      BY <2>2 DEF SupervisorStdout
    <2>3. CASE SupervisorClosed(r)
      BY <2>3 DEF SupervisorClosed
    <2>4. CASE SupervisorFinalize(r)
      BY <2>4 DEF SupervisorFinalize, Finalize
    <2>5. CASE SupervisorSnatch(r)
      BY <2>5 DEF SupervisorSnatch
    <2>6. CASE SupervisorRemove(r)
      BY <2>6 DEF SupervisorRemove
    <2>7. CASE SupervisorUntrack(r)
      BY <2>7 DEF SupervisorUntrack
    <2> QED BY <1>2, <2>1, <2>2, <2>3, <2>4, <2>5, <2>6, <2>7 DEF Supervisor
  <1> QED BY <1>1, <1>2

\* A browser, a kick, a connection or an agent leaves every run's processes,
\* its registration and its row alone.
LEMMA RunsUntouched ==
    ASSUME \/ \E r \in Runs : AgentStep(r)
           \/ \E b \in Bridges : BridgeStep(b)
           \/ \E k \in Kickers : KickStep(k)
           \/ \E c \in Conns : ConnStep(c)
           \/ UNCHANGED vars
    PROVE  UNCHANGED <<opc, rhost, rconn, row, byRun, byHost, tracked, signal, spc>>
  <1> USE DEF openVars, regVars, chanVars
  <1>1. CASE \E r \in Runs : AgentStep(r)
    BY <1>1 DEF AgentStep, AgentState, AgentStdout, AgentExit
  <1>2. CASE \E b \in Bridges : BridgeStep(b)
    BY <1>2 DEF BridgeStep, Bridge, WSRoute, WSAdmit, WSAttach, WSEvict, WSEvent, WSStopped,
       WSDetach, WSStdin, WSBrowserGone
  <1>3. CASE \E k \in Kickers : KickStep(k)
    BY <1>3 DEF KickStep, Kick, KickFind, KickSever, KickRoute, KickStop
  <1>4. CASE \E c \in Conns : ConnStep(c)
    BY <1>4 DEF ConnStep, ConnAttach, ConnClose, ConnDrop, PumpFrame, PumpExit
  <1>5. CASE UNCHANGED vars
    BY <1>5 DEF vars
  <1> QED BY <1>1, <1>2, <1>3, <1>4, <1>5

\* Every step keeps the invariant of every run.
LEMMA StepRun ==
    ASSUME TypeOK, \A s \in Runs : RunInv(s), [Next]_vars
    PROVE  \A s \in Runs : RunInv(s)'
  <1> TAKE s \in Runs
  <1>1. CASE OpenStep(s) \/ Supervisor(s)
    BY <1>1, OpenRun, SupervisorRun
  <1>2. Untouched(s) => RunInv(s)'
    BY DEF Untouched, RunInv, HandsOver, Registered, TrackedWhileServed, RowIsOpen, RowNamesCloser
  <1>3. CASE \E r \in Runs : r # s /\ (OpenStep(r) \/ Supervisor(r))
    BY <1>2, <1>3, OthersUntouched
  <1>4. CASE UNCHANGED <<opc, rhost, rconn, row, byRun, byHost, tracked, signal, spc>>
    BY <1>2, <1>4 DEF Untouched
  <1> QED BY <1>1, <1>3, <1>4, StepOfOne, RunsUntouched

\* The initial state has the invariant of every run.
LEMMA InitRun == Init => \A s \in Runs : RunInv(s)
  BY DEF Init, RunInv, HandsOver, Registered, TrackedWhileServed, RowIsOpen, RowNamesCloser

-----------------------------------------------------------------------------
(* The frames and the agents *)

\* Nothing starts before its handler has sent the start frame, and the row is
\* there by then.
Started == {"started", "refused", "inserted", "waiting", "opened", "rejected"}
StartSent(r) == opc[r] \in Started /\ row[r] \notin {"none", "failed:dispatch"}
StartsAreSent ==
    /\ \A r \in Runs : agent[r] # "none" => StartSent(r)
    /\ \A c \in Conns : \A i \in DOMAIN sendQ[c] :
          sendQ[c][i].kind = "start" => StartSent(sendQ[c][i].run)

\* A handler that has sent the frame stays beyond that point.
LEMMA StartedStays ==
    ASSUME TypeOK, [Next]_vars, NEW r \in Runs, StartSent(r)
    PROVE  StartSent(r)'
  <1> USE DEF At, TypeOK, OpenTypeOK, Started, StartSent
  <1>1. CASE OpenStep(r)
    BY <1>1 DEF OpenStep, Open, OpenReserve, OpenRoute, OpenCreate, OpenTrack, OpenDispatch,
       OpenUndispatched, OpenInsert, OpenFull, OpenRefused, OpenSupervise, OpenAnswer, Finalize
  <1>2. CASE Supervisor(r)
    BY <1>2 DEF Supervisor, SupervisorEvent, SupervisorStdout, SupervisorClosed, openVars,
       SupervisorFinalize, SupervisorSnatch, SupervisorRemove, SupervisorUntrack, Finalize
  <1>3. CASE \E s \in Runs : s # r /\ (OpenStep(s) \/ Supervisor(s))
    BY <1>3, OthersUntouched DEF Untouched
  <1> QED BY <1>1, <1>2, <1>3, StepOfOne, RunsUntouched

\* A frame is queued behind what the queue holds.
LEMMA FrameQueued ==
    ASSUME TypeOK, NEW d, NEW kind, NEW r, Enqueue(d, kind, r),
           NEW c \in Conns, NEW i \in DOMAIN sendQ'[c]
    PROVE  \/ i \in DOMAIN sendQ[c] /\ sendQ'[c][i] = sendQ[c][i]
           \/ sendQ'[c][i] = [kind |-> kind, run |-> r]
  <1> DEFINE m == [kind |-> kind, run |-> r]
  <1>1. sendQ \in [Conns -> Seq(Frames)] /\ sendQ' = [sendQ EXCEPT ![d] = Append(sendQ[d], m)]
    BY DEF TypeOK, AgentTypeOK, Enqueue
  <1> HIDE DEF m
  <1>2. CASE c = d
    <2>1. sendQ'[c] = Append(sendQ[c], m) /\ sendQ[c] \in Seq(Frames)
      BY <1>1, <1>2
    <2>2. i \in 1 .. Len(sendQ[c]) + 1
      BY <2>1
    <2> QED BY <2>1, <2>2 DEF m
  <1>3. CASE c # d
    BY <1>1, <1>3
  <1> QED BY <1>2, <1>3

\* What the steps do to the queues and the agents: frames are added by a
\* handler, a browser or a kick, and a PTY starts from the head of a queue.
LEMMA FramesOf ==
    ASSUME TypeOK, \A s \in Runs : RunInv(s), [Next]_vars
    PROVE  \/ UNCHANGED sendQ /\ UNCHANGED agent
           \/ /\ UNCHANGED agent
              /\ \E r \in Runs : Enqueue(rconn[r], "start", r) /\ StartSent(r)'
           \/ /\ UNCHANGED agent
              /\ \E c, r : Enqueue(c, "stop", r) \/ Enqueue(c, "stdin", r)
           \/ \E c \in Conns : PumpFrame(c) \/ PumpExit(c)
           \/ \E r \in Runs : AgentExit(r)
  <1> USE DEF agentVars
  <1>1. ASSUME NEW r \in Runs, OpenStep(r)
        PROVE  \/ UNCHANGED sendQ /\ UNCHANGED agent
               \/ UNCHANGED agent /\ Enqueue(rconn[r], "start", r) /\ StartSent(r)'
               \/ UNCHANGED agent /\ Enqueue(rconn[r], "stop", r)
    BY <1>1 DEF OpenStep, Open, OpenReserve, OpenRoute, OpenCreate, OpenTrack, OpenDispatch,
       OpenUndispatched, OpenInsert, OpenFull, OpenRefused, OpenSupervise, OpenAnswer,
       TryEnqueue, At, Started, StartSent, TypeOK, OpenTypeOK, RunInv, RowIsOpen
  <1>2. ASSUME NEW r \in Runs, Supervisor(r)
        PROVE  UNCHANGED sendQ /\ UNCHANGED agent
    BY <1>2 DEF Supervisor, SupervisorEvent, SupervisorStdout, SupervisorClosed,
       SupervisorFinalize, SupervisorSnatch, SupervisorRemove, SupervisorUntrack
  <1>3. ASSUME NEW r \in Runs, AgentStep(r)
        PROVE  AgentExit(r) \/ (UNCHANGED sendQ /\ UNCHANGED agent)
    BY <1>3 DEF AgentStep, AgentState, AgentStdout
  <1>4. ASSUME NEW b \in Bridges, BridgeStep(b)
        PROVE  \/ UNCHANGED sendQ /\ UNCHANGED agent
               \/ UNCHANGED agent /\ Enqueue(bconn[b], "stdin", brun[b])
    BY <1>4 DEF BridgeStep, Bridge, WSRoute, WSAdmit, WSAttach, WSEvict, WSEvent, WSStopped,
       WSDetach, WSStdin, WSBrowserGone
  <1>5. ASSUME NEW k \in Kickers, KickStep(k)
        PROVE  \/ UNCHANGED sendQ /\ UNCHANGED agent
               \/ UNCHANGED agent /\ Enqueue(kconn[k], "stop", krun[k])
    BY <1>5 DEF KickStep, Kick, KickFind, KickSever, KickRoute, KickStop, TryEnqueue
  <1>6. ASSUME NEW c \in Conns, ConnStep(c)
        PROVE  \/ PumpFrame(c) \/ PumpExit(c)
               \/ UNCHANGED sendQ /\ UNCHANGED agent
    BY <1>6 DEF ConnStep, ConnAttach, ConnClose, ConnDrop
  <1>7. CASE UNCHANGED vars
    BY <1>7 DEF vars
  <1> QED BY <1>1, <1>2, <1>3, <1>4, <1>5, <1>6, <1>7, StepOfOne

\* A frame behind the head of a queue is in the queue.
LEMMA InTail ==
    ASSUME NEW S, NEW q \in Seq(S), q # <<>>, NEW i \in DOMAIN Tail(q)
    PROVE  \E j \in DOMAIN q : Tail(q)[i] = q[j]
  <1>1. /\ Tail(q) \in Seq(S) /\ Len(Tail(q)) = Len(q) - 1
        /\ \A k \in 1 .. Len(Tail(q)) : Tail(q)[k] = q[k + 1]
    BY HeadTailProperties
  <1>2. i \in 1 .. Len(q) - 1 /\ Len(q) \in Nat /\ DOMAIN q = 1 .. Len(q)
    BY <1>1
  <1>3. i + 1 \in DOMAIN q /\ Tail(q)[i] = q[i + 1]
    BY <1>1, <1>2
  <1> QED BY <1>3

\* The head of a queue leaves it, and what is left was there before.
LEMMA FrameTaken ==
    ASSUME TypeOK, NEW d, sendQ[d] # <<>>, sendQ' = [sendQ EXCEPT ![d] = Tail(sendQ[d])],
           NEW c \in Conns, NEW i \in DOMAIN sendQ'[c]
    PROVE  \E j \in DOMAIN sendQ[c] : sendQ'[c][i] = sendQ[c][j]
  <1>1. sendQ \in [Conns -> Seq(Frames)]
    BY DEF TypeOK, AgentTypeOK
  <1>2. CASE c = d
    <2>1. sendQ'[c] = Tail(sendQ[c]) /\ sendQ[c] \in Seq(Frames) /\ sendQ[c] # <<>>
      BY <1>1, <1>2
    <2> QED BY <2>1, InTail
  <1>3. CASE c # d
    BY <1>1, <1>3
  <1> QED BY <1>2, <1>3

\* No step starts a PTY, or queues its start, before the handler has sent it.
LEMMA StepStarts ==
    ASSUME TypeOK, \A s \in Runs : RunInv(s), StartsAreSent, [Next]_vars
    PROVE  StartsAreSent'
  <1> DEFINE Beyond(r) == opc'[r] \in Started /\ row'[r] \notin {"none", "failed:dispatch"}
  <1>1. \A c \in Conns : \A i \in DOMAIN sendQ[c] : sendQ[c][i] \in Frames
    BY DEF TypeOK, AgentTypeOK
  <1>2. ASSUME NEW r \in Runs, agent[r] # "none" PROVE Beyond(r)
    BY <1>2, StartedStays DEF StartsAreSent, StartSent
  <1> DEFINE Sent(m) == m.kind = "start" => Beyond(m.run)
  <1>3. \A c \in Conns : \A i \in DOMAIN sendQ[c] : Sent(sendQ[c][i])
    <2> TAKE c \in Conns
    <2> TAKE i \in DOMAIN sendQ[c]
    <2>1. sendQ[c][i].run \in Runs
      BY <1>1 DEF Frames
    <2>2. sendQ[c][i].kind = "start" => StartSent(sendQ[c][i].run)
      BY DEF StartsAreSent
    <2> QED BY <2>1, <2>2, StartedStays DEF StartSent
  <1> DEFINE NewAgents == \A r \in Runs : agent'[r] # "none" => Beyond(r)
             NewFrames == \A c \in Conns : \A i \in DOMAIN sendQ'[c] : Sent(sendQ'[c][i])
             NewStarts == NewAgents /\ NewFrames
  <1>4. SUFFICES NewStarts
    BY DEF StartsAreSent, StartSent
  <1>5. ASSUME NEW d, NEW kind, NEW r, Enqueue(d, kind, r), Sent([kind |-> kind, run |-> r])
        PROVE  NewFrames
    <2> TAKE c \in Conns
    <2> TAKE i \in DOMAIN sendQ'[c]
    <2>1. \/ i \in DOMAIN sendQ[c] /\ sendQ'[c][i] = sendQ[c][i]
          \/ sendQ'[c][i] = [kind |-> kind, run |-> r]
      BY <1>5, FrameQueued
    <2> HIDE DEF Sent
    <2> QED BY <1>3, <1>5, <2>1
  <1>6. ASSUME NEW d, sendQ[d] # <<>>, sendQ' = [sendQ EXCEPT ![d] = Tail(sendQ[d])]
        PROVE  NewFrames
    <2> TAKE c \in Conns
    <2> TAKE i \in DOMAIN sendQ'[c]
    <2>1. PICK j \in DOMAIN sendQ[c] : sendQ'[c][i] = sendQ[c][j]
      BY <1>6, FrameTaken
    <2> HIDE DEF Sent
    <2> QED BY <1>3, <2>1
  <1>7. CASE UNCHANGED sendQ /\ UNCHANGED agent
    BY <1>2, <1>3, <1>7
  <1>8. ASSUME NEW r \in Runs, UNCHANGED agent, Enqueue(rconn[r], "start", r), StartSent(r)'
        PROVE  NewStarts
    <2>1. Sent([kind |-> "start", run |-> r])
      BY <1>8 DEF StartSent
    <2> HIDE DEF Sent
    <2> QED BY <1>2, <1>5, <1>8, <2>1
  <1>9. ASSUME NEW c, NEW r, UNCHANGED agent, Enqueue(c, "stop", r) \/ Enqueue(c, "stdin", r)
        PROVE  NewStarts
    <2>1. Sent([kind |-> "stop", run |-> r]) /\ Sent([kind |-> "stdin", run |-> r])
      OBVIOUS
    <2> HIDE DEF Sent
    <2> QED BY <1>2, <1>5, <1>9, <2>1
  <1>10. ASSUME NEW d \in Conns, PumpFrame(d) PROVE NewStarts
    <2>1. sendQ[d] # <<>> /\ sendQ' = [sendQ EXCEPT ![d] = Tail(sendQ[d])]
      BY <1>10 DEF PumpFrame
    <2>2. 1 \in DOMAIN sendQ[d] /\ Head(sendQ[d]) = sendQ[d][1]
      BY <2>1 DEF TypeOK, AgentTypeOK
    <2>3. ASSUME NEW r \in Runs, agent[r] = "none", agent'[r] # "none"
          PROVE  Head(sendQ[d]).kind = "start" /\ Head(sendQ[d]).run = r
      BY <1>10, <2>3 DEF PumpFrame, TypeOK, AgentTypeOK
    <2>4. Sent(Head(sendQ[d]))
      BY <1>3, <2>2
    <2>5. \A r \in Runs : agent'[r] # "none" => Beyond(r)
      BY <1>2, <2>3, <2>4
    <2> QED BY <1>6, <2>1, <2>5
  <1>11. ASSUME NEW d \in Conns, PumpExit(d) PROVE NewStarts
    <2>1. UNCHANGED agent
      BY <1>11 DEF PumpExit
    <2>2. CASE UNCHANGED sendQ
      BY <1>7, <2>1, <2>2
    <2>3. CASE sendQ[d] # <<>> /\ sendQ' = [sendQ EXCEPT ![d] = Tail(sendQ[d])]
      BY <1>2, <1>6, <2>1, <2>3
    <2> QED BY <1>11, <2>2, <2>3 DEF PumpExit
  <1>12. ASSUME NEW r \in Runs, AgentExit(r) PROVE NewStarts
    <2>1. UNCHANGED sendQ
      BY <1>12 DEF AgentExit
    <2>2. \A s \in Runs : agent'[s] # "none" => agent[s] # "none"
      BY <1>12 DEF AgentExit, TypeOK, AgentTypeOK
    <2> QED BY <1>2, <1>3, <2>1, <2>2
  <1> QED BY <1>7, <1>8, <1>9, <1>10, <1>11, <1>12, FramesOf

-----------------------------------------------------------------------------
(* The browsers *)

\* The session of run r is or was registered.
WasOpen(r) == opc[r] = "inserted" \/ spc[r] # "none"

\* A browser past its admission belongs to a run that had a session.
BridgeKnown(b) ==
    /\ bpc[b] # "idle" => brun[b] \in Runs
    /\ bpc[b] \in {"admitted", "evicting", "live", "closing"} => WasOpen(brun[b])

\* The session of run r has a slot for a browser.
HasSlot(r) == opc[r] = "inserted" \/ spc[r] \in {"loop", "finalize", "snatch"}

\* LastWriterWins for one browser, from the registration of the session until
\* its supervisor takes the slot.
Holds(b) ==
    \/ slot[brun[b]] = b
    \/ \E d \in Bridges : bpc[d] = "evicting" /\ bprev[d] = b
Held(b) ==
    bpc[b] \in {"evicting", "live"} /\ b \notin cancelled /\ HasSlot(brun[b]) => Holds(b)

\* A session only moves on.
LEMMA SessionMoves ==
    ASSUME TypeOK, \A s \in Runs : RunInv(s), [Next]_vars, NEW r \in Runs
    PROVE  /\ WasOpen(r) => WasOpen(r)'
           /\ WasOpen(r) /\ HasSlot(r)' => HasSlot(r)
  <1> USE DEF WasOpen, HasSlot, At, TypeOK, OpenTypeOK, ChanTypeOK
  <1>1. CASE OpenStep(r)
    BY <1>1 DEF OpenStep, Open, OpenReserve, OpenRoute, OpenCreate, OpenTrack, OpenDispatch,
       OpenUndispatched, OpenInsert, OpenFull, OpenRefused, OpenSupervise, OpenAnswer, chanVars,
       RunInv, HandsOver
  <1>2. CASE Supervisor(r)
    BY <1>2 DEF Supervisor, SupervisorEvent, SupervisorStdout, SupervisorClosed, openVars,
       SupervisorFinalize, SupervisorSnatch, SupervisorRemove, SupervisorUntrack,
       RunInv, HandsOver
  <1>3. CASE \E s \in Runs : s # r /\ (OpenStep(s) \/ Supervisor(s))
    BY <1>3, OthersUntouched DEF Untouched
  <1>4. CASE UNCHANGED <<opc, spc>>
    BY <1>4
  <1> QED BY <1>1, <1>2, <1>3, <1>4, StepOfOne, RunsUntouched

\* The runs, the connections and the agents leave the browsers alone, except
\* for the supervisor that takes the slot of its session.
LEMMA BrowsersUntouched ==
    ASSUME \/ \E r \in Runs : OpenStep(r)
           \/ \E r \in Runs : AgentStep(r)
           \/ \E r \in Runs : Supervisor(r) /\ ~ SupervisorSnatch(r)
           \/ \E c \in Conns : ConnStep(c)
           \/ UNCHANGED vars
    PROVE  UNCHANGED <<bpc, brun, bprev, cancelled, slot>>
  <1> USE DEF bridgeVars, regVars
  <1>1. CASE \E r \in Runs : OpenStep(r)
    BY <1>1 DEF OpenStep, Open, OpenReserve, OpenRoute, OpenCreate, OpenTrack, OpenDispatch,
       OpenUndispatched, OpenInsert, OpenFull, OpenRefused, OpenSupervise, OpenAnswer
  <1>2. CASE \E r \in Runs : AgentStep(r)
    BY <1>2 DEF AgentStep, AgentState, AgentStdout, AgentExit
  <1>3. CASE \E r \in Runs : Supervisor(r) /\ ~ SupervisorSnatch(r)
    BY <1>3 DEF Supervisor, SupervisorEvent, SupervisorStdout, SupervisorClosed,
       SupervisorFinalize, SupervisorRemove, SupervisorUntrack
  <1>4. CASE \E c \in Conns : ConnStep(c)
    BY <1>4 DEF ConnStep, ConnAttach, ConnClose, ConnDrop, PumpFrame, PumpExit
  <1>5. CASE UNCHANGED vars
    BY <1>5 DEF vars
  <1> QED BY <1>1, <1>2, <1>3, <1>4, <1>5

\* Every browser stays with a run that had a session.
LEMMA StepKnown ==
    ASSUME TypeOK, \A s \in Runs : RunInv(s), [Next]_vars, NEW b \in Bridges, BridgeKnown(b)
    PROVE  BridgeKnown(b)'
  <1> USE DEF BridgeKnown
  <1>1. \A r \in Runs : WasOpen(r) => WasOpen(r)'
    BY SessionMoves
  <1>2. CASE bpc'[b] = bpc[b] /\ brun'[b] = brun[b]
    BY <1>1, <1>2 DEF WasOpen
  <1>3. CASE BridgeStep(b)
    <2>1. ASSUME NEW r \in Runs, r \in byRun PROVE WasOpen(r)
      BY <2>1 DEF RunInv, Registered, WasOpen
    <2>2. CASE \E r \in Runs, h \in Hosts : WSRoute(b, r, h)
      BY <2>2 DEF WSRoute, At, TypeOK, BridgeTypeOK
    <2>3. CASE WSAdmit(b)
      <3>1. brun'[b] \in Runs /\ brun'[b] = brun[b]
        BY <2>3 DEF WSAdmit, At
      <3>2. bpc'[b] = "admitted" => brun[b] \in byRun
        BY <2>3 DEF WSAdmit, At, TypeOK, BridgeTypeOK
      <3>3. bpc'[b] \in {"admitted", "done"}
        BY <2>3 DEF WSAdmit, At, TypeOK, BridgeTypeOK
      <3>4. bpc'[b] = "admitted" => WasOpen(brun[b])'
        BY <1>1, <2>1, <3>1, <3>2 DEF WasOpen
      <3> QED BY <3>1, <3>3, <3>4
    <2>4. CASE \/ WSAttach(b) \/ WSEvict(b) \/ WSEvent(b) \/ WSStopped(b)
               \/ WSDetach(b) \/ WSStdin(b) \/ WSBrowserGone(b)
      <3>1. brun'[b] = brun[b]
        BY <2>4 DEF WSAttach, WSEvict, WSEvent, WSStopped, WSDetach, WSStdin, WSBrowserGone
      <3>2. bpc[b] \in {"admitted", "evicting", "live", "closing"}
        BY <2>4 DEF WSAttach, WSEvict, WSEvent, WSStopped, WSDetach, WSStdin, WSBrowserGone, At
      <3> QED BY <1>1, <3>1, <3>2 DEF WasOpen
    <2> QED BY <1>3, <2>2, <2>3, <2>4 DEF BridgeStep, Bridge
  <1>4. ASSUME NEW d \in Bridges, d # b, BridgeStep(d)
        PROVE  bpc'[b] = bpc[b] /\ brun'[b] = brun[b]
    BY <1>4 DEF BridgeStep, Bridge, WSRoute, WSAdmit, WSAttach, WSEvict, WSEvent, WSStopped,
       WSDetach, WSStdin, WSBrowserGone, At, TypeOK, BridgeTypeOK
  <1>5. ASSUME NEW k \in Kickers, KickStep(k)
        PROVE  UNCHANGED <<bpc, brun>>
    BY <1>5 DEF KickStep, Kick, KickFind, KickSever, KickRoute, KickStop, bridgeVars
  <1>6. ASSUME NEW r \in Runs, SupervisorSnatch(r)
        PROVE  UNCHANGED <<bpc, brun>>
    BY <1>6 DEF SupervisorSnatch
  <1> QED BY <1>2, <1>3, <1>4, <1>5, <1>6, StepOfOne, BrowsersUntouched

\* A browser keeps the slot of its session, or hands it to one that is about
\* to cancel it, or is cancelled.
LEMMA StepHeld ==
    ASSUME TypeOK, \A s \in Runs : RunInv(s), \A d \in Bridges : BridgeKnown(d), [Next]_vars,
           NEW b \in Bridges, Held(b)
    PROVE  Held(b)'
  <1> DEFINE Attached == bpc[b] \in {"evicting", "live"}
  <1> SUFFICES ASSUME Attached', b \notin cancelled', HasSlot(brun[b])'
               PROVE  Holds(b)'
    BY DEF Held
  <1>1. None \notin Bridges
    BY ShellAssumption
  <1>2. brun'[b] = brun[b] /\ Attached => HasSlot(brun[b])
    <2> SUFFICES ASSUME brun'[b] = brun[b], Attached PROVE HasSlot(brun[b])
      OBVIOUS
    <2>1. brun[b] \in Runs /\ WasOpen(brun[b])
      BY DEF BridgeKnown
    <2>2. HasSlot(brun[b])' => \/ opc'[brun[b]] = "inserted"
                               \/ spc'[brun[b]] \in {"loop", "finalize", "snatch"}
      BY DEF HasSlot
    <2>3. \A r \in Runs : WasOpen(r) /\ HasSlot(r)' => HasSlot(r)
      BY SessionMoves
    <2> QED BY <2>1, <2>2, <2>3 DEF HasSlot
  <1>3. brun'[b] = brun[b] /\ Attached /\ cancelled \subseteq cancelled' => Holds(b)
    BY <1>2 DEF Held
  <1>4. CASE UNCHANGED <<bpc, brun, bprev, cancelled, slot>>
    BY <1>3, <1>4 DEF Holds
  <1>5. ASSUME NEW r \in Runs, SupervisorSnatch(r) PROVE Holds(b)'
    <2>1. /\ UNCHANGED <<bpc, brun, bprev>>
          /\ slot' = [slot EXCEPT ![r] = None]
          /\ cancelled' = cancelled \cup ({slot[r]} \ {None})
      BY <1>5 DEF SupervisorSnatch
    <2>2. brun[b] # r
      <3>1. opc' = opc /\ opc[r] # "inserted" /\ spc'[r] = "remove"
        BY <1>5 DEF SupervisorSnatch, At, RunInv, HandsOver, TypeOK, ChanTypeOK, openVars
      <3> QED BY <2>1, <3>1 DEF HasSlot
    <2> QED BY <1>3, <2>1, <2>2 DEF Holds, TypeOK, RegTypeOK
  <1>6. ASSUME NEW k \in Kickers, KickStep(k) PROVE Holds(b)'
    <2>1. UNCHANGED <<bpc, brun, bprev, slot>> /\ cancelled \subseteq cancelled'
      BY <1>6 DEF KickStep, Kick, KickFind, KickSever, KickRoute, KickStop, bridgeVars, regVars
    <2> QED BY <1>3, <2>1 DEF Holds
  <1>7. ASSUME NEW d \in Bridges, BridgeStep(d) PROVE Holds(b)'
    <2>1. cancelled \subseteq cancelled'
      BY <1>7 DEF BridgeStep, Bridge, WSRoute, WSAdmit, WSAttach, WSEvict, WSEvent, WSStopped,
         WSDetach, WSStdin, WSBrowserGone
    <2>2. CASE \E r \in Runs, h \in Hosts : WSRoute(d, r, h)
      <3>1. d # b /\ brun'[b] = brun[b] /\ UNCHANGED <<bprev, slot>>
        BY <2>2 DEF WSRoute, At, regVars, TypeOK, BridgeTypeOK
      <3>2. \A e \in Bridges : bpc[e] \in {"evicting", "live"} <=> bpc'[e] \in {"evicting", "live"}
        BY <2>2 DEF WSRoute, At, TypeOK, BridgeTypeOK
      <3>3. \A e \in Bridges : bpc[e] = "evicting" => bpc'[e] = "evicting"
        BY <2>2 DEF WSRoute, At, TypeOK, BridgeTypeOK
      <3> QED BY <1>3, <2>1, <3>1, <3>2, <3>3 DEF Holds
    <2>3. CASE WSAdmit(d) \/ WSEvent(d) \/ WSStopped(d) \/ WSStdin(d) \/ WSBrowserGone(d)
      <3>1. UNCHANGED <<brun, bprev, slot>>
        BY <2>3 DEF WSAdmit, WSEvent, WSStopped, WSStdin, WSBrowserGone, regVars
      <3>2. bpc'[b] \in {"evicting", "live"} => bpc[b] \in {"evicting", "live"}
        BY <2>3 DEF WSAdmit, WSEvent, WSStopped, WSStdin, WSBrowserGone, At, TypeOK, BridgeTypeOK
      <3>3. \A e \in Bridges : bpc[e] = "evicting" => bpc'[e] = "evicting"
        BY <2>3 DEF WSAdmit, WSEvent, WSStopped, WSStdin, WSBrowserGone, At, TypeOK, BridgeTypeOK
      <3> QED BY <1>3, <2>1, <3>1, <3>2, <3>3 DEF Holds
    <2>4. CASE WSDetach(d)
      <3>1. UNCHANGED <<brun, bprev>> /\ d # b
        BY <2>4 DEF WSDetach, At, TypeOK, BridgeTypeOK
      <3>2. bpc'[b] = bpc[b] /\ \A e \in Bridges : bpc[e] = "evicting" => bpc'[e] = "evicting"
        BY <2>4, <3>1 DEF WSDetach, At, TypeOK, BridgeTypeOK
      <3>3. slot[brun[b]] = b => slot'[brun[b]] = b
        BY <2>4, <3>1 DEF WSDetach, TypeOK, RegTypeOK
      <3> QED BY <1>3, <2>1, <3>1, <3>2, <3>3 DEF Holds
    <2>5. CASE WSEvict(d)
      <3>1. UNCHANGED <<brun, slot>> /\ (bpc'[b] \in {"evicting", "live"} => Attached)
        BY <2>5 DEF WSEvict, At, regVars, TypeOK, BridgeTypeOK
      <3>2. \A e \in Bridges : e # d => bprev'[e] = bprev[e] /\ bpc'[e] = bpc[e]
        BY <2>5 DEF WSEvict, At, TypeOK, BridgeTypeOK
      <3>3. bprev[d] # b
        BY <1>1, <2>5 DEF WSEvict
      <3> QED BY <1>3, <2>1, <3>1, <3>2, <3>3 DEF Holds
    <2>6. CASE WSAttach(d)
      <3>1. UNCHANGED brun /\ bpc[d] = "admitted" /\ bpc' = [bpc EXCEPT ![d] = "evicting"]
        BY <2>6 DEF WSAttach, At
      <3>2. bpc'[d] = "evicting" /\ \A e \in Bridges : e # d => bpc'[e] = bpc[e]
        BY <3>1 DEF TypeOK, BridgeTypeOK
      <3>3. \A e \in Bridges : e # d => bprev'[e] = bprev[e]
        BY <2>6 DEF WSAttach, TypeOK, BridgeTypeOK
      <3>4. brun[d] \in Runs /\ WasOpen(brun[d])
        BY <3>1 DEF BridgeKnown
      <3>5. CASE d = b
        <4>1. \A r \in Runs : HasSlot(r)' => r \in byRun
          BY <2>6 DEF WSAttach, chanVars, openVars, HasSlot, RunInv, Registered
        <4>2. brun'[b] \in byRun
          BY <3>1, <3>4, <3>5, <4>1 DEF HasSlot
        <4> QED BY <2>6, <3>1, <3>4, <3>5, <4>2 DEF WSAttach, Holds, TypeOK, RegTypeOK
      <3>6. CASE d # b
        <4>1. Holds(b)
          BY <1>3, <2>1, <3>1, <3>2, <3>6
        <4>2. CASE brun[d] \in byRun /\ brun[d] = brun[b] /\ slot[brun[b]] = b
          <5>1. bprev'[d] = b
            BY <2>6, <4>2 DEF WSAttach, TypeOK, BridgeTypeOK
          <5> QED BY <3>2, <5>1 DEF Holds
        <4>3. CASE ~ (brun[d] \in byRun /\ brun[d] = brun[b]) /\ slot[brun[b]] = b
          <5>1. brun[b] \in Runs
            BY <2>1, <3>1, <3>2, <3>6 DEF BridgeKnown
          <5>2. slot'[brun[b]] = slot[brun[b]]
            BY <2>6, <4>3, <5>1 DEF WSAttach, TypeOK, RegTypeOK
          <5> QED BY <3>1, <4>3, <5>2 DEF Holds
        <4>4. CASE \E e \in Bridges : bpc[e] = "evicting" /\ bprev[e] = b
          BY <3>1, <3>2, <3>3, <4>4 DEF Holds
        <4> QED BY <4>1, <4>2, <4>3, <4>4 DEF Holds
      <3> QED BY <3>5, <3>6
    <2> QED BY <1>7, <2>2, <2>3, <2>4, <2>5, <2>6 DEF BridgeStep, Bridge
  <1> QED BY <1>4, <1>5, <1>6, <1>7, StepOfOne, BrowsersUntouched

-----------------------------------------------------------------------------
(* The inductive invariant and what follows from it *)

IInv ==
    /\ TypeOK
    /\ \A r \in Runs : RunInv(r)
    /\ StartsAreSent
    /\ \A b \in Bridges : BridgeKnown(b) /\ Held(b)
    /\ \A k \in Kickers : KnowsItsRun(k)
    /\ CapsHold

\* A kick that has begun knows its run.
LEMMA StepKicks ==
    ASSUME TypeOK, \A k \in Kickers : KnowsItsRun(k), [Next]_vars
    PROVE  \A k \in Kickers : KnowsItsRun(k)'
  <1> USE DEF KnowsItsRun, kickVars
  <1>1. ASSUME NEW r \in Runs, OpenStep(r) PROVE UNCHANGED kickVars
    BY <1>1 DEF OpenStep, Open, OpenReserve, OpenRoute, OpenCreate, OpenTrack, OpenDispatch,
       OpenUndispatched, OpenInsert, OpenFull, OpenRefused, OpenSupervise, OpenAnswer
  <1>2. ASSUME NEW r \in Runs, Supervisor(r) PROVE UNCHANGED kickVars
    BY <1>2 DEF Supervisor, SupervisorEvent, SupervisorStdout, SupervisorClosed,
       SupervisorFinalize, SupervisorSnatch, SupervisorRemove, SupervisorUntrack
  <1>3. ASSUME NEW r \in Runs, AgentStep(r) PROVE UNCHANGED kickVars
    BY <1>3 DEF AgentStep, AgentState, AgentStdout, AgentExit
  <1>4. ASSUME NEW b \in Bridges, BridgeStep(b) PROVE UNCHANGED kickVars
    BY <1>4 DEF BridgeStep, Bridge, WSRoute, WSAdmit, WSAttach, WSEvict, WSEvent, WSStopped,
       WSDetach, WSStdin, WSBrowserGone
  <1>5. ASSUME NEW c \in Conns, ConnStep(c) PROVE UNCHANGED kickVars
    BY <1>5 DEF ConnStep, ConnAttach, ConnClose, ConnDrop, PumpFrame, PumpExit
  <1>6. CASE UNCHANGED kickVars
    BY <1>6
  <1>7. ASSUME NEW k \in Kickers, KickStep(k) PROVE \A l \in Kickers : KnowsItsRun(l)'
    BY <1>7 DEF KickStep, Kick, KickFind, KickSever, KickRoute, KickStop, At, TypeOK, KickTypeOK
  <1>8. UNCHANGED vars => UNCHANGED kickVars
    BY DEF vars
  <1> QED BY <1>1, <1>2, <1>3, <1>4, <1>5, <1>6, <1>7, <1>8, StepOfOne

\* One more in a registry below a cap keeps the cap.
LEMMA OneMore ==
    ASSUME NEW S, IsFiniteSet(S), NEW x, NEW cap \in Nat, ~ (Cardinality(S) >= cap)
    PROVE  Cardinality(S \cup {x}) <= cap
  BY FS_CardinalityType, FS_AddElement

\* One less keeps it too.
LEMMA OneLess ==
    ASSUME NEW S, IsFiniteSet(S), NEW x, NEW cap \in Nat, Cardinality(S) <= cap
    PROVE  Cardinality(S \ {x}) <= cap
  <1>1. Cardinality(S) \in Nat
    BY FS_CardinalityType
  <1>2. Cardinality(S \ {x}) = IF x \in S THEN Cardinality(S) - 1 ELSE Cardinality(S)
    BY FS_RemoveElement
  <1> QED BY <1>1, <1>2

\* The registry's maps change in insert and in remove only.
LEMMA RegistrySteps ==
    ASSUME [Next]_vars
    PROVE  \/ \E r \in Runs : OpenInsert(r) \/ SupervisorRemove(r)
           \/ UNCHANGED <<byRun, byHost>>
  <1> USE DEF regVars
  <1>1. ASSUME NEW r \in Runs, OpenStep(r) PROVE OpenInsert(r) \/ UNCHANGED <<byRun, byHost>>
    BY <1>1 DEF OpenStep, Open, OpenReserve, OpenRoute, OpenCreate, OpenTrack, OpenDispatch,
       OpenUndispatched, OpenFull, OpenRefused, OpenSupervise, OpenAnswer
  <1>2. ASSUME NEW r \in Runs, Supervisor(r)
        PROVE  SupervisorRemove(r) \/ UNCHANGED <<byRun, byHost>>
    BY <1>2 DEF Supervisor, SupervisorEvent, SupervisorStdout, SupervisorClosed,
       SupervisorFinalize, SupervisorSnatch, SupervisorUntrack
  <1>3. CASE UNCHANGED <<opc, rhost, rconn, row, byRun, byHost, tracked, signal, spc>>
    BY <1>3
  <1> QED BY <1>1, <1>2, <1>3, StepOfOne, RunsUntouched

\* The caps hold after every step.
LEMMA StepCaps ==
    ASSUME TypeOK, \A r \in Runs : RunInv(r), CapsHold, [Next]_vars
    PROVE  CapsHold'
  <1>1. PerHostCap \in Nat /\ GlobalCap \in Nat
    BY ShellAssumption
  <1>2. IsFiniteSet(byRun) /\ \A h \in Hosts : IsFiniteSet(byHost[h])
    BY ShellAssumption, FS_Subset DEF TypeOK, RegTypeOK
  <1>3. ASSUME NEW r \in Runs, OpenInsert(r) PROVE CapsHold'
    <2>1. rhost[r] \in Hosts
      BY <1>3 DEF OpenInsert, At, RunInv, HandsOver
    <2>2. ~ (Cardinality(byRun) >= GlobalCap) /\ ~ (Cardinality(byHost[rhost[r]]) >= PerHostCap)
      BY <1>3 DEF OpenInsert, CapReached
    <2>3. Cardinality(byRun \cup {r}) <= GlobalCap
      BY <1>1, <1>2, <2>2, OneMore
    <2>4. Cardinality(byHost[rhost[r]] \cup {r}) <= PerHostCap
      BY <1>1, <1>2, <2>1, <2>2, OneMore
    <2>5. ASSUME NEW h \in Hosts PROVE Cardinality(byHost'[h]) <= PerHostCap
      BY <1>3, <2>4 DEF OpenInsert, CapsHold, TypeOK, RegTypeOK
    <2> QED BY <1>3, <2>3, <2>5 DEF OpenInsert, CapsHold
  <1>4. ASSUME NEW r \in Runs, SupervisorRemove(r) PROVE CapsHold'
    <2>1. Cardinality(byRun \ {r}) <= GlobalCap
      BY <1>1, <1>2, OneLess DEF CapsHold
    <2>2. \A h \in Hosts : Cardinality(byHost[h] \ {r}) <= PerHostCap
      BY <1>1, <1>2, OneLess DEF CapsHold
    <2>3. ASSUME NEW h \in Hosts PROVE Cardinality(byHost'[h]) <= PerHostCap
      BY <1>4, <2>2 DEF SupervisorRemove, CapsHold, TypeOK, RegTypeOK
    <2> QED BY <1>4, <2>1, <2>3 DEF SupervisorRemove, CapsHold
  <1>5. CASE UNCHANGED <<byRun, byHost>>
    BY <1>5 DEF CapsHold
  <1> QED BY <1>3, <1>4, <1>5, RegistrySteps

\* The inductive invariant holds in every reachable state.
THEOREM Invariance == Spec => []IInv
  <1>1. Init => IInv
    <2> SUFFICES ASSUME Init PROVE IInv
      OBVIOUS
    <2>1. TypeOK
      BY InitType
    <2>2. StartsAreSent
      BY DEF Init, StartsAreSent
    <2>3. \A b \in Bridges : BridgeKnown(b) /\ Held(b)
      BY DEF Init, BridgeKnown, Held
    <2>4. \A k \in Kickers : KnowsItsRun(k)
      BY DEF Init, KnowsItsRun
    <2>5. CapsHold
      BY ShellAssumption, FS_EmptySet DEF Init, CapsHold
    <2> QED BY <2>1, <2>2, <2>3, <2>4, <2>5, InitRun DEF IInv
  <1>2. IInv /\ [Next]_vars => IInv'
    <2> SUFFICES ASSUME IInv, [Next]_vars PROVE IInv'
      OBVIOUS
    <2>1. TypeOK'
      <3>1. TypeOK
        BY DEF IInv
      <3>2. ASSUME NEW b \in Bridges PROVE OnItsRun(b)
        BY DEF IInv, BridgeKnown, OnItsRun
      <3>3. UNCHANGED vars => TypeOK'
        BY <3>1, TypeKept DEF vars, TypeOK
      <3> QED BY <3>1, <3>2, <3>3, StepOfOne, OpenType, SupervisorType, AgentType, BridgeType,
              KickType, ConnType DEF IInv
    <2>2. \A r \in Runs : RunInv(r)'
      BY StepRun DEF IInv
    <2>3. StartsAreSent'
      BY StepStarts DEF IInv
    <2>4. \A b \in Bridges : BridgeKnown(b)'
      BY StepKnown DEF IInv
    <2>5. \A b \in Bridges : Held(b)'
      BY StepHeld DEF IInv
    <2>6. \A k \in Kickers : KnowsItsRun(k)'
      BY StepKicks DEF IInv
    <2>7. CapsHold'
      BY StepCaps DEF IInv
    <2> QED BY <2>1, <2>2, <2>3, <2>4, <2>5, <2>6, <2>7 DEF IInv
  <1> QED BY <1>1, <1>2, PTL DEF Spec

\* Every variable keeps its type: in particular no channel of a run holds more
\* stdout chunks than its capacity.
THEOREM TypeCorrect == Spec => []TypeOK
  <1>1. IInv => TypeOK
    BY DEF IInv
  <1> QED BY <1>1, Invariance, PTL

\* The caps hold although reserve checks them a database write and a dispatch
\* before insert takes the place.
THEOREM CapsAlwaysHold == Spec => []CapsHold
  <1>1. IInv => CapsHold
    BY DEF IInv
  <1> QED BY <1>1, Invariance, PTL

\* A session is in both maps of the registry exactly while its handler or its
\* supervisor will still remove it.
THEOREM SessionsSupervised == Spec => []SessionIsSupervised
  <1>1. IInv => SessionIsSupervised
    BY DEF IInv, RunInv, Registered, SessionIsSupervised
  <1> QED BY <1>1, Invariance, PTL

\* Frames of a run find its channels until the run has been given up.
THEOREM OutputFindsChannel == Spec => []OutputHasChannel
  <1>1. IInv => OutputHasChannel
    <2> SUFFICES ASSUME IInv, NEW r \in Runs,
                        \/ agent[r] = "running"
                        \/ \E c \in Conns, i \in 1 .. SendCap :
                              i \in DOMAIN sendQ[c] /\ sendQ[c][i] = [kind |-> "start", run |-> r]
                 PROVE  r \in tracked \/ opc[r] = "rejected" \/ spc[r] = "done"
      BY DEF OutputHasChannel
    <2>1. opc[r] \in Started
      BY DEF IInv, StartsAreSent, StartSent
    <2>2. spc[r] \in {"none", "loop", "finalize", "snatch", "remove", "untrack", "done"}
      BY DEF IInv, TypeOK, ChanTypeOK
    <2>3. HandsOver(r) /\ TrackedWhileServed(r)
      BY DEF IInv, RunInv
    <2> QED BY <2>1, <2>2, <2>3 DEF Started, HandsOver, TrackedWhileServed
  <1> QED BY <1>1, Invariance, PTL

\* A run whose two processes have returned is nowhere any more.
THEOREM NothingIsLeft == Spec => []NothingLeftBehind
  <1>1. IInv => NothingLeftBehind
    BY DEF IInv, RunInv, Registered, TrackedWhileServed, NothingLeftBehind
  <1> QED BY <1>1, Invariance, PTL

\* Last writer wins, whatever browsers come, go and overtake each other.
THEOREM LastWriterAlwaysWins == Spec => []LastWriterWins
  <1>1. IInv => LastWriterWins
    BY DEF IInv, Held, HasSlot, Holds, LastWriterWins
  <1> QED BY <1>1, Invariance, PTL

\* A row can be relied on, whatever fails and whoever else is at work.
THEOREM RowsTellTheTruth == Spec => []RowTellsTruth
  <1>1. IInv => RowTellsTruth
    <2> SUFFICES ASSUME IInv, NEW r \in Runs
                 PROVE  /\ row[r] \in {"none", "failed:dispatch"} =>
                              /\ agent[r] = "none"
                              /\ \A c \in Conns : \A i \in DOMAIN sendQ[c] :
                                    sendQ[c][i] # [kind |-> "start", run |-> r]
                        /\ row[r] = "failed:registry" => r \notin byRun /\ spc[r] = "none"
                        /\ row[r] = "ended" => spc[r] \in {"snatch", "remove", "untrack", "done"}
      BY DEF RowTellsTruth
    <2>1. HandsOver(r) /\ Registered(r) /\ RowNamesCloser(r)
      BY DEF IInv, RunInv
    <2>2. row[r] \in {"none", "failed:dispatch"} => agent[r] = "none"
      BY DEF IInv, StartsAreSent, StartSent
    <2>3. ASSUME NEW c \in Conns, NEW i \in DOMAIN sendQ[c],
                 sendQ[c][i] = [kind |-> "start", run |-> r]
          PROVE  row[r] \notin {"none", "failed:dispatch"}
      BY <2>3 DEF IInv, StartsAreSent, StartSent
    <2> QED BY <2>1, <2>2, <2>3 DEF Registered, RowNamesCloser
  <1> QED BY <1>1, Invariance, PTL

\* What a step may write into the row of a run.
LEMMA RowSteps ==
    ASSUME IInv, [Next]_vars, NEW r \in Runs
    PROVE  \/ row'[r] = row[r]
           \/ row[r] = "none"
           \/ row[r] = "starting"
  <1>1. CASE OpenStep(r)
    BY <1>1 DEF OpenStep, Open, OpenReserve, OpenRoute, OpenCreate, OpenTrack, OpenDispatch,
       OpenUndispatched, OpenInsert, OpenFull, OpenRefused, OpenSupervise, OpenAnswer, At,
       IInv, RunInv, RowIsOpen
  <1>2. CASE Supervisor(r)
    BY <1>2 DEF Supervisor, SupervisorEvent, SupervisorStdout, SupervisorClosed, openVars,
       SupervisorFinalize, SupervisorSnatch, SupervisorRemove, SupervisorUntrack, At,
       IInv, RunInv, RowIsOpen
  <1>3. CASE \E s \in Runs : s # r /\ (OpenStep(s) \/ Supervisor(s))
    BY <1>3, OthersUntouched DEF Untouched, IInv
  <1>4. CASE UNCHANGED row
    BY <1>4
  <1> QED BY <1>1, <1>2, <1>3, <1>4, StepOfOne, RunsUntouched

\* The outcome of a run is recorded once.
THEOREM OutcomeIsFinal == Spec => FinalizedOnce
  <1>1. IInv /\ [Next]_vars
        => [\A r \in Runs : row[r] \notin {"none", "starting"} => row'[r] = row[r]]_vars
    BY RowSteps
  <1> QED BY <1>1, Invariance, PTL DEF Spec, FinalizedOnce

\* While the database answers, no session leaves the registry with its row
\* still open.
THEOREM RowsCloseFirst ==
    ASSUME FinalizeMayFail = FALSE
    PROVE  Spec => RowBeforeRemoval
  <1>1. IInv /\ [Next]_vars => [\A r \in Runs : r \in byRun \ byRun' => row[r] = "ended"]_vars
    <2> SUFFICES ASSUME IInv, [Next]_vars, NEW r \in Runs, r \in byRun, r \notin byRun'
                 PROVE  row[r] = "ended"
      OBVIOUS
    <2>1. ASSUME NEW s \in Runs, SupervisorRemove(s) PROVE row[r] = "ended"
      BY <2>1, FinalizeMayFail = FALSE DEF SupervisorRemove, At, IInv, RunInv, RowIsOpen
    <2>2. \A s \in Runs : ~ OpenInsert(s)
      BY DEF OpenInsert
    <2> QED BY <2>1, <2>2, RegistrySteps
  <1> QED BY <1>1, Invariance, PTL DEF Spec, RowBeforeRemoval
-----------------------------------------------------------------------------
(* ShellSessions implements ShellRuns *)

Lives == [s \in Runs |-> LifeOf(s)]

\* The initial state has asked for nothing.
LEMMA RegistryInitial == Init => Registry!RunsInit
  BY DEF Init, Registry!RunsInit, LifeOf

\* ShellRuns counts as ShellSessions does.
LEMMA SameCount == \A S : Registry!Cardinality(S) = Cardinality(S)
  BY DEF Registry!Cardinality, Cardinality

\* The abstract caps are the two maps' sizes.
LEMMA SameCaps ==
    ASSUME IInv, NEW h \in Hosts
    PROVE  Registry!NoPlace(h) <=> CapReached(h)
  <1>1. ASSUME NEW r \in Runs PROVE LifeOf(r) = "open" <=> r \in byRun
    BY DEF LifeOf
  <1>2. Registry!OpenRuns = byRun
    BY <1>1 DEF Registry!OpenRuns, IInv, TypeOK, RegTypeOK
  <1>3. \A r \in Runs : r \in byHost[h] <=> r \in byRun /\ rhost[r] = h
    BY DEF IInv, RunInv, Registered
  <1>4. byHost[h] \subseteq Runs
    BY DEF IInv, TypeOK, RegTypeOK
  <1> DEFINE Here == {r \in Registry!OpenRuns : rhost[r] = h}
  <1>5. Here = byHost[h]
    BY <1>2, <1>3, <1>4 DEF IInv, TypeOK, RegTypeOK
  <1>6. Registry!NoPlace(h) <=> \/ Cardinality(Registry!OpenRuns) >= GlobalCap
                               \/ Cardinality(Here) >= PerHostCap
    BY SameCount DEF Registry!NoPlace
  <1> HIDE DEF Here
  <1> QED BY <1>2, <1>5, <1>6 DEF CapReached

\* A process of run r changes the life of r alone.
LEMMA LifeMoves ==
    ASSUME TypeOK, NEW r \in Runs, OpenStep(r) \/ Supervisor(r)
    PROVE  Lives' = [Lives EXCEPT ![r] = LifeOf(r)']
  <1>1. ASSUME NEW s \in Runs, s # r PROVE LifeOf(s)' = LifeOf(s)
    BY <1>1, OthersUntouched DEF Untouched, LifeOf
  <1> QED BY <1>1 DEF Lives

\* A step that keeps opc, byRun and rhost is a stutter.
LEMMA LivesStay ==
    UNCHANGED <<opc, byRun, rhost>> => UNCHANGED Registry!runVars
  BY DEF Registry!runVars, LifeOf

\* What the handler of a run is to the registry.
LEMMA LifeOfOpen ==
    ASSUME IInv, NEW r \in Runs
    PROVE  /\ r \in byRun => LifeOf(r) = "open"
           /\ opc[r] = "idle" => LifeOf(r) = "none"
           /\ opc[r] \in {"reserved", "routed", "created", "tracked", "undispatched",
                          "started", "refused"} => LifeOf(r) = "asked" /\ r \notin byRun
           /\ opc[r] \in {"waiting", "opened", "rejected"} /\ r \notin byRun
              => LifeOf(r) = "over"
  BY DEF IInv, RunInv, HandsOver, Registered, TypeOK, OpenTypeOK, ChanTypeOK, LifeOf

\* The open handler asks, gives up, is admitted or stutters.
LEMMA OpenRefines ==
    ASSUME IInv, IInv', NEW r \in Runs, OpenStep(r)
    PROVE  [Registry!RunsNext]_(Registry!runVars)
  <1> USE DEF At, OpenTypeOK, RegTypeOK, linkVars, regVars, chanVars
  <1> DEFINE L == LifeOf(r)
  <1> HIDE DEF L
  <1>1. Lives' = [Lives EXCEPT ![r] = L'] /\ Lives[r] = L
    BY LifeMoves DEF IInv, Lives, L
  <1>2. TypeOK /\ TypeOK'
    BY DEF IInv
  <1>3. ASSUME NEW h \in Hosts, OpenReserve(r, h)
        PROVE  Registry!Ask(r, h)
    <2>1. opc[r] = "idle" /\ L = "none"
      BY <1>3, LifeOfOpen DEF OpenReserve, L
    <2>2. r \notin byRun /\ r \notin byRun'
      BY <1>3, <2>1 DEF OpenReserve, IInv, RunInv, HandsOver, Registered
    <2>3. opc'[r] = IF CapReached(h) THEN "rejected" ELSE "reserved"
      BY <1>2, <1>3 DEF OpenReserve, TypeOK
    <2>4. L' = IF CapReached(h) THEN "over" ELSE "asked"
      BY <2>2, <2>3 DEF L, LifeOf
    <2>5. L' = IF Registry!NoPlace(h) THEN "over" ELSE "asked"
      BY <2>4, SameCaps
    <2> QED BY <1>1, <1>3, <2>1, <2>5 DEF OpenReserve, Registry!Ask, Lives
  <1>4. CASE OpenInsert(r)
    <2>1. opc[r] = "started" /\ L = "asked" /\ rhost[r] \in Hosts
      BY <1>4, LifeOfOpen DEF OpenInsert, L, IInv, RunInv, HandsOver
    <2>2. L' = "open" /\ UNCHANGED rhost
      BY <1>4 DEF OpenInsert, L, LifeOf
    <2>3. ~ Registry!NoPlace(rhost[r])
      BY <1>4, <2>1, SameCaps DEF OpenInsert
    <2>4. Registry!Admit(r)
      BY <1>1, <2>1, <2>2, <2>3 DEF Registry!Admit, Lives
    <2> QED BY <2>4 DEF Registry!RunsNext
  <1>5. ASSUME L = "asked", UNCHANGED <<byRun, rhost>>,
               opc'[r] \in {"reserved", "routed", "created", "tracked", "undispatched",
                            "started", "refused", "rejected"}
        PROVE  [Registry!RunsNext]_(Registry!runVars)
    <2>1. r \notin byRun'
      BY <1>5 DEF L, LifeOf
    <2>2. L' = "asked" \/ L' = "over"
      BY <1>5, <2>1 DEF L, LifeOf
    <2>3. CASE L' = "asked"
      BY <1>1, <1>5, <2>3 DEF Registry!runVars, Lives
    <2>4. CASE L' = "over"
      BY <1>1, <1>5, <2>4 DEF Registry!GiveUp, Registry!RunsNext, Lives
    <2> QED BY <2>2, <2>3, <2>4
  <1>6. CASE OpenRoute(r) \/ OpenCreate(r) \/ OpenTrack(r) \/ OpenDispatch(r)
             \/ OpenUndispatched(r) \/ OpenFull(r) \/ OpenRefused(r)
    <2>1. opc[r] \in {"reserved", "routed", "created", "tracked", "undispatched",
                      "started", "refused"}
      BY <1>6 DEF OpenRoute, OpenCreate, OpenTrack, OpenDispatch, OpenUndispatched, OpenFull,
         OpenRefused
    <2>2. L = "asked"
      BY <2>1, LifeOfOpen DEF L
    <2>3. opc'[r] \in {"reserved", "routed", "created", "tracked", "undispatched",
                       "started", "refused", "rejected"}
      BY <1>2, <1>6 DEF OpenRoute, OpenCreate, OpenTrack, OpenDispatch, OpenUndispatched, OpenFull,
         OpenRefused, TypeOK
    <2>4. UNCHANGED <<byRun, rhost>>
      BY <1>6 DEF OpenRoute, OpenCreate, OpenTrack, OpenDispatch, OpenUndispatched, OpenFull,
         OpenRefused
    <2> QED BY <1>5, <2>2, <2>3, <2>4
  <1>7. CASE OpenSupervise(r) \/ OpenAnswer(r)
    <2>1. /\ opc[r] \in {"inserted", "waiting"}
          /\ opc'[r] \in {"waiting", "opened", "rejected"}
          /\ UNCHANGED <<byRun, rhost>>
      BY <1>2, <1>7 DEF OpenSupervise, OpenAnswer, TypeOK
    <2>2. L' = L
      BY <2>1 DEF L, LifeOf
    <2> QED BY <1>1, <2>1, <2>2 DEF Registry!runVars, Lives
  <1> QED BY <1>3, <1>4, <1>6, <1>7 DEF OpenStep, Open, Registry!RunsNext

\* The supervisor ends its run or stutters.
LEMMA SupervisorRefines ==
    ASSUME IInv, IInv', NEW r \in Runs, Supervisor(r)
    PROVE  [Registry!RunsNext]_(Registry!runVars)
  <1>1. CASE SupervisorRemove(r)
    <2>1. spc[r] = "remove" /\ spc'[r] = "untrack"
      BY <1>1 DEF SupervisorRemove, At, IInv, TypeOK, ChanTypeOK
    <2>2. r \in byRun /\ LifeOf(r) = "open"
      BY <2>1 DEF IInv, RunInv, Registered, LifeOf
    <2>3. r \notin byRun' /\ UNCHANGED rhost /\ opc'[r] = opc[r]
      BY <1>1 DEF SupervisorRemove, openVars
    <2>4. opc[r] \in {"waiting", "opened", "rejected"}
      BY <2>1 DEF IInv, RunInv, HandsOver
    <2>5. LifeOf(r)' = "over"
      BY <2>3, <2>4 DEF LifeOf
    <2>6. Lives' = [Lives EXCEPT ![r] = "over"] /\ Lives[r] = "open"
      BY <2>2, <2>5, LifeMoves DEF IInv, Lives
    <2>7. Registry!End(r)
      BY <2>3, <2>6 DEF Registry!End, Lives
    <2> QED BY <2>7 DEF Registry!RunsNext
  <1>2. CASE ~ SupervisorRemove(r)
    <2>1. UNCHANGED <<opc, byRun, rhost>>
      BY <1>2 DEF Supervisor, SupervisorEvent, SupervisorStdout, SupervisorClosed,
         SupervisorFinalize, SupervisorSnatch, SupervisorUntrack, openVars, regVars
    <2> QED BY <2>1, LivesStay
  <1> QED BY <1>1, <1>2

\* Every step of the handlers, supervisors, browsers, kicks and connections is
\* a step of ShellRuns or a stutter: a run is admitted while both caps have
\* room, ends once and never holds a place again.
THEOREM RegistryImplementsRuns == Spec => ImplementsRuns
  <1>1. IInv /\ IInv' /\ [Next]_vars => [Registry!RunsNext]_(Registry!runVars)
    <2> SUFFICES ASSUME IInv, IInv', [Next]_vars
                 PROVE  [Registry!RunsNext]_(Registry!runVars)
      OBVIOUS
    <2>1. CASE UNCHANGED <<opc, rhost, rconn, row, byRun, byHost, tracked, signal, spc>>
      BY <2>1, LivesStay
    <2> QED BY <2>1, StepOfOne, RunsUntouched, OpenRefines, SupervisorRefines
  <1> QED BY <1>1, RegistryInitial, Invariance, PTL DEF Spec, ImplementsRuns, Registry!RunsSpec

=============================================================================
