------------------------- MODULE VncStream_proofs --------------------------
(***************************************************************************)
(* Proofs about VncStream, for any number of viewers and chunks and any    *)
(* capacities.                                                             *)
(***************************************************************************)
EXTENDS VncStream, SequenceTheorems, TLAPS

-----------------------------------------------------------------------------
(* Sequences *)

\* What the end of a channel leaves: its type, its elements and its length.
LEMMA AppendFacts ==
    ASSUME NEW S, NEW q \in Seq(S), NEW x \in S
    PROVE  /\ Append(q, x) \in Seq(S)
           /\ Len(Append(q, x)) = Len(q) + 1
           /\ ElementsOf(Append(q, x)) = ElementsOf(q) \cup {x}
  <1>1. /\ Append(q, x) \in Seq(S) /\ Len(Append(q, x)) = Len(q) + 1
        /\ Append(q, x)[Len(q) + 1] = x
        /\ \A i \in 1 .. Len(q) : Append(q, x)[i] = q[i]
    BY AppendProperties
  <1>2. /\ DOMAIN q = 1 .. Len(q) /\ Len(q) \in Nat
        /\ DOMAIN Append(q, x) = 1 .. Len(q) + 1
    BY <1>1
  <1>3. ASSUME NEW i \in DOMAIN Append(q, x) PROVE Append(q, x)[i] \in ElementsOf(q) \cup {x}
    BY <1>1, <1>2, <1>3 DEF ElementsOf
  <1>4. ASSUME NEW y \in ElementsOf(q) PROVE y \in ElementsOf(Append(q, x))
    <2>1. PICK i \in DOMAIN q : y = q[i]
      BY DEF ElementsOf
    <2>2. i \in DOMAIN Append(q, x) /\ y = Append(q, x)[i]
      BY <1>1, <1>2, <2>1
    <2> QED BY <2>2 DEF ElementsOf
  <1>5. x \in ElementsOf(Append(q, x))
    <2>1. Len(q) + 1 \in DOMAIN Append(q, x)
      BY <1>2
    <2> QED BY <1>1, <2>1 DEF ElementsOf
  <1>6. ElementsOf(Append(q, x)) \subseteq ElementsOf(q) \cup {x}
    BY <1>3 DEF ElementsOf
  <1> QED BY <1>1, <1>4, <1>5, <1>6

\* And its front.
LEMMA TailFacts ==
    ASSUME NEW S, NEW q \in Seq(S), q # <<>>
    PROVE  /\ Head(q) \in S /\ Tail(q) \in Seq(S)
           /\ Len(Tail(q)) = Len(q) - 1
           /\ ElementsOf(q) = {Head(q)} \cup ElementsOf(Tail(q))
  <1>1. /\ Head(q) \in S /\ Tail(q) \in Seq(S) /\ Len(Tail(q)) = Len(q) - 1
        /\ \A i \in 1 .. Len(Tail(q)) : Tail(q)[i] = q[i + 1]
    BY HeadTailProperties
  <1>2. /\ DOMAIN q = 1 .. Len(q) /\ Len(q) \in Nat /\ Len(q) # 0 /\ Head(q) = q[1]
        /\ DOMAIN Tail(q) = 1 .. Len(q) - 1
    BY <1>1
  <1>3. ASSUME NEW i \in DOMAIN q PROVE q[i] \in {Head(q)} \cup ElementsOf(Tail(q))
    <2>1. CASE i = 1
      BY <1>2, <2>1
    <2>2. CASE i # 1
      <3>1. i - 1 \in DOMAIN Tail(q) /\ i - 1 \in 1 .. Len(Tail(q)) /\ (i - 1) + 1 = i
        BY <1>1, <1>2, <2>2
      <3>2. Tail(q)[i - 1] = q[i]
        BY <1>1, <3>1
      <3> QED BY <3>1, <3>2 DEF ElementsOf
    <2> QED BY <2>1, <2>2
  <1>4. ASSUME NEW i \in DOMAIN Tail(q) PROVE Tail(q)[i] \in ElementsOf(q)
    <2>1. i + 1 \in DOMAIN q /\ Tail(q)[i] = q[i + 1]
      BY <1>1, <1>2
    <2> QED BY <2>1 DEF ElementsOf
  <1>5. Head(q) \in ElementsOf(q)
    BY <1>2 DEF ElementsOf
  <1>6. ElementsOf(q) \subseteq {Head(q)} \cup ElementsOf(Tail(q))
    BY <1>3 DEF ElementsOf
  <1>7. ElementsOf(Tail(q)) \subseteq ElementsOf(q)
    BY <1>4 DEF ElementsOf
  <1> QED BY <1>1, <1>5, <1>6, <1>7

-----------------------------------------------------------------------------
(* Types *)

\* The supervisor has a chunk in its hands while it forwards it, and a viewer
\* while it sends to one.
Holding ==
    /\ sup \in {"forward", "send"} => chunk \in Chunks
    /\ sup = "send" => target \in Viewers

\* What an action leaves alone keeps its type.
LEMMA TypeKept ==
    ASSUME TypeOK
    PROVE  /\ UNCHANGED agentVars => AgentTypeOK'
           /\ UNCHANGED supVars => SupTypeOK'
           /\ UNCHANGED sessionVars => SessionTypeOK'
           /\ UNCHANGED viewerVars => ViewerTypeOK'
           /\ UNCHANGED history => HistoryTypeOK'
  <1>1. UNCHANGED agentVars => AgentTypeOK'
    BY DEF TypeOK, AgentTypeOK, agentVars
  <1>2. UNCHANGED supVars => SupTypeOK'
    BY DEF TypeOK, SupTypeOK, supVars
  <1>3. UNCHANGED sessionVars => SessionTypeOK'
    BY DEF TypeOK, SessionTypeOK, sessionVars
  <1>4. UNCHANGED viewerVars => ViewerTypeOK'
    BY DEF TypeOK, ViewerTypeOK, viewerVars
  <1>5. UNCHANGED history => HistoryTypeOK'
    BY DEF TypeOK, HistoryTypeOK, history
  <1> QED BY <1>1, <1>2, <1>3, <1>4, <1>5

\* The handshake buffer keeps its type and its capacity.
LEMMA CaptureType ==
    ASSUME TypeOK, NEW n \in Chunks, Capture(n)
    PROVE  buf' \in Seq(Chunks) /\ Len(buf') <= BufCap
  <1>1. BufCap \in Nat \ {0} /\ buf \in Seq(Chunks) /\ Len(buf) <= BufCap /\ Len(buf) \in Nat
    BY VncAssumption, LenProperties DEF TypeOK, SessionTypeOK
  <1>2. CASE Len(buf) < BufCap
    <2>1. Append(buf, n) \in Seq(Chunks) /\ Len(Append(buf, n)) = Len(buf) + 1
      BY <1>1, AppendFacts
    <2>2. Len(Append(buf, n)) <= BufCap
      BY <1>1, <1>2, <2>1
    <2> QED BY <1>2, <2>1, <2>2 DEF Capture
  <1>3. CASE ~ (Len(buf) < BufCap)
    <2>1. Tail(buf) \in Seq(Chunks) /\ Len(Tail(buf)) = Len(buf) - 1
      BY <1>1, <1>3, TailFacts
    <2>2. Append(Tail(buf), n) \in Seq(Chunks) /\ Len(Append(Tail(buf), n)) = Len(Tail(buf)) + 1
      BY <2>1, AppendFacts
    <2>3. Len(Append(Tail(buf), n)) <= BufCap
      BY <1>1, <2>1, <2>2
    <2> QED BY <1>3, <2>2, <2>3 DEF Capture
  <1> QED BY <1>2, <1>3

\* The agent and the connection keep the types,
LEMMA AgentType ==
    ASSUME TypeOK, AgentSends \/ AgentExits \/ ConnCloses \/ Kick
    PROVE  TypeOK'
  <1>1. CASE AgentSends
    <2>1. AgentTypeOK'
      <3>1. sent + 1 \in Chunks
        BY <1>1, VncAssumption DEF AgentSends, TypeOK, AgentTypeOK, Chunks
      <3>2. sent' \in 0 .. MaxChunks
        BY <1>1, <3>1 DEF AgentSends, Chunks
      <3>3. CASE UNCHANGED stdoutCh
        BY <1>1, <3>2, <3>3 DEF AgentSends, TypeOK, AgentTypeOK
      <3>4. CASE Len(stdoutCh) < StdoutCap /\ stdoutCh' = Append(stdoutCh, sent + 1)
        <4>1. stdoutCh' \in Seq(Chunks) /\ Len(stdoutCh') = Len(stdoutCh) + 1
          BY <3>1, <3>4, AppendFacts DEF TypeOK, AgentTypeOK
        <4>2. Len(stdoutCh') <= StdoutCap
          BY <3>4, <4>1, VncAssumption, LenProperties DEF TypeOK, AgentTypeOK
        <4> QED BY <1>1, <3>2, <4>1, <4>2 DEF AgentSends, TypeOK, AgentTypeOK
      <3> QED BY <1>1, <3>3, <3>4 DEF AgentSends
    <2>2. UNCHANGED <<supVars, sessionVars, viewerVars, history>>
      BY <1>1 DEF AgentSends, agentVars, supVars, sessionVars, viewerVars, history
    <2> QED BY <2>1, <2>2, TypeKept DEF TypeOK
  <1>2. CASE AgentExits
    <2>1. AgentTypeOK'
      BY <1>2 DEF AgentExits, TypeOK, AgentTypeOK
    <2>2. UNCHANGED <<supVars, sessionVars, viewerVars, history>>
      BY <1>2 DEF AgentExits, agentVars, supVars, sessionVars, viewerVars, history
    <2> QED BY <2>1, <2>2, TypeKept DEF TypeOK
  <1>3. CASE ConnCloses
    <2>1. AgentTypeOK'
      BY <1>3 DEF ConnCloses, TypeOK, AgentTypeOK
    <2>2. UNCHANGED <<supVars, sessionVars, viewerVars, history>>
      BY <1>3 DEF ConnCloses, agentVars, supVars, sessionVars, viewerVars, history
    <2> QED BY <2>1, <2>2, TypeKept DEF TypeOK
  <1>4. CASE Kick
    <2>1. ViewerTypeOK'
      BY <1>4 DEF Kick, TypeOK, ViewerTypeOK, Cancel, SessionTypeOK
    <2>2. UNCHANGED <<agentVars, supVars, sessionVars, history>>
      BY <1>4 DEF Kick, agentVars, supVars, sessionVars, viewerVars, history
    <2> QED BY <2>1, <2>2, TypeKept DEF TypeOK
  <1> QED BY <1>1, <1>2, <1>3, <1>4

\* the supervisor does,
LEMMA SupType ==
    ASSUME TypeOK, Holding, Supervise
    PROVE  TypeOK'
  <1>1. CASE OpenInsert
    <2>1. AgentTypeOK'
      <3>1. <<>> \in Seq(Chunks) /\ Len(<<>>) = 0 /\ 0 <= StdoutCap
        BY VncAssumption
      <3> QED BY <1>1, <3>1 DEF OpenInsert, Step, TypeOK, AgentTypeOK
    <2>2. SupTypeOK'
      BY <1>1 DEF OpenInsert, TypeOK, SupTypeOK, Step
    <2>3. UNCHANGED <<sessionVars, viewerVars, history>>
      BY <1>1 DEF OpenInsert, agentVars, supVars, sessionVars, viewerVars, history
    <2> QED BY <2>1, <2>2, <2>3, TypeKept DEF TypeOK
  <1>2. CASE OpenSupervise
    <2>1. SupTypeOK'
      BY <1>2 DEF OpenSupervise, TypeOK, SupTypeOK, Step
    <2>2. UNCHANGED <<agentVars, sessionVars, viewerVars, history>>
      BY <1>2 DEF OpenSupervise, agentVars, supVars, sessionVars, viewerVars, history
    <2> QED BY <2>1, <2>2, TypeKept DEF TypeOK
  <1>3. CASE SupTake
    <2>1. AgentTypeOK'
      <3>1. Tail(stdoutCh) \in Seq(Chunks) /\ Len(Tail(stdoutCh)) = Len(stdoutCh) - 1
        BY <1>3, TailFacts DEF SupTake, TypeOK, AgentTypeOK
      <3>2. Len(Tail(stdoutCh)) <= StdoutCap
        BY <3>1, VncAssumption, LenProperties DEF TypeOK, AgentTypeOK
      <3> QED BY <1>3, <3>1, <3>2 DEF SupTake, TypeOK, AgentTypeOK
    <2>2. SupTypeOK'
      <3>1. Head(stdoutCh) \in Chunks
        BY <1>3, TailFacts DEF SupTake, TypeOK, AgentTypeOK
      <3>2. Head(stdoutCh) \in 0 .. MaxChunks
        BY <3>1, VncAssumption DEF Chunks
      <3> QED BY <1>3, <3>2 DEF SupTake, Step, TypeOK, SupTypeOK
    <2>3. UNCHANGED <<sessionVars, viewerVars, history>>
      BY <1>3 DEF SupTake, agentVars, supVars, sessionVars, viewerVars, history
    <2> QED BY <2>1, <2>2, <2>3, TypeKept DEF TypeOK
  <1>4. CASE SupForward
    <2>1. SupTypeOK'
      <3>1. 0 \in 0 .. MaxChunks
        BY VncAssumption
      <3>2. CASE slot = None
        BY <1>4, <3>1, <3>2 DEF SupForward, Step, TypeOK, SupTypeOK
      <3>3. CASE slot # None
        BY <1>4, <3>3 DEF SupForward, Step, TypeOK, SupTypeOK, SessionTypeOK
      <3> QED BY <3>2, <3>3
    <2>2. SessionTypeOK'
      <3>1. CASE UNCHANGED buf
        BY <1>4, <3>1 DEF SupForward, TypeOK, SessionTypeOK
      <3>2. CASE Capture(chunk)
        <4>1. buf' \in Seq(Chunks) /\ Len(buf') <= BufCap
          BY <1>4, <3>2, CaptureType DEF SupForward, Step, Holding, TypeOK, SessionTypeOK
        <4> QED BY <1>4, <4>1 DEF SupForward, TypeOK, SessionTypeOK
      <3> QED BY <1>4, <3>1, <3>2 DEF SupForward
    <2>3. HistoryTypeOK'
      <3>1. chunk \in Chunks
        BY <1>4 DEF SupForward, Step, Holding
      <3>2. overflow' \subseteq Chunks
        <4>1. buf # <<>> => Head(buf) \in Chunks
          BY TailFacts DEF TypeOK, SessionTypeOK
        <4>2. ~ (Len(buf) < BufCap) => buf # <<>>
          BY VncAssumption DEF TypeOK, SessionTypeOK
        <4> QED BY <1>4, <4>1, <4>2 DEF SupForward, Capture, TypeOK, HistoryTypeOK
      <3> QED BY <1>4, <3>1, <3>2 DEF SupForward, TypeOK, HistoryTypeOK
    <2>4. UNCHANGED <<agentVars, viewerVars>>
      BY <1>4 DEF SupForward, agentVars, supVars, sessionVars, viewerVars, history
    <2> QED BY <2>1, <2>2, <2>3, <2>4, TypeKept DEF TypeOK
  <1>5. CASE SupSend
    <2>1. SupTypeOK'
      <3>1. 0 \in 0 .. MaxChunks
        BY VncAssumption
      <3> QED BY <1>5, <3>1 DEF SupSend, TypeOK, SupTypeOK
    <2>2. ViewerTypeOK'
      <3> DEFINE q == Append(sink[target], <<chunk>>)
      <3>1. target \in Viewers /\ chunk \in Chunks
        BY <1>5 DEF SupSend, Holding
      <3>2. CASE UNCHANGED sink
        BY <1>5, <3>2 DEF SupSend, TypeOK, ViewerTypeOK
      <3>3. CASE Len(sink[target]) < SinkCap /\ sink' = [sink EXCEPT ![target] = q]
        <4>1. <<chunk>> \in Seq(Chunks) /\ sink[target] \in Seq(Seq(Chunks))
          BY <3>1 DEF TypeOK, ViewerTypeOK
        <4>2. q \in Seq(Seq(Chunks)) /\ Len(q) = Len(sink[target]) + 1
          BY <4>1, AppendFacts
        <4>3. Len(q) <= SinkCap
          BY <3>3, <4>1, <4>2, VncAssumption, LenProperties
        <4> HIDE DEF q
        <4>4. /\ sink' \in [Viewers -> Seq(Seq(Chunks))]
              /\ \A v \in Viewers : Len(sink'[v]) <= SinkCap
          BY <3>1, <3>3, <4>2, <4>3 DEF TypeOK, ViewerTypeOK
        <4> QED BY <1>5, <4>4 DEF SupSend, TypeOK, ViewerTypeOK
      <3> QED BY <1>5, <3>2, <3>3 DEF SupSend
    <2>3. HistoryTypeOK'
      BY <1>5 DEF SupSend, TypeOK, HistoryTypeOK, Holding
    <2>4. UNCHANGED <<agentVars, sessionVars>>
      BY <1>5 DEF SupSend, agentVars, supVars, sessionVars, viewerVars, history
    <2> QED BY <2>1, <2>2, <2>3, <2>4, TypeKept DEF TypeOK
  <1>6. CASE SupEvict
    <2>1. SupTypeOK'
      BY <1>6 DEF SupEvict, TypeOK, SupTypeOK, Step
    <2>2. ViewerTypeOK'
      BY <1>6 DEF SupEvict, TypeOK, ViewerTypeOK, Cancel, SessionTypeOK
    <2>3. UNCHANGED <<agentVars, sessionVars, history>>
      BY <1>6 DEF SupEvict, agentVars, supVars, sessionVars, viewerVars, history
    <2> QED BY <2>1, <2>2, <2>3, TypeKept DEF TypeOK
  <1>7. CASE SupEnds
    <2>1. SupTypeOK'
      BY <1>7 DEF SupEnds, TypeOK, SupTypeOK, Step
    <2>2. ViewerTypeOK'
      <3>1. told' \subseteq Viewers
        BY <1>7 DEF SupEnds, TypeOK, SessionTypeOK, ViewerTypeOK
      <3> QED BY <1>7, <3>1 DEF SupEnds, TypeOK, ViewerTypeOK
    <2>3. UNCHANGED <<agentVars, sessionVars, history>>
      BY <1>7 DEF SupEnds, agentVars, supVars, sessionVars, viewerVars, history
    <2> QED BY <2>1, <2>2, <2>3, TypeKept DEF TypeOK
  <1>8. CASE SupSnatch
    <2>1. SupTypeOK'
      BY <1>8 DEF SupSnatch, TypeOK, SupTypeOK, Step
    <2>2. SessionTypeOK'
      BY <1>8 DEF SupSnatch, TypeOK, SessionTypeOK
    <2>3. ViewerTypeOK'
      BY <1>8 DEF SupSnatch, TypeOK, ViewerTypeOK, Cancel, SessionTypeOK
    <2>4. UNCHANGED <<agentVars, history>>
      BY <1>8 DEF SupSnatch, agentVars, supVars, sessionVars, viewerVars, history
    <2> QED BY <2>1, <2>2, <2>3, <2>4, TypeKept DEF TypeOK
  <1>9. CASE SupRemove
    <2>1. AgentTypeOK'
      <3>1. <<>> \in Seq(Chunks) /\ Len(<<>>) = 0 /\ 0 <= StdoutCap
        BY VncAssumption
      <3> QED BY <1>9, <3>1 DEF SupRemove, Step, TypeOK, AgentTypeOK
    <2>2. SupTypeOK'
      BY <1>9 DEF SupRemove, TypeOK, SupTypeOK, Step
    <2>3. SessionTypeOK'
      <3>1. <<>> \in Seq(Chunks) /\ Len(<<>>) = 0 /\ 0 <= BufCap
        BY VncAssumption
      <3> QED BY <1>9, <3>1 DEF SupRemove, TypeOK, SessionTypeOK
    <2>4. UNCHANGED <<viewerVars, history>>
      BY <1>9 DEF SupRemove, agentVars, supVars, sessionVars, viewerVars, history
    <2> QED BY <2>1, <2>2, <2>3, <2>4, TypeKept DEF TypeOK
  <1> QED BY <1>1, <1>2, <1>3, <1>4, <1>5, <1>6, <1>7, <1>8, <1>9 DEF Supervise

ViewerStep(v) == Check(v) \/ Attach(v) \/ CancelPrev(v) \/ Replay(v) \/ Show(v) \/ Leave(v)

\* and so do the viewers.
LEMMA ViewerType ==
    ASSUME TypeOK, NEW v \in Viewers, ViewerStep(v)
    PROVE  TypeOK'
  <1>1. CASE Check(v)
    <2>1. ViewerTypeOK'
      BY <1>1 DEF Check, TypeOK, ViewerTypeOK, Goto
    <2>2. UNCHANGED <<agentVars, supVars, sessionVars, history>>
      BY <1>1 DEF Check, agentVars, supVars, sessionVars, viewerVars, history
    <2> QED BY <2>1, <2>2, TypeKept DEF TypeOK
  <1>2. CASE Attach(v)
    <2>1. SessionTypeOK'
      <3>1. buf' \in Seq(Chunks) /\ Len(buf') <= BufCap
        <4>1. <<>> \in Seq(Chunks) /\ Len(<<>>) = 0 /\ 0 <= BufCap
          BY VncAssumption
        <4> QED BY <1>2, <4>1 DEF Attach, TypeOK, SessionTypeOK, sessionVars
      <3> QED BY <1>2, <3>1 DEF Attach, TypeOK, SessionTypeOK, sessionVars
    <2>2. ViewerTypeOK'
      <3>1. prev' \in [Viewers -> Viewers \cup {None}]
        BY <1>2 DEF Attach, TypeOK, SessionTypeOK, ViewerTypeOK, sessionVars
      <3>2. snap' \in [Viewers -> Seq(Chunks)]
        BY <1>2 DEF Attach, TypeOK, SessionTypeOK, ViewerTypeOK, sessionVars
      <3> QED BY <1>2, <3>1, <3>2 DEF Attach, Goto, TypeOK, ViewerTypeOK
    <2>3. UNCHANGED <<agentVars, supVars, history>>
      BY <1>2 DEF Attach, agentVars, supVars, sessionVars, viewerVars, history
    <2> QED BY <2>1, <2>2, <2>3, TypeKept DEF TypeOK
  <1>3. CASE CancelPrev(v)
    <2>1. ViewerTypeOK'
      <3>1. cancelled' \subseteq Viewers
        BY <1>3 DEF CancelPrev, Cancel, TypeOK, ViewerTypeOK
      <3> QED BY <1>3, <3>1 DEF CancelPrev, Goto, TypeOK, ViewerTypeOK
    <2>2. UNCHANGED <<agentVars, supVars, sessionVars, history>>
      BY <1>3 DEF CancelPrev, agentVars, supVars, sessionVars, viewerVars, history
    <2> QED BY <2>1, <2>2, TypeKept DEF TypeOK
  <1>4. CASE Replay(v)
    <2>1. ViewerTypeOK'
      <3> DEFINE q == Append(sink[v], snap[v])
      <3>1. sink[v] \in Seq(Seq(Chunks)) /\ snap[v] \in Seq(Chunks)
        BY DEF TypeOK, ViewerTypeOK
      <3>2. q \in Seq(Seq(Chunks)) /\ Len(q) = Len(sink[v]) + 1
        BY <3>1, AppendFacts
      <3>3. Len(sink[v]) < SinkCap => Len(q) <= SinkCap
        BY <3>1, <3>2, VncAssumption, LenProperties
      <3>4. \/ UNCHANGED sink
            \/ Len(sink[v]) < SinkCap /\ sink' = [sink EXCEPT ![v] = q]
        BY <1>4 DEF Replay
      <3> HIDE DEF q
      <3>5. /\ sink' \in [Viewers -> Seq(Seq(Chunks))]
            /\ \A w \in Viewers : Len(sink'[w]) <= SinkCap
        BY <3>2, <3>3, <3>4 DEF TypeOK, ViewerTypeOK
      <3>6. snap' \in [Viewers -> Seq(Chunks)]
        BY <1>4 DEF Replay, TypeOK, ViewerTypeOK
      <3> QED BY <1>4, <3>5, <3>6 DEF Replay, Goto, TypeOK, ViewerTypeOK
    <2>2. HistoryTypeOK'
      BY <1>4 DEF Replay, TypeOK, HistoryTypeOK
    <2>3. UNCHANGED <<agentVars, supVars, sessionVars>>
      BY <1>4 DEF Replay, agentVars, supVars, sessionVars, viewerVars, history
    <2> QED BY <2>1, <2>2, <2>3, TypeKept DEF TypeOK
  <1>5. CASE Show(v)
    <2>1. ViewerTypeOK'
      <3> DEFINE q == Tail(sink[v])
      <3>1. sink[v] \in Seq(Seq(Chunks)) /\ sink[v] # <<>> /\ Len(sink[v]) <= SinkCap
        BY <1>5 DEF Show, TypeOK, ViewerTypeOK
      <3>2. q \in Seq(Seq(Chunks)) /\ Len(q) = Len(sink[v]) - 1 /\ Head(sink[v]) \in Seq(Chunks)
        BY <3>1, TailFacts
      <3>3. Len(q) <= SinkCap
        BY <3>1, <3>2, VncAssumption, LenProperties
      <3>4. ElementsOf(Head(sink[v])) \subseteq Chunks
        BY <3>2 DEF ElementsOf
      <3>5. sink' = [sink EXCEPT ![v] = q]
        BY <1>5 DEF Show
      <3> HIDE DEF q
      <3>6. /\ sink' \in [Viewers -> Seq(Seq(Chunks))]
            /\ \A w \in Viewers : Len(sink'[w]) <= SinkCap
        BY <3>2, <3>3, <3>5 DEF TypeOK, ViewerTypeOK
      <3>7. screen' \in [Viewers -> SUBSET Chunks]
        BY <1>5, <3>4 DEF Show, TypeOK, ViewerTypeOK
      <3> QED BY <1>5, <3>6, <3>7 DEF Show, TypeOK, ViewerTypeOK
    <2>2. UNCHANGED <<agentVars, supVars, sessionVars, history>>
      BY <1>5 DEF Show, agentVars, supVars, sessionVars, viewerVars, history
    <2> QED BY <2>1, <2>2, TypeKept DEF TypeOK
  <1>6. CASE Leave(v)
    <2>1. SessionTypeOK'
      BY <1>6 DEF Leave, TypeOK, SessionTypeOK
    <2>2. ViewerTypeOK'
      <3>1. <<>> \in Seq(Seq(Chunks)) /\ Len(<<>>) = 0 /\ 0 <= SinkCap
        BY VncAssumption
      <3>2. /\ sink' \in [Viewers -> Seq(Seq(Chunks))]
            /\ \A w \in Viewers : Len(sink'[w]) <= SinkCap
        BY <1>6, <3>1 DEF Leave, TypeOK, ViewerTypeOK
      <3> QED BY <1>6, <3>2 DEF Leave, Goto, TypeOK, ViewerTypeOK
    <2>3. UNCHANGED <<agentVars, supVars, history>>
      BY <1>6 DEF Leave, agentVars, supVars, sessionVars, viewerVars, history
    <2> QED BY <2>1, <2>2, <2>3, TypeKept DEF TypeOK
  <1> QED BY <1>1, <1>2, <1>3, <1>4, <1>5, <1>6 DEF ViewerStep
-----------------------------------------------------------------------------
(* A viewer that missed a chunk *)

\* A viewer that is on its way out: gone, cancelled, or about to be cancelled
\* by the one that replaced it.
Ending(v) ==
    \/ vpc[v] = "gone" \/ v \in cancelled
    \/ \E w \in Viewers : vpc[w] = "attached" /\ prev[w] = v

TargetCovered == sup = "send" => slot = target \/ Ending(target)

\* Who is on its way out stays there.
LEMMA StaysEnding ==
    ASSUME TypeOK, [Next]_vars, NEW v \in Viewers, Ending(v)
    PROVE  Ending(v)'
  <1>1. None \notin Viewers
    BY VncAssumption
  <1>2. CASE UNCHANGED <<vpc, prev>> /\ cancelled \subseteq cancelled'
    BY <1>2 DEF Ending
  <1>3. CASE AgentSends \/ AgentExits \/ ConnCloses \/ Kick
    BY <1>2, <1>3 DEF AgentSends, AgentExits, ConnCloses, Kick, Cancel, viewerVars
  <1>4. CASE Supervise
    BY <1>2, <1>4 DEF Supervise, OpenInsert, OpenSupervise, SupTake, SupForward, SupSend,
       SupEvict, SupEnds, SupSnatch, SupRemove, Cancel, viewerVars
  <1>5. ASSUME NEW w \in Viewers, CancelPrev(w) PROVE Ending(v)'
    <2>1. \A x \in Viewers : x # w => vpc'[x] = vpc[x] /\ prev'[x] = prev[x]
      BY <1>5 DEF CancelPrev, Goto, TypeOK, ViewerTypeOK
    <2>2. cancelled' = cancelled \cup ({prev[w]} \ {None}) /\ vpc[w] = "attached"
      BY <1>5 DEF CancelPrev, Cancel, Goto
    <2> QED BY <1>1, <2>1, <2>2 DEF Ending
  <1>6. ASSUME NEW w \in Viewers, Check(w) \/ Attach(w) \/ Replay(w) \/ Show(w) \/ Leave(w)
        PROVE  Ending(v)'
    <2>1. \A x \in Viewers : vpc[x] \in {"gone", "attached"} => vpc'[x] = vpc[x]
      BY <1>6 DEF Check, Attach, Replay, Show, Leave, Goto, TypeOK, ViewerTypeOK
    <2>2. \A x \in Viewers : vpc[x] \in {"gone", "attached"} => prev'[x] = prev[x]
      BY <1>6 DEF Check, Attach, Replay, Show, Leave, Goto, TypeOK, ViewerTypeOK
    <2>3. cancelled' = cancelled
      BY <1>6 DEF Check, Attach, Replay, Show, Leave
    <2> QED BY <2>1, <2>2, <2>3 DEF Ending
  <1>7. CASE UNCHANGED vars
    BY <1>2, <1>7 DEF vars, viewerVars
  <1> QED BY <1>3, <1>4, <1>5, <1>6, <1>7 DEF Next

\* Who loses the slot is on its way out, except when the session is removed.
LEMMA SlotPassesOn ==
    ASSUME TypeOK, [Next]_vars, ~ SupRemove, NEW v \in Viewers, slot = v
    PROVE  slot' = v \/ Ending(v)'
  <1>1. None \notin Viewers
    BY VncAssumption
  <1>2. CASE UNCHANGED slot
    BY <1>2
  <1>3. CASE SupSnatch
    BY <1>1, <1>3 DEF SupSnatch, Cancel, Ending
  <1>4. ASSUME NEW w \in Viewers, Attach(w) PROVE slot' = v \/ Ending(v)'
    <2>1. vpc'[w] = "attached" /\ (slot' = v \/ prev'[w] = v)
      BY <1>4 DEF Attach, Goto, TypeOK, ViewerTypeOK, sessionVars
    <2> QED BY <2>1 DEF Ending
  <1>5. ASSUME NEW w \in Viewers, Leave(w) PROVE slot' = v \/ Ending(v)'
    <2>1. vpc'[w] = "gone" /\ (slot' = v \/ w = v)
      BY <1>5 DEF Leave, Goto, TypeOK, ViewerTypeOK
    <2> QED BY <2>1 DEF Ending
  <1>6. CASE \/ OpenInsert \/ OpenSupervise \/ SupTake \/ SupForward \/ SupSend \/ SupEvict
             \/ SupEnds \/ AgentSends \/ AgentExits \/ ConnCloses \/ Kick
    BY <1>2, <1>6 DEF OpenInsert, OpenSupervise, SupTake, SupForward, SupSend, SupEvict, SupEnds,
       AgentSends, AgentExits, ConnCloses, Kick, sessionVars
  <1>7. ASSUME NEW w \in Viewers, Check(w) \/ CancelPrev(w) \/ Replay(w) \/ Show(w)
        PROVE  UNCHANGED slot
    BY <1>7 DEF Check, CancelPrev, Replay, Show, sessionVars
  <1>8. CASE UNCHANGED vars
    BY <1>2, <1>8 DEF vars, sessionVars
  <1> QED BY <1>2, <1>3, <1>4, <1>5, <1>6, <1>7, <1>8 DEF Next, Supervise

\* The viewer that the supervisor sends to is covered.
LEMMA StepTarget ==
    ASSUME TypeOK, Holding, TargetCovered, [Next]_vars
    PROVE  TargetCovered'
  <1>1. CASE SupForward
    BY <1>1 DEF SupForward, TargetCovered, Step, TypeOK, SupTypeOK
  <1>2. CASE ~ SupForward
    <2>1. sup' = "send" => sup = "send" /\ target' = target /\ ~ SupRemove
      BY <1>2 DEF Next, Supervise, AgentSends, AgentExits, ConnCloses, Kick, OpenInsert,
         OpenSupervise, SupTake, SupSend, SupEvict, SupEnds, SupSnatch, SupRemove, Step, supVars,
         Check, Attach, CancelPrev, Replay, Show, Leave, vars
    <2>2. SUFFICES ASSUME sup' = "send" PROVE slot' = target' \/ Ending(target)'
      BY DEF TargetCovered
    <2>3. target \in Viewers /\ (slot = target \/ Ending(target))
      BY <2>1, <2>2 DEF TargetCovered, Holding
    <2>4. \A v \in Viewers : slot = v \/ Ending(v) => slot' = v \/ Ending(v)'
      BY <2>1, <2>2, StaysEnding, SlotPassesOn
    <2> QED BY <2>1, <2>2, <2>3, <2>4 DEF Ending
  <1> QED BY <1>1, <1>2

\* Every viewer that missed a chunk is on its way out.
LEMMA StepGap ==
    ASSUME TypeOK, Holding, TargetCovered, GapEndsViewer, [Next]_vars
    PROVE  GapEndsViewer'
  <1>1. None \notin Viewers /\ lost \subseteq Viewers
    BY VncAssumption DEF TypeOK, HistoryTypeOK
  <1>2. GapEndsViewer <=> \A v \in lost : (sup = "evict" /\ slot = v) \/ Ending(v)
    BY DEF GapEndsViewer, Ending
  <1>3. SUFFICES ASSUME NEW v \in lost' PROVE (sup' = "evict" /\ slot' = v) \/ Ending(v)'
    BY DEF GapEndsViewer, Ending
  <1>4. CASE SupSend
    <2>1. UNCHANGED <<vpc, prev, cancelled, slot>> /\ sup = "send"
      BY <1>4 DEF SupSend, sessionVars
    <2>2. CASE v \in lost
      BY <1>2, <2>1, <2>2 DEF Ending
    <2>3. CASE sup' = "evict" /\ v = target
      BY <2>1, <2>3 DEF TargetCovered, Ending
    <2> QED BY <1>4, <2>2, <2>3 DEF SupSend
  <1>5. CASE ~ SupSend
    <2>1. lost' = lost
      BY <1>5 DEF Next, Supervise, AgentSends, AgentExits, ConnCloses, Kick, OpenInsert,
         OpenSupervise, SupTake, SupForward, SupEvict, SupEnds, SupSnatch, SupRemove, history,
         Check, Attach, CancelPrev, Replay, Show, Leave, vars
    <2>2. v \in Viewers /\ ((sup = "evict" /\ slot = v) \/ Ending(v))
      BY <1>1, <1>2, <2>1
    <2>3. CASE Ending(v)
      BY <2>2, <2>3, StaysEnding
    <2>4. CASE SupEvict /\ slot = v
      BY <1>1, <2>2, <2>4 DEF SupEvict, Cancel, Ending
    <2>5. CASE sup = "evict" /\ slot = v /\ ~ SupEvict
      <3>1. sup' = "evict" /\ ~ SupRemove
        BY <1>5, <2>5 DEF Next, Supervise, AgentSends, AgentExits, ConnCloses, Kick, OpenInsert,
           OpenSupervise, SupTake, SupForward, SupEnds, SupSnatch, SupRemove, Step, supVars,
           Check, Attach, CancelPrev, Replay, Show, Leave, vars
      <3> QED BY <2>2, <2>5, <3>1, SlotPassesOn
    <2> QED BY <2>2, <2>3, <2>4, <2>5
  <1> QED BY <1>4, <1>5

-----------------------------------------------------------------------------
(* The handshake *)

\* Before the first viewer everything that was forwarded and still fits is in
\* the handshake buffer.
BufferComplete ==
    first = None /\ sup # "done" => forwarded \ overflow \subseteq ElementsOf(buf)

\* The first viewer has attached, for good.
FirstAttached == \A v \in Viewers : first = v => vpc[v] \notin {"new", "checked"}

\* What a capture leaves in the buffer.
LEMMA CaptureKeeps ==
    ASSUME TypeOK, NEW n \in Chunks, Capture(n), forwarded \ overflow \subseteq ElementsOf(buf)
    PROVE  (forwarded \cup {n}) \ overflow' \subseteq ElementsOf(buf')
  <1>1. buf \in Seq(Chunks) /\ Len(buf) \in Nat
    BY LenProperties DEF TypeOK, SessionTypeOK
  <1>2. CASE Len(buf) < BufCap
    <2>1. /\ Append(buf, n) \in Seq(Chunks)
          /\ ElementsOf(Append(buf, n)) = ElementsOf(buf) \cup {n}
      BY <1>1, AppendFacts
    <2> QED BY <1>2, <2>1 DEF Capture
  <1>3. CASE ~ (Len(buf) < BufCap)
    <2>1. buf # <<>>
      BY <1>1, <1>3, VncAssumption
    <2>2. Tail(buf) \in Seq(Chunks) /\ ElementsOf(buf) = {Head(buf)} \cup ElementsOf(Tail(buf))
      BY <1>1, <2>1, TailFacts
    <2>3. \A q \in Seq(Chunks) : ElementsOf(Append(q, n)) = ElementsOf(q) \cup {n}
      BY AppendFacts
    <2>4. buf' = Append(Tail(buf), n) /\ overflow' = overflow \cup {Head(buf)}
      BY <1>3 DEF Capture
    <2> QED BY <2>2, <2>3, <2>4
  <1> QED BY <1>2, <1>3

\* Every step keeps the buffer complete until there is a first viewer.
LEMMA StepBuffer ==
    ASSUME TypeOK, Holding, BufferComplete, [Next]_vars
    PROVE  BufferComplete'
  <1>1. CASE UNCHANGED <<first, forwarded, overflow, buf>> /\ (sup' # "done" => sup # "done")
    BY <1>1 DEF BufferComplete, ElementsOf
  <1>2. CASE SupForward
    <2>1. chunk \in Chunks /\ first' = first /\ forwarded' = forwarded \cup {chunk} /\ sup # "done"
      BY <1>2 DEF SupForward, Step, Holding
    <2>2. CASE first = None
      <3>1. Capture(chunk) /\ forwarded \ overflow \subseteq ElementsOf(buf)
        BY <1>2, <2>1, <2>2 DEF SupForward, BufferComplete
      <3>2. (forwarded \cup {chunk}) \ overflow' \subseteq ElementsOf(buf')
        BY <2>1, <3>1, CaptureKeeps
      <3> QED BY <2>1, <3>2 DEF BufferComplete, ElementsOf
    <2> QED BY <2>1, <2>2 DEF BufferComplete
  <1>3. CASE SupRemove
    BY <1>3 DEF SupRemove, Step, BufferComplete
  <1>4. ASSUME NEW v \in Viewers, Attach(v) PROVE BufferComplete'
    <2>1. None # v /\ UNCHANGED <<forwarded, overflow, sup>>
      BY <1>4, VncAssumption DEF Attach, history, supVars
    <2>2. first' = v \/ UNCHANGED <<first, buf>>
      BY <1>4 DEF Attach, sessionVars
    <2> QED BY <1>1, <2>1, <2>2 DEF BufferComplete
  <1>5. ASSUME NEW v \in Viewers, Check(v) \/ CancelPrev(v) \/ Replay(v) \/ Show(v) \/ Leave(v)
        PROVE  UNCHANGED <<first, forwarded, overflow, buf, sup>>
    BY <1>5 DEF Check, CancelPrev, Replay, Show, Leave, sessionVars, history, supVars
  <1>6. CASE \/ OpenInsert \/ OpenSupervise \/ SupTake \/ SupSend \/ SupEvict \/ SupEnds
             \/ SupSnatch \/ AgentSends \/ AgentExits \/ ConnCloses \/ Kick
    BY <1>1, <1>6 DEF OpenInsert, OpenSupervise, SupTake, SupSend, SupEvict, SupEnds, SupSnatch,
       AgentSends, AgentExits, ConnCloses, Kick, sessionVars, history, supVars, Step
  <1>7. CASE UNCHANGED vars
    BY <1>1, <1>7 DEF vars, sessionVars, history, supVars
  <1> QED BY <1>1, <1>2, <1>3, <1>4, <1>5, <1>6, <1>7 DEF Next, Supervise

\* A viewer attaches once.
LEMMA StepFirst ==
    ASSUME TypeOK, FirstAttached, [Next]_vars
    PROVE  FirstAttached'
  <1>1. CASE UNCHANGED <<first, vpc>>
    BY <1>1 DEF FirstAttached
  <1>2. ASSUME NEW v \in Viewers, ViewerStep(v) PROVE FirstAttached'
    <2>1. \A w \in Viewers : vpc[w] \notin {"new", "checked"} => vpc'[w] \notin {"new", "checked"}
      BY <1>2 DEF ViewerStep, Check, Attach, CancelPrev, Replay, Show, Leave, Goto, TypeOK,
         ViewerTypeOK
    <2>2. first' = first \/ (first' = v /\ vpc'[v] = "attached")
      BY <1>2 DEF ViewerStep, Check, Attach, CancelPrev, Replay, Show, Leave, Goto, TypeOK,
         ViewerTypeOK, sessionVars
    <2> QED BY <2>1, <2>2 DEF FirstAttached
  <1>3. CASE Supervise \/ AgentSends \/ AgentExits \/ ConnCloses \/ Kick
    BY <1>1, <1>3 DEF Supervise, OpenInsert, OpenSupervise, SupTake, SupForward, SupSend, SupEvict,
       SupEnds, SupSnatch, SupRemove, AgentSends, AgentExits, ConnCloses, Kick, sessionVars,
       viewerVars
  <1>4. CASE UNCHANGED vars
    BY <1>1, <1>4 DEF vars, sessionVars, viewerVars
  <1> QED BY <1>2, <1>3, <1>4 DEF Next, ViewerStep

\* What a viewer has been sent, in its three places: the screen, the replay
\* under way and the sink.
Queued(v) == UNION {ElementsOf(q) : q \in ElementsOf(sink[v])}

\* Seen is their union.
LEMMA SeenParts ==
    \A v : /\ Seen(v) = screen[v] \cup ElementsOf(snap[v]) \cup Queued(v)
           /\ Seen(v)' = screen'[v] \cup ElementsOf(snap'[v]) \cup Queued(v)'
  BY DEF Seen, Queued, ElementsOf

\* Nothing that is left alone changes.
LEMMA SeenKept ==
    ASSUME NEW v, screen'[v] = screen[v], snap'[v] = snap[v], sink'[v] = sink[v]
    PROVE  Seen(v)' = Seen(v)
  BY DEF Seen, ElementsOf

\* A send into a sink adds what is sent.
LEMMA SinkGrows ==
    ASSUME TypeOK, NEW v \in Viewers, NEW q \in Seq(Chunks),
           sink' = [sink EXCEPT ![v] = Append(sink[v], q)]
    PROVE  Queued(v)' = Queued(v) \cup ElementsOf(q)
  <1>1. sink[v] \in Seq(Seq(Chunks)) /\ sink'[v] = Append(sink[v], q)
    BY DEF TypeOK, ViewerTypeOK
  <1>2. /\ Append(sink[v], q) \in Seq(Seq(Chunks))
        /\ ElementsOf(Append(sink[v], q)) = ElementsOf(sink[v]) \cup {q}
    BY <1>1, AppendFacts
  <1>3. Queued(v)' = UNION {ElementsOf(p) : p \in ElementsOf(sink'[v])}
    BY DEF Queued, ElementsOf
  <1> QED BY <1>1, <1>2, <1>3 DEF Queued

\* What is shown was at the head of the sink.
LEMMA SinkShrinks ==
    ASSUME TypeOK, NEW v \in Viewers, sink[v] # <<>>,
           sink' = [sink EXCEPT ![v] = Tail(sink[v])]
    PROVE  Queued(v) = ElementsOf(Head(sink[v])) \cup Queued(v)'
  <1>1. sink[v] \in Seq(Seq(Chunks)) /\ sink'[v] = Tail(sink[v])
    BY DEF TypeOK, ViewerTypeOK
  <1>2. ElementsOf(sink[v]) = {Head(sink[v])} \cup ElementsOf(sink'[v])
    BY <1>1, TailFacts
  <1>3. Queued(v)' = UNION {ElementsOf(p) : p \in ElementsOf(sink'[v])}
    BY DEF Queued, ElementsOf
  <1> QED BY <1>2, <1>3 DEF Queued

\* HandshakeComplete for one viewer.
Complete(v) ==
    first = v /\ slot = v /\ v \notin lost \cup unreplayed =>
        forwarded \ overflow \subseteq Seen(v) \cup Coming(v)

\* The supervisor keeps the handshake complete: a chunk goes from its hands
\* into the sink.
LEMMA SupComplete ==
    ASSUME TypeOK, Holding, Supervise, NEW v \in Viewers, Complete(v)
    PROVE  Complete(v)'
  <1> SUFFICES ASSUME first' = v, slot' = v, v \notin lost', v \notin unreplayed'
               PROVE  forwarded' \ overflow' \subseteq Seen(v)' \cup Coming(v)'
    BY DEF Complete
  <1>1. None # v
    BY VncAssumption
  <1>2. CASE SupSnatch \/ SupRemove
    BY <1>1, <1>2 DEF SupSnatch, SupRemove
  <1>3. CASE OpenInsert \/ OpenSupervise \/ SupTake \/ SupEvict \/ SupEnds
    <2>1. UNCHANGED <<first, slot, lost, unreplayed, forwarded, overflow, screen, snap, sink>>
      BY <1>3 DEF OpenInsert, OpenSupervise, SupTake, SupEvict, SupEnds, Cancel, sessionVars,
         viewerVars, history
    <2>2. sup # "send"
      BY <1>3 DEF OpenInsert, OpenSupervise, SupTake, SupEvict, SupEnds, Step
    <2>3. Seen(v)' = Seen(v)
      BY <2>1, SeenKept
    <2> QED BY <2>1, <2>2, <2>3 DEF Complete, Coming
  <1>4. CASE SupForward
    <2>1. /\ UNCHANGED <<first, slot, lost, unreplayed, overflow, screen, snap, sink, chunk>>
          /\ sup = "forward" /\ sup' = "send" /\ target' = v
          /\ forwarded' = forwarded \cup {chunk}
      BY <1>1, <1>4 DEF SupForward, Step, viewerVars
    <2>2. Seen(v)' = Seen(v)
      BY <2>1, SeenKept
    <2>3. Coming(v) = {} /\ Coming(v)' = {chunk}
      BY <2>1 DEF Coming
    <2> QED BY <2>1, <2>2, <2>3 DEF Complete
  <1>5. CASE SupSend
    <2>1. /\ UNCHANGED <<first, slot, unreplayed, forwarded, overflow, screen, snap>>
          /\ sup = "send" /\ v \notin lost
          /\ target \in Viewers /\ chunk \in Chunks
      BY <1>5 DEF SupSend, sessionVars, Holding
    <2>2. forwarded \ overflow \subseteq Seen(v) \cup Coming(v)
      BY <2>1 DEF Complete
    <2>3. CASE target = v
      <3>1. <<chunk>> \in Seq(Chunks) /\ ElementsOf(<<chunk>>) = {chunk}
        BY <2>1 DEF ElementsOf
      <3>2. sink' = [sink EXCEPT ![v] = Append(sink[v], <<chunk>>)]
        BY <1>5, <2>3 DEF SupSend
      <3>3. Queued(v)' = Queued(v) \cup {chunk}
        BY <3>1, <3>2, SinkGrows
      <3>4. Coming(v) = {chunk}
        BY <2>1, <2>3 DEF Coming
      <3> QED BY <2>1, <2>2, <3>3, <3>4, SeenParts
    <2>4. CASE target # v
      <3>1. sink'[v] = sink[v]
        BY <1>5, <2>1, <2>4 DEF SupSend, TypeOK, ViewerTypeOK
      <3>2. Seen(v)' = Seen(v)
        BY <2>1, <3>1, SeenKept
      <3>3. Coming(v) = {}
        BY <2>4 DEF Coming
      <3> QED BY <2>1, <2>2, <3>2, <3>3
    <2> QED BY <2>3, <2>4
  <1> QED BY <1>2, <1>3, <1>4, <1>5 DEF Supervise

\* And so do the viewers: the first takes the buffer, and what it took goes
\* behind what it has been sent since.
LEMMA ViewerComplete ==
    ASSUME TypeOK, BufferComplete, FirstAttached, NEW w \in Viewers, ViewerStep(w),
           NEW v \in Viewers, Complete(v)
    PROVE  Complete(v)'
  <1> SUFFICES ASSUME first' = v, slot' = v, v \notin lost', v \notin unreplayed'
               PROVE  forwarded' \ overflow' \subseteq Seen(v)' \cup Coming(v)'
    BY DEF Complete
  <1>1. None # v
    BY VncAssumption
  <1>2. /\ UNCHANGED <<sup, chunk, target, forwarded, overflow, lost>>
        /\ v \notin unreplayed
        /\ Coming(v)' = Coming(v)
    BY DEF ViewerStep, Check, Attach, CancelPrev, Replay, Show, Leave, supVars, history, Coming
  <1>3. first = v /\ slot = v => forwarded \ overflow \subseteq Seen(v) \cup Coming(v)
    BY <1>2 DEF Complete
  <1>4. CASE first = v /\ slot = v /\ Seen(v) \subseteq Seen(v)'
    BY <1>2, <1>3, <1>4
  <1>5. CASE Attach(w)
    <2>1. vpc[w] = "checked"
      BY <1>5 DEF Attach, Goto
    <2>2. CASE UNCHANGED <<slot, first, snap>>
      <3>1. Seen(v)' = Seen(v)
        BY <1>5, <2>2, SeenKept DEF Attach
      <3> QED BY <1>4, <2>2, <3>1
    <2>3. CASE Registered /\ slot' = w
      <3>1. w = v /\ first = None
        BY <1>5, <2>1, <2>3 DEF Attach, FirstAttached
      <3>2. snap'[v] = buf
        BY <1>5, <2>3, <3>1 DEF Attach, TypeOK, ViewerTypeOK
      <3>3. forwarded \ overflow \subseteq ElementsOf(buf)
        BY <2>3, <3>1 DEF BufferComplete, Registered
      <3>4. ElementsOf(snap'[v]) = ElementsOf(buf)
        BY <3>2
      <3> QED BY <1>2, <3>3, <3>4, SeenParts
    <2> QED BY <1>5, <2>2, <2>3 DEF Attach, sessionVars
  <1>6. CASE Leave(w)
    <2>1. w # v /\ slot = v /\ first = v
      BY <1>1, <1>6 DEF Leave
    <2>2. Seen(v)' = Seen(v)
      BY <1>6, <2>1, SeenKept DEF Leave, TypeOK, ViewerTypeOK
    <2> QED BY <1>4, <2>1, <2>2
  <1>7. CASE Check(w) \/ CancelPrev(w)
    <2>1. UNCHANGED <<slot, first, screen, snap, sink>>
      BY <1>7 DEF Check, CancelPrev, sessionVars
    <2>2. Seen(v)' = Seen(v)
      BY <2>1, SeenKept
    <2> QED BY <1>4, <2>1, <2>2
  <1>8. CASE Replay(w) \/ Show(w)
    <2>1. slot = v /\ first = v
      BY <1>8 DEF Replay, Show, sessionVars
    <2>2. CASE w # v
      <3>1. Seen(v)' = Seen(v)
        BY <1>8, <2>2, SeenKept DEF Replay, Show, TypeOK, ViewerTypeOK
      <3> QED BY <1>4, <2>1, <3>1
    <2>3. CASE w = v /\ Show(v)
      <3>1. sink[v] # <<>> /\ sink' = [sink EXCEPT ![v] = Tail(sink[v])] /\ snap' = snap
        BY <2>3 DEF Show
      <3>2. Queued(v) = ElementsOf(Head(sink[v])) \cup Queued(v)'
        BY <3>1, SinkShrinks
      <3>3. screen'[v] = screen[v] \cup ElementsOf(Head(sink[v]))
        BY <2>3 DEF Show, TypeOK, ViewerTypeOK
      <3>4. Seen(v) \subseteq Seen(v)'
        BY <3>1, <3>2, <3>3, SeenParts
      <3> QED BY <1>4, <2>1, <3>4
    <2>4. CASE w = v /\ Replay(v)
      <3>1. screen'[v] = screen[v] /\ snap[v] \in Seq(Chunks)
        BY <2>4 DEF Replay, TypeOK, ViewerTypeOK
      <3>2. CASE snap[v] = <<>>
        <4>1. ElementsOf(snap[v]) = {}
          BY <3>2 DEF ElementsOf
        <4>2. sink' = sink
          BY <2>4, <3>2 DEF Replay
        <4>3. Queued(v)' = Queued(v)
          BY <4>2 DEF Queued, ElementsOf
        <4> QED BY <1>4, <2>1, <3>1, <4>1, <4>3, SeenParts
      <3>3. CASE snap[v] # <<>>
        <4>1. sink' = [sink EXCEPT ![v] = Append(sink[v], snap[v])]
          BY <2>4, <3>3 DEF Replay
        <4>2. Queued(v)' = Queued(v) \cup ElementsOf(snap[v])
          BY <3>1, <4>1, SinkGrows
        <4> QED BY <1>4, <2>1, <3>1, <4>2, SeenParts
      <3> QED BY <3>2, <3>3
    <2> QED BY <1>8, <2>2, <2>3, <2>4
  <1> QED BY <1>5, <1>6, <1>7, <1>8 DEF ViewerStep

-----------------------------------------------------------------------------
(* The inductive invariant and what follows from it *)

IInv ==
    /\ TypeOK /\ Holding
    /\ TargetCovered /\ GapEndsViewer
    /\ BufferComplete /\ FirstAttached
    /\ \A v \in Viewers : Complete(v)

\* The supervisor's hands are full when they must be.
LEMMA StepHolding ==
    ASSUME TypeOK, Holding, [Next]_vars
    PROVE  Holding'
  <1>1. CASE UNCHANGED supVars
    BY <1>1 DEF Holding, supVars
  <1>2. CASE Supervise
    <2>1. CASE SupTake
      BY <2>1, TailFacts DEF SupTake, Step, Holding, TypeOK, AgentTypeOK
    <2>2. CASE SupForward
      BY <2>2 DEF SupForward, Step, Holding, TypeOK, SessionTypeOK
    <2>3. CASE \/ OpenInsert \/ OpenSupervise \/ SupSend \/ SupEvict \/ SupEnds \/ SupSnatch
               \/ SupRemove
      BY <2>3 DEF OpenInsert, OpenSupervise, SupSend, SupEvict, SupEnds, SupSnatch, SupRemove,
         Step, Holding
    <2> QED BY <1>2, <2>1, <2>2, <2>3 DEF Supervise
  <1>3. ASSUME NEW v \in Viewers, ViewerStep(v) PROVE UNCHANGED supVars
    BY <1>3 DEF ViewerStep, Check, Attach, CancelPrev, Replay, Show, Leave
  <1>4. CASE AgentSends \/ AgentExits \/ ConnCloses \/ Kick
    BY <1>1, <1>4 DEF AgentSends, AgentExits, ConnCloses, Kick
  <1>5. CASE UNCHANGED vars
    BY <1>1, <1>5 DEF vars
  <1> QED BY <1>1, <1>2, <1>3, <1>4, <1>5 DEF Next, ViewerStep

\* The inductive invariant holds in every reachable state.
THEOREM Invariance == Spec => []IInv
  <1>1. Init => IInv
    <2> SUFFICES ASSUME Init PROVE IInv
      OBVIOUS
    <2>1. TypeOK
      <3>1. /\ Len(<<>>) = 0 /\ <<>> \in Seq(Chunks) /\ <<>> \in Seq(Seq(Chunks))
            /\ 0 \in 0 .. MaxChunks /\ 0 <= StdoutCap /\ 0 <= BufCap /\ 0 <= SinkCap
        BY VncAssumption
      <3>2. AgentTypeOK /\ SupTypeOK /\ SessionTypeOK
        BY <3>1 DEF Init, AgentTypeOK, SupTypeOK, SessionTypeOK
      <3>3. ViewerTypeOK
        BY <3>1 DEF Init, ViewerTypeOK
      <3>4. HistoryTypeOK
        BY DEF Init, HistoryTypeOK
      <3> QED BY <3>2, <3>3, <3>4 DEF TypeOK
    <2> QED BY <2>1, VncAssumption DEF Init, IInv, Holding, TargetCovered, GapEndsViewer,
            BufferComplete, FirstAttached, Complete
  <1>2. IInv /\ [Next]_vars => IInv'
    <2> SUFFICES ASSUME IInv, [Next]_vars PROVE IInv'
      OBVIOUS
    <2> USE DEF IInv
    <2>1. CASE Supervise
      BY <2>1, SupType, StepHolding, StepTarget, StepGap, StepBuffer, StepFirst, SupComplete
    <2>2. ASSUME NEW w \in Viewers, ViewerStep(w) PROVE IInv'
      BY <2>2, ViewerType, StepHolding, StepTarget, StepGap, StepBuffer, StepFirst, ViewerComplete
    <2>3. CASE AgentSends \/ AgentExits \/ ConnCloses \/ Kick \/ UNCHANGED vars
      <3>1. UNCHANGED <<first, slot, lost, unreplayed, forwarded, overflow, screen, snap, sink,
                        sup, chunk, target>>
        BY <2>3 DEF AgentSends, AgentExits, ConnCloses, Kick, Cancel, vars, supVars, sessionVars,
           viewerVars, history
      <3>2. ASSUME NEW v \in Viewers PROVE Complete(v)'
        <4>1. Seen(v)' = Seen(v) /\ Coming(v)' = Coming(v)
          BY <3>1, SeenKept DEF Coming
        <4> QED BY <3>1, <4>1 DEF Complete
      <3>3. TypeOK'
        BY <2>3, AgentType, TypeKept DEF vars, TypeOK
      <3> QED BY <3>2, <3>3, StepHolding, StepTarget, StepGap, StepBuffer, StepFirst
    <2> QED BY <2>1, <2>2, <2>3 DEF Next, ViewerStep
  <1> QED BY <1>1, <1>2, PTL DEF Spec

\* The variables keep their types, and no channel, sink or buffer holds more
\* than its capacity.
THEOREM TypeCorrect == Spec => []TypeOK
  <1>1. IInv => TypeOK
    BY DEF IInv
  <1> QED BY <1>1, Invariance, PTL

\* The first viewer misses nothing of the handshake, whenever it attaches.
THEOREM HandshakeArrives == Spec => []HandshakeComplete
  <1>1. IInv => HandshakeComplete
    BY DEF IInv, Complete, HandshakeComplete
  <1> QED BY <1>1, Invariance, PTL

\* No viewer goes on after the supervisor could not send it a chunk, whoever
\* replaces it meanwhile.
THEOREM NoGapGoesOn == Spec => []GapEndsViewer
  <1>1. IInv => GapEndsViewer
    BY DEF IInv
  <1> QED BY <1>1, Invariance, PTL
=============================================================================
