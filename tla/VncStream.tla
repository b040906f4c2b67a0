----------------------------- MODULE VncStream ------------------------------
(***************************************************************************)
(* One VNC run: what the agent's TCP relay sends goes through the          *)
(* supervisor to the viewer attached last.  A screen's bytes cannot be     *)
(* skipped: what is sent before the first viewer attaches is kept for it,  *)
(* and a viewer that does not keep up is cancelled.  The run starts here   *)
(* when its channels are tracked and skill.start is sent; the handler's    *)
(* steps before that are those of ShellSessions.  Chunks are numbered.     *)
(***************************************************************************)
EXTENDS Naturals, Sequences

CONSTANTS Viewers,
          StdoutCap,   \* capacity of the supervisor's channel (256)
          SinkCap,     \* capacity of a bridge's stdoutSink (512)
          BufCap,      \* chunks that fit in the handshake buffer (16 KiB)
          MaxChunks,   \* bound: chunks the agent sends
          None

ASSUME VncAssumption ==
    /\ {StdoutCap, SinkCap, BufCap, MaxChunks} \subseteq Nat \ {0}
    /\ None \notin Viewers

VARIABLES sent,         \* chunks the agent has sent (external)
          exit,         \* an exit event is in the event channel
          closed,       \* the agent's connection is closed
          stdoutCh,
          sup,          \* the open handler up to the insert, then the supervisor
          chunk,        \* the chunk it forwards
          target        \* the bridge whose sink it sends to
VARIABLES slot,         \* vncSession.bridge
          first,        \* the viewer that attached first: bridgeAttached is first # None
          buf           \* vncSession.handshakeBuf
VARIABLES vpc,          \* the WebSocket handlers
          prev, snap,   \* what attachBridge returned to each
          sink, cancelled,
          told,         \* viewers whose eventSink holds the exit event
          screen        \* history: the chunks each browser was sent
VARIABLES forwarded,    \* history: chunks forwardStdout was called with
          overflow,     \* history: chunks that the full handshake buffer overwrote
          unreplayed,   \* history: viewers whose replay found a full sink
          lost          \* history: viewers whose full sink cost them a chunk

agentVars == <<sent, exit, closed, stdoutCh>>
supVars == <<sup, chunk, target>>
sessionVars == <<slot, first, buf>>
viewerVars == <<vpc, prev, snap, sink, cancelled, told, screen>>
history == <<forwarded, overflow, unreplayed, lost>>
vars == <<agentVars, supVars, sessionVars, viewerVars, history>>

Chunks == 1 .. MaxChunks

AgentTypeOK ==
    /\ sent \in 0 .. MaxChunks
    /\ exit \in BOOLEAN /\ closed \in BOOLEAN
    /\ stdoutCh \in Seq(Chunks) /\ Len(stdoutCh) <= StdoutCap

SupTypeOK ==
    /\ sup \in {"dispatched", "inserted", "select", "forward", "send", "evict", "snatch",
                "remove", "done", "refused"}
    /\ chunk \in 0 .. MaxChunks
    /\ target \in Viewers \cup {None}

SessionTypeOK ==
    /\ slot \in Viewers \cup {None}
    /\ first \in Viewers \cup {None}
    /\ buf \in Seq(Chunks) /\ Len(buf) <= BufCap

ViewerTypeOK ==
    /\ vpc \in [Viewers -> {"new", "checked", "attached", "replaying", "live", "gone"}]
    /\ prev \in [Viewers -> Viewers \cup {None}]
    /\ snap \in [Viewers -> Seq(Chunks)]
    /\ sink \in [Viewers -> Seq(Seq(Chunks))]
    /\ \A v \in Viewers : Len(sink[v]) <= SinkCap
    /\ screen \in [Viewers -> SUBSET Chunks]
    /\ cancelled \subseteq Viewers /\ told \subseteq Viewers

HistoryTypeOK ==
    /\ forwarded \subseteq Chunks /\ overflow \subseteq Chunks
    /\ unreplayed \subseteq Viewers /\ lost \subseteq Viewers

TypeOK == AgentTypeOK /\ SupTypeOK /\ SessionTypeOK /\ ViewerTypeOK /\ HistoryTypeOK

Init ==
    /\ sent = 0 /\ exit = FALSE /\ closed = FALSE /\ stdoutCh = <<>>
    /\ sup = "dispatched" /\ chunk = 0 /\ target = None
    /\ slot = None /\ first = None /\ buf = <<>>
    /\ vpc = [v \in Viewers |-> "new"]
    /\ prev = [v \in Viewers |-> None]
    /\ snap = [v \in Viewers |-> <<>>]
    /\ sink = [v \in Viewers |-> <<>>]
    /\ screen = [v \in Viewers |-> {}]
    /\ cancelled = {} /\ told = {}
    /\ forwarded = {} /\ overflow = {} /\ unreplayed = {} /\ lost = {}

-----------------------------------------------------------------------------
(* The agent *)

\* deliverSkillStdout: a chunk that finds the channel full, or the run
\* untracked, is dropped.
AgentSends ==
    /\ sent < MaxChunks
    /\ sent' = sent + 1
    /\ stdoutCh' = IF sup \notin {"done", "refused"} /\ Len(stdoutCh) < StdoutCap
                   THEN Append(stdoutCh, sent + 1)
                   ELSE stdoutCh
    /\ UNCHANGED <<exit, closed, supVars, sessionVars, viewerVars, history>>

\* The relay ends by itself or is told to; an exit event that the event
\* channel drops is one that does not come.
AgentExits ==
    /\ ~ exit /\ exit' = TRUE
    /\ UNCHANGED <<sent, closed, stdoutCh, supVars, sessionVars, viewerVars, history>>

\* A browser's handler looks the host's connection up again and may watch another
\* than the run's; here both are one.
ConnCloses ==
    /\ ~ closed /\ closed' = TRUE
    /\ UNCHANGED <<sent, exit, stdoutCh, supVars, sessionVars, viewerVars, history>>

-----------------------------------------------------------------------------
(* handleHostVNCOpen after the dispatch, and runVNCSupervisor *)

Step(from, to) == sup = from /\ sup' = to

\* The caps, checked by insert, are ShellSessions!CapsHold's: 2 per host here.
OpenInsert ==
    /\ \/ Step("dispatched", "inserted") /\ UNCHANGED stdoutCh
       \/ Step("dispatched", "refused") /\ stdoutCh' = <<>>
    /\ UNCHANGED <<sent, exit, closed, chunk, target, sessionVars, viewerVars, history>>

OpenSupervise ==
    /\ Step("inserted", "select")
    /\ UNCHANGED <<agentVars, chunk, target, sessionVars, viewerVars, history>>

Registered == sup \notin {"dispatched", "refused", "done"}

SupTake ==
    /\ stdoutCh # <<>>
    /\ Step("select", "forward")
    /\ chunk' = Head(stdoutCh)
    /\ stdoutCh' = Tail(stdoutCh)
    /\ UNCHANGED <<sent, exit, closed, target, sessionVars, viewerVars, history>>

\* Mutant of Capture: a buffer without a bound.
CaptureAll(n) == buf' = Append(buf, n) /\ UNCHANGED overflow

\* The ring keeps the newest (ByteRing).
Capture(n) ==
    IF Len(buf) < BufCap
    THEN buf' = Append(buf, n) /\ UNCHANGED overflow
    ELSE buf' = Append(Tail(buf), n) /\ overflow' = overflow \cup {Head(buf)}

\* forwardStdout under the mutex: kept until a first viewer attaches, and sent
\* to the bridge there is ...
SupForward ==
    /\ IF first = None THEN Capture(chunk) ELSE UNCHANGED <<buf, overflow>>
    /\ IF slot = None
       THEN Step("forward", "select") /\ chunk' = 0 /\ UNCHANGED target
       ELSE Step("forward", "send") /\ target' = slot /\ UNCHANGED chunk
    /\ forwarded' = forwarded \cup {chunk}
    /\ UNCHANGED <<agentVars, slot, first, viewerVars, unreplayed, lost>>

\* Mutant of SupSend: what does not fit is dropped, as the shell's is.
SupSendDrops ==
    /\ Step("send", "select")
    /\ IF Len(sink[target]) < SinkCap
       THEN sink' = [sink EXCEPT ![target] = Append(@, <<chunk>>)] /\ UNCHANGED lost
       ELSE lost' = lost \cup {target} /\ UNCHANGED sink
    /\ chunk' = 0 /\ target' = None
    /\ UNCHANGED <<agentVars, sessionVars, vpc, prev, snap, cancelled, told, screen, forwarded,
                   overflow, unreplayed>>

\* ... after the mutex is released; a full sink leads to an eviction.
SupSend ==
    /\ sup = "send"
    /\ IF Len(sink[target]) < SinkCap
       THEN /\ sup' = "select"
            /\ sink' = [sink EXCEPT ![target] = Append(@, <<chunk>>)]
            /\ UNCHANGED lost
       ELSE /\ sup' = "evict"
            /\ lost' = lost \cup {target}
            /\ UNCHANGED sink
    /\ chunk' = 0 /\ target' = None
    /\ UNCHANGED <<agentVars, sessionVars, vpc, prev, snap, cancelled, told, screen, forwarded,
                   overflow, unreplayed>>

\* The bridges' cancel functions; a viewer notices in its loop (Stopped).
Cancel(V) == cancelled' = cancelled \cup (V \ {None})

\* The bridge there is by now is cancelled.
SupEvict ==
    /\ Step("evict", "select")
    /\ Cancel({slot})
    /\ UNCHANGED <<agentVars, chunk, target, sessionVars, vpc, prev, snap, sink, told, screen,
                   history>>

\* The exit event, or the connection: forwardEvent, which a full eventSink
\* drops, and the row.
SupEnds ==
    /\ Step("select", "snatch")
    /\ \/ exit /\ told' \in {told, told \cup ({slot} \ {None})}
       \/ closed /\ UNCHANGED told
    /\ UNCHANGED <<agentVars, chunk, target, sessionVars, vpc, prev, snap, sink, cancelled,
                   screen, history>>

SupSnatch ==
    /\ Step("snatch", "remove")
    /\ Cancel({slot})
    /\ slot' = None
    /\ UNCHANGED <<agentVars, chunk, target, first, buf, vpc, prev, snap, sink, told, screen,
                   history>>

\* remove, and the channels untracked.
SupRemove ==
    /\ Step("remove", "done")
    /\ slot' = None /\ buf' = <<>>
    /\ stdoutCh' = <<>>
    /\ UNCHANGED <<sent, exit, closed, chunk, target, first, viewerVars, history>>

Supervise ==
    \/ OpenInsert \/ OpenSupervise \/ SupTake \/ SupForward \/ SupSend \/ SupEvict \/ SupEnds
    \/ SupSnatch \/ SupRemove

-----------------------------------------------------------------------------
(* handleHostVNCWS *)

Goto(v, from, to) == vpc[v] = from /\ vpc' = [vpc EXCEPT ![v] = to]

Check(v) ==
    /\ Registered
    /\ Goto(v, "new", "checked")
    /\ UNCHANGED <<agentVars, supVars, sessionVars, prev, snap, sink, cancelled, told, screen,
                   history>>

\* Mutant of Attach: the handshake read first, the bridge installed under
\* the mutex later, as the shell's handler has it the other way round.
AttachAfterSnapshot(v) ==
    /\ vpc[v] = "checked"
    /\ \/ /\ snap[v] = <<>> /\ buf # <<>> /\ Registered /\ first = None
          /\ snap' = [snap EXCEPT ![v] = buf]
          /\ UNCHANGED <<vpc, sessionVars, prev>>
       \/ /\ snap[v] # <<>> \/ buf = <<>> \/ first # None
          /\ Goto(v, "checked", "attached")
          /\ slot' = v /\ first' = (IF first = None THEN v ELSE first) /\ buf' = <<>>
          /\ prev' = [prev EXCEPT ![v] = slot]
          /\ UNCHANGED snap
    /\ UNCHANGED <<agentVars, supVars, sink, cancelled, told, screen, history>>

\* attachBridge, one critical section: the bridge is installed, and the first
\* viewer takes the handshake with it.
Attach(v) ==
    /\ Goto(v, "checked", "attached")
    /\ IF Registered
       THEN /\ slot' = v
            /\ prev' = [prev EXCEPT ![v] = slot]
            /\ IF first = None
               THEN first' = v /\ snap' = [snap EXCEPT ![v] = buf] /\ buf' = <<>>
               ELSE UNCHANGED <<first, snap, buf>>
       ELSE UNCHANGED <<sessionVars, prev, snap>>
    /\ UNCHANGED <<agentVars, supVars, sink, cancelled, told, screen, history>>

\* Mutant of CancelPrev: the replaced viewer is left to itself.
CancelPrevNot(v) ==
    /\ Goto(v, "attached", "replaying")
    /\ prev' = [prev EXCEPT ![v] = None]
    /\ UNCHANGED <<agentVars, supVars, sessionVars, snap, sink, cancelled, told, screen, history>>

CancelPrev(v) ==
    /\ Goto(v, "attached", "replaying")
    /\ Cancel({prev[v]})
    /\ prev' = [prev EXCEPT ![v] = None]
    /\ UNCHANGED <<agentVars, supVars, sessionVars, snap, sink, told, screen, history>>

\* The handshake takes its place behind what the supervisor has sent since
\* Attach; a full sink drops it.
Replay(v) ==
    /\ Goto(v, "replaying", "live")
    /\ CASE snap[v] = <<>> -> UNCHANGED <<sink, unreplayed>>
         [] snap[v] # <<>> /\ Len(sink[v]) < SinkCap ->
               sink' = [sink EXCEPT ![v] = Append(@, snap[v])] /\ UNCHANGED unreplayed
         [] OTHER -> unreplayed' = unreplayed \cup {v} /\ UNCHANGED sink
    /\ snap' = [snap EXCEPT ![v] = <<>>]
    /\ UNCHANGED <<agentVars, supVars, sessionVars, prev, cancelled, told, screen, forwarded,
                   overflow, lost>>

ElementsOf(s) == {s[i] : i \in DOMAIN s}

Show(v) ==
    /\ vpc[v] = "live" /\ sink[v] # <<>>
    /\ screen' = [screen EXCEPT ![v] = @ \cup ElementsOf(Head(sink[v]))]
    /\ sink' = [sink EXCEPT ![v] = Tail(@)]
    /\ UNCHANGED <<agentVars, supVars, sessionVars, vpc, prev, snap, cancelled, told, history>>

\* The deferred detachBridge and cancel.  Nobody reads the sink any more; what
\* the browser was shown is forgotten to keep the state space small.
Leave(v) ==
    /\ Goto(v, "live", "gone")
    /\ slot' = IF slot = v THEN None ELSE slot
    /\ sink' = [sink EXCEPT ![v] = <<>>]
    /\ screen' = [screen EXCEPT ![v] = {}]
    /\ UNCHANGED <<agentVars, supVars, first, buf, prev, snap, cancelled, told, history>>

Stopped(v) == (v \in cancelled \cup told \/ closed) /\ Leave(v)

\* registry.kick, whenever an operator likes: it reads the bridge after the
\* unlock.  The stop frame leads to AgentExits.
Kick ==
    /\ Registered /\ slot \notin cancelled \cup {None}
    /\ Cancel({slot})
    /\ UNCHANGED <<agentVars, supVars, sessionVars, vpc, prev, snap, sink, told, screen, history>>

-----------------------------------------------------------------------------

Next ==
    \/ AgentSends \/ AgentExits \/ ConnCloses \/ Supervise \/ Kick
    \/ \E v \in Viewers : \/ Check(v) \/ Attach(v) \/ CancelPrev(v) \/ Replay(v)
                          \/ Show(v) \/ Leave(v)

Spec == Init /\ [][Next]_vars

\* The supervisor and the handlers run; a select whose way out stays ready
\* takes it.
Fairness ==
    /\ WF_vars(Supervise)
    /\ \A v \in Viewers : WF_vars(Attach(v) \/ CancelPrev(v) \/ Replay(v)) /\ WF_vars(Stopped(v))

FairSpec == Spec /\ Fairness

-----------------------------------------------------------------------------
(* Properties *)

Seen(v) == screen[v] \cup ElementsOf(snap[v]) \cup UNION {ElementsOf(q) : q \in ElementsOf(sink[v])}

Coming(v) == IF sup = "send" /\ target = v THEN {chunk} ELSE {}

\* "saves the RFB handshake bytes from the race window": however the relay's
\* first bytes and the first viewer's attachment interleave, each chunk is
\* replayed to it or sent to it live.
HandshakeComplete ==
    \A v \in Viewers :
        first = v /\ slot = v /\ v \notin lost \cup unreplayed =>
            forwarded \ overflow \subseteq Seen(v) \cup Coming(v)

\* "evict the bridge so the browser reconnects": a viewer that lost a chunk because
\* its sink was full when the supervisor sent it has been cancelled, or the
\* supervisor or the viewer that replaced it is about to do so.  A chunk that the
\* read pump drops, or a replay that finds the sink full, cancels nobody.
GapEndsViewer ==
    \A v \in lost :
        vpc[v] # "gone" =>
            \/ v \in cancelled
            \/ sup = "evict" /\ slot = v
            \/ \E w \in Viewers : vpc[w] = "attached" /\ prev[w] = v

\* A viewer that the supervisor could not send a chunk, was replaced or was kicked lets go of the run.
EvictedViewerLeaves ==
    \A v \in Viewers : v \in lost \cup cancelled ~> vpc[v] = "gone"
=============================================================================
