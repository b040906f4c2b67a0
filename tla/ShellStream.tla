----------------------------- MODULE ShellStream -----------------------------
(***************************************************************************)
(* The output of one shell run: from the agent through the supervisor into *)
(* the backscroll and to the browser that is attached, and the replay to a *)
(* browser that attaches while output is flowing.  Bytes are numbered in   *)
(* the order the agent sends them.  ShellSessions has the life of the run  *)
(* and of its bridges.                                                     *)
(***************************************************************************)
EXTENDS ByteRing

CONSTANTS Bridges,    \* browsers that attach, each WebSocket once
          StdoutCap,  \* capacity of the supervisor's channel (256)
          SinkCap,    \* capacity of a bridge's stdoutSink (256)
          MaxBytes,   \* bound: bytes the agent sends
          MaxChunk,   \* bound: bytes in one of its frames
          None

ASSUME StreamAssumption ==
    /\ Bytes = 1 .. MaxBytes
    /\ {StdoutCap, SinkCap, MaxBytes, MaxChunk} \subseteq Nat \ {0}
    /\ None \notin Bridges

VARIABLES sent,      \* bytes the agent has sent (external)
          stdoutCh,  \* frames the read pump has put in the supervisor's channel
          sup,       \* the supervisor
          chunk,     \* the frame it handles
          target,    \* the bridge whose sink it sends to
          present,   \* the session is in the registry
          bridge,    \* the session's bridge
          ws,        \* the WebSocket handlers
          snap,      \* what each has taken from the backscroll
          sink,      \* their stdoutSinks
          screen,    \* history: the bytes on the screen of each browser
          lost       \* history: bridges whose full sink cost them a chunk

agentVars == <<sent, stdoutCh>>
supVars == <<sup, chunk, target>>
wsVars == <<ws, snap, screen>>
vars == <<ringVars, agentVars, supVars, present, bridge, wsVars, sink, lost>>

Chunks == Seq(Bytes)

TypeOK ==
    /\ RingTypeOK
    /\ sent \in 0 .. MaxBytes
    /\ stdoutCh \in Seq(Chunks) /\ Len(stdoutCh) <= StdoutCap
    /\ sup \in {"select", "write", "pick", "send", "snatched", "over"}
    /\ chunk \in Chunks
    /\ target \in Bridges \cup {None}
    /\ present \in BOOLEAN
    /\ bridge \in Bridges \cup {None}
    /\ ws \in [Bridges -> {"new", "checked", "attached", "replaying", "live", "gone"}]
    /\ snap \in [Bridges -> Chunks]
    /\ sink \in [Bridges -> Seq(Chunks)]
    /\ \A b \in Bridges : Len(sink[b]) <= SinkCap
    /\ screen \in [Bridges -> SUBSET Bytes]
    /\ lost \subseteq Bridges

\* The session has just been inserted and its supervisor started.
Init ==
    /\ RingInit
    /\ sent = 0
    /\ stdoutCh = <<>>
    /\ sup = "select"
    /\ chunk = <<>>
    /\ target = None
    /\ present = TRUE
    /\ bridge = None
    /\ ws = [b \in Bridges |-> "new"]
    /\ snap = [b \in Bridges |-> <<>>]
    /\ sink = [b \in Bridges |-> <<>>]
    /\ screen = [b \in Bridges |-> {}]
    /\ lost = {}

-----------------------------------------------------------------------------
(* The agent and the supervisor *)

\* deliverSkillStdout: a frame that finds the channel full is dropped.
AgentSends(n) ==
    /\ sup # "over"
    /\ sent + n <= MaxBytes
    /\ sent' = sent + n
    /\ stdoutCh' = IF Len(stdoutCh) < StdoutCap
                   THEN Append(stdoutCh, [i \in 1 .. n |-> sent + i])
                   ELSE stdoutCh
    /\ UNCHANGED <<ringVars, supVars, present, bridge, wsVars, sink, lost>>

SupTake ==
    /\ sup = "select" /\ stdoutCh # <<>>
    /\ sup' = "write"
    /\ chunk' = Head(stdoutCh)
    /\ stdoutCh' = Tail(stdoutCh)
    /\ UNCHANGED <<ringVars, sent, target, present, bridge, wsVars, sink, lost>>

\* The backscroll first ...
SupWrite ==
    /\ sup = "write"
    /\ sup' = "pick"
    /\ Write(chunk)
    /\ UNCHANGED <<agentVars, chunk, target, present, bridge, wsVars, sink, lost>>

\* ... then forwardStdout, which reads the bridge under the registry's mutex ...
SupPick ==
    /\ sup = "pick"
    /\ IF bridge = None
       THEN sup' = "select" /\ chunk' = <<>> /\ UNCHANGED target
       ELSE sup' = "send" /\ target' = bridge /\ UNCHANGED chunk
    /\ UNCHANGED <<ringVars, agentVars, present, bridge, wsVars, sink, lost>>

\* Mutant of Post: the sink has no capacity.
PostUnbounded(b, c) ==
    /\ sink' = [sink EXCEPT ![b] = Append(@, c)]
    /\ UNCHANGED lost

\* A non-blocking send to a bridge's sink.
Post(b, c) ==
    IF Len(sink[b]) < SinkCap
    THEN sink' = [sink EXCEPT ![b] = Append(@, c)] /\ UNCHANGED lost
    ELSE lost' = lost \cup {b} /\ UNCHANGED sink

\* ... and sends after releasing it.
SupSend ==
    /\ sup = "send"
    /\ sup' = "select"
    /\ Post(target, chunk)
    /\ chunk' = <<>> /\ target' = None
    /\ UNCHANGED <<ringVars, agentVars, present, bridge, wsVars>>

\* An exit event or the loss of the agent, which select may prefer to output
\* that is waiting: the bridge is snatched (and told to leave) ...
SupSnatch ==
    /\ sup = "select"
    /\ sup' = "snatched"
    /\ bridge' = None
    /\ UNCHANGED <<ringVars, agentVars, chunk, target, present, wsVars, sink, lost>>

\* ... and the session removed, with the bridge that attached in between; the
\* channel is untracked, and what is in it lost.
SupRemove ==
    /\ sup = "snatched"
    /\ sup' = "over"
    /\ present' = FALSE
    /\ bridge' = None
    /\ stdoutCh' = <<>>
    /\ UNCHANGED <<ringVars, sent, chunk, target, wsVars, sink, lost>>

Supervise == SupTake \/ SupWrite \/ SupPick \/ SupSend

-----------------------------------------------------------------------------
(* handleHostShellWS *)

Goto(b, from, to) == ws[b] = from /\ ws' = [ws EXCEPT ![b] = to]

Check(b) ==
    /\ present
    /\ Goto(b, "new", "checked")
    /\ UNCHANGED <<ringVars, agentVars, supVars, present, bridge, snap, screen, sink, lost>>

\* Mutant of Attach: the snapshot is taken before the bridge is installed.
AttachAfterSnapshot(b) ==
    /\ IF snap[b] = <<>> /\ size > 0
       THEN /\ ws[b] = "checked"
            /\ snap' = [snap EXCEPT ![b] = Snapshot]
            /\ UNCHANGED <<ws, bridge>>
       ELSE /\ Goto(b, "checked", "replaying")
            /\ bridge' = IF present THEN b ELSE bridge
            /\ UNCHANGED snap
    /\ UNCHANGED <<ringVars, agentVars, supVars, present, screen, sink, lost>>

\* attachBridge: the last writer wins; the bridge it replaces is cancelled and
\* leaves, like a browser that hangs up, whenever its loop notices.
Attach(b) ==
    /\ Goto(b, "checked", "attached")
    /\ bridge' = IF present THEN b ELSE bridge
    /\ UNCHANGED <<ringVars, agentVars, supVars, present, snap, screen, sink, lost>>

TakeSnapshot(b) ==
    /\ Goto(b, "attached", "replaying")
    /\ snap' = [snap EXCEPT ![b] = IF present THEN Snapshot ELSE <<>>]
    /\ UNCHANGED <<ringVars, agentVars, supVars, present, bridge, screen, sink, lost>>

\* Mutant of Replay: the browser goes live without it.
ReplaySkipped(b) ==
    /\ Goto(b, "replaying", "live")
    /\ UNCHANGED <<ringVars, agentVars, supVars, present, bridge, snap, screen, sink, lost>>

\* The replay takes its place behind whatever the supervisor has sent since the
\* bridge was installed.
Replay(b) ==
    /\ Goto(b, "replaying", "live")
    /\ IF snap[b] # <<>> THEN Post(b, snap[b]) ELSE UNCHANGED <<sink, lost>>
    /\ snap' = [snap EXCEPT ![b] = <<>>]
    /\ UNCHANGED <<ringVars, agentVars, supVars, present, bridge, screen>>

ElementsOf(s) == {s[i] : i \in DOMAIN s}

\* The loop writes a chunk to the browser.
Show(b) ==
    /\ ws[b] = "live"
    /\ sink[b] # <<>>
    /\ screen' = [screen EXCEPT ![b] = @ \cup ElementsOf(Head(sink[b]))]
    /\ sink' = [sink EXCEPT ![b] = Tail(@)]
    /\ UNCHANGED <<ringVars, agentVars, supVars, present, bridge, ws, snap, lost>>

\* The browser hangs up, a write fails, the bridge is cancelled, the exit event
\* arrives or the agent's connection closes; detachBridge.  Nobody reads its
\* sink any more.
Leave(b) ==
    /\ Goto(b, "live", "gone")
    /\ bridge' = IF bridge = b THEN None ELSE bridge
    /\ screen' = [screen EXCEPT ![b] = {}]
    /\ sink' = [sink EXCEPT ![b] = <<>>]
    /\ UNCHANGED <<ringVars, agentVars, supVars, present, snap, lost>>

-----------------------------------------------------------------------------

Next ==
    \/ \E n \in 1 .. MaxChunk : AgentSends(n)
    \/ Supervise \/ SupSnatch \/ SupRemove
    \/ \E b \in Bridges : \/ Check(b) \/ Attach(b) \/ TakeSnapshot(b) \/ Replay(b)
                          \/ Show(b) \/ Leave(b)

Spec == Init /\ [][Next]_vars

\* The supervisor finishes what it has taken; a browser's loop writes what is
\* in its sink, or leaves.
Fairness ==
    /\ WF_vars(Supervise)
    /\ \A b \in Bridges : WF_vars(Show(b))

FairSpec == Spec /\ Fairness

-----------------------------------------------------------------------------
(* Properties *)

BytesIn(q) == UNION {ElementsOf(q[i]) : i \in DOMAIN q}

\* What a browser has been or will be sent.
Seen(b) == screen[b] \cup BytesIn(sink[b])

\* What the supervisor is still going to send to b: the pick is to come, or made.
Coming(b) == IF sup = "pick" \/ (sup = "send" /\ target = b) THEN ElementsOf(chunk) ELSE {}

\* A browser that attaches in the middle of the output misses none of it: the
\* backscroll has it, its sink got it, or the supervisor is about to send it.
\* The order of the two writes of the supervisor and of the two reads of the
\* handler matters for that.  Only a full sink costs output.
NothingMissed ==
    \A b \in Bridges :
        bridge = b /\ ws[b] = "live" /\ b \notin lost =>
            ElementsOf(Snapshot) \subseteq Seen(b) \cup Coming(b)

\* Recent output reaches the attached browser, unless its sink is full or it
\* leaves, is replaced, or the session ends.
RecentOutputIsShown ==
    \A b \in Bridges, n \in Bytes :
        bridge = b /\ ws[b] = "live" /\ n \in ElementsOf(Snapshot)
            ~> n \in screen[b] \/ b \in lost \/ bridge # b
=============================================================================
