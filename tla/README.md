# hosts-svc: specifications, model checks and proofs

`hosts-svc` (Go, `src/cmd/hosts-svc`, `src/internal/hosts`) is the part of Polar
that knows the machines of a workspace. Agents on those machines keep one
WebSocket each open to it; dock and bots call tools and chats through that
connection; operators open shells and VNC screens over it from a browser; and
PostgreSQL holds hosts, agents, tokens, skills and runs. Dock, a separate
service, owns the canonical agents and tokens.

This directory has TLA+ modules of the parts where goroutines, connections and
the two databases meet, TLC configurations that check them on small instances,
and TLAPS proofs for all instances. Paths without a directory are in
`src/internal/hosts`.

## 1. Inventory

| Component | State | Operations | Hard part | What makes it correct |
|---|---|---|---|---|
| **Agent hub** `agent_hub.go`, `agent_ws_handlers.go`, `agent_phase4b.go` | `byToken`, `byBot`; per connection: close channel, send buffer, two pumps | register, unregister, lookups, kick, disconnect, host deletion's kick | a token that reconnects while its old connection is being kicked and cleaned up; five places close one channel | the newest connection of a token is the one found; no two open ones; the bot index never leads to a dead one |
| **Tool and chat calls** `agent_hub.go` 97-379, `agent_dispatch_handlers.go` | `pending`, `chatPending`: call id → channel of capacity one | dispatch tool, chat, frame; deliver a result | results that come late, twice or under a reused id, delivered outside the mutex by the goroutine that reads everything | the read pump never blocks; a waiting call can be answered; nothing is leaked but what is known to be; every call returns |
| **Shell runs** `host_shell_*.go`, `host_skill_runs_store.go` | the registry's maps and session slots; per run: row, two channels, supervisor goroutine; per browser: bridge | open, supervise, attach, replace, detach, kick, list | an open has eight steps with unlocks, an INSERT and a dispatch between them; the supervisor, bridges and kicks race at the end of a run | caps hold; a session has a supervisor until it is removed; a row is finalized once and before removal; nothing stays behind; the last browser to attach wins |
| **Backscroll and stream** `host_shell_backscroll.go`, `forwardStdout`, the WS handler's replay | ring buffer with start and count; sinks | write, snapshot, forward, replay | index arithmetic; output that flows while a browser attaches | the ring is the tail of the output; an attached browser misses nothing unless its sink was full |
| **VNC runs** `host_vnc_*.go` | like the shell's, plus the cached handshake | open, supervise, attach, evict, kick | a slow viewer is cancelled instead of losing bytes | the first viewer gets the whole handshake; no viewer goes on after the supervisor could not send it a chunk; a cancelled one leaves |
| **Enrollment, hosts, agents** `hosts_store.go`, `host_handlers.go`, `internal_enroll.go`, `internal_delete.go` | tables `agent_tokens`, `hosts`, `agents`; dock's tables | enroll, register, delete (two ways), rename, touch, hello | no transaction spans the statements, and a call of dock sits among them | a ticket is burned by success only; the stores agree; a 201 means that the rows are there |
| **Agent links** `agent_phase4b.go` 82-119 | `agents.agent_token_id`, `agentConn.hostID` | resolve, heal | dock and hosts-svc give different ids to one token; what a fallback guessed is written down | a connection is given its own host or none, unless another machine was registered under its identity |
| **Skills, credentials** `hosts_store.go` 633-796, `host_skill_credentials_*.go`, `skill_catalog_*.go` | `host_skills`, `host_skill_credentials` (AES-GCM or plain), `skill_catalog` | advertise, rename; put, list, fetch, delete; create, retire | a host is deleted and comes back in another workspace while a request is between its checks; the key changes with the process | a granted request stays with the skill's host and in its workspace; an operator's name stays; a stored value is fetched back or refused |
| **Console layouts** `console_layouts_*.go` | one row per layout | CRUD | panes name skills that no foreign key keeps | a pane opens the skill it was saved for or none |
| **Topology** `topology.go` | none | `buildTopology` | classes of interfaces, conflicts and votes among hosts' reports | each host is on its tabs, conflicts are real, and the order of rows and of Go's maps does not show |
| **Authentication, wiring** `auth.go`, `plugin.go`, `main.go` | configuration | middleware, routes | none that outlives a request | - |
| **Browser UI, scripts** `src/ui`, `src/scripts` | - | - | the environment of the above | - |

How they interact: a *shell run* takes the connection that the *hub* finds for
the host and writes its start frame into that connection's send buffer; the
connection's read pump puts events and output into the channels the run has
*tracked* on it; the run's supervisor reads those and `conn.close`, writes the
*row*, and forwards to the *bridge* in the registry. *Calls* use the same
connection and read pump with channels of their own. *Enrollment* makes the rows
that the hub resolves a connecting agent's host from, and a host's deletion
closes a connection. *Skills* are the rows of what a connection advertises for
the host it was given; admins' requests, dock's bots and *layouts* name them by id.

The hazards behind this table are in `PROJECT.json`, each at its line.

## 2. Modules

    AgentLink  <--implements--  AgentHub            AgentHub_proofs
       ^  ^
       |  +---- AgentCalls                          AgentCalls_proofs
       +------- ShellSessions --implements--> ShellRuns    ShellSessions_proofs
    ByteRing <- ShellStream                         ShellStream_proofs
    VncStream                                       VncStream_proofs
    Tables <- Enrollment                            Enrollment_proofs
    Tables <- HostLinks <- HostSkills               HostSkills_proofs
    Tables <- Topology                              Topology_proofs
    HostSkills, Topology <- HostMap

**AgentLink** is the abstract specification: a connection is new, up (its read
pump runs) or down, is or is not in the hub, and its close channel is or is not
closed; `LinkFairness` says that a connection that has left the hub gets closed.
AgentCalls and ShellSessions EXTEND it and never look inside the hub.

**AgentHub** is `agentHub` and the handler of one WebSocket as a process: the
request's look-ups, `register`, the `close` of the displaced connection,
`runAgentReadPump` until the read fails, its defer (`unregister`, then the
guarded close), the write pump that ends when the channel is closed, and the two
endpoints that find a connection, test its channel and close it in two steps.
A close of a channel that is closed already panics; net/http recovers and the
connection stays as it is (`DisplacePanics`, "zombie"). Connections are
constants with fixed token, bot, agent and host.

**AgentCalls** is one goroutine per dispatch: look up, track, send (or time out, or
see the close), wait for result, close or timer, `delete` the entry after a
timeout. The read pump takes an entry out under the mutex (`ReadResult`) and
sends on its channel afterwards (`Deliver`). The ids of chats are keys of a map of
their own (`Request`). `Call(x)` with kind "frame" is
`dispatchFrame`, which waits for nothing. The agent answers a request it has
received at most `MaxAnswers` times, whenever it likes.

**ShellSessions** has a process per open request (`OpenReserve` ... `OpenAnswer`,
with the check, the INSERT, the tracking, the dispatch, `insert` with its own cap
check, and the way out of each failure), one per supervisor (`SupervisorClosed`,
states, output, exit; then finalize, snatch, remove, untrack), one per browser
(route, attach, evict the previous one, live, detach) and one per kick (find,
sever, look the connection up, dispatch "stop"). A channel that is written with select/default drops what does
not fit. Bytes are counted only. **ShellRuns** is what the registry promises, as an
abstract specification with two variables: a run is asked for (`reserve`),
admitted if both caps have room at that moment (`insert`), given up, or ended
(`remove`). `ImplementsRuns` maps `byRun` and the program counter of the open handler
to a run's life.

**ShellStream** is the same session seen as data: numbered bytes go from the
agent into the supervisor's channel, into the ring and, after the registry is
asked for the bridge, into that bridge's sink; a browser checks, attaches, takes
the snapshot, queues the replay into its own sink and then shows what the sink has. **ByteRing** is
`shellBackscroll`: `start`, `count` and the buffer, the two-part copy of `write`
with its wrap, and `snapshot`; `all` is a history variable, the output so far.

**VncStream** is one VNC run from the tracking of its channels on. The open
handler's `insert` and the supervisor are one program counter (`sup`), since the
second is started by the first; `forwardStdout` is cut where it releases the
mutex: capture and look-up (`SupForward`), the send (`SupSend`), and after a full
sink the second look-up (`SupEvict`), which may cancel a viewer that has
replaced the slow one meanwhile. Each viewer's handler checks, attaches (and takes the
handshake in the same critical section, unlike the shell's), cancels the one it
replaced, queues the handshake and shows. Kick and the exits are the shell's. The
handshake buffer is a ring (ByteRing) and here a sequence that keeps the newest chunks.

**Enrollment** is a process per enroll, register and delete request that yields
after every SQL statement and every call of dock. Rows are functions from ids;
UNIQUE and the foreign keys are the guards `HostFits` and `AgentFits`, so a
statement that would violate one cannot succeed and the request fails
(`RegisterFails`). Dock is external: `Dock.IssueAgentToken` may be carried out
though its reply is lost; `Dock.AgentRegister` makes an agent with a token, or
finds the agent of that name and returns no token (`hosts_store.go:302`) or a
re-minted one (`agent_phase4b.go:85`), with or without its reply arriving.
`settled` is a history variable.

**Tables** has a table as a function from ids to rows, with its upsert and delete.

**HostLinks** is which host a connection stands for: `hosts.agent_token_id` (the v3
column), `agents` with their bot and token, and per agent process the `hostID` of its
connection. `Resolve` is `resolveHostIDForAgentConn` with its three ways; a failing query counts
as a miss, so only the look-up that hits is a step (`Found`). The repair is another: `healing`
is the agent that was found, whose row may be deleted or registered again before `Heal` writes
dock's token id into it, which the foreign key allows only for ids that the local table has
(`Legacy`). Registration is two steps (`InsertHost`, `InsertAgent`), under any bot, its own or another
machine's. `foreign` is history: the hosts of other machines that were written under a link's
token, agent id or bot. The initial rows are those of the migration scripts.

**HostSkills** EXTENDS it with what hangs on a host: skills that agents advertise (with
ids from a sequence), credentials, requests of admins (the host's check, the
skill's check and the statement are three steps; `ActiveIn` is the workspace such a request is made in,
and it names any id, also one that the sequence has not handed out: `ahead`, history), layouts of one pane, deletion
with its cascade, and a restart with another key or none. `stored` and a pane's kind are history.

**Topology** is `buildTopology` as recursive functions over the hosts, their interfaces and the
votes: `AfterHosts(fleet, t)[n]` is the bucket of tab t after n rows, `AfterNics` the
inner loop, `AfterVotes` topVote's. The sort is given by what `sort.SliceStable`
guarantees: a node is in the place that the number of nodes before it gives. `Exact` compares
each with a definition by sets. Names may coincide, ids may not.
**HostMap** puts it beside HostSkills, whose run asks it of every fleet of the instance;
it has no state of its own.

MC modules give values to functions, symmetry sets and the fleets, nothing else.

## 3. Runs

Passing runs (each explores its whole state space):

| Run | Instance | Shows |
|---|---|---|
| hub_reconnect | three connections of one token, each with another bot, one kick | `NewestIsRegistered`, `OneOpenPerToken`, `BotLeadsToRegistered`; `ImplementsLink`: AgentHub with its fairness implements AgentLink with its own |
| calls | two calls of any kind over ids that may coincide, two answers each, send buffer of one | `ReadPumpNeverBlocks`, `WaiterIsReachable`, `LeftoversExplained`, `EveryCallReturns` |
| shell_caps | two opens, one host with a cap of one, finalize may fail | `CapsHold`, `SessionIsSupervised`, `OutputHasChannel`, `NothingLeftBehind`, `FinalizedOnce`; `ImplementsRuns`: ShellSessions implements ShellRuns |
| shell_bridges | one run, two browsers, one kick | `LastWriterWins`, `RowBeforeRemoval` |
| shell_live | one run, one browser, fairness | `ClosedLinkEndsRuns`, `CancelledBridgeLeaves` |
| stream | four bytes in frames of one to four, ring of three, channels of one and two, two browsers | `RingIsTail`, `NothingMissed`, `RecentOutputIsShown` |
| vnc | three chunks, channels of one, handshake buffer of two, two viewers | `HandshakeComplete`, `GapEndsViewer`, `EvictedViewerLeaves` |
| enroll | two enrolls of one name, two registers from two machines, one delete, two slug candidates | `BurnedTicketPaidOff`, `StoresAgree`, `DoneIsWhole` |
| skills | an agent from before the migration and a new one on two hosts, two workspaces, one request in the first of them, one layout, one key or none, fleets of two and three hosts | `OwnHost`, `GrantHolds`, `PaneNeverRetargets`, `RenameSticks`, `CredentialReadsBack`, `TopologyIsExact` |

Each module's `TypeOK` is checked with its first run.

Runs that find a disagreement with what the code's comments or docs say:

| Run | Property, and what refutes it |
|---|---|
| hub_zombie | `RegisteredIsServed`. `handleAgentWS` closes the displaced connection's channel unguarded; when a kick or that connection's own defer has closed it, the handler panics after the new connection entered the hub and before its pumps start. The hub finds a connection nobody reads. |
| shell_evict | `EndedRunEvictsBrowser`. A browser attaches between the supervisor's `snatchBridge` and `remove`: no exit event, no cancel. |
| enroll_token | `AgentHasItsToken`. A register that fails after dock has created the agent is retried with the same ticket: dock knows the agent, returns no token, and hosts-svc answers 201 with an empty `agent_token_raw` and burns the ticket. |

### Bounds, and why they are enough

Every capacity of a channel is 1 or 2 in the runs (16, 64 and 256 in the code):
the code only distinguishes full from not full, and these values reach both with
the fewest steps. Two requests suffice for a race for a host's cap of one (the total cap is two
there and never binds; the proof covers it); three
connections are the least with which a connection displaces one that has itself
displaced another. The ring of three with four bytes wraps, overflows, and takes
a frame longer than itself. Two slug candidates (25 in the code: the loop counter is
incremented twice, so the suffixes are -2, -4 ... -48) have a free, a taken and a used-up list:
the fallback is reached through a failing query. Two registers reach the overlap
of two machines on one ticket, and one delete the overlap with each of them.
In skills two hosts are enough for a connection that could be given the wrong one
and two workspaces for a host that moves; two skill ids (`MaxSkill`) for a
skill that goes and comes back; the credential's values are symmetric, since only their
equality is asked. `MaxRows` is one, so a credential and a layout are not stored together; neither's
actions look at the other's table. One request's workspace is fixed, since hosts come to either, and so is
the master key's value, on or off; reading under another key is left to the proof. The agents have the two shapes the code distinguishes: one known by
its v3 column and its bot, one by its agent id; the second may be registered under the first's bot. The fleets are evaluated in the initial states
only, because reports are no part of the state; two hosts suffice for a conflict, of one name or of two, and three for
a vote with a majority and ties; all fleets are covered by the proof.
`MaxAnswers`, `MaxBytes`, `MaxChunk`, `MaxSkill`, `MaxRows` are bounds of the models and not of the code.
CHECK_DEADLOCK is off where the requests are finitely many and all come to an end.

### Fairness, and what justifies it

Only what the Go runtime does by itself is fair. A handler or goroutine that can
run does (`Handler`, `Open`, `Supervisor`, `Bridge`, `Kick`, `Call`); where it
waits, it waits with a timeout, so that the wait's other branch is there
(`OpenAnswer`, `Expire`). A select whose `conn.close` case stays ready takes
it eventually, since select chooses at random among the ready cases
(`SupervisorClosed`, `WSStopped`, the write pump's exit). Agents, browsers and
operators are not fair: nothing makes an agent answer, hang up or exit. Database and dock calls return, well or badly.

In vnc the supervisor and the handlers run (`Supervise`, `Attach` ... `Replay`), and a
viewer whose cancel, exit event or closed connection stays ready takes it (`Stopped`).

AgentHub's `Spec` includes its fairness because `ImplementsLink` has to derive
`LinkFairness` from it.

## 4. Proofs

All for any number of connections, requests, names and bytes.

**AgentHub_proofs.** `IInv` adds to the type invariant what each step of the
handler knows: a connection in the maps has a handler between its registration
and its cleanup; the token map's holder is the last to register; a displaced
connection is remembered by exactly the handler that displaced it until it is
closed. The safety properties of hub_reconnect follow, and `HubImplementsLink`
shows that every step is a step of AgentLink or a stutter. The fairness half of
the refinement is model-checked. hub_zombie refutes `RegisteredIsServed`;
`ZombiesHaveCause` says how far it can go wrong: a handler that panicked had displaced a
connection that a kick had closed, or whose own defer had run (`ClosedHasCause`: a closed
channel is explained by its own handler, by a kick or by the handler that displaced it,
and no two of them displaced the same one, `DisplacedOnce`).

**AgentCalls_proofs.** The argument is that *an entry of a pending map is one
right to one send*: it is created with an empty channel, the read pump takes it
away under the mutex before it sends, and nothing else sends. So a delivery in
progress has the channel to itself (`DeliveryIsExclusive`) and never blocks,
whatever the agent answers and however ids are reused. `AnswersAlwaysFit` follows an
answer from the agent to its caller: entries of the map of tool calls are tool calls'
(`EntriesExpect`), so is what is being delivered (`DeliveriesFit`) and what lies in a channel
(`ResultsFit`). Two tool calls that use one id may get each other's answers, which is why it
speaks of the id and not of the call; a chat's id is its own.

**ShellStream_proofs.** First the ring, `WriteKeepsTail`: after `write`, the ring, read
from `start` modulo its capacity, is the last `Cap` bytes of everything
written; the cases are no wrap, wrap, and a frame longer than the ring. In
ShellStream this holds along the behaviour (`BackscrollIsTail`), and
`NothingIsMissed` strengthens NothingMissed by what is *owed* to a browser at
each step of its handler: before the snapshot the ring has it, after it the
snapshot does, and what is written in between is still to be sent by the supervisor, because the ring is written before
the bridge is looked up and the bridge installed before the snapshot is taken.

**Enrollment_proofs.** `IInv`: an issued ticket has its row and its name
(`TicketsKnown`), a register request presents an issued ticket
(`RegistersKnown`), StoresAgree, BurnedTicketPaidOff, and DoneIsWhole from the
moment the agent's row is written (`SettledStands`). The foreign key of `agents`
is what makes `InsertAgent` establish it although the host may have been deleted
since `UpsertHost`. `RowsAlwaysHang` needs only that a register hangs its agent on a row that no
enrollment owns (`LinksStand`) and that such rows are never deleted (`MirrorsStay`):
agents.agent_token_id is ON DELETE CASCADE, and the rollback of an enrollment is the
one statement that deletes from agent_tokens. enroll_token refutes `AgentHasItsToken`;
`LostTokensHaveCause` bounds it: dock knows a name only through a request that got a
token or failed (`Paid`, `DInv`). The only facts used about the constants are that the
requests' ids differ from each other and from None and that slugs have a type.

**ShellSessions_proofs.** `IInv` has, per run, how the open handler hands it over to the
supervisor (`HandsOver`), where it is registered, tracked and open in the
database at each point of the two (`Registered`, `TrackedWhileServed`, `RowIsOpen`,
`RowNamesCloser`); that nothing runs before its start was sent and its row was written
(`StartsAreSent`); and per browser that it
knows its session and holds its slot or is on the way out (`BridgeKnown`, `Held`). A step of one
run's process leaves the other runs alone (`OthersUntouched`), a step of
anybody else leaves all runs' processes alone (`RunsUntouched`), so each conjunct is proved for one
process at a time. `CapsHold` needs that a registered run is in its own
host's list only and that the runs are finitely many. `FinalizedOnce` holds because
the row is open exactly while one process owns its end; `RowsCloseFirst` needs a
database that answers, as `finalizeHostSkillRun`'s error is ignored.
`RowsTellTheTruth` is what an operator may conclude from a row: "failed:dispatch" means
that no PTY of the run exists or will, which rests on the frame that is queued only
after the INSERT and on an error path that leaves the run for good. The converse does not
hold: a row that says "starting" or "ended" says nothing about the PTY.
`RegistryImplementsRuns` is the refinement: the two maps are one set of
open runs (`SameCaps`), and each step asks, admits, gives up, ends or stutters.

**VncStream_proofs.** `HandshakeArrives` follows NothingIsMissed's argument: until the
first viewer attaches, what is forwarded is in the handshake buffer
(`BufferComplete`); afterwards the viewer has it or it is on its way (`Complete`). `NoGapGoesOn`
is about viewers that replace each other while the supervisor is between its
look-up, its send and its eviction: the viewer it is about to send to still has the session's
slot, or is already on its way out (`TargetCovered`), so the gap that a full sink makes
is made in a viewer that somebody is going to cancel.

**HostSkills_proofs.** `RowsLeadHome` says that every row a machine could be found by
leads to that machine or to one in `foreign`: healing only writes a token into a
row that led there when it was found, and a row that is registered again in between is counted
in `foreign` by its registration (`Led`). `RequestsKnown`: while
a request's skill is on the host it checked, that host has not moved, because a
host's workspace never changes and a deleted host's skills go with it and their ids never come
back; for a request that is ahead of the sequence only the host is claimed. `PanesKnown` is the same for panes, `CredsExact` says that a credential is one of two
kinds of row. They hold for any number of keys, machines and layouts.

**Topology_proofs.** `EveryMapIsExact`: the map of any fleet is exact. What a loop has
computed so far is an invariant of the loop (`HostSoFar`, `FleetSoFar`, `BestSoFar`), carried
along by an induction that is stated for a set of numbers instead of a predicate
(`BoundedInduction`, from the least element that `WFMin` gives); `NicsRecursion`, `HostsRecursion`
and `VotesRecursion` say that the three recursive functions exist, by the same induction. For the sort:
`Before`, made total by the positions, is a strict order, in a finite strict order the
number of elements in front of one is its rank, and the ranks are 0 to n - 1, each once
(`OrdersAreRanked`); so every node is drawn in one place. Two orders of the rows make
the same set of nodes, and if names differ the ranks do not depend on the positions
(`SortForgetsOrder`). `TopologyIsAlwaysExact` is the run's invariant, for any set of fleets.

The assumptions are the named ASSUMEs of the modules; TLC evaluates each in a run.
`ZombieHasCause`, `AnswersFit`, `RowsHangTogether`, `LostTokenHasCause` and `RowTellsTruth` are
stated by theorems alone, as no run is needed beside them.

Only model-checked: the liveness properties and the fairness half of
`ImplementsLink` (ENABLED and fairness are outside what the prover does). `RowBeforeRemoval` is checked and proved
for a database that does not fail the UPDATE.

## 5. Not modelled

- Of VNC: the caps (2 per host, 16 overall; the registry is the shell's with
  other numbers), the open handler before it tracks its channels, and the way from the browser to the agent.
- The skill catalog: single statements on rows of which only `retired_at` ever changes.
  Its handlers meet nothing else.
- Hosts' renames, heartbeats, hello's columns and `createdByCache`: they write columns
  that nothing modelled decides by, except that `last_hello_at` orders the agents of one bot
  (`ByBot` takes any of them). Owners and names of
  layouts (a UNIQUE constraint and a WHERE), and layouts of several panes.
- In ShellSessions some pairs of statements that no other process can tell apart are one step: untrack and UPDATE on
  the error paths of open, the supervisor's snatch and cancel, its choice of a sink and the send,
  a kick's look-up and its read of the bridge.
- In VncStream the connection that a viewer watches is the run's (`closed`), though
  `host_vnc_handlers.go:228` looks it up again.
- `findActiveFor`, in both registries: it has no caller since every open makes a new PTY.
- Message contents, JSON, HTTP codes, logs, HMAC and sessions: the properties do
  not depend on them. A malformed frame is skipped by the read pump.
- Restart of the process, except in HostSkills, where it changes the key: the registry
  and the hub start empty and rows of runs under way stay open; nothing in the
  code repairs them. It is listed as a hazard.
- Data races on `agentConn.capabilities`, `tool` and `hostID`: listed as hazards. In
  AgentHub a host's id is known from the start, in AgentCalls the capabilities
  change in one step.
- Timeouts are the expiry of a timer at any moment; durations are left out.

What the properties leave open, because the code does: dock keeps the token of an enrollment whose
reply was lost and whose local row was rolled back, although `hosts_store.go:826` has the stores in
sync (`StoresAgree` is about what the local table has); a request that names a skill id which does not
exist yet is granted if the skill comes into being between its two SELECTs, on a host that was
deleted and registered again in another workspace meanwhile (`GrantHolds` claims the host only);
machines that register under one bot may be given each other's host by the bot look-up,
which a repair then makes last (`OwnHost` allows `foreign`).

Read in the code while modelling, and carried as hazards or here rather than as
runs: `reserve` takes nothing, so only `insert`'s check counts, and a refused
open has started a PTY; state frames never update the row, since
`updateHostSkillRunStatus` has no caller; when `getHostSkillForDispatch` fails
after the INSERT (`host_shell_handlers.go:174`) the row stays "starting"; kick
and WS look the host's connection up again and may find another agent's than the
run's; "Replay backscroll FIRST" (`host_shell_handlers.go:337`, and the like at
`host_vnc_handlers.go:267`) does not hold when output arrives between
`attachBridge` and the queueing of the replay, since the bridge is the supervisor's
target by then: the shell may show output twice, and noVNC may get live bytes
before the handshake; a VNC chunk that the read pump drops before the supervisor
cancels nobody, although `host_vnc_registry.go:241` calls the loss irrecoverable;
the exit event may overtake output still queued in the stdout channel;
the replay can be dropped by a full sink, which a comment
(`host_shell_handlers.go:346`) calls theoretically unreachable; two agents
of one bot hide each other in `byBot`; two machines can pass
`validateEnrollmentToken` with one ticket; `healAgentTokenLink` writes dock's
token id into a column that references the local table, where the mirrored row has an id
of its own, so that for tokens newer than the migration the foreign key refuses it and
"the next connect hits (1)" (`agent_phase4b.go:87`) does not come about;
a kick's exit frame is dropped when the event channel is full, and the session stays
until the connection closes (`host_shell_handlers.go:509` counts on the frame);
the revoked local tokens do not keep a guest out (`internal_delete.go:9`), since the WS
endpoint asks dock; `fetchHostSkillCredentialPlaintext` has no caller yet;
retiring a catalog entry again moves its `retired_at` ("Idempotent",
`skill_catalog_store.go:113`); two hosts of one name that share an address are not flagged as a
conflict, since `topology.go:209` compares names; `updateConsoleLayout` answers what a second
statement reads, which may be another request's update.

## 6. Plan

What would come next, in this order.

1. **A liveness half for ShellRuns**: every run that was asked for is admitted or given up;
   from the fairness of the open handler, model-checked beside `ClosedLinkEndsRuns`.
2. **VncSessions**: the caps and the open handler of VNC as an instance of ShellRuns, with the
   session of VncStream as its open part.
3. **Enrollment and HostLinks together**: HostLinks takes the rows a registration
   makes as given; their composition would show that the id a new agent connects
   with is the one `registerAgent` stored, dock's answers included.
4. **Restart**: the shell registry and the rows after a crash, once the code has a
   recovery to model.
5. **Slug**: the candidate list as a function, checked for the suffixes it really takes.

The set of runs stays about this size: a new one replaces the one that asks least, each a distinct question.
