# A TLA+ model of agensis-agent

`agensis connect` is a daemon on somebody's machine. It holds a WebSocket to a
hub, takes jobs from it, runs each as a turn of a coding CLI (Claude, Codex, an
ACP harness, Amp) and sends the answer home. `agensis supervise` is a process
of its own that starts the daemon, starts it again and replaces it by another
version. Paths below are relative to `packages/agensis-cli/`.

The daemon is one Node process: there are no data races inside a handler, and
all that interleaves is handlers, microtasks, timers and what follows an
`await`. That is where the model looks: each handler is one action, and every
`await` with a state change behind it ends one action and begins another.

## The parts of the system

| Part | State | Operations | What is hard | Module |
| --- | --- | --- | --- | --- |
| Work queue, `src/queue.mjs` | lanes in a Map, a counter of running jobs, idle waiters | enqueue, cancel, cancelActive, idle; the microtask that starts a run, the `finally` that ends it | a cancel between admission and start; a re-ask of a key that is being cancelled; a counter changed in two places | `JobQueue` |
| Permission broker, `src/permissions.mjs` | parked calls with a timer each | request, decide, prepare, commit, abort, resume, cancelJob, shutdown | the socket drops with frames in flight; the hub repeats or changes a decision; a deadline over the outage | `Approvals` |
| Claude pool, `src/connectionExecutors.mjs:296-690` | sessions by key, a lock per key, an idle timer, a drain | run, ensureSession, the pump, closeSession, canUseTool | results of an interrupted turn arrive late; cancels at every `await`; a runtime that hangs or dies | `ClaudePool` |
| Session slots, `src/sessionSlots.mjs` | lane to slot, busy slots, last use | claim, release | a conversation must find its history again; fewer slots than turns | `SessionSlots` |
| Hub connection, `src/agensis.mjs` | the socket, timers, parked results | connect and its handlers, watchdog, stop, restartSelf, sendResult | close or silence at any moment, two sockets that overlap, a restart in between | `HubLink` |
| Supervisor, `src/supervise.mjs`, `src/selfUpdate.mjs`, `src/state.mjs` | the child, its exit handler and timers; versions, link, record and request on disk | boot, poll, update, roll back, respawn, stop | an update stops and spawns children while handlers and timers run; a crash between two writes | `Supervisor` |
| Codex pool, `src/connectionExecutors.mjs:690-1077` | app-servers by key, JSON-RPC requests with a deadline | run, ensureSession, closeSession, the message handler | an idle timer the next turn does not clear; answers that come late; a child that exits anywhere | `CodexPool` |
| ACP, `src/acp/` | a pool of harness processes by slot and selection, strikes per harness | run, prewarm, fallback, dispose | no lock: turns and a prewarm meet on one key; handshakes and cold processes that hang | `AcpPool` |
| Sandbox, `src/sandbox/e2b.mjs`, `src/executor.mjs:65-99` | a remote machine per turn | ensureEnv, putRepo, exec, getResult, destroy | any step may fail while the machine is paid for | `Sandbox` |
| Answer stream, `src/agensis.mjs:1418-1444, 1840-2000` | the text so far, open and closed; tools reported | feed, end, segments, deltas, the choice of the response | deltas, messages and the result repeat one another, cut anywhere by chunks and exits | `AnswerStream` |
| Bridges, `src/bridges.mjs` | one connection per bridge in a Map, redial timers | start, stop, send, close and redial | start, stop and redial interleave at their `await`s | `Bridges` |
| Agent mesh, `src/agensis.mjs:205-355, 743-784` | tickets, grants, FIFO waiters, a LAN listener | list, ticket, grant, authenticate, hand off | a late answer for a waiter that timed out; a hand-off and its fallback | `PeerMesh` |
| Shared inference, `src/agensis.mjs:651-725`, `src/sharedInference.mjs` | calls by id | request, cancel, end, abort all | a limit per model, ids used again | `SharedInference` |
| CursorBuddy bridge, `src/cursorbuddyLocalBridge.mjs` | a queue of commands, open streams, chats | control, poll, stream, chat, edit | viewers that leave and return; a queue that is trimmed; restarts | `LocalBridge` |

How they meet: the message handler of `agensis.mjs` hands `agent_job` to
`queue.enqueue`; the queue's `runJob` claims a session slot, makes an executor
and calls its `run`, which uses a pool; a tool call of the turn parks in the
broker; the turn's end releases the slot and calls `sendResult`, which sends or
parks. A cancel frame goes to the queue and to the broker. The registration of
a new socket flushes parked results and resumes parked calls. The supervisor
and the daemon share files only: `heartbeat.json` one way, and
`update-request.json`, which the agent writes.

What each part must guarantee is stated above its properties in its module; what
could go wrong, line by line, is the list of hazards in `PROJECT.json`. The parts
that are not modelled, and why, are at the end.

## Modules

Each `MC_X` gives `X` its sets; each `XProofs` holds the theorems about `X`.
Three modules compose others: `Daemon`, `Runtimes` and `HubServices`. Their
parts share no state but the socket (or, for `AcpPool`, the session slots, which
it extends), so a behaviour of a composition exercises one part, chosen at the
start and kept; the part that interacts is inside a module.

**`JobQueue`**. A job is one delivery; deliveries may share a key. Ordered
containers are numbered sets: a lane's array is the set of its waiting jobs with
the `ticket` each was pushed with, the Map of lanes is the set of lanes with a
`born` number, which the walk of `pump()` follows. `Accept` and `Dedupe` are
the two outcomes of `enqueue()`; `Begin` is the microtask that calls `runJob`,
or skips it if the job was cancelled since; `Settle` is the `finally`, with the
`pump()` and `maybeResolveIdle()` it ends in. `LaneService` says the same to a
conversation, without Maps and microtasks, and `JobQueue` implements it
(`LaneServed`).

**`Approvals`**. The broker, the socket and the hub's side of the handshake.
The hub is not in this repository; its actions are free wherever the daemon's
handlers and comments say nothing: it may repeat a prepare, change its mind, give
up a card, answer by the legacy frame. Frames travel in two queues that are lost
with the socket.

**`ClaudePool`**. One session key (keys share nothing), the turns that use it
and the sessions opened for it one after another. `run()` is cut where it
awaits: `RunEnters`, `RunGoesOn` and the ends of a turn. The runtime behind a
session is external: it takes prompts one at a time, ends each with one result,
and may hang or die.

**`SessionSlots`**. `claim()` with its three ways to a slot (the lane's own,
an unbound one, the least recently used) and `release()`, under the admission
of `JobQueue`: one turn per lane and at most `MaxConcurrency` in all.

**`AcpPool`** extends `SessionSlots`: `Begin` is a claim and the run up to its
first `await`, `TurnEnds` the release. Between them are the handshake, the prompt,
the fallback to a cold process, and the errors by which `run()` tells a slow
harness (a strike) from a broken one and from a failed job. Each harness is a
numbered child that may exit anywhere; `Prewarm` opens one beside the turns.
Nothing serialises the turns of one key: they share, overwrite and end one
another's harness as in the code. `contended` remembers the keys on which two that
wanted a harness met, so that the properties can say what holds apart from that.

**`CodexPool`**. One session key. An app-server has an inbox and messages on
their way to a reader; what it says of a turn is a reply, that it began, items and
its end, or it stops anywhere. `knows` is the turn id the handler filters by, so
that a message of another turn is passed over or taken as the code does.
`PrimaryExecutor` is the stage `"local"`.

**`Sandbox`** and **`AnswerStream`**. The first is the chain of awaits of a
sandbox turn, any of which may fail. The second has text as numbered pieces,
written in the lines of whatever runs the turn and read in chunks that end anywhere;
`ParseLine` and `ParseStreamLine` are the two readers, `Answer` the choice between
what they read, with its fallbacks: raw output that was not understood (`Stdout`),
stderr, the last line streamed.

**`Runtimes`** composes `ClaudePool` and these four by the family `createExecutor()`
chooses. Its last part is `SessionSlots` once more, for a daemon that was given several
slots (`Spread`); the slots of `AcpPool` are the default's.

**`HubLink`**. Sockets are numbered; `ws` is the last one. A socket closes, or
falls silent without a FIN and counts as open until the watchdog ends it. The
open handler is cut at its read of `identity.json`. A job remembers the socket
it was accepted with, as its closure does. `ResultLedger` is what a hub may
expect of an answer: owed, held, sent, heard, and lost in three named ways.
`HubLink` implements it (`KeepsLedger`). `Daemon` puts it beside `JobQueue`.

**`SharedInference`**, **`Bridges`**, **`PeerMesh`**, **`LocalBridge`**,
composed in **`HubServices`**. What each keeps in a Map is a function from ids; what
an `abort()` settles runs in the microtasks behind it and hence in its step; the
start of a bridge is two steps, because frames read meanwhile see the Map without
it. The mesh has both daemons, with one hand-off as one ticket's owner. Nothing in
this version calls `handoffJobToPeer()`, so its caller may do it at any time.

**`Supervisor`**. Disk (link, installed versions, record, request), processes
(which outlive the supervisor, being detached), and the supervisor's memory.
`performSelfUpdate` is cut at its awaits: `Begin`, `InstallDone` or
`InstallFails`, `Unlink`, `SpawnTarget`, `Healthy` or `Unhealthy`, `RollBack` or
`NoFallback`, and `Clear` back in the loop; `Reap` is the exit event with the
handler that `spawnCurrent` installs, `Respawn` its timer, and both run between
any two of these. `Gone` is the end of the supervisor. What may go wrong is the
constant `Faults`, so that a run says which faults its properties withstand.

## Runs

Each passing run is one question about one part or a composition; together they
fire every action. The six "violated" runs check one statement of the
repository's own text that the code does not keep; the findings in
`PROJECT.json` quote it. Every run finishes within a few minutes.

| Run | Question | States | Result |
| --- | --- | --- | --- |
| `daemon` | counter, keys and lanes agree under all interleavings, `idle()` resolves and `LaneService` is implemented; answers are parked and sent once and lost in the ledger's ways only, the daemon comes back, `--once` ends | 142,698 | holds |
| `approvals` | what runs is what was committed; no call waits for an answer that cannot come; an outage ends for every parked call | 1,660,344 | holds |
| `runtimes` | sessions, app-servers, harnesses and sandboxes that die, hang or answer late: none is forgotten, no turn hears another or has a harness opened for another, every `run()` of the two native pools resolves and the waits with a deadline end; an answer is read once, wherever it is cut | 1,301,420 | holds |
| `services` | a model's limit, redialling, hand-offs and the command stream stay right when ids are used again, answers are late and viewers leave; whoever asked is answered | 184,223 | holds |
| `supervise` | one child or timer; what is recorded can be started and never goes back | 3,888,549 | holds |
| `supervise_live` | a request that is found is decided, a daemon comes back, a release is taken | 44,052 | holds |
| `approvals_resume` | resume denies only what the hub lost | | violated: a call asked after the register frame was sent is denied |
| `claude_cancel` | a cancel is heard | | violated: not while the SDK is being imported |
| `supervise_stale` | a managed daemon does not rot | | violated: a request for the version at hand is never cleared and stops automatic updates |
| `supervise_child` | a crashed daemon is respawned | | violated: one that an update spawned is not |
| `answer_lost` | output is read in the format it is in | | violated: a harness without ACP under a stream-json command is answered with nothing |
| `acp_shares` | two jobs never race one connection | | violated: over ACP two turns prompt one harness, by default |

### Bounds

- `JobQueue`: four deliveries, three lanes, two slots: while two lanes hold the
  slots, the third has two jobs waiting, so that order within a lane, contention
  between lanes and the counter are all at stake; a key is asked again on
  another lane, while its first job waits, runs, or is on its way out.
- `Approvals`: two calls of two jobs and two answers (a changed answer needs
  two); `MaxFlight = 2` frames each way, so that frames overtake nothing but a
  prepare, its receipt and a repeated prepare are in flight at once.
- `ClaudePool`: three turns on two sessions: one interrupted, one that drains or
  replaces, one after it. `MaxOut = 1` unread message: the pump reads at any
  later step, so an event and the result behind it still arrive apart, with
  anything in between.
- `AcpPool`: one slot and two turns at once, which are the daemon's defaults
  (`src/agensis.mjs:67, 75, 939-946`), of two lanes with two selections each: turns
  meet on one key, or change it. Two harnesses are two that overwrite one another,
  or one and a prewarm that overtakes it; three claims let a third turn find what
  the two left. With more slots, which an operator may ask for (`--session-slots`),
  less is shared; the theorems are for any number.
- `SessionSlots` by itself (`Spread`): three conversations on two slots make
  evictions, and six claims let an evicted one return and be evicted again. Two
  slots for two turns: that no two turns have one session is only promised to who
  asked for a slot per turn; `ReturnsToItsSession` is proved for any number.
- `CodexPool`: three turns, the last with the same options (`Choices`) or others,
  on two app-server numbers, which are used again once nobody refers to them: a turn
  given up with `turn/start` unanswered, one that inherits its session, one that
  inherits what the second should have heard, or replaces the session.
  Two unread messages let an end overtake nothing but stand behind an item.
- `Sandbox` two turns (they share nothing; the second shows it). `AnswerStream`
  four pieces and two tools: two blocks with an aside of a sub-agent between them,
  and a tool line between deltas; `Pieces = 2` suffices for the violated run.
- `SharedInference`: five calls on three ids, two of which are used again, and
  a limit of 2, with one call for a model that is not shared. `Bridges`: a
  WhatsApp bridge (it redials) and an OpenClaw one (it does not hear of its end);
  three connections are two starts and a redial, or one start and two redials;
  `Left` keeps a number for every armed timer. `PeerMesh`: two hand-offs are enough
  for one to get the other's ticket. `LocalBridge`: a queue of two and four commands
  overflow it twice; two streams are the one a viewer left and the one it is on; two
  lives are one restart.
- `HubLink`: two jobs and `Room = 1` overflow the parked results; three sockets
  let an old one, a current one and a next one overlap. The last socket does not
  break, so that liveness is about an outage that ends. The one-shot setups have a
  peer's job, a refused one and one whose executor cannot be made.
- `Supervisor`: three versions (the package's, a sound one, a broken one) and
  three process numbers, which are used again when nothing refers to them: the
  old daemon, the one on trial and one a respawn brought. `Spare` keeps numbers
  free from what need not happen (deaths, restarts, further requests), so that a
  liveness run does not fail because the model has run out of process numbers;
  the safety run has `Spare = 0`. The safety run has every fault except turns
  (idleness does not bear on its properties), the live run has deaths, turns and
  a `current` link that another profile left, so that there may be no way back.
  `HeldOpen` says whether something else (a signal handle, a logger) keeps the
  supervisor's event loop alive: the repository does nothing for it, and without
  it an update need not come to an end.

Deadlock is not checked: a daemon with no job left, or a bound that is reached,
rightly stops.

### Fairness

The event loop runs what is due: microtasks, resolved promises, armed timers.
Beyond that:

- `JobQueue`: a run ends. The executors' deadlines make it so
  (`src/agensis.mjs:1362-1366`), which `runtimes` checks for the two native pools.
- `ClaudePool`, `CodexPool`: continuations run, and a turn's deadline fires: of
  each turn, the step that is due. Nothing is asked of the runtime, which may hang.
- `AcpPool`: the handshake's budget and the coding command's deadline fire, and a
  process that was sent SIGKILL closes: of each lane, what is due. A prompt and the
  headless mode have no deadline, and none is assumed.
- `HubServices`: timers of the mesh, the redials, the sends and of `runCli()`
  fire; a starter returns or throws; a WhatsApp socket whose device was unlinked is
  closed for that reason by the messenger. It may be lost in another way before and
  is then dialled again; that this happens finitely often is the bound on the
  connections. Nothing is assumed of an inference call: `fetch()` bounds silence
  only, so an upstream that sends for ever holds its place for ever, and no
  property says that a call ends.
- `Approvals`: the reconnect deadline fires. A human owes nothing.
- `HubLink`: a socket that is dialled opens or closes, or the watchdog ends it;
  a register frame on a live socket is answered; turns end. Silence may come to
  any socket but the last.
- `Supervisor`: timers and events, npm ends, the process manager starts the
  supervisor again, a process that was sent a signal dies, a sound daemon
  registers. Strong fairness is assumed of three things the code repeats at an
  interval: a health check of a sound version passes if it is tried without end,
  the registry is asked when a poll finds the daemon idle without end, and an
  idle daemon writes its beat. Nobody has to ask, crash, or stop.

## Proofs

TLC's results hold for the instances above; the theorems hold for all values of
the constants that satisfy the named assumption of each module.

| Module | Inductive invariant | Proved |
| --- | --- | --- |
| `JobQueueProofs` | `IInv`: the type, `FateAgrees` (what became of a job and where it sits), `TicketsInOrder`, and the six invariants | type, cap, residence, no idle slot, unique keys, lane order, no lost wakeup, the three action properties, and the refinement of `LaneService` (`QueueServesLanes`) |
| `ApprovalsProofs` | `ApprovalInv`: the type, `SocketSound` (no frame without a socket) and two invariants. `HubInv`: the order of the frames about a call, and what broker and hub agree on | type, guarded parks, cancelled calls stay denied, commit needs receipt; releases are the hub's last answer, no park is forlorn |
| `ClaudePoolProofs` | `PoolInv`: the type, one turn past the lock, and what relates the pooled session to it: `InUse`, `Actives`, `Work` (what a session still owes), `Timed` | no cross talk, no orphan session, right idle timers |
| `AcpPoolProofs` | slots: `SlotInv` for any size; `OwnInv` adds, for as many slots as turns, that a running lane's binding is its slot and is busy. Harnesses, for any size: `HarnessInv`, the keys of the pool, of the turns' harnesses and of those coming up, and who is alone on a key | one lane per slot, no stranded slot, return to the own session, own session, kept binding; `AcpPool` implements `SessionSlots`; own harness, no stray harness, kept harness; a slot per turn rules out what `acp_shares` shows |
| `RuntimesProofs` | app-servers: `LockInv`, `ServerInv` and `TalkInv`; sandboxes: `BoxInv`; answers: `StreamInv` | one turn past the lock, owned timers, owned app-servers, no cross talk; no child left behind; nothing said twice or left out; `RuntimesSpec` implements each of its pools, and has these properties and those of Claude's pool, the slots and the harnesses |
| `HubServicesProofs` | one per service: `InferenceInv`, `MessengerInv`, `MeshInv`, `BuddyInv` | entries are calls, a model's limit, redials do not multiply, hand-offs run once, viewers miss nothing, all of them for `ServicesSpec` |
| `HubLinkProofs` | `LinkInv`: the type, who owns a heartbeat, when a retry is armed, and what may be parked. `PlacesInv`: an answer is in one place | type, one heartbeat, comes back, nothing parked while connected, answers in one place, the refinement of `ResultLedger`; the safety properties of `daemon`, for `DaemonSpec` |
| `SupervisorProofs` | `WatchInv`: the type, one child or timer, and when there is neither. `SoundInv` adds what the record and the version on trial are; `DiskInv` and `RecordTrails` what is installed and how far the record lags | one daemon is watched; what is recorded can be started; the record never goes back |

Every invariant and every action and refinement property that a passing run checks
is stated by a theorem. Those of Claude's pool and of the slots are proved in
`ClaudePoolProofs` and `AcpPoolProofs` and carried over to `RuntimesSpec`, which implements
these modules (`RuntimesAreTheirOwn`), by instancing the proofs with its variables:
`ClaudeSessionsAreSafe` and `SlotsKeepTurnsApart` (`SpreadTurns` and `SpreadReturns` are
`OwnSession` and `ReturnsToItsSession` of `SessionSlots`). TLC checks only the liveness properties: fairness and
`ENABLED` are out of the prover's reach, as is induction over data. No module uses
a `RECURSIVE` operator.

### Assumptions

Each is named where its constants are declared, and TLC evaluates it in the runs.
Counts and limits are numbers and positive where the code takes `Math.max(1, ..)` or
the model would have nothing to do; sets of jobs and lanes are finite where they are
counted. The theorems on Claude's pool have `PoolAssumption` as their hypothesis, since
the module is also used with other names for its constants. `TurnsHaveTheirOwn`,
`HistoriesAreKept` and `SlotPerTurnSuffices` speak of `Size = MaxConcurrency`, a slot for
each turn in flight, which is opt-in: with fewer, the lanes of a slot share its session,
and for Claude and Codex the keyed mutex makes their turns take it in order. ACP has no
such mutex. Its other theorems hold for any number of slots, with the sharing allowed
for in what they say. Two theorems have a hypothesis more:

- `SupervisorRestarts` needs `OwnLink`: before the first supervisor ran, `current`
  was absent or pointed at the package's version. Under a link that another profile
  left, `boot` does not install the package's version, but records it.
- `RecordNeverGoesBack` needs `Forward`: nobody asks for a version that works
  and is older than one that may be recorded. Such a request is obeyed.

`supervise` satisfies both; in `supervise_live` a sound version is requested, as
`Forward` permits, and `current` may be another profile's.

### The inductive invariants

Queue. `RunningCounts` says that the counter is the number of active lanes, and a
step of `pump()` keeps it only if a lane that starts was free, which is `FateAgrees`;
lane order needs tickets that are unique and below the clock. `PumpEffect` states
once what a pass over the lanes does, and every action that ends in one cites it.

Approvals. That a released call was committed speaks of the broker, and whether the
hub committed, of the hub; between them are two queues of frames. `HubInv` says of
each line what may stand behind what: no prepare of a call stands behind its commit,
the last prepare carries the hub's present choice, and one register frame is under
way at most. `ReceiptsInStep` then says that a call whose receipt the hub has, or
whose commit is coming, was prepared with what the hub decided. Since a new
connection starts with empty queues and the hub repeats from its cards, `KeptIsHeld`
says which parked calls it holds a card of; that is also what makes no park forlorn.

Claude pool. `NoCrossTalk` needs that what a session's runtime has left to say
belongs to one prompt and ends with its only result (`Owed`), that this is the active
turn's, or the session drains, or nothing is left, and that a turn begins only on a
session of the last kind. `ReadOwed` and `EmitOwed` say how reading and speaking
change what is owed; `TalkKeepsInv`, `EndingKeepsInv` and `EmptiedKeeps` reduce twenty
actions to three kinds of step.

Slots and harnesses. `ClaimTakesOneSlot` reduces three ways to a slot to one
fact. `OwnSession` needs a counting argument: fewer turns than slots leave one idle
(`OneSlotIsIdle`). The harnesses get their slots by the refinement `AcpUsesSlots`.
Turns that share a harness share its key (`Sharing`), and a harness that is used or
pooled was opened for that key (`Homes`). A key that nobody met on has one turn or one
prewarm (`Alone`), which finds the pool as it left it (`Entered`): hence no live harness
is lost from it (`Found`). With a slot per turn distinct turns have distinct keys.

Codex pool. A timer is the current session's, an app-server that is alive is the
current one's or the one being opened, and only the holder of the lock is past it.
What is heard is not so clean: the session of a turn that was given up with `turn/start`
unanswered is kept, so its successor may hear it, be ended by it, and be heard by a
third. `CodexNoCrossTalk` therefore speaks of `Displaced` turns: a turn hears another
only if that one was given up or was itself displaced, and nobody is unless one was
given up. A narrower statement, without the second generation, holds for two like
turns and is false for three. `TalkInv` keeps it: whatever an app-server still has to
say is of turns that attached to it, in the order in which it will be heard
(`Orderly`), and each of them is the one that listens, is over, or is displaced.

Answers. `StreamInv` cuts what was said at what was shown: the pieces that the parser
has closed are those up to the last one shown, what it is streaming goes on from
there to the last one heard, and a line that is on its way goes on from what was
heard, or repeats a whole block, or is a control frame (`DeltaDue`, `BlockDue`,
`RestDue`). Each step of the reader moves one of the two cuts. A direct turn that heard
nothing and wrote something answers with its raw output, so that its answer is empty
only if nothing was written. That a text is the pieces that are kept, in
order, is stated by its elements and indices (`Keeps`), and what a response of
the command stream begins with is a `SubSeq` (`QueuedAfter`): the library has no
theorem on `SelectSeq` that the provers can use.

Services. `WithinCapacity` counts calls where the code counts entries;
`EntriesAreCalls` with an injection between them compares the two cardinalities. A
bridge is `Paid` for: the connections that are up and the timers that are armed
are no more than the frames that began one, and a redial spends its timer. Tickets of
hand-offs are apart (`TicketsApart`), and who was heard by the peer was heard with
its own (`HeardByTicket`), so a late answer finds no waiter to mistake for another.
Ids in the queue of commands are consecutive and end with the last one given; a
stream brings the queue after what its viewer saw, perhaps after older commands
(`PipesBring`), and so what is trimmed was seen or the viewer is `stale`.

Link. Whether an answer is owed, held, sent, heard or lost is a function of five
variables, and a step that moves one answer must leave all others where they were:
`PlacesInv` says that parked and sent answers are distinct and disjoint, and that
only the hub's turns are parked. `LedgerStep` is proved action by action.

Supervisor. `OneWatched` is inductive with two facts about when there is neither a
child nor a timer. What is recorded can be started because a version is recorded only
after it was heard (`TrialSpeaks`: the daemon on trial runs the target, and is online
only if that is sound; `RecordSound`), and what the record, the supervisor and the
update name is on disk (`DiskInv`). `RecordTrails` orders the three: the record is
not ahead of the supervisor, nor the supervisor of a sound target.

### Compositions

A behaviour of `Daemon`, `Runtimes` or `HubServices` exercises one part, so its steps
are steps of that part or leave it alone (`DaemonsQueue`, `DaemonsLink`,
`RuntimesAreTheirOwn`), and the theorems about the parts carry over:
`DaemonIsSafe`, `DaemonKeepsItsPromises`, `RuntimesAreSafe`, `RuntimesKeepSessions`,
`ServicesKeepCapacity` and the theorems on the other services are about the very
specifications that the runs check.

Some theorems are about parts of an inductive invariant that no run repeats:
`LaneResident`, `LaneFIFO`, `NoLostWakeup`, `IdleMeansDrained`,
`DeadlineGuardsParks`, `NoStrandedSlot`, `RunningKeepsBinding`, `InOnePlace` and
`AlwaysComesBack` hold for all constants, those of the runs included.

## Findings

Six, each with the run that shows it:

- `resume()` denies a call whose card is open, if it was asked between the
  register frame and the answer to it.
- A cancel during the first import of the Claude SDK is lost: `signal.aborted` is
  read before the `await` and its listener attached after it.
- A request for the version that already runs is never cleared, and while its
  file is there the registry is not asked.
- A daemon that an update spawned has no exit handler. It is the supervisor's
  child and is not respawned; the one the update stopped is, and runs beside it.
- A harness without ACP answers in plain text, and under a stream-json command its
  answer is read by the stream-json parser: the response is empty.
- Over ACP two conversations prompt one harness at once, with the default of one
  slot and two turns: each hears what the harness says to the other, and the one that
  fails ends the other's harness. `sessionSlots.mjs` counts on a mutex that only the
  Claude and Codex pools have.

Other steps of the models do what their authors would not want, without a text that
promises otherwise or beyond a single property: a peer's job, a refused job and one
without an executor end without a final frame; a self-restart drops parked answers
and, under supervision, makes two daemons; a request that arrives during another is
deleted; the idle check is stale when it is used; an update that has to stop a
daemon which died of a signal never goes on. The Codex idle timer may close the
app-server under a long turn, and a turn given up with `turn/start` unanswered
leaves its output to the next; an ACP prompt that failed half-way with a message
like "not found" is run again without ACP; the second of two handshakes for one key
strands the harness of the first. An inference call has no deadline. A bridge
stopped during its start runs all the same. A hand-off whose ticket the callee
refuses counts as handed over. A machine whose installation failed in `ensureEnv()`
is never destroyed, and viewers of the CursorBuddy bridge miss commands after a
restart. The hazards in `PROJECT.json` have them with their lines.

## Plan

Done, in the order of what carries the program: `JobQueue` (with
`LaneService`), `Approvals`, `ClaudePool`, `SessionSlots`, `HubLink` (with
`ResultLedger`), `Supervisor`; then `CodexPool`, `AcpPool`, `SharedInference`,
`Bridges`, `PeerMesh`, `LocalBridge`, `AnswerStream`, `Sandbox` and the
compositions. Next:

1. An abstract specification of a runtime's session (turns one after another, each
   answered once, with its own output), implemented by `ClaudePool`, with the
   mapping proved step by step.
2. A cancel across `JobQueue`, `Approvals` and a runtime: `Daemon` over one job.
3. A question's lifetime against the deadlines of the turn that asked it.
4. Pure functions against reference definitions: `compareVersions`,
   `nextReconnectDelay`, rule keys.

## Not modelled

- Amp's runtime: a table of arguments around a process per turn.
- Claims and contexts of the CursorBuddy bridge, inbound messages and QR codes of
  the messengers, and the approval requests of Codex, which park in the broker like
  Claude's (`Approvals`). Those of an ACP harness do not: the client answers them at
  once with an allowing option (`src/acp/client.mjs:187-197`).
- Service installation, profiles, setup, argument parsing: straight-line I/O.
- Memory, skill and slash-command snapshots, the state files other than those
  that steer an update: read or written whole, the last one wins.
- Transcripts and wording: no state.
- Delays and backoffs: a timer that is armed may fire, early or late.
- The bundle in `packages/agensis-agent/bin` is generated from these sources.
