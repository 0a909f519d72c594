# TLA+ specifications of tantra

tantra is a Python library that runs trees of LLM agents durably: every actor has
a journal in a session store, inputs are accepted into the journal before they
run, several processes may share one PostgreSQL database, and readers follow
journals live. This directory holds TLA+ models of its concurrent core, the TLC
configurations that check them, and TLAPS proofs. `PROJECT.json` maps every
definition to the source lines it models. Paths below are relative to
`src/packages/tantra/src/tantra/`.

To run: `tlc -config MCCoordinator.cfg MCCoordinator`, `tlapm LeaseProofs.tla`, and so on.

## The system and its parts

| Part | Source | State it keeps | Operations | What is hard |
|---|---|---|---|---|
| Root ownership | `coordinator.py`, triggers in `stores/postgres.py` | `coordinator_roots` row: owner, generation, expiry | acquire, renew, release, relinquish, fenced transaction, delete | clocks, stale owners, lost replies, unfenced clients |
| Command forwarding | `coordinator.py`, `runtime.py` | `coordinator_requests`, the writer, one dispatcher slot per root | store, re-address, apply, answer, time out | retries under new request ids, handler failure after commit, takeover half-way |
| Journal reductions | `stores/base.py`, `events.py` | none (pure) | `reduce_journal`, `reduce_header` | two reductions of one history must agree |
| Turn scheduling | `runtime.py` (`_drain`, `_activate`, `_accept_send`, `_accept_cancel`, `_handle_request`), `loop.py` | active task, activation count, turn generation, task turns, errors | activate, read, claim, run, cancel, close, restart | state read outside the lock, overlap of a cancelled task and its successor, hand-over |
| Page cache | `_pages.py` | recent run of events, reader counts, one shared fetch | retain, publish, page, release, invalidate, close | a fetch shared by readers at different cursors |
| Event streams | `runtime.py` (`_stream`, `_stream_committed`, `_apply_observation`), `coordinator.py` (`_catch_up`) | cursors, signals, observations, interests | open, sleep, wake, observe, stop watching | missed wake-ups, stale observations |
| Takeover and recovery | `runtime.py` (`_ensure_owner_locked`, `_renew`, `_recover_locked`, `_close_coordinated`) | ownerships, renewal tasks, unrecovered roots | own, recover, renew, lose, shut down | crash during recovery, a renewal failing for a root owned again |
| Parent and child lifecycle | `runtime.py` | lifecycle messages, child tables | spawn, deliver, reconcile, cancel descendants | a durable end whose message was not sent |
| Watching a root | `runtime.py` (`watch_tree`, `_tree_snapshot`, `_refresh_writers_from_observation`), `coordinator.py` | shared tree snapshots, writer tokens | watch, observe, claim, release | snapshots older than the claim they are compared with |
| Turn engine | `loop.py`, `compaction.py`, `context.py`, `tools.py`, `hooks.py` | one turn: its copy of the journal, tool calls, retries | sample, run tools, compact, finish | parallel tool calls, appends by others, cancellation |
| Asks and permissions | `loop.py`, `runtime.py`, `permissions.py`, `ask.py` | live asks and their futures | raise, answer, expire | an answer racing cancellation |
| Waiting for results | `runtime.py` | observation samples | wait, give up | declaring work abandoned too early |
| Deletion and cleanup | `runtime.py`, `cleanup.py` | deletion set, timeouts | begin, finish, retain | tasks that outlive the deletion |
| Session stores | `stores/*.py` | sessions, events; in PostgreSQL an index beside them | create, append, enqueue, patch, read, repair, delete | torn tails, power loss, checkpoints that fell behind; transactions of other processes on the same rows |
| ACP server | `acp/*.py` | WebSockets, JSON-RPC tasks, sessions, tails, the writer, asks | admit, prompt, cancel, claim, resume, close, answer, shut down | the writer taken over, tails restarted, cancellation at any await, a shutdown that meets a socket in any state |
| ACP client | `packages/tantra-acp-client` | outbox, cursor, sessions, transcript | prompt, resume, close, claim, reconnect | sockets that close with requests in flight |
| Memory, shell and web tools, providers, telemetry, the sarathi application, the stress harness, the website | several | local | | mostly I/O and formatting |

How they interact. A client holds a `Connection`. What it sends goes, when there
is a coordinator, through a *request row* to the *owner* of the root: the owner's
dispatcher applies it in a *fenced transaction*. Without a coordinator the
runtime accepts the command under the root's `asyncio.Lock`. Acceptance appends to
the journal and *activates* a drain task. The drain task turns queued inputs into
turns; every append is committed before it is *published* to the page cache and
signalled to streams and waiters. Other processes learn of it from their
coordinator's *observations*. What each part must guarantee:

- ownership: at any time commits of a root come from one owner, and a takeover
  silences the previous owner for good;
- forwarding: a command takes effect at most once and the reply is true;
- scheduling: one input, one turn, in order, with exactly one end; nothing is
  stranded; what was cancelled is over when the receipt is returned;
- reductions: the cached header says what the journal says;
- takeover: a turn ends once whoever ends it, and a child's end reaches its parent;
- engine: what a model is shown is a well-formed conversation that agrees with the
  journal, every call is settled, and an answer counts for the turn that asked;
- deletion and results: nothing of a deleted tree runs on, and a waiter neither
  sleeps through the end nor gives up on work somebody does;
- stores: what was acknowledged is kept, every derived index agrees with the journals,
  no transaction undoes another's update, and a deleted tree stays deleted;
- pages, streams and watching: every reader gets every event once, in order, and is
  not left asleep; writer tokens follow claims; nobody holds the event loop;
- ACP: every request ends once, the client's view is the journal's however it was
  obtained, what the application was told is true, and
  a server that shuts down has ended every socket.

## The modules

| Module | Models | Used by |
|---|---|---|
| `FencedLog` | what ownership promises: a log written by one writer per epoch | refined by `Lease` |
| `Lease` | root ownership in PostgreSQL | `LeaseProofs`, `MCCoordinator`, `MCLease` |
| `Forwarding` | request rows, dispatchers, writers, clients' retries; ownership as `FencedLog` promises it | `ForwardingProofs`, `MCForwarding` |
| `Journal` | events of one actor, `reduce_journal`, `reduce_header` | `DrainLoop`, `FileStore` |
| `DrainLoop` | one root actor in one runtime: clients, other actors, cancellations, drain tasks, shutdown, restart | `DrainLoopProofs`, `MCDrainLoop` |
| `Takeover` | two runtimes that hand a parent and its child to each other | `TakeoverProofs`, `MCRuntime`, `MCTakeover` |
| `Deletion` | `delete` and `cleanup` under running turns | `MCRuntime` |
| `WaitResult` | `_wait_result`, observed and polled | `MCRuntime` |
| `Context` | what the model is shown of a journal | `TurnEngine` |
| `TurnEngine` | the turns of one actor | `MCRuntime` |
| `DeltaStream` | batched deltas of one sample | `MCStorage` |
| `FileStore` | a session directory shared by processes | `MCStorage` |
| `JournalIndex` | PostgreSQL's projection of the journals | `MCStorage` |
| `SessionRows` | the transactions of several processes on the rows of one tree | `SessionRowsProofs`, `MCRuntime` |
| `CommittedPages` | `_pages.py` for one journal | `CommittedPagesProofs`, `MCStorage`, `MCCommittedPages` |
| `Streams` | how streams learn of events; a page is what `CommittedPages` promises | `MCStreams`, `MCStorage` |
| `Hints` | how a coordinator learns of changes: notifications, deadlines, catch-up queries, snapshots, watches | `HintsProofs`, `MCCoordinator` |
| `Dispatch` | how a coordinator finds the requests stored for it: event, queries, slots | `HintsProofs`, `MCCoordinator` |
| `RootWatch` | tree snapshots and writer tokens of a watched root | `MCAcp` |
| `Sockets` | the WebSockets of an ACP server | `SocketsProofs`, `MCAcp` |
| `RpcPeers` | the two JSON-RPC peers of a connection | `MCAcp` |
| `AcpSession` | one session of the ACP agent | `MCAcp` |
| `Transcript` | journal events to updates to the client's view | `MCAcp` |
| `AcpClient` | the reconnecting TypeScript client | `MCAcp`, `MCAcpClient` |

`MCRuntime`, `MCStorage`, `MCCoordinator` and `MCAcp` check several modules in one run. The initial
state says in `part` which of them moves; the variables of the others are 0 and stay
so. `Takeover`, `SessionRows`, `CommittedPages`, `Sockets`, `Lease`, `Hints` and `Dispatch`, which
have proofs, are extended, so that the run checks the very definitions the theorems name; their variables stay as they were
initially while another part moves. A behaviour is therefore a behaviour of one module, and a property of the union
speaks of the behaviours of its module. Each property of a union is the conjunction
of named parts that the module defines.

**Lease.** One root, because every statement names one root and takes its advisory
lock. Time appears as `valid`, the predicate the SQL evaluates (`expires_at >
clock_timestamp()`), which may become false at any moment. `tokens` keeps every
`Ownership` ever handed out, and any of them may be presented again at any time:
renewal loops, dispatchers and shutdown do hold old ones. A data transaction is
several steps (`Begin`, `Write`, `End`, `Commit` or `Abort`) with expiry, crashes
and other instances in between; `WriteFence` is the trigger that re-checks each
statement. `BeginUnfenced` is a client without a coordinator. A renewal is two statements too:
`RenewSelects` finds the lease valid and locks the row, `RenewUpdates` extends it without asking
again, and the lease may expire in between (see the findings).

**Forwarding.** A transaction is one step that only the owner can take, which is
what `Lease` establishes. `ApplyUnheard` is a commit whose outcome the dispatcher
never learns; `HandlerFails` and `InfrastructureReply` are its error path. A
client's retry is another request with the same command. Claims, releases and
sends are modelled; answer, deliver, cancel and delete requests use the same path.

**DrainLoop.** A critical section under the root's lock is one step, except that a
local cancellation appends several times and a coordinated one commits first and
acts on tasks later. Reads outside the lock (`Read`, and the preparation before
`Claim`) are steps of their own, so what a task chose may be stale. `task.cancel()`
sets a flag that takes effect when the task is next resumed, in any of its states.
The engine is abstracted to its first append (`Start`) and its terminal append
(`Finish`), with failure possible at either. Task identities are reused when a task
is done. `SlowUnwind` lets a cancelled task take steps of its own before it unwinds.
`ActorSend` is a message of another actor of the tree, which reaches this one through the
same activation. The queue of a journal is in closed form (`Chosen`: the positions of the
pending inputs in order), which the proofs can use; the assumption `QueueKeepsOrder` of
`MCDrainLoop` compares it with `SelectSeq`.

**Takeover.** Every runtime has its ownership, renewal tasks, drain tasks and root
lock. What one transaction does under the lock is one step; recovery
(`Recover`, `RecoveryDelivers`, `RecoveryActivates`, `Recovered`, `RecoveryFails`) and
release await several times and keep the lock across steps. Renewal tasks carry the
ownership they were started for, so that one left over could be told apart.
A lifecycle message has a command id derived from child and turn, as in the
code, which is what makes its repetition harmless. `LateFaults` lets recovery fail
after it has activated an actor. Without it recovery under a standing lease fails only
while the runtime has no task on the root; a task that is still unwinding counts, because
its handler may write once the next request has recovered the root.

**Deletion.** Tasks, their generations and the store's sessions for one tree.
`BeginDeletion` runs in the store's transaction, `FinishDeletion` after the lock is
given up, `Forget` after the tasks have ended or the timeout has passed: tasks may take
steps after it. A spawn is two writes. Cleanup's selection keeps the revision it saw.

**WaitResult.** The waiter's reads, its look, its note of the generation and its
sleep are steps of their own between the acquisitions, ends, failures, deletion,
closing and outages of the others. A scenario has one kind of fault.

**TurnEngine and Context.** `log` is the journal and `history` the engine's copy; the
difference between them is what others appended. Calls of a sample run side by side;
`AbsorbRead` and `AbsorbPage` are the two halves of reading the others' events
in. Pre-flight checks are taken call by call in the code's order. A summary is
the set of turns it stands for, so that forgetting a turn is visible. `Context`
says what `context.py` builds from a journal, and `ContextAgrees` compares the engine's
`history` with the journal through it.

**DeltaStream.** Deltas are numbered and weigh `DeltaBytes`; the reader task, the
deadline and the collector are separate.

**FileStore.** A process stops between any two system calls. `disk` and `synced` are what a
power loss leaves. The next writer truncates a partial line and repairs `last_seq`. Two
histories serve the properties: `lent`, the lines a retry was told are there before anybody
had synced them, and `skipped`, the numbers of lines a power loss took from a header that
counts them.

**JournalIndex.** Index rows, live flags, cancellation targets and the checkpoint
(`covered`, `version`). Appends maintain them, `Setup` migrates, `Distrust` is a
checkpoint of another format or one left behind by a writer that does not know
it; a repairing read works on a snapshot, in two steps. The properties
compare every lookup with a definition over the whole journal.

**SessionRows.** A transaction carries an ownership (`CoordinatedStore`) or none
(`PostgresStore`), and takes one lock per step: the advisory lock of a root, which goes
with its row of `coordinator_roots`, and rows by FOR UPDATE. The root it locks comes from an
unlocked read (`Lookup`), so it may be out of date; the triggers, which are part of
`Write`, are the last defence. The last statement and the commit are one step. A deletion by
cleanup carries the revision that an unlocked selection saw. Of a header the title (with
the metadata), the model, the activity and `last_seq` are told apart; a patch writes all of
it back. `put_header`, which the runtime does not call, is left out.

**CommittedPages.** A step runs to the next `await` that suspends. A fetch passes
through "reading", "read" and "done": "done" with `flight` still set is the
moment between the completion of the task and its done-callback. Awaiting a
done task does not suspend, so a reader whose cursor the result does not serve
loops for ever; the state "hung" records that, and stops every other step of the
process. Events weigh what `Size` says, so that trimming by bytes and oversized
events happen. What `publish` leaves in the cache is given in closed form (`Joined`, `Trimmed`),
which the proofs can use; the assumption `ClosedForms` of `MCStorage` compares it with the
code's loop, item by item, on all runs of events of the instance.

**Streams.** The generation counter of a signal is kept as what streams use it for:
whether it has moved since the top of the loop (`notified`), and whether the
fallback read was made for the present generation (`fallback`). A cache hit is
not distinguished from a fetch. An observation is what a stream reads of it: the
last sequence number, whether the actor is covered, deletion, error. Opening and
leaving change the coordinator's interests and discard a catch-up under way.
`Connected` says that some `Connection` keeps the root watched throughout.
NOTIFY hints only make catch-up happen sooner, and catch-up is possible at any
time in the model. Leaving is two steps (`Release`, `Unwatch`), shutdown too
(`Close`, `ClosePages`).

**Hints.** One coordinator with its listener, its observation loop and
any number of observers. A commit adds to `coordinator_changes` and sends a notification;
the listener marks the root dirty or sets a deadline; the loop clears its event, its dirty
roots and due deadlines, queries, and stores what it read for the roots whose observers and
interests did not change meanwhile (`loop.current`); `watch` hands out the changes of a
snapshot it has not seen. The connection may be lost at any time, and a query may fail.

**Dispatch.** The same listener sets the dispatcher's event; `WakeDispatch` clears it and
asks for one request after another, each of a root that had no dispatcher when the statement was sent,
until a query finds nothing or fails, or all slots are taken. A dispatcher that ends sets the
event again. What a dispatcher does with its request is `Forwarding`.

**RootWatch.** Changes have ids; a catch-up query reads, the coordinator keeps its
sample, the watcher task applies it, each in its own step. A tree snapshot is
two reads with a generation taken before them. A claim and its reply are two steps,
with observations applied between.

**Sockets.** A step runs to the next `await` that suspends: a connection is bound, accepted,
serves, leaves and finishes, and `aclose` meets it anywhere. `wire` is what was sent to the
client; a send to a client that has left may fail or not. The connection's inside is
`RpcPeers` and `AcpSession`.

**RpcPeers.** Two FIFOs of frames. A request's task is spawned, enters its handler,
returns and writes in separate steps, and `$/cancel_request` meets it in any of them. A call
that is refused (`Refuse`: no such method, no valid request) is not forgotten before its response is written.
The agent's asks are dialogs at the client that a withdrawal may overtake.

**AcpSession.** A step ends where the code awaits something another task can disturb.
The handlers (prompt, cancel, claim, answer) share `session.lock`; the tail has its own
lock. Sessions and Connections are numbered in the order of opening. Other
connections take the writer at any time (`Replaced`), the root may be deleted, and
entering, using and streaming may fail.

**Transcript.** A function of the journal, which the module extends event by event in
every order the engine can: the view of a client that followed it is compared with
that of one that replays it and, for every cursor an update carried, with what one
that resumes is sent.

**AcpClient.** One callback with the promise reactions it triggers is a step. The
server is reduced to what the client can observe.

## The runs

| Run | Checks | Shows |
|---|---|---|
| `coordinator` | `TransactionOwnsRoot`, `CommitsAreFenced`, `TokensAreExclusive`, `OwnershipMovesForward`, `DeletionIsFinal`, `ImplementsFencedLog` (`Lease`); `HintsArrive` (`Hints`, `Dispatch`) | expiry, crash, lost replies, renewals, relinquishment and deletion never let two owners commit; a commit reaches every watch and a request its dispatcher, whatever connections are lost, queries fail and interests move |
| `forwarding` | `CommandsOnce`, `RepliesTellTheTruth`, `WritersAreFenced`, `RequestsAreAnswered` | retries, takeovers and lost outcomes; no failure wedges the dispatcher |
| `drain` | `TurnsRunOnce`, `StartsInOrder`, `CancelledWorkHasEnded`, `HeaderAgrees` | scheduling with and without a coordinator, with exceptions; without one also close and a restart, and a cancellation repeated after a restart cut it short |
| `drain_live` | `InputsSettle` | no accepted input is stranded while nothing raises (and, with a coordinator, no cancellation is repeated) |
| `runtime` | `OneTerminalPerTurn`, `TakeoversAreClean` (`Takeover`); `DeletionsAreClean` (`Deletion`); `WaitersAreTold` (`WaitResult`); `HistoriesAreSound`, `CallsAreSettled` (`TurnEngine`); `TreesStayDeleted`, `FencedWrites`, `FieldsAreKept`, `CleanupIsExact` (`SessionRows`) | takeover with crashes, failures, expiry and shutdown; deletion; waiting; turns cancelled at any point; transactions of processes with and without an ownership |
| `storage` | `JournalsAreKept` (`DeltaStream`, `FileStore`); `IndexAgrees` (`JournalIndex`); `NothingIsLeftBehind` (`Streams`); `PagesAreSound`, `StreamsAreGapless` (`CommittedPages`) | what is written is kept, what is derived agrees, what is read is whole |
| `streams_live` | `StreamsCatchUp` | two streams of a root that is watched all along catch up |
| `acp` | `RequestsEndOnce` (`RpcPeers`); `TailsShowEverything`, `WritersAgree` (`AcpSession`); `WatchersAreCurrent` (`RootWatch`); `ReplaysAgree` (`Transcript`); `PromptsSettle`, `UpdatesAreContiguous` (`AcpClient`); `SocketsEndProperly` (`Sockets`) | cancellations, takeovers, disconnections, resumes and shutdown at any point |
| `pages_hang` | `LoopKeepsTurning`, violated | a finding |
| `takeover_late_fault` | `OneTerminalPerTurn`, violated | a finding |
| `client_reopened` | `UpdatesAreContiguous`, violated | a finding |
| `lease_revived` | `NoRevival`, violated | a finding |

`TakeoversAreClean` is `RenewalsKnowTheirLease`, `OpenTurnsAreTheOwners` and
`EndsAreReported`; `JournalsAreKept` is `DeltasAreKept` and `JournalsSurvive`;
`HintsArrive` is `NoHintIsLost` (`SnapshotsFollow`, `NothingIsSleptOver`, `WatchesKeepUp`) and
`DispatchKeepsUp` (`RequestsAreNoticed`, `DispatchersAreApart`); `WatchersAreCurrent` is `TreesAreCurrent`,
`HeldTokensAreKept` and `LostTokensAreDropped`.

### Bounds

- `coordinator`: three instances (an owner, a successor and a bystander), generations up
  to 3 (two takeovers, so a stale token can be two behind), two committed batches (the
  property compares two). For the hints one root, one restricted interest, two observers, one
  change and one fault: everything the loop keeps is per root, and the property is about
  the newest change. For the dispatcher three roots with a request each and two slots, so that slots
  run out while a root waits. Everything in this run is proved for any numbers.
- `forwarding`: two instances, two connections, generation 2. A claim and one input meet a
  takeover, deadlines and two faults; with a third request (the retry of the input, or the
  claim that replaces its writer) one of a takeover, a fault and a deadline. Interchangeable
  identities are used in one order (`InOrder`). The safety properties are proved for any numbers.
- `drain*`: one user input and one delivered in `drain` (a second user input is
  treated like the delivered one by every cancellation that reaches both), two and one in
  `drain_live`; one cancellation that may be repeated, three task identities (a
  cancelled task, its successor and one more), three client calls (in `drain` two more
  where a restart has cut a cancellation short: `MayCall`), one restart or
  close. `MaxRestarts` bounds closing and restarting together; both are local,
  because with a coordinator another runtime recovers the root first (`Takeover`).
- `runtime`: for `Takeover`, `Scenarios` lists combinations of inputs with one or two kinds
  of disturbance, each once, with two runtimes and two generations, so that an owner
  can lose the root to another that recovers it; the properties are proved for any
  combination and any numbers. One tree with a child, two inputs, one
  failing deletion. For waiters one fault at a time, up to three periodic samples (a waiter
  gives up at the second). For the engine one turn of two steps with two calls of
  every kind and an ask, and three turns over a backlog with two compactions (the
  second cuts what the first left). A root and one child, two connections, two generations
  and two transactions in all, from a database without the tree, with its root or with both:
  each property of `SessionRows` is about one transaction and another, and the theorems
  are about any number.
- `storage`: two processes, five lines in batches of two, two crashes, or a crash and a
  power loss; a root with two commands and a child with one, four events, one checkpoint left
  behind, rebuilt in pages of two; two readers, four events, a page of two, a direct
  read of three, two events too heavy to be kept together and one too heavy to
  be kept at all; seven deltas with one above the limit; a stream opened twice with a
  catch-up that fails.
- `streams_live`: two streams, two openings or failed queries in all; one event, because a
  wake-up is lost or not for one event.
- `acp`: `SessionLoads`, `ClientLoads`, `Sizes` and `Scenarios` list what may happen in a
  behaviour and how often: two takeovers, two claims, two resumes, three prompts
  of a client without the profile, two drops of the socket, three events, and so
  on; no list has everything at once, because two disturbances meet in
  each pair that shares state. One request, a batch of two, one ask and one
  cancellation for the peers; two watchers and two connections of a root; two sockets with
  one frame each.

Symmetry is used for interchangeable identities in the safety runs and in no liveness
run. Deadlock is not checked: behaviours end when the bounds are reached,
and a system without clients may rest. That nobody waits for ever is what the liveness
properties and, for single waiters, `WaitersAreTold`, `WatchersAreCurrent` and
`NothingIsLeftBehind` state: who sleeps has missed nothing.

### Fairness

Weak fairness of the steps of a task, a dispatcher, a stream or a fetch: the
asyncio loop resumes whatever is ready, database calls return (or fail), and a turn
ends. Dispatching and catching up are repeated every `catch_up_interval` by
`coordinator.py`. Streams also assume a consumer that comes back for the next
item. Nothing is assumed fair that a client chooses: sending, cancelling,
retrying, closing, opening and leaving, nor crashes, expiry, failures and commits of
other processes.

## Findings

- `pages_hang` (`_pages.py:163`). A reader joins a fetch that is done but not
  yet forgotten, and whose page does not serve its cursor: the loop never
  suspends and the process stops.
- `takeover_late_fault` (`runtime.py:2335`). Recovery fails after it has activated an
  actor, and the release is refused because that actor has work. The next request
  recovers the root again, takes the turn the task has begun for one left open
  and interrupts it; the engine ends it a second time.
- `client_reopened` (`client.ts:516`). A session that is closed and resumed while an
  update of the closed one is on its way takes its cursor from that update and
  drops the replay it asked for.
- `lease_revived` (`coordinator.py:441`). A renewal extends the lease without asking again whether it has
  expired since its SELECT, so a lease that expires between the two statements comes back
  under its generation. `design/011_coordinator.md:18` says "An expired lease cannot be
  renewed." No two owners come of it, because the renewal holds the row: `OwnershipMovesForward`
  is checked and proved.

## Known exceptions

What the properties leave out, or the constants exclude, because the code does not
provide it. Each can be reproduced by the change that is named.

- A repeated coordinated `cancel` (`runtime.py:2611`) acts on the tasks a second time; a
  task without a turn is cancelled whatever it is about to start, and an input sent
  after the first cancellation can stay queued (`RetriedCancels = {TRUE}` in
  `MCDrainLive.cfg`: `InputsSettle` fails).
- A cancelled task that unwinds slowly appends `TurnCancelled` for a turn its successor
  is running (`runtime.py:2183`; `SlowUnwind = TRUE` in `MCDrain.cfg`: `TurnsRunOnce`
  fails).
- A task that raises is replaced only if an activation was counted after it was
  created (`runtime.py:2241`), so inputs accepted before that wait for the next call that
  activates the actor (`MayRaise = TRUE` in `MCDrainLive.cfg`: `InputsSettle` fails).
- When nobody watched the root before, a stream that reaches `_current_observation` before
  the watcher stores the first snapshot; the watcher finds nothing changed and a second
  stream stays asleep until something else is committed (`runtime.py:548`; `Connected =
  FALSE` in `MCStreams.cfg`: `StreamsCatchUp` fails).
- A cancellation that ends a queued input clears the header's `current_turn_id` for the
  turn that runs (`stores/base.py:209`). During a cancellation that turn is about to end
  as well; but one that is repeated after a restart cut it short does it to a turn that goes on (`HeaderAgrees` sets
  both apart; `concepts/durability.md:27` says "Session headers retain the latest actor state, current turn").
- A request is looked for only by the check every `catch_up_interval` after a query has failed,
  because the event was cleared before (`coordinator.py:1159`, `1227`; `RequestsAreNoticed` excepts `missed`).
- An expired lease seen by a sample that a failed catch-up replaces is not shown by
  `watch_tree` until the next change (`coordinator.py:1137`; the scenario
  `W(TRUE, 0, 0, 1, 0, 0, 2, 0, 1)` in `MCAcp`: `WatchersAreCurrent` fails).
- Call ids are unique in what the model is shown, not over the whole session: after a
  compaction an id may return (`TurnEngine!CallIdsAreUnique` fails; `reference/acp.md:104`
  says "Call IDs are unique within a session").
- A child's end is not reported when the host is cancelled between the child's
  terminal event and the delivery (`Takeover!EveryEndIsReported` fails; `EndsAreReported`
  sets cancellations apart).
- Without a coordinator, a waiter that is asleep when its tree is deleted is not woken
  (`WaitResult!WaitersHearOfDeletion` fails), where `reference/runtime.md:38` says that
  result waits fail with `SessionNotFound`.
- A `$/cancel_request` that meets a task before its first step leaves the request without a
  response (`ReceivedCallsAreAnswered` sets it apart), where `reference/acp.md:85` says that
  cancellation follows JSON-RPC 2.0 and the ACP rules. So does one that meets a refused single call while its error
  response is written, because the call is still registered (`acp/jsonrpc.py:238`; `RpcPeers!Dropped`).
- In `AcpSession`, a claim during a replay, a resume that replaces a session, and asks a
  client declined are described by `reference/acp.md` more strictly than the code does;
  `AsksAreTheWriters`, `PendingAsksAreShown` and `WriterUpdatesAgree` say what holds.
  An answer that fails for a transient reason is not asked for again until the writer
  changes (`agent.py:1198`).
- `disconnect` and `connect` during a slow `onUpdate` may apply updates twice, and a second
  `resume` that fails after a deferred close leaves the server's session open; the loads
  of `MCAcp` keep these combinations apart.
- `FileStore`: a retry that finds its line in the journal is told it is a duplicate without a sync
  (`stores/fs.py:127`). When the first attempt stopped before its own, a power loss takes a line that was
  acknowledged (`AcknowledgedLinesAreKept` sets `lent` lines apart), and where the header counts
  it already its number is not used again (`SeqsAreContiguous` sets `skipped` apart).
- `FileStore`: the repair sets `last_seq` alone; the other fields of the header, a
  summary for listings, are not reduced again.

## What is proved

The theorems hold for any sets of instances, requests, connections, readers, sockets and
so on, and for any bounds. Their assumptions are the ones named in the modules
(`InstanceAssumption`, `BoundAssumption`, `ForwardingAssumption`, `SessionRowsAssumption`,
`PagesAssumption`, `SocketsAssumption`, `HintsAssumption`, `DispatchAssumption`, `DrainAssumption`,
`NoneAssumption`, `TakeoverAssumption`): "no one" is not an identity or a value, the
bounds are natural numbers, page limits are positive, the readers and a dispatcher's roots are finitely many, inputs of users, inputs of
events and cancellations have different ids. TLC
evaluates them in the runs of those modules.

*Lease.* `CommitsAreFenced` is not inductive: it says nothing of the transaction
that is about to commit. `IInv` adds that an open transaction's token is the row's
(`TransactionOwnsRoot`), what an open transaction has promised to its commit
(`EndingsAreWritten`), that owner, enrolment, deletion and generation of
the row go together (`RowIsConsistent`), that no token is newer than the row and the
current generation's token belongs to the owner (`TokensFollowRow`), and the same for
the log (`LogFollowsRow`), and that a renewal between its statements holds the lock and the row still names its
owner and generation, expired or not (`RenewalOwnsRoot`). One lemma per action shows that it is
preserved; the key facts are that a transaction holds the advisory lock, so
nobody changes owner or generation under it, and that acquiring takes a generation
no token and no batch mentions. From it follow `TypesHold`,
`TransactionsOwnTheirRoot`, `FencingHolds`, `TokensStayExclusive`,
the action properties `OwnershipMoves` and `DeletionsAreFinal`, and `Refinement`:
every step of `Lease` is a step of `FencedLog` or a stutter.

*Forwarding.* `IInv` is `TypeOK`, `CommandsOnce`, `RepliesTellTheTruth` and
`WritersAreFenced` with two more parts: `RowsFollowCalls` (only requests
of a connection are open or stored, and only stored ones answered) and `WriterFollowsLog` (the writer in the
row, if any, made the latest claim of the log, with nothing but sends after it). The argument is that the
log changes only in `Commit`, which locks a row without a reply, consults the log for
the command and for the writer, and stores the reply in the same step. `CommandsAreAppliedOnce`,
`RepliesAreTrue`, `WritersStayFenced` and `TypesHold` follow.

*DrainLoop.* `TurnsRunOnce`, `StartsInOrder` and `CancelledWorkHasEnded` speak of the journal
alone; what keeps them is who may still write. The theorems suppose `SlowUnwind = FALSE`:
a cancelled task does nothing but unwind once it is resumed. With `TRUE` `TurnsRunOnce` is
false of the code (`runtime.py:2183`, see the known exceptions). `DrainInvariant` is the
inductive invariant:

- `JournalInv`: the events of an input come in order and each once, one turn is open at
  most, started inputs precede pending ones, and a recorded cancellation names all it is for;
- `TaskInv`: a task that is not the active one is on its way out, and no two tasks have one
  generation, so the generation check of the engine stops all but one;
- `EngineInv`: the engine that may append has the actor's turn, which has ended only while
  a cancellation that will stop the task still holds the lock. This makes the
  unchecked terminal append of the engine right;
- `PrepareInv`: what a task read outside the lock is still the oldest pending input, or no
  longer pending, when it claims it;
- `RivalInv`: no unwinding task has the turn of an engine that may append, so that
  the handler's "if it is still open" closes nobody else's turn;
- `ShutdownInv`, `LocalInv`, `CoordinatedInv`, `ReceiptInv`: what `aclose` and the
  two forms of cancellation have done, and still have to do, between their steps.

There is a lemma for what each kind of append does to `JournalInv`, and one for every action
and every part it can disturb. `TurnsRunOnceAlways`, `TurnsStartInOrder` and
`CancelledWorkAlwaysEnds` follow, for any number of tasks, inputs, cancellations and restarts.

*Takeover.* `OneTerminalPerTurn` and `TakeoversAreClean` are proved for any set of runtimes
and any number of takeovers, crashes, failed renewals, cancellations and inputs, under
`LateFaults = FALSE`. With `TRUE` `OneTerminalPerTurn` is false of the code: that is the finding
`takeover_late_fault`. `TakeoverInvariant` is the inductive invariant:

- `JournalOK`: an accepted command waits, is open or is over, and is over once;
- `Shape`: a runtime has one live task per actor, and no other task has the turn of
  one that runs;
- `TakenOK`: a task's turn was taken from the queue, so that no second task takes it;
- `EngineOK`: while the row names the runtime, the turn it runs is the open one. This
  makes the engine's terminal append right, which checks the fence and not the turn;
- `OwnerOK`: no turn runs without an ownership or before recovery, and the open turns of a
  recovered owner are its own;
- `RenewalOK`: the one renewal task is for the ownership the runtime has;
- `ReportOK`, `Settled`, `Reports`: the child's task looks at the queue only once the child's last
  end is reported or was a cancellation, so the next end cannot come before the report.

Journals change only under the lease, so a step of one runtime leaves the others' parts
alone (`Elsewhere`, `Assemble`): a runtime whose lease has gone has weaker duties, and
whoever acquires it has to recover. There is a lemma for what each append does to a journal and one for
every action. The first attempt failed in `Unwind`: recovery could fail beside a task that was
no longer live and still unwinding, which the guard of `RecoveryFails` did not exclude; it now
speaks of all tasks. `TurnsEndOnce` and `TakeoversStayClean` follow.

*Hints.* `NoHintIsLost` says what is announced to whom when nothing is under way. `IInv` adds
what a query under way holds (`QueryInv`): the roots it may answer for are still observed, with
the interests it was sent for, and whatever was committed after it read has been announced.
Without it the snapshot stored at its end could hide a change. `SnapshotInv`
says that no snapshot is ahead of the database, `Phases` that the tasks run while the service is
started. `HintsAreKept` follows. For the dispatcher `DispatchKeepsUp` is inductive as it stands: what makes
it so is that `DispatchersAreApart` says which roots a running query leaves out, and each of them
sets the event when it is free. `RequestsAreKept` follows.

*SessionRows.* The properties are about one committing step, and what makes that step right
was checked statements before. `IInv` says of every transaction that has not ended what
still stands: the locks it took are held (`LocksAreHeld`), the root it locked is the
tree's (`RootsAreKnown`; an append without an ownership is the exception, and the trigger
stops it), the row it read is the row (`RowsAreCurrent`), nothing is at work beside a change of
the model (`ModelChecksStand`), a creation's tree has a root and is not deleted
(`CreationsStand`), and a deletion has before it what was selected (`DeletionsStand`).
The argument is the same for each: whoever could disturb it must hold the same advisory lock or
row. Only a lease and the deadline of a request run out without a lock, hence the one-sided
form in which `DeletionsStand` speaks of the request. The theorems are
`DeletedStaysDeleted`, `EnrolledTreesAreFenced`, `NoUpdateIsLost` and
`CleanupDeletesWhatItSelected`, with `TypeCorrect`.

*CommittedPages.* `CacheIsSound` and `GaplessStep` say nothing of the page a fetch has read, the
page a reader was woken with or is yielding, or an append not yet published, and each of them
can reach the cache or a consumer later. `RunsAreRight` says that all of them are consecutive events
that begin at the cursor they were read for and end no later than the last commit;
`CacheIsNeeded` that there is a cache only while there are readers. Consecutive is put in
closed form (`IsRun`), from which the pairwise form follows without induction; lemmas about
suffixes, trimming and joining carry it through `publish` and `page`. `PagesInvariant`,
`CacheStaysSound`, `CountsAreRight`, `PagesStaySound` and the action property
`EveryStreamIsGapless` follow.

*Sockets.* `IInv` adds to the property that `aclose` waits for every connection still
registered (`ShutdownWaits`: one admitted while it runs is refused, because `_closing` is set
before it takes the list), and, per connection, how far the wire is (`StageOf`). One lemma
(`OneSocket`) reduces a step of a connection to what it does to its own record, two more (`SameWire`,
`OneMore`) to whether it sends. `ShutdownLeavesNothing`, `EveryClientIsTold` and
`SocketsAreEnded` follow.

Only model-checked: all liveness (fairness and ENABLED are out of the prover's
reach); the modules without a proof module; what compares folds over journals
(`HeaderAgrees`, `IndexAgrees`, `ReplaysAgree`, `HistoriesAreSound`) and that the loop of `publish`
and the queue of `reduce_journal` compute their closed forms (`ClosedForms`, `QueueKeepsOrder`),
inductions over data the provers cannot do.

## Not modelled, and why

- Message contents, tool schemas, prompts, usage and cost: no control depends on them
  in the parts modelled. Providers, telemetry, tracing, the website, the stress
  harness and the sarathi application: I/O, observation and applications. Shell and web
  tools: operating-system processes and HTTP.
- `permissions.py` (`decide`, `strictest`): small and pure; the engine takes any verdict.
- Streams over stores other than PostgreSQL, and the checks a `Connection` adds to them.
- The memory and SQLite stores' appends, which are single transactions; PostgreSQL's
  schema migrations before the journal index.
- Trees deeper than a parent and a child, limits on depth and children, agent discovery.
- Children's transcripts, authentication, `session/list` and `session/new` of the ACP
  interface, and its wire formats.

## Plan

What is left to model of control: trees of three levels in `Takeover`, what a coordinated
`delete` does around its transaction (`_acquire_for_deletion` and the wait for the tasks; the
transaction is in `SessionRows`), and a `Connection`'s checks on a stream.

Theorems to come: `NothingIsLeftBehind` of `Streams`; `DeltasAreKept` of `DeltaStream` and `AcknowledgedLinesAreKept` of `FileStore`
for any bounds.
