----------------------------- MODULE MCRuntime ------------------------------
(* What runtimes do with a root (Takeover, Deletion, WaitResult), the turns  *)
(* they run (TurnEngine), and the transactions on the rows of a tree         *)
(* (SessionRows): one of them, as the initial state says.                    *)
EXTENDS SessionRows, Takeover, TLC

CONSTANTS r1, r2, k1, k2

VARIABLES part, live, dead, busy, revision, received, tasks, generation,
          known, spawning, deleting, deletion, cleanup, failures, swept, case,
          row, failed, sample, obs, moved, owed, close, waiter, idle, log,
          mode, size, history, lastSeq, engine, tool, recording, asks,
          answering

\* Takeover: inputs for the parent and for the child, failures of a task or a
\* renewal and of recovery, expiries, crashes, closings and cancellations.
B(p, c, f, v, e, k, cl, ca) ==
    [parent |-> p, child |-> c, fail |-> f, recovery |-> v, expire |-> e,
     crash |-> k, close |-> cl, cancel |-> ca]
Scenarios ==
    {B(1, 1, 1, 0, 0, 0, 0, 0),    \* a transient failure
     B(0, 2, 0, 1, 0, 1, 0, 0),    \* a crash, and recovery fails
     B(0, 1, 0, 0, 1, 0, 0, 0),    \* a lease that expires under its owner
     B(0, 2, 1, 0, 0, 1, 0, 0),    \* a failure and a crash
     B(0, 2, 0, 0, 0, 0, 1, 0),    \* an orderly shutdown
     B(0, 2, 0, 0, 0, 0, 0, 1)}    \* a cancellation
Dormant == TakeoverInit /\ left = B(0, 1, 0, 0, 1, 0, 0, 0)

\* Deletion: one root with a child, two inputs, one failure.
Root == {1}
Inputs == 2
Writes == 1
Failures == 1

\* WaitResult: with and without a coordinator, one kind of fault at a time.
K(m, f, t, n, o) == [mode |-> m, fault |-> f, turns |-> t, samples |-> n, owners |-> o]
Cases ==
    {K("observed", "none", 1, 3, 1), K("observed", "failure", 2, 1, 1)}
      \cup {K("observed", f, 1, 1, 1) : f \in {"closing", "outage", "deletion"}}
      \cup {K("local", f, 2, 0, 0) : f \in {"none", "failure", "closing", "deletion"}}

\* TurnEngine: one turn with every kind of call and an ask, in two steps; and
\* three turns over a backlog, with compactions.
ProviderId == {1}
MaxAttempts == 2
Modes == {"full", "compacted"}
Sizes ==
    {[steps |-> 2, shapes |-> {"garbled", "submit", "forbidden", "guarded", "free"},
      turns |-> 1, calls |-> 2, asks |-> 1, compactions |-> 1, backlog |-> 0],
     [steps |-> 1, shapes |-> {"submit"},
      turns |-> 3, calls |-> 1, asks |-> 0, compactions |-> 2, backlog |-> 12]}

\* SessionRows: a database without the tree, for the parts that do not use it.
NoTree == Init /\ header = [a \in Session |-> None]

\* Nothing orders runtimes, nor database connections.
Symmetry == Permutations(Runtime) \cup Permutations(Client)

D == INSTANCE Deletion
W == INSTANCE WaitResult
E == INSTANCE TurnEngine

MCvars == <<part, takeoverVars, D!vars, W!vars, E!vars, vars>>

-----------------------------------------------------------------------------
(* The part that moves, and the variables of the others, which stay as they are. *)

InT == part = "takeover" /\ UNCHANGED
    <<part, live, dead, busy, revision, received, tasks, generation, known,
      spawning, deleting, deletion, cleanup, failures, swept, case, row,
      failed, sample, obs, moved, owed, close, waiter, idle, log, mode, size,
      history, lastSeq, engine, tool, recording, asks, answering, header,
      gone, fence, expired, activity, request, advisory, rowLock, txn, begun>>

InD == part = "deletion" /\ UNCHANGED
    <<part, lease, queue, open, opener, ended, accepted, executing, left,
      sent, own, unrecovered, renewals, lock, drains, delivered, failedStart,
      closing, up, case, row, failed, sample, obs, moved, owed, close, waiter,
      idle, log, mode, size, history, lastSeq, engine, tool, recording, asks,
      answering, header, gone, fence, expired, activity, request, advisory,
      rowLock, txn, begun>>

InW == part = "wait" /\ UNCHANGED
    <<part, lease, queue, open, opener, ended, accepted, executing, left,
      sent, own, unrecovered, renewals, lock, drains, delivered, failedStart,
      closing, up, live, dead, busy, revision, received, tasks, generation,
      known, spawning, deleting, deletion, cleanup, failures, swept, log,
      mode, size, history, lastSeq, engine, tool, recording, asks, answering,
      header, gone, fence, expired, activity, request, advisory, rowLock, txn,
      begun>>

InE == part = "engine" /\ UNCHANGED
    <<part, lease, queue, open, opener, ended, accepted, executing, left,
      sent, own, unrecovered, renewals, lock, drains, delivered, failedStart,
      closing, up, live, dead, busy, revision, received, tasks, generation,
      spawning, deleting, deletion, cleanup, failures, swept, case, row,
      failed, sample, obs, moved, owed, close, waiter, idle, header, gone,
      fence, expired, activity, request, advisory, rowLock, txn, begun>>

InRows == part = "rows" /\ UNCHANGED
    <<part, lease, queue, open, opener, ended, accepted, executing, left,
      sent, own, unrecovered, renewals, lock, drains, delivered, failedStart,
      closing, up, live, dead, busy, revision, received, tasks, generation,
      known, spawning, deleting, deletion, cleanup, failures, swept, case,
      row, failed, sample, obs, moved, owed, close, waiter, idle, log, mode,
      size, history, lastSeq, engine, tool, recording, asks, answering>>

InitT ==
    /\ part = "takeover" /\ TakeoverInit
    /\ NoTree /\ live = 0 /\ dead = 0 /\ busy = 0 /\ revision = 0
    /\ received = 0 /\ tasks = 0 /\ generation = 0 /\ known = 0
    /\ spawning = 0 /\ deleting = 0 /\ deletion = 0 /\ cleanup = 0
    /\ failures = 0 /\ swept = 0 /\ case = 0 /\ row = 0 /\ failed = 0
    /\ sample = 0 /\ obs = 0 /\ moved = 0 /\ owed = 0 /\ close = 0
    /\ waiter = 0 /\ idle = 0 /\ log = 0 /\ mode = 0 /\ size = 0
    /\ history = 0 /\ lastSeq = 0 /\ engine = 0 /\ tool = 0 /\ recording = 0
    /\ asks = 0 /\ answering = 0

InitD ==
    /\ part = "deletion" /\ D!Init
    /\ Dormant /\ NoTree /\ case = 0 /\ row = 0 /\ failed = 0 /\ sample = 0
    /\ obs = 0 /\ moved = 0 /\ owed = 0 /\ close = 0 /\ waiter = 0 /\ idle = 0
    /\ log = 0 /\ mode = 0 /\ size = 0 /\ history = 0 /\ lastSeq = 0
    /\ engine = 0 /\ tool = 0 /\ recording = 0 /\ asks = 0 /\ answering = 0

InitW ==
    /\ part = "wait" /\ W!Init
    /\ Dormant /\ NoTree /\ live = 0 /\ dead = 0 /\ busy = 0 /\ revision = 0
    /\ received = 0 /\ tasks = 0 /\ generation = 0 /\ known = 0
    /\ spawning = 0 /\ deleting = 0 /\ deletion = 0 /\ cleanup = 0
    /\ failures = 0 /\ swept = 0 /\ log = 0 /\ mode = 0 /\ size = 0
    /\ history = 0 /\ lastSeq = 0 /\ engine = 0 /\ tool = 0 /\ recording = 0
    /\ asks = 0 /\ answering = 0

InitE ==
    /\ part = "engine" /\ E!Init
    /\ Dormant /\ NoTree /\ live = 0 /\ dead = 0 /\ busy = 0 /\ revision = 0
    /\ received = 0 /\ tasks = 0 /\ generation = 0 /\ spawning = 0
    /\ deleting = 0 /\ deletion = 0 /\ cleanup = 0 /\ failures = 0
    /\ swept = 0 /\ case = 0 /\ row = 0 /\ failed = 0 /\ sample = 0 /\ obs = 0
    /\ moved = 0 /\ owed = 0 /\ close = 0 /\ waiter = 0 /\ idle = 0

InitRows ==
    /\ part = "rows" /\ Init
    /\ Dormant /\ live = 0 /\ dead = 0 /\ busy = 0 /\ revision = 0
    /\ received = 0 /\ tasks = 0 /\ generation = 0 /\ known = 0
    /\ spawning = 0 /\ deleting = 0 /\ deletion = 0 /\ cleanup = 0
    /\ failures = 0 /\ swept = 0 /\ case = 0 /\ row = 0 /\ failed = 0
    /\ sample = 0 /\ obs = 0 /\ moved = 0 /\ owed = 0 /\ close = 0
    /\ waiter = 0 /\ idle = 0 /\ log = 0 /\ mode = 0 /\ size = 0
    /\ history = 0 /\ lastSeq = 0 /\ engine = 0 /\ tool = 0 /\ recording = 0
    /\ asks = 0 /\ answering = 0

MCInit == InitT \/ InitD \/ InitW \/ InitE \/ InitRows

MCNext ==
    \/ InT /\ LeaseExpires
    \/ InT /\ \E r \in Runtime : EnsureOwner(r)
    \/ InT /\ \E r \in Runtime : \E t \in renewals[r] : RenewFails(r, t)
    \/ InT /\ \E r \in Runtime : \E t \in renewals[r] : Invalidate(r, t)
    \/ InT /\ \E r \in Runtime : Recover(r)
    \/ InT /\ \E r \in Runtime : RecoveryDelivers(r)
    \/ InT /\ \E r \in Runtime : \E a \in Actor : RecoveryActivates(r, a)
    \/ InT /\ \E r \in Runtime : Recovered(r)
    \/ InT /\ \E r \in Runtime : RecoveryFails(r)
    \/ InT /\ \E r \in Runtime : \E a \in Actor : RequestRecovers(r, a)
    \/ InT /\ \E r \in Runtime : \E a \in Actor : HandleRequest(r, a)
    \/ InT /\ \E r \in Runtime : ApplyRequest(r)
    \/ InT /\ \E r \in Runtime : HandleCancel(r)
    \/ InT /\ \E r \in Runtime : ActorCancel(r)
    \/ InT /\ \E r \in Runtime : \E d \in drains[r] : DrainBegin(r, d)
    \/ InT /\ \E r \in Runtime : \E d \in drains[r] : Reconcile(r, d)
    \/ InT /\ \E r \in Runtime : \E d \in drains[r] : DrainEmpty(r, d)
    \/ InT /\ \E r \in Runtime : \E d \in drains[r] : StartTurn(r, d)
    \/ InT /\ \E r \in Runtime : \E d \in drains[r] : InterruptOpen(r, d)
    \/ InT /\ \E r \in Runtime : \E d \in drains[r] : CompleteTurn(r, d)
    \/ InT /\ \E r \in Runtime : \E d \in drains[r] : Deliver(r, d)
    \/ InT /\ \E r \in Runtime : \E d \in drains[r] : DrainFails(r, d)
    \/ InT /\ \E r \in Runtime : \E d \in drains[r] : Unwind(r, d)
    \/ InT /\ \E r \in Runtime : \E d \in drains[r] : Finally(r, d)
    \/ InT /\ \E r \in Runtime : ReleaseIdle(r)
    \/ InT /\ \E r \in Runtime : Released(r)
    \/ InT /\ \E r \in Runtime : ReleaseRefused(r)
    \/ InT /\ \E r \in Runtime : Close(r)
    \/ InT /\ \E r \in Runtime : CloseRoot(r)
    \/ InT /\ \E r \in Runtime : Crash(r)
    \/ InD /\ \E r \in Root : D!Send(r)
    \/ InD /\ \E r \in Root : D!SpawnInput(r)
    \/ InD /\ \E r \in Root : D!SpawnFails(r)
    \/ InD /\ \E r \in Root, allow \in BOOLEAN : D!Delete(r, allow)
    \/ InD /\ \E r \in Root : D!DeleteFails(r)
    \/ InD /\ \E r \in Root : D!FinishDeletion(r)
    \/ InD /\ \E r \in Root : D!Forget(r)
    \/ InD /\ \E t \in tasks : D!StartTurn(t)
    \/ InD /\ \E t \in tasks : D!EngineAppend(t)
    \/ InD /\ \E t \in tasks : D!EndTurn(t)
    \/ InD /\ \E t \in tasks : D!SpawnHeader(t)
    \/ InD /\ \E t \in tasks : D!TaskEnds(t)
    \/ InD /\ \E found \in D!Selections, allow \in BOOLEAN : D!SelectCleanup(found, allow)
    \/ InD /\ D!CleanupDeletes
    \/ InD /\ D!CleanupSkips
    \/ InW /\ W!Acquire
    \/ InW /\ W!RecoveryDone
    \/ InW /\ W!OwnerLost
    \/ InW /\ W!Activate
    \/ InW /\ W!EndTurn
    \/ InW /\ W!DrainFails
    \/ InW /\ W!ForgetError
    \/ InW /\ W!Deactivate
    \/ InW /\ W!Delete
    \/ InW /\ W!CatchUp
    \/ InW /\ W!CatchUpFails
    \/ InW /\ W!NotifyWaiter
    \/ InW /\ W!Close
    \/ InW /\ W!Closed
    \/ InW /\ W!Begin
    \/ InW /\ W!First
    \/ InW /\ W!NoteFirst
    \/ InW /\ W!CloseCompleted
    \/ InW /\ W!LastRead
    \/ InW /\ W!LookObserved
    \/ InW /\ W!Reread
    \/ InW /\ W!LookLocal
    \/ InW /\ W!NoteGeneration
    \/ InW /\ W!SecondRead
    \/ InW /\ W!Sleep
    \/ InW /\ W!Wake
    \/ InE /\ E!Run
    \/ InE /\ E!BeginSample
    \/ InE /\ E!CompactionFails
    \/ InE /\ E!Deltas
    \/ InE /\ E!RecoverOverflow
    \/ InE /\ E!Retry
    \/ InE /\ E!SampleFails
    \/ InE /\ E!SampleEnds
    \/ InE /\ E!SkipGarbled
    \/ InE /\ E!SubmitOutput
    \/ InE /\ E!Reject
    \/ InE /\ E!AskApproval
    \/ InE /\ E!Approval
    \/ InE /\ E!PassPreflight
    \/ InE /\ E!Start
    \/ InE /\ E!NextStep
    \/ InE /\ E!EndTurn
    \/ InE /\ \E c \in DOMAIN tool : E!ToolAsks(c)
    \/ InE /\ \E c \in DOMAIN tool : E!ToolReturns(c)
    \/ InE /\ \E c \in DOMAIN tool : E!Record(c)
    \/ InE /\ \E c \in DOMAIN tool : E!AbsorbRead(c)
    \/ InE /\ \E c \in DOMAIN tool : E!AbsorbPage(c)
    \/ InE /\ \E c \in asks, allow \in BOOLEAN : E!AcceptAnswer(c, allow)
    \/ InE /\ E!ResolveAsk
    \/ InE /\ E!Cancel
    \/ InE /\ E!Interrupt
    \/ InE /\ E!Stopped
    \/ InRows /\ Acquire
    \/ InRows /\ Expire
    \/ InRows /\ DeadlinePasses
    \/ InRows /\ \E kind \in {"command", "control"} : PutRequest(kind)
    \/ InRows /\ \E k \in Client : Begin(k)
    \/ InRows /\ \E k \in Client : Lookup(k)
    \/ InRows /\ \E k \in Client : Lock(k)
    \/ InRows /\ \E k \in Client : LockRow(k)
    \/ InRows /\ \E k \in Client : LockTree(k)
    \/ InRows /\ \E k \in Client : Write(k)
    \/ InRows /\ \E k \in Client : Abort(k)

MCSpec == MCInit /\ [][MCNext]_MCvars

-----------------------------------------------------------------------------
(* Properties: what each part promises while it moves. *)

\* A task a deletion has cancelled never passes its generation check again;
\* cleanup deletes no tree that received an input since it was selected; once a
\* deletion is over, nothing in the runtime mentions its tree.
DeletionsAreClean == part = "deletion" =>
    /\ D!CancelledTasksAreFenced
    /\ D!CleanupLosesNoInput
    /\ D!DeletedTreesAreForgotten

\* A sleeping waiter with no notification on its way has missed nothing, and a
\* waiter gives up only after two samples in which nobody executed its actor.
WaitersAreTold == part = "wait" =>
    /\ W!SleepersHaveSeenItAll
    /\ W!GivesUpOnEvidence

\* What the engine shows the model agrees with the journal, is a well-formed
\* conversation whose calls are distinct, and misses no turn since the
\* compaction.
HistoriesAreSound == part = "engine" =>
    /\ E!ContextAgrees
    /\ E!RequestsAreWellFormed
    /\ E!ShownCallsAreDistinct
    /\ E!NoTurnIsForgotten

\* Every call of a sample is settled before the next sample, a guarded one runs
\* only once it was allowed, and an answer is accepted by the turn that asked.
CallsAreSettled == part = "engine" =>
    /\ E!TypeOK
    /\ E!CallsAreSettled
    /\ E!RunsAreApproved
    /\ E!AnswersReachTheirTurn

=============================================================================
