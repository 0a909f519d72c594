----------------------------- MODULE DrainLoop -----------------------------
(***************************************************************************)
(* One root actor inside one Runtime: clients that queue inputs and cancel *)
(* them, and the drain tasks that turn queued inputs into turns.           *)
(*                                                                         *)
(* Everything runs on one event loop.  A critical section under the root's *)
(* asyncio.Lock is one step, with one exception: a cancellation.  Without  *)
(* a coordinator it appends its events one by one, with one it commits and *)
(* then acts on the tasks; other tasks read the journal and the process    *)
(* may stop in between.  Reads outside the lock are steps of their own, so *)
(* what a task read may be stale when it acts on it.  task.cancel() takes  *)
(* effect when the task is next resumed.                                   *)
(***************************************************************************)
EXTENDS Journal, SequencesExt

CONSTANTS
    UserInput,      \* command ids of inputs sent by a Connection
    EventInput,     \* command ids of inputs from deliver or another actor
    CancelId,       \* command ids of cancellations
    Task,           \* identities of drain tasks, reused once a task is done
    None,           \* no task, no turn
    Coordination,   \* whether there is a coordinator: the cases to consider
    MayRaise,       \* a turn or its preparation may raise
    RetriedCancels, \* the cases in which clients may repeat a cancellation
    SlowUnwind,     \* a cancelled task may take its time to unwind
    MaxCalls,       \* bound on the number of client calls
    MaxRestarts     \* bound on the number of times the process ends

Input == UserInput \cup EventInput

ASSUME DrainAssumption ==
    /\ UserInput \cap EventInput = {}
    /\ Input \cap CancelId = {}
    /\ None \notin Task \cup Input \cup CancelId
    /\ Coordination \subseteq BOOLEAN /\ RetriedCancels \subseteq BOOLEAN
    /\ {MayRaise, SlowUnwind} \subseteq BOOLEAN
    /\ MaxCalls \in Nat /\ MaxRestarts \in Nat

VARIABLES
    journal,        \* the actor's journal
    active,         \* active[agent_id]: the task that drains, or None
    task,           \* what each drain task is doing
    activations,    \* _activations[agent_id]
    turnGeneration, \* _turn_generations[agent_id]
    errors,         \* the inputs with a recorded error (_errors)
    cancelling,     \* the cancellation that holds the lock, or None
    acknowledged,   \* history: the cancellations whose caller got a receipt
    shutdown,       \* how far aclose has come
    doomed,         \* the tasks aclose found active
    calls,          \* the number of client calls made
    restarts,       \* the number of times the process was started again
    coordinated     \* there is a coordinator: cancellations go through _handle_request

vars == <<journal, active, task, activations, turnGeneration, errors,
          cancelling, acknowledged, shutdown, doomed, calls, restarts, coordinated>>

clientVars == <<cancelling, acknowledged, shutdown, doomed, calls, restarts,
                   coordinated>>

----------------------------------------------------------------------------
(* Drain tasks *)

\* at: where _drain is.  "enter": it waits for the lock to set its activity;
\* "loop": it is about to read the journal; "interrupt", "check": it waits for
\* the lock to interrupt a turn left open, to recheck an empty queue;
\* "prepare": it gets model, deps and skills, then waits for the lock to claim
\* its input; "start", "run", "ended": the engine before TurnStarted, before
\* its terminal event, after it;
\* "abort", "fail": an exception handler waiting for the lock; "leave": the
\* finally clause waiting for the lock.
At == {"free", "enter", "loop", "interrupt", "check", "prepare", "start",
       "run", "ended", "abort", "fail", "leave"}

TaskState ==
    [at : At,
     current : Input \cup {None},     \* current
     turn : Input \cup {None},        \* _task_turns[task]
     activation : Nat,                \* the generation it was created with
     generation : Nat,                \* turn_generation
     cancelled : BOOLEAN,             \* task.cancel() was called
     unwound : BOOLEAN]               \* failed or aborted

FreeTask ==
    [at |-> "free", current |-> None, turn |-> None, activation |-> 0,
     generation |-> 0, cancelled |-> FALSE, unwound |-> FALSE]

\* A cancellation in progress: the targets still to do, whether the decision it
\* made stands, the turn its task had, and the last target it ended.
Cancelled(k) == [id : {k}, todo : Seq(Input), decision : BOOLEAN,
                 turn : Input \cup {None}, last : Input \cup {None}]

ASSUME NoneAssumption == \A k \in CancelId : None \notin Cancelled(k)

\* The events of this actor's journal.
Event ==
    [kind : Terminal \cup {"InputQueued", "TurnStarted"}, id : Input]
    \cup [kind : {"CancellationRequested"}, id : CancelId, targets : Seq(Input),
          descendants : BOOLEAN]

\* The variables have their types, the journal's events name inputs and
\* cancellations, and `active' never names a task that has ended.
TypeOK ==
    /\ journal \in Seq(Event)
    /\ active \in Task \cup {None}
    /\ active # None => task[active].at # "free"
    /\ task \in [Task -> TaskState]
    /\ activations \in Nat
    /\ turnGeneration \in Nat
    /\ errors \subseteq Input
    /\ cancelling = None \/ \E k \in CancelId : cancelling \in Cancelled(k)
    /\ acknowledged \subseteq CancelId
    /\ shutdown \in {"no", "begun", "swept", "done"}
    /\ doomed \subseteq Task
    /\ coordinated \in BOOLEAN

Init ==
    /\ journal = <<>>
    /\ active = None
    /\ task = [t \in Task |-> FreeTask]
    /\ activations = 0
    /\ turnGeneration = 0
    /\ errors = {}
    /\ cancelling = None
    /\ acknowledged = {}
    /\ shutdown = "no"
    /\ doomed = {}
    /\ calls = 0
    /\ restarts = 0
    /\ coordinated \in Coordination

\* _closed
closed == shutdown # "no"

\* The lock is free: only a cancellation holds it across steps.
Unlocked == cancelling = None

\* A task is resumed normally only if nobody has cancelled it.
Resumes(t, where) == task[t].at = where /\ ~task[t].cancelled

Goto(t, where) == task' = [task EXCEPT ![t].at = where]

NewTask(act) == [FreeTask EXCEPT !.at = "enter", !.activation = act]

\* _activate on the state the caller leaves behind: nothing when closed or
\* when a task is already active, otherwise a new drain task.
Activate(tasks, act, count) ==
    IF closed \/ act # None
    THEN task' = tasks /\ active' = act
    ELSE \E t \in {u \in Task : tasks[u].at = "free"} :
            /\ task' = [tasks EXCEPT ![t] = NewTask(count)]
            /\ active' = t

----------------------------------------------------------------------------
(* _drain, one step per lock section or suspension *)

Enter(t) ==
    /\ Unlocked
    /\ Resumes(t, "enter")
    /\ Goto(t, "loop")
    /\ UNCHANGED <<journal, active, activations, turnGeneration, errors, clientVars>>

\* Mutant: the newest input is taken first.
NewestInput == Last(pending(journal)).id

\* state.pending[0]
OldestInput == Head(pending(journal)).id

\* The unlocked read at the top of the loop decides what to do next.
Read(t) ==
    /\ Resumes(t, "loop")
    /\ \/ closed /\ Goto(t, "leave")
       \/ /\ ~closed
          /\ \/ /\ incomplete(journal) # {}
                /\ \E c \in incomplete(journal) :
                      task' = [task EXCEPT ![t].at = "interrupt", ![t].current = c]
             \/ /\ incomplete(journal) = {} /\ pending(journal) = <<>>
                /\ Goto(t, "check")
             \/ /\ incomplete(journal) = {} /\ pending(journal) # <<>>
                /\ task' = [task EXCEPT ![t].at = "prepare",
                                        ![t].current = OldestInput]
    /\ UNCHANGED <<journal, active, activations, turnGeneration, errors, clientVars>>

\* _interrupt_if_incomplete, called for a turn an earlier task left open.
InterruptStopped(t) ==
    /\ Unlocked
    /\ Resumes(t, "interrupt")
    /\ journal' = IF task[t].current \in incomplete(journal)
                  THEN Append(journal, Ended("TurnInterrupted", task[t].current))
                  ELSE journal
    /\ errors' = errors \ {task[t].current}
    /\ task' = [task EXCEPT ![t].at = "loop", ![t].current = None]
    /\ UNCHANGED <<active, activations, turnGeneration, clientVars>>

\* if self.active.get(agent_id) is task: del self.active[agent_id]
ActiveWithout(t) == IF active = t THEN None ELSE active

\* Mutant: the task trusts the read it made before it took the lock.
QueueIsEmptyUnlocked == TRUE

\* The queue is read again in the section that gives up `active'.
QueueIsEmpty == pending(journal) = <<>>

CheckEmpty(t) ==
    /\ Unlocked
    /\ Resumes(t, "check")
    /\ \/ /\ ~QueueIsEmpty
          /\ Goto(t, "loop")
          /\ UNCHANGED active
       \/ /\ QueueIsEmpty
          /\ active' = ActiveWithout(t)
          /\ Goto(t, "leave")
    /\ UNCHANGED <<journal, activations, turnGeneration, errors, clientVars>>

\* The input chosen before the lock must still be pending.
StillPending(c) == c \in PendingIds(journal)

\* A task cancelled before it had a turn.  When what it awaited unwinds at
\* once it is first in line for the lock, ahead of its successor's claim; a
\* deps factory that cleans up as it is cancelled lets the successor pass.
Unwinding(t) == task[t].turn = None /\ (task[t].cancelled \/ task[t].at = "abort")

Claim(t) ==
    /\ Unlocked
    /\ Resumes(t, "prepare")
    /\ SlowUnwind \/ \A u \in Task : ~Unwinding(u)
    /\ \/ /\ ~StillPending(task[t].current)
          /\ task' = [task EXCEPT ![t].at = "loop", ![t].current = None]
          /\ UNCHANGED turnGeneration
       \/ /\ StillPending(task[t].current)
          /\ turnGeneration' = turnGeneration + 1
          /\ task' = [task EXCEPT ![t].at = "start",
                                  ![t].turn = task[t].current,
                                  ![t].generation = turnGeneration + 1]
    /\ UNCHANGED <<journal, active, activations, errors, clientVars>>

\* Mutant: the engine appends without asking whether its turn was replaced.
MayAppendAlways(t) == TRUE

\* _engine_append: the turn must still be the actor's current generation.
MayAppend(t) == turnGeneration = task[t].generation

\* The engine appends TurnStarted, and later one terminal event.  It reaches
\* the lock even when the task has been cancelled, if the turn's own task or a
\* tool swallows the cancellation; the generation check then stops it.
Engine(t, where, next, event) ==
    /\ Unlocked
    /\ task[t].at = where
    /\ MayAppend(t)
    /\ journal' = Append(journal, event)
    /\ Goto(t, next)
    /\ UNCHANGED <<active, activations, turnGeneration, errors, clientVars>>

Start(t) == Engine(t, "start", "run", Started(task[t].current))

Finish(t) ==
    \E kind \in {"TurnCompleted", "TurnFailed"} :
        Engine(t, "run", "ended", Ended(kind, task[t].current))

\* A stale engine sees CancelledError from _engine_append.
Superseded(t) ==
    /\ Unlocked
    /\ Resumes(t, "start") \/ Resumes(t, "run")
    /\ ~MayAppend(t)
    /\ task' = [task EXCEPT ![t].at = "abort", ![t].unwound = TRUE]
    /\ UNCHANGED <<journal, active, activations, turnGeneration, errors, clientVars>>

\* engine.run returned: forget the turn and its error, and go around.
NextTurn(t) ==
    /\ Resumes(t, "ended")
    /\ errors' = errors \ {task[t].current}
    /\ task' = [task EXCEPT ![t].at = "loop", ![t].current = None, ![t].turn = None]
    /\ UNCHANGED <<journal, active, activations, turnGeneration, clientVars>>

\* Any exception but a cancellation: a hook, a prompt, deps or the store.
Raise(t) ==
    /\ MayRaise
    /\ \E where \in {"loop", "interrupt", "check", "prepare", "start",
                     "run", "ended"} : Resumes(t, where)
    /\ Goto(t, "fail")
    /\ UNCHANGED <<journal, active, activations, turnGeneration, errors, clientVars>>

\* except BaseException: record the error for the input it belongs to.
Fail(t) ==
    /\ Unlocked
    /\ Resumes(t, "fail")
    /\ LET blamed == IF /\ task[t].current = None
                        /\ incomplete(journal) = {}
                        /\ pending(journal) # <<>>
                     THEN Head(pending(journal)).id ELSE task[t].current
       IN  /\ errors' = errors \cup ({blamed} \ {None})
           /\ task' = [task EXCEPT ![t].at = "leave", ![t].current = blamed,
                                   ![t].unwound = TRUE, ![t].turn = None]
    /\ UNCHANGED <<journal, active, activations, turnGeneration, clientVars>>

\* CancelledError is delivered.  In a handler it is caught and recorded as the
\* error; in the finally clause it ends the task on the spot, cleanup undone.
Deliver(t) ==
    /\ task[t].cancelled
    /\ CASE task[t].at = "leave" ->
              /\ task' = [task EXCEPT ![t] = FreeTask]
              /\ UNCHANGED errors
         [] task[t].at \in {"abort", "fail"} ->
              /\ errors' = errors \cup ({task[t].current} \ {None})
              /\ task' = [task EXCEPT ![t].at = "leave", ![t].cancelled = FALSE,
                                      ![t].unwound = TRUE, ![t].turn = None]
         [] task[t].at \notin {"leave", "abort", "fail", "free"} ->
              /\ task' = [task EXCEPT
                             ![t].at = IF task[t].current = None THEN "leave" ELSE "abort",
                             ![t].cancelled = FALSE, ![t].unwound = TRUE]
              /\ UNCHANGED errors
    /\ UNCHANGED <<journal, active, activations, turnGeneration, clientVars>>

\* except CancelledError: close the turn if the canceller did not.
Abort(t) ==
    /\ Unlocked
    /\ Resumes(t, "abort")
    /\ \E kind \in {"TurnCancelled", "TurnInterrupted"} :
          journal' = IF task[t].current \in incomplete(journal)
                     THEN Append(journal, Ended(kind, task[t].current))
                     ELSE journal
    /\ task' = [task EXCEPT ![t].at = "leave", ![t].turn = None]
    /\ UNCHANGED <<active, activations, turnGeneration, errors, clientVars>>

\* A task that failed or was aborted hands over when a call came in after it
\* was created; one that ended normally rechecked the queue itself.
Reactivates(t) ==
    task[t].unwound /\ ~closed /\ activations > task[t].activation

\* finally: give up `active' and perhaps start a successor.
Leave(t) ==
    /\ Unlocked
    /\ Resumes(t, "leave")
    /\ LET tasks == [task EXCEPT ![t] = FreeTask]
           act == ActiveWithout(t)
       IN  IF Reactivates(t)
           THEN Activate(tasks, act, activations)
           ELSE task' = tasks /\ active' = act
    /\ UNCHANGED <<journal, activations, turnGeneration, errors, clientVars>>

Drain(t) ==
    \/ Enter(t) \/ Read(t) \/ InterruptStopped(t) \/ CheckEmpty(t)
    \/ Claim(t) \/ Start(t) \/ Finish(t) \/ Superseded(t) \/ NextTurn(t)
    \/ Fail(t) \/ Deliver(t) \/ Abort(t) \/ Leave(t)

----------------------------------------------------------------------------
(* Client calls, each under the lock *)

Call ==
    /\ Unlocked
    /\ ~closed
    /\ calls < MaxCalls
    /\ calls' = calls + 1

\* self._activations[...] + 1
Counted == activations + 1

\* Queue the input unless its command id is known, and activate in either case.
AcceptInput(c) ==
    /\ Call
    /\ journal' = IF c \in Ids(journal, {"InputQueued"})
                  THEN journal ELSE Append(journal, Queued(c))
    /\ activations' = Counted
    /\ Activate(task, active, Counted)
    /\ UNCHANGED <<turnGeneration, errors, cancelling, acknowledged, shutdown, doomed,
                   restarts, coordinated>>

\* _accept_send, and its coordinated form.
Send(c) == c \in UserInput /\ AcceptInput(c)

\* _accept_deliver, and its coordinated form.
DeliverInput(c) == c \in EventInput /\ AcceptInput(c)

\* _actor_send: an actor writes to its parent or to a child of its own.
ActorSend(c) == c \in EventInput /\ AcceptInput(c)

\* The recorded cancellation with this id, if any.
Recorded(k) ==
    {n \in DOMAIN journal : journal[n].kind = "CancellationRequested"
                            /\ journal[n].id = k}

MapIds(s) == [n \in DOMAIN s |-> s[n].id]

\* The queued inputs a cancellation reaches, in order: with descendants=False
\* only the user's.
Reached(descendants) ==
    MapIds(Chosen(journal, {n \in PendingAt(journal) :
                               descendants \/ journal[n].id \in UserInput}))

\* Mutant: only queued inputs are targets, the turn in progress is forgotten.
QueuedTargets(descendants) == Reached(descendants)

\* What a cancellation targets: those inputs and then the turn in progress.
Targets(descendants) ==
    IF incomplete(journal) = {} THEN Reached(descendants)
    ELSE Append(Reached(descendants), CHOOSE c \in incomplete(journal) : TRUE)

\* A cancellation call.  A repeated one must agree with what was recorded.
CancelCall(k, descendants) ==
    /\ Call
    /\ Recorded(k) # {} => coordinated \in RetriedCancels
    /\ \A n \in Recorded(k) : journal[n].descendants = descendants

\* The targets are fixed by the first call.
TargetsOf(k, descendants) ==
    IF Recorded(k) = {} THEN Targets(descendants)
    ELSE journal[CHOOSE n \in Recorded(k) : TRUE].targets

\* The journal once the request is recorded.
WithRequest(k, descendants) ==
    IF Recorded(k) = {}
    THEN Append(journal, Cancellation(k, Targets(descendants), descendants))
    ELSE journal

\* Without a coordinator.  The request is recorded first; the decision to
\* cancel the active task is made before the terminal events.
CancelLocal(k, descendants) ==
    /\ ~coordinated
    /\ CancelCall(k, descendants)
    /\ LET targets == ToSet(TargetsOf(k, descendants))
           turn == IF active = None THEN None ELSE task[active].turn
       IN  cancelling' =
              [id |-> k, todo |-> TargetsOf(k, descendants), turn |-> turn, last |-> None,
               decision |-> /\ active # None
                            /\ \/ turn \in targets
                               \/ turn = None /\ Live(journal) \cap targets # {}]
    /\ journal' = WithRequest(k, descendants)
    /\ UNCHANGED <<active, task, activations, turnGeneration, errors,
                   acknowledged, shutdown, doomed, restarts, coordinated>>

\* Only turns that are still live get a terminal event.
StillLive(c) == c \in Live(journal)

\* The task is cancelled after the terminal event of its turn, or after the
\* first one if it had no turn.
StopIsDue ==
    /\ cancelling.decision
    /\ cancelling.last # None
    /\ cancelling.turn \in {None, cancelling.last}

\* The next target gets its TurnCancelled if it is still live.
CancelTurn ==
    /\ ~coordinated
    /\ cancelling # None
    /\ cancelling.todo # <<>>
    /\ ~StopIsDue
    /\ LET c == Head(cancelling.todo)
       IN  /\ journal' = IF StillLive(c)
                         THEN Append(journal, Ended("TurnCancelled", c)) ELSE journal
           /\ cancelling' = [cancelling EXCEPT !.todo = Tail(@),
                                               !.last = IF StillLive(c) THEN c ELSE None]
    /\ UNCHANGED <<active, task, activations, turnGeneration, errors,
                   acknowledged, shutdown, doomed, calls, restarts, coordinated>>

\* Cancelling the active task: a newer turn generation stops its engine, and
\* the task is no longer the actor's.
Stopped == [task EXCEPT ![active].cancelled = TRUE]

CancelStop ==
    /\ ~coordinated
    /\ cancelling # None
    /\ StopIsDue
    /\ task' = Stopped
    /\ active' = None
    /\ turnGeneration' = turnGeneration + 1
    /\ cancelling' = [cancelling EXCEPT !.decision = FALSE]
    /\ UNCHANGED <<journal, activations, errors, acknowledged, shutdown, doomed,
                   calls, restarts, coordinated>>

\* The end of a cancellation: a task that is still to be stopped is, `counts'
\* and `activates' say whether an activation is counted and whether a task is
\* started for the rest of the queue.
EndCancellation(stops, counts, activates) ==
    /\ LET tasks == IF stops THEN Stopped ELSE task
           act == IF stops THEN None ELSE active
       IN  IF activates
           THEN Activate(tasks, act, Counted)
           ELSE task' = tasks /\ active' = act
    /\ turnGeneration' = IF stops THEN turnGeneration + 1 ELSE turnGeneration
    /\ activations' = IF counts THEN Counted ELSE activations
    /\ cancelling' = None
    /\ UNCHANGED <<journal, errors, shutdown, doomed, calls, restarts, coordinated>>

\* Without a coordinator: a task whose turn had ended already is cancelled all
\* the same; with descendants=False whatever is still queued is activated.
CancelEnd ==
    /\ ~coordinated
    /\ cancelling # None
    /\ cancelling.todo = <<>>
    /\ ~StopIsDue
    /\ LET keeps == /\ \E n \in Recorded(cancelling.id) : ~journal[n].descendants
                    /\ pending(journal) # <<>>
       IN  EndCancellation(cancelling.decision, keeps, keeps)
    /\ acknowledged' = acknowledged \cup {cancelling.id}

\* With a coordinator: one transaction records the cancellation, the terminal
\* events and the reply.  The decision is whether to drain what is left.
CancelCoordinated(k, descendants) ==
    /\ coordinated
    /\ CancelCall(k, descendants)
    /\ LET targets == TargetsOf(k, descendants)
           ended == Chosen(targets, {n \in DOMAIN targets : StillLive(targets[n])})
       IN  /\ journal' = WithRequest(k, descendants)
                         \o [n \in DOMAIN ended |-> Ended("TurnCancelled", ended[n])]
           /\ cancelling' =
                 [id |-> k, todo |-> targets, turn |-> None, last |-> None,
                  decision |-> ~descendants /\ PendingIds(journal) \ ToSet(targets) # {}]
    /\ acknowledged' = acknowledged \cup {k}
    /\ UNCHANGED <<active, task, activations, turnGeneration, errors, shutdown, doomed,
                   restarts, coordinated>>

\* _cancel_local: a task that has no turn yet is cancelled whatever it is about
\* to start.
CancelsTask(targets) ==
    /\ active # None
    /\ targets # <<>>
    /\ task[active].turn \in {None} \cup ToSet(targets)

\* After the commit: _cancel_local, or _cancel_and_drain, which counts an
\* activation for the cancelled task to hand over to, or activates by itself.
CancelEffects ==
    /\ coordinated
    /\ cancelling # None
    /\ LET stops == CancelsTask(cancelling.todo)
       IN  EndCancellation(stops, cancelling.decision, cancelling.decision /\ ~stops)
    /\ UNCHANGED acknowledged

\* aclose without a coordinator, _close_local: no new work from here on; then,
\* under the lock, the turn in progress is superseded and interrupted; then the
\* tasks found at the beginning are cancelled.
Close ==
    /\ ~coordinated
    /\ shutdown = "no"
    /\ restarts < MaxRestarts
    /\ shutdown' = "begun"
    /\ doomed' = {active} \ {None}
    /\ UNCHANGED <<journal, active, task, activations, turnGeneration, errors,
                   cancelling, acknowledged, calls, restarts, coordinated>>

CloseActor ==
    /\ shutdown = "begun"
    /\ Unlocked
    /\ shutdown' = "swept"
    /\ turnGeneration' = IF active = None THEN turnGeneration ELSE turnGeneration + 1
    /\ journal' = IF active = None \/ incomplete(journal) = {} THEN journal
                  ELSE Append(journal,
                              Ended("TurnInterrupted",
                                    CHOOSE c \in incomplete(journal) : TRUE))
    /\ UNCHANGED <<active, task, activations, errors, cancelling, acknowledged,
                   doomed, calls, restarts, coordinated>>

CloseTasks ==
    /\ shutdown = "swept"
    /\ shutdown' = "done"
    /\ active' = None
    /\ task' = [t \in Task |->
                   IF t \in doomed /\ task[t].at # "free"
                   THEN [task[t] EXCEPT !.cancelled = TRUE] ELSE task[t]]
    /\ doomed' = {}
    /\ UNCHANGED <<journal, activations, turnGeneration, errors, cancelling,
                   acknowledged, calls, restarts, coordinated>>

\* The process dies, or is closed and started again: the journal survives.  With
\* a coordinator another runtime recovers the root first, which is not modelled.
Restart ==
    /\ ~coordinated
    /\ restarts < MaxRestarts
    /\ restarts' = restarts + 1
    /\ active' = None
    /\ task' = [t \in Task |-> FreeTask]
    /\ activations' = 0
    /\ turnGeneration' = 0
    /\ errors' = {}
    /\ cancelling' = None
    /\ shutdown' = "no"
    /\ doomed' = {}
    /\ UNCHANGED <<journal, acknowledged, calls, coordinated>>

Client ==
    \/ \E c \in UserInput : Send(c)
    \/ \E c \in EventInput : DeliverInput(c) \/ ActorSend(c)
    \/ \E k \in CancelId, d \in BOOLEAN : CancelLocal(k, d) \/ CancelCoordinated(k, d)

Next ==
    \/ Client
    \/ CancelTurn
    \/ CancelStop
    \/ CancelEnd
    \/ CancelEffects
    \/ Close
    \/ CloseActor
    \/ CloseTasks
    \/ Restart
    \/ \E t \in Task : Drain(t) \/ Raise(t)

Spec == Init /\ [][Next]_vars

\* Tasks are scheduled fairly and turns end; clients, exceptions, shutdown and
\* process death are free to happen or not.
FairSpec ==
    /\ Spec
    /\ \A t \in Task : WF_vars(Drain(t))
    /\ WF_vars(CancelTurn)
    /\ WF_vars(CancelStop)
    /\ WF_vars(CancelEnd)
    /\ WF_vars(CancelEffects)

----------------------------------------------------------------------------
(* Properties *)

\* The place of an event in the life of its turn; cancellations have none.
Stage(e) ==
    CASE e.kind = "InputQueued" -> 1
      [] e.kind = "TurnStarted" -> 2
      [] e.kind \in Terminal -> 3
      [] OTHER -> 0

\* One queued input makes at most one turn: it is queued once, started at most
\* once, ended at most once, in that order and with nothing after its end,
\* however cancellation, shutdown and restart cut across _drain; and only one
\* turn is open at a time although a cancelled engine and its successor overlap.
OneTurnPerInput ==
    /\ \A m, n \in DOMAIN journal :
          m < n /\ Stage(journal[m]) > 0 /\ journal[m].id = journal[n].id
             => Stage(journal[m]) < Stage(journal[n])
    /\ \A n \in DOMAIN journal :
          Stage(journal[n]) > 1 => journal[n].id \in Ids(journal, {"InputQueued"})
    /\ Cardinality(OpenTurns(journal)) <= 1

\* The variables keep their types, and every input gets at most one turn.
TurnsRunOnce == TypeOK /\ OneTurnPerInput

\* The position at which an input was queued.
QueuedAt(c) == CHOOSE n \in DOMAIN journal : journal[n] = Queued(c)

\* Turns start in the order their inputs were accepted, although _drain picks
\* its input outside the lock and starts it in a later section.
StartsInOrder ==
    \A m, n \in DOMAIN journal :
        /\ m < n
        /\ journal[m].kind = "TurnStarted" /\ journal[n].kind = "TurnStarted"
        => QueuedAt(journal[m].id) < QueuedAt(journal[n].id)

\* Once a cancellation has returned its receipt, every input accepted before it
\* (with descendants=False: every input of the user, and the turn that was
\* running) has ended; with OneTurnPerInput it never runs again, whichever
\* stage of _drain the cancellation caught it in.
CancelledWorkHasEnded ==
    \A n \in DOMAIN journal :
        (journal[n].kind = "CancellationRequested" /\ journal[n].id \in acknowledged)
        => LET before == SubSeq(journal, 1, n)
               reach == {c \in PendingIds(before) :
                            journal[n].descendants \/ c \in UserInput}
           IN  reach \cup incomplete(before) \subseteq terminal(journal)

\* The header the store keeps by applying reduce_header to every append.
Header == FoldLeft(LAMBDA h, e : reduce_header(h, e, None), NewHeader(None), journal)

\* The cached current turn, which status reads and retention trust without the
\* journal, never names a turn that reduce_journal does not find open, and names
\* the open one.  A cancellation that ends a queued input clears it for the
\* running turn too; so the second half is claimed for a turn before whose start
\* every recorded cancellation had ended its targets.  It fails during one, and
\* for a turn started after one was cut short: repeated, that one ends a queued
\* input while the turn runs.
HeaderAgrees ==
    /\ {Header.current} \ {None} \subseteq incomplete(journal)
    /\ \A m \in OpenTurns(journal) :
          (\A n \in DOMAIN journal :
              journal[n].kind = "CancellationRequested"
              => ToSet(journal[n].targets) \subseteq terminal(SubSeq(journal, 1, m)))
          => Header.current = journal[m].id

\* Every accepted input ends, or its waiter is given an error, unless the
\* Runtime is closed: no interleaving of sends, cancellations and drain tasks
\* leaves an input queued with nobody to run it.
InputsSettle ==
    \A c \in Input :
        c \in PendingIds(journal) ~> (c \in terminal(journal) \cup errors \/ closed)

=============================================================================
