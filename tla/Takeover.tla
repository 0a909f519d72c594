------------------------------ MODULE Takeover ------------------------------
(***************************************************************************)
(* How the runtimes of a PostgreSQL deployment hand one root to each       *)
(* other: acquiring the lease, renewing it, recovering what the previous   *)
(* owner left, running turns, telling a parent that its child's turn has   *)
(* ended, releasing, closing and dying.                                    *)
(*                                                                         *)
(* The root is the actor Parent with one child.  A command is a number;    *)
(* the message that reports the end of the child's turn n to the parent    *)
(* has the command id -n (uuid5 of child and turn in the code).  A step    *)
(* that the code runs under the runtime's root lock in one transaction is  *)
(* one action; recovery and release, which await more than once, keep the  *)
(* lock over several (`lock').  Module Lease models the lease statements   *)
(* themselves, module DrainLoop the loop of one actor in more detail.      *)
(***************************************************************************)
EXTENDS Integers, Sequences, FiniteSets, SequencesExt

CONSTANTS
    Runtime,        \* coordinator instances; an id is never reused
    NoOne,          \* owner_instance IS NULL
    MaxGeneration,  \* bound on the generation counter
    Budgets,        \* bounds: how often each kind of event outside the runtimes'
                    \* control happens, one function of Kind -> Nat per scenario
    LateFaults      \* may recovery fail when this runtime has tasks on the root?

ASSUME TakeoverAssumption == NoOne \notin Runtime /\ MaxGeneration \in Nat

VARIABLES
    lease,       \* the coordinator_roots row: owner, generation, valid
    queue,       \* actor -> the pending inputs of its journal, in order
    open,        \* actor -> the turn its journal leaves incomplete, or 0
    opener,      \* history: actor -> the generation that started its last turn
    ended,       \* actor -> its terminal events, as [turn, how], in order
    accepted,    \* actor -> the command ids of its InputQueued events
    executing,   \* the actors whose coordinator_activity row is active
    left,        \* what is left of the scenario's budget
    sent,        \* commands accepted so far
    own,         \* _ownerships: runtime -> generation, or 0
    unrecovered, \* the runtimes with the root in _unrecovered
    renewals,    \* runtime -> its _renew tasks, as [generation, failed]
    lock,        \* runtime -> what holds its root lock
    drains,      \* runtime -> its _drain tasks
    delivered,   \* _delivered: runtime -> the last message enqueued
    failedStart, \* the runtimes with the root in _failed_prestarts
    closing,     \* the runtimes whose aclose has begun
    up           \* the processes that live

journal == <<queue, open, opener, ended, accepted, executing>>

memory == <<own, unrecovered, renewals, lock, drains, delivered, failedStart>>

bounds == <<left, sent>>

takeoverVars == <<lease, journal, bounds, memory, closing, up>>

Actor == {"parent", "child"}

Free == [at |-> "free", todo |-> {}, request |-> "none"]

NewDrain(a) ==
    [actor |-> a, at |-> "begin", turn |-> 0, live |-> TRUE, again |-> FALSE, failed |-> FALSE]

Message(turn) == -turn

TakeoverInit ==
    /\ lease = [owner |-> NoOne, generation |-> 0, valid |-> FALSE]
    /\ queue = [a \in Actor |-> <<>>]
    /\ open = [a \in Actor |-> 0]
    /\ opener = [a \in Actor |-> 0]
    /\ ended = [a \in Actor |-> <<>>]
    /\ accepted = [a \in Actor |-> {}]
    /\ executing = {}
    /\ left \in Budgets
    /\ sent = 0
    /\ own = [r \in Runtime |-> 0]
    /\ unrecovered = {}
    /\ renewals = [r \in Runtime |-> {}]
    /\ lock = [r \in Runtime |-> Free]
    /\ drains = [r \in Runtime |-> {}]
    /\ delivered = [r \in Runtime |-> 0]
    /\ failedStart = {}
    /\ closing = {}
    /\ up = Runtime

Happens(kind) ==
    /\ left[kind] > 0
    /\ left' = [left EXCEPT ![kind] = @ - 1]

----------------------------------------------------------------------------
(* The pieces the operations are made of *)

Fenced(r) ==
    /\ own[r] = lease.generation
    /\ lease.owner = r
    /\ lease.valid

Unlocked(r) == r \in up /\ lock[r] = Free

\* self.active: the task that answers for the actor.
LiveDrains(r) == {d \in drains[r] : d.live}

\* _activate, after the activation count has grown: a new task, unless one is
\* active; that one looks again before it ends after a failure.
Activated(r, tasks, a) ==
    IF r \in closing THEN tasks
    ELSE IF \E d \in tasks : d.live /\ d.actor = a
    THEN {IF d.live /\ d.actor = a THEN [d EXCEPT !.again = TRUE] ELSE d : d \in tasks}
    ELSE tasks \cup {NewDrain(a)}

\* Cancelling tasks: the generation of their actor's turn grows, they leave
\* self.active, and unwind.
Cancelled(tasks, which) ==
    {IF d \in which THEN [d EXCEPT !.live = FALSE, !.at = "unwind"] ELSE d : d \in tasks}

Ending(turns, how) == [i \in 1..Len(turns) |-> [turn |-> turns[i], how |-> how]]

\* _notifies: the parent is not told of what it cancelled itself.
Notifies(end) == end.how # "cancelled_by_parent"

\* The child's header.last_turn, when the parent is to be told of it.
Owed(ends) ==
    IF ends # <<>> /\ Notifies(Last(ends)) THEN {Message(Last(ends).turn)} ELSE {}

\* _deliver_lifecycle_locked: the message is enqueued unless this runtime
\* remembers it or the journal has its command id, and the parent is
\* activated unless the message was known and its task runs.
DeliverTo(r, ends, tasks) ==
    IF Owed(ends) = {}
    THEN /\ UNCHANGED <<queue, accepted, delivered>>
         /\ drains' = [drains EXCEPT ![r] = tasks]
    ELSE LET msg == -Last(ends).turn
             duplicate == delivered[r] = msg \/ msg \in accepted["parent"]
         IN  /\ queue' = IF duplicate THEN queue
                         ELSE [queue EXCEPT !["parent"] = Append(@, msg)]
             /\ accepted' = [accepted EXCEPT !["parent"] = @ \cup
                                IF delivered[r] = msg THEN {} ELSE {msg}]
             /\ delivered' = [delivered EXCEPT ![r] = msg]
             /\ drains' = [drains EXCEPT ![r] =
                    IF duplicate /\ \E d \in tasks : d.live /\ d.actor = "parent"
                    THEN tasks ELSE Activated(r, tasks, "parent")]

----------------------------------------------------------------------------
(* Ownership *)

Begins(r, why, request) ==
    lock' = [lock EXCEPT ![r] = [at |-> why, todo |-> {}, request |-> request]]

\* _ensure_owner_locked, for a client of this runtime who found no owner:
\* acquire, remember the ownership as not recovered, start renewing it, and
\* recover while holding the root lock.
EnsureOwner(r) ==
    /\ Unlocked(r)
    /\ r \notin closing
    /\ own[r] = 0
    /\ ~lease.valid
    /\ lease.generation < MaxGeneration
    /\ lease' = [owner |-> r, generation |-> lease.generation + 1, valid |-> TRUE]
    /\ executing' = {}
    /\ own' = [own EXCEPT ![r] = lease'.generation]
    /\ unrecovered' = unrecovered \cup {r}
    /\ renewals' = [renewals EXCEPT ![r] = @ \cup {[generation |-> lease'.generation, failed |-> FALSE]}]
    /\ Begins(r, "recover", "none")
    /\ UNCHANGED <<queue, open, opener, ended, accepted, bounds, drains, delivered, failedStart, closing, up>>

\* The renewal raised: the lease has gone, or the database was out of reach.
\* One that comes back in time assigns the ownership it finds, and changes
\* nothing here: module Lease models what it does to the row.
RenewFails(r, t) ==
    /\ r \in up
    /\ t \in renewals[r]
    /\ ~t.failed
    /\ IF lease.owner = r /\ lease.generation = t.generation /\ lease.valid
       THEN Happens("fail") ELSE UNCHANGED left
    /\ renewals' = [renewals EXCEPT ![r] = (@ \ {t}) \cup {[t EXCEPT !.failed = TRUE]}]
    /\ UNCHANGED <<lease, journal, sent, own, unrecovered, lock, drains, delivered, failedStart, closing, up>>

\* _invalidate_root_locked, once the failed renewal has the root lock: the
\* ownership it finds is forgotten, and the turns under it are cancelled.
Invalidate(r, t) ==
    /\ Unlocked(r)
    /\ t \in renewals[r]
    /\ t.failed
    /\ renewals' = [renewals EXCEPT ![r] = @ \ {t}]
    /\ own' = [own EXCEPT ![r] = 0]
    /\ drains' = [drains EXCEPT ![r] =
                     IF own[r] = 0 THEN @ ELSE Cancelled(@, LiveDrains(r))]
    /\ UNCHANGED <<lease, journal, bounds, unrecovered, lock, delivered, failedStart, closing, up>>

\* Mutant: the renewal of a released root is left to find out by itself.
ForgetOwnershipOnly(r) ==
    /\ own' = [own EXCEPT ![r] = 0]
    /\ UNCHANGED renewals

\* The ownership goes and its renewal is cancelled.
ForgetOwnership(r) ==
    /\ own' = [own EXCEPT ![r] = 0]
    /\ renewals' = [renewals EXCEPT ![r] = {}]

----------------------------------------------------------------------------
(* Recovery *)

\* The recovery transaction of _recover_locked: whatever turn the previous
\* owner left open is interrupted, and nobody is active.
Interrupted(a) ==
    IF open[a] = 0 THEN ended[a] ELSE Append(ended[a], [turn |-> open[a], how |-> "interrupted"])

Recover(r) ==
    /\ lock[r].at = "recover"
    /\ Fenced(r)
    /\ ended' = [a \in Actor |-> Interrupted(a)]
    /\ open' = [a \in Actor |-> 0]
    /\ executing' = {}
    /\ lock' = [lock EXCEPT ![r].at = "deliver"]
    /\ UNCHANGED <<lease, opener, queue, accepted, bounds, own, unrecovered, renewals,
                   drains, delivered, failedStart, closing, up>>

\* The end of the child's last turn is reported.
RecoveryDelivers(r) ==
    /\ lock[r].at = "deliver"
    /\ Fenced(r)
    /\ DeliverTo(r, ended["child"], drains[r])
    /\ lock' = [lock EXCEPT ![r] = [@ EXCEPT !.at = "activate", !.todo = Actor]]
    /\ UNCHANGED <<lease, opener, open, ended, executing, bounds, own, unrecovered, renewals, failedStart, closing, up>>

\* Every actor with pending inputs is activated, the root first.
RecoveryActivates(r, a) ==
    /\ lock[r].at = "activate"
    /\ a \in lock[r].todo
    /\ a = "child" => "parent" \notin lock[r].todo
    /\ Fenced(r)
    /\ drains' = [drains EXCEPT ![r] = IF queue[a] = <<>> THEN @ ELSE Activated(r, @, a)]
    /\ lock' = [lock EXCEPT ![r].todo = @ \ {a}]
    /\ UNCHANGED <<lease, journal, bounds, own, unrecovered, renewals, delivered, failedStart, closing, up>>

\* The root leaves _unrecovered; a request that found it there is applied.
Recovered(r) ==
    /\ lock[r].at = "activate"
    /\ lock[r].todo = {}
    /\ unrecovered' = unrecovered \ {r}
    /\ lock' = [lock EXCEPT ![r] =
                   IF @.request = "none" THEN Free ELSE [@ EXCEPT !.at = "apply"]]
    /\ UNCHANGED <<lease, journal, bounds, own, renewals, drains, delivered, failedStart, closing, up>>

\* What release and relinquish_failed_prestart ask of the tree.
Idle == queue = [a \in Actor |-> <<>>] /\ executing = {} /\ open = [a \in Actor |-> 0]

FailedPrestart == executing = {} /\ open = [a \in Actor |-> 0]

\* A step of recovery raises: the ownership is released, and kept, still
\* unrecovered, when the release is refused.  A request only passes it on.
RecoveryFails(r) ==
    /\ r \in up
    /\ lock[r].at \in {"recover", "deliver", "activate"}
    /\ IF Fenced(r) THEN Happens("recovery") ELSE UNCHANGED left
    /\ LateFaults \/ drains[r] = {} \/ ~Fenced(r)
    /\ IF lock[r].request = "none" /\ Fenced(r) /\ Idle
       THEN /\ lease' = [lease EXCEPT !.owner = NoOne, !.valid = FALSE]
            /\ ForgetOwnership(r)
            /\ unrecovered' = unrecovered \ {r}
       ELSE UNCHANGED <<lease, own, renewals, unrecovered>>
    /\ lock' = [lock EXCEPT ![r] = Free]
    /\ UNCHANGED <<journal, sent, drains, delivered, failedStart, closing, up>>

----------------------------------------------------------------------------
(* Requests *)

\* A request for an unrecovered root first recovers it.
RequestRecovers(r, a) ==
    /\ Unlocked(r)
    /\ r \notin closing
    /\ lease.owner = r /\ lease.valid
    /\ r \in unrecovered
    /\ own[r] # 0
    /\ renewals' = [renewals EXCEPT ![r] =
                       IF @ = {} THEN {[generation |-> own[r], failed |-> FALSE]} ELSE @]
    /\ Begins(r, "recover", a)
    /\ UNCHANGED <<lease, journal, bounds, own, unrecovered, drains, delivered, failedStart, closing, up>>

\* The transaction of a request that queues an input, under the fence of the
\* row the dispatcher read; then the actor is activated.
Accept(r, a) ==
    /\ lease.owner = r /\ lease.valid
    /\ Happens(a)
    /\ sent' = sent + 1
    /\ queue' = [queue EXCEPT ![a] = Append(@, sent')]
    /\ accepted' = [accepted EXCEPT ![a] = @ \cup {sent'}]
    /\ drains' = [drains EXCEPT ![r] = Activated(r, @, a)]
    /\ lock' = [lock EXCEPT ![r] = [Free EXCEPT !.at = "release"]]
    /\ UNCHANGED <<lease, opener, open, ended, executing, own, unrecovered, renewals, delivered, failedStart, closing, up>>

HandleRequest(r, a) ==
    /\ Unlocked(r)
    /\ r \notin closing \cup unrecovered
    /\ Accept(r, a)

ApplyRequest(r) ==
    /\ lock[r].at = "apply"
    /\ \/ Accept(r, lock[r].request)
       \/ /\ lease.owner # r \/ ~lease.valid \/ left[lock[r].request] = 0
          /\ lock' = [lock EXCEPT ![r] = Free]
          /\ UNCHANGED <<lease, journal, bounds, own, unrecovered, renewals, drains,
                         delivered, failedStart, closing, up>>

\* The turns a cancellation ends, its pending ones first.
Targets(a) == queue[a] \o (IF open[a] = 0 THEN <<>> ELSE <<open[a]>>)

\* _cancel_local: a task is spared when it runs another turn.
CancelLocal(r, actors) ==
    drains' = [drains EXCEPT ![r] = Cancelled(@,
        {d \in LiveDrains(r) : d.actor \in actors /\ Targets(d.actor) # <<>>
                               /\ (d.turn = 0 \/ d.turn \in Range(Targets(d.actor)))})]

EndTargets(actors, how) ==
    /\ ended' = [a \in Actor |-> IF a \in actors THEN ended[a] \o Ending(Targets(a), how) ELSE ended[a]]
    /\ queue' = [a \in Actor |-> IF a \in actors THEN <<>> ELSE queue[a]]
    /\ open' = [a \in Actor |-> IF a \in actors THEN 0 ELSE open[a]]

\* A client's cancellation of the whole tree.
HandleCancel(r) ==
    /\ Unlocked(r)
    /\ r \notin closing \cup unrecovered
    /\ lease.owner = r /\ lease.valid
    /\ \E a \in Actor : Targets(a) # <<>>
    /\ Happens("cancel")
    /\ EndTargets(Actor, "cancelled")
    /\ CancelLocal(r, Actor)
    /\ lock' = [lock EXCEPT ![r] = [Free EXCEPT !.at = "release"]]
    /\ UNCHANGED <<lease, opener, accepted, executing, sent, own, unrecovered, renewals, delivered, failedStart, closing, up>>

\* _actor_cancel: a tool of the parent's turn cancels the child.
ActorCancel(r) ==
    /\ Unlocked(r)
    /\ \E d \in LiveDrains(r) : d.actor = "parent" /\ d.at = "run"
    /\ Fenced(r)
    /\ Targets("child") # <<>>
    /\ Happens("cancel")
    /\ EndTargets({"child"}, "cancelled_by_parent")
    /\ CancelLocal(r, {"child"})
    /\ UNCHANGED <<lease, opener, accepted, executing, sent, own, unrecovered, renewals, lock,
                   delivered, failedStart, closing, up>>

----------------------------------------------------------------------------
(* The drain task *)

Moved(r, d, new) == [drains EXCEPT ![r] = (@ \ {d}) \cup {new}]

\* Every step of a drain task that takes the root lock and commits.
Steps(r, d, at) ==
    /\ Unlocked(r)
    /\ d \in drains[r]
    /\ d.at = at

DrainBegin(r, d) ==
    /\ Steps(r, d, "begin")
    /\ Fenced(r)
    /\ executing' = executing \cup {d.actor}
    /\ drains' = Moved(r, d, [d EXCEPT !.at = "reconcile"])
    /\ UNCHANGED <<lease, opener, queue, open, ended, accepted, bounds, own, unrecovered, renewals,
                   lock, delivered, failedStart, closing, up>>

\* _reconcile_lifecycle: the child's task reports the last turn of the child,
\* the parent's task that of its children.
Reconcile(r, d) ==
    LET new == [d EXCEPT !.at = "next"]
    IN  /\ Steps(r, d, "reconcile")
        /\ Fenced(r)
        /\ DeliverTo(r, ended["child"], Moved(r, d, new)[r])
        /\ UNCHANGED <<lease, opener, open, ended, executing, bounds, own, unrecovered, renewals,
                       lock, failedStart, closing, up>>

\* Nothing is pending: the task leaves self.active and ends.
DrainEmpty(r, d) ==
    /\ Steps(r, d, "next")
    /\ Fenced(r)
    /\ queue[d.actor] = <<>>
    /\ open[d.actor] = 0
    /\ drains' = Moved(r, d, [d EXCEPT !.live = FALSE, !.at = "finally", !.again = FALSE])
    /\ UNCHANGED <<lease, journal, bounds, own, unrecovered, renewals, lock, delivered, failedStart, closing, up>>

\* TurnStarted for the first pending input.
StartTurn(r, d) ==
    /\ Steps(r, d, "next")
    /\ Fenced(r)
    /\ queue[d.actor] # <<>>
    /\ open[d.actor] = 0
    /\ open' = [open EXCEPT ![d.actor] = Head(queue[d.actor])]
    /\ opener' = [opener EXCEPT ![d.actor] = own[r]]
    /\ queue' = [queue EXCEPT ![d.actor] = Tail(@)]
    /\ drains' = Moved(r, d, [d EXCEPT !.at = "run", !.turn = Head(queue[d.actor])])
    /\ UNCHANGED <<lease, ended, accepted, executing, bounds, own, unrecovered, renewals,
                   lock, delivered, failedStart, closing, up>>

\* A turn somebody left open is interrupted ("process_stopped").
InterruptOpen(r, d) ==
    /\ Steps(r, d, "next")
    /\ Fenced(r)
    /\ open[d.actor] # 0
    /\ ended' = [ended EXCEPT ![d.actor] = Append(@, [turn |-> open[d.actor], how |-> "interrupted"])]
    /\ open' = [open EXCEPT ![d.actor] = 0]
    /\ drains' = Moved(r, d, [d EXCEPT !.at = "deliver", !.turn = 0])
    /\ UNCHANGED <<lease, opener, queue, accepted, executing, bounds, own, unrecovered, renewals,
                   lock, delivered, failedStart, closing, up>>

\* The engine appends the terminal event of its turn: the generation of the
\* turn and the fence are checked, the journal is not.
CompleteTurn(r, d) ==
    /\ Steps(r, d, "run")
    /\ Fenced(r)
    /\ ended' = [ended EXCEPT ![d.actor] = Append(@, [turn |-> d.turn, how |-> "completed"])]
    /\ open' = [open EXCEPT ![d.actor] = IF @ = d.turn THEN 0 ELSE @]
    /\ drains' = Moved(r, d, [d EXCEPT !.at = "deliver", !.turn = 0])
    /\ UNCHANGED <<lease, opener, queue, accepted, executing, bounds, own, unrecovered, renewals,
                   lock, delivered, failedStart, closing, up>>

\* The end of a child's turn is reported before the next one.
Deliver(r, d) ==
    LET new == [d EXCEPT !.at = "reconcile"]
        ends == IF d.actor = "child" THEN ended["child"] ELSE <<>>
    IN  /\ Steps(r, d, "deliver")
        /\ Fenced(r)
        /\ DeliverTo(r, ends, Moved(r, d, new)[r])
        /\ UNCHANGED <<lease, opener, open, ended, executing, bounds, own, unrecovered, renewals,
                       lock, failedStart, closing, up>>

\* A step of the task raises: there is no ownership, the lease has been lost,
\* or the database fails once.  A turn it was running stays open.
DrainFails(r, d) ==
    /\ Unlocked(r)
    /\ d \in drains[r]
    /\ d.at \in {"begin", "reconcile", "next", "run", "deliver"}
    /\ IF Fenced(r) THEN Happens("fail") ELSE UNCHANGED left
    /\ drains' = Moved(r, d, [d EXCEPT !.at = "finally", !.failed = TRUE])
    /\ UNCHANGED <<lease, journal, sent, own, unrecovered, renewals, lock, delivered, failedStart, closing, up>>

\* Mutant: the handler does not look whether the turn is still open.
UnwindUnchecked(r, d) ==
    LET ends == Append(ended[d.actor], [turn |-> d.turn, how |-> "interrupted"])
        new  == [d EXCEPT !.at = "finally"]
    IN  /\ Steps(r, d, "unwind")
        /\ ended' = IF Fenced(r) /\ d.turn # 0
                    THEN [ended EXCEPT ![d.actor] = ends] ELSE ended
        /\ open' = [open EXCEPT ![d.actor] = IF @ = d.turn THEN 0 ELSE @]
        /\ drains' = Moved(r, d, new)
        /\ UNCHANGED <<lease, opener, queue, accepted, delivered, executing, bounds, own,
                       unrecovered, renewals, lock, failedStart, closing, up>>

\* The handler of a cancelled task: its turn, if it is still the open one, is
\* interrupted, and the parent is told; without an ownership nothing can be
\* written.
Unwind(r, d) ==
    LET ends == Append(ended[d.actor], [turn |-> d.turn, how |-> "interrupted"])
        new  == [d EXCEPT !.at = "finally"]
    IN  /\ Steps(r, d, "unwind")
        /\ IF Fenced(r) /\ d.turn # 0 /\ open[d.actor] = d.turn
           THEN /\ ended' = [ended EXCEPT ![d.actor] = ends]
                /\ open' = [open EXCEPT ![d.actor] = 0]
                /\ DeliverTo(r, IF d.actor = "child" THEN ends ELSE <<>>, Moved(r, d, new)[r])
           ELSE /\ drains' = Moved(r, d, new)
                /\ UNCHANGED <<queue, open, ended, accepted, delivered>>
        /\ UNCHANGED <<lease, opener, executing, bounds, own, unrecovered, renewals,
                       lock, failedStart, closing, up>>

\* The finally block: the activity row is cleared, a failed or cancelled task
\* that was activated again is replaced, a failed start is remembered, and
\* the root lock is kept for the release.
Finally(r, d) ==
    LET again == d.again
        rest  == drains[r] \ {d}
    IN  /\ Steps(r, d, "finally")
        /\ executing' = IF Fenced(r) THEN executing \ {d.actor} ELSE executing
        /\ drains' = [drains EXCEPT ![r] = IF again THEN Activated(r, rest, d.actor) ELSE rest]
        /\ failedStart' = IF d.failed /\ ~again /\ (Fenced(r) => open[d.actor] = 0 /\ queue[d.actor] # <<>>)
                          THEN failedStart \cup {r} ELSE failedStart
        /\ lock' = [lock EXCEPT ![r] = [Free EXCEPT !.at = "release"]]
        /\ UNCHANGED <<lease, opener, queue, open, ended, accepted, bounds, own, unrecovered, renewals,
                       delivered, closing, up>>

----------------------------------------------------------------------------
(* Release, closing, and the environment *)

\* _release_if_idle_locked asks the database to release an idle root, ...
ReleaseIdle(r) ==
    /\ lock[r].at = "release"
    /\ r \notin closing
    /\ LiveDrains(r) = {}
    /\ Fenced(r)
    /\ Idle \/ (r \in failedStart /\ FailedPrestart)
    /\ lease' = [lease EXCEPT !.owner = NoOne, !.valid = FALSE]
    /\ lock' = [lock EXCEPT ![r].at = "released"]
    /\ UNCHANGED <<journal, bounds, own, unrecovered, renewals, drains, delivered, failedStart, closing, up>>

\* ... and then forgets the ownership.
Released(r) ==
    /\ lock[r].at = "released"
    /\ ForgetOwnership(r)
    /\ failedStart' = failedStart \ {r}
    /\ lock' = [lock EXCEPT ![r] = Free]
    /\ UNCHANGED <<lease, journal, bounds, unrecovered, drains, delivered, closing, up>>

\* It is refused, or not even tried.
ReleaseRefused(r) ==
    /\ lock[r].at = "release"
    /\ ~(/\ r \notin closing
         /\ LiveDrains(r) = {}
         /\ Fenced(r)
         /\ Idle \/ (r \in failedStart /\ FailedPrestart))
    /\ lock' = [lock EXCEPT ![r] = Free]
    /\ UNCHANGED <<lease, journal, bounds, own, unrecovered, renewals, drains, delivered, failedStart, closing, up>>

\* aclose cancels the tasks, ...
Close(r) ==
    /\ r \in up \ closing
    /\ Happens("close")
    /\ closing' = closing \cup {r}
    /\ drains' = [drains EXCEPT ![r] = Cancelled(@, LiveDrains(r))]
    /\ UNCHANGED <<lease, journal, sent, own, unrecovered, renewals, lock, delivered, failedStart, up>>

\* ... waits for them, interrupts what is still open, gives the root up and
\* stops renewing it.
CloseRoot(r) ==
    /\ Unlocked(r)
    /\ r \in closing
    /\ drains[r] = {}
    /\ IF Fenced(r)
       THEN /\ ended' = [a \in Actor |-> Interrupted(a)]
            /\ open' = [a \in Actor |-> 0]
            /\ executing' = {}
            /\ lease' = IF queue = [a \in Actor |-> <<>>]
                        THEN [lease EXCEPT !.owner = NoOne, !.valid = FALSE] ELSE lease
       ELSE UNCHANGED <<ended, open, executing, lease>>
    /\ ForgetOwnership(r)
    /\ up' = up \ {r}
    /\ UNCHANGED <<queue, opener, accepted, bounds, unrecovered, lock, drains, delivered, failedStart, closing>>

\* The process dies.
Crash(r) ==
    /\ r \in up
    /\ Happens("crash")
    /\ up' = up \ {r}
    /\ own' = [own EXCEPT ![r] = 0]
    /\ unrecovered' = unrecovered \ {r}
    /\ renewals' = [renewals EXCEPT ![r] = {}]
    /\ lock' = [lock EXCEPT ![r] = Free]
    /\ drains' = [drains EXCEPT ![r] = {}]
    /\ delivered' = [delivered EXCEPT ![r] = 0]
    /\ failedStart' = failedStart \ {r}
    /\ UNCHANGED <<lease, journal, sent, closing>>

\* The clock passes expires_at: sooner or later for a dead owner, and as
\* often as the budget says for one that could not renew in time.
LeaseExpires ==
    /\ lease.valid
    /\ IF lease.owner \in up THEN Happens("expire") ELSE UNCHANGED left
    /\ lease' = [lease EXCEPT !.valid = FALSE]
    /\ UNCHANGED <<journal, sent, memory, closing, up>>

TakeoverNext ==
    \/ LeaseExpires
    \/ \E r \in Runtime :
          \/ EnsureOwner(r)
          \/ \E t \in renewals[r] : RenewFails(r, t) \/ Invalidate(r, t)
          \/ Recover(r)
          \/ RecoveryDelivers(r)
          \/ \E a \in Actor : RecoveryActivates(r, a)
          \/ Recovered(r)
          \/ RecoveryFails(r)
          \/ \E a \in Actor : RequestRecovers(r, a)
          \/ \E a \in Actor : HandleRequest(r, a)
          \/ ApplyRequest(r)
          \/ HandleCancel(r)
          \/ ActorCancel(r)
          \/ \E d \in drains[r] :
                \/ DrainBegin(r, d)
                \/ Reconcile(r, d)
                \/ DrainEmpty(r, d)
                \/ StartTurn(r, d)
                \/ InterruptOpen(r, d)
                \/ CompleteTurn(r, d)
                \/ Deliver(r, d)
                \/ DrainFails(r, d)
                \/ Unwind(r, d)
                \/ Finally(r, d)
          \/ ReleaseIdle(r)
          \/ Released(r)
          \/ ReleaseRefused(r)
          \/ Close(r)
          \/ CloseRoot(r)
          \/ Crash(r)

TakeoverSpec == TakeoverInit /\ [][TakeoverNext]_takeoverVars

----------------------------------------------------------------------------
(* Properties *)

\* Every turn has at most one terminal event, whoever wrote it.
OneTerminalPerTurn ==
    \A a \in Actor : \A i, j \in 1..Len(ended[a]) :
        ended[a][i].turn = ended[a][j].turn => i = j

\* A renewal that has failed takes away the ownership it was renewing, never
\* one the runtime acquired since (runtime.py:522).
RenewalsKnowTheirLease ==
    \A r \in up : \A t \in renewals[r] : own[r] \in {0, t.generation}

\* An owner that has recovered only shows open turns of its own generation:
\* what an earlier owner left open has been interrupted.
OpenTurnsAreTheOwners ==
    \A r \in up : \A a \in Actor :
        /\ Fenced(r)
        /\ r \notin unrecovered
        /\ open[a] # 0
        => opener[a] = own[r]

\* Cancellations append several terminal events at once, and cancel the task
\* that was about to report.
ByCancellation(end) == end.how \in {"cancelled", "cancelled_by_parent"}

Reported(end) == Message(end.turn) \in accepted["parent"]

\* A turn of the child that ended by itself or was interrupted is reported to
\* the parent before the child's next turn ends, across crashes, failures and
\* changes of owner (runtime.py:1811, 1168), unless a cancellation cut in between.
EndsAreReported ==
    LET ends == ended["child"]
    IN  \A i \in 1..(Len(ends) - 1) :
            ByCancellation(ends[i]) \/ ByCancellation(ends[i+1]) \/ Reported(ends[i])

\* A failed renewal takes away the ownership it renewed, a recovered owner shows
\* only its own open turns, and a child's turn is reported before the next ends.
TakeoversAreClean ==
    RenewalsKnowTheirLease /\ OpenTurnsAreTheOwners /\ EndsAreReported

\* What the documentation says: "Every child terminal except a cancel by its
\* parent also creates one deterministic InputQueued in the direct parent".
\* A later terminal never overtakes the report of an earlier one.
EveryEndIsReported ==
    LET ends == ended["child"]
    IN  \A i \in 1..(Len(ends) - 1) : Notifies(ends[i]) => Reported(ends[i])

============================================================================
