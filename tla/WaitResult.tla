----------------------------- MODULE WaitResult -----------------------------
(***************************************************************************)
(* Runtime._wait_result: one caller waiting for the end of one turn of one *)
(* actor.  With an observing coordinator the turn runs in any process and  *)
(* the waiter goes by the snapshots the coordinator takes of the database  *)
(* (_wait_observed_result); with no coordinator it goes by the signals of  *)
(* its own runtime (_wait_polled_result).  The waiter sleeps on a          *)
(* condition whose generation it noted before it looked, and gives up when *)
(* two samples in a row show nobody executing the actor.                   *)
(***************************************************************************)
EXTENDS Integers, FiniteSets

CONSTANT
    Cases        \* the scenarios: records of a mode ("observed" or "local"),
                 \* a fault ("none", "failure", "deletion", "closing" or
                 \* "outage") and bounds on the turns of the actor, on the
                 \* periodic samples and on the acquisitions of the root

VARIABLES
    case,        \* the scenario of this behaviour
    row,         \* what the database says of the root and of the actor
    failed,      \* _errors holds an error for the awaited command
    sample,      \* _observation_sample of the coordinator
    obs,         \* _observations[root]: the snapshot this runtime has applied
    moved,       \* the wait signal's generation differs from the noted one
    owed,        \* a notification is still to be given
    close,       \* "open", "closing" or "closed"
    waiter,      \* the waiting call
    idle         \* history: the samples in which nobody executed the actor

vars == <<case, row, failed, sample, obs, moved, owed, close, waiter,
          idle>>

mode == case.mode

fault == case.fault

NoShot == [sample |-> 0, terminal |-> 0, active |-> FALSE, owner |-> "none",
           covers |-> FALSE, error |-> FALSE, deleted |-> FALSE, some |-> FALSE]

\* _catch_up reads roots, activity and the newest terminal in one statement
\* and masks the activity of an actor whose root has no valid owner.
RootObservation(s) ==
    [sample |-> s, terminal |-> row.terms, active |-> row.active /\ row.owner # "none",
     owner |-> row.owner, covers |-> TRUE, error |-> FALSE,
     deleted |-> row.deleted, some |-> TRUE]

\* Before the call registered its interest a snapshot may not cover the actor.
Init ==
    /\ case \in Cases
    /\ row = [owner |-> "none", owners |-> 0, active |-> FALSE, terms |-> 0,
              mine |-> 0, deleted |-> FALSE]
    /\ failed = FALSE
    /\ sample = IF mode = "local" THEN 0 ELSE 1
    /\ obs \in {NoShot, [RootObservation(sample) EXCEPT !.covers = FALSE],
                RootObservation(sample)}
    /\ mode = "local" => obs = NoShot
    /\ moved = FALSE
    /\ owed = FALSE
    /\ close = "open"
    /\ waiter = [pc |-> "begin", terminal |-> -1, sample |-> 0, inactive |-> 0,
                 shot |-> NoShot, outcome |-> "none"]
    /\ idle = {}

At(l) == waiter.pc = l

\* Nothing is followed beyond the return of the call.
Waiting == ~At("done")

Goto(l) == [waiter EXCEPT !.pc = l]

Leave(o) == [waiter EXCEPT !.pc = "done", !.outcome = o, !.shot = NoShot]

world == <<row, failed, sample, obs, idle>>

-----------------------------------------------------------------------------
(* The actor: executed by this runtime or by another one. *)

\* A local append notifies; what another process appends does not.
Commit == owed' \in IF mode = "local" THEN {TRUE} ELSE {owed, TRUE}

rest == <<case, sample, obs, moved, close, waiter, idle>>

Executing == row.active /\ (mode = "observed" => row.owner = "recovered")

Acquire ==
    /\ Waiting /\ mode = "observed" /\ row.owner = "none" /\ row.owners < case.owners
    /\ row' = [row EXCEPT !.owner = "recovering", !.owners = @ + 1]
    /\ UNCHANGED <<failed, owed>> /\ UNCHANGED rest

\* Recovery marks every actor inactive before it is complete.
RecoveryDone ==
    /\ Waiting /\ row.owner = "recovering"
    /\ row' = [row EXCEPT !.owner = "recovered", !.active = FALSE]
    /\ UNCHANGED <<failed, owed>> /\ UNCHANGED rest

\* The owner's lease ends: it released the root, crashed or expired.
OwnerLost ==
    /\ Waiting /\ row.owner # "none"
    /\ row' = [row EXCEPT !.owner = "none"]
    /\ UNCHANGED <<failed, owed>> /\ UNCHANGED rest

Activate ==
    /\ Waiting /\ ~row.active /\ ~row.deleted /\ row.terms < case.turns
    /\ mode = "observed" => row.owner = "recovered"
    /\ row' = [row EXCEPT !.active = TRUE]
    /\ UNCHANGED <<failed, owed>> /\ UNCHANGED rest

\* A turn ends: the awaited one, or one queued before or after it.
EndTurn ==
    /\ Waiting /\ Executing /\ row.terms < case.turns /\ ~row.deleted
    /\ \/ row' = [row EXCEPT !.terms = @ + 1]
       \/ row.mine = 0 /\ row' = [row EXCEPT !.terms = @ + 1, !.mine = row.terms + 1]
    /\ Commit
    /\ UNCHANGED failed /\ UNCHANGED rest

\* _drain fails before or in the awaited turn and keeps the exception; it is
\* dropped when a later attempt ends the turn.
DrainFails ==
    /\ Waiting /\ fault = "failure" /\ Executing /\ row.mine = 0 /\ ~failed
    /\ failed' = TRUE /\ owed' = TRUE
    /\ UNCHANGED row /\ UNCHANGED rest

ForgetError ==
    /\ Waiting /\ failed /\ row.mine # 0
    /\ failed' = FALSE
    /\ UNCHANGED <<row, owed>> /\ UNCHANGED rest

Deactivate ==
    /\ Waiting /\ Executing
    /\ row' = [row EXCEPT !.active = FALSE]
    /\ UNCHANGED <<failed, owed>> /\ UNCHANGED rest

\* The tree is deleted; the deleting runtime notifies its own waiters.
Delete ==
    /\ Waiting /\ fault = "deletion" /\ ~row.deleted
    /\ row' = [row EXCEPT !.deleted = TRUE, !.active = FALSE]
    /\ Commit
    /\ UNCHANGED failed /\ UNCHANGED rest

-----------------------------------------------------------------------------
(* The coordinator's sampler and the runtime's watcher. *)

Idle(o) == o.some /\ ~o.active /\ o.owner # "recovering"

\* A plausible bug: terminals and samples are left to the streams' wake-ups.
WakesOnActivity(old, new) ==
    \/ ~old.some \/ old.active # new.active \/ old.covers # new.covers
    \/ old.owner # new.owner \/ new.error \/ new.deleted

Wakes(old, new) ==
    \/ ~old.some
    \/ old.sample # new.sample
    \/ old.active # new.active
    \/ old.covers # new.covers
    \/ old.terminal # new.terminal
    \/ old.owner # new.owner
    \/ new.error
    \/ new.deleted

ApplyObservation(o) ==
    /\ obs' = o
    /\ owed' = (owed \/ Wakes(obs, o))

\* One statement reads the row; the snapshot reaches _observations later, but
\* until it does this runtime cannot tell it from one not yet taken.  Only the
\* periodic pass numbers a new sample; a pass for a notified change repeats
\* the number of the last one.
CatchUp ==
    /\ Waiting /\ mode = "observed" /\ close = "open"
    /\ sample' \in {sample, sample + 1} /\ sample' <= case.samples
    /\ RootObservation(sample') # obs
    /\ ApplyObservation(RootObservation(sample'))
    /\ idle' = IF Idle(obs') THEN idle \cup {sample'} ELSE idle
    /\ UNCHANGED <<case, row, failed, moved, close, waiter>>

CatchUpFails ==
    /\ Waiting /\ mode = "observed" /\ close = "open" /\ fault = "outage" /\ ~obs.error
    /\ ApplyObservation([obs EXCEPT !.error = TRUE, !.some = TRUE, !.covers = TRUE])
    /\ UNCHANGED <<case, row, failed, sample, moved, close, waiter, idle>>

\* _notify_waiter, an await after the change it reports.
NotifyWaiter ==
    /\ Waiting /\ owed
    /\ owed' = FALSE
    /\ moved' = TRUE
    /\ UNCHANGED <<case, row, failed, sample, obs, close, waiter, idle>>

-----------------------------------------------------------------------------
(* aclose: closing notifies every waiter, closed sets _close_complete.     *)
(* With no coordinator _closed is set at once.                             *)

Close ==
    /\ Waiting /\ fault = "closing" /\ close = "open"
    /\ close' = "closing"
    /\ owed' = TRUE
    /\ UNCHANGED <<case, row, failed, sample, obs, moved, waiter, idle>>

\* The tasks are interrupted: their turns end, with the terminal or without.
\* The local variant notifies once more when all of them are settled.
Closed ==
    /\ Waiting /\ close = "closing" /\ ~owed
    /\ row' = [row EXCEPT !.active = FALSE, !.owner = "none"]
    /\ close' = "closed"
    /\ obs' = NoShot
    /\ owed' = (mode = "local")
    /\ UNCHANGED <<case, failed, sample, moved, waiter, idle>>

-----------------------------------------------------------------------------
(* The waiter. *)

still == <<case, owed, close>>

Begin ==
    /\ At("begin")
    /\ waiter' =
        IF mode = "local" THEN Goto("top")
        ELSE IF row.deleted THEN Leave("gone")
        ELSE IF obs.some /\ obs.covers
             THEN [Goto("first") EXCEPT !.terminal = obs.terminal, !.sample = obs.sample]
             ELSE Goto("first")
    /\ UNCHANGED moved /\ UNCHANGED still /\ UNCHANGED world

\* What a read of the journal leads to; with a coordinator a result is
\* preferred to an error, without one the error to a result.
Read(next) ==
    IF row.mine # 0 /\ ~(mode = "local" /\ failed) THEN Leave("result")
    ELSE IF failed THEN Leave("error") ELSE next

First ==
    /\ At("first")
    /\ waiter' = Read(Goto("top"))
    /\ UNCHANGED moved /\ UNCHANGED still /\ UNCHANGED world

\* The observed variant notes the generation before it looks at anything.
NoteFirst ==
    /\ At("top") /\ mode = "observed"
    /\ moved' = FALSE
    /\ waiter' = Goto(CASE close = "closing" -> "closing"
                       [] close = "closed" -> "last"
                       [] OTHER -> "look")
    /\ UNCHANGED still /\ UNCHANGED world

\* _close_complete.wait() returns; the local variant starts over.
CloseCompleted ==
    /\ At("closing") /\ close = "closed"
    /\ waiter' = Goto(IF mode = "local" THEN "top" ELSE "last")
    /\ UNCHANGED moved /\ UNCHANGED still /\ UNCHANGED world

LastRead ==
    /\ At("last")
    /\ waiter' = Read(Leave("closed"))
    /\ UNCHANGED moved /\ UNCHANGED still /\ UNCHANGED world

\* The part of a round that judges the activity in the snapshot it looked at.
Judged(w) ==
    LET o     == w.shot
        reset == IF o.active \/ o.owner = "recovering" THEN 0 ELSE w.inactive
        fresh == o.sample > 0 /\ o.sample # w.sample
        count == IF fresh /\ Idle(o) THEN reset + 1 ELSE reset
        seen  == [w EXCEPT !.inactive = count,
                           !.sample = IF fresh THEN o.sample ELSE @]
    IN  IF count >= 2 THEN [seen EXCEPT !.pc = "done", !.outcome = "gaveup"]
        ELSE IF failed THEN [seen EXCEPT !.pc = "done", !.outcome = "error", !.shot = NoShot]
        ELSE [seen EXCEPT !.pc = "sleep", !.shot = NoShot]

\* The newest terminal has moved since the journal was last read.
Changed(o) == waiter.terminal = -1 \/ o.terminal > waiter.terminal

LookObserved ==
    /\ At("look") /\ mode = "observed"
    /\ waiter' =
        IF ~obs.some THEN IF failed THEN Leave("error") ELSE Goto("sleep")
        ELSE IF obs.deleted THEN Leave("gone")
        ELSE IF obs.error THEN IF close = "open" THEN Leave("unavailable") ELSE Goto("closing")
        ELSE IF ~obs.covers THEN Goto("sleep")
        ELSE IF Changed(obs)
             THEN [Goto("reread") EXCEPT !.terminal = obs.terminal, !.shot = obs]
        ELSE Judged([waiter EXCEPT !.shot = obs])
    /\ UNCHANGED moved /\ UNCHANGED still /\ UNCHANGED world

\* The journal is read after the snapshot; the round then goes on with that
\* snapshot, whatever has been applied meanwhile.
Reread ==
    /\ At("reread")
    /\ waiter' = Read(Judged(waiter))
    /\ UNCHANGED moved /\ UNCHANGED still /\ UNCHANGED world

\* One round of the local variant: a read, the generation, a second read.
LookLocal ==
    /\ At("top") /\ mode = "local"
    /\ waiter' =
        IF row.deleted THEN Leave("gone")
        ELSE Read(Goto(CASE close = "closing" -> "closing"
                         [] close = "closed" -> "last"
                         [] OTHER -> "note"))
    /\ UNCHANGED moved /\ UNCHANGED still /\ UNCHANGED world

NoteGeneration ==
    /\ At("note")
    /\ moved' = FALSE
    /\ waiter' = Goto("second")
    /\ UNCHANGED still /\ UNCHANGED world

SecondRead ==
    /\ At("second")
    /\ waiter' = Read(Goto("sleep"))
    /\ UNCHANGED moved /\ UNCHANGED still /\ UNCHANGED world

closed == close = "closed" \/ (mode = "local" /\ close = "closing")

\* signal.condition.wait(), skipped when the generation has moved.
Sleep ==
    /\ At("sleep")
    /\ waiter' = Goto(IF moved \/ closed THEN "top" ELSE "asleep")
    /\ UNCHANGED moved /\ UNCHANGED still /\ UNCHANGED world

Wake ==
    /\ At("asleep") /\ moved
    /\ waiter' = Goto("top")
    /\ UNCHANGED moved /\ UNCHANGED still /\ UNCHANGED world

Next ==
    \/ Acquire \/ RecoveryDone \/ OwnerLost \/ Activate \/ EndTurn
    \/ DrainFails \/ ForgetError \/ Deactivate \/ Delete
    \/ CatchUp \/ CatchUpFails \/ NotifyWaiter
    \/ Close \/ Closed
    \/ Begin \/ First \/ NoteFirst \/ CloseCompleted \/ LastRead
    \/ LookObserved \/ Reread \/ LookLocal \/ NoteGeneration \/ SecondRead
    \/ Sleep \/ Wake

Spec == Init /\ [][Next]_vars

-----------------------------------------------------------------------------
(* Properties. *)

\* A waiter that sleeps with no notification on its way has missed nothing:
\* not the end of its turn (local) or an applied snapshot with a new terminal,
\* an error or the deletion (observed), not a failure of the drain task, and
\* not the closing of the runtime.  The deletion of the tree under the local
\* variant is WaitersHearOfDeletion.
SleepersHaveSeenItAll ==
    waiter.pc = "asleep" /\ ~moved /\ ~owed =>
        /\ close = "open"
        /\ failed => obs.some /\ ~obs.covers
        /\ mode = "local" => row.mine = 0
        /\ mode = "observed" /\ obs.some =>
              /\ ~obs.error /\ ~obs.deleted
              /\ obs.covers => ~Changed(obs)

\* What the documentation says of result waits on a deleted tree: they fail
\* with SessionNotFound, so none goes on sleeping.
WaitersHearOfDeletion ==
    waiter.pc = "asleep" /\ mode = "local" /\ ~moved /\ ~owed => ~row.deleted

\* "No active owner execution" is said only when two different samples showed
\* nobody executing or recovering the actor, and the snapshot it went by did
\* not yet hold the end of the awaited turn.
GivesUpOnEvidence ==
    waiter.outcome = "gaveup" =>
        /\ Cardinality(idle) >= 2
        /\ row.mine = 0 \/ waiter.shot.terminal < row.mine

=============================================================================
