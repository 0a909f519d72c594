------------------------------ MODULE Deletion ------------------------------
(***************************************************************************)
(* Deleting the trees of one runtime while their turns run: Runtime.delete *)
(* and Runtime.cleanup over a store with delete_tree, next to sends,       *)
(* spawns and turns.  A tree is a root actor and at most one child.        *)
(*                                                                         *)
(* _begin_deletion runs inside the store's transaction; _finish_deletion   *)
(* runs after the root lock has been given up, waits for the cancelled     *)
(* tasks until a timeout, and then forgets everything about the tree.      *)
(***************************************************************************)
EXTENDS Integers, Sequences, FiniteSets, SequencesExt

CONSTANTS
    Root,        \* the root sessions
    Inputs,      \* bound on the inputs a root is sent
    Failures,    \* bound on the store failures during a deletion
    Writes       \* bound on the events a turn appends besides its terminal

VARIABLES
    live,        \* the sessions the store has
    dead,        \* deleted_sessions
    busy,        \* the actors with a pending input or an open turn
    revision,    \* root -> how often a header of its tree has changed
    received,    \* root -> inputs accepted
    tasks,       \* the _drain tasks that have not ended
    generation,  \* _turn_generations: actor -> number, Absent when popped
    known,       \* the actors in _known_roots
    spawning,    \* the roots whose lock a spawn holds between its writes
    deleting,    \* _deleting
    deletion,    \* root -> how far _finish_deletion is
    cleanup,     \* the cleanup call in progress
    failures,    \* store failures so far
    swept        \* history: what cleanup deleted, with what it had selected

vars == <<live, dead, busy, revision, received, tasks, generation, known,
          spawning, deleting, deletion, cleanup, failures, swept>>

storeVars == <<live, dead, busy, revision, received>>

Actor == Root \X {"root", "child"}

RootOf(a) == a[1]

Tree(r) == {a \in Actor : RootOf(a) = r}

Absent == -1

NoCleanup == [on |-> FALSE, todo |-> <<>>, allow |-> FALSE]

Init ==
    /\ live = {<<r, "root">> : r \in Root}
    /\ dead = {}
    /\ busy = {}
    /\ revision = [r \in Root |-> 0]
    /\ received = [r \in Root |-> 0]
    /\ tasks = {}
    /\ generation = [a \in Actor |-> Absent]
    /\ known = {}
    /\ spawning = {}
    /\ deleting = {}
    /\ deletion = [r \in Root |-> "none"]
    /\ cleanup = NoCleanup
    /\ failures = 0
    /\ swept = {}

Changed(r) == revision' = [revision EXCEPT ![r] = @ + 1]

Unlocked(r) == r \notin spawning

\* _turn_generations[a] = _turn_generations.get(a, 0) + 1
Bumped(a) == IF generation[a] = Absent THEN 1 ELSE generation[a] + 1

\* _activate: no task for a tree that is being deleted, nor a second one.
Activated(a, some) ==
    IF RootOf(a) \in deleting \/ \E t \in some : t.actor = a /\ t.active THEN some
    ELSE some \cup {[actor |-> a, turn |-> 0, writes |-> 0, active |-> TRUE, cancelled |-> FALSE]}

----------------------------------------------------------------------------
(* Inputs, turns and spawns *)

\* An input for the root actor is accepted and the actor activated.
Send(r) ==
    LET a == <<r, "root">>
    IN  /\ Unlocked(r)
        /\ a \in live
        /\ received[r] < Inputs
        /\ received' = [received EXCEPT ![r] = @ + 1]
        /\ busy' = busy \cup {a}
        /\ Changed(r)
        /\ known' = known \cup {a}
        /\ tasks' = Activated(a, tasks)
        /\ UNCHANGED <<live, dead, generation, spawning, deleting, deletion, cleanup, failures, swept>>

Replaced(t, new) == (tasks \ {t}) \cup {new}

\* Under the lock the task gives its turn a new generation.
StartTurn(t) ==
    LET a == t.actor
    IN  /\ t \in tasks
        /\ ~t.cancelled
        /\ t.turn = 0
        /\ Unlocked(RootOf(a))
        /\ a \in busy
        /\ generation' = [generation EXCEPT ![a] = Bumped(a)]
        /\ tasks' = Replaced(t, [t EXCEPT !.turn = Bumped(a)])
        /\ UNCHANGED <<storeVars, known, spawning, deleting, deletion, cleanup, failures, swept>>

\* _engine_append, from the turn or from the handlers of a cancelled one.
EngineAppend(t) ==
    /\ t \in tasks
    /\ t.turn > 0
    /\ t.writes < Writes
    /\ Unlocked(RootOf(t.actor))
    /\ generation[t.actor] = t.turn
    /\ t.actor \in live
    /\ Changed(RootOf(t.actor))
    /\ tasks' = Replaced(t, [t EXCEPT !.writes = @ + 1])
    /\ UNCHANGED <<live, dead, busy, received, generation, known, spawning, deleting, deletion, cleanup, failures, swept>>

\* The terminal event; the task has nothing left to do and ends.
EndTurn(t) ==
    /\ t \in tasks
    /\ ~t.cancelled
    /\ t.turn > 0
    /\ Unlocked(RootOf(t.actor))
    /\ generation[t.actor] = t.turn
    /\ t.actor \in live
    /\ busy' = busy \ {t.actor}
    /\ Changed(RootOf(t.actor))
    /\ tasks' = tasks \ {t}
    /\ UNCHANGED <<live, dead, received, generation, known, spawning, deleting, deletion, cleanup, failures, swept>>

\* _actor_spawn by the root's turn: the header is created first.  The store
\* refuses the child of a deleted tree.
CreateChild(r) == <<r, "child">> \notin live \cup dead /\ <<r, "root">> \notin dead

SpawnHeader(t) ==
    LET r == RootOf(t.actor)
    IN  /\ t \in tasks
        /\ ~t.cancelled
        /\ t.actor = <<r, "root">>
        /\ t.turn > 0
        /\ Unlocked(r)
        /\ t.actor \in live
        /\ CreateChild(r)
        /\ live' = live \cup {<<r, "child">>}
        /\ Changed(r)
        /\ known' = known \cup {<<r, "child">>}
        /\ spawning' = spawning \cup {r}
        /\ UNCHANGED <<dead, busy, received, tasks, generation, deleting, deletion, cleanup, failures, swept>>

\* Then its first events, its input, and its task.
SpawnInput(r) ==
    /\ r \in spawning
    /\ spawning' = spawning \ {r}
    /\ busy' = busy \cup {<<r, "child">>}
    /\ Changed(r)
    /\ tasks' = Activated(<<r, "child">>, tasks)
    /\ UNCHANGED <<live, dead, received, generation, known, deleting, deletion, cleanup, failures, swept>>

\* A write of the spawn fails: the child stays behind without an input.
SpawnFails(r) ==
    /\ r \in spawning
    /\ spawning' = spawning \ {r}
    /\ UNCHANGED <<storeVars, tasks, generation, known, deleting, deletion, cleanup, failures, swept>>

\* The cancelled task has unwound: it interrupts the turn if there is still a
\* journal in which it is open.
TaskEnds(t) ==
    LET a == t.actor
        open == a \in live /\ t.turn > 0 /\ a \in busy
    IN  /\ t \in tasks
        /\ t.cancelled
        /\ Unlocked(RootOf(a))
        /\ busy' = IF open THEN busy \ {a} ELSE busy
        /\ IF open THEN Changed(RootOf(a)) ELSE UNCHANGED revision
        /\ tasks' = tasks \ {t}
        /\ UNCHANGED <<live, dead, received, generation, known, spawning, deleting, deletion, cleanup, failures, swept>>

----------------------------------------------------------------------------
(* Deletion *)

ActiveTasks(actors) == {t \in tasks : t.actor \in actors /\ t.active}

\* Mutant: the generations of the turns are left alone.
CancelTasksOnly(ids) ==
    /\ UNCHANGED generation
    /\ tasks' = {IF t \in ActiveTasks(ids) THEN [t EXCEPT !.cancelled = TRUE] ELSE t : t \in tasks}

\* _begin_deletion: every generation of the tree grows, every task of it is
\* cancelled.
BeginDeletion(ids) ==
    /\ generation' = [a \in Actor |-> IF a \in ids THEN Bumped(a) ELSE generation[a]]
    /\ tasks' = {IF t \in ActiveTasks(ids) THEN [t EXCEPT !.cancelled = TRUE] ELSE t : t \in tasks}

\* What delete_tree and _begin_deletion refuse without allow_active.
SessionBusy(ids) == ids \cap busy # {} \/ ActiveTasks(ids) # {}

\* delete_tree under the root lock, for a tree that still exists.
DeleteTree(r, allow) ==
    LET ids == Tree(r) \cap live
    IN  /\ Unlocked(r)
        /\ <<r, "root">> \in live
        /\ allow \/ ~SessionBusy(ids)
        /\ BeginDeletion(ids)
        /\ deleting' = deleting \cup {r}
        /\ live' = live \ ids
        /\ dead' = dead \cup ids
        /\ busy' = busy \ ids
        /\ deletion' = [deletion EXCEPT ![r] = "finish"]
        /\ UNCHANGED <<revision, received, known, spawning>>

Delete(r, allow) ==
    /\ deletion[r] = "none"
    /\ DeleteTree(r, allow)
    /\ UNCHANGED <<cleanup, failures, swept>>

\* The store fails after before_delete: the tree stays, its tasks do not.
DeleteFails(r) ==
    LET ids == Tree(r) \cap live
    IN  /\ Unlocked(r)
        /\ <<r, "root">> \in live
        /\ deletion[r] = "none"
        /\ ActiveTasks(ids) # {}
        /\ failures < Failures
        /\ failures' = failures + 1
        /\ BeginDeletion(ids)
        /\ UNCHANGED <<storeVars, known, spawning, deleting, deletion, cleanup, swept>>

\* _finish_deletion: the tasks still registered are cancelled once more and
\* leave self.active; then it waits for them.
FinishDeletion(r) ==
    LET ids == Tree(r) \cap (dead \cup known)
        late == ActiveTasks(ids)
    IN  /\ deletion[r] = "finish"
        /\ deletion' = [deletion EXCEPT ![r] = "wait"]
        /\ generation' = [a \in Actor |-> IF \E t \in late : t.actor = a THEN Bumped(a) ELSE generation[a]]
        /\ tasks' = {IF t \in late THEN [t EXCEPT !.cancelled = TRUE, !.active = FALSE] ELSE t : t \in tasks}
        /\ UNCHANGED <<storeVars, known, spawning, deleting, cleanup, failures, swept>>

\* They have ended, or the timeout has passed: the tree is forgotten.
Forget(r) ==
    /\ deletion[r] = "wait"
    /\ deletion' = [deletion EXCEPT ![r] = "done"]
    /\ known' = known \ Tree(r)
    /\ generation' = [a \in Actor |-> IF a \in Tree(r) THEN Absent ELSE generation[a]]
    /\ deleting' = deleting \ {r}
    /\ UNCHANGED <<storeVars, tasks, spawning, cleanup, failures, swept>>

----------------------------------------------------------------------------
(* Cleanup *)

Candidate(r) ==
    [root |-> r, revision |-> revision[r], received |-> received[r],
     active |-> busy \cap Tree(r) # {}]

\* select_cleanup: the trees that match, with the revision they have now; the
\* cursor that cuts them into pages is left out.
SelectCleanup(found, allow) ==
    /\ ~cleanup.on
    /\ found # <<>>
    /\ cleanup' = [on |-> TRUE, allow |-> allow,
                   todo |-> [i \in 1..Len(found) |-> Candidate(found[i])]]
    /\ UNCHANGED <<storeVars, tasks, generation, known, spawning, deleting, deletion, failures, swept>>

NextCandidate ==
    IF Len(cleanup.todo) = 1 THEN NoCleanup ELSE [cleanup EXCEPT !.todo = Tail(@)]

\* check_revision
SameRevision(c) == c.revision = revision[c.root]

\* The next candidate: deleted if it is what was selected, ...
CleanupDeletes ==
    LET c == Head(cleanup.todo)
    IN  /\ cleanup.on
        /\ deletion[c.root] = "none"
        /\ cleanup.allow \/ ~c.active
        /\ SameRevision(c)
        /\ DeleteTree(c.root, cleanup.allow)
        /\ swept' = swept \cup {[root |-> c.root, received |-> c.received]}
        /\ cleanup' = NextCandidate
        /\ UNCHANGED failures

\* ... and reported as active, changed or absent otherwise.
CleanupSkips ==
    LET c == Head(cleanup.todo)
    IN  /\ cleanup.on
        /\ \/ c.active /\ ~cleanup.allow
           \/ <<c.root, "root">> \notin live
           \/ Unlocked(c.root) /\ ~SameRevision(c)
           \/ Unlocked(c.root) /\ ~cleanup.allow /\ SessionBusy(Tree(c.root))
        /\ cleanup' = NextCandidate
        /\ UNCHANGED <<storeVars, tasks, generation, known, spawning, deleting, deletion, failures, swept>>

\* The orders in which a store may list the roots it has.
Selections == SetToSeqs({r \in Root : <<r, "root">> \in live})

Next ==
    \/ \E r \in Root :
          \/ Send(r)
          \/ SpawnInput(r)
          \/ SpawnFails(r)
          \/ \E allow \in BOOLEAN : Delete(r, allow)
          \/ DeleteFails(r)
          \/ FinishDeletion(r)
          \/ Forget(r)
    \/ \E t \in tasks :
          \/ StartTurn(t)
          \/ EngineAppend(t)
          \/ EndTurn(t)
          \/ SpawnHeader(t)
          \/ TaskEnds(t)
    \/ \E found \in Selections, allow \in BOOLEAN : SelectCleanup(found, allow)
    \/ CleanupDeletes
    \/ CleanupSkips

Spec == Init /\ [][Next]_vars

----------------------------------------------------------------------------
(* Properties *)

\* A task that a deletion has cancelled can never again pass the generation
\* check of its turn, even after the deletion stopped waiting for it and
\* forgot the generations (runtime.py:1440).
CancelledTasksAreFenced ==
    \A t \in tasks : t.cancelled /\ t.turn > 0 => generation[t.actor] # t.turn

\* Cleanup never deletes a tree that has received an input since it was
\* selected.
CleanupLosesNoInput == \A s \in swept : received[s.root] = s.received

\* Once a deletion is over, nothing in the runtime mentions its tree, whatever
\* its late tasks still do.
DeletedTreesAreForgotten ==
    \A r \in Root : deletion[r] = "done" =>
        /\ known \cap Tree(r) = {}
        /\ \A a \in Tree(r) : generation[a] = Absent
        /\ ActiveTasks(Tree(r)) = {}

============================================================================
