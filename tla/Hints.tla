------------------------------- MODULE Hints -------------------------------
(***************************************************************************)
(* How a PostgresCoordinator learns that something changed.  PostgreSQL    *)
(* notifications are hints: the listener turns them into entries of        *)
(* _dirty_roots and _journal_deadlines, the observation loop turns those   *)
(* into catch-up queries and the snapshots its observers wait for, and     *)
(* watch turns snapshots into the changes themselves.  A hint is lost      *)
(* while the connection is down, and interests move while a query runs.    *)
(*                                                                         *)
(* Requests have an event and a loop of their own, which are in Dispatch.  *)
(*                                                                         *)
(* One coordinator, one event loop; a step runs to the next await that     *)
(* suspends.  The state an _Observation is replaced by and its             *)
(* interest_epoch are compared only with what a query began with, so they  *)
(* are kept as `current': the queried roots for which both still hold.     *)
(* state.generation is kept as `fresh', what an observer compares it for.  *)
(***************************************************************************)
EXTENDS Naturals

CONSTANTS
    Root,           \* roots
    Observer,       \* calls of watch and of _observe_actors
    Interests,      \* the sets of actors a runtime may be interested in
    Everything,     \* no restriction: the root has no entry in _actor_interests
    NoRoot,         \* an observer that is not in use
    NoSnapshot,     \* a root that nothing is known of
    MaxChanges,     \* bound on the changes of a root
    MaxFaults       \* bound on lost connections and failed queries

VARIABLES
    service,        \* "new", "started" or "closed"
    observers,      \* what each observer is doing
    interests,      \* _actor_interests
    dirty,          \* _dirty_roots
    delayed,        \* the roots of _journal_deadlines
    wake,           \* _observation_event is set
    loop,           \* where _observe is
    snapshots,      \* _observations[root].snapshot
    listener,       \* where _listen is
    channel,        \* notifications sent and not read
    changes,        \* the last id in coordinator_changes, for each root
    faults          \* the faults so far

hintVars == <<service, observers, interests, dirty, delayed, wake, loop, snapshots,
              listener, channel, changes, faults>>

scheduleVars == <<dirty, delayed, wake>>

databaseVars == <<channel, changes>>

Scope == Interests \cup {Everything}

\* "journal" may wait a little.
Kind == {"journal", "other"}

Snapshot == [change : Nat, scope : Scope, error : BOOLEAN]

ASSUME HintsAssumption ==
    /\ NoRoot \notin Root
    /\ NoSnapshot \notin Snapshot
    /\ Everything \notin Interests
    /\ {MaxChanges, MaxFaults} \subseteq Nat

\* root: what it observes; full: all actors (observe, watch) or those of the
\* interests (_observe_actors); fresh: there is a generation it has not seen;
\* first, paging, cursor: watch has not taken a snapshot yet, it is reading the
\* changes, the last change it handed out.
ObserverState == [root : Root \cup {NoRoot}, full : BOOLEAN, fresh : BOOLEAN,
                  first : BOOLEAN, paging : BOOLEAN, cursor : Nat]

NoObserver == [root |-> NoRoot, full |-> FALSE, fresh |-> FALSE, first |-> TRUE,
               paging |-> FALSE, cursor |-> 0]

\* "asleep": waiting for the event until the earliest deadline among `alarm';
\* "querying", "queried": in _catch_up, before and after the statement ran.
LoopState == [at : {"off", "asleep", "querying", "queried"},
              alarm : SUBSET Root,       \* deadlines that set wake_at
              roots : SUBSET Root,       \* the keys of scopes
              current : SUBSET Root,     \* same state and epoch as in scopes
              scope : [Root -> Scope],   \* the actors of each scope
              seen : [Root -> Nat]]      \* the change ids the statement read

Asleep(alarm) == [at |-> "asleep", alarm |-> alarm, roots |-> {}, current |-> {},
                  scope |-> [r \in Root |-> Everything], seen |-> [r \in Root |-> 0]]

Off == [Asleep({}) EXCEPT !.at = "off"]

HintInit ==
    /\ service = "new"
    /\ observers = [o \in Observer |-> NoObserver]
    /\ interests = [r \in Root |-> Everything]
    /\ dirty = {} /\ delayed = {} /\ wake = FALSE
    /\ loop = Off
    /\ snapshots = [r \in Root |-> NoSnapshot]
    /\ listener = "off"
    /\ channel = {}
    /\ changes = [r \in Root |-> 0]
    /\ faults = 0

\* root in self._observations
ObservedBy(os) == {r \in Root : \E o \in Observer : os[o].root = r}

Observed == ObservedBy(observers)

\* full_users > 0
FullBy(os, r) == \E o \in Observer : os[o].root = r /\ os[o].full

\* What a query of the root has to cover.
ScopeBy(os, is, r) == IF FullBy(os, r) THEN Everything ELSE is[r]

----------------------------------------------------------------------------
(* _schedule, from the entries the caller leaves *)

\* _schedule(root) for observed roots.
Schedule(rs, ds, js) ==
    /\ dirty' = ds \cup rs
    /\ delayed' = js \ rs
    /\ wake' = IF rs = {} THEN wake ELSE TRUE

\* Mutant: the deadline is set without waking the loop.
DelayInSilence(r) ==
    /\ delayed' = IF r \in dirty THEN delayed ELSE delayed \cup {r}
    /\ UNCHANGED <<dirty, wake>>

\* _schedule(root, journal=True)
Delay(r) ==
    /\ delayed' = IF r \in dirty THEN delayed ELSE delayed \cup {r}
    /\ wake' = IF r \in dirty \cup delayed THEN wake ELSE TRUE
    /\ UNCHANGED dirty

\* An epoch moves, or the state is dropped.
Outdated(rs) == [loop EXCEPT !.current = @ \ rs]

----------------------------------------------------------------------------
(* Service and observers *)

Start ==
    /\ service = "new"
    /\ service' = "started"
    /\ listener' = "down"
    /\ loop' = Asleep({})
    /\ UNCHANGED <<observers, interests, scheduleVars, snapshots, databaseVars, faults>>

\* The tasks end; observers are notified, and leave by themselves.
CloseHints ==
    /\ service = "started"
    /\ service' = "closed"
    /\ listener' = "off"
    /\ channel' = {}
    /\ loop' = Off
    /\ dirty' = {} /\ delayed' = {}
    /\ interests' = [r \in Root |-> Everything]
    /\ observers' = [o \in Observer |-> IF observers[o].root = NoRoot THEN NoObserver
                                        ELSE [observers[o] EXCEPT !.fresh = TRUE]]
    /\ UNCHANGED <<wake, snapshots, changes, faults>>

\* The entry of _observe_scope.
Observe(o, r, full, after) ==
    /\ service = "started"
    /\ observers[o].root = NoRoot
    /\ observers' = [observers EXCEPT ![o] = [NoObserver EXCEPT !.root = r, !.full = full,
                                    !.fresh = TRUE, !.cursor = after]]
    /\ loop' = Outdated(IF full /\ ~FullBy(observers, r) THEN {r} ELSE {})
    /\ Schedule({r}, dirty, delayed)
    /\ UNCHANGED <<service, interests, snapshots, listener, databaseVars, faults>>

\* Its finally clause.  The last observer drops the state and what is scheduled;
\* the last of the full ones has the narrower scope queried.
Forget(o) ==
    LET r == observers[o].root
        narrows == observers[o].full /\ ~FullBy(observers', r)
        last == r \notin ObservedBy(observers')
    IN  /\ observers' = [observers EXCEPT ![o] = NoObserver]
        /\ loop' = Outdated(IF narrows \/ last THEN {r} ELSE {})
        /\ snapshots' = IF last THEN [snapshots EXCEPT ![r] = NoSnapshot] ELSE snapshots
        /\ IF last THEN dirty' = dirty \ {r} /\ delayed' = delayed \ {r} /\ UNCHANGED wake
           ELSE Schedule(IF narrows THEN {r} ELSE {}, dirty, delayed)

Leave(o) ==
    /\ observers[o].root # NoRoot
    /\ Forget(o)
    /\ UNCHANGED <<service, interests, listener, databaseVars, faults>>

\* A snapshot is handed to an observer it is wide enough for.
Visible(o, s) ==
    s # NoSnapshot /\ (s.error \/ ~observers[o].full \/ s.scope = Everything)

\* if not first and snapshot.change_id <= cursor: continue
WatchReads(o, s) == observers[o].first \/ observers[o].cursor < s.change

\* An observer takes the snapshot; watch goes on to read the changes.
Look(o) ==
    /\ service = "started"
    /\ observers[o].root # NoRoot /\ observers[o].fresh /\ ~observers[o].paging
    /\ LET s == snapshots[observers[o].root]
           reads == Visible(o, s) /\ observers[o].full /\ WatchReads(o, s)
       IN  /\ ~(Visible(o, s) /\ observers[o].full /\ s.error)
           /\ observers' = IF reads
                           THEN [observers EXCEPT ![o] = [@ EXCEPT !.fresh = FALSE,
                                    !.first = FALSE, !.paging = TRUE]]
                           ELSE [observers EXCEPT ![o] = [@ EXCEPT !.fresh = FALSE]]
    /\ UNCHANGED <<service, interests, scheduleVars, loop, snapshots, listener, databaseVars, faults>>

\* _changes, page after page until there is no more.
ReadChanges(o) ==
    /\ service = "started"
    /\ observers[o].root # NoRoot /\ observers[o].paging
    /\ observers' = [observers EXCEPT ![o] = [@ EXCEPT !.paging = FALSE,
                                    !.cursor = changes[observers[o].root]]]
    /\ UNCHANGED <<service, interests, scheduleVars, loop, snapshots, listener, databaseVars, faults>>

\* watch raises the error of a snapshot, which ends it.
LookFails(o) ==
    /\ service = "started"
    /\ observers[o].root # NoRoot /\ observers[o].fresh /\ ~observers[o].paging
    /\ observers[o].full
    /\ snapshots[observers[o].root] # NoSnapshot
    /\ snapshots[observers[o].root].error
    /\ Forget(o)
    /\ UNCHANGED <<service, interests, listener, databaseVars, faults>>

\* _set_actor_interests
SetInterests(r, s) ==
    /\ service = "started"
    /\ interests[r] # s
    /\ interests' = [interests EXCEPT ![r] = s]
    /\ loop' = Outdated({r} \cap Observed)
    /\ Schedule({r} \cap Observed, dirty, delayed)
    /\ UNCHANGED <<service, observers, snapshots, listener, databaseVars, faults>>

----------------------------------------------------------------------------
(* The database and the listener *)

\* A transaction publishes a change: a row and, to those who listen, a notice.
PublishChange(r, kind) ==
    /\ changes[r] < MaxChanges
    /\ changes' = [changes EXCEPT ![r] = @ + 1]
    /\ channel' = IF listener \in {"registered", "listening"}
                  THEN channel \cup {[root |-> r, kind |-> kind]} ELSE channel
    /\ UNCHANGED <<service, observers, interests, scheduleVars, loop, snapshots, listener, faults>>

\* LISTEN takes effect in the database before the coordinator goes on.
Register ==
    /\ listener = "down"
    /\ listener' = "registered"
    /\ UNCHANGED <<service, observers, interests, scheduleVars, loop, snapshots, databaseVars, faults>>

\* Everything may have changed while nobody listened.
Listening ==
    /\ listener = "registered"
    /\ listener' = "listening"
    /\ Schedule(Observed, dirty, delayed)
    /\ UNCHANGED <<service, observers, interests, loop, snapshots, databaseVars, faults>>

Disconnected ==
    /\ listener \in {"registered", "listening"}
    /\ faults < MaxFaults
    /\ listener' = "down"
    /\ channel' = {}
    /\ faults' = faults + 1
    /\ UNCHANGED <<service, observers, interests, scheduleVars, loop, snapshots, changes>>

Notice(n) ==
    /\ listener = "listening"
    /\ n \in channel
    /\ channel' = channel \ {n}
    /\ IF n.kind = "journal" /\ n.root \in Observed THEN Delay(n.root)
       ELSE Schedule({n.root} \cap Observed, dirty, delayed)
    /\ UNCHANGED <<service, observers, interests, loop, snapshots, listener, changes,
                   faults>>

----------------------------------------------------------------------------
(* _observe and _catch_up *)

\* The event, a deadline or the periodic check; `due' is what the clock says.
Wake(periodic, due) ==
    /\ loop.at = "asleep"
    /\ wake \/ periodic \/ loop.alarm # {}
    /\ due \subseteq delayed
    /\ LET roots == IF periodic THEN Observed ELSE dirty \cup due
           scopes == roots \cap Observed
       IN  /\ dirty' = dirty \ roots
           /\ delayed' = delayed \ roots
           /\ loop' = IF scopes = {} THEN Asleep(delayed')
                      ELSE [at |-> "querying", alarm |-> {}, roots |-> scopes,
                            current |-> scopes,
                            scope |-> [r \in Root |-> ScopeBy(observers, interests, r)],
                            seen |-> [r \in Root |-> 0]]
    /\ wake' = FALSE
    /\ UNCHANGED <<service, observers, interests, snapshots, listener, databaseVars, faults>>

\* One statement reads all roots.
Query ==
    /\ loop.at = "querying"
    /\ loop' = [loop EXCEPT !.at = "queried", !.seen = changes]
    /\ UNCHANGED <<service, observers, interests, scheduleVars, snapshots, listener, databaseVars, faults>>

\* The roots whose state and epoch are the same as in scopes get a snapshot and
\* a new generation, the others are scheduled again.
Answer(found) ==
    /\ snapshots' = [r \in Root |-> IF r \in loop.current THEN found[r] ELSE snapshots[r]]
    /\ observers' = [o \in Observer |-> IF observers[o].root \in loop.current
                                        THEN [observers[o] EXCEPT !.fresh = TRUE]
                                        ELSE observers[o]]
    /\ Schedule((loop.roots \ loop.current) \cap Observed, dirty, delayed)
    /\ loop' = Asleep(delayed')
    /\ UNCHANGED <<service, interests, listener, databaseVars>>

Found(r) == [change |-> loop.seen[r], scope |-> loop.scope[r], error |-> FALSE]

CatchUp ==
    /\ loop.at = "queried"
    /\ Answer([r \in Root |-> Found(r)])
    /\ UNCHANGED faults

\* psycopg.Error: the snapshot stays what it was, with an error.
Unknown(r) ==
    IF snapshots[r] = NoSnapshot THEN [change |-> 0, scope |-> loop.scope[r], error |-> TRUE]
    ELSE [snapshots[r] EXCEPT !.error = TRUE]

CatchUpFails ==
    /\ loop.at \in {"querying", "queried"}
    /\ faults < MaxFaults
    /\ Answer([r \in Root |-> Unknown(r)])
    /\ faults' = faults + 1

HintNext ==
    \/ Start
    \/ CloseHints
    \/ \E o \in Observer, r \in Root, full \in BOOLEAN :
          \E after \in 0..changes[r] : Observe(o, r, full, after)
    \/ \E o \in Observer : Leave(o) \/ Look(o) \/ LookFails(o) \/ ReadChanges(o)
    \/ \E r \in Root, s \in Scope : SetInterests(r, s)
    \/ \E r \in Root, kind \in Kind : PublishChange(r, kind)
    \/ Register
    \/ Listening
    \/ Disconnected
    \/ \E n \in channel : Notice(n)
    \/ \E periodic \in BOOLEAN, due \in SUBSET delayed : Wake(periodic, due)
    \/ Query
    \/ CatchUp
    \/ CatchUpFails

HintSpec == HintInit /\ [][HintNext]_hintVars

----------------------------------------------------------------------------
(* Properties *)

HintTypeOK ==
    /\ service \in {"new", "started", "closed"}
    /\ observers \in [Observer -> ObserverState]
    /\ interests \in [Root -> Scope]
    /\ dirty \subseteq Root /\ delayed \subseteq Root
    /\ loop \in LoopState
    /\ snapshots \in [Root -> Snapshot \cup {NoSnapshot}]
    /\ listener \in {"off", "down", "registered", "listening"}
    /\ channel \subseteq [root : Root, kind : Kind]
    /\ changes \in [Root -> Nat]
    /\ wake \in BOOLEAN

\* A query under way that will answer for the root or schedule it again.
Asked(r) == loop.at \in {"querying", "queried"} /\ r \in loop.roots

\* The snapshot is missing or was made for other interests.
Uncovered(r) ==
    \/ snapshots[r] = NoSnapshot
    \/ ~snapshots[r].error /\ snapshots[r].scope # ScopeBy(observers, interests, r)

\* The snapshot is older than the last change.
Outrun(r) ==
    snapshots[r] # NoSnapshot /\ ~snapshots[r].error /\ snapshots[r].change < changes[r]

\* The query under way has read, or will read, what is newest.
AskedForNewest(r) ==
    Asked(r) /\ (loop.at = "queried" /\ r \in loop.current => loop.seen[r] = changes[r])

\* No hint is lost between the listener, the schedule and the loop: a root whose
\* snapshot does not cover the present interests is scheduled or being queried;
\* one whose snapshot is older than the database has a notice under way, is
\* scheduled, or is in a query that reads the newest, unless nobody listens, and
\* then everything is scheduled once somebody does.
SnapshotsFollow ==
    service = "started" =>
        \A r \in Observed :
            /\ Uncovered(r) => r \in dirty \/ Asked(r)
            /\ Outrun(r) => \/ r \in dirty \cup delayed
                            \/ AskedForNewest(r)
                            \/ \E n \in channel : n.root = r
                            \/ listener # "listening"

\* The loop never sleeps past what was scheduled while it was awake or before
\* its deadline was set, and nothing stays scheduled that nobody observes.
NothingIsSleptOver ==
    /\ ~wake => dirty = {}
    /\ loop.at = "asleep" /\ ~wake => delayed \subseteq loop.alarm
    /\ dirty \cup delayed \subseteq Observed

\* A watch that has seen the latest snapshot has handed out every change the
\* snapshot counts, although it read the changes later.
WatchesKeepUp ==
    \A o \in Observer :
        LET s == snapshots[observers[o].root]
        IN  (/\ observers[o].root # NoRoot
             /\ observers[o].full /\ ~observers[o].fresh /\ ~observers[o].paging
             /\ s # NoSnapshot /\ ~s.error /\ s.scope = Everything)
            => s.change <= observers[o].cursor

\* From a commit to the watch that hands it out no hint is lost: not by the
\* listener, which may lose its connection, not by the loop, which clears its
\* event and its deadlines before it queries, not by the catch-up, which discards
\* what was read for other interests, and not by the watch.
NoHintIsLost ==
    /\ HintTypeOK
    /\ SnapshotsFollow
    /\ NothingIsSleptOver
    /\ WatchesKeepUp
=============================================================================
