----------------------------- MODULE RootWatch -----------------------------
(***************************************************************************)
(* What a runtime shows of a root while others change it: the snapshots of *)
(* watch_tree, shared by its watchers, and the writer tokens its           *)
(* connections hold.  With a coordinator both follow the observations of   *)
(* the root, which a catch-up query reads, the coordinator keeps and the   *)
(* watcher task applies; any of them may be late, fail, or be overtaken.   *)
(* Without one, whoever changes the store says so afterwards.              *)
(***************************************************************************)
EXTENDS Integers, Sequences, FiniteSets

CONSTANTS
    Watcher,    \* consumers of watch_tree
    Link,       \* writable connections; each claims once
    NoOne,      \* no writer
    Elsewhere,  \* a connection of another runtime
    Scenarios   \* what may happen, see Init

VARIABLES
    changes,    \* coordinator_changes: the kinds, in the order of their ids
    version,    \* how often the tree has changed
    lease,      \* [gen, valid] of the root's owner
    writer,     \* coordinator_roots.writer_connection
    flight,     \* what a catch-up query has read
    sample,     \* [obs, fresh]: the coordinator's observation, and whether the
                \* watcher task has yet to take it
    observed,   \* Runtime._observations
    applying,   \* whether it is being applied, and the one before it
    tree,       \* Runtime._trees: users, generation, snapshot, ids and lock
    watch,      \* [watcher -> its place in watch_tree]
    conn,       \* [link -> [state, id]]
    owed,       \* changes without a coordinator that were not announced yet
    left        \* what may still happen

vars == <<changes, version, lease, writer, flight, sample, observed, applying,
          tree, watch, conn, owed, left>>

database == <<changes, version, lease, writer>>

observing == <<flight, sample, observed, applying>>

Coordinated == left.coordinated

NoId == -1

NoObs == [id |-> NoId, error |-> TRUE]

Nothing == [gen |-> NoId]

Unused == [users |-> 0, generation |-> 0, snapshot |-> Nothing, id |-> NoId,
           marker |-> NoId, lock |-> NoOne]

Idle == [pc |-> "off", event |-> 0, read |-> Nothing, last |-> Nothing]

Init ==
    /\ changes = <<>>
    /\ version = 0
    /\ lease = [gen |-> 1, valid |-> TRUE]
    /\ writer = NoOne
    /\ flight = NoObs
    /\ sample = [obs |-> NoObs, fresh |-> FALSE]
    /\ observed = NoObs
    /\ applying = [on |-> FALSE]
    /\ tree = Unused
    /\ watch = [w \in Watcher |-> Idle]
    /\ conn = [c \in Link |-> [state |-> "out", id |-> 0]]
    /\ owed = 0
    /\ left \in Scenarios

Spent(what) == left[what] > 0 /\ left' = [left EXCEPT ![what] = @ - 1]

----------------------------------------------------------------------------
(* The root changes *)

TREE_KINDS == {"header", "activity", "ownership", "deleted"}

TreeChanges(n) == Cardinality({m \in 1..n : changes[m] \in TREE_KINDS})

Publish(kind) ==
    /\ changes' = Append(changes, kind)
    /\ version' = IF kind \in TREE_KINDS THEN version + 1 ELSE version

\* Some runtime commits to the root.
Change(kind) ==
    /\ Coordinated
    /\ Spent(kind)
    /\ Publish(kind)
    /\ UNCHANGED <<lease, writer, observing, tree, watch, conn, owed>>

\* The lease expires: no row says so, and no actor is active any more.
Expire ==
    /\ Coordinated
    /\ lease.valid
    /\ Spent("expire")
    /\ lease' = [lease EXCEPT !.valid = FALSE]
    /\ UNCHANGED <<changes, version, writer, observing, tree, watch, conn, owed>>

\* A runtime acquires the root.
Acquire ==
    /\ ~lease.valid
    /\ lease' = [gen |-> lease.gen + 1, valid |-> TRUE]
    /\ Publish("ownership")
    /\ UNCHANGED <<writer, observing, tree, watch, conn, owed, left>>

\* A connection of another runtime becomes the writer.
RemoteClaim ==
    /\ Coordinated
    /\ Spent("remote")
    /\ writer' = Elsewhere
    /\ Publish("writer")
    /\ UNCHANGED <<lease, observing, tree, watch, conn, owed>>

----------------------------------------------------------------------------
(* The snapshots of the tree *)

_tree_changed(t) == IF t.users = 0 THEN t ELSE [t EXCEPT !.generation = @ + 1]

\* Runtime.patch_header writes the header and signals watch_tree.
patch_header ==
    /\ Spent("patch")
    /\ IF Coordinated THEN Publish("header")
       ELSE version' = version + 1 /\ UNCHANGED changes
    /\ tree' = _tree_changed(tree)
    /\ UNCHANGED <<lease, writer, observing, watch, conn, owed>>

\* _append, _enqueue, _create_session without a coordinator: the store first, ...
LocalWrite ==
    /\ ~Coordinated
    /\ Spent("header")
    /\ version' = version + 1
    /\ owed' = owed + 1
    /\ UNCHANGED <<changes, lease, writer, observing, tree, watch, conn>>

\* ... then the watchers.
LocalChanged ==
    /\ owed > 0
    /\ owed' = owed - 1
    /\ tree' = _tree_changed(tree)
    /\ UNCHANGED <<database, observing, watch, conn, left>>

\* A tree that nobody watched starts from what was observed last.
_retain_tree ==
    IF tree.users > 0 THEN [tree EXCEPT !.users = @ + 1]
    ELSE [Unused EXCEPT !.users = 1,
                        !.id = IF observed.error THEN NoId ELSE observed.id,
                        !.marker = IF observed.error THEN NoId ELSE observed.marker]

watch_tree(w) ==
    /\ watch[w].pc = "off"
    /\ Spent("watch")
    /\ tree' = _retain_tree
    /\ watch' = [watch EXCEPT ![w].pc = "top"]
    /\ UNCHANGED <<database, observing, conn, owed>>

\* changed = tree.changed: an event stands for a generation, for both are
\* replaced together.
Top(w) ==
    /\ watch[w].pc = "top"
    /\ watch' = [watch EXCEPT ![w].pc = "lock", ![w].event = tree.generation]
    /\ UNCHANGED <<database, observing, tree, conn, owed, left>>

\* A snapshot of the current generation is shared, or the lock is kept until
\* the reads are far enough apart.
Lock(w) ==
    /\ watch[w].pc = "lock"
    /\ tree.lock = NoOne
    /\ \/ /\ tree.snapshot.gen = tree.generation
          /\ watch' = [watch EXCEPT ![w].pc = "yield", ![w].read = tree.snapshot]
          /\ UNCHANGED tree
       \/ /\ tree.snapshot.gen # tree.generation
          /\ tree' = [tree EXCEPT !.lock = w]
          /\ watch' = [watch EXCEPT ![w].pc = "interval"]
    /\ UNCHANGED <<database, observing, conn, owed, left>>

\* _tree_headers, under the generation of this moment.
ReadHeaders(w) ==
    /\ watch[w].pc = "interval"
    /\ watch' = [watch EXCEPT ![w].pc = "headers",
                              ![w].read = [gen |-> tree.generation, header |-> version]]
    /\ UNCHANGED <<database, observing, tree, conn, owed, left>>

\* Mutant: the snapshot is kept under the generation at its end.
KeptAtItsEnd(read) == [read EXCEPT !.gen = tree.generation]

\* tree.snapshot = (generation, snapshot)
Kept(read) == read

\* _tree_statuses
ReadStatuses(w) ==
    LET read == Kept([gen |-> watch[w].read.gen, header |-> watch[w].read.header,
                      active |-> version, lease |-> lease])
    IN  /\ watch[w].pc = "headers"
        /\ tree' = [tree EXCEPT !.snapshot = read, !.lock = NoOne]
        /\ watch' = [watch EXCEPT ![w].pc = "yield", ![w].read = read]
        /\ UNCHANGED <<database, observing, conn, owed, left>>

\* CoordinatorUnavailable: try again after a while.
ReadFails(w) ==
    /\ watch[w].pc \in {"interval", "headers"}
    /\ Coordinated
    /\ Spent("fail")
    /\ tree' = [tree EXCEPT !.lock = NoOne]
    /\ watch' = [watch EXCEPT ![w].pc = "top", ![w].read = Nothing]
    /\ UNCHANGED <<database, observing, conn, owed>>

\* A snapshot unlike the last one is handed out; then the watcher waits.
Yield(w) ==
    /\ watch[w].pc = "yield"
    /\ watch' = [watch EXCEPT ![w].pc = "wait", ![w].last = watch[w].read,
                              ![w].read = Nothing]
    /\ UNCHANGED <<database, observing, tree, conn, owed, left>>

Wake(w) ==
    /\ watch[w].pc = "wait"
    /\ watch[w].event # tree.generation
    /\ watch' = [watch EXCEPT ![w].pc = "top"]
    /\ UNCHANGED <<database, observing, tree, conn, owed, left>>

----------------------------------------------------------------------------
(* Who still watches the root *)

_interested(t, links) ==
    t.users > 0 \/ \E c \in Link : links[c].state \notin {"out", "gone"}

\* _stop_watcher_if_unused: the task, its observation and the coordinator's go.
_stop_watcher_if_unused(t, links) ==
    IF _interested(t, links) THEN UNCHANGED observing
    ELSE /\ flight' = NoObs
         /\ sample' = [obs |-> NoObs, fresh |-> FALSE]
         /\ observed' = NoObs
         /\ applying' = [on |-> FALSE]

\* The consumer leaves, wherever its watch_tree is.
Leave(w) ==
    LET t == [tree EXCEPT !.users = @ - 1, !.lock = IF @ = w THEN NoOne ELSE @]
    IN  /\ watch[w].pc # "off"
        /\ watch' = [watch EXCEPT ![w] = Idle]
        /\ tree' = IF t.users = 0 THEN Unused ELSE t
        /\ _stop_watcher_if_unused(t, conn)
        /\ UNCHANGED <<database, conn, owed, left>>

----------------------------------------------------------------------------
(* Writers *)

\* The claim is newer than the observation.
TooOld(link, o) == o.id < link.id

\* _refresh_writers_from_observation, for the connections that hold a token.
Refreshed(links, o) ==
    [c \in Link |->
        IF o.error \/ links[c].state # "in" \/ TooOld(links[c], o) THEN links[c]
        ELSE [state |-> IF o.writer = c THEN "in" ELSE "replaced", id |-> 0]]

\* _claim asks the owner of the root, ...
Claim(c) ==
    /\ Coordinated
    /\ conn[c].state = "out"
    /\ Spent("claim")
    /\ conn' = [conn EXCEPT ![c].state = "asked"]
    /\ UNCHANGED <<database, observing, tree, watch, owed>>

\* ... claim_writer is committed, ...
claim_writer(c) ==
    /\ conn[c].state = "asked"
    /\ writer' = c
    /\ Publish("writer")
    /\ conn' = [conn EXCEPT ![c] = [state |-> "claimed", id |-> Len(changes) + 1]]
    /\ UNCHANGED <<lease, observing, tree, watch, owed, left>>

_current_observation == IF observed.id = NoId THEN sample.obs ELSE observed

\* ... and its reply arrives: the token is held against the last observation.
Claimed(c) ==
    /\ conn[c].state = "claimed"
    /\ observed' = _current_observation
    /\ conn' = Refreshed([conn EXCEPT ![c].state = "in"], _current_observation)
    /\ UNCHANGED <<database, flight, sample, applying, tree, watch, owed, left>>

\* _release_connection gives the token back, if there is one, ...
Exit(c) ==
    /\ conn[c].state \in {"in", "replaced"}
    /\ conn' = [conn EXCEPT ![c].state = IF @ = "in" THEN "leaving" ELSE "gone"]
    /\ _stop_watcher_if_unused(tree, conn')
    /\ UNCHANGED <<database, tree, watch, owed, left>>

\* ... and release_writer frees the place unless it was taken.
release_writer(c) ==
    /\ conn[c].state = "leaving"
    /\ IF writer = c THEN writer' = NoOne /\ Publish("writer")
       ELSE UNCHANGED <<writer, changes, version>>
    /\ conn' = [conn EXCEPT ![c].state = "gone"]
    /\ _stop_watcher_if_unused(tree, conn')
    /\ UNCHANGED <<lease, tree, watch, owed, left>>

----------------------------------------------------------------------------
(* Observations *)

Observation ==
    [id |-> Len(changes), error |-> FALSE, writer |-> writer, lease |-> lease,
     marker |-> IF TreeChanges(Len(changes)) = 0 THEN 0
                ELSE CHOOSE n \in 1..Len(changes) :
                        changes[n] \in TREE_KINDS /\ TreeChanges(n) = TreeChanges(Len(changes))]

CatchUpRead ==
    /\ Coordinated
    /\ _interested(tree, conn)
    /\ flight = NoObs
    /\ Observation # sample.obs
    /\ flight' = Observation
    /\ UNCHANGED <<database, sample, observed, applying, tree, watch, conn, owed, left>>

CatchUpDone ==
    /\ flight # NoObs
    /\ flight' = NoObs
    /\ sample' = [obs |-> flight, fresh |-> TRUE]
    /\ UNCHANGED <<database, observed, applying, tree, watch, conn, owed, left>>

\* The last observation is handed out again, with the error.
CatchUpFails ==
    /\ Coordinated
    /\ _interested(tree, conn)
    /\ Spent("fail")
    /\ flight' = NoObs
    /\ sample' = [obs |-> IF sample.obs # NoObs THEN [sample.obs EXCEPT !.error = TRUE]
                          ELSE [id |-> 0, error |-> TRUE, writer |-> NoOne, marker |-> 0,
                                lease |-> [gen |-> 0, valid |-> FALSE]],
                  fresh |-> TRUE]
    /\ UNCHANGED <<database, observed, applying, tree, watch, conn, owed>>

\* _apply_observation: the writers at once, ...
_apply_observation ==
    /\ sample.fresh
    /\ ~applying.on
    /\ sample' = [sample EXCEPT !.fresh = FALSE]
    /\ observed' = sample.obs
    /\ applying' = [on |-> TRUE, previous |-> observed]
    /\ conn' = Refreshed(conn, sample.obs)
    /\ UNCHANGED <<database, flight, tree, watch, owed, left>>

Later(m, n) == IF m > n THEN m ELSE n

Noted(t, o) == [t EXCEPT !.id = Later(@, o.id), !.marker = Later(@, o.marker)]

\* _observe_tree: only a newer tree change is a reason to read again.
_observe_tree(t, o) ==
    IF o.id <= t.id THEN t
    ELSE Noted(IF o.marker > t.marker THEN _tree_changed(t) ELSE t, o)

\* ... the tree after the streams and the waiters were woken.  Another owner or
\* a lease that is not valid any more shows in the activity of the actors.
ApplyTree ==
    LET o == observed
        before == applying.previous
    IN  /\ applying.on
        /\ applying' = [on |-> FALSE]
        /\ tree' = IF o.error \/ tree.users = 0 THEN tree
                   ELSE IF before # NoObs /\ before.lease # o.lease
                        THEN _tree_changed(Noted(tree, o)) ELSE _observe_tree(tree, o)
        /\ UNCHANGED <<database, flight, sample, observed, watch, conn, owed, left>>

----------------------------------------------------------------------------
Next ==
    \/ \E kind \in {"header", "journal"} : Change(kind)
    \/ Expire
    \/ Acquire
    \/ RemoteClaim
    \/ patch_header
    \/ LocalWrite
    \/ LocalChanged
    \/ \E w \in Watcher :
          \/ watch_tree(w)
          \/ Top(w)
          \/ Lock(w)
          \/ ReadHeaders(w)
          \/ ReadStatuses(w)
          \/ ReadFails(w)
          \/ Yield(w)
          \/ Wake(w)
          \/ Leave(w)
    \/ \E c \in Link :
          \/ Claim(c)
          \/ claim_writer(c)
          \/ Claimed(c)
          \/ Exit(c)
          \/ release_writer(c)
    \/ CatchUpRead
    \/ CatchUpDone
    \/ CatchUpFails
    \/ _apply_observation
    \/ ApplyTree

Spec == Init /\ [][Next]_vars

----------------------------------------------------------------------------
(* Properties *)

\* A watcher that sleeps has missed nothing the runtime knows of: it has shown
\* every tree change that was announced or observed, in both halves of the
\* snapshot, and no actor as active under a lease that was seen to be over.
TreesAreCurrent ==
    \A w \in Watcher :
        LET shown == watch[w].last
        IN  watch[w].pc = "wait" /\ watch[w].event = tree.generation /\ ~applying.on =>
              /\ Coordinated => /\ shown.header >= TreeChanges(tree.id)
                                /\ shown.active >= TreeChanges(tree.id)
              /\ ~Coordinated /\ owed = 0 => shown.header = version
              /\ ~observed.error /\ ~observed.lease.valid
                    => shown.lease.gen # observed.lease.gen \/ ~shown.lease.valid

\* A connection loses its token only when it is not the writer any more: an
\* observation from before its claim takes nothing away.
HeldTokensAreKept ==
    \A c \in Link : conn[c].state = "replaced" => writer # c

\* A token is not kept against an observation in which another connection, or
\* none, is the writer, even if that was applied before the claim's reply came.
LostTokensAreDropped ==
    \A c \in Link :
        conn[c].state = "in" /\ ~observed.error /\ observed.id >= conn[c].id => observed.writer = c
=============================================================================
