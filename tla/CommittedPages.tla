--------------------------- MODULE CommittedPages ---------------------------
(***************************************************************************)
(* The page cache the event streams of one runtime share (_pages.py), for  *)
(* one journal: a run of recent events fed by local appends and by reads,  *)
(* and one fetch at a time that readers at any cursor join.  An event is   *)
(* known by its sequence number.                                           *)
(*                                                                         *)
(* A reader stands for a stream: it asks for the page after its cursor and *)
(* hands the page out item by item.  When it asks, and what raises the     *)
(* high water mark, is left open here; Streams models both.  Everything    *)
(* but the database runs on one event loop, so a step runs to the next     *)
(* await that suspends.                                                    *)
(***************************************************************************)
EXTENDS Naturals, Sequences, FiniteSets, SequencesExt

CONSTANTS
    Reader,         \* the streams
    None,           \* no fetch, no readers
    PageLimit,      \* ACTOR_EVENTS
    DirectLimit,    \* read_page's own limit
    Size,           \* what each event weighs in the cache
    ActorBytes,     \* ACTOR_BYTES
    MaxSeq,         \* bound on the number of events
    MaxOpens        \* bound on the number of readers that come

ASSUME PagesAssumption ==
    /\ {PageLimit, DirectLimit} \subseteq Nat \ {0}
    /\ {ActorBytes, MaxSeq, MaxOpens} \subseteq Nat
    /\ Size \in [1..MaxSeq -> Nat]
    /\ IsFiniteSet(Reader)
    /\ None \notin [users : Nat, highWater : Nat, deleted : BOOLEAN]
    /\ None \notin [at : {"reading", "read", "done"}, begin : Nat, page : Seq(Nat)]
    /\ None \notin Nat

VARIABLES
    committed,      \* the number of events in the database
    deleted,        \* the session is gone from the database
    unpublished,    \* a local append between its commit and its publication
    recent,         \* recent[sid].items
    readers,        \* readers[sid] without its flight
    flight,         \* readers[sid].flight
    reader,         \* what each reader is doing
    closed,         \* close was called
    opens           \* the number of readers that came

vars == <<committed, deleted, unpublished, recent, readers, flight, reader, closed, opens>>

database == <<committed, deleted, unpublished>>

\* "idle": between two calls of page; "direct": awaiting a read of its own;
\* "waiting": awaiting the fetch; "resumed": about to look at its result;
\* "raised": about to see its exception; "yield": handing out a page; "hung":
\* looping without ever suspending.
At == {"off", "idle", "direct", "waiting", "resumed", "raised", "yield", "hung"}

ReaderState == [at : At, cursor : 0..MaxSeq, page : Seq(1..MaxSeq), begin : 0..MaxSeq]

NoReader == [at |-> "off", cursor |-> 0, page |-> <<>>, begin |-> 0]

\* The variables have their types; an entry of `readers' has users.
TypeOK ==
    /\ committed \in 0..MaxSeq
    /\ unpublished \in 1..MaxSeq \cup {None}
    /\ recent \in Seq(1..MaxSeq)
    /\ readers = None \/ readers \in [users : 1..Cardinality(Reader),
                                      highWater : 0..MaxSeq, deleted : BOOLEAN]
    /\ flight = None \/ flight \in [at : {"reading", "read", "done"},
                                    begin : 0..MaxSeq, page : Seq(1..MaxSeq)]
    /\ reader \in [Reader -> ReaderState]
    /\ {deleted, closed} \subseteq BOOLEAN

Init ==
    /\ committed = 0 /\ deleted = FALSE /\ unpublished = None
    /\ recent = <<>>
    /\ readers = None
    /\ flight = None
    /\ reader = [s \in Reader |-> NoReader]
    /\ closed = FALSE
    /\ opens = 0

----------------------------------------------------------------------------
(* Publishing *)

Weight(items) == FoldLeft(LAMBDA w, x : w + Size[x], 0, items)

Fits(items) == Len(items) <= PageLimit /\ Weight(items) <= ActorBytes

Suffix(items, n) == SubSeq(items, n, Len(items))

\* The newest items within both limits.
Trimmed(items) ==
    LET cuts == {n \in 1 .. Len(items) : /\ Fits(Suffix(items, n))
                                         /\ \A m \in 1 .. (n - 1) : ~Fits(Suffix(items, m))}
    IN  IF cuts = {} THEN <<>> ELSE Suffix(items, CHOOSE n \in cuts : TRUE)

\* The items of a run after a cursor.
After(items, after) ==
    IF items = <<>> THEN <<>>
    ELSE Suffix(items, IF Head(items) > after THEN 1 ELSE after - Head(items) + 2)

\* The loop of publish over a run of items, before it trims: known items are
\* skipped, and a gap starts over.  Trimming once at the end comes to the same as
\* trimming after every item, and as starting over at an item too large to keep.
Joined(items, new) ==
    IF items = <<>> \/ Head(new) > Last(items) + 1 THEN new
    ELSE items \o After(new, Last(items))

\* Mutant: the items of a deleted session are published.
PublishesDeleted(items) == readers # None /\ ~closed /\ items # <<>>

\* state is None or state.deleted or self.closed or not items
Publishes(items) == readers # None /\ ~readers.deleted /\ ~closed /\ items # <<>>

Advanced(rd, seq) ==
    IF rd # None /\ rd.highWater < seq THEN [rd EXCEPT !.highWater = seq] ELSE rd

Publish(items) ==
    IF Publishes(items)
    THEN /\ recent' = Trimmed(Joined(recent, items))
         /\ readers' = Advanced(readers, Last(items))
    ELSE UNCHANGED <<recent, readers>>

\* _append: the commit, and the publication once the task is resumed.
AppendLocal ==
    /\ ~deleted /\ unpublished = None /\ committed < MaxSeq
    /\ committed' = committed + 1
    /\ unpublished' = committed + 1
    /\ UNCHANGED <<deleted, recent, readers, flight, reader, closed, opens>>

PublishLocal ==
    /\ unpublished # None
    /\ Publish(<<unpublished>>)
    /\ unpublished' = None
    /\ UNCHANGED <<committed, deleted, flight, reader, closed, opens>>

\* Another runtime appends.
AppendRemote ==
    /\ ~deleted /\ committed < MaxSeq
    /\ committed' = committed + 1
    /\ UNCHANGED <<deleted, unpublished, recent, readers, flight, reader, closed, opens>>

\* Another actor's pages push this actor's out (CACHE_ACTORS, CACHE_BYTES).
Evict ==
    /\ recent # <<>>
    /\ recent' = <<>>
    /\ UNCHANGED <<database, readers, flight, reader, closed, opens>>

\* advance, from a header or an observation.
Advance ==
    /\ readers # None
    /\ \E seq \in 1..committed : readers' = Advanced(readers, seq)
    /\ UNCHANGED <<database, recent, flight, reader, closed, opens>>

----------------------------------------------------------------------------
(* Reading *)

\* Mutant: a run of events that begins too late is served.
CoversLater(items, after) == items # <<>> /\ after + 1 <= Last(items)

\* The items contain the event after the cursor.
Covers(items, after) ==
    items # <<>> /\ Head(items) <= after + 1 /\ after + 1 <= Last(items)

\* What the store returns.
Rows(after, limit) ==
    LET last == IF deleted THEN 0 ELSE committed
        n == IF last <= after THEN 0
             ELSE IF last - after < limit THEN last - after ELSE limit
    IN  [i \in 1..n |-> after + i]

\* page returned to its caller.
Returned(r, page) ==
    [r EXCEPT !.at = IF page = <<>> THEN "idle" ELSE "yield", !.page = page, !.begin = 0]

\* A fetch's result serves a cursor: it began there, or it found nothing from
\* an earlier cursor on, or it contains what the reader needs.
Serves(begin, page, after) ==
    begin = after \/ (page = <<>> /\ begin <= after) \/ Covers(page, after)

\* The body of page's loop for reader record r.  A fetch that is done, but whose
\* callback has not run, is awaited without suspending: a result that does not
\* serve is looked at again and again.
PageLoop(s, r) ==
    CASE closed ->
            reader' = [reader EXCEPT ![s] = Returned(r, <<>>)] /\ UNCHANGED flight
      [] ~closed /\ Covers(recent, r.cursor) ->
            /\ reader' = [reader EXCEPT ![s] = Returned(r, After(recent, r.cursor))]
            /\ UNCHANGED flight
      [] ~closed /\ ~Covers(recent, r.cursor) /\ flight = None ->
            /\ reader' = [reader EXCEPT ![s] = [r EXCEPT !.at = "waiting"]]
            /\ flight' = [at |-> "reading", begin |-> r.cursor, page |-> <<>>]
      [] OTHER ->
            /\ reader' = [reader EXCEPT ![s] =
                  IF flight.at # "done" THEN [r EXCEPT !.at = "waiting"]
                  ELSE IF Serves(flight.begin, flight.page, r.cursor)
                  THEN Returned(r, After(flight.page, r.cursor))
                  ELSE [r EXCEPT !.at = "hung"]]
            /\ UNCHANGED flight

\* check raises SessionNotFound, and the stream ends.
Invalid == readers # None /\ readers.deleted

\* One user less; the last one takes the entry out of self.readers.
Leaves(rd) == IF rd = None \/ rd.users = 1 THEN None ELSE [rd EXCEPT !.users = @ - 1]

\* state.users is down to zero.
LastUser(rd) == rd # None /\ rd.users = 1

\* release: the last user takes the cache and the fetch along.
Release(s) ==
    /\ reader' = [reader EXCEPT ![s] = NoReader]
    /\ readers' = Leaves(readers)
    /\ recent' = IF LastUser(readers) THEN <<>> ELSE recent
    /\ flight' = IF LastUser(readers) THEN None ELSE flight

Retain(s, after) ==
    /\ reader[s].at = "off"
    /\ ~closed
    /\ opens < MaxOpens
    /\ reader' = [reader EXCEPT ![s] = [NoReader EXCEPT !.at = "idle", !.cursor = after]]
    /\ readers' = IF readers = None
                  THEN [users |-> 1, highWater |-> 0, deleted |-> FALSE]
                  ELSE [readers EXCEPT !.users = @ + 1]
    /\ opens' = opens + 1
    /\ UNCHANGED <<database, recent, flight, closed>>

\* The stream ends: the consumer leaves, its task is cancelled, or check raised.
Stop(s) ==
    /\ reader[s].at \notin {"off", "hung"}
    /\ Release(s)
    /\ UNCHANGED <<database, closed, opens>>

\* page, up to its first suspension: a reader too far behind reads for itself.
Page(s) ==
    /\ reader[s].at = "idle"
    /\ ~Invalid /\ ~closed
    /\ IF readers.highWater > reader[s].cursor + PageLimit
       THEN reader' = [reader EXCEPT ![s].at = "direct"] /\ UNCHANGED flight
       ELSE PageLoop(s, reader[s])
    /\ UNCHANGED <<database, recent, readers, closed, opens>>

DirectRead(s) ==
    /\ reader[s].at = "direct"
    /\ ~Invalid
    /\ reader' = [reader EXCEPT ![s] = Returned(@, Rows(@.cursor, DirectLimit))]
    /\ UNCHANGED <<database, recent, readers, flight, closed, opens>>

\* The fetch has finished: use its result or go around the loop.
Resume(s) ==
    /\ reader[s].at = "resumed"
    /\ ~Invalid
    /\ LET r == reader[s]
       IN  IF Serves(r.begin, r.page, r.cursor)
           THEN /\ reader' = [reader EXCEPT ![s] = Returned(r, After(r.page, r.cursor))]
                /\ UNCHANGED flight
           ELSE PageLoop(s, [r EXCEPT !.page = <<>>, !.begin = 0])
    /\ UNCHANGED <<database, recent, readers, closed, opens>>

\* One item is handed out; the session may be deleted before the next.
Yield(s) ==
    /\ reader[s].at = "yield"
    /\ ~Invalid
    /\ LET page == reader[s].page
       IN  reader' = [reader EXCEPT ![s].cursor = Head(page), ![s].page = Tail(page),
                                    ![s].at = IF Len(page) = 1 THEN "idle" ELSE "yield"]
    /\ UNCHANGED <<database, recent, readers, flight, closed, opens>>

----------------------------------------------------------------------------
(* The fetch *)

FlightRead ==
    /\ flight # None
    /\ flight.at = "reading"
    /\ flight' = [flight EXCEPT !.at = "read", !.page = Rows(flight.begin, PageLimit)]
    /\ UNCHANGED <<database, recent, readers, reader, closed, opens>>

FlightDone ==
    /\ flight # None
    /\ flight.at = "read"
    /\ Publish(flight.page)
    /\ flight' = [flight EXCEPT !.at = "done"]
    /\ UNCHANGED <<database, reader, closed, opens>>

\* What becomes of the readers that await the fetch.
Woken(outcome(_)) ==
    [s \in Reader |-> IF reader[s].at = "waiting" THEN outcome(reader[s]) ELSE reader[s]]

\* finished, the first of the task's callbacks: the fetch is forgotten, and the
\* readers that await it are about to be resumed.
FlightForgotten ==
    /\ flight # None
    /\ flight.at = "done"
    /\ flight' = None
    /\ reader' = Woken(LAMBDA r : [r EXCEPT !.at = "resumed", !.begin = flight.begin,
                                            !.page = flight.page])
    /\ UNCHANGED <<database, recent, readers, closed, opens>>

\* The read raises, and every reader that awaits it with it.
FlightFails ==
    /\ flight # None
    /\ flight.at = "reading"
    /\ flight' = None
    /\ reader' = Woken(LAMBDA r : [r EXCEPT !.at = "raised"])
    /\ UNCHANGED <<database, recent, readers, closed, opens>>

\* The tree is deleted, here or elsewhere.
Delete ==
    /\ ~deleted
    /\ deleted' = TRUE
    /\ UNCHANGED <<committed, unpublished, recent, readers, flight, reader, closed, opens>>

\* invalidate, from _finish_deletion.
Invalidate ==
    /\ deleted
    /\ readers # None /\ ~readers.deleted
    /\ recent' = <<>>
    /\ readers' = [readers EXCEPT !.deleted = TRUE]
    /\ UNCHANGED <<database, flight, reader, closed, opens>>

\* close cancels the fetch; a reader that awaits it gets an empty page.
Close ==
    /\ ~closed
    /\ closed' = TRUE
    /\ recent' = <<>>
    /\ readers' = None
    /\ flight' = None
    /\ reader' = Woken(LAMBDA r : Returned(r, <<>>))
    /\ UNCHANGED <<database, opens>>

\* A reader that never suspends stops everything else in the process.
Hung == \E s \in Reader : reader[s].at = "hung"

Next ==
    \/ AppendRemote
    \/ Delete
    \/ ~Hung /\ AppendLocal
    \/ ~Hung /\ PublishLocal
    \/ ~Hung /\ Evict
    \/ ~Hung /\ Advance
    \/ ~Hung /\ FlightRead
    \/ ~Hung /\ FlightDone
    \/ ~Hung /\ FlightForgotten
    \/ ~Hung /\ FlightFails
    \/ ~Hung /\ Invalidate
    \/ ~Hung /\ Close
    \/ \E s \in Reader, after \in 0..MaxSeq : ~Hung /\ Retain(s, after)
    \/ \E s \in Reader : ~Hung /\ Stop(s)
    \/ \E s \in Reader : ~Hung /\ Page(s)
    \/ \E s \in Reader : ~Hung /\ DirectRead(s)
    \/ \E s \in Reader : ~Hung /\ Resume(s)
    \/ \E s \in Reader : ~Hung /\ Yield(s)

Spec == Init /\ [][Next]_vars

----------------------------------------------------------------------------
(* Properties *)

\* A stream hands out every event after its cursor, in order, once, and only
\* committed ones, whether it was served from the cache, from a fetch another
\* stream began at another cursor, or from a read of its own.
GaplessStep ==
    \A s \in Reader :
        (reader[s].at = "yield" /\ reader'[s].at # "off" /\ reader'[s] # reader[s])
        => /\ reader'[s].cursor = reader[s].cursor + 1
           /\ reader'[s].cursor <= committed

\* No step of a stream (_stream_committed) skips or repeats an event.
StreamsAreGapless == [][GaplessStep]_vars

\* The cache holds one run of committed events within its limits, although
\* local appends, fetches from several cursors and eviction feed it in any
\* order, and holds nothing of a session that has no readers or is deleted.
CacheIsSound ==
    /\ \A n \in 1 .. (Len(recent) - 1) : recent[n + 1] = recent[n] + 1
    /\ recent # <<>> => Last(recent) <= committed /\ readers # None /\ ~readers.deleted
    /\ recent # <<>> => Fits(recent)

\* The readers are counted right, so the pages and the fetch live exactly as
\* long as somebody may use them, and nobody awaits a fetch that is gone.
ReadersAreCounted ==
    /\ ~closed => (IF readers = None THEN 0 ELSE readers.users)
                  = Cardinality({s \in Reader : reader[s].at # "off"})
    /\ readers = None => recent = <<>> /\ flight = None
    /\ (\E s \in Reader : reader[s].at = "waiting") => flight # None

\* What the readers of a session rely on.
PagesAreSound == TypeOK /\ CacheIsSound /\ ReadersAreCounted

\* No stream ever holds the event loop: page's loop suspends or returns.
LoopKeepsTurning == ~Hung

=============================================================================
