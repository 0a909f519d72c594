----------------------------- MODULE MCStorage ------------------------------
(* How journals are written, kept and read: the batches of deltas an engine  *)
(* appends (DeltaStream), the files of FsStore (FileStore), the cache of     *)
(* committed pages in front of PostgreSQL (CommittedPages), what PostgreSQL  *)
(* keeps beside the journals (JournalIndex), and a stream that is opened     *)
(* twice (Streams).                                                          *)
EXTENDS CommittedPages

CONSTANTS p1, p2, s1, s2, NoOne

VARIABLES part, sent, stream, pending, buffer, late, persisted, sampler,
          budget, dir, file, torn, synced, header, disk, lock, proc, acked,
          lent, skipped, patched, log, schema, session, index, targets,
          reading, stale, sCommitted, sDeleted, sUnpublished, highWater,
          invalidated, sFlight, sample, snapshot, unapplied, observation,
          phase, sOpens

\* FileStore: two processes, batches of two lines, two crashes, or one and a power
\* loss.
Proc == {p1, p2}
J == INSTANCE Journal
Batches == {<<J!Started(1), J!Ended("TurnCompleted", 1)>>}
Commands == {1, 2}
MaxLines == 5
MaxPatches == 1
Faults == {[crash |-> 2, power |-> 0], [crash |-> 1, power |-> 1]}

\* CommittedPages: the first two events are too heavy to be kept together, the
\* third is too heavy to be kept at all.
MCSize == <<2, 2, 4, 1>>

\* publish, item by item: a known item is skipped, a gap or an item too large to
\* keep starts over, and what exceeds a limit goes.
Cached(items, x) ==
    IF items # <<>> /\ x <= Last(items) THEN items
    ELSE IF Size[x] > ActorBytes THEN <<>>
    ELSE LET seq == Append(IF items # <<>> /\ x = Last(items) + 1 THEN items ELSE <<>>, x)
             cut == CHOOSE n \in 1..Len(seq) :
                       Fits(Suffix(seq, n)) /\ \A k \in 1..(n - 1) : ~Fits(Suffix(seq, k))
         IN  Suffix(seq, cut)

Events(a, b) == [n \in 1..(b - a + 1) |-> a + n - 1]

\* CommittedPages joins and trims a run at once, and cuts it by positions.
ASSUME ClosedForms ==
    \A a, c \in 1..MaxSeq, b, d \in 0..MaxSeq :
        /\ a <= b + 1 /\ c <= d /\ Fits(Events(a, b))
           => Trimmed(Joined(Events(a, b), Events(c, d)))
              = FoldLeft(Cached, Events(a, b), Events(c, d))
        /\ a <= b + 1 => After(Events(a, b), d) = SelectSeq(Events(a, b), LAMBDA x : x > d)

\* DeltaStream: the fourth delta is larger than a batch may be.
DeltaBytes == <<1, 2, 3, 5, 1, 1, 1>>
BatchCount == 3
BatchBytes == 4

\* Streams: one stream after another, without a connection that watches the
\* root, and a catch-up query that fails.
Stream == {s1}
Connected == FALSE
Cursor == {0, 1}

\* JournalIndex: a root with two commands and a child with one, a checkpoint
\* that is left behind or damaged once.
Actor == <<"root", "child">>
Turn == [root |-> {"r1", "r2"}, child |-> {"c1"}]
MaxEvents == 4
Stale == 1
PageSize == 2

\* Nothing orders readers.
Symmetry == Permutations(Reader)

S == INSTANCE DeltaStream
F == INSTANCE FileStore
I == INSTANCE JournalIndex
V == INSTANCE Streams WITH MaxSeq <- 1, MaxOpens <- 3,
        committed <- sCommitted, deleted <- sDeleted,
        unpublished <- sUnpublished, flight <- sFlight, opens <- sOpens

MCvars == <<part, S!streamVars, F!vars, I!vars, V!vars, vars>>

-----------------------------------------------------------------------------
(* The part that moves, and the variables of the others, which stay as they are. *)

InS == part = "deltas" /\ UNCHANGED
    <<part, budget, dir, file, torn, synced, header, disk, lock, proc, acked,
      lent, skipped, patched, log, schema, session, index, targets, reading,
      stale, sCommitted, sDeleted, sUnpublished, highWater, invalidated,
      sFlight, sample, snapshot, unapplied, observation, phase, sOpens,
      committed, deleted, unpublished, recent, readers, flight, reader,
      closed, opens>>

InF == part = "files" /\ UNCHANGED
    <<part, sent, stream, pending, buffer, late, persisted, sampler, log,
      schema, session, index, targets, reading, stale, sCommitted, sDeleted,
      sUnpublished, highWater, invalidated, sFlight, sample, snapshot,
      unapplied, observation, phase, sOpens, committed, deleted, unpublished,
      recent, readers, flight, reader, closed, opens>>

InI == part = "index" /\ UNCHANGED
    <<part, sent, stream, pending, buffer, late, persisted, sampler, budget,
      dir, file, torn, synced, header, disk, lock, proc, acked, lent, skipped,
      patched, sCommitted, sDeleted, sUnpublished, highWater, invalidated,
      sFlight, sample, snapshot, unapplied, observation, phase, sOpens,
      committed, deleted, unpublished, recent, readers, flight, reader,
      closed, opens>>

InV == part = "streams" /\ UNCHANGED
    <<part, sent, pending, buffer, late, persisted, sampler, budget, dir,
      file, torn, synced, header, disk, lock, proc, acked, lent, skipped,
      patched, log, schema, session, index, targets, reading, stale,
      committed, deleted, unpublished, recent, readers, flight, reader,
      closed, opens>>

InPages == part = "pages" /\ UNCHANGED
    <<part, sent, stream, pending, buffer, late, persisted, sampler, budget,
      dir, file, torn, synced, header, disk, lock, proc, acked, lent, skipped,
      patched, log, schema, session, index, targets, reading, stale,
      sCommitted, sDeleted, sUnpublished, highWater, invalidated, sFlight,
      sample, snapshot, unapplied, observation, phase, sOpens>>

InitS ==
    /\ part = "deltas" /\ S!Init
    /\ Init /\ budget = 0 /\ dir = 0 /\ file = 0 /\ torn = 0 /\ synced = 0
    /\ header = 0 /\ disk = 0 /\ lock = 0 /\ proc = 0 /\ acked = 0 /\ lent = 0
    /\ skipped = 0 /\ patched = 0 /\ log = 0 /\ schema = 0 /\ session = 0
    /\ index = 0 /\ targets = 0 /\ reading = 0 /\ stale = 0 /\ sCommitted = 0
    /\ sDeleted = 0 /\ sUnpublished = 0 /\ highWater = 0 /\ invalidated = 0
    /\ sFlight = 0 /\ sample = 0 /\ snapshot = 0 /\ unapplied = 0
    /\ observation = 0 /\ phase = 0 /\ sOpens = 0

InitF ==
    /\ part = "files" /\ F!Init
    /\ Init /\ sent = 0 /\ stream = 0 /\ pending = 0 /\ buffer = 0 /\ late = 0
    /\ persisted = 0 /\ sampler = 0 /\ log = 0 /\ schema = 0 /\ session = 0
    /\ index = 0 /\ targets = 0 /\ reading = 0 /\ stale = 0 /\ sCommitted = 0
    /\ sDeleted = 0 /\ sUnpublished = 0 /\ highWater = 0 /\ invalidated = 0
    /\ sFlight = 0 /\ sample = 0 /\ snapshot = 0 /\ unapplied = 0
    /\ observation = 0 /\ phase = 0 /\ sOpens = 0

InitI ==
    /\ part = "index" /\ I!Init
    /\ Init /\ sent = 0 /\ stream = 0 /\ pending = 0 /\ buffer = 0 /\ late = 0
    /\ persisted = 0 /\ sampler = 0 /\ budget = 0 /\ dir = 0 /\ file = 0
    /\ torn = 0 /\ synced = 0 /\ header = 0 /\ disk = 0 /\ lock = 0
    /\ proc = 0 /\ acked = 0 /\ lent = 0 /\ skipped = 0 /\ patched = 0
    /\ sCommitted = 0 /\ sDeleted = 0 /\ sUnpublished = 0 /\ highWater = 0
    /\ invalidated = 0 /\ sFlight = 0 /\ sample = 0 /\ snapshot = 0
    /\ unapplied = 0 /\ observation = 0 /\ phase = 0 /\ sOpens = 0

InitV ==
    /\ part = "streams" /\ V!Init
    /\ Init /\ sent = 0 /\ pending = 0 /\ buffer = 0 /\ late = 0
    /\ persisted = 0 /\ sampler = 0 /\ budget = 0 /\ dir = 0 /\ file = 0
    /\ torn = 0 /\ synced = 0 /\ header = 0 /\ disk = 0 /\ lock = 0
    /\ proc = 0 /\ acked = 0 /\ lent = 0 /\ skipped = 0 /\ patched = 0
    /\ log = 0 /\ schema = 0 /\ session = 0 /\ index = 0 /\ targets = 0
    /\ reading = 0 /\ stale = 0

InitPages ==
    /\ part = "pages" /\ Init
    /\ sent = 0 /\ stream = 0 /\ pending = 0 /\ buffer = 0 /\ late = 0
    /\ persisted = 0 /\ sampler = 0 /\ budget = 0 /\ dir = 0 /\ file = 0
    /\ torn = 0 /\ synced = 0 /\ header = 0 /\ disk = 0 /\ lock = 0
    /\ proc = 0 /\ acked = 0 /\ lent = 0 /\ skipped = 0 /\ patched = 0
    /\ log = 0 /\ schema = 0 /\ session = 0 /\ index = 0 /\ targets = 0
    /\ reading = 0 /\ stale = 0 /\ sCommitted = 0 /\ sDeleted = 0
    /\ sUnpublished = 0 /\ highWater = 0 /\ invalidated = 0 /\ sFlight = 0
    /\ sample = 0 /\ snapshot = 0 /\ unapplied = 0 /\ observation = 0
    /\ phase = 0 /\ sOpens = 0

MCInit == InitS \/ InitF \/ InitI \/ InitV \/ InitPages

MCNext ==
    \/ InS /\ S!Read
    \/ InS /\ S!Produce
    \/ InS /\ S!Expire
    \/ InS /\ S!FlushLate
    \/ InS /\ S!Collect
    \/ InS /\ S!Finish
    \/ InS /\ S!Cancel
    \/ InF /\ \E p \in Proc : F!CreateDirectory(p)
    \/ InF /\ \E p \in Proc : F!CreateHeader(p)
    \/ InF /\ \E p \in Proc : F!AppendCall(p)
    \/ InF /\ \E p \in Proc : F!EnqueueCall(p)
    \/ InF /\ \E p \in Proc : F!Truncate(p)
    \/ InF /\ \E p \in Proc : F!Repair(p)
    \/ InF /\ \E p \in Proc : F!Scan(p)
    \/ InF /\ \E p \in Proc : F!WritePart(p)
    \/ InF /\ \E p \in Proc : F!WriteLine(p)
    \/ InF /\ \E p \in Proc : F!Sync(p)
    \/ InF /\ \E p \in Proc : F!Publish(p)
    \/ InF /\ \E p \in Proc : F!BeginPatch(p)
    \/ InF /\ \E p \in Proc : F!PatchHeader(p)
    \/ InF /\ \E p \in Proc : F!Crash(p)
    \/ InF /\ F!PowerLoss
    \/ InI /\ I!Setup
    \/ InI /\ I!Cancel
    \/ InI /\ \E a \in I!Actors : I!AppendDeltas(a)
    \/ InI /\ \E a \in I!Actors : I!Ask(a)
    \/ InI /\ \E a \in I!Actors : I!Finish(a)
    \/ InI /\ \E a \in I!Actors : I!Distrust(a)
    \/ InI /\ \E a \in I!Actors : I!BeginRead(a)
    \/ InI /\ \E a \in I!Actors : I!EndRead(a)
    \/ InI /\ \E a \in I!Actors : \E c \in Turn[a] : I!Enqueue(a, c)
    \/ InI /\ \E a \in I!Actors : \E c \in Turn[a] : I!StartTurn(a, c)
    \/ InI /\ \E a \in I!Actors : \E es \in SUBSET Turn[a] : I!EndTurns(a, es)
    \/ InI /\ \E a \in I!Actors : \E floor \in {"none"} \cup Turn[a] : I!Compact(a, floor)
    \/ InV /\ \E s \in Stream, after \in Cursor : V!Open(s, after)
    \/ InV /\ \E s \in Stream : V!Run(s)
    \/ InV /\ \E s \in Stream : V!Stop(s)
    \/ InV /\ V!Fly
    \/ InV /\ V!CatchUp
    \/ InV /\ V!CatchUpFails
    \/ InV /\ V!ApplyObservation
    \/ InV /\ V!AppendLocal
    \/ InV /\ V!PublishLocal
    \/ InV /\ V!AppendRemote
    \/ InV /\ V!Delete
    \/ InV /\ V!Close
    \/ InV /\ V!ClosePages
    \/ InPages /\ AppendRemote
    \/ InPages /\ Delete
    \/ InPages /\ ~Hung /\ AppendLocal
    \/ InPages /\ ~Hung /\ PublishLocal
    \/ InPages /\ ~Hung /\ Evict
    \/ InPages /\ ~Hung /\ Advance
    \/ InPages /\ ~Hung /\ FlightRead
    \/ InPages /\ ~Hung /\ FlightDone
    \/ InPages /\ ~Hung /\ FlightForgotten
    \/ InPages /\ ~Hung /\ FlightFails
    \/ InPages /\ ~Hung /\ Invalidate
    \/ InPages /\ ~Hung /\ Close
    \/ InPages /\ \E s \in Reader, after \in 0..MaxSeq : ~Hung /\ Retain(s, after)
    \/ InPages /\ \E s \in Reader : ~Hung /\ Stop(s)
    \/ InPages /\ \E s \in Reader : ~Hung /\ Page(s)
    \/ InPages /\ \E s \in Reader : ~Hung /\ DirectRead(s)
    \/ InPages /\ \E s \in Reader : ~Hung /\ Resume(s)
    \/ InPages /\ \E s \in Reader : ~Hung /\ Yield(s)

MCSpec == MCInit /\ [][MCNext]_MCvars

-----------------------------------------------------------------------------
(* Properties: what each part promises while it moves. *)

\* Batching loses, repeats and reorders no delta, and a batch keeps both limits
\* unless it is one large delta.
DeltasAreKept == part = "deltas" => S!DeltasAreKept /\ S!BatchesAreBounded

\* Across crashes and a power loss, every line a caller was told of stays in the
\* journal, lent ones apart, the seqs grow without a gap that no power loss made,
\* a command that is retried is in the journal once, and a header patch that
\* returned survives what other processes write.
JournalsSurvive == part = "files" =>
    /\ F!AcknowledgedLinesAreKept
    /\ F!SeqsAreContiguous
    /\ F!CommandsAreQueuedOnce
    /\ F!PatchesAreKept

\* Reads of the operational state, lookups and compacted histories return what
\* the whole journal says, whatever checkpoint they find.
IndexAgrees == part = "index" =>
    /\ I!OperationalReadsAgree
    /\ I!LookupsAgree
    /\ I!HistoryReadsAgree

\* A stream that sleeps has nothing to wait for that was announced already.
NothingIsLeftBehind == part = "streams" => V!TypeOK /\ V!NothingIsLeftBehind

\* What an engine streams reaches the journal, and what is in it stays.
JournalsAreKept == DeltasAreKept /\ JournalsSurvive

=============================================================================
