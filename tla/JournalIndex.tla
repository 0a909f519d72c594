---------------------------- MODULE JournalIndex ----------------------------
(***************************************************************************)
(* The projection PostgresStore keeps beside its journals, so that nothing *)
(* has to read a whole journal: journal_index, with a flag on the inputs   *)
(* and turns that are live, cancellation_targets, and on every session how *)
(* far (covered) and in which format (version) its part is maintained.     *)
(* Appends maintain it, setup builds it, and a read of the operational     *)
(* state first repairs what it finds behind or invalid.                    *)
(*                                                                         *)
(* A transaction is one step, except a read that repairs: it works on a    *)
(* snapshot (REPEATABLE READ) while other sessions of the tree go on, and  *)
(* fails when a row it changes has been changed since.                     *)
(***************************************************************************)
EXTENDS Journal, SequencesExt

CONSTANTS
    Actor,      \* the actors of a tree in tree order, the root first
    Turn,       \* [actor -> its command ids]
    MaxEvents,  \* the events of the tree
    Stale,      \* how often a checkpoint is left behind or damaged
    PageSize    \* the events a rebuild reads at a time (1000)

VARIABLES
    log,        \* events: [actor -> its journal]
    schema,     \* "old" without the projection, "new" with it
    session,    \* sessions: [actor -> [version, covered]]
    index,      \* journal_index: [actor -> set of rows]
    targets,    \* cancellation_targets
    reading,    \* [actor -> the repair a reader is about to commit]
    stale       \* how many more checkpoints may be damaged

vars == <<log, schema, session, index, targets, reading, stale>>

Actors == {Actor[i] : i \in DOMAIN Actor}

Root == Actor[1]

\* The events of the journal that module Journal does not know.
Compaction(floor) == [kind |-> "CompactionApplied", id |-> floor]

Asked(ask) == [kind |-> "AskRaised", id |-> ask]

Nobody == "none"

Finished == [kind |-> "AgentFinished", id |-> Nobody]

Delta == [kind |-> "TextDelta", id |-> Nobody]

NoRepair == [on |-> FALSE]

Init ==
    /\ log = [a \in Actors |-> <<>>]
    /\ schema \in {"old", "new"}
    /\ session = [a \in Actors |-> [version |-> 1, covered |-> 0]]
    /\ index = [a \in Actors |-> {}]
    /\ targets = {}
    /\ reading = [a \in Actors |-> NoRepair]
    /\ stale = Stale

----------------------------------------------------------------------------
(* The projection.  db stands for the tables, j for the journal of actor a. *)

db == [index |-> index, targets |-> targets]

Row(j, n) == [seq |-> n, kind |-> j[n].kind, id |-> j[n].id, live |-> FALSE]

Indexed(kind, operational, asks) ==
    \/ kind \in {"InputQueued", "CancellationRequested", "TurnStarted", "AgentFinished"} \cup Terminal
    \/ operational /\ kind = "CompactionApplied"
    \/ asks /\ kind = "AskRaised"

Names(rows, kinds, id) == \E r \in rows : r.kind \in kinds /\ r.id = id

\* What closes a row: for an input its turn's start or end, for a start its end.
Closed(rows, r) ==
    Names(rows, IF r.kind = "InputQueued" THEN Terminal \cup {"TurnStarted"} ELSE Terminal, r.id)

\* The inputs and starts of the given turns get their flag.
Flagged(rows, turns) ==
    {IF r.kind \in {"InputQueued", "TurnStarted"} /\ r.id \in turns
     THEN [r EXCEPT !.live = ~Closed(rows, r)] ELSE r : r \in rows}

Unresolved(d, t) == ~Names(d.index[t.actor], Terminal, t.turn)

\* The turns the cancellations among the items ask to end, ...
Requested(a, j, items) ==
    UNION {{[source |-> a, seq |-> n, actor |-> t[1], turn |-> t[2]] : t \in j[n].targets} :
           n \in {m \in items : j[m].kind = "CancellationRequested"}}

_project_work(d, a, j, items) ==
    LET work == {n \in items : j[n].kind \in {"InputQueued", "TurnStarted"} \cup Terminal}
        ended == {j[n].id : n \in {m \in items : j[m].kind \in Terminal}}
        flagged == [d EXCEPT !.index[a] = Flagged(@, {j[n].id : n \in work})]
        asked == {t \in Requested(a, j, items) : Unresolved(flagged, t)}
    IN  [flagged EXCEPT
            !.targets = {t \in @ \cup asked : ~(t.actor = a /\ t.turn \in ended)}]

\* Rows that exist are left alone (ON CONFLICT DO NOTHING).
_index_events(d, a, j, items, operational, asks) ==
    LET known == {r.seq : r \in d.index[a]}
        new == {Row(j, n) : n \in {m \in items \ known : Indexed(j[m].kind, operational, asks)}}
        indexed == [d EXCEPT !.index[a] = @ \cup new]
    IN  IF operational THEN _project_work(indexed, a, j, items) ELSE indexed

\* The pages in which a journal of n events is read.
Pages(n) ==
    [p \in 1..((n + PageSize - 1) \div PageSize) |->
        {i \in 1..n : (p - 1) * PageSize < i /\ i <= p * PageSize}]

\* The journal of a, indexed page by page.
Rebuilt(d, a, operational, asks) ==
    FoldLeft(LAMBDA e, page : _index_events(e, a, log[a], page, operational, asks),
             d, Pages(Len(log[a])))

_repair_operational(d, a) ==
    Rebuilt([index |-> [d.index EXCEPT ![a] = {}],
             targets |-> {t \in d.targets : t.source # a}], a, TRUE, TRUE)

\* The rows that are there but not covered are projected.
CaughtUp(d, a) ==
    _index_events(d, a, log[a], {r.seq : r \in {s \in d.index[a] : s.seq > session[a].covered}},
                  TRUE, TRUE)

----------------------------------------------------------------------------
(* Setup: the migrations 5, 6 and 12, with the writers stopped. *)

_backfill_journal_index(d) == FoldLeft(LAMBDA e, a : Rebuilt(e, a, FALSE, FALSE), d, Actor)

_backfill_operational(d) ==
    FoldLeft(LAMBDA e, a : Rebuilt(e, a, TRUE, FALSE),
             [index |-> [a \in Actors |-> {[r EXCEPT !.live = FALSE] : r \in d.index[a]}],
              targets |-> {}],
             Actor)

_backfill_asks(d) ==
    LET asks(a) == {n \in DOMAIN log[a] : log[a][n].kind = "AskRaised"}
    IN  FoldLeft(LAMBDA e, a : _index_events(e, a, log[a], asks(a), FALSE, TRUE), d, Actor)

Setup ==
    /\ schema = "old"
    /\ schema' = "new"
    /\ LET built == _backfill_asks(_backfill_operational(_backfill_journal_index(db)))
       IN  index' = built.index /\ targets' = built.targets
    /\ session' = [a \in Actors |-> [version |-> 1, covered |-> Len(log[a])]]
    /\ UNCHANGED <<log, reading, stale>>

----------------------------------------------------------------------------
(* Appends *)

\* Mutant: the checkpoint always follows the journal.
AdvancedAlways(s, last, new) == [s EXCEPT !.covered = new]

\* A checkpoint that is current stays so; one that is not stays behind.
Advanced(s, last, new) ==
    IF s.version = 1 /\ s.covered = last THEN [s EXCEPT !.covered = new] ELSE s

Room(n) == FoldFunction(LAMBDA j, m : Len(j) + m, n, log) <= MaxEvents

\* append, with the coordinator's fence or without one.
Append_(a, events) ==
    LET old == Len(log[a])
        j == log[a] \o events
        items == old + 1 .. Len(j)
        new == _index_events(db, a, j, items, TRUE, TRUE)
    IN  /\ Room(Len(events))
        /\ log' = [log EXCEPT ![a] = j]
        /\ IF schema = "old" THEN UNCHANGED <<index, targets, session>>
           ELSE /\ index' = new.index
                /\ targets' = new.targets
                /\ session' = [session EXCEPT ![a] = Advanced(@, old, Len(j))]
        /\ UNCHANGED <<schema, reading, stale>>

\* _append_deltas: no statement for the projection but the checkpoint.
AppendDeltas(a) ==
    /\ Room(1)
    /\ log' = [log EXCEPT ![a] = Append(@, Delta)]
    /\ IF schema = "old" THEN UNCHANGED session
       ELSE session' = [session EXCEPT ![a] = Advanced(@, Len(log[a]), Len(log[a]) + 1)]
    /\ UNCHANGED <<schema, index, targets, reading, stale>>

_lookup_input(a, c) == Names(index[a], {"InputQueued"}, c)

\* Without the projection the whole journal was looked through.
Known(a, c) == IF schema = "old" THEN c \in Ids(log[a], {"InputQueued"}) ELSE _lookup_input(a, c)

Enqueue(a, c) == ~Known(a, c) /\ Append_(a, <<Queued(c)>>)

StartTurn(a, c) ==
    /\ c \in PendingIds(log[a])
    /\ incomplete(log[a]) = {}
    /\ Append_(a, <<Started(c)>>)

\* One turn ends, or recovery and cancellation end all that are live at once.
EndTurns(a, ended) ==
    /\ ended # {}
    /\ ended \subseteq Live(log[a])
    /\ Append_(a, SetToSeq({Ended("TurnCancelled", c) : c \in ended}))

\* A cancellation of the tree is recorded at the root.
Cancel ==
    LET live == UNION {{<<a, c>> : c \in Live(log[a])} : a \in Actors}
    IN  /\ live # {}
        /\ Ids(log[Root], {"CancellationRequested"}) = {}
        /\ Append_(Root, <<[kind |-> "CancellationRequested", id |-> "cancel", targets |-> live]>>)

Ask(a) ==
    /\ incomplete(log[a]) # {}
    /\ Ids(log[a], {"AskRaised"}) = {}
    /\ Append_(a, <<Asked(a)>>)

Finish(a) ==
    /\ incomplete(log[a]) # {}
    /\ Append_(a, <<Finished>>)

Compact(a, floor) ==
    /\ incomplete(log[a]) # {}
    /\ floor \in {Nobody} \cup started(log[a])
    /\ Append_(a, <<Compaction(floor)>>)

----------------------------------------------------------------------------
(* Checkpoints that cannot be trusted *)

\* The projection of a as it was at an earlier time; the rows stay.
LeftBehind(a, covered) ==
    LET past == {r \in index[a] : r.seq <= covered}
    IN  /\ session' = [session EXCEPT ![a].covered = covered]
        /\ index' = [index EXCEPT ![a] =
                {[r EXCEPT !.live = r.kind \in {"InputQueued", "TurnStarted"} /\ ~Closed(past, r)] : r \in past}
                    \cup {[r EXCEPT !.live = FALSE] : r \in @ \ past}]
        /\ targets' = {t \in targets : ~(t.source = a /\ t.seq > covered)}

\* Another format, or flags that contradict the journal.
Damaged(a, version) ==
    /\ session' = [session EXCEPT ![a].version = version]
    /\ \E live \in BOOLEAN :
          /\ version = 1 => live
          /\ index' = [index EXCEPT ![a] =
                {IF r.kind \in {"InputQueued", "TurnStarted"} THEN [r EXCEPT !.live = live] ELSE r : r \in @}]
    /\ UNCHANGED targets

Distrust(a) ==
    /\ schema = "new"
    /\ stale > 0
    /\ stale' = stale - 1
    /\ \/ \E covered \in 0 .. session[a].covered - 1 : LeftBehind(a, covered)
       \/ \E version \in {1, 2} : Damaged(a, version)
    /\ UNCHANGED <<log, schema, reading>>

----------------------------------------------------------------------------
(* _read_operational *)

Behind(a) ==
    IF session[a].version # 1 \/ session[a].covered > Len(log[a]) THEN "repair"
    ELSE IF session[a].covered < Len(log[a]) THEN "catch up" ELSE "no"

LiveRows(d, a) == {r \in d.index[a] : r.live}

Invalid(d, a) == \E r \in LiveRows(d, a) : Closed(d.index[a], r)

\* The tables the reader goes by, and whether it had to rebuild them.
Consulted(a) ==
    LET first == CASE Behind(a) = "repair" -> _repair_operational(db, a)
                   [] Behind(a) = "catch up" -> CaughtUp(db, a)
                   [] OTHER -> db
    IN  IF Invalid(first, a) THEN _repair_operational(first, a) ELSE first

read_operational(a) ==
    LET d == Consulted(a)
        inputs == {r.seq : r \in {s \in LiveRows(d, a) : s.kind = "InputQueued"}}
        turns == {r.seq : r \in {s \in LiveRows(d, a) : s.kind = "TurnStarted"}}
    IN  [ok |-> ~Invalid(d, a),
         pending |-> [n \in 1..Cardinality(inputs) |-> log[a][SetToSortSeq(inputs, <)[n]]],
         incomplete |-> {log[a][n].id : n \in {m \in turns : \A o \in turns : o <= m}},
         cancellations |-> {<<t.actor, t.turn>> :
                               t \in {u \in d.targets : u.source = a /\ Unresolved(d, u)}}]

\* A reader that has to repair takes its snapshot, ...
BeginRead(a) ==
    /\ schema = "new"
    /\ ~reading[a].on
    /\ Behind(a) # "no" \/ Invalid(db, a)
    /\ reading' = [reading EXCEPT ![a] =
            [on |-> TRUE, last |-> Len(log[a]), session |-> session[a], db |-> db,
             repaired |-> Consulted(a)]]
    /\ UNCHANGED <<log, schema, session, index, targets, stale>>

\* ... and commits its changes unless the session, or a row it deletes, has
\* changed since; what it inserts may have been overtaken by other actors.
Conflicts(a) ==
    LET r == reading[a]
    IN  \/ Len(log[a]) # r.last
        \/ session[a] # r.session
        \/ index[a] # r.db.index[a]
        \/ ~((r.db.targets \ r.repaired.targets) \subseteq targets)

EndRead(a) ==
    LET r == reading[a]
    IN  /\ r.on
        /\ reading' = [reading EXCEPT ![a] = NoRepair]
        /\ IF Conflicts(a) THEN UNCHANGED <<session, index, targets>>
           ELSE /\ session' = [session EXCEPT ![a] = [version |-> 1, covered |-> r.last]]
                /\ index' = [index EXCEPT ![a] = r.repaired.index[a]]
                /\ targets' = (targets \ (r.db.targets \ r.repaired.targets))
                                  \cup (r.repaired.targets \ r.db.targets)
        /\ UNCHANGED <<log, schema, stale>>

----------------------------------------------------------------------------
(* The other reads *)

First(rows) == CHOOSE r \in rows : \A s \in rows : r.seq <= s.seq

\* The actor and the place of the first event of a tree that an id names.
Locate(tables, kinds, id) ==
    LET at == {i \in DOMAIN Actor : Names(tables[Actor[i]], kinds, id)}
        a == Actor[CHOOSE i \in at : \A k \in at : i <= k]
    IN  IF at = {} THEN <<>>
        ELSE <<a, First({r \in tables[a] : r.kind \in kinds /\ r.id = id}).seq>>

lookup_command(c) == Locate(index, {"InputQueued", "CancellationRequested"}, c)

lookup_ask(ask) == Locate(index, {"AskRaised"}, ask)

\* The last one counts.
lookup_finished(a) ==
    LET rows == {r \in index[a] : r.kind = "AgentFinished"}
    IN  {r.seq : r \in {s \in rows : \A t \in rows : t.seq <= s.seq}}

\* The first and the last event of the turn; none before it has ended.
read_turn(a, c) ==
    LET of(kinds) == {r \in index[a] : r.kind \in kinds /\ r.id = c}
        end == First(of(Terminal)).seq
        begin == IF of({"TurnStarted"}) = {} THEN end ELSE First(of({"TurnStarted"})).seq
    IN  IF of(Terminal) = {} THEN <<>> ELSE <<IF begin <= end THEN begin ELSE end, end>>

\* Where the history begins that the last compaction leaves.
read_compacted(a) ==
    LET markers == {r \in index[a] : r.kind = "CompactionApplied"}
        marker == CHOOSE r \in markers : \A s \in markers : s.seq <= r.seq
        floors == {r \in index[a] : r.kind = "TurnStarted" /\ r.id = marker.id}
    IN  IF markers = {} THEN 1
        ELSE IF floors = {} \/ First(floors).seq > marker.seq THEN marker.seq ELSE First(floors).seq

----------------------------------------------------------------------------
Next ==
    \/ Setup
    \/ Cancel
    \/ \E a \in Actors :
          \/ AppendDeltas(a)
          \/ \E c \in Turn[a] : Enqueue(a, c)
          \/ \E c \in Turn[a] : StartTurn(a, c)
          \/ \E ended \in SUBSET Turn[a] : EndTurns(a, ended)
          \/ Ask(a)
          \/ Finish(a)
          \/ \E floor \in {Nobody} \cup Turn[a] : Compact(a, floor)
          \/ Distrust(a)
          \/ BeginRead(a)
          \/ EndRead(a)

Spec == Init /\ [][Next]_vars

----------------------------------------------------------------------------
(* Properties *)

\* Whatever checkpoint a reader finds, current, behind, of another format or
\* contradicted by the journal, it returns what reducing the whole journal
\* gives: the pending inputs in order, the incomplete turn and the cancelled
\* turns that have not ended.
OperationalReadsAgree ==
    schema = "new" => \A a \in Actors :
        LET read == read_operational(a)
            asked == UNION {log[a][n].targets :
                        n \in {m \in DOMAIN log[a] : log[a][m].kind = "CancellationRequested"}}
        IN  /\ read.ok
            /\ read.pending = pending(log[a])
            /\ read.incomplete = incomplete(log[a])
            /\ read.cancellations = {t \in asked : t[2] \notin terminal(log[t[1]])}

\* Commands, asks and the events of a turn are found where a search of the
\* whole tree finds them, and a command is queued once, whenever the index was
\* built, extended, or rebuilt.
LookupsAgree ==
    LET whole == [a \in Actors |-> {Row(log[a], n) : n \in DOMAIN log[a]}]
    IN  /\ \A a \in Actors, m, n \in 1..Max({Len(log[b]) : b \in Actors}) :
              m # n /\ {m, n} \subseteq DOMAIN log[a] /\ log[a][m].kind = "InputQueued"
                  => log[a][m] # log[a][n]
        /\ schema = "new" =>
              /\ \A c \in UNION {Turn[a] : a \in Actors} \cup {"cancel"} :
                    lookup_command(c) = Locate(whole, {"InputQueued", "CancellationRequested"}, c)
              /\ \A a \in Actors : lookup_ask(a) = Locate(whole, {"AskRaised"}, a)
              /\ \A a \in Actors :
                    LET last == SelectLastInSeq(log[a], LAMBDA e : e.kind = "AgentFinished")
                    IN  lookup_finished(a) = {last} \ {0}

C == INSTANCE Context

\* A journal as module Context sees it.
Seen(j) ==
    [n \in DOMAIN j |-> CASE j[n].kind = "TurnStarted" -> C!TurnStarted(j[n].id)
                          [] j[n].kind = "CompactionApplied" -> C!CompactionApplied(j[n].id, {})
                          [] OTHER -> [type |-> j[n].kind]]

\* A compacted history is the one compacted_history would leave of the whole
\* journal, and a turn that has ended is read from its start to its end.
HistoryReadsAgree ==
    schema = "new" => \A a \in Actors :
        /\ SubSeq(Seen(log[a]), read_compacted(a), Len(log[a])) = C!compacted_history(Seen(log[a]))
        /\ \A c \in Turn[a] :
              LET at(kinds) == {n \in DOMAIN log[a] : log[a][n].kind \in kinds /\ log[a][n].id = c}
                  end == Min(at(Terminal))
              IN  read_turn(a, c) =
                    IF at(Terminal) = {} THEN <<>>
                    ELSE <<IF at({"TurnStarted"}) = {} THEN end ELSE Min(at({"TurnStarted"})), end>>
=============================================================================
