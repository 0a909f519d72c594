------------------------------ MODULE Streams ------------------------------
(***************************************************************************)
(* How the event streams of one runtime with a PostgresCoordinator learn   *)
(* that there is more to read: from an append of this runtime, from the    *)
(* coordinator's observations of the root, and from the header while no    *)
(* observation covers the actor (_stream_committed, _apply_observation,    *)
(* _catch_up).                                                             *)
(*                                                                         *)
(* One journal, streams at different cursors.  A page is what              *)
(* CommittedPages promises, the events after the cursor up to some event;  *)
(* streams share the fetch, so the page may be older than the call.  A     *)
(* step runs to the next await that suspends.  signal.generation and       *)
(* fallback_generation are kept as what a stream compares them for:        *)
(* `notified', whether the signal has moved since the top of its loop, and *)
(* `fallback', whether it has read already for the present signal.         *)
(***************************************************************************)
EXTENDS Naturals, FiniteSets

CONSTANTS
    Stream,         \* open calls of Runtime.events
    None,           \* no fetch, no observation, nothing read yet
    Cursor,         \* the `after' arguments streams are opened with
    Connected,      \* a Connection has had the root watched all along
    MaxSeq,         \* bound on the number of events
    MaxOpens        \* bound on the streams opened and the queries that fail

ASSUME StreamsAssumption ==
    /\ {MaxSeq, MaxOpens} \subseteq Nat
    /\ Cursor \subseteq 0..MaxSeq
    /\ Connected \in BOOLEAN

VARIABLES
    committed,      \* last_seq in the database
    deleted,        \* the session is gone from the database
    unpublished,    \* the local append still to be announced, or 0
    highWater,      \* the pages' high_water
    invalidated,    \* the pages' deleted flag
    flight,         \* the fetch and the last event it read
    stream,         \* what each stream is doing
    sample,         \* what the catch-up under way has read
    snapshot,       \* the coordinator's snapshot of the root
    unapplied,      \* the watcher has not seen the snapshot
    observation,    \* the runtime's _observations[root_id]
    phase,          \* "open", or "closing" and "closed" by aclose
    opens           \* the streams opened and the catch-up queries that failed

vars == <<committed, deleted, unpublished, highWater, invalidated, flight, stream,
          sample, snapshot, unapplied, observation, phase, opens>>

database == <<committed, deleted, unpublished>>

pages == <<highWater, invalidated, flight>>

watching == <<sample, snapshot, unapplied, observation>>

\* "opening", "header": awaiting the header; "top": about to go around the
\* loop; "waiting": awaiting a page; "yield": handing it out; "sleep": waiting
\* for the signal; "closing", "unwatch": giving back the pages, the interest.
At == {"off", "opening", "top", "waiting", "yield", "header", "sleep",
       "closing", "unwatch"}

StreamState ==
    [at : At, cursor : 0..MaxSeq, upto : 0..MaxSeq, seen : 0..MaxSeq \cup {None},
     notified : BOOLEAN, fallback : BOOLEAN]

NoStream == [at |-> "off", cursor |-> 0, upto |-> 0, seen |-> None,
             notified |-> FALSE, fallback |-> FALSE]

FlightState == [at : {"none", "reading", "read"}, upto : 0..MaxSeq]

NoFlight == [at |-> "none", upto |-> 0]

\* RootObservation as far as a stream reads it.
Observation == [seq : 0..MaxSeq, covers : BOOLEAN, deleted : BOOLEAN, error : BOOLEAN]

Uncovered == [seq |-> 0, covers |-> FALSE, deleted |-> FALSE, error |-> FALSE]

\* The variables have their types, a page handed out is not empty (the cursor
\* of a stream never goes back) and the watcher has a snapshot to apply.
TypeOK ==
    /\ {committed, unpublished, highWater} \subseteq 0..MaxSeq
    /\ flight \in FlightState
    /\ stream \in [Stream -> StreamState]
    /\ \A s \in Stream : stream[s].at = "yield" => stream[s].cursor < stream[s].upto
    /\ {sample, snapshot, observation} \subseteq Observation \cup {None}
    /\ unapplied => snapshot # None
    /\ {deleted, invalidated, unapplied} \subseteq BOOLEAN
    /\ phase \in {"open", "closing", "closed"}

Init ==
    /\ committed = 0 /\ deleted = FALSE /\ unpublished = 0
    /\ highWater = 0 /\ invalidated = FALSE /\ flight = NoFlight
    /\ stream = [s \in Stream |-> NoStream]
    /\ sample = None
    /\ snapshot = IF Connected THEN Uncovered ELSE None
    /\ unapplied = FALSE
    /\ observation = snapshot
    /\ phase = "open"
    /\ opens = 0

\* self._closing or self._closed
closing == phase # "open"

\* _notify: the signal moves for every stream.
Notified(streams) ==
    [s \in Stream |-> IF streams[s].at \in {"off", "closing", "unwatch"} THEN streams[s]
                      ELSE [streams[s] EXCEPT !.notified = TRUE, !.fallback = FALSE]]

\* The actor is in _stream_interests.
Interest(streams) == \E s \in Stream : streams[s].at # "off"

\* _set_actor_interests: a catch-up made for other interests is discarded.
SampleFor(streams) == IF Interest(streams) = Interest(stream) THEN sample ELSE None

\* The stream raises or returns: its finally clauses are next.
Ended == [NoStream EXCEPT !.at = "closing"]

Reading(s) == stream[s].at \notin {"off", "closing", "unwatch"}

\* The pages have readers: some stream has not released them.
Retained(streams) ==
    phase # "closed" /\ \E s \in Stream : streams[s].at \notin {"off", "unwatch"}

\* advance
Advanced(seq) == IF Retained(stream) /\ highWater < seq THEN seq ELSE highWater

----------------------------------------------------------------------------
(* A stream *)

Open(s, after) ==
    /\ stream[s].at = "off"
    /\ ~closing
    /\ opens < MaxOpens
    /\ stream' = [stream EXCEPT ![s] = [NoStream EXCEPT !.at = "opening", !.cursor = after]]
    /\ sample' = SampleFor(stream')
    /\ opens' = opens + 1
    /\ UNCHANGED <<database, pages, snapshot, unapplied, observation, phase>>

\* The header is read; a deleted session raises SessionNotFound.
HeaderRead(s) ==
    /\ stream[s].at \in {"opening", "header"}
    /\ stream[s].seen = None
    /\ stream' = [stream EXCEPT ![s] = IF deleted THEN Ended
                                       ELSE [@ EXCEPT !.seen = committed]]
    /\ UNCHANGED <<database, pages, watching, phase, opens>>

Opened(s) ==
    /\ stream[s].at = "opening"
    /\ stream[s].seen # None
    /\ highWater' = Advanced(stream[s].seen)
    /\ stream' = [stream EXCEPT ![s].at = "top", ![s].seen = None]
    /\ UNCHANGED <<database, invalidated, flight, watching, phase, opens>>

\* The signal is compared with the one of the top of the loop before waiting.
Asleep(st) == [st EXCEPT !.at = IF st.notified THEN "top" ELSE "sleep"]

\* The page was empty: the header tells whether the page was stale.
CheckedHeader(s) ==
    /\ stream[s].at = "header"
    /\ stream[s].seen # None
    /\ highWater' = Advanced(stream[s].seen)
    /\ LET st == [stream[s] EXCEPT !.fallback = ~stream[s].notified, !.seen = None]
       IN  stream' = [stream EXCEPT ![s] =
              IF st.cursor < stream[s].seen THEN [st EXCEPT !.at = "top"]
              ELSE IF closing THEN Ended ELSE Asleep(st)]
    /\ UNCHANGED <<database, invalidated, flight, watching, phase, opens>>

\* _current_observation: the first look takes the coordinator's snapshot.
CurrentObservation == IF observation = None THEN snapshot ELSE observation

Covered(o) == o # None /\ o.covers

\* There is something to read, or nobody would tell and it has not looked.
WantsPage(st, hw, covered) == st.cursor < hw \/ (~covered /\ ~st.fallback)

\* From the top of the loop to the next suspension.
Top(s) ==
    /\ stream[s].at = "top"
    /\ LET o == CurrentObservation
           st == [stream[s] EXCEPT !.notified = FALSE]
           hw == IF Covered(o) THEN Advanced(o.seq) ELSE highWater
       IN  IF invalidated \/ closing
           THEN /\ stream' = [stream EXCEPT ![s] = Ended]
                /\ UNCHANGED <<observation, highWater, flight>>
           ELSE /\ observation' = o
                /\ IF o # None /\ (o.deleted \/ o.error)
                   THEN /\ stream' = [stream EXCEPT ![s] = Ended]
                        /\ UNCHANGED <<highWater, flight>>
                   ELSE /\ highWater' = hw
                        /\ IF WantsPage(st, hw, Covered(o))
                           THEN /\ stream' = [stream EXCEPT ![s] = [st EXCEPT !.at = "waiting"]]
                                /\ flight' = IF flight.at = "none" THEN [NoFlight EXCEPT !.at = "reading"]
                                            ELSE flight
                           ELSE /\ stream' = [stream EXCEPT ![s] = Asleep(st)]
                                /\ UNCHANGED flight
    /\ UNCHANGED <<database, invalidated, sample, snapshot, unapplied,
                   phase, opens>>

\* The fetch reads, and later hands its page to the streams that await it.
FlightRead ==
    /\ flight.at = "reading"
    /\ flight' = [at |-> "read", upto |-> IF deleted THEN 0 ELSE committed]
    /\ UNCHANGED <<database, highWater, invalidated, stream, watching, phase, opens>>

Paged(st) ==
    IF st.cursor < flight.upto THEN [st EXCEPT !.at = "yield", !.upto = flight.upto]
    ELSE [st EXCEPT !.at = "header"]

FlightDone ==
    /\ flight.at = "read"
    /\ flight' = NoFlight
    /\ highWater' = IF invalidated THEN highWater ELSE Advanced(flight.upto)
    /\ stream' = [s \in Stream |->
                     IF stream[s].at = "waiting" THEN Paged(stream[s]) ELSE stream[s]]
    /\ UNCHANGED <<database, invalidated, watching, phase, opens>>

Yield(s) ==
    /\ stream[s].at = "yield"
    /\ stream' = [stream EXCEPT ![s] =
          IF invalidated THEN Ended
          ELSE [@ EXCEPT !.at = "top", !.cursor = stream[s].upto, !.upto = 0]]
    /\ UNCHANGED <<database, pages, watching, phase, opens>>

Wake(s) ==
    /\ stream[s].at = "sleep"
    /\ stream[s].notified
    /\ stream' = [stream EXCEPT ![s].at = "top"]
    /\ UNCHANGED <<database, pages, watching, phase, opens>>

\* The consumer leaves: the generator is closed or its task cancelled.
Stop(s) ==
    /\ Reading(s)
    /\ stream' = [stream EXCEPT ![s] = Ended]
    /\ UNCHANGED <<database, pages, watching, phase, opens>>

\* The pages are released; the last stream takes the high water mark along.
Release(s) ==
    /\ stream[s].at = "closing"
    /\ stream' = [stream EXCEPT ![s].at = "unwatch"]
    /\ IF Retained(stream') THEN UNCHANGED pages
       ELSE highWater' = 0 /\ invalidated' = FALSE /\ flight' = NoFlight
    /\ UNCHANGED <<database, watching, phase, opens>>

\* Mutant: the watcher stops but the observation stays.
KeepsObservation(streams) == FALSE

\* not self._interested(root_id)
Unused(streams) == ~Connected /\ ~Interest(streams)

\* _release_actor_interest: with the last interest the watcher goes, and with
\* it the observation and the coordinator's snapshot.
Unwatch(s) ==
    /\ stream[s].at = "unwatch"
    /\ stream' = [stream EXCEPT ![s] = NoStream]
    /\ sample' = SampleFor(stream')
    /\ IF Unused(stream')
       THEN snapshot' = None /\ unapplied' = FALSE /\ observation' = None
       ELSE UNCHANGED <<snapshot, unapplied, observation>>
    /\ UNCHANGED <<database, pages, phase, opens>>

----------------------------------------------------------------------------
(* The journal *)

\* An append of this runtime commits; it is announced when its task resumes.
AppendLocal ==
    /\ ~deleted /\ ~closing /\ unpublished = 0
    /\ committed < MaxSeq
    /\ committed' = committed + 1
    /\ unpublished' = committed'
    /\ UNCHANGED <<deleted, pages, stream, watching, phase, opens>>

\* The rest of _append.
PublishLocal ==
    /\ unpublished # 0
    /\ unpublished' = 0
    /\ highWater' = Advanced(unpublished)
    /\ stream' = Notified(stream)
    /\ UNCHANGED <<committed, deleted, invalidated, flight, watching, phase, opens>>

\* An append of another runtime: nothing here is told.
AppendRemote ==
    /\ ~deleted
    /\ committed < MaxSeq
    /\ committed' = committed + 1
    /\ UNCHANGED <<deleted, unpublished, pages, stream, watching, phase, opens>>

\* The tree is deleted, here or elsewhere.
Delete ==
    /\ ~deleted
    /\ deleted' = TRUE
    /\ UNCHANGED <<committed, unpublished, pages, stream, watching, phase, opens>>

----------------------------------------------------------------------------
(* Observations *)

Watched == ~closing /\ (Connected \/ Interest(stream))

\* _catch_up asks the database about the root and the actors of interest.
CatchUpRead ==
    /\ Watched
    /\ sample = None
    /\ sample' = [seq |-> IF Interest(stream) /\ ~deleted THEN committed ELSE 0,
                  covers |-> Interest(stream), deleted |-> deleted, error |-> FALSE]
    /\ UNCHANGED <<database, pages, stream, snapshot, unapplied, observation,
                   phase, opens>>

CatchUpDone ==
    /\ Watched
    /\ sample # None
    /\ snapshot' = sample
    /\ unapplied' = TRUE
    /\ sample' = None
    /\ UNCHANGED <<database, pages, stream, observation, phase, opens>>

\* The query fails: the last snapshot is repeated as an error.
CatchUpFails ==
    /\ Watched
    /\ sample = None
    /\ opens < MaxOpens
    /\ opens' = opens + 1
    /\ snapshot' = [(IF snapshot = None
                     THEN [Uncovered EXCEPT !.covers = Interest(stream)]
                     ELSE snapshot) EXCEPT !.error = TRUE]
    /\ unapplied' = TRUE
    /\ UNCHANGED <<database, pages, stream, sample, observation, phase>>

\* Mutant: only a change of coverage wakes the streams.
WakesForCoverage(previous, o) ==
    previous = None \/ previous.covers # o.covers \/ o.error

\* The streams are woken when what they act on differs from the observation
\* the runtime had.
WakesStreams(previous, o) ==
    \/ previous = None
    \/ previous.seq # o.seq
    \/ previous.covers # o.covers
    \/ o.error

\* _apply_observation, by the watcher; a deletion invalidates the pages.
ApplyObservation ==
    /\ Watched
    /\ unapplied
    /\ unapplied' = FALSE
    /\ observation' = snapshot
    /\ invalidated' = (invalidated \/ (snapshot.deleted /\ Retained(stream)))
    /\ stream' = IF snapshot.deleted \/ WakesStreams(observation, snapshot)
                 THEN Notified(stream) ELSE stream
    /\ UNCHANGED <<database, highWater, flight, sample, snapshot, phase, opens>>

\* aclose wakes every stream and stops watching.
Close ==
    /\ phase = "open"
    /\ phase' = "closing"
    /\ stream' = Notified(stream)
    /\ sample' = None /\ snapshot' = None /\ unapplied' = FALSE
    /\ UNCHANGED <<database, pages, observation, opens>>

\* When the work has been interrupted it closes the pages: a stream that awaits
\* the fetch gets an empty page.
ClosePages ==
    /\ phase = "closing"
    /\ phase' = "closed"
    /\ highWater' = 0 /\ invalidated' = FALSE /\ flight' = NoFlight
    /\ stream' = [s \in Stream |-> IF stream[s].at = "waiting"
                                   THEN [stream[s] EXCEPT !.at = "header"] ELSE stream[s]]
    /\ UNCHANGED <<database, watching, opens>>

----------------------------------------------------------------------------

Run(s) ==
    \/ HeaderRead(s) \/ Opened(s) \/ CheckedHeader(s) \/ Top(s) \/ Yield(s)
    \/ Wake(s) \/ Release(s) \/ Unwatch(s)

Fly == FlightRead \/ FlightDone

CatchUp == CatchUpRead \/ CatchUpDone

Next ==
    \/ \E s \in Stream, after \in Cursor : Open(s, after)
    \/ \E s \in Stream : Run(s) \/ Stop(s)
    \/ Fly \/ CatchUp \/ CatchUpFails \/ ApplyObservation
    \/ AppendLocal \/ PublishLocal \/ AppendRemote \/ Delete \/ Close \/ ClosePages

Spec == Init /\ [][Next]_vars

\* The event loop runs whatever is ready, consumers come back for the next
\* event, and catch-up is repeated every catch_up_interval.
FairSpec ==
    /\ Spec
    /\ \A s \in Stream : WF_vars(Run(s))
    /\ WF_vars(Fly)
    /\ WF_vars(CatchUp)
    /\ WF_vars(ApplyObservation)
    /\ WF_vars(PublishLocal)

----------------------------------------------------------------------------
(* Properties *)

\* When the last stream has gone nothing is kept for its root: a watcher that
\* stopped leaves no observation for the next stream to mistake for a fresh one.
NothingIsLeftBehind ==
    (~Connected /\ ~Interest(stream)) =>
        /\ <<sample, snapshot, observation>> = <<None, None, None>>
        /\ <<highWater, flight>> = <<0, NoFlight>>

\* An open stream hands out what is committed: no combination of missed hints,
\* stale fetches and shared observations leaves it asleep before an event.
StreamsCatchUp ==
    \A s \in Stream, n \in 1..MaxSeq :
        (Reading(s) /\ committed >= n)
        ~> (stream[s].cursor >= n \/ ~Reading(s) \/ deleted \/ closing)

=============================================================================
