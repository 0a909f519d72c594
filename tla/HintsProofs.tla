---------------------------- MODULE HintsProofs -----------------------------
(***************************************************************************)
(* No hint is lost (Hints), for every set of roots and observers and any   *)
(* number of changes, lost connections and failed queries; and no request  *)
(* is forgotten between the listener and the dispatchers (Dispatch), for   *)
(* every set of roots and any number of slots.                             *)
(***************************************************************************)
EXTENDS Hints, Dispatch, FiniteSetTheorems, TLAPS

\* Somebody will be told of the root.
Announced(r) ==
    \/ r \in dirty \cup delayed
    \/ \E n \in channel : n.root = r
    \/ listener # "listening"

\* The tasks run exactly while the service is started.
Phases ==
    /\ service = "started" <=> loop.at # "off"
    /\ service = "started" <=> listener # "off"
    /\ service = "new" => Observed = {}

\* What a query under way holds: the roots it may answer for are observed, by the
\* same state and with the same interests, and what was published since it read
\* has been announced.
QueryInv ==
    /\ loop.at \in {"asleep", "off"} => loop.roots = {}
    /\ loop.current \subseteq loop.roots
    /\ loop.current \subseteq Observed
    /\ \A r \in loop.current : loop.scope[r] = ScopeBy(observers, interests, r)
    /\ loop.at = "queried" =>
          \A r \in Root : /\ loop.seen[r] <= changes[r]
                          /\ r \in loop.current /\ loop.seen[r] < changes[r] => Announced(r)

\* No snapshot is ahead of the database.
SnapshotInv ==
    \A r \in Root : snapshots[r] # NoSnapshot => snapshots[r].change <= changes[r]

IInv == NoHintIsLost /\ Phases /\ QueryInv /\ SnapshotInv

----------------------------------------------------------------------------
(* Records *)

\* Setting the fields of an observer keeps its type.
LEMMA ObserverFields ==
    ASSUME NEW x \in ObserverState, NEW c \in Nat
    PROVE  /\ [x EXCEPT !.fresh = FALSE, !.first = FALSE, !.paging = TRUE] \in ObserverState
           /\ [x EXCEPT !.fresh = FALSE] \in ObserverState
           /\ [x EXCEPT !.fresh = TRUE] \in ObserverState
           /\ [x EXCEPT !.paging = FALSE, !.cursor = c] \in ObserverState
BY DEF ObserverState

\* An observer that is not in use is one.
LEMMA NoObserverType == NoObserver \in ObserverState
BY DEF ObserverState, NoObserver

\* What a failed query leaves is a snapshot.
LEMMA UnknownType ==
    ASSUME HintTypeOK
    PROVE  \A r \in Root : Unknown(r) \in Snapshot
<1>1. \A x \in Snapshot : [x EXCEPT !.error = TRUE] \in Snapshot
  BY DEF Snapshot
<1> TAKE r \in Root
<1>2. CASE snapshots[r] = NoSnapshot
  BY <1>2 DEF HintTypeOK, Unknown, Snapshot, LoopState
<1>3. CASE snapshots[r] # NoSnapshot
  <2>1. snapshots[r] \in Snapshot
    BY <1>3 DEF HintTypeOK
  <2> QED  BY <1>1, <1>3, <2>1 DEF Unknown
<1> QED  BY <1>2, <1>3

----------------------------------------------------------------------------
(* The steps that need an argument *)

\* A change is announced in the step that makes it.
LEMMA PublishRest ==
    ASSUME IInv, NEW r \in Root, NEW kind \in Kind, PublishChange(r, kind)
    PROVE  SnapshotsFollow' /\ QueryInv'
<1> USE DEF IInv, NoHintIsLost
<1>1. listener \in {"down", "off"} \/ [root |-> r, kind |-> kind] \in channel'
  BY DEF HintTypeOK, PublishChange
<1>2. channel \subseteq channel'
  BY DEF PublishChange
<1>3. \A q \in Root : (\E n \in channel : n.root = q) => \E n \in channel' : n.root = q
  BY <1>2
<1>4. listener # "listening" \/ \E n \in channel' : n.root = r
  BY <1>1
<1>5. \A q \in Root : q # r => changes'[q] = changes[q]
  BY DEF HintTypeOK, PublishChange
<1>6. changes'[r] = changes[r] + 1 /\ changes \in [Root -> Nat]
  BY DEF HintTypeOK, PublishChange
<1>7. UNCHANGED <<service, observers, interests, dirty, delayed, wake, loop, snapshots,
                  listener>>
  BY DEF PublishChange, scheduleVars
<1>8. SnapshotsFollow'
  BY <1>3, <1>4, <1>5, <1>6, <1>7
  DEF HintTypeOK, SnapshotsFollow, Uncovered, Outrun, Asked, AskedForNewest, Observed,
      ObservedBy, ScopeBy, FullBy, LoopState
<1>9. QueryInv'
  BY <1>3, <1>4, <1>5, <1>6, <1>7
  DEF HintTypeOK, QueryInv, Announced, Observed, ObservedBy, ScopeBy, FullBy, LoopState
<1> QED  BY <1>8, <1>9

\* A notice that is taken from the channel leaves its root scheduled.
LEMMA NoticeRest ==
    ASSUME IInv, NEW n \in channel, Notice(n)
    PROVE  /\ dirty' \subseteq Root /\ delayed' \subseteq Root
           /\ SnapshotsFollow' /\ QueryInv' /\ NothingIsSleptOver'
<1> USE DEF IInv, NoHintIsLost
<1>1. n.root \in Root
  BY DEF HintTypeOK
<1>2. UNCHANGED <<service, observers, interests, loop, snapshots, listener, changes>>
  BY DEF Notice
<1>3. channel' = channel \ {n}
  BY DEF Notice
<1>4. /\ dirty \subseteq dirty'
      /\ dirty \cup delayed \subseteq dirty' \cup delayed'
      /\ n.root \in Observed => n.root \in dirty' \cup delayed'
      /\ dirty' \cup delayed' \subseteq dirty \cup delayed \cup ({n.root} \cap Observed)
      /\ wake' \/ (wake' = wake /\ dirty' = dirty /\ delayed' = delayed)
  <2>1. CASE n.kind = "journal" /\ n.root \in Observed
    BY <2>1 DEF Notice, Delay
  <2>2. CASE ~(n.kind = "journal" /\ n.root \in Observed)
    <3>1. Schedule({n.root} \cap Observed, dirty, delayed)
      BY <2>2 DEF Notice
    <3> QED  BY <3>1, <1>1 DEF Schedule
  <2> QED  BY <2>1, <2>2
<1>5. Observed \subseteq Root
  BY DEF Observed, ObservedBy
<1>6. \A q \in Root : (\E m \in channel : m.root = q)
                       => q = n.root \/ \E m \in channel' : m.root = q
  BY <1>3
<1>7. SnapshotsFollow'
  BY <1>2, <1>4, <1>5, <1>6
  DEF HintTypeOK, SnapshotsFollow, Uncovered, Outrun, Asked, AskedForNewest, Observed,
      ObservedBy, ScopeBy, FullBy
<1>8. QueryInv'
  BY <1>2, <1>4, <1>5, <1>6
  DEF HintTypeOK, QueryInv, Announced, Observed, ObservedBy, ScopeBy, FullBy
<1>9. NothingIsSleptOver'
  BY <1>2, <1>4, <1>5 DEF NothingIsSleptOver, Observed, ObservedBy
<1> QED  BY <1>4, <1>5, <1>7, <1>8, <1>9 DEF HintTypeOK

\* A watch that does not read the changes has them already.
LEMMA LookRest ==
    ASSUME IInv, NEW o \in Observer, Look(o)
    PROVE  WatchesKeepUp'
<1> SUFFICES ASSUME NEW p \in Observer, observers'[p].root # NoRoot,
                    observers'[p].full, ~observers'[p].fresh, ~observers'[p].paging,
                    snapshots[observers'[p].root] # NoSnapshot,
                    ~snapshots[observers'[p].root].error,
                    snapshots[observers'[p].root].scope = Everything
             PROVE  snapshots[observers'[p].root].change <= observers'[p].cursor
  BY DEF WatchesKeepUp, Look
<1>1. CASE p # o
  BY <1>1 DEF IInv, NoHintIsLost, HintTypeOK, WatchesKeepUp, Look
<1>2. CASE p = o
  <2> DEFINE s == snapshots[observers[o].root]
  <2>1. observers[o] \in ObserverState /\ observers'[o].root = observers[o].root /\ observers'[o].full = observers[o].full
         /\ observers'[o].cursor = observers[o].cursor
     BY DEF IInv, NoHintIsLost, HintTypeOK, Look, ObserverState
  <2>2. Visible(o, s) /\ observers[o].full
    BY <1>2, <2>1 DEF Visible
  <2>3. ~WatchReads(o, s)
     BY <1>2, <2>2, <2>1 DEF Look, IInv, NoHintIsLost, HintTypeOK, ObserverState
  <2>4. s \in Snapshot
    BY <1>2, <2>1, <2>2 DEF IInv, NoHintIsLost, HintTypeOK, ObserverState, Look, Visible
  <2> QED  BY <1>2, <2>1, <2>3, <2>4 DEF WatchReads, Snapshot, ObserverState
<1> QED  BY <1>1, <1>2

\* An answer covers the present interests and is as new as what was not
\* announced since; a root it does not answer for is scheduled.
LEMMA AnswerRest ==
    ASSUME IInv, NEW found \in [Root -> Snapshot],
           \A r \in loop.current :
               ~found[r].error => loop.at = "queried" /\ found[r] = Found(r),
           Answer(found)
    PROVE  SnapshotsFollow' /\ NothingIsSleptOver'
<1> USE DEF IInv, NoHintIsLost
<1>0. loop.current \subseteq Root /\ loop.roots \subseteq Root /\ Observed \subseteq Root
  BY DEF HintTypeOK, LoopState, Observed, ObservedBy
<1>1. /\ dirty' = dirty \cup ((loop.roots \ loop.current) \cap Observed)
      /\ delayed' = delayed \ ((loop.roots \ loop.current) \cap Observed)
      /\ loop' = Asleep(delayed')
      /\ UNCHANGED <<service, interests, listener, channel, changes>>
  BY DEF Answer, Schedule, databaseVars
<1>2. \A o \in Observer : observers'[o].root = observers[o].root /\ observers'[o].full = observers[o].full
  BY DEF Answer, HintTypeOK, ObserverState
<1>3. Observed' = Observed /\ \A r \in Root : ScopeBy(observers', interests', r) = ScopeBy(observers, interests, r)
  BY <1>1, <1>2 DEF Observed, ObservedBy, ScopeBy, FullBy
<1>4. NothingIsSleptOver'
  <2>1. wake' \/ dirty' = {}
    BY DEF Answer, Schedule, NothingIsSleptOver
  <2> QED  BY <2>1, <1>1, <1>3 DEF NothingIsSleptOver, Asleep
<1>5. SnapshotsFollow'
  <2> SUFFICES ASSUME service = "started", NEW r \in Observed
               PROVE /\ Uncovered(r)' => r \in dirty'
                     /\ Outrun(r)' => Announced(r)'
    BY <1>1, <1>3 DEF SnapshotsFollow, Announced
  <2>1. r \in Root
    BY <1>0
  <2>2. CASE r \in loop.current
    <3>1. snapshots'[r] = found[r] /\ found[r] \in Snapshot
      BY <2>1, <2>2 DEF Answer
    <3>2. CASE found[r].error
      BY <3>1, <3>2, HintsAssumption DEF Uncovered, Outrun
    <3>3. CASE ~found[r].error
      <4>1. snapshots'[r] = Found(r) /\ loop.at = "queried"
        BY <3>1, <3>3, <2>2
      <4>2. loop.scope[r] = ScopeBy(observers, interests, r)
        BY <2>2 DEF QueryInv
      <4>3. ~Uncovered(r)'
        <5>1. snapshots'[r] # NoSnapshot
          BY <3>1, HintsAssumption
        <5>2. snapshots'[r].scope = ScopeBy(observers', interests', r)
          BY <4>1, <4>2, <1>3, <2>1 DEF Found
        <5> QED  BY <5>1, <5>2 DEF Uncovered
      <4>4. Outrun(r)' => Announced(r)
        BY <4>1, <1>1, <2>1, <2>2 DEF Outrun, Found, QueryInv
      <4> QED  BY <4>3, <4>4, <1>1, <2>2 DEF Announced
    <3> QED  BY <3>2, <3>3
  <2>3. CASE r \notin loop.current
    <3>1. snapshots'[r] = snapshots[r]
      BY <2>1, <2>3 DEF Answer
    <3>2. CASE r \in loop.roots
      BY <3>2, <2>3, <1>1 DEF Announced
    <3>3. CASE r \notin loop.roots
      BY <3>1, <3>3, <1>1, <1>3, <2>1
      DEF SnapshotsFollow, Announced, Uncovered, Outrun, Asked, AskedForNewest
    <3> QED  BY <3>2, <3>3
  <2> QED  BY <2>2, <2>3
<1> QED  BY <1>4, <1>5

\* An observer that leaves takes nothing from the observers that stay.
LEMMA ForgetRest ==
    ASSUME IInv, NEW o \in Observer, observers[o].root # NoRoot, Forget(o),
           UNCHANGED <<service, interests, listener, databaseVars>>
    PROVE  HintTypeOK' /\ SnapshotsFollow' /\ NothingIsSleptOver' /\ QueryInv'
<1> USE DEF IInv, NoHintIsLost
<1> DEFINE r == observers[o].root
           narrows == observers[o].full /\ ~FullBy(observers', r)
           last == r \notin ObservedBy(observers')
<1>1. observers' = [observers EXCEPT ![o] = NoObserver]
  BY DEF Forget
<1>2. r \in Root /\ r \in Observed
  BY DEF HintTypeOK, ObserverState, Observed, ObservedBy
<1>3. /\ observers'[o] = NoObserver
      /\ \A p \in Observer : p # o => observers'[p] = observers[p]
  BY <1>1 DEF HintTypeOK
<1>4. /\ \A q \in Root : q # r => (q \in Observed' <=> q \in Observed)
      /\ last <=> r \notin Observed'
      /\ Observed \subseteq Root /\ Observed' \subseteq Root
  BY <1>3, HintsAssumption DEF Observed, ObservedBy, NoObserver
<1>5. \A q \in Root : q # r \/ ~narrows => FullBy(observers', q) = FullBy(observers, q)
  <2> TAKE q \in Root
  <2>1. CASE q # r
    BY <2>1, <1>3, HintsAssumption DEF FullBy, NoObserver
  <2>2. CASE q = r /\ ~narrows
    <3>1. CASE FullBy(observers', r)
      BY <2>2, <3>1, <1>3, <1>2, HintsAssumption DEF FullBy, NoObserver
    <3>2. CASE ~FullBy(observers', r) 
      <4>1. ~observers[o].full
        BY <2>2, <3>2
      <4>2. \A p \in Observer : observers[p].root = r /\ observers[p].full => p # o
        BY <4>1
      <4> QED  BY <2>2, <3>2, <4>2, <1>3 DEF FullBy
    <3> QED  BY <3>1, <3>2
  <2> QED  BY <2>1, <2>2
<1>6. \A q \in Root : q # r \/ ~narrows => ScopeBy(observers', interests', q) = ScopeBy(observers, interests, q)
  BY <1>5 DEF ScopeBy
<1>7. /\ loop' = [loop EXCEPT !.current = @ \ (IF narrows \/ last THEN {r} ELSE {})]
      /\ snapshots' = IF last THEN [snapshots EXCEPT ![r] = NoSnapshot] ELSE snapshots
      /\ IF last THEN dirty' = dirty \ {r} /\ delayed' = delayed \ {r} /\ UNCHANGED wake
         ELSE Schedule(IF narrows THEN {r} ELSE {}, dirty, delayed)
  BY DEF Forget, Outdated
<1>8. UNCHANGED <<channel, changes>>
  BY DEF databaseVars
<1>9. loop \in LoopState /\ loop' \in LoopState
      /\ loop'.current = loop.current \ (IF narrows \/ last THEN {r} ELSE {})
      /\ loop'.at = loop.at /\ loop'.roots = loop.roots /\ loop'.scope = loop.scope
      /\ loop'.seen = loop.seen /\ loop'.alarm = loop.alarm
  BY <1>7 DEF HintTypeOK, LoopState
<1>10. /\ dirty' = IF last THEN dirty \ {r} ELSE IF narrows THEN dirty \cup {r} ELSE dirty
       /\ delayed' = IF last \/ narrows THEN delayed \ {r} ELSE delayed
       /\ wake' = IF ~last /\ narrows THEN TRUE ELSE wake
  BY <1>7 DEF Schedule
<1>11. \A q \in Root : q # r \/ ~last => snapshots'[q] = snapshots[q]
  BY <1>7 DEF HintTypeOK
<1>12. HintTypeOK'
  <2>1. observers' \in [Observer -> ObserverState]
    BY <1>1, NoObserverType DEF HintTypeOK
  <2>2. snapshots' \in [Root -> Snapshot \cup {NoSnapshot}]
    BY <1>7 DEF HintTypeOK
  <2>3. wake' \in BOOLEAN
    BY <1>10, Zenon DEF HintTypeOK
  <2>4. dirty' \subseteq Root /\ delayed' \subseteq Root
    BY <1>10, <1>2 DEF HintTypeOK
  <2> QED  BY <2>1, <2>2, <2>3, <2>4, <1>8, <1>9, Zenon DEF HintTypeOK
<1>13. SnapshotsFollow'
  <2> SUFFICES ASSUME service = "started", NEW q \in Observed'
               PROVE  /\ Uncovered(q)' => q \in dirty' \/ Asked(q)'
                      /\ Outrun(q)' => Announced(q)' \/ AskedForNewest(q)'
    BY DEF SnapshotsFollow, Announced
  <2>1. q \in Root /\ q \in Observed
    BY <1>2, <1>4
  <2>2. CASE q = r
    <3>1. ~last
      BY <2>2, <1>4
    <3>2. CASE narrows
      BY <2>2, <3>1, <3>2, <1>10 DEF Announced
    <3>3. CASE ~narrows
      BY <2>1, <3>1, <3>3, <1>6, <1>8, <1>9, <1>10, <1>11, <2>2
      DEF SnapshotsFollow, Announced, Uncovered, Outrun, Asked, AskedForNewest
    <3> QED  BY <3>2, <3>3
  <2>3. CASE q # r
      BY <2>1, <2>3, <1>6, <1>8, <1>9, <1>10, <1>11
      DEF SnapshotsFollow, Announced, Uncovered, Outrun, Asked, AskedForNewest
  <2> QED  BY <2>2, <2>3
<1>14. NothingIsSleptOver'
  BY <1>2, <1>4, <1>9, <1>10 DEF NothingIsSleptOver, HintTypeOK
<1>15. QueryInv'
  <2>1. loop'.current \subseteq Observed'
    BY <1>2, <1>4, <1>9 DEF QueryInv
  <2>2. ASSUME NEW q \in loop'.current PROVE loop'.scope[q] = ScopeBy(observers', interests', q)
    <3>1. q \in Root /\ q \in loop.current /\ (q # r \/ ~narrows)
      BY <1>9, <2>1, <1>4
    <3> QED  BY <3>1, <1>6, <1>9 DEF QueryInv
  <2>3. ASSUME loop'.at = "queried", NEW q \in Root
        PROVE  /\ loop'.seen[q] <= changes'[q]
               /\ q \in loop'.current /\ loop'.seen[q] < changes'[q] => Announced(q)'
    <3>1. loop'.seen[q] <= changes'[q]
      BY <2>3, <1>8, <1>9 DEF QueryInv
    <3>2. ASSUME q \in loop'.current, loop'.seen[q] < changes'[q] PROVE Announced(q)'
      <4>1. q # r \/ (~last /\ ~narrows)
        BY <3>2, <1>9
      <4>2. Announced(q)
        BY <3>2, <2>3, <1>8, <1>9 DEF QueryInv
      <4> QED  BY <4>1, <4>2, <1>8, <1>10 DEF Announced
    <3> QED  BY <3>1, <3>2
  <2> QED  BY <2>1, <2>2, <2>3, <1>9 DEF QueryInv
<1> QED  BY <1>12, <1>13, <1>14, <1>15

----------------------------------------------------------------------------
(* One lemma per action *)

\* Starting schedules nothing, and nobody observes yet.
LEMMA StartKeeps ==
    ASSUME IInv, Start
    PROVE  IInv'
<1> USE HintsAssumption DEF IInv, NoHintIsLost
<1>1. HintTypeOK'
  <2>1. /\ service' \in {"new", "started", "closed"} /\ interests' \in [Root -> Scope]
        /\ dirty' \subseteq Root /\ delayed' \subseteq Root
        /\ listener' \in {"off", "down", "registered", "listening"}
        /\ channel' \subseteq [root : Root, kind : Kind] /\ changes' \in [Root -> Nat]
    BY SMT
    DEF HintTypeOK, LoopState, ObserverState, Snapshot, Scope, Kind, scheduleVars,
        databaseVars, Start, Asleep, Observed, ObservedBy, ScopeBy
  <2>2. observers' \in [Observer -> ObserverState]
    BY SMT DEF HintTypeOK, Start, Asleep
  <2>3. loop' \in LoopState
    BY SMT
    DEF HintTypeOK, LoopState, ObserverState, Snapshot, Scope, Kind, scheduleVars,
        databaseVars, Start, Asleep, Observed, ObservedBy, ScopeBy
  <2>4. snapshots' \in [Root -> Snapshot \cup {NoSnapshot}]
    BY SMT
    DEF HintTypeOK, LoopState, ObserverState, Snapshot, Scope, Kind, scheduleVars,
        databaseVars, Start, Asleep, Observed, ObservedBy, ScopeBy
  <2>5. wake' \in BOOLEAN
    BY Zenon DEF HintTypeOK, scheduleVars, databaseVars, Start, Asleep
  <2> QED  BY <2>1, <2>2, <2>3, <2>4, <2>5 DEF HintTypeOK
<1>2. SnapshotsFollow'
  BY <1>1, SMTT(20)
  DEF HintTypeOK, LoopState, ObserverState, Snapshot, Scope, Kind, scheduleVars,
      databaseVars, Start, Asleep, Phases, SnapshotsFollow, Uncovered,
      Outrun, Asked, AskedForNewest, QueryInv, Announced, Observed, ObservedBy,
      ScopeBy, FullBy
<1>3. NothingIsSleptOver'
  BY <1>1, SMTT(20)
  DEF HintTypeOK, LoopState, ObserverState, Snapshot, Scope, Kind, scheduleVars,
      databaseVars, Start, Asleep, NothingIsSleptOver, Phases, Observed,
      ObservedBy, ScopeBy, FullBy
<1>4. WatchesKeepUp'
  BY <1>1, SMTT(20)
  DEF HintTypeOK, LoopState, ObserverState, Snapshot, Scope, Kind, scheduleVars,
      databaseVars, Start, Asleep, WatchesKeepUp, SnapshotInv
<1>6. Phases'
  BY <1>1, SMTT(20)
  DEF HintTypeOK, LoopState, ObserverState, Snapshot, Scope, Kind, scheduleVars,
      databaseVars, Start, Asleep, Phases, Observed, ObservedBy,
      ScopeBy, FullBy
<1>7. QueryInv'
  BY <1>1, SMTT(20)
  DEF HintTypeOK, LoopState, ObserverState, Snapshot, Scope, Kind, scheduleVars,
      databaseVars, Start, Asleep, QueryInv, Announced, Observed,
      ObservedBy, ScopeBy, FullBy
<1>8. SnapshotInv'
  BY <1>1, SMTT(20)
  DEF HintTypeOK, LoopState, ObserverState, Snapshot, Scope, Kind, scheduleVars,
      databaseVars, Start, Asleep, SnapshotInv, QueryInv
<1> QED  BY <1>1, <1>2, <1>3, <1>4, <1>6, <1>7, <1>8

\* Closing ends the tasks.
LEMMA CloseHintsKeeps ==
    ASSUME IInv, CloseHints
    PROVE  IInv'
<1> USE HintsAssumption DEF IInv, NoHintIsLost
<1>1. HintTypeOK'
  <2>1. /\ service' \in {"new", "started", "closed"} /\ interests' \in [Root -> Scope]
        /\ dirty' \subseteq Root /\ delayed' \subseteq Root
        /\ listener' \in {"off", "down", "registered", "listening"}
        /\ channel' \subseteq [root : Root, kind : Kind] /\ changes' \in [Root -> Nat]
    BY SMT
    DEF HintTypeOK, LoopState, ObserverState, Snapshot, Scope, Kind, scheduleVars,
        databaseVars, CloseHints, Asleep, Off, NoObserver, Observed,
        ObservedBy, ScopeBy
  <2>2. observers' \in [Observer -> ObserverState]
    BY NoObserverType, ObserverFields DEF HintTypeOK, CloseHints
  <2>3. loop' \in LoopState
    BY DEF CloseHints, Off, Asleep, LoopState, Scope
  <2>4. snapshots' \in [Root -> Snapshot \cup {NoSnapshot}]
    BY SMT
    DEF HintTypeOK, LoopState, ObserverState, Snapshot, Scope, Kind, scheduleVars,
        databaseVars, CloseHints, Asleep, Off, NoObserver, Observed,
        ObservedBy, ScopeBy
  <2>5. wake' \in BOOLEAN
    BY Zenon
    DEF HintTypeOK, scheduleVars, databaseVars, CloseHints, Asleep, Off,
        NoObserver
  <2> QED  BY <2>1, <2>2, <2>3, <2>4, <2>5 DEF HintTypeOK
<1>2. SnapshotsFollow'
  BY <1>1, SMTT(20)
  DEF HintTypeOK, LoopState, ObserverState, Snapshot, Scope, Kind, scheduleVars,
      databaseVars, CloseHints, Asleep, Off, NoObserver, Phases,
      SnapshotsFollow, Uncovered, Outrun, Asked, AskedForNewest, QueryInv, Announced,
      Observed, ObservedBy, ScopeBy, FullBy
<1>3. NothingIsSleptOver'
  BY <1>1, SMTT(20)
  DEF HintTypeOK, LoopState, ObserverState, Snapshot, Scope, Kind, scheduleVars,
      databaseVars, CloseHints, Asleep, Off, NoObserver,
      NothingIsSleptOver, Phases, Observed, ObservedBy, ScopeBy, FullBy
<1>4. WatchesKeepUp'
  BY <1>1, SMTT(20)
  DEF HintTypeOK, LoopState, ObserverState, Snapshot, Scope, Kind, scheduleVars,
      databaseVars, CloseHints, Asleep, Off, NoObserver, WatchesKeepUp,
      SnapshotInv
<1>6. Phases'
  BY <1>1, SMTT(20)
  DEF HintTypeOK, LoopState, ObserverState, Snapshot, Scope, Kind, scheduleVars,
      databaseVars, CloseHints, Asleep, Off, NoObserver, Phases,
      Observed, ObservedBy, ScopeBy, FullBy
<1>7. QueryInv'
  BY <1>1, SMTT(20)
  DEF HintTypeOK, LoopState, ObserverState, Snapshot, Scope, Kind, scheduleVars,
      databaseVars, CloseHints, Asleep, Off, NoObserver, QueryInv,
      Announced, Observed, ObservedBy, ScopeBy, FullBy
<1>8. SnapshotInv'
  BY <1>1, SMTT(20)
  DEF HintTypeOK, LoopState, ObserverState, Snapshot, Scope, Kind, scheduleVars,
      databaseVars, CloseHints, Asleep, Off, NoObserver, SnapshotInv,
      QueryInv
<1> QED  BY <1>1, <1>2, <1>3, <1>4, <1>6, <1>7, <1>8

\* A new observer is scheduled.
LEMMA ObserveKeeps ==
    ASSUME IInv, NEW o \in Observer, NEW r \in Root, NEW full \in BOOLEAN, NEW after \in Nat, Observe(o, r, full, after)
    PROVE  IInv'
<1> USE HintsAssumption DEF IInv, NoHintIsLost
<1>1. HintTypeOK'
  <2>1. /\ service' \in {"new", "started", "closed"} /\ interests' \in [Root -> Scope]
        /\ dirty' \subseteq Root /\ delayed' \subseteq Root
        /\ listener' \in {"off", "down", "registered", "listening"}
        /\ channel' \subseteq [root : Root, kind : Kind] /\ changes' \in [Root -> Nat]
    BY SMT
    DEF HintTypeOK, LoopState, ObserverState, Snapshot, Scope, Kind, scheduleVars,
        databaseVars, Observe, Schedule, Outdated, NoObserver, Observed,
        ObservedBy, ScopeBy
  <2>2. observers' \in [Observer -> ObserverState]
    <3>1. [NoObserver EXCEPT !.root = r, !.full = full, !.fresh = TRUE, !.cursor = after]
             \in ObserverState
      BY DEF ObserverState, NoObserver
    <3> QED  BY <3>1 DEF HintTypeOK, Observe
  <2>3. loop' \in LoopState
    BY SMT
    DEF HintTypeOK, LoopState, ObserverState, Snapshot, Scope, Kind, scheduleVars,
        databaseVars, Observe, Schedule, Outdated, NoObserver, Observed,
        ObservedBy, ScopeBy
  <2>4. snapshots' \in [Root -> Snapshot \cup {NoSnapshot}]
    BY SMT
    DEF HintTypeOK, LoopState, ObserverState, Snapshot, Scope, Kind, scheduleVars,
        databaseVars, Observe, Schedule, Outdated, NoObserver, Observed,
        ObservedBy, ScopeBy
  <2>5. wake' \in BOOLEAN
    BY Zenon
    DEF HintTypeOK, scheduleVars, databaseVars, Observe, Schedule,
        Outdated, NoObserver
  <2> QED  BY <2>1, <2>2, <2>3, <2>4, <2>5 DEF HintTypeOK
<1>2. SnapshotsFollow'
  BY <1>1, SMTT(20)
  DEF HintTypeOK, LoopState, ObserverState, Snapshot, Scope, Kind, scheduleVars,
      databaseVars, Observe, Schedule, Outdated, NoObserver, Phases,
      SnapshotsFollow, Uncovered, Outrun, Asked, AskedForNewest, QueryInv, Announced,
      Observed, ObservedBy, ScopeBy, FullBy
<1>3. NothingIsSleptOver'
  BY <1>1, SMTT(20)
  DEF HintTypeOK, LoopState, ObserverState, Snapshot, Scope, Kind, scheduleVars,
      databaseVars, Observe, Schedule, Outdated, NoObserver,
      NothingIsSleptOver, Phases, Observed, ObservedBy, ScopeBy, FullBy
<1>4. WatchesKeepUp'
  BY <1>1, SMTT(20)
  DEF HintTypeOK, LoopState, ObserverState, Snapshot, Scope, Kind, scheduleVars,
      databaseVars, Observe, Schedule, Outdated, NoObserver,
      WatchesKeepUp, SnapshotInv
<1>6. Phases'
  BY <1>1, SMTT(20)
  DEF HintTypeOK, LoopState, ObserverState, Snapshot, Scope, Kind, scheduleVars,
      databaseVars, Observe, Schedule, Outdated, NoObserver, Phases,
      Observed, ObservedBy, ScopeBy, FullBy
<1>7. QueryInv'
  BY <1>1, SMTT(20)
  DEF HintTypeOK, LoopState, ObserverState, Snapshot, Scope, Kind, scheduleVars,
      databaseVars, Observe, Schedule, Outdated, NoObserver, QueryInv,
      Announced, Observed, ObservedBy, ScopeBy, FullBy
<1>8. SnapshotInv'
  BY <1>1, SMTT(20)
  DEF HintTypeOK, LoopState, ObserverState, Snapshot, Scope, Kind, scheduleVars,
      databaseVars, Observe, Schedule, Outdated, NoObserver,
      SnapshotInv, QueryInv
<1> QED  BY <1>1, <1>2, <1>3, <1>4, <1>6, <1>7, <1>8

\* An observer takes a snapshot.
LEMMA LookKeeps ==
    ASSUME IInv, NEW o \in Observer, Look(o)
    PROVE  IInv'
<1> USE HintsAssumption DEF IInv, NoHintIsLost
<1>1. HintTypeOK'
  <2>1. /\ service' \in {"new", "started", "closed"} /\ interests' \in [Root -> Scope]
        /\ dirty' \subseteq Root /\ delayed' \subseteq Root
        /\ listener' \in {"off", "down", "registered", "listening"}
        /\ channel' \subseteq [root : Root, kind : Kind] /\ changes' \in [Root -> Nat]
    BY SMT
    DEF HintTypeOK, LoopState, ObserverState, Snapshot, Scope, Kind, scheduleVars,
        databaseVars, Look, Visible, WatchReads, Observed, ObservedBy,
        ScopeBy
  <2>2. observers' \in [Observer -> ObserverState]
    BY ObserverFields DEF HintTypeOK, Look
  <2>3. loop' \in LoopState
    BY SMT
    DEF HintTypeOK, LoopState, ObserverState, Snapshot, Scope, Kind, scheduleVars,
        databaseVars, Look, Visible, WatchReads, Observed, ObservedBy,
        ScopeBy
  <2>4. snapshots' \in [Root -> Snapshot \cup {NoSnapshot}]
    BY SMT
    DEF HintTypeOK, LoopState, ObserverState, Snapshot, Scope, Kind, scheduleVars,
        databaseVars, Look, Visible, WatchReads, Observed, ObservedBy,
        ScopeBy
  <2>5. wake' \in BOOLEAN
    BY Zenon
    DEF HintTypeOK, scheduleVars, databaseVars, Look, Visible,
        WatchReads
  <2> QED  BY <2>1, <2>2, <2>3, <2>4, <2>5 DEF HintTypeOK
<1>2. SnapshotsFollow'
  BY <1>1, SMTT(20)
  DEF HintTypeOK, LoopState, ObserverState, Snapshot, Scope, Kind, scheduleVars,
      databaseVars, Look, Visible, WatchReads, Phases, SnapshotsFollow,
      Uncovered, Outrun, Asked, AskedForNewest, QueryInv, Announced, Observed,
      ObservedBy, ScopeBy, FullBy
<1>3. NothingIsSleptOver'
  BY <1>1, SMTT(20)
  DEF HintTypeOK, LoopState, ObserverState, Snapshot, Scope, Kind, scheduleVars,
      databaseVars, Look, Visible, WatchReads, NothingIsSleptOver,
      Phases, Observed, ObservedBy, ScopeBy, FullBy
<1>4. WatchesKeepUp'
  BY LookRest
<1>6. Phases'
  BY <1>1, SMTT(20)
  DEF HintTypeOK, LoopState, ObserverState, Snapshot, Scope, Kind, scheduleVars,
      databaseVars, Look, Visible, WatchReads, Phases, Observed,
      ObservedBy, ScopeBy, FullBy
<1>7. QueryInv'
  BY <1>1, SMTT(20)
  DEF HintTypeOK, LoopState, ObserverState, Snapshot, Scope, Kind, scheduleVars,
      databaseVars, Look, Visible, WatchReads, QueryInv, Announced,
      Observed, ObservedBy, ScopeBy, FullBy
<1>8. SnapshotInv'
  BY <1>1, SMTT(20)
  DEF HintTypeOK, LoopState, ObserverState, Snapshot, Scope, Kind, scheduleVars,
      databaseVars, Look, Visible, WatchReads, SnapshotInv, QueryInv
<1> QED  BY <1>1, <1>2, <1>3, <1>4, <1>6, <1>7, <1>8

\* A watch reads the changes.
LEMMA ReadChangesKeeps ==
    ASSUME IInv, NEW o \in Observer, ReadChanges(o)
    PROVE  IInv'
<1> USE HintsAssumption DEF IInv, NoHintIsLost
<1>1. HintTypeOK'
  <2>1. /\ service' \in {"new", "started", "closed"} /\ interests' \in [Root -> Scope]
        /\ dirty' \subseteq Root /\ delayed' \subseteq Root
        /\ listener' \in {"off", "down", "registered", "listening"}
        /\ channel' \subseteq [root : Root, kind : Kind] /\ changes' \in [Root -> Nat]
    BY SMT
    DEF HintTypeOK, LoopState, ObserverState, Snapshot, Scope, Kind, scheduleVars,
        databaseVars, ReadChanges, Observed, ObservedBy, ScopeBy
  <2>2. observers' \in [Observer -> ObserverState]
    <3>1. changes[observers[o].root] \in Nat
      BY DEF HintTypeOK, ObserverState, ReadChanges
    <3>2. [observers[o] EXCEPT !.paging = FALSE, !.cursor = changes[observers[o].root]]
             \in ObserverState
      BY <3>1, ObserverFields DEF HintTypeOK
    <3> QED  BY <3>2 DEF HintTypeOK, ReadChanges
  <2>3. loop' \in LoopState
    BY SMT
    DEF HintTypeOK, LoopState, ObserverState, Snapshot, Scope, Kind, scheduleVars,
        databaseVars, ReadChanges, Observed, ObservedBy, ScopeBy
  <2>4. snapshots' \in [Root -> Snapshot \cup {NoSnapshot}]
    BY SMT
    DEF HintTypeOK, LoopState, ObserverState, Snapshot, Scope, Kind, scheduleVars,
        databaseVars, ReadChanges, Observed, ObservedBy, ScopeBy
  <2>5. wake' \in BOOLEAN
    BY Zenon DEF HintTypeOK, scheduleVars, databaseVars, ReadChanges
  <2> QED  BY <2>1, <2>2, <2>3, <2>4, <2>5 DEF HintTypeOK
<1>2. SnapshotsFollow'
  BY <1>1, SMTT(20)
  DEF HintTypeOK, LoopState, ObserverState, Snapshot, Scope, Kind, scheduleVars,
      databaseVars, ReadChanges, Phases, SnapshotsFollow, Uncovered, Outrun,
      Asked, AskedForNewest, QueryInv, Announced, Observed, ObservedBy, ScopeBy,
      FullBy
<1>3. NothingIsSleptOver'
  BY <1>1, SMTT(20)
  DEF HintTypeOK, LoopState, ObserverState, Snapshot, Scope, Kind, scheduleVars,
      databaseVars, ReadChanges, NothingIsSleptOver, Phases, Observed,
      ObservedBy, ScopeBy, FullBy
<1>4. WatchesKeepUp'
  BY <1>1, SMTT(20)
  DEF HintTypeOK, LoopState, ObserverState, Snapshot, Scope, Kind, scheduleVars,
      databaseVars, ReadChanges, WatchesKeepUp, SnapshotInv
<1>6. Phases'
  BY <1>1, SMTT(20)
  DEF HintTypeOK, LoopState, ObserverState, Snapshot, Scope, Kind, scheduleVars,
      databaseVars, ReadChanges, Phases, Observed, ObservedBy, ScopeBy, FullBy
<1>7. QueryInv'
  BY <1>1, SMTT(20)
  DEF HintTypeOK, LoopState, ObserverState, Snapshot, Scope, Kind, scheduleVars,
      databaseVars, ReadChanges, QueryInv, Announced, Observed, ObservedBy,
      ScopeBy, FullBy
<1>8. SnapshotInv'
  BY <1>1, SMTT(20)
  DEF HintTypeOK, LoopState, ObserverState, Snapshot, Scope, Kind, scheduleVars,
      databaseVars, ReadChanges, SnapshotInv, QueryInv
<1> QED  BY <1>1, <1>2, <1>3, <1>4, <1>6, <1>7, <1>8

\* An observer leaves.
LEMMA ForgetKeeps ==
    ASSUME IInv, NEW o \in Observer, observers[o].root # NoRoot, Forget(o),
           UNCHANGED <<service, interests, listener, databaseVars>>
    PROVE  IInv'
<1> USE HintsAssumption DEF IInv, NoHintIsLost
<1>1. HintTypeOK'
  BY ForgetRest
<1>2. SnapshotsFollow'
  BY ForgetRest
<1>3. NothingIsSleptOver'
  BY ForgetRest
<1>4. WatchesKeepUp'
  BY <1>1, SMTT(20)
  DEF HintTypeOK, LoopState, ObserverState, Snapshot, Scope, Kind, scheduleVars,
      databaseVars, Forget, Schedule, Outdated, NoObserver,
      WatchesKeepUp, SnapshotInv
<1>6. Phases'
  BY <1>1, SMTT(20)
  DEF HintTypeOK, LoopState, ObserverState, Snapshot, Scope, Kind, scheduleVars,
      databaseVars, Forget, Schedule, Outdated, NoObserver, Phases,
      Observed, ObservedBy, ScopeBy, FullBy
<1>7. QueryInv'
  BY ForgetRest
<1>8. SnapshotInv'
  BY <1>1, SMTT(20)
  DEF HintTypeOK, LoopState, ObserverState, Snapshot, Scope, Kind, scheduleVars,
      databaseVars, Forget, Schedule, Outdated, NoObserver, SnapshotInv,
      QueryInv
<1> QED  BY <1>1, <1>2, <1>3, <1>4, <1>6, <1>7, <1>8

\* New interests are scheduled.
LEMMA SetInterestsKeeps ==
    ASSUME IInv, NEW r \in Root, NEW s \in Scope, SetInterests(r, s)
    PROVE  IInv'
<1> USE HintsAssumption DEF IInv, NoHintIsLost
<1>1. HintTypeOK'
  <2>1. /\ service' \in {"new", "started", "closed"} /\ interests' \in [Root -> Scope]
        /\ dirty' \subseteq Root /\ delayed' \subseteq Root
        /\ listener' \in {"off", "down", "registered", "listening"}
        /\ channel' \subseteq [root : Root, kind : Kind] /\ changes' \in [Root -> Nat]
    BY SMT
    DEF HintTypeOK, LoopState, ObserverState, Snapshot, Scope, Kind, scheduleVars,
        databaseVars, SetInterests, Schedule, Outdated, Observed,
        ObservedBy, ScopeBy
  <2>2. observers' \in [Observer -> ObserverState]
    BY SMT DEF HintTypeOK, SetInterests, Schedule, Outdated
  <2>3. loop' \in LoopState
    BY SMT
    DEF HintTypeOK, LoopState, ObserverState, Snapshot, Scope, Kind, scheduleVars,
        databaseVars, SetInterests, Schedule, Outdated, Observed,
        ObservedBy, ScopeBy
  <2>4. snapshots' \in [Root -> Snapshot \cup {NoSnapshot}]
    BY SMT
    DEF HintTypeOK, LoopState, ObserverState, Snapshot, Scope, Kind, scheduleVars,
        databaseVars, SetInterests, Schedule, Outdated, Observed,
        ObservedBy, ScopeBy
  <2>5. wake' \in BOOLEAN
    BY Zenon
    DEF HintTypeOK, scheduleVars, databaseVars, SetInterests, Schedule,
        Outdated
  <2> QED  BY <2>1, <2>2, <2>3, <2>4, <2>5 DEF HintTypeOK
<1>2. SnapshotsFollow'
  BY <1>1, SMTT(20)
  DEF HintTypeOK, LoopState, ObserverState, Snapshot, Scope, Kind, scheduleVars,
      databaseVars, SetInterests, Schedule, Outdated, Phases,
      SnapshotsFollow, Uncovered, Outrun, Asked, AskedForNewest, QueryInv, Announced,
      Observed, ObservedBy, ScopeBy, FullBy
<1>3. NothingIsSleptOver'
  BY <1>1, SMTT(20)
  DEF HintTypeOK, LoopState, ObserverState, Snapshot, Scope, Kind, scheduleVars,
      databaseVars, SetInterests, Schedule, Outdated,
      NothingIsSleptOver, Phases, Observed, ObservedBy, ScopeBy, FullBy
<1>4. WatchesKeepUp'
  BY <1>1, SMTT(20)
  DEF HintTypeOK, LoopState, ObserverState, Snapshot, Scope, Kind, scheduleVars,
      databaseVars, SetInterests, Schedule, Outdated, WatchesKeepUp,
      SnapshotInv
<1>6. Phases'
  BY <1>1, SMTT(20)
  DEF HintTypeOK, LoopState, ObserverState, Snapshot, Scope, Kind, scheduleVars,
      databaseVars, SetInterests, Schedule, Outdated, Phases, Observed,
      ObservedBy, ScopeBy, FullBy
<1>7. QueryInv'
  BY <1>1, SMTT(20)
  DEF HintTypeOK, LoopState, ObserverState, Snapshot, Scope, Kind, scheduleVars,
      databaseVars, SetInterests, Schedule, Outdated, QueryInv,
      Announced, Observed, ObservedBy, ScopeBy, FullBy
<1>8. SnapshotInv'
  BY <1>1, SMTT(20)
  DEF HintTypeOK, LoopState, ObserverState, Snapshot, Scope, Kind, scheduleVars,
      databaseVars, SetInterests, Schedule, Outdated, SnapshotInv,
      QueryInv
<1> QED  BY <1>1, <1>2, <1>3, <1>4, <1>6, <1>7, <1>8

\* A transaction commits a change.
LEMMA PublishChangeKeeps ==
    ASSUME IInv, NEW r \in Root, NEW kind \in Kind, PublishChange(r, kind)
    PROVE  IInv'
<1> USE HintsAssumption DEF IInv, NoHintIsLost
<1>1. HintTypeOK'
  <2>1. /\ service' \in {"new", "started", "closed"} /\ interests' \in [Root -> Scope]
        /\ dirty' \subseteq Root /\ delayed' \subseteq Root
        /\ listener' \in {"off", "down", "registered", "listening"}
        /\ channel' \subseteq [root : Root, kind : Kind] /\ changes' \in [Root -> Nat]
    BY SMT
    DEF HintTypeOK, LoopState, ObserverState, Snapshot, Scope, Kind, scheduleVars,
        databaseVars, PublishChange, Observed, ObservedBy, ScopeBy
  <2>2. observers' \in [Observer -> ObserverState]
    BY SMT DEF HintTypeOK, PublishChange
  <2>3. loop' \in LoopState
    BY SMT
    DEF HintTypeOK, LoopState, ObserverState, Snapshot, Scope, Kind, scheduleVars,
        databaseVars, PublishChange, Observed, ObservedBy, ScopeBy
  <2>4. snapshots' \in [Root -> Snapshot \cup {NoSnapshot}]
    BY SMT
    DEF HintTypeOK, LoopState, ObserverState, Snapshot, Scope, Kind, scheduleVars,
        databaseVars, PublishChange, Observed, ObservedBy, ScopeBy
  <2>5. wake' \in BOOLEAN
    BY Zenon DEF HintTypeOK, scheduleVars, databaseVars, PublishChange
  <2> QED  BY <2>1, <2>2, <2>3, <2>4, <2>5 DEF HintTypeOK
<1>2. SnapshotsFollow'
  BY PublishRest
<1>3. NothingIsSleptOver'
  BY <1>1, SMTT(20)
  DEF HintTypeOK, LoopState, ObserverState, Snapshot, Scope, Kind, scheduleVars,
      databaseVars, PublishChange, NothingIsSleptOver, Phases, Observed,
      ObservedBy, ScopeBy, FullBy
<1>4. WatchesKeepUp'
  BY <1>1, SMTT(20)
  DEF HintTypeOK, LoopState, ObserverState, Snapshot, Scope, Kind, scheduleVars,
      databaseVars, PublishChange, WatchesKeepUp, SnapshotInv
<1>6. Phases'
  BY <1>1, SMTT(20)
  DEF HintTypeOK, LoopState, ObserverState, Snapshot, Scope, Kind, scheduleVars,
      databaseVars, PublishChange, Phases, Observed, ObservedBy,
      ScopeBy, FullBy
<1>7. QueryInv'
  BY PublishRest
<1>8. SnapshotInv'
  BY <1>1, SMTT(20)
  DEF HintTypeOK, LoopState, ObserverState, Snapshot, Scope, Kind, scheduleVars,
      databaseVars, PublishChange, SnapshotInv, QueryInv
<1> QED  BY <1>1, <1>2, <1>3, <1>4, <1>6, <1>7, <1>8

\* LISTEN takes effect.
LEMMA RegisterKeeps ==
    ASSUME IInv, Register
    PROVE  IInv'
<1> USE HintsAssumption DEF IInv, NoHintIsLost
<1>1. HintTypeOK'
  <2>1. /\ service' \in {"new", "started", "closed"} /\ interests' \in [Root -> Scope]
        /\ dirty' \subseteq Root /\ delayed' \subseteq Root
        /\ listener' \in {"off", "down", "registered", "listening"}
        /\ channel' \subseteq [root : Root, kind : Kind] /\ changes' \in [Root -> Nat]
    BY SMT
    DEF HintTypeOK, LoopState, ObserverState, Snapshot, Scope, Kind, scheduleVars,
        databaseVars, Register, Observed, ObservedBy, ScopeBy
  <2>2. observers' \in [Observer -> ObserverState]
    BY SMT DEF HintTypeOK, Register
  <2>3. loop' \in LoopState
    BY SMT
    DEF HintTypeOK, LoopState, ObserverState, Snapshot, Scope, Kind, scheduleVars,
        databaseVars, Register, Observed, ObservedBy, ScopeBy
  <2>4. snapshots' \in [Root -> Snapshot \cup {NoSnapshot}]
    BY SMT
    DEF HintTypeOK, LoopState, ObserverState, Snapshot, Scope, Kind, scheduleVars,
        databaseVars, Register, Observed, ObservedBy, ScopeBy
  <2>5. wake' \in BOOLEAN
    BY Zenon DEF HintTypeOK, scheduleVars, databaseVars, Register
  <2> QED  BY <2>1, <2>2, <2>3, <2>4, <2>5 DEF HintTypeOK
<1>2. SnapshotsFollow'
  BY <1>1, SMTT(20)
  DEF HintTypeOK, LoopState, ObserverState, Snapshot, Scope, Kind, scheduleVars,
      databaseVars, Register, Phases, SnapshotsFollow, Uncovered,
      Outrun, Asked, AskedForNewest, QueryInv, Announced, Observed, ObservedBy,
      ScopeBy, FullBy
<1>3. NothingIsSleptOver'
  BY <1>1, SMTT(20)
  DEF HintTypeOK, LoopState, ObserverState, Snapshot, Scope, Kind, scheduleVars,
      databaseVars, Register, NothingIsSleptOver, Phases, Observed,
      ObservedBy, ScopeBy, FullBy
<1>4. WatchesKeepUp'
  BY <1>1, SMTT(20)
  DEF HintTypeOK, LoopState, ObserverState, Snapshot, Scope, Kind, scheduleVars,
      databaseVars, Register, WatchesKeepUp, SnapshotInv
<1>6. Phases'
  BY <1>1, SMTT(20)
  DEF HintTypeOK, LoopState, ObserverState, Snapshot, Scope, Kind, scheduleVars,
      databaseVars, Register, Phases, Observed, ObservedBy, ScopeBy,
      FullBy
<1>7. QueryInv'
  BY <1>1, SMTT(20)
  DEF HintTypeOK, LoopState, ObserverState, Snapshot, Scope, Kind, scheduleVars,
      databaseVars, Register, QueryInv, Announced, Observed, ObservedBy,
      ScopeBy, FullBy
<1>8. SnapshotInv'
  BY <1>1, SMTT(20)
  DEF HintTypeOK, LoopState, ObserverState, Snapshot, Scope, Kind, scheduleVars,
      databaseVars, Register, SnapshotInv, QueryInv
<1> QED  BY <1>1, <1>2, <1>3, <1>4, <1>6, <1>7, <1>8

\* All that is observed is scheduled.
LEMMA ListeningKeeps ==
    ASSUME IInv, Listening
    PROVE  IInv'
<1> USE HintsAssumption DEF IInv, NoHintIsLost
<1>1. HintTypeOK'
  <2>1. /\ service' \in {"new", "started", "closed"} /\ interests' \in [Root -> Scope]
        /\ dirty' \subseteq Root /\ delayed' \subseteq Root
        /\ listener' \in {"off", "down", "registered", "listening"}
        /\ channel' \subseteq [root : Root, kind : Kind] /\ changes' \in [Root -> Nat]
    BY SMT
    DEF HintTypeOK, LoopState, ObserverState, Snapshot, Scope, Kind, scheduleVars,
        databaseVars, Listening, Schedule, Observed, ObservedBy, ScopeBy
  <2>2. observers' \in [Observer -> ObserverState]
    BY SMT DEF HintTypeOK, Listening, Schedule
  <2>3. loop' \in LoopState
    BY SMT
    DEF HintTypeOK, LoopState, ObserverState, Snapshot, Scope, Kind, scheduleVars,
        databaseVars, Listening, Schedule, Observed, ObservedBy, ScopeBy
  <2>4. snapshots' \in [Root -> Snapshot \cup {NoSnapshot}]
    BY SMT
    DEF HintTypeOK, LoopState, ObserverState, Snapshot, Scope, Kind, scheduleVars,
        databaseVars, Listening, Schedule, Observed, ObservedBy, ScopeBy
  <2>5. wake' \in BOOLEAN
    BY Zenon
    DEF HintTypeOK, scheduleVars, databaseVars, Listening, Schedule
  <2> QED  BY <2>1, <2>2, <2>3, <2>4, <2>5 DEF HintTypeOK
<1>2. SnapshotsFollow'
  BY <1>1, SMTT(20)
  DEF HintTypeOK, LoopState, ObserverState, Snapshot, Scope, Kind, scheduleVars,
      databaseVars, Listening, Schedule, Phases, SnapshotsFollow,
      Uncovered, Outrun, Asked, AskedForNewest, QueryInv, Announced, Observed,
      ObservedBy, ScopeBy, FullBy
<1>3. NothingIsSleptOver'
  BY <1>1, SMTT(20)
  DEF HintTypeOK, LoopState, ObserverState, Snapshot, Scope, Kind, scheduleVars,
      databaseVars, Listening, Schedule, NothingIsSleptOver, Phases,
      Observed, ObservedBy, ScopeBy, FullBy
<1>4. WatchesKeepUp'
  BY <1>1, SMTT(20)
  DEF HintTypeOK, LoopState, ObserverState, Snapshot, Scope, Kind, scheduleVars,
      databaseVars, Listening, Schedule, WatchesKeepUp, SnapshotInv
<1>6. Phases'
  BY <1>1, SMTT(20)
  DEF HintTypeOK, LoopState, ObserverState, Snapshot, Scope, Kind, scheduleVars,
      databaseVars, Listening, Schedule, Phases, Observed, ObservedBy,
      ScopeBy, FullBy
<1>7. QueryInv'
  BY <1>1, SMTT(20)
  DEF HintTypeOK, LoopState, ObserverState, Snapshot, Scope, Kind, scheduleVars,
      databaseVars, Listening, Schedule, QueryInv, Announced, Observed,
      ObservedBy, ScopeBy, FullBy
<1>8. SnapshotInv'
  BY <1>1, SMTT(20)
  DEF HintTypeOK, LoopState, ObserverState, Snapshot, Scope, Kind, scheduleVars,
      databaseVars, Listening, Schedule, SnapshotInv, QueryInv
<1> QED  BY <1>1, <1>2, <1>3, <1>4, <1>6, <1>7, <1>8

\* The connection is lost.
LEMMA DisconnectedKeeps ==
    ASSUME IInv, Disconnected
    PROVE  IInv'
<1> USE HintsAssumption DEF IInv, NoHintIsLost
<1>1. HintTypeOK'
  <2>1. /\ service' \in {"new", "started", "closed"} /\ interests' \in [Root -> Scope]
        /\ dirty' \subseteq Root /\ delayed' \subseteq Root
        /\ listener' \in {"off", "down", "registered", "listening"}
        /\ channel' \subseteq [root : Root, kind : Kind] /\ changes' \in [Root -> Nat]
    BY SMT
    DEF HintTypeOK, LoopState, ObserverState, Snapshot, Scope, Kind, scheduleVars,
        databaseVars, Disconnected, Observed, ObservedBy, ScopeBy
  <2>2. observers' \in [Observer -> ObserverState]
    BY SMT DEF HintTypeOK, Disconnected
  <2>3. loop' \in LoopState
    BY SMT
    DEF HintTypeOK, LoopState, ObserverState, Snapshot, Scope, Kind, scheduleVars,
        databaseVars, Disconnected, Observed, ObservedBy, ScopeBy
  <2>4. snapshots' \in [Root -> Snapshot \cup {NoSnapshot}]
    BY SMT
    DEF HintTypeOK, LoopState, ObserverState, Snapshot, Scope, Kind, scheduleVars,
        databaseVars, Disconnected, Observed, ObservedBy, ScopeBy
  <2>5. wake' \in BOOLEAN
    BY Zenon DEF HintTypeOK, scheduleVars, databaseVars, Disconnected
  <2> QED  BY <2>1, <2>2, <2>3, <2>4, <2>5 DEF HintTypeOK
<1>2. SnapshotsFollow'
  BY <1>1, SMTT(20)
  DEF HintTypeOK, LoopState, ObserverState, Snapshot, Scope, Kind, scheduleVars,
      databaseVars, Disconnected, Phases, SnapshotsFollow, Uncovered,
      Outrun, Asked, AskedForNewest, QueryInv, Announced, Observed, ObservedBy,
      ScopeBy, FullBy
<1>3. NothingIsSleptOver'
  BY <1>1, SMTT(20)
  DEF HintTypeOK, LoopState, ObserverState, Snapshot, Scope, Kind, scheduleVars,
      databaseVars, Disconnected, NothingIsSleptOver, Phases, Observed,
      ObservedBy, ScopeBy, FullBy
<1>4. WatchesKeepUp'
  BY <1>1, SMTT(20)
  DEF HintTypeOK, LoopState, ObserverState, Snapshot, Scope, Kind, scheduleVars,
      databaseVars, Disconnected, WatchesKeepUp, SnapshotInv
<1>6. Phases'
  BY <1>1, SMTT(20)
  DEF HintTypeOK, LoopState, ObserverState, Snapshot, Scope, Kind, scheduleVars,
      databaseVars, Disconnected, Phases, Observed, ObservedBy, ScopeBy,
      FullBy
<1>7. QueryInv'
  BY <1>1, SMTT(20)
  DEF HintTypeOK, LoopState, ObserverState, Snapshot, Scope, Kind, scheduleVars,
      databaseVars, Disconnected, QueryInv, Announced, Observed,
      ObservedBy, ScopeBy, FullBy
<1>8. SnapshotInv'
  BY <1>1, SMTT(20)
  DEF HintTypeOK, LoopState, ObserverState, Snapshot, Scope, Kind, scheduleVars,
      databaseVars, Disconnected, SnapshotInv, QueryInv
<1> QED  BY <1>1, <1>2, <1>3, <1>4, <1>6, <1>7, <1>8

\* A notice is read.
LEMMA NoticeKeeps ==
    ASSUME IInv, NEW n \in channel, Notice(n)
    PROVE  IInv'
<1> USE HintsAssumption DEF IInv, NoHintIsLost
<1>1. HintTypeOK'
  <2>1. /\ service' \in {"new", "started", "closed"} /\ interests' \in [Root -> Scope]
        /\ dirty' \subseteq Root /\ delayed' \subseteq Root
        /\ listener' \in {"off", "down", "registered", "listening"}
        /\ channel' \subseteq [root : Root, kind : Kind] /\ changes' \in [Root -> Nat]
    BY NoticeRest DEF HintTypeOK, Notice
  <2>2. observers' \in [Observer -> ObserverState]
    BY SMT DEF HintTypeOK, Notice, Schedule, Delay
  <2>3. loop' \in LoopState
    BY SMT
    DEF HintTypeOK, LoopState, ObserverState, Snapshot, Scope, Kind, scheduleVars,
        databaseVars, Notice, Schedule, Delay, Observed, ObservedBy,
        ScopeBy
  <2>4. snapshots' \in [Root -> Snapshot \cup {NoSnapshot}]
    BY SMT
    DEF HintTypeOK, LoopState, ObserverState, Snapshot, Scope, Kind, scheduleVars,
        databaseVars, Notice, Schedule, Delay, Observed, ObservedBy,
        ScopeBy
  <2>5. wake' \in BOOLEAN
    BY Zenon
    DEF HintTypeOK, scheduleVars, databaseVars, Notice, Schedule, Delay
  <2> QED  BY <2>1, <2>2, <2>3, <2>4, <2>5 DEF HintTypeOK
<1>2. SnapshotsFollow'
  BY NoticeRest
<1>3. NothingIsSleptOver'
  BY NoticeRest
<1>4. WatchesKeepUp'
  BY <1>1, SMTT(20)
  DEF HintTypeOK, LoopState, ObserverState, Snapshot, Scope, Kind, scheduleVars,
      databaseVars, Notice, Schedule, Delay, WatchesKeepUp, SnapshotInv
<1>6. Phases'
  BY <1>1, SMTT(20)
  DEF HintTypeOK, LoopState, ObserverState, Snapshot, Scope, Kind, scheduleVars,
      databaseVars, Notice, Schedule, Delay, Phases, Observed,
      ObservedBy, ScopeBy, FullBy
<1>7. QueryInv'
  BY NoticeRest
<1>8. SnapshotInv'
  BY <1>1, SMTT(20)
  DEF HintTypeOK, LoopState, ObserverState, Snapshot, Scope, Kind, scheduleVars,
      databaseVars, Notice, Schedule, Delay, SnapshotInv, QueryInv
<1> QED  BY <1>1, <1>2, <1>3, <1>4, <1>6, <1>7, <1>8

\* What is due is queried.
LEMMA WakeKeeps ==
    ASSUME IInv, NEW periodic \in BOOLEAN, NEW due \in SUBSET delayed, Wake(periodic, due)
    PROVE  IInv'
<1> USE HintsAssumption DEF IInv, NoHintIsLost
<1>1. HintTypeOK'
  <2>1. /\ service' \in {"new", "started", "closed"} /\ interests' \in [Root -> Scope]
        /\ dirty' \subseteq Root /\ delayed' \subseteq Root
        /\ listener' \in {"off", "down", "registered", "listening"}
        /\ channel' \subseteq [root : Root, kind : Kind] /\ changes' \in [Root -> Nat]
    BY SMT
    DEF HintTypeOK, LoopState, ObserverState, Snapshot, Scope, Kind, scheduleVars,
        databaseVars, Wake, Asleep, Observed, ObservedBy, ScopeBy
  <2>2. observers' \in [Observer -> ObserverState]
    BY SMT DEF HintTypeOK, Wake, Asleep
  <2>3. loop' \in LoopState
    BY SMT
    DEF HintTypeOK, LoopState, ObserverState, Snapshot, Scope, Kind, scheduleVars,
        databaseVars, Wake, Asleep, Observed, ObservedBy, ScopeBy
  <2>4. snapshots' \in [Root -> Snapshot \cup {NoSnapshot}]
    BY SMT
    DEF HintTypeOK, LoopState, ObserverState, Snapshot, Scope, Kind, scheduleVars,
        databaseVars, Wake, Asleep, Observed, ObservedBy, ScopeBy
  <2>5. wake' \in BOOLEAN
    BY Zenon DEF HintTypeOK, scheduleVars, databaseVars, Wake, Asleep
  <2> QED  BY <2>1, <2>2, <2>3, <2>4, <2>5 DEF HintTypeOK
<1>2. SnapshotsFollow'
  BY <1>1, SMTT(20)
  DEF HintTypeOK, LoopState, ObserverState, Snapshot, Scope, Kind, scheduleVars,
      databaseVars, Wake, Asleep, Phases, SnapshotsFollow, Uncovered,
      Outrun, Asked, AskedForNewest, QueryInv, Announced, Observed, ObservedBy,
      ScopeBy, FullBy
<1>3. NothingIsSleptOver'
  BY <1>1, SMTT(20)
  DEF HintTypeOK, LoopState, ObserverState, Snapshot, Scope, Kind, scheduleVars,
      databaseVars, Wake, Asleep, NothingIsSleptOver, Phases, Observed,
      ObservedBy, ScopeBy, FullBy
<1>4. WatchesKeepUp'
  BY <1>1, SMTT(20)
  DEF HintTypeOK, LoopState, ObserverState, Snapshot, Scope, Kind, scheduleVars,
      databaseVars, Wake, Asleep, WatchesKeepUp, SnapshotInv
<1>6. Phases'
  BY <1>1, SMTT(20)
  DEF HintTypeOK, LoopState, ObserverState, Snapshot, Scope, Kind, scheduleVars,
      databaseVars, Wake, Asleep, Phases, Observed, ObservedBy, ScopeBy,
      FullBy
<1>7. QueryInv'
  BY <1>1, SMTT(20)
  DEF HintTypeOK, LoopState, ObserverState, Snapshot, Scope, Kind, scheduleVars,
      databaseVars, Wake, Asleep, QueryInv, Announced, Observed,
      ObservedBy, ScopeBy, FullBy
<1>8. SnapshotInv'
  BY <1>1, SMTT(20)
  DEF HintTypeOK, LoopState, ObserverState, Snapshot, Scope, Kind, scheduleVars,
      databaseVars, Wake, Asleep, SnapshotInv, QueryInv
<1> QED  BY <1>1, <1>2, <1>3, <1>4, <1>6, <1>7, <1>8

\* The statement reads the database.
LEMMA QueryKeeps ==
    ASSUME IInv, Query
    PROVE  IInv'
<1> USE HintsAssumption DEF IInv, NoHintIsLost
<1>1. HintTypeOK'
  <2>1. /\ service' \in {"new", "started", "closed"} /\ interests' \in [Root -> Scope]
        /\ dirty' \subseteq Root /\ delayed' \subseteq Root
        /\ listener' \in {"off", "down", "registered", "listening"}
        /\ channel' \subseteq [root : Root, kind : Kind] /\ changes' \in [Root -> Nat]
    BY SMT
    DEF HintTypeOK, LoopState, ObserverState, Snapshot, Scope, Kind, scheduleVars,
        databaseVars, Query, Observed, ObservedBy, ScopeBy
  <2>2. observers' \in [Observer -> ObserverState]
    BY SMT DEF HintTypeOK, Query
  <2>3. loop' \in LoopState
    BY DEF HintTypeOK, Query, LoopState
  <2>4. snapshots' \in [Root -> Snapshot \cup {NoSnapshot}]
    BY SMT
    DEF HintTypeOK, LoopState, ObserverState, Snapshot, Scope, Kind, scheduleVars,
        databaseVars, Query, Observed, ObservedBy, ScopeBy
  <2>5. wake' \in BOOLEAN
    BY Zenon DEF HintTypeOK, scheduleVars, databaseVars, Query
  <2> QED  BY <2>1, <2>2, <2>3, <2>4, <2>5 DEF HintTypeOK
<1>2. SnapshotsFollow'
  BY <1>1, SMTT(20)
  DEF HintTypeOK, LoopState, ObserverState, Snapshot, Scope, Kind, scheduleVars,
      databaseVars, Query, Phases, SnapshotsFollow, Uncovered, Outrun,
      Asked, AskedForNewest, QueryInv, Announced, Observed, ObservedBy, ScopeBy,
      FullBy
<1>3. NothingIsSleptOver'
  BY <1>1, SMTT(20)
  DEF HintTypeOK, LoopState, ObserverState, Snapshot, Scope, Kind, scheduleVars,
      databaseVars, Query, NothingIsSleptOver, Phases, Observed,
      ObservedBy, ScopeBy, FullBy
<1>4. WatchesKeepUp'
  BY <1>1, SMTT(20)
  DEF HintTypeOK, LoopState, ObserverState, Snapshot, Scope, Kind, scheduleVars,
      databaseVars, Query, WatchesKeepUp, SnapshotInv
<1>6. Phases'
  BY <1>1, SMTT(20)
  DEF HintTypeOK, LoopState, ObserverState, Snapshot, Scope, Kind, scheduleVars,
      databaseVars, Query, Phases, Observed, ObservedBy, ScopeBy, FullBy
<1>7. QueryInv'
  BY <1>1, SMTT(20)
  DEF HintTypeOK, LoopState, ObserverState, Snapshot, Scope, Kind, scheduleVars,
      databaseVars, Query, QueryInv, Announced, Observed, ObservedBy,
      ScopeBy, FullBy
<1>8. SnapshotInv'
  BY <1>1, SMTT(20)
  DEF HintTypeOK, LoopState, ObserverState, Snapshot, Scope, Kind, scheduleVars,
      databaseVars, Query, SnapshotInv, QueryInv
<1> QED  BY <1>1, <1>2, <1>3, <1>4, <1>6, <1>7, <1>8

\* The query is answered.
LEMMA CatchUpKeeps ==
    ASSUME IInv, CatchUp
    PROVE  IInv'
<1> USE HintsAssumption DEF IInv, NoHintIsLost
<1>1. HintTypeOK'
  <2>1. /\ service' \in {"new", "started", "closed"} /\ interests' \in [Root -> Scope]
        /\ dirty' \subseteq Root /\ delayed' \subseteq Root
        /\ listener' \in {"off", "down", "registered", "listening"}
        /\ channel' \subseteq [root : Root, kind : Kind] /\ changes' \in [Root -> Nat]
    BY SMT
    DEF HintTypeOK, LoopState, ObserverState, Snapshot, Scope, Kind, scheduleVars,
        databaseVars, CatchUp, Answer, Found, Schedule, Asleep,
        Observed, ObservedBy, ScopeBy
  <2>2. observers' \in [Observer -> ObserverState]
    BY ObserverFields DEF HintTypeOK, CatchUp, Answer
  <2>3. loop' \in LoopState
    BY SMT
    DEF HintTypeOK, LoopState, ObserverState, Snapshot, Scope, Kind, scheduleVars,
        databaseVars, CatchUp, Answer, Found, Schedule, Asleep,
        Observed, ObservedBy, ScopeBy
  <2>4. snapshots' \in [Root -> Snapshot \cup {NoSnapshot}]
    BY SMT
    DEF HintTypeOK, LoopState, ObserverState, Snapshot, Scope, Kind, scheduleVars,
        databaseVars, CatchUp, Answer, Found, Schedule, Asleep,
        Observed, ObservedBy, ScopeBy
  <2>5. wake' \in BOOLEAN
    BY Zenon
    DEF HintTypeOK, scheduleVars, databaseVars, CatchUp, Answer, Found,
        Schedule, Asleep
  <2> QED  BY <2>1, <2>2, <2>3, <2>4, <2>5 DEF HintTypeOK
<1>2. SnapshotsFollow' /\ NothingIsSleptOver'
  <2>1. \A r \in Root : Found(r) \in Snapshot
    BY DEF HintTypeOK, LoopState, Found, Snapshot
  <2> DEFINE found == [r \in Root |-> Found(r)]
  <2>2. found \in [Root -> Snapshot] /\ \A r \in loop.current : found[r] = Found(r)
    BY <2>1 DEF HintTypeOK, LoopState
  <2>3. loop.at = "queried" /\ Answer(found)
    BY DEF CatchUp
  <2> HIDE DEF found
  <2> QED  BY <2>2, <2>3, AnswerRest
<1>4. WatchesKeepUp'
  BY <1>1, SMTT(20)
  DEF HintTypeOK, LoopState, ObserverState, Snapshot, Scope, Kind, scheduleVars,
      databaseVars, CatchUp, Answer, Found, Schedule, Asleep,
      WatchesKeepUp, SnapshotInv
<1>6. Phases'
  BY <1>1, SMTT(20)
  DEF HintTypeOK, LoopState, ObserverState, Snapshot, Scope, Kind, scheduleVars,
      databaseVars, CatchUp, Answer, Found, Schedule, Asleep, Phases,
      Observed, ObservedBy, ScopeBy, FullBy
<1>7. QueryInv'
  BY <1>1, SMTT(20)
  DEF HintTypeOK, LoopState, ObserverState, Snapshot, Scope, Kind, scheduleVars,
      databaseVars, CatchUp, Answer, Found, Schedule, Asleep, QueryInv,
      Announced, Observed, ObservedBy, ScopeBy, FullBy
<1>8. SnapshotInv'
  BY <1>1, SMTT(20)
  DEF HintTypeOK, LoopState, ObserverState, Snapshot, Scope, Kind, scheduleVars,
      databaseVars, CatchUp, Answer, Found, Schedule, Asleep,
      SnapshotInv, QueryInv
<1> QED  BY <1>1, <1>2, <1>4, <1>6, <1>7, <1>8

\* The query fails.
LEMMA CatchUpFailsKeeps ==
    ASSUME IInv, CatchUpFails
    PROVE  IInv'
<1> USE HintsAssumption DEF IInv, NoHintIsLost
<1>1. HintTypeOK'
  <2>1. /\ service' \in {"new", "started", "closed"} /\ interests' \in [Root -> Scope]
        /\ dirty' \subseteq Root /\ delayed' \subseteq Root
        /\ listener' \in {"off", "down", "registered", "listening"}
        /\ channel' \subseteq [root : Root, kind : Kind] /\ changes' \in [Root -> Nat]
    BY SMT
    DEF HintTypeOK, LoopState, ObserverState, Snapshot, Scope, Kind, scheduleVars,
        databaseVars, CatchUpFails, Answer, Unknown, Schedule, Asleep,
        Observed, ObservedBy, ScopeBy
  <2>2. observers' \in [Observer -> ObserverState]
    BY ObserverFields DEF HintTypeOK, CatchUpFails, Answer
  <2>3. loop' \in LoopState
    BY SMT
    DEF HintTypeOK, LoopState, ObserverState, Snapshot, Scope, Kind, scheduleVars,
        databaseVars, CatchUpFails, Answer, Unknown, Schedule, Asleep,
        Observed, ObservedBy, ScopeBy
  <2>4. snapshots' \in [Root -> Snapshot \cup {NoSnapshot}]
    BY UnknownType DEF HintTypeOK, CatchUpFails, Answer
  <2>5. wake' \in BOOLEAN
    BY Zenon
    DEF HintTypeOK, scheduleVars, databaseVars, CatchUpFails, Answer,
        Unknown, Schedule, Asleep
  <2> QED  BY <2>1, <2>2, <2>3, <2>4, <2>5 DEF HintTypeOK
<1>2. SnapshotsFollow' /\ NothingIsSleptOver'
  <2>1. \A r \in Root : Unknown(r).error
    <3> TAKE r \in Root
    <3>1. CASE snapshots[r] = NoSnapshot
      BY <3>1 DEF Unknown
    <3>2. CASE snapshots[r] # NoSnapshot
      <4>1. snapshots[r] \in Snapshot
        BY <3>2 DEF HintTypeOK
      <4> QED  BY <3>2, <4>1 DEF Unknown, Snapshot
    <3> QED  BY <3>1, <3>2
  <2> DEFINE found == [r \in Root |-> Unknown(r)]
  <2>2. found \in [Root -> Snapshot] /\ \A r \in loop.current : found[r].error
    BY <2>1, UnknownType DEF HintTypeOK, LoopState
  <2>3. Answer(found)
    BY DEF CatchUpFails
  <2> HIDE DEF found
  <2> QED  BY <2>2, <2>3, AnswerRest
<1>4. WatchesKeepUp'
  BY <1>1, SMTT(20)
  DEF HintTypeOK, LoopState, ObserverState, Snapshot, Scope, Kind, scheduleVars,
      databaseVars, CatchUpFails, Answer, Unknown, Schedule, Asleep,
      WatchesKeepUp, SnapshotInv
<1>6. Phases'
  BY <1>1, SMTT(20)
  DEF HintTypeOK, LoopState, ObserverState, Snapshot, Scope, Kind, scheduleVars,
      databaseVars, CatchUpFails, Answer, Unknown, Schedule, Asleep,
      Phases, Observed, ObservedBy, ScopeBy, FullBy
<1>7. QueryInv'
  BY <1>1, SMTT(20)
  DEF HintTypeOK, LoopState, ObserverState, Snapshot, Scope, Kind, scheduleVars,
      databaseVars, CatchUpFails, Answer, Unknown, Schedule, Asleep,
      QueryInv, Announced, Observed, ObservedBy, ScopeBy, FullBy
<1>8. SnapshotInv'
  BY <1>1, SMTT(20)
  DEF HintTypeOK, LoopState, ObserverState, Snapshot, Scope, Kind, scheduleVars,
      databaseVars, CatchUpFails, Answer, Unknown, Schedule, Asleep,
      SnapshotInv, QueryInv
<1> QED  BY <1>1, <1>2, <1>4, <1>6, <1>7, <1>8

----------------------------------------------------------------------------
(* The theorem *)

\* Nothing is scheduled and nobody observes in an initial state.
LEMMA HintInitInv == HintInit => IInv
<1> SUFFICES ASSUME HintInit PROVE IInv
  OBVIOUS
<1> USE HintsAssumption DEF HintInit
<1>1. HintTypeOK
  <2>1. observers \in [Observer -> ObserverState]
    BY NoObserverType
  <2>2. loop \in LoopState
    BY DEF Off, Asleep, LoopState, Scope
  <2> QED  BY <2>1, <2>2 DEF HintTypeOK, Scope
<1>2. Observed = {}
  BY DEF Observed, ObservedBy, NoObserver
<1>3. SnapshotsFollow
  BY DEF SnapshotsFollow
<1>4. NothingIsSleptOver
  BY DEF NothingIsSleptOver
<1>5. WatchesKeepUp
  BY DEF WatchesKeepUp, NoObserver
<1>6. Phases /\ QueryInv
  BY <1>2 DEF Phases, QueryInv, Off, Asleep
<1>7. SnapshotInv
  BY DEF SnapshotInv
<1> QED  BY <1>1, <1>3, <1>4, <1>5, <1>6, <1>7 DEF IInv, NoHintIsLost

\* Every step of the coordinator, its observers and the database keeps it.
LEMMA HintNextInv == IInv /\ [HintNext]_hintVars => IInv'
<1> SUFFICES ASSUME IInv, [HintNext]_hintVars PROVE IInv'
  OBVIOUS
<1>1. CASE Start
  BY <1>1, StartKeeps
<1>2. CASE CloseHints
  BY <1>2, CloseHintsKeeps
<1>3. ASSUME NEW o \in Observer, NEW r \in Root, NEW full \in BOOLEAN,
             NEW after \in 0..changes[r], Observe(o, r, full, after)
      PROVE  IInv'
  <2>1. after \in Nat
    BY DEF IInv, NoHintIsLost, HintTypeOK
  <2> QED  BY <1>3, <2>1, ObserveKeeps
<1>4. ASSUME NEW o \in Observer, Leave(o)
      PROVE  IInv'
  BY <1>4, ForgetKeeps DEF Leave
<1>5. ASSUME NEW o \in Observer, Look(o)
      PROVE  IInv'
  BY <1>5, LookKeeps
<1>6. ASSUME NEW o \in Observer, LookFails(o)
      PROVE  IInv'
  BY <1>6, ForgetKeeps DEF LookFails
<1>7. ASSUME NEW o \in Observer, ReadChanges(o)
      PROVE  IInv'
  BY <1>7, ReadChangesKeeps
<1>8. ASSUME NEW r \in Root, NEW s \in Scope, SetInterests(r, s)
      PROVE  IInv'
  BY <1>8, SetInterestsKeeps
<1>9. ASSUME NEW r \in Root, NEW kind \in Kind, PublishChange(r, kind)
      PROVE  IInv'
  BY <1>9, PublishChangeKeeps
<1>10. CASE Register
  BY <1>10, RegisterKeeps
<1>11. CASE Listening
  BY <1>11, ListeningKeeps
<1>12. CASE Disconnected
  BY <1>12, DisconnectedKeeps
<1>13. ASSUME NEW n \in channel, Notice(n)
       PROVE  IInv'
  BY <1>13, NoticeKeeps
<1>14. ASSUME NEW periodic \in BOOLEAN, NEW due \in SUBSET delayed, Wake(periodic, due)
       PROVE  IInv'
  BY <1>14, WakeKeeps
<1>15. CASE Query
  BY <1>15, QueryKeeps
<1>16. CASE CatchUp
  BY <1>16, CatchUpKeeps
<1>17. CASE CatchUpFails
  BY <1>17, CatchUpFailsKeeps
<1>18. CASE UNCHANGED hintVars
  BY <1>18
  DEF hintVars, IInv, NoHintIsLost, HintTypeOK, SnapshotsFollow, NothingIsSleptOver,
      WatchesKeepUp, Phases, QueryInv, SnapshotInv, Announced,
      Uncovered, Outrun, Asked, AskedForNewest, Observed
<1> QED
  BY <1>1, <1>2, <1>3, <1>4, <1>5, <1>6, <1>7, <1>8, <1>9, <1>10, <1>11, <1>12, <1>13,
     <1>14, <1>15, <1>16, <1>17, <1>18 DEF HintNext

\* No hint is lost between a commit and the watch that hands it out, whatever
\* connections are lost, queries fail and interests move on the way.
THEOREM HintsAreKept == HintSpec => []NoHintIsLost
<1>1. IInv => NoHintIsLost
  BY DEF IInv
<1> QED  BY HintInitInv, HintNextInv, <1>1, PTL DEF HintSpec

----------------------------------------------------------------------------
(* The dispatcher *)

\* The set of busy roots is finite, and one task more is one more.
LEMMA BusyRoots ==
    ASSUME DispatchTypeOK
    PROVE  /\ Cardinality(dispatchers) \in Nat
           /\ \A t \in Tree : /\ Cardinality(dispatchers \cup {t}) <= Cardinality(dispatchers) + 1
                             /\ Cardinality(dispatchers \ {t}) <= Cardinality(dispatchers)
                             /\ Cardinality(dispatchers \cup {t}) \in Nat
                             /\ Cardinality(dispatchers \ {t}) \in Nat
<1>1. IsFiniteSet(dispatchers)
  BY FS_Subset, DispatchAssumption DEF DispatchTypeOK
<1>2. Cardinality(dispatchers) \in Nat
  BY <1>1, FS_CardinalityType
<1>3. ASSUME NEW t \in Tree
      PROVE  /\ Cardinality(dispatchers \cup {t}) <= Cardinality(dispatchers) + 1
             /\ Cardinality(dispatchers \ {t}) <= Cardinality(dispatchers)
             /\ Cardinality(dispatchers \cup {t}) \in Nat
             /\ Cardinality(dispatchers \ {t}) \in Nat
  <2>1. Cardinality(dispatchers \cup {t}) <= Cardinality(dispatchers) + 1
    <3>1. Cardinality(dispatchers \cup {t}) \in
             {Cardinality(dispatchers), Cardinality(dispatchers) + 1}
      BY <1>1, FS_AddElement
    <3> QED  BY <1>2, <3>1
  <2>2. Cardinality(dispatchers \ {t}) <= Cardinality(dispatchers)
    BY <1>1, <1>2, FS_RemoveElement
  <2>3. IsFiniteSet(dispatchers \cup {t}) /\ IsFiniteSet(dispatchers \ {t})
    BY <1>1, FS_AddElement, FS_RemoveElement
  <2>4. Cardinality(dispatchers \cup {t}) \in Nat
    BY <2>3, FS_CardinalityType
  <2>5. Cardinality(dispatchers \ {t}) \in Nat
    BY <2>3, FS_CardinalityType
  <2> QED  BY <2>1, <2>2, <2>4, <2>5
<1> QED  BY <1>2, <1>3

\* Where the loop goes on is one of its states.
LEMMA OnwardType ==
    ASSUME NEW busy \in SUBSET Tree
    PROVE  Onward(busy) \in SearchState /\ Onward(busy).found = NoTree
BY DEF Onward, Waiting, SearchState

\* Nothing is stored, and nobody looks yet.
LEMMA DispatchInitInv == DispatchInit => DispatchKeepsUp
<1> SUFFICES ASSUME DispatchInit PROVE DispatchKeepsUp
  OBVIOUS
<1> USE DispatchAssumption DEF DispatchInit
<1>1. DispatchTypeOK
  BY DEF DispatchTypeOK, SearchState, Waiting
<1>2. RequestsAreNoticed
  BY DEF RequestsAreNoticed, Servable
<1>3. DispatchersAreApart
  BY FS_EmptySet DEF DispatchersAreApart, Waiting
<1> QED  BY <1>1, <1>2, <1>3 DEF DispatchKeepsUp

\* The steps of the database and of the listener: they leave the slots and the
\* search alone, and take a notice only for the event.
LEMMA HeardKeeps ==
    ASSUME DispatchKeepsUp, UNCHANGED <<dispatchers, search, missed>>, DispatchTypeOK',
           \A t \in Tree :
              \/ requests'[t] > 0 => requests[t] > 0
              \/ t \in notices' \/ ears' # "listening",
           \/ event'
           \/ ears' # "listening"
           \/ event' = event /\ ears' = ears /\ notices \subseteq notices'
    PROVE  DispatchKeepsUp'
BY DEF DispatchKeepsUp, DispatchersAreApart, RequestsAreNoticed, Servable, LookedFor

\* Every step keeps the promise.
LEMMA DispatchNextInv == DispatchKeepsUp /\ [DispatchNext]_dispatchVars => DispatchKeepsUp'
<1> SUFFICES ASSUME DispatchKeepsUp, [DispatchNext]_dispatchVars PROVE DispatchKeepsUp'
  OBVIOUS
<1> USE DispatchAssumption
<1>0. DispatchTypeOK /\ requests \in [Tree -> Nat]
  BY DEF DispatchKeepsUp, DispatchTypeOK
<1>1. ASSUME NEW t \in Tree, Store(t) PROVE DispatchKeepsUp'
  <2>1. DispatchTypeOK'
    BY <1>0, <1>1 DEF Store, Heard, DispatchTypeOK
  <2>2. t \in notices' \/ ears' # "listening"
    BY <1>1 DEF Store, Heard
  <2>3. \A u \in Tree : u # t => requests'[u] = requests[u]
    BY <1>0, <1>1 DEF Store
  <2>4. notices \subseteq notices'
    BY <1>1 DEF Store, Heard
  <2> QED  BY <1>1, <2>1, <2>2, <2>3, <2>4, HeardKeeps DEF Store
<1>2. ASSUME NEW t \in Tree, Announce(t) PROVE DispatchKeepsUp'
  BY <1>0, <1>2, HeardKeeps DEF Announce, Heard, DispatchTypeOK
<1>3. ASSUME NEW t \in Tree, Settle(t) PROVE DispatchKeepsUp'
  <2>1. \A u \in Tree : requests'[u] > 0 => requests[u] > 0
    BY <1>0, <1>3 DEF Settle
  <2>2. DispatchTypeOK'
    BY <1>0, <1>3 DEF Settle, DispatchTypeOK
  <2> QED  BY <1>3, <2>1, <2>2, HeardKeeps DEF Settle
<1>4. ASSUME NEW t \in Tree, Hear(t) PROVE DispatchKeepsUp'
  BY <1>0, <1>4, HeardKeeps DEF Hear, DispatchTypeOK
<1>5. ASSUME NEW t \in Tree, EndDispatch(t) PROVE DispatchKeepsUp'
  <2>1. DispatchTypeOK'
    BY <1>0, <1>5 DEF EndDispatch, DispatchTypeOK
  <2>2. RequestsAreNoticed'
    BY <1>5 DEF EndDispatch, RequestsAreNoticed
  <2>3. DispatchersAreApart'
    BY <1>0, <1>5, BusyRoots DEF EndDispatch, DispatchersAreApart, DispatchKeepsUp
  <2> QED  BY <2>1, <2>2, <2>3 DEF DispatchKeepsUp
<1>6. CASE Subscribe
  BY <1>0, <1>6, HeardKeeps DEF Subscribe, DispatchTypeOK
<1>7. CASE Subscribed
  BY <1>0, <1>7, HeardKeeps DEF Subscribed, DispatchTypeOK
<1>8. CASE Deaf
  BY <1>0, <1>8, HeardKeeps DEF Deaf, DispatchTypeOK
<1>9. CASE WakeDispatch
  <2> USE <1>9 DEF WakeDispatch
  <2>1. DispatchTypeOK'
    BY <1>0, OnwardType DEF DispatchTypeOK
  <2>2. RequestsAreNoticed'
    BY DEF RequestsAreNoticed, Servable, LookedFor, Onward
  <2>3. DispatchersAreApart'
    BY <1>0, BusyRoots DEF DispatchersAreApart, DispatchKeepsUp, Onward, Waiting
  <2> QED  BY <2>1, <2>2, <2>3 DEF DispatchKeepsUp
<1>10. CASE SelectRequest
  <2> USE <1>10 DEF SelectRequest
  <2>1. DispatchTypeOK'
    <3>1. search' \in SearchState /\ search'.at = "answered"
      <4>1. ASSUME NEW u \in Tree \cup {NoTree},
                   search' = [search EXCEPT !.at = "answered", !.found = u]
            PROVE  search' \in SearchState /\ search'.at = "answered"
        BY <1>0, <4>1 DEF DispatchTypeOK, SearchState
      <4>2. ASSUME search' = [search EXCEPT !.at = "answered"]
            PROVE  search' \in SearchState /\ search'.at = "answered"
        BY <1>0, <4>2 DEF DispatchTypeOK, SearchState
      <4> QED  BY <4>1, <4>2 DEF Candidates
    <3> QED  BY <1>0, <3>1 DEF DispatchTypeOK
  <2>2. /\ search'.at = "answered" /\ search'.excluded = search.excluded
        /\ search'.found # NoTree => search'.found \in Candidates
    <3>1. search.found = NoTree
      BY <1>0 DEF DispatchTypeOK
    <3>2. ASSUME NEW u \in Candidates,
                 search' = [search EXCEPT !.at = "answered", !.found = u]
          PROVE  /\ search'.at = "answered" /\ search'.excluded = search.excluded
                 /\ search'.found = u
      BY <1>0, <3>2 DEF DispatchTypeOK, SearchState
    <3>3. ASSUME search' = [search EXCEPT !.at = "answered"]
          PROVE  /\ search'.at = "answered" /\ search'.excluded = search.excluded
                 /\ search'.found = NoTree
      BY <1>0, <3>1, <3>3 DEF DispatchTypeOK, SearchState
    <3> QED  BY <3>2, <3>3
  <2>3. ASSUME NEW t \in Tree, requests[t] > 0, t \notin search.excluded
        PROVE  search'.found # NoTree
    <3>1. t \in Candidates
      BY <2>3 DEF Candidates
    <3>2. PICK u \in Candidates : search' = [search EXCEPT !.at = "answered", !.found = u]
      BY <3>1
    <3> QED  BY <1>0, <3>2 DEF Candidates, DispatchTypeOK, SearchState
  <2>4. RequestsAreNoticed'
    BY <2>2, <2>3 DEF RequestsAreNoticed, DispatchKeepsUp, Servable, LookedFor
  <2>5. DispatchersAreApart'
    BY <2>2 DEF DispatchersAreApart, DispatchKeepsUp, Candidates
  <2> QED  BY <2>1, <2>4, <2>5 DEF DispatchKeepsUp
<1>11. CASE SelectFails
  <2> USE <1>11 DEF SelectFails
  <2>1. DispatchTypeOK'
    BY <1>0 DEF DispatchTypeOK, SearchState, Waiting
  <2>2. RequestsAreNoticed'
    BY DEF RequestsAreNoticed
  <2>3. DispatchersAreApart'
    BY DEF DispatchersAreApart, DispatchKeepsUp, Waiting
  <2> QED  BY <2>1, <2>2, <2>3 DEF DispatchKeepsUp
<1>12. CASE TakeRequest
  <2> USE <1>12 DEF TakeRequest
  <2>1. search.found \in Tree
    BY <1>0 DEF DispatchTypeOK, SearchState
  <2>2. DispatchTypeOK'
    <3>1. dispatchers' \in SUBSET Tree
      BY <1>0, <2>1 DEF DispatchTypeOK
    <3> QED  BY <1>0, <3>1, OnwardType DEF DispatchTypeOK
  <2>3. RequestsAreNoticed'
    BY DEF RequestsAreNoticed, Servable, LookedFor, Onward
  <2>4. Cardinality(dispatchers') <= Slots
    BY <1>0, <2>1, BusyRoots DEF DispatchersAreApart, DispatchKeepsUp
  <2>5. DispatchersAreApart'
    BY <2>4 DEF DispatchersAreApart, Onward, Waiting
  <2> QED  BY <2>2, <2>3, <2>5 DEF DispatchKeepsUp
<1>13. CASE NothingFound
  <2> USE <1>13 DEF NothingFound
  <2>1. DispatchTypeOK'
    BY <1>0 DEF DispatchTypeOK, SearchState, Waiting
  <2>2. RequestsAreNoticed'
    BY DEF RequestsAreNoticed, DispatchKeepsUp, Servable, LookedFor
  <2>3. DispatchersAreApart'
    BY DEF DispatchersAreApart, DispatchKeepsUp, Waiting
  <2> QED  BY <2>1, <2>2, <2>3 DEF DispatchKeepsUp
<1>14. CASE UNCHANGED dispatchVars
  BY <1>14
  DEF dispatchVars, DispatchKeepsUp, DispatchTypeOK, RequestsAreNoticed, Servable,
      LookedFor, DispatchersAreApart
<1> QED
  BY <1>1, <1>2, <1>3, <1>4, <1>5, <1>6, <1>7, <1>8, <1>9, <1>10, <1>11, <1>12, <1>13,
     <1>14 DEF DispatchNext

\* A request that could be taken up is announced, looked for or the event is set,
\* except after a failed query and while nobody listens, and no task of a root is
\* replaced by another, for any number of roots and slots.
THEOREM RequestsAreKept == DispatchSpec => []DispatchKeepsUp
BY DispatchInitInv, DispatchNextInv, PTL DEF DispatchSpec
=============================================================================
