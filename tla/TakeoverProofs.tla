--------------------------- MODULE TakeoverProofs ----------------------------
(***************************************************************************)
(* Takeover, for any set of runtimes and any number of takeovers, crashes, *)
(* failures, cancellations and inputs: every turn ends once, whoever ends  *)
(* it, and takeovers are clean.  LateFaults = FALSE: recovery does not     *)
(* fail while the lease stands and this runtime has tasks left.            *)
(***************************************************************************)
EXTENDS Takeover, SequenceTheorems, TLAPS

----------------------------------------------------------------------------
(* The inductive invariant *)

Working == {"begin", "reconcile", "next", "run", "deliver"}

Drain ==
    [actor : Actor, at : Working \cup {"unwind", "finally"}, turn : Int,
     live : BOOLEAN, again : BOOLEAN, failed : BOOLEAN]

Recovering == {"recover", "deliver", "activate"}

Locks ==
    [at : Recovering \cup {"free", "apply", "release", "released"},
     todo : SUBSET Actor, request : Actor \cup {"none"}]

End == [turn : Int, how : {"interrupted", "completed", "cancelled", "cancelled_by_parent"}]

Renewal == [generation : Nat, failed : BOOLEAN]

Leases == [owner : Runtime \cup {NoOne}, generation : Nat, valid : BOOLEAN]

Types ==
    /\ lease \in Leases
    /\ queue \in [Actor -> Seq(Int)]
    /\ open \in [Actor -> Int]
    /\ opener \in [Actor -> Nat]
    /\ ended \in [Actor -> Seq(End)]
    /\ accepted \in [Actor -> SUBSET Int]
    /\ sent \in Nat
    /\ own \in [Runtime -> Nat]
    /\ renewals \in [Runtime -> SUBSET Renewal]
    /\ lock \in [Runtime -> Locks]
    /\ drains \in [Runtime -> SUBSET Drain]
    /\ delivered \in [Runtime -> Int]

\* The turns with a terminal event.
Turns(ends) == {ends[i].turn : i \in DOMAIN ends}

\* An actor's journal with the pending inputs q, the open turn o, the ends e
\* and the accepted commands acc, when n commands were sent: an accepted
\* command waits, is open or is over, and it is over once.
JournalOK(a, q, o, e, acc, n) ==
    /\ \A c \in acc : c # 0 /\ c <= n /\ (a = "child" => c > 0)
    /\ Range(q) \subseteq acc
    /\ Turns(e) \subseteq acc
    /\ o \in acc \cup {0}
    /\ \A c \in Range(q) : c \notin Turns(e)
    /\ o \notin Range(q) /\ o \notin Turns(e)
    /\ \A i, j \in DOMAIN q : q[i] = q[j] => i = j
    /\ \A i, j \in DOMAIN e : e[i].turn = e[j].turn => i = j

\* A runtime has at most one task per actor that may start or run a turn, and no
\* other task has the turn of one that runs.
Shape(S) ==
    \A d \in S :
        /\ d.at \in Working => d.live
        /\ d.at = "run" => d.turn # 0
        /\ \A e \in S :
              d.actor = e.actor =>
                 /\ d.live /\ e.live => d = e
                 /\ d.at = "run" /\ d.turn = e.turn => d = e

\* The turn of a task was taken from the queue.
TakenOK(r) ==
    \A d \in drains[r] :
        d.turn # 0 => d.turn \in accepted[d.actor] /\ d.turn \notin Range(queue[d.actor])

\* The row names this runtime with the generation it believes it has.
Mine(r) == lease.owner = r /\ own[r] = lease.generation

Runs(r) == {d \in drains[r] : d.at = "run"}

\* While the runtime has the lease, the turn it runs is the one that is open.
EngineOK(r) == Mine(r) => \A d \in Runs(r) : open[d.actor] = d.turn

\* No turn runs without an ownership nor before the root is recovered, and an
\* owner that has not recovered has no task that could start one.
OwnerOK(r) ==
    /\ own[r] = 0 => Runs(r) = {}
    /\ lock[r].at = "released" => LiveDrains(r) = {}
    /\ lock[r].at \in Recovering => r \in unrecovered
    /\ lock[r].at = "apply" => r \notin unrecovered /\ lock[r].request # "none"
    /\ r \in unrecovered /\ Mine(r) => Runs(r) = {}
    /\ r \in unrecovered /\ Fenced(r) /\ lock[r].at \notin Recovering => drains[r] = {}
    /\ lock[r].at \in {"deliver", "activate"} /\ Mine(r) => \A a \in Actor : open[a] = 0
    /\ r \notin unrecovered /\ Mine(r) =>
          \A a \in Actor : open[a] # 0 => opener[a] = own[r]

\* A runtime renews the ownership it has.
RenewalOK(r) ==
    /\ \A t \in renewals[r] : t.generation = own[r] /\ own[r] # 0
    /\ \A t, u \in renewals[r] : t = u

\* With the messages acc in the parent's journal: the last of the child's ends
\* is reported, or a cancellation, ...
Settled(e, acc) ==
    e # <<>> => ByCancellation(e[Len(e)]) \/ Message(e[Len(e)].turn) \in acc

\* ... and so was every earlier one before the next.
Reports(e, acc) ==
    \A i \in 1 .. (Len(e) - 1) :
        ByCancellation(e[i]) \/ ByCancellation(e[i + 1]) \/ Message(e[i].turn) \in acc

\* A runtime remembers messages it has enqueued, and the child's task looks at
\* the queue only once the last end is settled.
ReportOK(r) ==
    /\ delivered[r] # 0 => delivered[r] \in accepted["parent"]
    /\ Fenced(r) /\ lock[r].at \notin {"recover", "deliver"} =>
          \A d \in drains[r] :
              d.actor = "child" /\ d.at = "next" => Settled(ended["child"], accepted["parent"])

RuntimeOK(r) ==
    Shape(drains[r]) /\ TakenOK(r) /\ EngineOK(r) /\ OwnerOK(r) /\ RenewalOK(r) /\ ReportOK(r)

JournalsOK ==
    /\ \A a \in Actor : JournalOK(a, queue[a], open[a], ended[a], accepted[a], sent)
    /\ Reports(ended["child"], accepted["parent"])
    /\ open["child"] # 0 => Settled(ended["child"], accepted["parent"])

IInv ==
    /\ Types
    /\ lease.owner # NoOne => lease.generation > 0
    /\ JournalsOK
    /\ \A r \in Runtime : RuntimeOK(r)

----------------------------------------------------------------------------
(* Facts about journals *)

\* What the definitions say of sequences.
LEMMA TurnsAre ==
    ASSUME NEW e \in Seq(End)
    PROVE  /\ \A i \in DOMAIN e : e[i].turn \in Turns(e)
           /\ \A c \in Turns(e) : \E i \in DOMAIN e : e[i].turn = c
  BY DEF Turns

LEMMA RangeIs ==
    ASSUME NEW q \in Seq(Int)
    PROVE  /\ \A i \in 1 .. Len(q) : q[i] \in Range(q)
           /\ \A c \in Range(q) : \E i \in 1 .. Len(q) : q[i] = c
  BY DEF Range

\* More commands may have been sent than the journal knows of.
LEMMA JournalLater ==
    ASSUME NEW a \in Actor, NEW q \in Seq(Int), NEW o \in Int, NEW e \in Seq(End),
           NEW acc \in SUBSET Int, NEW n \in Int, NEW m \in Int, n <= m,
           JournalOK(a, q, o, e, acc, n)
    PROVE  JournalOK(a, q, o, e, acc, m)
  BY DEF JournalOK

\* A new command is queued.
LEMMA JournalEnqueue ==
    ASSUME NEW a \in Actor, NEW q \in Seq(Int), NEW o \in Int, NEW e \in Seq(End),
           NEW acc \in SUBSET Int, NEW n \in Int, NEW m \in Int, n <= m,
           JournalOK(a, q, o, e, acc, n),
           NEW c \in Int, c \notin acc, c # 0, c <= m, a = "child" => c > 0
    PROVE  /\ JournalOK(a, Append(q, c), o, e, acc \cup {c}, m)
           /\ Append(q, c) \in Seq(Int)
           /\ \A x \in acc : x \in Range(Append(q, c)) => x \in Range(q)
<1> DEFINE s == Append(q, c)
<1>1. /\ s \in Seq(Int) /\ Len(s) = Len(q) + 1 /\ Len(q) \in Nat
      /\ \A i \in 1 .. Len(q) : s[i] = q[i]
      /\ s[Len(q) + 1] = c
      /\ DOMAIN s = 1 .. Len(s) /\ DOMAIN q = 1 .. Len(q)
  OBVIOUS
<1>2. Append(q, c) = s
  OBVIOUS
<1> HIDE DEF s
<1>3. \A x \in Range(s) : x = c \/ x \in Range(q)
  <2> TAKE x \in Range(s)
  <2>1. PICK i \in 1 .. Len(s) : s[i] = x
    BY <1>1, RangeIs
  <2>2. i \in 1 .. Len(q) \/ i = Len(q) + 1
    BY <1>1
  <2> QED  BY <1>1, <2>1, <2>2, RangeIs
<1>4. Range(q) \subseteq acc
  BY DEF JournalOK
<1>5. \A i, j \in DOMAIN s : s[i] = s[j] => i = j
  <2> SUFFICES ASSUME NEW i \in DOMAIN s, NEW j \in DOMAIN s, s[i] = s[j] PROVE i = j
    OBVIOUS
  <2>1. \A k \in 1 .. Len(q) : s[k] # c
    BY <1>1, <1>4, RangeIs
  <2>2. \A k, l \in DOMAIN q : q[k] = q[l] => k = l
    BY DEF JournalOK
  <2>3. i \in 1 .. Len(q) \/ i = Len(q) + 1
    BY <1>1
  <2>4. j \in 1 .. Len(q) \/ j = Len(q) + 1
    BY <1>1
  <2>5. CASE i \in 1 .. Len(q) /\ j \in 1 .. Len(q)
    BY <1>1, <2>2, <2>5
  <2> QED  BY <1>1, <2>1, <2>3, <2>4, <2>5
<1>6. JournalOK(a, s, o, e, acc \cup {c}, m)
  BY <1>3, <1>4, <1>5 DEF JournalOK
<1> QED  BY <1>1, <1>2, <1>3, <1>6

\* The first pending input starts a turn.
LEMMA JournalStart ==
    ASSUME NEW a \in Actor, NEW q \in Seq(Int), NEW e \in Seq(End),
           NEW acc \in SUBSET Int, NEW n \in Int,
           JournalOK(a, q, 0, e, acc, n), q # <<>>
    PROVE  /\ JournalOK(a, Tail(q), Head(q), e, acc, n)
           /\ Tail(q) \in Seq(Int) /\ Head(q) \in Int
           /\ Range(Tail(q)) \subseteq Range(q)
           /\ Head(q) \in Range(q) /\ Head(q) \in acc /\ Head(q) # 0
           /\ Head(q) \notin Range(Tail(q))
<1> DEFINE s == Tail(q)
           h == Head(q)
<1>1. /\ s \in Seq(Int) /\ Len(s) = Len(q) - 1 /\ Len(q) > 0
      /\ \A i \in 1 .. Len(s) : s[i] = q[i + 1]
      /\ h = q[1] /\ h \in Int
      /\ DOMAIN s = 1 .. Len(s) /\ DOMAIN q = 1 .. Len(q)
      /\ Len(q) \in Nat /\ Len(s) \in Nat
  OBVIOUS
<1>2. Tail(q) = s /\ Head(q) = h
  OBVIOUS
<1> HIDE DEF s, h
<1>3. \A i, j \in DOMAIN q : q[i] = q[j] => i = j
  BY DEF JournalOK
<1>9. \A i \in 1 .. Len(s) : s[i] = q[i + 1] /\ i + 1 \in DOMAIN q
  BY <1>1
<1>10. 1 \in 1 .. Len(q)
  BY <1>1
<1>4. \A x \in Range(s) : \E i \in 1 .. Len(s) : x = s[i] /\ x = q[i + 1] /\ i + 1 \in DOMAIN q
  BY <1>1, <1>9, RangeIs
<1>5. Range(s) \subseteq Range(q) /\ h \in Range(q)
  BY <1>1, <1>4, <1>10, RangeIs
<1>6. h \notin Range(s)
  <2> SUFFICES ASSUME h \in Range(s) PROVE FALSE
    OBVIOUS
  <2>1. PICK i \in 1 .. Len(s) : h = q[i + 1] /\ i + 1 \in DOMAIN q
    BY <1>4
  <2>2. 1 \in DOMAIN q
    BY <1>1, <1>10
  <2>3. i + 1 = 1
    BY <1>1, <1>3, <2>1, <2>2
  <2> QED  BY <2>3
<1>7. \A i, j \in DOMAIN s : s[i] = s[j] => i = j
  <2> SUFFICES ASSUME NEW i \in DOMAIN s, NEW j \in DOMAIN s, s[i] = s[j] PROVE i = j
    OBVIOUS
  <2>1. q[i + 1] = q[j + 1] /\ i + 1 \in DOMAIN q /\ j + 1 \in DOMAIN q
    BY <1>1, <1>9
  <2>2. i + 1 = j + 1
    BY <1>3, <2>1
  <2> QED  BY <1>1, <2>2
<1>8. JournalOK(a, s, h, e, acc, n)
  BY <1>1, <1>5, <1>6, <1>7 DEF JournalOK
<1> QED  BY <1>1, <1>2, <1>5, <1>6, <1>8 DEF JournalOK

How == {"interrupted", "completed", "cancelled", "cancelled_by_parent"}

\* The open turn ends.
LEMMA JournalEnd ==
    ASSUME NEW a \in Actor, NEW q \in Seq(Int), NEW o \in Int, NEW e \in Seq(End),
           NEW acc \in SUBSET Int, NEW n \in Int,
           JournalOK(a, q, o, e, acc, n), o # 0, NEW how \in How
    PROVE  LET s == Append(e, [turn |-> o, how |-> how])
           IN  s \in Seq(End) /\ JournalOK(a, q, 0, s, acc, n)
<1> DEFINE x == [turn |-> o, how |-> how]
           s == Append(e, x)
<1>0. x \in End /\ x.turn = o
  BY DEF End, How
<1> HIDE DEF x
<1>1. /\ s \in Seq(End) /\ Len(s) = Len(e) + 1
      /\ \A i \in 1 .. Len(e) : s[i] = e[i]
      /\ s[Len(e) + 1] = x
      /\ DOMAIN s = 1 .. Len(s) /\ DOMAIN e = 1 .. Len(e)
  BY <1>0
<1> HIDE DEF s
<1>2. \A c \in Turns(s) : c = o \/ c \in Turns(e)
  <2> TAKE c \in Turns(s)
  <2>1. PICK i \in DOMAIN s : s[i].turn = c
    BY <1>1, TurnsAre
  <2>2. i \in 1 .. Len(e) \/ i = Len(e) + 1
    BY <1>1
  <2> QED  BY <1>0, <1>1, <2>1, <2>2, TurnsAre
<1>3. \A i, j \in DOMAIN s : s[i].turn = s[j].turn => i = j
  <2> SUFFICES ASSUME NEW i \in DOMAIN s, NEW j \in DOMAIN s, s[i].turn = s[j].turn PROVE i = j
    OBVIOUS
  <2>1. \A k \in 1 .. Len(e) : s[k].turn # o
    BY <1>1, TurnsAre DEF JournalOK
  <2>2. \A k, l \in DOMAIN e : e[k].turn = e[l].turn => k = l
    BY DEF JournalOK
  <2> QED  BY <1>0, <1>1, <2>1, <2>2
<1>4. JournalOK(a, q, 0, s, acc, n)
  BY <1>2, <1>3 DEF JournalOK
<1> QED  BY <1>1, <1>4 DEF s, x

\* What a cancellation ends.
Doomed(q, o) == q \o (IF o = 0 THEN <<>> ELSE <<o>>)

LEMMA DoomedAre ==
    ASSUME NEW a \in Actor, NEW q \in Seq(Int), NEW o \in Int, NEW e \in Seq(End),
           NEW acc \in SUBSET Int, NEW n \in Int,
           JournalOK(a, q, o, e, acc, n)
    PROVE  LET d == Doomed(q, o)
           IN  /\ d \in Seq(Int)
               /\ \A i \in 1 .. Len(d) : d[i] \in acc /\ d[i] \notin Turns(e)
               /\ \A i, j \in 1 .. Len(d) : d[i] = d[j] => i = j
               /\ o # 0 => o \in Range(d) /\ d # <<>>
<1>1. Len(q) \in Nat /\ DOMAIN q = 1 .. Len(q)
  OBVIOUS
<1>5. /\ Range(q) \subseteq acc
      /\ \A c \in Range(q) : c \notin Turns(e)
      /\ o \notin Range(q) /\ o \notin Turns(e) /\ o \in acc \cup {0}
      /\ \A i, j \in DOMAIN q : q[i] = q[j] => i = j
  BY DEF JournalOK
<1>6. \A i \in 1 .. Len(q) : q[i] \in Range(q)
  BY RangeIs
<1>2. /\ \A i \in 1 .. Len(q) : q[i] \in acc /\ q[i] \notin Turns(e) /\ q[i] # o
      /\ \A i, j \in 1 .. Len(q) : q[i] = q[j] => i = j
      /\ o \notin Turns(e) /\ o \in acc \cup {0}
  BY <1>1, <1>5, <1>6
<1>3. CASE o = 0
  <2>1. Doomed(q, o) = q
    BY <1>3 DEF Doomed
  <2> QED  BY <1>2, <1>3, <2>1
<1>4. CASE o # 0
  <2> DEFINE d == q \o <<o>>
  <2>1. Doomed(q, o) = d
    BY <1>4 DEF Doomed
  <2>2. /\ d \in Seq(Int) /\ Len(d) = Len(q) + 1
        /\ \A i \in 1 .. Len(q) : d[i] = q[i]
        /\ d[Len(q) + 1] = o
    OBVIOUS
  <2> HIDE DEF d
  <2>3. \A i \in 1 .. Len(d) : i \in 1 .. Len(q) \/ i = Len(q) + 1
    BY <1>1, <2>2
  <2>4. \A i \in 1 .. Len(d) : d[i] \in acc /\ d[i] \notin Turns(e)
    BY <1>2, <1>4, <2>2, <2>3
  <2>5. \A i, j \in 1 .. Len(d) : d[i] = d[j] => i = j
    BY <1>2, <2>2, <2>3
  <2>6. Len(q) + 1 \in 1 .. Len(d)
    BY <1>1, <2>2
  <2>7. o \in Range(d)
    BY <2>2, <2>6, RangeIs
  <2>8. d # <<>>
    BY <2>2, <1>1
  <2> QED  BY <2>1, <2>2, <2>4, <2>5, <2>7, <2>8
<1> QED  BY <1>3, <1>4

\* The terminal events of a cancellation.
LEMMA EndingIs ==
    ASSUME NEW d \in Seq(Int), NEW how \in How
    PROVE  /\ Ending(d, how) \in Seq(End) /\ Len(Ending(d, how)) = Len(d)
           /\ \A i \in 1 .. Len(d) : Ending(d, how)[i].turn = d[i] /\ Ending(d, how)[i].how = how
<1>1. Len(d) \in Nat /\ \A i \in 1 .. Len(d) : d[i] \in Int
  OBVIOUS
<1>2. \A i \in 1 .. Len(d) : [turn |-> d[i], how |-> how] \in End
  BY <1>1 DEF End, How
<1>3. Ending(d, how) \in [1 .. Len(d) -> End]
  BY <1>2 DEF Ending
<1>4. Ending(d, how) \in Seq(End)
  BY <1>1, <1>3, SeqDef
<1>5. Len(Ending(d, how)) = Len(d)
  BY <1>1, <1>3, <1>4, LenProperties
<1>6. \A i \in 1 .. Len(d) : Ending(d, how)[i] = [turn |-> d[i], how |-> how]
  BY DEF Ending
<1>7. \A c \in Int : [turn |-> c, how |-> how].turn = c /\ [turn |-> c, how |-> how].how = how
  OBVIOUS
<1>8. \A i \in 1 .. Len(d) : Ending(d, how)[i].turn = d[i] /\ Ending(d, how)[i].how = how
  <2> TAKE i \in 1 .. Len(d)
  <2>1. Ending(d, how)[i] = [turn |-> d[i], how |-> how] /\ d[i] \in Int
    BY <1>1, <1>6
  <2> QED  BY <1>7, <2>1
<1> QED  BY <1>4, <1>5, <1>8

LEMMA ConcatIs ==
    ASSUME NEW e \in Seq(End), NEW x \in Seq(End)
    PROVE  LET s == e \o x
           IN  /\ s \in Seq(End) /\ Len(s) = Len(e) + Len(x)
               /\ Len(e) \in Nat /\ Len(x) \in Nat /\ Len(s) \in Nat
               /\ \A i \in 1 .. Len(e) : s[i] = e[i]
               /\ \A i \in (Len(e) + 1) .. Len(s) : s[i] = x[i - Len(e)] /\ i - Len(e) \in 1 .. Len(x)
               /\ \A i \in 1 .. Len(s) : i \in 1 .. Len(e) \/ i \in (Len(e) + 1) .. Len(s)
               /\ DOMAIN s = 1 .. Len(s)
<1> DEFINE s == e \o x
<1>1. /\ s \in Seq(End) /\ Len(s) = Len(e) + Len(x)
      /\ \A i \in 1 .. Len(e) + Len(x) : s[i] = IF i <= Len(e) THEN e[i] ELSE x[i - Len(e)]
  BY ConcatProperties
<1>2. Len(e) \in Nat /\ Len(x) \in Nat
  BY LenProperties
<1> HIDE DEF s
<1>3. DOMAIN s = 1 .. Len(s) /\ Len(s) \in Nat
  BY <1>1, LenProperties
<1>4. \A i \in 1 .. Len(e) : s[i] = e[i]
  BY <1>1, <1>2
<1>5. \A i \in (Len(e) + 1) .. Len(s) : s[i] = x[i - Len(e)] /\ i - Len(e) \in 1 .. Len(x)
  BY <1>1, <1>2
<1>6. \A i \in 1 .. Len(s) : i \in 1 .. Len(e) \/ i \in (Len(e) + 1) .. Len(s)
  BY <1>2, <1>3
<1> QED  BY <1>1, <1>2, <1>3, <1>4, <1>5, <1>6 DEF s

\* Everything that waits or runs is cancelled.
LEMMA JournalCancel ==
    ASSUME NEW a \in Actor, NEW q \in Seq(Int), NEW o \in Int, NEW e \in Seq(End),
           NEW acc \in SUBSET Int, NEW n \in Int,
           JournalOK(a, q, o, e, acc, n), NEW how \in How
    PROVE  LET s == e \o Ending(Doomed(q, o), how)
           IN  s \in Seq(End) /\ JournalOK(a, <<>>, 0, s, acc, n)
<1> DEFINE d == Doomed(q, o)
           x == Ending(d, how)
           s == e \o x
<1>1. /\ d \in Seq(Int)
      /\ \A i \in 1 .. Len(d) : d[i] \in acc /\ d[i] \notin Turns(e)
      /\ \A i, j \in 1 .. Len(d) : d[i] = d[j] => i = j
  BY DoomedAre
<1> HIDE DEF d
<1>2. /\ x \in Seq(End) /\ Len(x) = Len(d)
      /\ \A i \in 1 .. Len(d) : x[i].turn = d[i]
  BY <1>1, EndingIs
<1> HIDE DEF x
<1>3. /\ s \in Seq(End) /\ Len(s) = Len(e) + Len(x)
      /\ \A i \in 1 .. Len(e) : s[i] = e[i]
      /\ \A i \in (Len(e) + 1) .. Len(s) : s[i] = x[i - Len(e)] /\ i - Len(e) \in 1 .. Len(x)
      /\ DOMAIN s = 1 .. Len(s) /\ Len(e) \in Nat
  BY <1>2, ConcatIs
<1>13. DOMAIN e = 1 .. Len(e)
  BY LenProperties
<1>4. \A i \in 1 .. Len(s) : i \in 1 .. Len(e) \/ i \in (Len(e) + 1) .. Len(s)
  BY <1>2, ConcatIs
<1> HIDE DEF s
<1>5. \A i \in (Len(e) + 1) .. Len(s) : s[i].turn \in acc /\ s[i].turn \notin Turns(e)
  <2> TAKE i \in (Len(e) + 1) .. Len(s)
  <2> DEFINE k == i - Len(e)
  <2>1. s[i] = x[k] /\ k \in 1 .. Len(d)
    BY <1>2, <1>3
  <2> HIDE DEF k
  <2>2. s[i].turn = d[k]
    BY <1>2, <2>1
  <2> QED  BY <1>1, <2>1, <2>2
<1>6. \A i \in 1 .. Len(e) : s[i].turn \in Turns(e)
  BY <1>3, <1>13, TurnsAre
<1>7. Turns(s) \subseteq acc
  <2>1. Turns(e) \subseteq acc
    BY DEF JournalOK
  <2>2. \A i \in DOMAIN s : s[i].turn \in acc
    BY <1>3, <1>4, <1>5, <1>6, <2>1
  <2> QED  BY <1>3, <2>2, TurnsAre
<1>8. \A i, j \in DOMAIN s : s[i].turn = s[j].turn => i = j
  <2> SUFFICES ASSUME NEW i \in DOMAIN s, NEW j \in DOMAIN s, s[i].turn = s[j].turn PROVE i = j
    OBVIOUS
  <2>1. CASE i \in 1 .. Len(e) /\ j \in 1 .. Len(e)
    BY <1>3, <1>13, <2>1 DEF JournalOK
  <2>2. CASE i \in (Len(e) + 1) .. Len(s) /\ j \in (Len(e) + 1) .. Len(s)
    <3>1. d[i - Len(e)] = d[j - Len(e)]
      BY <1>2, <1>3, <2>2
    <3>2. i - Len(e) = j - Len(e)
      BY <1>1, <1>2, <1>3, <2>2, <3>1
    <3> QED  BY <1>3, <2>2, <3>2
  <2> QED  BY <1>3, <1>4, <1>5, <1>6, <2>1, <2>2
<1>9. 0 \notin Turns(s)
  BY <1>7 DEF JournalOK
<1>10. Range(<<>>) = {} /\ DOMAIN <<>> = {}
  BY DEF Range
<1>11. JournalOK(a, <<>>, 0, s, acc, n)
  BY <1>7, <1>8, <1>9, <1>10 DEF JournalOK
<1> QED  BY <1>3, <1>11 DEF s, x, d

----------------------------------------------------------------------------
(* Facts about reports *)

LEMMA ReportsGrow ==
    ASSUME NEW e \in Seq(End), NEW acc, NEW more, acc \subseteq more
    PROVE  /\ Reports(e, acc) => Reports(e, more)
           /\ Settled(e, acc) => Settled(e, more)
  BY DEF Reports, Settled

\* Another end may follow a settled one.
LEMMA ReportsAppend ==
    ASSUME NEW e \in Seq(End), NEW acc, NEW x \in End, Reports(e, acc), Settled(e, acc)
    PROVE  Reports(Append(e, x), acc)
<1> DEFINE s == Append(e, x)
<1>1. /\ s \in Seq(End) /\ Len(s) = Len(e) + 1 /\ Len(e) \in Nat
      /\ \A i \in 1 .. Len(e) : s[i] = e[i]
  OBVIOUS
<1> HIDE DEF s
<1>2. SUFFICES ASSUME NEW i \in 1 .. (Len(s) - 1)
      PROVE  ByCancellation(s[i]) \/ ByCancellation(s[i + 1]) \/ Message(s[i].turn) \in acc
  BY DEF Reports, s
<1>3. CASE i < Len(e)
  <2>1. i \in 1 .. (Len(e) - 1) /\ s[i] = e[i] /\ s[i + 1] = e[i + 1]
    BY <1>1, <1>3
  <2> QED  BY <2>1 DEF Reports
<1>4. CASE i = Len(e)
  <2>1. e # <<>> /\ s[i] = e[Len(e)]
    BY <1>1, <1>4
  <2> QED  BY <2>1 DEF Settled
<1> QED  BY <1>1, <1>3, <1>4

\* Cancellations may follow anything.
LEMMA ReportsCancel ==
    ASSUME NEW e \in Seq(End), NEW acc, NEW d \in Seq(Int),
           NEW how \in {"cancelled", "cancelled_by_parent"}, Reports(e, acc)
    PROVE  /\ Reports(e \o Ending(d, how), acc)
           /\ Settled(e, acc) => Settled(e \o Ending(d, how), acc)
<1> DEFINE x == Ending(d, how)
           s == e \o x
<1>7. how \in How
  BY DEF How
<1>8. /\ x \in Seq(End) /\ Len(x) = Len(d)
      /\ \A i \in 1 .. Len(d) : x[i].how = how
  BY <1>7, EndingIs
<1> HIDE DEF x
<1>1. \A i \in 1 .. Len(x) : ByCancellation(x[i])
  BY <1>8 DEF ByCancellation
<1>2. /\ s \in Seq(End) /\ Len(s) = Len(e) + Len(x)
      /\ Len(e) \in Nat /\ Len(x) \in Nat /\ Len(s) \in Nat
      /\ \A i \in 1 .. Len(e) : s[i] = e[i]
      /\ \A i \in (Len(e) + 1) .. Len(s) : s[i] = x[i - Len(e)] /\ i - Len(e) \in 1 .. Len(x)
  BY <1>8, ConcatIs
<1>3. x = <<>> => s = e
  BY <1>8, ConcatEmptySeq
<1> HIDE DEF s
<1>9. Len(e) \in Nat /\ Len(s) \in Nat /\ Len(s) >= Len(e)
  BY <1>2
<1>4. \A i \in (Len(e) + 1) .. Len(s) : ByCancellation(s[i])
  BY <1>1, <1>2, <1>8
<1>5. Reports(s, acc)
  <2>1. SUFFICES ASSUME NEW i \in 1 .. (Len(s) - 1)
        PROVE  ByCancellation(s[i]) \/ ByCancellation(s[i + 1]) \/ Message(s[i].turn) \in acc
    BY DEF Reports
  <2>2. CASE i < Len(e)
    <3>2. i \in 1 .. (Len(e) - 1) /\ i \in 1 .. Len(e) /\ i + 1 \in 1 .. Len(e)
      BY <1>9, <2>2
    <3>1. s[i] = e[i] /\ s[i + 1] = e[i + 1]
      BY <1>2, <3>2
    <3> QED  BY <3>1, <3>2 DEF Reports
  <2>3. CASE i >= Len(e)
    <3>1. i + 1 \in (Len(e) + 1) .. Len(s)
      BY <1>9, <2>3
    <3> QED  BY <1>4, <3>1
  <2>4. i < Len(e) \/ i >= Len(e)
    BY <1>9
  <2> QED  BY <2>2, <2>3, <2>4
<1>6. ASSUME Settled(e, acc) PROVE Settled(s, acc)
  <2>1. CASE x = <<>>
    BY <1>3, <1>6, <2>1
  <2>2. CASE x # <<>>
    <3>2. Len(x) > 0
      BY <1>8, <2>2, EmptySeq, LenProperties
    <3>3. Len(s) > Len(e)
      BY <1>2, <3>2
    <3>1. Len(s) \in (Len(e) + 1) .. Len(s)
      BY <1>9, <3>3
    <3> QED  BY <1>4, <3>1 DEF Settled
  <2> QED  BY <2>1, <2>2
<1> QED  BY <1>5, <1>6 DEF s, x

----------------------------------------------------------------------------
(* Facts about sets of tasks *)

\* A task of T is a new one or goes back to one of S: it runs a turn only if
\* that one did, and has its turn or none.
Descends(d, s) ==
    /\ d.actor = s.actor
    /\ d.at = "run" => s.at = "run"
    /\ d.turn \in {0, s.turn}
    /\ d.live => s.live

From(T, S) == \A d \in T : d = NewDrain(d.actor) \/ \E s \in S : Descends(d, s)

\* Without new ones.
Within(T, S) == \A d \in T : \E s \in S : Descends(d, s)

\* A task of T looks at the queue only if one of S did.
Looks(T, S) == \A d \in T : d.at = "next" => \E s \in S : s.at = "next" /\ s.actor = d.actor

LEMMA NewDrainIs ==
    ASSUME NEW a \in Actor
    PROVE  /\ NewDrain(a) \in Drain
           /\ NewDrain(a).actor = a /\ NewDrain(a).at = "begin" /\ NewDrain(a).turn = 0
           /\ NewDrain(a).live
  BY DEF NewDrain, Drain, Working

LEMMA SameTasks ==
    ASSUME NEW S
    PROVE  Within(S, S) /\ From(S, S) /\ Looks(S, S)
  BY DEF Within, From, Descends, Looks

LEMMA Lineage ==
    ASSUME NEW S, NEW T, NEW U, From(U, T), Within(T, S)
    PROVE  From(U, S)
<1> SUFFICES ASSUME NEW d \in U, d # NewDrain(d.actor) PROVE \E s \in S : Descends(d, s)
  BY DEF From
<1>1. PICK t \in T : Descends(d, t)
  BY DEF From
<1>2. PICK s \in S : Descends(t, s)
  BY DEF Within
<1>3. Descends(d, s)
  BY <1>1, <1>2 DEF Descends
<1> QED  BY <1>3

LEMMA WithinFrom ==
    ASSUME NEW S, NEW T, Within(T, S)
    PROVE  From(T, S)
  BY DEF Within, From

LEMMA LooksOn ==
    ASSUME NEW S, NEW T, NEW U, Looks(U, T), Looks(T, S)
    PROVE  Looks(U, S)
  BY DEF Looks

\* What follows for the tasks that run, look at the queue or have a turn.
LEMMA FromIs ==
    ASSUME NEW S, NEW T, From(T, S), Shape(T)
    PROVE  /\ \A d \in T : d.at = "run" =>
                 \E s \in S : s.at = "run" /\ s.actor = d.actor /\ s.turn = d.turn
           /\ \A d \in T : d.turn # 0 =>
                 \E s \in S : s.actor = d.actor /\ s.turn = d.turn
<1> SUFFICES ASSUME NEW d \in T
    PROVE  /\ d.at = "run" => \E s \in S : s.at = "run" /\ s.actor = d.actor /\ s.turn = d.turn
           /\ d.turn # 0 => \E s \in S : s.actor = d.actor /\ s.turn = d.turn
  OBVIOUS
<1>1. CASE d = NewDrain(d.actor)
  <2>1. d.at = "begin" /\ d.turn = 0
    BY <1>1 DEF NewDrain
  <2> QED  BY <2>1
<1>2. CASE \E s \in S : Descends(d, s)
  <2>1. PICK s \in S : Descends(d, s)
    BY <1>2
  <2>2. d.at = "run" => d.turn # 0
    BY DEF Shape
  <2> QED  BY <2>1, <2>2 DEF Descends
<1> QED  BY <1>1, <1>2 DEF From

\* _activate adds a task or marks the one there is.
LEMMA ActivatedIs ==
    ASSUME NEW r \in Runtime, NEW S \in SUBSET Drain, NEW a \in Actor, Shape(S)
    PROVE  LET T == Activated(r, S, a)
           IN  T \in SUBSET Drain /\ Shape(T) /\ From(T, S) /\ Looks(T, S)
<1>1. CASE r \in closing
  BY <1>1, SameTasks DEF Activated
<1>2. CASE r \notin closing /\ \E d \in S : d.live /\ d.actor = a
  <2> DEFINE f(d) == IF d.live /\ d.actor = a THEN [d EXCEPT !.again = TRUE] ELSE d
             T == {f(d) : d \in S}
  <2>1. Activated(r, S, a) = T
    BY <1>2 DEF Activated
  <2>2. \A d \in S : /\ f(d) \in Drain /\ f(d).actor = d.actor /\ f(d).at = d.at
                     /\ f(d).turn = d.turn /\ f(d).live = d.live
    BY DEF Drain
  <2>3. \A x \in T : \E d \in S : x = f(d)
    OBVIOUS
  <2> HIDE DEF f
  <2>4. T \in SUBSET Drain
    BY <2>2
  <2> HIDE DEF T
  <2>5. Shape(T)
    <3> SUFFICES ASSUME NEW x \in T
        PROVE  /\ x.at \in Working => x.live
               /\ x.at = "run" => x.turn # 0
               /\ \A y \in T : x.actor = y.actor =>
                     /\ x.live /\ y.live => x = y
                     /\ x.at = "run" /\ x.turn = y.turn => x = y
      BY DEF Shape
    <3>1. PICK d \in S : x = f(d)
      BY <2>3
    <3>2. x.at \in Working => x.live
      BY <2>2, <3>1 DEF Shape
    <3>3. x.at = "run" => x.turn # 0
      BY <2>2, <3>1 DEF Shape
    <3>4. ASSUME NEW y \in T, x.actor = y.actor
          PROVE  /\ x.live /\ y.live => x = y
                 /\ x.at = "run" /\ x.turn = y.turn => x = y
      <4>1. PICK e \in S : y = f(e)
        BY <2>3
      <4>2. d.actor = e.actor
        BY <2>2, <3>1, <3>4, <4>1
      <4>3. x.live /\ y.live => d = e
        BY <2>2, <3>1, <4>1, <4>2 DEF Shape
      <4>4. x.at = "run" /\ x.turn = y.turn => d = e
        BY <2>2, <3>1, <4>1, <4>2 DEF Shape
      <4> QED  BY <3>1, <4>1, <4>3, <4>4
    <3> QED  BY <3>2, <3>3, <3>4
  <2>6. From(T, S)
    <3> SUFFICES ASSUME NEW x \in T PROVE \E d \in S : Descends(x, d)
      BY DEF From
    <3>1. PICK d \in S : x = f(d)
      BY <2>3
    <3>2. Descends(x, d)
      BY <2>2, <3>1 DEF Descends
    <3> QED  BY <3>2
  <2>7. Looks(T, S)
    BY <2>2, <2>3 DEF Looks
  <2> QED  BY <2>1, <2>4, <2>5, <2>6, <2>7
<1>3. CASE r \notin closing /\ ~ \E d \in S : d.live /\ d.actor = a
  <2>1. Activated(r, S, a) = S \cup {NewDrain(a)}
    BY <1>3 DEF Activated
  <2>2. Shape(S \cup {NewDrain(a)})
    <3> DEFINE n == NewDrain(a)
    <3>1. n.actor = a /\ n.at = "begin" /\ n.turn = 0 /\ n.live
      BY NewDrainIs
    <3> HIDE DEF n
    <3>2. \A d \in S : d.actor = a => ~d.live
      BY <1>3
    <3>3. \A d \in S : d.at = "run" => d.turn # 0
      BY DEF Shape
    <3>4. Shape(S \cup {n})
      BY <3>1, <3>2, <3>3 DEF Shape
    <3> QED  BY <3>4 DEF n
  <2>3. From(S \cup {NewDrain(a)}, S)
    <3>1. NewDrain(a) = NewDrain(NewDrain(a).actor)
      BY NewDrainIs
    <3> QED  BY <3>1, SameTasks DEF From
  <2>4. Looks(S \cup {NewDrain(a)}, S)
    BY NewDrainIs DEF Looks
  <2> QED  BY <2>1, <2>2, <2>3, <2>4, NewDrainIs
<1> QED  BY <1>1, <1>2, <1>3

\* Cancelled tasks neither live nor run a turn.
LEMMA CancelledIs ==
    ASSUME NEW S \in SUBSET Drain, NEW W \in SUBSET S, Shape(S)
    PROVE  LET T == Cancelled(S, W)
           IN  /\ T \in SUBSET Drain /\ Shape(T) /\ Within(T, S) /\ Looks(T, S)
               /\ \A d \in T : d.at = "run" \/ d.live => d \in S \ W
<1> DEFINE f(d) == IF d \in W THEN [d EXCEPT !.live = FALSE, !.at = "unwind"] ELSE d
           T == {f(d) : d \in S}
<1>1. Cancelled(S, W) = T
  BY DEF Cancelled
<1>2. \A d \in S : /\ f(d) \in Drain /\ f(d).actor = d.actor /\ f(d).turn = d.turn
                   /\ d \in W => ~f(d).live /\ f(d).at = "unwind"
                   /\ d \notin W => f(d) = d
  BY DEF Drain
<1>3. \A x \in T : \E d \in S : x = f(d)
  OBVIOUS
<1> HIDE DEF f
<1>4. T \in SUBSET Drain
  BY <1>2
<1> HIDE DEF T
<1>5. \A x \in T : x.live \/ x.at \in Working \cup {"run", "next"} => x \in S /\ x \notin W /\ x = f(x)
  <2> SUFFICES ASSUME NEW x \in T, x.live \/ x.at \in Working \cup {"run", "next"}
      PROVE  x \in S /\ x \notin W /\ x = f(x)
    OBVIOUS
  <2>1. PICK d \in S : x = f(d)
    BY <1>3
  <2>2. d \notin W
    BY <1>2, <2>1 DEF Working
  <2> QED  BY <1>2, <2>1, <2>2
<1>6. Shape(T)
  <2> SUFFICES ASSUME NEW x \in T
      PROVE  /\ x.at \in Working => x.live
             /\ x.at = "run" => x.turn # 0
             /\ \A y \in T : x.actor = y.actor =>
                   /\ x.live /\ y.live => x = y
                   /\ x.at = "run" /\ x.turn = y.turn => x = y
    BY DEF Shape
  <2>1. x.at \in Working => x.live
    BY <1>5 DEF Shape
  <2>2. x.at = "run" => x.turn # 0
    BY <1>5 DEF Shape
  <2>3. ASSUME NEW y \in T, x.actor = y.actor
        PROVE  /\ x.live /\ y.live => x = y
               /\ x.at = "run" /\ x.turn = y.turn => x = y
    <3>1. x.live /\ y.live => x = y
      BY <1>5, <2>3 DEF Shape
    <3>2. ASSUME x.at = "run", x.turn = y.turn PROVE x = y
      <4>1. x \in S /\ x \notin W /\ x = f(x)
        BY <1>5, <3>2
      <4>2. PICK e \in S : y = f(e)
        BY <1>3
      <4>3. e.actor = x.actor /\ e.turn = x.turn
        BY <1>2, <2>3, <3>2, <4>2
      <4>4. x = e
        BY <3>2, <4>1, <4>3 DEF Shape
      <4> QED  BY <4>1, <4>2, <4>4
    <3> QED  BY <3>1, <3>2
  <2> QED  BY <2>1, <2>2, <2>3
<1>7. Within(T, S)
  <2> SUFFICES ASSUME NEW x \in T PROVE \E d \in S : Descends(x, d)
    BY DEF Within
  <2>1. PICK d \in S : x = f(d)
    BY <1>3
  <2>2. Descends(x, d)
    BY <1>2, <2>1 DEF Descends
  <2> QED  BY <2>2
<1>8. \A d \in T : d.at = "run" \/ d.live => d \in S \ W
  BY <1>5
<1>9. Looks(T, S)
  BY <1>5 DEF Looks
<1> QED  BY <1>1, <1>4, <1>6, <1>7, <1>8, <1>9

\* One task takes a step.
LEMMA MovedIs ==
    ASSUME NEW S \in SUBSET Drain, Shape(S), NEW d \in S, NEW n \in Drain,
           n.actor = d.actor, n.live => d.live, n.at \in Working => n.live,
           n.at = "run" => n.turn # 0 /\ \A s \in S \ {d} : s.actor = d.actor => s.turn # n.turn,
           n.at # "run" => n.turn \in {0, d.turn}
    PROVE  LET T == (S \ {d}) \cup {n}
           IN  /\ T \in SUBSET Drain /\ Shape(T)
               /\ n.at # "run" => Within(T, S)
               /\ n.at # "next" => Looks(T, S)
<1> DEFINE T == (S \ {d}) \cup {n}
<1>1. ASSUME NEW s \in S \ {d}, s.actor = d.actor
      PROVE  /\ ~(s.live /\ n.live)
             /\ s.at = "run" => s.turn # n.turn
             /\ n.at = "run" => s.turn # n.turn
  BY <1>1 DEF Shape
<1>2. Shape(T)
  <2> SUFFICES ASSUME NEW x \in T
      PROVE  /\ x.at \in Working => x.live
             /\ x.at = "run" => x.turn # 0
             /\ \A y \in T : x.actor = y.actor =>
                   /\ x.live /\ y.live => x = y
                   /\ x.at = "run" /\ x.turn = y.turn => x = y
    BY DEF Shape
  <2>1. CASE x = n
    BY <1>1, <2>1
  <2>2. CASE x \in S \ {d}
    <3>1. /\ x.at \in Working => x.live
          /\ x.at = "run" => x.turn # 0
      BY <2>2 DEF Shape
    <3>2. ASSUME NEW y \in S \ {d}, x.actor = y.actor
          PROVE  /\ x.live /\ y.live => x = y
                 /\ x.at = "run" /\ x.turn = y.turn => x = y
      BY <2>2, <3>2 DEF Shape
    <3>3. x.actor = n.actor => ~(x.live /\ n.live) /\ ~(x.at = "run" /\ x.turn = n.turn)
      BY <1>1, <2>2
    <3> QED  BY <3>1, <3>2, <3>3
  <2> QED  BY <2>1, <2>2
<1>3. ASSUME n.at # "run" PROVE Within(T, S)
  <2>1. Descends(n, d)
    BY <1>3 DEF Descends
  <2>2. \A s \in S : Descends(s, s)
    BY DEF Descends
  <2> QED  BY <2>1, <2>2 DEF Within
<1>4. n.at # "next" => Looks(T, S)
  BY DEF Looks
<1> QED  BY <1>2, <1>3, <1>4

\* What a task's next state says; the states are those of the actions.
LEMMA FieldsAt ==
    ASSUME NEW d \in Drain, NEW at \in Working \cup {"unwind", "finally"}
    PROVE  LET n == [d EXCEPT !.at = at]
           IN  /\ n \in Drain /\ n.at = at /\ n.actor = d.actor
               /\ n.turn = d.turn /\ n.live = d.live
  BY DEF Drain

LEMMA FieldsEmpty ==
    ASSUME NEW d \in Drain
    PROVE  LET n == [d EXCEPT !.live = FALSE, !.at = "finally", !.again = FALSE]
           IN  /\ n \in Drain /\ n.at = "finally" /\ n.actor = d.actor
               /\ n.turn = d.turn /\ ~n.live
  BY DEF Drain

LEMMA FieldsFailed ==
    ASSUME NEW d \in Drain
    PROVE  LET n == [d EXCEPT !.at = "finally", !.failed = TRUE]
           IN  /\ n \in Drain /\ n.at = "finally" /\ n.actor = d.actor
               /\ n.turn = d.turn /\ n.live = d.live
  BY DEF Drain

----------------------------------------------------------------------------
(* A step of one runtime, and the others *)

\* Journals only grow, and nothing is queued again.
Grows ==
    \A a \in Actor :
        /\ accepted[a] \subseteq accepted'[a]
        /\ \A c \in accepted[a] : c \in Range(queue'[a]) => c \in Range(queue[a])

\* What another runtime may notice: its own memory is as it was, its lease no
\* better, and while it has the lease nothing is written.
Frame(r) ==
    /\ \A u \in Runtime \ {r} :
          /\ own'[u] = own[u] /\ renewals'[u] = renewals[u] /\ lock'[u] = lock[u]
          /\ drains'[u] = drains[u] /\ delivered'[u] = delivered[u]
          /\ u \in unrecovered' <=> u \in unrecovered
    /\ \/ lease'.owner \in {r, NoOne}
       \/ /\ lease'.owner = lease.owner /\ lease'.generation = lease.generation
          /\ lease'.valid => lease.valid
          /\ UNCHANGED <<open, opener, ended>>
          /\ accepted'["parent"] = accepted["parent"]
    /\ Grows

LEMMA Elsewhere ==
    ASSUME NEW r \in Runtime, NEW u \in Runtime \ {r}, Types, Frame(r), RuntimeOK(u)
    PROVE  RuntimeOK(u)'
<1>1. /\ own'[u] = own[u] /\ renewals'[u] = renewals[u] /\ lock'[u] = lock[u]
      /\ drains'[u] = drains[u] /\ delivered'[u] = delivered[u]
      /\ u \in unrecovered' <=> u \in unrecovered
  BY DEF Frame
<1>2. ASSUME lease'.owner = u
      PROVE  /\ lease.owner = u /\ lease'.generation = lease.generation
             /\ lease'.valid => lease.valid
             /\ open' = open /\ opener' = opener /\ ended' = ended
             /\ accepted'["parent"] = accepted["parent"]
  BY <1>2, TakeoverAssumption DEF Frame
<1>3. Mine(u)' => Mine(u) /\ open' = open /\ opener' = opener
  BY <1>1, <1>2 DEF Mine
<1>4. Fenced(u)' => /\ Fenced(u) /\ Mine(u)' /\ ended' = ended
                    /\ accepted'["parent"] = accepted["parent"]
  BY <1>1, <1>2 DEF Fenced, Mine
<1>5. Shape(drains'[u])
  BY <1>1 DEF RuntimeOK
<1>6. TakenOK(u)'
  <2>1. \A d \in drains[u] : d.actor \in Actor
    BY DEF Types, Drain
  <2> QED  BY <1>1, <2>1 DEF RuntimeOK, TakenOK, Frame, Grows
<1>7. EngineOK(u)'
  BY <1>1, <1>3 DEF RuntimeOK, EngineOK, Runs
<1>8. OwnerOK(u)'
  BY <1>1, <1>3, <1>4 DEF RuntimeOK, OwnerOK, Runs, LiveDrains
<1>9. RenewalOK(u)'
  BY <1>1 DEF RuntimeOK, RenewalOK
<1>10. ReportOK(u)'
  <2>1. accepted["parent"] \subseteq accepted'["parent"]
    BY DEF Frame, Grows, Actor
  <2> QED  BY <1>1, <1>4, <2>1 DEF RuntimeOK, ReportOK
<1> QED  BY <1>5, <1>6, <1>7, <1>8, <1>9, <1>10 DEF RuntimeOK

\* The invariant holds after a step when it holds of the journals and of the
\* runtime that took it.
LEMMA Assemble ==
    ASSUME IInv, NEW r \in Runtime, Types', Frame(r), JournalsOK', RuntimeOK(r)',
           lease'.owner # NoOne => lease'.generation > 0
    PROVE  IInv'
<1>1. \A u \in Runtime \ {r} : RuntimeOK(u)'
  BY Elsewhere DEF IInv
<1> QED  BY <1>1 DEF IInv

\* Tasks that go back to those of the state before have turns and run them as
\* those did.
LEMMA TasksKept ==
    ASSUME IInv, NEW r \in Runtime, Types', Grows,
           Shape(drains'[r]), From(drains'[r], drains[r]),
           Mine(r)' => /\ Mine(r)
                       /\ \A d \in Runs(r)' : open'[d.actor] = open[d.actor]
    PROVE  /\ TakenOK(r)' /\ EngineOK(r)'
           /\ Runs(r) = {} => Runs(r)' = {}
<1>1. /\ \A d \in drains'[r] : d.at = "run" =>
            \E s \in drains[r] : s.at = "run" /\ s.actor = d.actor /\ s.turn = d.turn
      /\ \A d \in drains'[r] : d.turn # 0 =>
            \E s \in drains[r] : s.actor = d.actor /\ s.turn = d.turn
  BY FromIs
<1>2. TakenOK(r) /\ EngineOK(r)
  BY DEF IInv, RuntimeOK
<1>3. \A d \in drains'[r] : d.actor \in Actor
  BY DEF Types, Drain
<1>4. TakenOK(r)'
  BY <1>1, <1>2, <1>3 DEF TakenOK, Grows
<1>5. EngineOK(r)'
  BY <1>1, <1>2 DEF EngineOK, Runs
<1>6. Runs(r) = {} => Runs(r)' = {}
  BY <1>1 DEF Runs
<1> QED  BY <1>4, <1>5, <1>6

\* Nothing of the journals changes.
LEMMA JournalsSame ==
    ASSUME JournalsOK, UNCHANGED <<queue, open, opener, ended, accepted, sent>>
    PROVE  JournalsOK' /\ Grows
  BY DEF JournalsOK, Grows

\* The message about the last of the ends reaches the parent's journal, unless
\* it is there.
LEMMA DeliverIs ==
    ASSUME Types, NEW r \in Runtime, NEW ends \in Seq(End),
           NEW tasks \in SUBSET Drain, Shape(tasks),
           NEW o \in Int, NEW e \in Seq(End),
           JournalOK("parent", queue["parent"], o, e, accepted["parent"], sent),
           \A i \in 1 .. Len(ends) : ends[i].turn > 0,
           delivered[r] # 0 => delivered[r] \in accepted["parent"],
           DeliverTo(r, ends, tasks)
    PROVE  /\ queue' \in [Actor -> Seq(Int)] /\ accepted' \in [Actor -> SUBSET Int]
           /\ delivered' \in [Runtime -> Int]
           /\ queue'["child"] = queue["child"] /\ accepted'["child"] = accepted["child"]
           /\ JournalOK("parent", queue'["parent"], o, e, accepted'["parent"], sent)
           /\ Grows
           /\ delivered'[r] # 0 => delivered'[r] \in accepted'["parent"]
           /\ \A u \in Runtime \ {r} : delivered'[u] = delivered[u]
           /\ Settled(ends, accepted'["parent"])
           /\ \E T \in SUBSET Drain :
                 /\ drains' = [drains EXCEPT ![r] = T]
                 /\ Shape(T) /\ From(T, tasks) /\ Looks(T, tasks)
<1> USE DEF Types
<1>1. CASE Owed(ends) = {}
  <2>1. /\ UNCHANGED <<queue, accepted, delivered>>
        /\ drains' = [drains EXCEPT ![r] = tasks]
    BY <1>1 DEF DeliverTo
  <2>2. Settled(ends, accepted'["parent"])
    <3>1. ends # <<>> => ~Notifies(Last(ends))
      BY <1>1 DEF Owed
    <3>2. ends # <<>> => ByCancellation(ends[Len(ends)])
      BY <3>1 DEF Notifies, ByCancellation, Last
    <3> QED  BY <3>2 DEF Settled
  <2> QED  BY <2>1, <2>2, SameTasks DEF Grows
<1>2. CASE Owed(ends) # {}
  <2> DEFINE msg == -Last(ends).turn
             duplicate == delivered[r] = msg \/ msg \in accepted["parent"]
  <2>1. ends # <<>> /\ Len(ends) \in 1 .. Len(ends) /\ Last(ends) = ends[Len(ends)]
    BY <1>2 DEF Owed, Last
  <2>2. ends[Len(ends)] \in End /\ ends[Len(ends)].turn > 0
    BY <2>1, ElementOfSeq
  <2>3. ends[Len(ends)].turn \in Int
    BY <2>2 DEF End
  <2>4. msg \in Int /\ msg < 0 /\ msg = Message(ends[Len(ends)].turn)
    BY <2>1, <2>2, <2>3 DEF Message
  <2>5. /\ queue' = IF duplicate THEN queue ELSE [queue EXCEPT !["parent"] = Append(@, msg)]
        /\ accepted' = [accepted EXCEPT !["parent"] = @ \cup
                            IF delivered[r] = msg THEN {} ELSE {msg}]
        /\ delivered' = [delivered EXCEPT ![r] = msg]
        /\ drains' = [drains EXCEPT ![r] =
                IF duplicate /\ \E d \in tasks : d.live /\ d.actor = "parent"
                THEN tasks ELSE Activated(r, tasks, "parent")]
    BY <1>2 DEF DeliverTo
  <2> HIDE DEF msg
  <2>14. delivered[r] = msg => msg \in accepted["parent"]
    BY <2>4
  <2>15. accepted["parent"] \subseteq Int /\ queue["parent"] \in Seq(Int) /\ sent \in Int
    BY DEF Actor
  <2>6. accepted'["parent"] = accepted["parent"] \cup {msg} /\ accepted'["child"] = accepted["child"]
    BY <2>5, <2>14 DEF Actor
  <2>7. queue'["child"] = queue["child"]
    BY <2>5 DEF Actor
  <2>16. Append(queue["parent"], msg) \in Seq(Int)
    BY <2>4, <2>15
  <2>17. queue' \in [Actor -> Seq(Int)]
    BY <2>5, <2>16
  <2>18. accepted' \in [Actor -> SUBSET Int]
    BY <2>4, <2>5
  <2>19. delivered' \in [Runtime -> Int]
    BY <2>4, <2>5
  <2>8. /\ queue' \in [Actor -> Seq(Int)] /\ accepted' \in [Actor -> SUBSET Int]
        /\ delivered' \in [Runtime -> Int]
    BY <2>17, <2>18, <2>19
  <2>9. /\ JournalOK("parent", queue'["parent"], o, e, accepted'["parent"], sent)
        /\ \A c \in accepted["parent"] : c \in Range(queue'["parent"]) => c \in Range(queue["parent"])
    <3>1. CASE msg \in accepted["parent"]
      <4>2. queue' = queue
        BY <2>5, <3>1
      <4>3. accepted'["parent"] = accepted["parent"]
        BY <2>6, <3>1
      <4>1. queue' = queue /\ accepted'["parent"] = accepted["parent"]
        BY <4>2, <4>3
      <4> QED  BY <4>1, <2>15
    <3>2. CASE msg \notin accepted["parent"]
      <4>1. queue'["parent"] = Append(queue["parent"], msg)
        BY <2>5, <2>14, <3>2 DEF Actor
      <4>2. "parent" \in Actor /\ msg # 0 /\ msg <= sent
        BY <2>4 DEF Actor
      <4>4. ("parent" = "child" => msg > 0) /\ sent <= sent
        BY <2>15
      <4>3. LET s == Append(queue["parent"], msg)
            IN  /\ JournalOK("parent", s, o, e, accepted["parent"] \cup {msg}, sent)
                /\ \A c \in accepted["parent"] : c \in Range(s) => c \in Range(queue["parent"])
        <5> DEFINE q == queue["parent"]
                   acc == accepted["parent"]
        <5>1. /\ q \in Seq(Int) /\ acc \in SUBSET Int /\ msg \notin acc
              /\ JournalOK("parent", q, o, e, acc, sent)
          BY <2>15, <3>2
        <5> HIDE DEF q, acc, Types
        <5>2. /\ JournalOK("parent", Append(q, msg), o, e, acc \cup {msg}, sent)
              /\ \A c \in acc : c \in Range(Append(q, msg)) => c \in Range(q)
          BY <2>4, <2>15, <4>2, <4>4, <5>1, JournalEnqueue
        <5> QED  BY <5>2 DEF q, acc
      <4> QED  BY <2>6, <4>1, <4>3
    <3> QED  BY <3>1, <3>2
  <2>10. Grows
    BY <2>6, <2>7, <2>9 DEF Grows, Actor
  <2>11. delivered'[r] \in accepted'["parent"] /\ \A u \in Runtime \ {r} : delivered'[u] = delivered[u]
    BY <2>5, <2>6
  <2>12. Settled(ends, accepted'["parent"])
    BY <2>4, <2>6 DEF Settled
  <2>13. \E T \in SUBSET Drain :
            /\ drains' = [drains EXCEPT ![r] = T]
            /\ Shape(T) /\ From(T, tasks) /\ Looks(T, tasks)
    <3>1. CASE duplicate /\ \E d \in tasks : d.live /\ d.actor = "parent"
      BY <2>5, <3>1, SameTasks
    <3>2. CASE ~(duplicate /\ \E d \in tasks : d.live /\ d.actor = "parent")
      <4>1. drains' = [drains EXCEPT ![r] = Activated(r, tasks, "parent")]
        BY <2>5, <3>2
      <4>2. LET T == Activated(r, tasks, "parent")
            IN  T \in SUBSET Drain /\ Shape(T) /\ From(T, tasks) /\ Looks(T, tasks)
        BY ActivatedIs DEF Actor
      <4> QED  BY <4>1, <4>2
    <3> QED  BY <3>1, <3>2
  <2> QED  BY <2>6, <2>7, <2>8, <2>9, <2>10, <2>11, <2>12, <2>13
<1> QED  BY <1>1, <1>2

\* No task looks at the queue that did not before, and what was settled is.
LEMMA ReportKept ==
    ASSUME IInv, NEW r \in Runtime, lock[r].at \notin {"recover", "deliver"},
           UNCHANGED <<lease, own>>,
           Looks(drains'[r], drains[r]),
           delivered'[r] # 0 => delivered'[r] \in accepted'["parent"],
           Settled(ended["child"], accepted["parent"]) => Settled(ended'["child"], accepted'["parent"])
    PROVE  ReportOK(r)'
<1>1. ReportOK(r)
  BY DEF IInv, RuntimeOK
<1>2. ASSUME Fenced(r)', NEW d \in drains'[r], d.actor = "child", d.at = "next"
      PROVE  Settled(ended'["child"], accepted'["parent"])
  <2>1. PICK s \in drains[r] : s.at = "next" /\ s.actor = "child"
    BY <1>2 DEF Looks
  <2>2. Fenced(r)
    BY <1>2 DEF Fenced
  <2>3. Settled(ended["child"], accepted["parent"])
    BY <1>1, <2>1, <2>2 DEF ReportOK
  <2> QED  BY <2>3
<1> QED  BY <1>2 DEF ReportOK

----------------------------------------------------------------------------
(* Ownership *)

LEMMA LockFields ==
    /\ Free \in Locks /\ Free.at = "free"
    /\ [Free EXCEPT !.at = "release"] \in Locks /\ [Free EXCEPT !.at = "release"].at = "release"
    /\ \A l \in Locks, at \in Recovering \cup {"free", "apply", "release", "released"} :
          LET m == [l EXCEPT !.at = at]
          IN  m \in Locks /\ m.at = at /\ m.todo = l.todo /\ m.request = l.request
    /\ \A a \in Actor \cup {"none"} :
          LET m == [at |-> "recover", todo |-> {}, request |-> a]
          IN  m \in Locks /\ m.at = "recover"
  BY DEF Free, Locks, Recovering

LEMMA LeaseFields ==
    ASSUME NEW l \in Leases
    PROVE  /\ LET m == [l EXCEPT !.valid = FALSE]
              IN  m \in Leases /\ m.owner = l.owner /\ m.generation = l.generation /\ ~m.valid
           /\ LET m == [l EXCEPT !.owner = NoOne, !.valid = FALSE]
              IN  m \in Leases /\ m.owner = NoOne /\ m.generation = l.generation /\ ~m.valid
  BY DEF Leases

\* Every runtime is affected alike when the lease runs out.
LEMMA LeaseExpiresInv ==
    ASSUME IInv, LeaseExpires
    PROVE  IInv'
<1>1. /\ lease' \in Leases /\ lease'.owner = lease.owner /\ lease'.generation = lease.generation
      /\ ~lease'.valid
  BY LeaseFields DEF IInv, Types, LeaseExpires
<1>2. UNCHANGED <<queue, open, opener, ended, accepted, sent, own, unrecovered, renewals,
                  lock, drains, delivered>>
  BY DEF LeaseExpires, journal, memory
<1>3. Types'
  BY <1>1, <1>2 DEF IInv, Types
<1>4. JournalsOK'
  BY <1>2, JournalsSame DEF IInv
<1>5. ASSUME NEW r \in Runtime PROVE RuntimeOK(r)'
  <2>1. RuntimeOK(r)
    BY DEF IInv
  <2>2. (Mine(r)' <=> Mine(r)) /\ ~Fenced(r)'
    BY <1>1, <1>2 DEF Mine, Fenced
  <2>3. Shape(drains'[r]) /\ TakenOK(r)' /\ EngineOK(r)' /\ RenewalOK(r)'
    BY <1>2, <2>1, <2>2 DEF RuntimeOK, TakenOK, EngineOK, Runs, RenewalOK
  <2>4. OwnerOK(r)'
    BY <1>2, <2>1, <2>2 DEF RuntimeOK, OwnerOK, Runs, LiveDrains
  <2>5. ReportOK(r)'
    BY <1>2, <2>1, <2>2 DEF RuntimeOK, ReportOK
  <2> QED  BY <2>3, <2>4, <2>5 DEF RuntimeOK
<1>6. lease'.owner # NoOne => lease'.generation > 0
  BY <1>1 DEF IInv
<1> QED  BY <1>3, <1>4, <1>5, <1>6 DEF IInv

\* A new owner has not recovered: no task of it runs a turn.
LEMMA EnsureOwnerInv ==
    ASSUME IInv, NEW r \in Runtime, EnsureOwner(r)
    PROVE  IInv'
<1>0. Types /\ JournalsOK /\ RuntimeOK(r)
  BY DEF IInv
<1>1. lease.generation \in Nat
  BY <1>0 DEF Types, Leases
<1>2. /\ lease' = [owner |-> r, generation |-> lease.generation + 1, valid |-> TRUE]
      /\ UNCHANGED <<queue, open, opener, ended, accepted, sent, drains, delivered>>
      /\ own' = [own EXCEPT ![r] = lease'.generation]
      /\ own[r] = 0
      /\ unrecovered' = unrecovered \cup {r}
      /\ renewals' = [renewals EXCEPT ![r] =
                         @ \cup {[generation |-> lease'.generation, failed |-> FALSE]}]
      /\ lock' = [lock EXCEPT ![r] = [at |-> "recover", todo |-> {}, request |-> "none"]]
  BY DEF EnsureOwner, Begins, bounds
<1>3. /\ lease' \in Leases /\ lease'.owner = r /\ lease'.generation = lease.generation + 1
      /\ lease'.generation \in Nat /\ lease'.generation > 0
  BY <1>1, <1>2 DEF Leases
<1>4. /\ own' \in [Runtime -> Nat] /\ own'[r] = lease'.generation
      /\ \A u \in Runtime \ {r} : own'[u] = own[u]
  BY <1>0, <1>2, <1>3 DEF Types
<1>5. /\ lock' \in [Runtime -> Locks] /\ lock'[r].at = "recover"
      /\ \A u \in Runtime \ {r} : lock'[u] = lock[u]
  BY <1>0, <1>2, LockFields DEF Types
<1>6. renewals[r] = {}
  BY <1>0, <1>2 DEF RuntimeOK, RenewalOK
<1>7. /\ renewals' \in [Runtime -> SUBSET Renewal]
      /\ renewals'[r] = {[generation |-> lease'.generation, failed |-> FALSE]}
      /\ \A u \in Runtime \ {r} : renewals'[u] = renewals[u]
  BY <1>0, <1>2, <1>3, <1>6 DEF Types, Renewal
<1>8. Types'
  BY <1>0, <1>2, <1>3, <1>4, <1>5, <1>7 DEF Types
<1>9. JournalsOK' /\ Grows
  BY <1>0, <1>2, JournalsSame
<1>10. Frame(r)
  BY <1>2, <1>3, <1>4, <1>5, <1>7, <1>9 DEF Frame
<1>11. Runs(r)' = {}
  BY <1>0, <1>2 DEF RuntimeOK, OwnerOK, Runs
<1>12. Shape(drains'[r]) /\ TakenOK(r)' /\ EngineOK(r)'
  BY <1>0, <1>2, <1>11 DEF RuntimeOK, TakenOK, EngineOK
<1>13. OwnerOK(r)'
  BY <1>2, <1>3, <1>4, <1>5, <1>11 DEF OwnerOK, Recovering
<1>14. RenewalOK(r)'
  BY <1>3, <1>4, <1>7 DEF RenewalOK
<1>15. ReportOK(r)'
  BY <1>0, <1>2, <1>5 DEF RuntimeOK, ReportOK
<1> QED  BY <1>3, <1>8, <1>9, <1>10, <1>12, <1>13, <1>14, <1>15, Assemble DEF RuntimeOK

\* A failed renewal is the one of the ownership.
LEMMA RenewFailsInv ==
    ASSUME IInv, NEW r \in Runtime, NEW t \in renewals[r], RenewFails(r, t)
    PROVE  IInv'
<1>0. Types /\ JournalsOK /\ RuntimeOK(r)
  BY DEF IInv
<1>2. /\ UNCHANGED <<lease, queue, open, opener, ended, accepted, sent, own, unrecovered, lock,
                     drains, delivered>>
      /\ renewals' = [renewals EXCEPT ![r] = (@ \ {t}) \cup {[t EXCEPT !.failed = TRUE]}]
  BY DEF RenewFails, journal
<1>3. t \in Renewal
  BY <1>0 DEF Types
<1>4. [t EXCEPT !.failed = TRUE] \in Renewal /\ [t EXCEPT !.failed = TRUE].generation = t.generation
  BY <1>3 DEF Renewal
<1>5. t.generation = own[r] /\ own[r] # 0 /\ renewals[r] = {t}
  BY <1>0 DEF RuntimeOK, RenewalOK
<1>6. /\ renewals' \in [Runtime -> SUBSET Renewal] /\ renewals'[r] = {[t EXCEPT !.failed = TRUE]}
      /\ \A u \in Runtime \ {r} : renewals'[u] = renewals[u]
  BY <1>0, <1>2, <1>4, <1>5 DEF Types
<1>7. Types'
  BY <1>0, <1>2, <1>6 DEF Types
<1>8. JournalsOK' /\ Grows
  BY <1>0, <1>2, JournalsSame
<1>9. Frame(r)
  BY <1>2, <1>6, <1>8 DEF Frame
<1>10. RenewalOK(r)'
  BY <1>2, <1>4, <1>5, <1>6 DEF RenewalOK
<1>11. (Mine(r)' <=> Mine(r)) /\ (Fenced(r)' <=> Fenced(r))
  BY <1>2 DEF Mine, Fenced
<1>12. Shape(drains'[r]) /\ TakenOK(r)' /\ EngineOK(r)'
  BY <1>0, <1>2, <1>11 DEF RuntimeOK, TakenOK, EngineOK, Runs
<1>13. OwnerOK(r)'
  BY <1>0, <1>2, <1>11 DEF RuntimeOK, OwnerOK, Runs, LiveDrains
<1>14. ReportOK(r)'
  BY <1>0, <1>2, <1>11 DEF RuntimeOK, ReportOK
<1> QED  BY <1>2, <1>7, <1>8, <1>9, <1>10, <1>12, <1>13, <1>14, Assemble DEF RuntimeOK, IInv

\* Without the ownership no turn runs.
LEMMA InvalidateInv ==
    ASSUME IInv, NEW r \in Runtime, NEW t \in renewals[r], Invalidate(r, t)
    PROVE  IInv'
<1>0. Types /\ JournalsOK /\ RuntimeOK(r) /\ (lease.owner # NoOne => lease.generation > 0)
  BY DEF IInv
<1>2. /\ UNCHANGED <<lease, queue, open, opener, ended, accepted, sent, unrecovered, lock, delivered>>
      /\ renewals' = [renewals EXCEPT ![r] = @ \ {t}]
      /\ own' = [own EXCEPT ![r] = 0]
      /\ drains' = [drains EXCEPT ![r] =
                       IF own[r] = 0 THEN @ ELSE Cancelled(@, LiveDrains(r))]
      /\ lock[r] = Free
  BY DEF Invalidate, journal, bounds, Unlocked
<1>3. renewals' \in [Runtime -> SUBSET Renewal] /\ renewals'[r] = {}
      /\ \A u \in Runtime \ {r} : renewals'[u] = renewals[u]
  BY <1>0, <1>2 DEF Types, RuntimeOK, RenewalOK
<1>4. own' \in [Runtime -> Nat] /\ own'[r] = 0 /\ \A u \in Runtime \ {r} : own'[u] = own[u]
  BY <1>0, <1>2 DEF Types
<1> DEFINE S == drains[r]
           T == Cancelled(S, LiveDrains(r))
<1>5. own[r] # 0
  BY <1>0 DEF RuntimeOK, RenewalOK
<1>6. S \in SUBSET Drain /\ Shape(S) /\ LiveDrains(r) \in SUBSET S
  BY <1>0 DEF Types, RuntimeOK, LiveDrains
<1>7. /\ T \in SUBSET Drain /\ Shape(T) /\ Within(T, S) /\ Looks(T, S)
      /\ \A d \in T : d.at = "run" \/ d.live => d \in S \ LiveDrains(r)
  BY <1>6, CancelledIs
<1>8. drains' = [drains EXCEPT ![r] = T]
  BY <1>2, <1>5
<1> HIDE DEF S, T
<1>9. /\ drains' \in [Runtime -> SUBSET Drain] /\ drains'[r] = T
      /\ \A u \in Runtime \ {r} : drains'[u] = drains[u]
  BY <1>0, <1>7, <1>8 DEF Types
<1>10. Types'
  BY <1>0, <1>2, <1>3, <1>4, <1>9 DEF Types
<1>11. JournalsOK' /\ Grows
  BY <1>0, <1>2, JournalsSame
<1>12. Frame(r)
  BY <1>2, <1>3, <1>4, <1>9, <1>11 DEF Frame
<1>13. Runs(r)' = {}
  <2>1. \A d \in S : d.at = "run" => d \in LiveDrains(r)
    BY <1>6 DEF Shape, Working, LiveDrains, S
  <2> QED  BY <1>7, <1>9, <2>1 DEF Runs
<1>14. ~Mine(r)' /\ ~Fenced(r)'
  BY <1>0, <1>2, <1>4, TakeoverAssumption DEF Mine, Fenced
<1>15. Shape(drains'[r]) /\ TakenOK(r)' /\ EngineOK(r)'
  <2>1. From(drains'[r], drains[r])
    BY <1>7, <1>9, WithinFrom DEF S
  <2> QED  BY <1>7, <1>9, <1>10, <1>11, <1>14, <2>1, TasksKept
<1>16. OwnerOK(r)'
  BY <1>2, <1>13, <1>14, LockFields DEF OwnerOK, Recovering
<1>17. RenewalOK(r)'
  BY <1>3 DEF RenewalOK
<1>18. ReportOK(r)'
  BY <1>0, <1>2, <1>14 DEF RuntimeOK, ReportOK
<1> QED  BY <1>0, <1>2, <1>10, <1>11, <1>12, <1>15, <1>16, <1>17, <1>18, Assemble DEF RuntimeOK

----------------------------------------------------------------------------
(* Recovery *)

\* What is open is interrupted.
LEMMA InterruptedIs ==
    ASSUME Types, JournalsOK, ended' = [a \in Actor |-> Interrupted(a)],
           open' = [a \in Actor |-> 0], UNCHANGED <<queue, accepted, sent>>
    PROVE  /\ JournalsOK' /\ ended' \in [Actor -> Seq(End)] /\ open' \in [Actor -> Int]
           /\ \A a \in Actor : open'[a] = 0
<1>1. ASSUME NEW a \in Actor
      PROVE  /\ ended'[a] \in Seq(End) /\ open'[a] = 0
             /\ JournalOK(a, queue'[a], open'[a], ended'[a], accepted'[a], sent')
  <2> DEFINE q == queue[a]
             o == open[a]
             e == ended[a]
             acc == accepted[a]
  <2>1. /\ q \in Seq(Int) /\ o \in Int /\ e \in Seq(End) /\ acc \in SUBSET Int /\ sent \in Int
        /\ JournalOK(a, q, o, e, acc, sent)
    BY <1>1 DEF Types, JournalsOK
  <2>2. ended'[a] = IF o = 0 THEN e ELSE Append(e, [turn |-> o, how |-> "interrupted"])
    BY <1>1 DEF Interrupted
  <2>3. open'[a] = 0 /\ queue'[a] = q /\ accepted'[a] = acc /\ sent' = sent
    BY <1>1
  <2> HIDE DEF q, o, e, acc
  <2>4. CASE o = 0
    BY <2>1, <2>2, <2>3, <2>4
  <2>5. CASE o # 0
    <3>1. "interrupted" \in How
      BY DEF How
    <3>2. LET s == Append(e, [turn |-> o, how |-> "interrupted"])
          IN  s \in Seq(End) /\ JournalOK(a, q, 0, s, acc, sent)
      BY <1>1, <2>1, <2>5, <3>1, JournalEnd
    <3> QED  BY <2>2, <2>3, <2>5, <3>2
  <2> QED  BY <2>4, <2>5
<1>2. DOMAIN ended' = Actor /\ DOMAIN open' = Actor
  OBVIOUS
<1>3. ended' \in [Actor -> Seq(End)] /\ open' \in [Actor -> Int]
  BY <1>1, <1>2
<1>4. Reports(ended'["child"], accepted'["parent"])
  <2> DEFINE e == ended["child"]
             o == open["child"]
             acc == accepted["parent"]
  <2>1. /\ e \in Seq(End) /\ o \in Int /\ Reports(e, acc)
        /\ o # 0 => Settled(e, acc)
    BY DEF Types, JournalsOK, Actor
  <2>2. ended'["child"] = IF o = 0 THEN e ELSE Append(e, [turn |-> o, how |-> "interrupted"])
    BY DEF Interrupted, Actor
  <2>3. accepted'["parent"] = acc
    OBVIOUS
  <2>4. [turn |-> o, how |-> "interrupted"] \in End
    BY <2>1 DEF End
  <2> HIDE DEF e, o, acc
  <2> QED  BY <2>1, <2>2, <2>3, <2>4, ReportsAppend
<1>5. open'["child"] = 0
  BY <1>1 DEF Actor
<1> QED  BY <1>1, <1>3, <1>4, <1>5 DEF JournalsOK

LEMMA RecoverInv ==
    ASSUME IInv, NEW r \in Runtime, Recover(r)
    PROVE  IInv'
<1>0. Types /\ JournalsOK /\ RuntimeOK(r)
  BY DEF IInv
<1>2. /\ UNCHANGED <<lease, queue, opener, accepted, sent, own, unrecovered, renewals, drains, delivered>>
      /\ ended' = [a \in Actor |-> Interrupted(a)]
      /\ open' = [a \in Actor |-> 0]
      /\ lock' = [lock EXCEPT ![r].at = "deliver"]
      /\ lock[r].at = "recover" /\ Fenced(r)
  BY DEF Recover, bounds
<1>3. /\ lock' \in [Runtime -> Locks] /\ lock'[r].at = "deliver"
      /\ \A u \in Runtime \ {r} : lock'[u] = lock[u]
  <2>1. lock[r] \in Locks
    BY <1>0 DEF Types
  <2>2. "deliver" \in Recovering \cup {"free", "apply", "release", "released"}
    BY DEF Recovering
  <2>3. [lock[r] EXCEPT !.at = "deliver"] \in Locks /\ [lock[r] EXCEPT !.at = "deliver"].at = "deliver"
    BY <2>1, <2>2, LockFields
  <2> QED  BY <1>0, <1>2, <2>3 DEF Types
<1>4. /\ JournalsOK' /\ ended' \in [Actor -> Seq(End)] /\ open' \in [Actor -> Int]
      /\ \A a \in Actor : open'[a] = 0
  BY <1>0, <1>2, InterruptedIs
<1>5. Types'
  BY <1>0, <1>2, <1>3, <1>4 DEF Types
<1>6. Grows
  BY <1>2 DEF Grows
<1>7. Frame(r)
  BY <1>2, <1>3, <1>6 DEF Frame, Fenced
<1>8. Runs(r) = {} /\ Runs(r)' = {} /\ r \in unrecovered
  BY <1>0, <1>2 DEF RuntimeOK, OwnerOK, Runs, Recovering, Fenced, Mine
<1>9. Shape(drains'[r]) /\ TakenOK(r)' /\ EngineOK(r)'
  BY <1>0, <1>2, <1>8 DEF RuntimeOK, TakenOK, EngineOK
<1>10. OwnerOK(r)'
  BY <1>0, <1>2, <1>3, <1>4, <1>8 DEF RuntimeOK, OwnerOK, Recovering
<1>11. RenewalOK(r)'
  BY <1>0, <1>2 DEF RuntimeOK, RenewalOK
<1>12. ReportOK(r)'
  BY <1>0, <1>2, <1>3 DEF RuntimeOK, ReportOK
<1> QED  BY <1>2, <1>4, <1>5, <1>7, <1>9, <1>10, <1>11, <1>12, Assemble DEF RuntimeOK, IInv

\* The child's turns have positive numbers.
LEMMA ChildTurns ==
    ASSUME Types, JournalsOK
    PROVE  /\ ended["child"] \in Seq(End)
           /\ \A i \in 1 .. Len(ended["child"]) : ended["child"][i].turn > 0
<1> DEFINE e == ended["child"]
           acc == accepted["child"]
<1>1. /\ e \in Seq(End) /\ acc \subseteq Int
      /\ JournalOK("child", queue["child"], open["child"], e, acc, sent)
  BY DEF Types, JournalsOK, Actor
<1> HIDE DEF e, acc
<1>2. \A i \in 1 .. Len(e) : e[i].turn \in Turns(e)
  BY <1>1, TurnsAre
<1>3. Turns(e) \subseteq acc /\ \A c \in acc : c > 0
  BY <1>1 DEF JournalOK
<1>4. \A i \in 1 .. Len(e) : e[i].turn > 0
  BY <1>2, <1>3
<1> QED  BY <1>1, <1>4 DEF e

\* Delivering changes the parent's journal as it should.
LEMMA Delivery ==
    ASSUME IInv, NEW r \in Runtime, NEW ends, ends \in {ended["child"], <<>>},
           NEW tasks \in SUBSET Drain, Shape(tasks),
           DeliverTo(r, ends, tasks), UNCHANGED <<open, opener, ended, sent>>
    PROVE  /\ queue' \in [Actor -> Seq(Int)] /\ accepted' \in [Actor -> SUBSET Int]
           /\ delivered' \in [Runtime -> Int]
           /\ JournalsOK' /\ Grows
           /\ delivered'[r] # 0 => delivered'[r] \in accepted'["parent"]
           /\ \A u \in Runtime \ {r} : delivered'[u] = delivered[u]
           /\ Settled(ends, accepted'["parent"])
           /\ drains' \in [Runtime -> SUBSET Drain]
           /\ \A u \in Runtime \ {r} : drains'[u] = drains[u]
           /\ Shape(drains'[r]) /\ From(drains'[r], tasks) /\ Looks(drains'[r], tasks)
<1>0. Types /\ JournalsOK /\ RuntimeOK(r)
  BY DEF IInv
<1>1. ends \in Seq(End) /\ \A i \in 1 .. Len(ends) : ends[i].turn > 0
  <2>1. <<>> \in Seq(End) /\ Len(<<>>) = 0
    OBVIOUS
  <2>2. \A i \in 1 .. 0 : FALSE
    OBVIOUS
  <2>3. CASE ends = <<>>
    BY <2>1, <2>2, <2>3
  <2> QED  BY <1>0, <2>3, ChildTurns
<1> DEFINE o == open["parent"]
           e == ended["parent"]
<1>2. /\ o \in Int /\ e \in Seq(End)
      /\ JournalOK("parent", queue["parent"], o, e, accepted["parent"], sent)
  BY <1>0 DEF Types, JournalsOK, Actor
<1>3. delivered[r] # 0 => delivered[r] \in accepted["parent"]
  BY <1>0 DEF RuntimeOK, ReportOK
<1> HIDE DEF o, e
<1>4. /\ queue' \in [Actor -> Seq(Int)] /\ accepted' \in [Actor -> SUBSET Int]
      /\ delivered' \in [Runtime -> Int]
      /\ queue'["child"] = queue["child"] /\ accepted'["child"] = accepted["child"]
      /\ JournalOK("parent", queue'["parent"], o, e, accepted'["parent"], sent)
      /\ Grows
      /\ delivered'[r] # 0 => delivered'[r] \in accepted'["parent"]
      /\ \A u \in Runtime \ {r} : delivered'[u] = delivered[u]
      /\ Settled(ends, accepted'["parent"])
      /\ \E T \in SUBSET Drain :
            /\ drains' = [drains EXCEPT ![r] = T]
            /\ Shape(T) /\ From(T, tasks) /\ Looks(T, tasks)
  BY <1>0, <1>1, <1>2, <1>3, DeliverIs
<1>5. PICK T \in SUBSET Drain :
            /\ drains' = [drains EXCEPT ![r] = T]
            /\ Shape(T) /\ From(T, tasks) /\ Looks(T, tasks)
  BY <1>4
<1>6. /\ drains' \in [Runtime -> SUBSET Drain] /\ drains'[r] = T
      /\ \A u \in Runtime \ {r} : drains'[u] = drains[u]
  BY <1>0, <1>5 DEF Types
<1>7. JournalsOK'
  <2>1. JournalOK("child", queue'["child"], open'["child"], ended'["child"], accepted'["child"], sent')
    BY <1>0, <1>4 DEF JournalsOK, Actor
  <2>2. JournalOK("parent", queue'["parent"], open'["parent"], ended'["parent"], accepted'["parent"], sent')
    BY <1>4 DEF o, e
  <2>3. accepted["parent"] \subseteq accepted'["parent"]
    BY <1>4 DEF Grows, Actor
  <2>4. Reports(ended'["child"], accepted'["parent"])
    BY <1>0, <2>3, ReportsGrow, ChildTurns DEF JournalsOK
  <2>5. open'["child"] # 0 => Settled(ended'["child"], accepted'["parent"])
    BY <1>0, <2>3, ReportsGrow, ChildTurns DEF JournalsOK
  <2> QED  BY <2>1, <2>2, <2>4, <2>5 DEF JournalsOK, Actor
<1> QED  BY <1>4, <1>5, <1>6, <1>7

LEMMA RecoveryDeliversInv ==
    ASSUME IInv, NEW r \in Runtime, RecoveryDelivers(r)
    PROVE  IInv'
<1>0. Types /\ JournalsOK /\ RuntimeOK(r)
  BY DEF IInv
<1>2. /\ UNCHANGED <<lease, opener, open, ended, sent, own, unrecovered, renewals>>
      /\ DeliverTo(r, ended["child"], drains[r])
      /\ lock' = [lock EXCEPT ![r] = [@ EXCEPT !.at = "activate", !.todo = Actor]]
      /\ lock[r].at = "deliver" /\ Fenced(r)
  BY DEF RecoveryDelivers, bounds
<1>3. /\ lock' \in [Runtime -> Locks] /\ lock'[r].at = "activate"
      /\ \A u \in Runtime \ {r} : lock'[u] = lock[u]
  <2>1. lock[r] \in Locks
    BY <1>0 DEF Types
  <2>2. LET l == [lock[r] EXCEPT !.at = "activate", !.todo = Actor]
        IN  l \in Locks /\ l.at = "activate"
    BY <2>1 DEF Locks, Recovering
  <2> QED  BY <1>0, <1>2, <2>2 DEF Types
<1>4. drains[r] \in SUBSET Drain /\ Shape(drains[r])
  BY <1>0 DEF Types, RuntimeOK
<1>5. /\ queue' \in [Actor -> Seq(Int)] /\ accepted' \in [Actor -> SUBSET Int]
      /\ delivered' \in [Runtime -> Int]
      /\ JournalsOK' /\ Grows
      /\ delivered'[r] # 0 => delivered'[r] \in accepted'["parent"]
      /\ \A u \in Runtime \ {r} : delivered'[u] = delivered[u]
      /\ Settled(ended["child"], accepted'["parent"])
      /\ drains' \in [Runtime -> SUBSET Drain]
      /\ \A u \in Runtime \ {r} : drains'[u] = drains[u]
      /\ Shape(drains'[r]) /\ From(drains'[r], drains[r]) /\ Looks(drains'[r], drains[r])
  BY <1>2, <1>4, Delivery
<1>6. Types'
  BY <1>0, <1>2, <1>3, <1>5 DEF Types
<1>7. Frame(r)
  BY <1>2, <1>3, <1>5 DEF Frame, Fenced
<1>8. /\ TakenOK(r)' /\ EngineOK(r)'
      /\ Runs(r) = {} => Runs(r)' = {}
  BY <1>2, <1>5, <1>6, TasksKept DEF Mine
<1>9. r \in unrecovered /\ Mine(r) /\ Runs(r) = {} /\ \A a \in Actor : open[a] = 0
  BY <1>0, <1>2 DEF RuntimeOK, OwnerOK, Recovering, Fenced, Mine
<1>10. OwnerOK(r)'
  BY <1>2, <1>3, <1>8, <1>9 DEF OwnerOK, Recovering
<1>11. RenewalOK(r)'
  BY <1>0, <1>2 DEF RuntimeOK, RenewalOK
<1>12. ReportOK(r)'
  BY <1>2, <1>5 DEF ReportOK
<1> QED  BY <1>2, <1>5, <1>6, <1>7, <1>8, <1>10, <1>11, <1>12, Assemble DEF RuntimeOK, IInv

LEMMA RecoveryActivatesInv ==
    ASSUME IInv, NEW r \in Runtime, NEW a \in Actor, RecoveryActivates(r, a)
    PROVE  IInv'
<1>0. Types /\ JournalsOK /\ RuntimeOK(r)
  BY DEF IInv
<1>2. /\ UNCHANGED <<lease, queue, open, opener, ended, accepted, sent, own, unrecovered, renewals, delivered>>
      /\ drains' = [drains EXCEPT ![r] = IF queue[a] = <<>> THEN @ ELSE Activated(r, @, a)]
      /\ lock' = [lock EXCEPT ![r].todo = @ \ {a}]
      /\ lock[r].at = "activate" /\ Fenced(r)
  BY DEF RecoveryActivates, bounds, journal
<1>3. /\ lock' \in [Runtime -> Locks] /\ lock'[r].at = "activate"
      /\ \A u \in Runtime \ {r} : lock'[u] = lock[u]
  <2>1. lock[r] \in Locks
    BY <1>0 DEF Types
  <2>2. LET l == [lock[r] EXCEPT !.todo = @ \ {a}]
        IN  l \in Locks /\ l.at = "activate"
    BY <1>2, <2>1 DEF Locks
  <2> QED  BY <1>0, <1>2, <2>2 DEF Types
<1>4. drains[r] \in SUBSET Drain /\ Shape(drains[r])
  BY <1>0 DEF Types, RuntimeOK
<1> DEFINE T == IF queue[a] = <<>> THEN drains[r] ELSE Activated(r, drains[r], a)
<1>5. T \in SUBSET Drain /\ Shape(T) /\ From(T, drains[r]) /\ Looks(T, drains[r])
  BY <1>4, ActivatedIs, SameTasks
<1>6. drains' = [drains EXCEPT ![r] = T]
  BY <1>2
<1> HIDE DEF T
<1>7. /\ drains' \in [Runtime -> SUBSET Drain] /\ drains'[r] = T
      /\ \A u \in Runtime \ {r} : drains'[u] = drains[u]
  BY <1>0, <1>5, <1>6 DEF Types
<1>8. Types'
  BY <1>0, <1>2, <1>3, <1>7 DEF Types
<1>9. JournalsOK' /\ Grows
  BY <1>0, <1>2, JournalsSame
<1>10. Frame(r)
  BY <1>2, <1>3, <1>7, <1>9 DEF Frame
<1>11. /\ TakenOK(r)' /\ EngineOK(r)'
       /\ Runs(r) = {} => Runs(r)' = {}
  BY <1>2, <1>5, <1>7, <1>8, <1>9, TasksKept DEF Mine
<1>12. r \in unrecovered /\ Mine(r) /\ Runs(r) = {} /\ \A b \in Actor : open[b] = 0
  BY <1>0, <1>2 DEF RuntimeOK, OwnerOK, Recovering, Fenced, Mine
<1>13. OwnerOK(r)'
  BY <1>2, <1>3, <1>11, <1>12 DEF OwnerOK, Recovering
<1>14. RenewalOK(r)'
  BY <1>0, <1>2 DEF RuntimeOK, RenewalOK
<1>15. ReportOK(r)'
  BY <1>0, <1>2, <1>5, <1>7 DEF RuntimeOK, ReportOK, Looks
<1> QED  BY <1>2, <1>5, <1>7, <1>8, <1>9, <1>10, <1>11, <1>13, <1>14, <1>15, Assemble DEF RuntimeOK, IInv

\* Only the root lock and what is recovered change.
LEMMA RecoveredInv ==
    ASSUME IInv, NEW r \in Runtime, Recovered(r)
    PROVE  IInv'
<1>0. Types /\ JournalsOK /\ RuntimeOK(r)
  BY DEF IInv
<1>2. /\ UNCHANGED <<lease, queue, open, opener, ended, accepted, sent, own, renewals, drains, delivered>>
      /\ unrecovered' = unrecovered \ {r}
      /\ lock' = [lock EXCEPT ![r] =
                     IF @.request = "none" THEN Free ELSE [@ EXCEPT !.at = "apply"]]
      /\ lock[r].at = "activate"
  BY DEF Recovered, bounds, journal
<1>3. /\ lock' \in [Runtime -> Locks] /\ lock'[r].at \in {"free", "apply"}
      /\ lock'[r].at = "apply" => lock'[r].request # "none"
      /\ \A u \in Runtime \ {r} : lock'[u] = lock[u]
  <2>1. lock[r] \in Locks
    BY <1>0 DEF Types
  <2> DEFINE l == IF lock[r].request = "none" THEN Free ELSE [lock[r] EXCEPT !.at = "apply"]
  <2>2. l \in Locks /\ l.at \in {"free", "apply"} /\ (l.at = "apply" => l.request # "none")
    BY <2>1, LockFields
  <2>3. lock' = [lock EXCEPT ![r] = l]
    BY <1>2
  <2> HIDE DEF l
  <2> QED  BY <1>0, <2>2, <2>3 DEF Types
<1>4. Types'
  BY <1>0, <1>2, <1>3 DEF Types
<1>5. JournalsOK' /\ Grows
  BY <1>0, <1>2, JournalsSame
<1>6. Frame(r)
  BY <1>2, <1>3, <1>5 DEF Frame
<1>7. (Mine(r)' <=> Mine(r)) /\ (Fenced(r)' <=> Fenced(r))
  BY <1>2 DEF Mine, Fenced
<1>8. Shape(drains'[r]) /\ TakenOK(r)' /\ EngineOK(r)' /\ RenewalOK(r)'
  BY <1>0, <1>2, <1>7 DEF RuntimeOK, TakenOK, EngineOK, Runs, RenewalOK
<1>9. OwnerOK(r)'
  BY <1>0, <1>2, <1>3, <1>7 DEF RuntimeOK, OwnerOK, Runs, Recovering
<1>10. ReportOK(r)'
  BY <1>0, <1>2, <1>3, <1>7 DEF RuntimeOK, ReportOK
<1> QED  BY <1>2, <1>4, <1>5, <1>6, <1>8, <1>9, <1>10, Assemble DEF RuntimeOK, IInv

\* The lease is given up and the ownership forgotten, by a runtime that runs no turn.
LEMMA GivenUp ==
    ASSUME IInv, NEW r \in Runtime,
           lease' = [lease EXCEPT !.owner = NoOne, !.valid = FALSE],
           UNCHANGED <<queue, open, opener, ended, accepted, sent, drains, delivered>>,
           ForgetOwnership(r), Runs(r) = {},
           lock' = [lock EXCEPT ![r] = Free],
           \A u \in Runtime \ {r} : u \in unrecovered' <=> u \in unrecovered
    PROVE  IInv'
<1>0. Types /\ JournalsOK /\ RuntimeOK(r)
  BY DEF IInv
<1>1. lease' \in Leases /\ lease'.owner = NoOne /\ ~lease'.valid
  BY <1>0, LeaseFields DEF Types
<1>2. /\ own' = [own EXCEPT ![r] = 0]
      /\ renewals' = [renewals EXCEPT ![r] = {}]
  BY DEF ForgetOwnership
<1>3. /\ own' \in [Runtime -> Nat] /\ own'[r] = 0
      /\ renewals' \in [Runtime -> SUBSET Renewal] /\ renewals'[r] = {}
      /\ lock' \in [Runtime -> Locks] /\ lock'[r].at = "free"
      /\ \A u \in Runtime \ {r} :
            own'[u] = own[u] /\ renewals'[u] = renewals[u] /\ lock'[u] = lock[u]
  BY <1>0, <1>2, LockFields DEF Types
<1>4. Types'
  BY <1>0, <1>1, <1>3 DEF Types
<1>5. JournalsOK' /\ Grows
  BY <1>0, JournalsSame
<1>6. Frame(r)
  BY <1>1, <1>3, <1>5 DEF Frame
<1>7. ~Mine(r)' /\ ~Fenced(r)'
  BY <1>1, TakeoverAssumption DEF Mine, Fenced
<1>8. Shape(drains'[r]) /\ TakenOK(r)' /\ EngineOK(r)' /\ RenewalOK(r)'
  BY <1>0, <1>3, <1>7 DEF RuntimeOK, TakenOK, EngineOK, RenewalOK
<1>9. OwnerOK(r)'
  BY <1>0, <1>3, <1>7 DEF RuntimeOK, OwnerOK, Runs, Recovering
<1>10. ReportOK(r)'
  BY <1>0, <1>7 DEF RuntimeOK, ReportOK
<1> QED  BY <1>1, <1>4, <1>5, <1>6, <1>8, <1>9, <1>10, Assemble DEF RuntimeOK

\* Only the root lock of a runtime is given back.
LEMMA Unlocks ==
    ASSUME IInv, NEW r \in Runtime,
           UNCHANGED <<lease, queue, open, opener, ended, accepted, sent, own, unrecovered,
                       renewals, drains, delivered>>,
           lock' = [lock EXCEPT ![r] = Free],
           r \in unrecovered /\ Fenced(r) => drains[r] = {},
           Fenced(r) /\ lock[r].at \in {"recover", "deliver"} => drains[r] = {}
    PROVE  IInv'
<1>0. Types /\ JournalsOK /\ RuntimeOK(r)
  BY DEF IInv
<1>3. /\ lock' \in [Runtime -> Locks] /\ lock'[r].at = "free"
      /\ \A u \in Runtime \ {r} : lock'[u] = lock[u]
  BY <1>0, LockFields DEF Types
<1>4. Types'
  BY <1>0, <1>3 DEF Types
<1>5. JournalsOK' /\ Grows
  BY <1>0, JournalsSame
<1>6. Frame(r)
  BY <1>3, <1>5 DEF Frame
<1>7. (Mine(r)' <=> Mine(r)) /\ (Fenced(r)' <=> Fenced(r))
  BY DEF Mine, Fenced
<1>8. Shape(drains'[r]) /\ TakenOK(r)' /\ EngineOK(r)' /\ RenewalOK(r)'
  BY <1>0, <1>7 DEF RuntimeOK, TakenOK, EngineOK, Runs, RenewalOK
<1>9. OwnerOK(r)'
  BY <1>0, <1>3, <1>7 DEF RuntimeOK, OwnerOK, Runs, Recovering
<1>10. ReportOK(r)'
  BY <1>0, <1>3, <1>7 DEF RuntimeOK, ReportOK
<1> QED  BY <1>4, <1>5, <1>6, <1>8, <1>9, <1>10, Assemble DEF RuntimeOK, IInv

LEMMA RecoveryFailsInv ==
    ASSUME IInv, NEW r \in Runtime, RecoveryFails(r), LateFaults = FALSE
    PROVE  IInv'
<1>0. RuntimeOK(r)
  BY DEF IInv
<1>1. /\ UNCHANGED <<queue, open, opener, ended, accepted, sent, drains, delivered>>
      /\ lock' = [lock EXCEPT ![r] = Free]
      /\ lock[r].at \in Recovering
      /\ drains[r] = {} \/ ~Fenced(r)
  BY DEF RecoveryFails, journal, Recovering
<1>2. CASE lock[r].request = "none" /\ Fenced(r) /\ Idle
  <2>1. /\ lease' = [lease EXCEPT !.owner = NoOne, !.valid = FALSE]
        /\ ForgetOwnership(r)
        /\ unrecovered' = unrecovered \ {r}
    BY <1>2 DEF RecoveryFails
  <2>2. Runs(r) = {}
    BY <1>1, <1>2 DEF Runs
  <2> QED  BY <1>1, <2>1, <2>2, GivenUp
<1>3. CASE ~(lock[r].request = "none" /\ Fenced(r) /\ Idle)
  <2>1. UNCHANGED <<lease, own, renewals, unrecovered>>
    BY <1>3 DEF RecoveryFails
  <2> QED  BY <1>1, <2>1, Unlocks
<1> QED  BY <1>2, <1>3

LEMMA RequestRecoversInv ==
    ASSUME IInv, NEW r \in Runtime, NEW a \in Actor, RequestRecovers(r, a)
    PROVE  IInv'
<1>0. Types /\ JournalsOK /\ RuntimeOK(r)
  BY DEF IInv
<1>2. /\ UNCHANGED <<lease, queue, open, opener, ended, accepted, sent, own, unrecovered, drains, delivered>>
      /\ renewals' = [renewals EXCEPT ![r] =
                         IF @ = {} THEN {[generation |-> own[r], failed |-> FALSE]} ELSE @]
      /\ lock' = [lock EXCEPT ![r] = [at |-> "recover", todo |-> {}, request |-> a]]
      /\ r \in unrecovered /\ own[r] # 0 /\ lock[r] = Free
  BY DEF RequestRecovers, Begins, bounds, journal, Unlocked
<1>3. /\ lock' \in [Runtime -> Locks] /\ lock'[r].at = "recover"
      /\ \A u \in Runtime \ {r} : lock'[u] = lock[u]
  BY <1>0, <1>2, LockFields DEF Types
<1>4. own[r] \in Nat
  BY <1>0 DEF Types
<1>5. [generation |-> own[r], failed |-> FALSE] \in Renewal
  BY <1>4 DEF Renewal
<1>6. /\ renewals' \in [Runtime -> SUBSET Renewal]
      /\ renewals'[r] \in {renewals[r], {[generation |-> own[r], failed |-> FALSE]}}
      /\ \A u \in Runtime \ {r} : renewals'[u] = renewals[u]
  BY <1>0, <1>2, <1>5 DEF Types
<1>7. Types'
  BY <1>0, <1>2, <1>3, <1>6 DEF Types
<1>8. JournalsOK' /\ Grows
  BY <1>0, <1>2, JournalsSame
<1>9. Frame(r)
  BY <1>2, <1>3, <1>6, <1>8 DEF Frame
<1>10. RenewalOK(r)'
  <2>1. CASE renewals'[r] = renewals[r]
    BY <1>0, <1>2, <2>1 DEF RuntimeOK, RenewalOK
  <2>2. CASE renewals'[r] = {[generation |-> own[r], failed |-> FALSE]}
    <3>1. [generation |-> own[r], failed |-> FALSE].generation = own[r]
      BY <1>4
    <3> QED  BY <1>2, <2>2, <3>1 DEF RenewalOK
  <2> QED  BY <1>6, <2>1, <2>2
<1>11. (Mine(r)' <=> Mine(r)) /\ (Fenced(r)' <=> Fenced(r))
  BY <1>2 DEF Mine, Fenced
<1>12. Shape(drains'[r]) /\ TakenOK(r)' /\ EngineOK(r)'
  BY <1>0, <1>2, <1>11 DEF RuntimeOK, TakenOK, EngineOK, Runs
<1>13. OwnerOK(r)'
  BY <1>0, <1>2, <1>3, <1>11 DEF RuntimeOK, OwnerOK, Runs, Recovering
<1>14. ReportOK(r)'
  BY <1>0, <1>2, <1>3 DEF RuntimeOK, ReportOK
<1> QED  BY <1>2, <1>7, <1>8, <1>9, <1>10, <1>12, <1>13, <1>14, Assemble DEF RuntimeOK, IInv

----------------------------------------------------------------------------
(* Requests *)

LEMMA AcceptInv ==
    ASSUME IInv, NEW r \in Runtime, NEW a \in Actor, Accept(r, a),
           r \notin unrecovered, lock[r].at \in {"free", "apply"}
    PROVE  IInv'
<1>0. Types /\ JournalsOK /\ RuntimeOK(r)
  BY DEF IInv
<1> DEFINE c == sent + 1
<1>1. /\ UNCHANGED <<lease, opener, open, ended, own, unrecovered, renewals, delivered>>
      /\ sent' = c
      /\ queue' = [queue EXCEPT ![a] = Append(@, c)]
      /\ accepted' = [accepted EXCEPT ![a] = @ \cup {c}]
      /\ drains' = [drains EXCEPT ![r] = Activated(r, @, a)]
      /\ lock' = [lock EXCEPT ![r] = [Free EXCEPT !.at = "release"]]
      /\ lease.owner = r
  BY DEF Accept
<1>2. c \in Nat /\ c > sent /\ sent \in Nat /\ c # 0
  BY <1>0 DEF Types
<1> HIDE DEF c
<1>3. \A b \in Actor :
         /\ queue[b] \in Seq(Int) /\ open[b] \in Int /\ ended[b] \in Seq(End)
         /\ accepted[b] \in SUBSET Int
         /\ JournalOK(b, queue[b], open[b], ended[b], accepted[b], sent)
  BY <1>0 DEF Types, JournalsOK
<1>4. c \notin accepted[a]
  BY <1>2, <1>3 DEF JournalOK
<1>5. /\ JournalOK(a, Append(queue[a], c), open[a], ended[a], accepted[a] \cup {c}, c)
      /\ Append(queue[a], c) \in Seq(Int)
      /\ \A x \in accepted[a] : x \in Range(Append(queue[a], c)) => x \in Range(queue[a])
  <2> DEFINE q == queue[a]
             o == open[a]
             e == ended[a]
             acc == accepted[a]
  <2>1. /\ q \in Seq(Int) /\ o \in Int /\ e \in Seq(End) /\ acc \in SUBSET Int
        /\ JournalOK(a, q, o, e, acc, sent) /\ c \notin acc
    BY <1>3, <1>4
  <2>2. c \in Int /\ sent \in Int /\ sent <= c /\ c <= c /\ c # 0 /\ (a = "child" => c > 0)
    BY <1>2
  <2> HIDE DEF q, o, e, acc
  <2>3. /\ JournalOK(a, Append(q, c), o, e, acc \cup {c}, c)
        /\ Append(q, c) \in Seq(Int)
        /\ \A x \in acc : x \in Range(Append(q, c)) => x \in Range(q)
    BY <2>1, <2>2, JournalEnqueue
  <2> QED  BY <2>3 DEF q, o, e, acc
<1>6. /\ queue' \in [Actor -> Seq(Int)] /\ accepted' \in [Actor -> SUBSET Int]
      /\ queue'[a] = Append(queue[a], c) /\ accepted'[a] = accepted[a] \cup {c}
      /\ \A b \in Actor \ {a} : queue'[b] = queue[b] /\ accepted'[b] = accepted[b]
  BY <1>0, <1>1, <1>2, <1>5 DEF Types
<1>7. Grows
  BY <1>5, <1>6 DEF Grows
<1>8. JournalsOK'
  <2>1. \A b \in Actor : JournalOK(b, queue'[b], open'[b], ended'[b], accepted'[b], sent')
    <3> TAKE b \in Actor
    <3>1. CASE b = a
      BY <1>1, <1>5, <1>6, <3>1
    <3>2. CASE b # a
      <4>1. JournalOK(b, queue[b], open[b], ended[b], accepted[b], c)
        <5>1. sent \in Int /\ c \in Int /\ sent <= c
          BY <1>2
        <5> QED  BY <1>3, <5>1, JournalLater
      <4> QED  BY <1>1, <1>6, <3>2, <4>1
    <3> QED  BY <3>1, <3>2
  <2>2. accepted["parent"] \subseteq accepted'["parent"] /\ ended["child"] \in Seq(End)
    BY <1>3, <1>7 DEF Grows, Actor
  <2>3. /\ Reports(ended["child"], accepted'["parent"])
        /\ open["child"] # 0 => Settled(ended["child"], accepted'["parent"])
    BY <1>0, <2>2, ReportsGrow DEF JournalsOK
  <2> QED  BY <1>1, <2>1, <2>3 DEF JournalsOK
<1>9. drains[r] \in SUBSET Drain /\ Shape(drains[r])
  BY <1>0 DEF Types, RuntimeOK
<1> DEFINE T == Activated(r, drains[r], a)
<1>10. T \in SUBSET Drain /\ Shape(T) /\ From(T, drains[r]) /\ Looks(T, drains[r])
  BY <1>9, ActivatedIs
<1>11. drains' = [drains EXCEPT ![r] = T]
  BY <1>1
<1> HIDE DEF T
<1>12. /\ drains' \in [Runtime -> SUBSET Drain] /\ drains'[r] = T
       /\ \A u \in Runtime \ {r} : drains'[u] = drains[u]
  BY <1>0, <1>10, <1>11 DEF Types
<1>13. /\ lock' \in [Runtime -> Locks] /\ lock'[r].at = "release"
       /\ \A u \in Runtime \ {r} : lock'[u] = lock[u]
  BY <1>0, <1>1, LockFields DEF Types
<1>14. Types'
  BY <1>0, <1>1, <1>2, <1>6, <1>12, <1>13 DEF Types
<1>15. Frame(r)
  BY <1>1, <1>7, <1>12, <1>13 DEF Frame
<1>16. (Mine(r)' <=> Mine(r)) /\ (Fenced(r)' <=> Fenced(r))
  BY <1>1 DEF Mine, Fenced
<1>17. /\ TakenOK(r)' /\ EngineOK(r)'
       /\ Runs(r) = {} => Runs(r)' = {}
  BY <1>1, <1>7, <1>10, <1>12, <1>14, <1>16, TasksKept
<1>18. OwnerOK(r)'
  BY <1>0, <1>1, <1>13, <1>16, <1>17 DEF RuntimeOK, OwnerOK, Recovering
<1>19. RenewalOK(r)'
  BY <1>0, <1>1 DEF RuntimeOK, RenewalOK
<1>20. ReportOK(r)'
  <2>1. accepted["parent"] \subseteq accepted'["parent"] /\ ended["child"] \in Seq(End)
    BY <1>3, <1>7 DEF Grows, Actor
  <2>2. Settled(ended["child"], accepted["parent"]) => Settled(ended["child"], accepted'["parent"])
    BY <2>1, ReportsGrow
  <2>3. delivered[r] # 0 => delivered[r] \in accepted["parent"]
    BY <1>0 DEF RuntimeOK, ReportOK
  <2>4. Looks(drains'[r], drains[r])
    BY <1>10, <1>12
  <2> QED  BY <1>1, <2>1, <2>2, <2>3, <2>4, ReportKept
<1> QED  BY <1>1, <1>8, <1>10, <1>12, <1>14, <1>15, <1>17, <1>18, <1>19, <1>20, Assemble DEF RuntimeOK, IInv

LEMMA HandleRequestInv ==
    ASSUME IInv, NEW r \in Runtime, NEW a \in Actor, HandleRequest(r, a)
    PROVE  IInv'
  BY AcceptInv, LockFields DEF HandleRequest, Unlocked

LEMMA ApplyRequestInv ==
    ASSUME IInv, NEW r \in Runtime, ApplyRequest(r)
    PROVE  IInv'
<1>1. lock[r].at = "apply" /\ lock[r] \in Locks
  BY DEF ApplyRequest, IInv, Types
<1>2. r \notin unrecovered /\ lock[r].request \in Actor
  BY <1>1 DEF IInv, RuntimeOK, OwnerOK, Locks
<1>3. CASE Accept(r, lock[r].request)
  BY <1>1, <1>2, <1>3, AcceptInv
<1>4. CASE /\ lock' = [lock EXCEPT ![r] = Free]
           /\ UNCHANGED <<lease, journal, bounds, own, unrecovered, renewals, drains,
                          delivered, failedStart, closing, up>>
  <2>1. UNCHANGED <<lease, queue, open, opener, ended, accepted, sent, own, unrecovered,
                       renewals, drains, delivered>>
    BY <1>4 DEF journal, bounds
  <2> QED  BY <1>1, <1>2, <1>4, <2>1, Unlocks
<1> QED  BY <1>3, <1>4 DEF ApplyRequest

\* The journals of a cancellation.
LEMMA EndTargetsIs ==
    ASSUME Types, JournalsOK, NEW A \in SUBSET Actor, "child" \in A,
           NEW how \in {"cancelled", "cancelled_by_parent"},
           EndTargets(A, how), UNCHANGED <<accepted, sent>>
    PROVE  /\ queue' \in [Actor -> Seq(Int)] /\ open' \in [Actor -> Int]
           /\ ended' \in [Actor -> Seq(End)]
           /\ JournalsOK' /\ Grows
           /\ \A a \in A : open'[a] = 0
           /\ \A a \in Actor \ A : open'[a] = open[a]
           /\ Settled(ended["child"], accepted["parent"])
                 => Settled(ended'["child"], accepted'["parent"])
<1>1. how \in How
  BY DEF How
<1>2. /\ ended' = [a \in Actor |-> IF a \in A THEN ended[a] \o Ending(Targets(a), how) ELSE ended[a]]
      /\ queue' = [a \in Actor |-> IF a \in A THEN <<>> ELSE queue[a]]
      /\ open' = [a \in Actor |-> IF a \in A THEN 0 ELSE open[a]]
  BY DEF EndTargets
<1>3. ASSUME NEW a \in Actor
      PROVE  /\ queue'[a] \in Seq(Int) /\ open'[a] \in Int /\ ended'[a] \in Seq(End)
             /\ JournalOK(a, queue'[a], open'[a], ended'[a], accepted'[a], sent')
             /\ \A c \in Range(queue'[a]) : c \in Range(queue[a])
             /\ a \in A => open'[a] = 0
             /\ a \notin A => open'[a] = open[a]
  <2> DEFINE q == queue[a]
             o == open[a]
             e == ended[a]
             acc == accepted[a]
  <2>1. /\ q \in Seq(Int) /\ o \in Int /\ e \in Seq(End) /\ acc \in SUBSET Int /\ sent \in Int
        /\ JournalOK(a, q, o, e, acc, sent)
    BY <1>3 DEF Types, JournalsOK
  <2>2. Targets(a) = Doomed(q, o)
    BY DEF Targets, Doomed
  <2>3. CASE a \in A
    <3>1. /\ queue'[a] = <<>> /\ open'[a] = 0 /\ ended'[a] = e \o Ending(Doomed(q, o), how)
          /\ accepted'[a] = acc /\ sent' = sent
      BY <1>2, <1>3, <2>2, <2>3
    <3> HIDE DEF q, o, e, acc
    <3>2. LET s == e \o Ending(Doomed(q, o), how)
          IN  s \in Seq(End) /\ JournalOK(a, <<>>, 0, s, acc, sent)
      BY <1>1, <1>3, <2>1, JournalCancel
    <3>3. Range(<<>>) = {} /\ <<>> \in Seq(Int)
      BY DEF Range
    <3> QED  BY <2>3, <3>1, <3>2, <3>3
  <2>4. CASE a \notin A
    <3>1. /\ queue'[a] = q /\ open'[a] = o /\ ended'[a] = e
          /\ accepted'[a] = acc /\ sent' = sent
      BY <1>2, <1>3, <2>4
    <3> QED  BY <2>1, <2>4, <3>1
  <2> QED  BY <2>3, <2>4
<1>4. /\ queue' \in [Actor -> Seq(Int)] /\ open' \in [Actor -> Int]
      /\ ended' \in [Actor -> Seq(End)]
  <2>1. DOMAIN queue' = Actor /\ DOMAIN open' = Actor /\ DOMAIN ended' = Actor
    BY <1>2
  <2>2. queue' = [a \in Actor |-> queue'[a]] /\ open' = [a \in Actor |-> open'[a]]
        /\ ended' = [a \in Actor |-> ended'[a]]
    BY <1>2
  <2> QED  BY <1>3, <2>2
<1>5. Grows
  BY <1>3 DEF Grows
<1>6. /\ Reports(ended'["child"], accepted'["parent"])
      /\ Settled(ended["child"], accepted["parent"]) => Settled(ended'["child"], accepted'["parent"])
      /\ open'["child"] = 0
  <2> DEFINE e == ended["child"]
             d == Doomed(queue["child"], open["child"])
             acc == accepted["parent"]
  <2>1. /\ queue["child"] \in Seq(Int) /\ open["child"] \in Int /\ e \in Seq(End)
        /\ accepted["child"] \in SUBSET Int /\ sent \in Int
        /\ JournalOK("child", queue["child"], open["child"], e, accepted["child"], sent)
        /\ Reports(e, acc) /\ "child" \in Actor
    BY DEF Types, JournalsOK, Actor
  <2>2. d \in Seq(Int)
    BY <2>1, DoomedAre
  <2>3. ended'["child"] = e \o Ending(d, how) /\ accepted'["parent"] = acc
    BY <1>2, <2>1 DEF Targets, Doomed
  <2> HIDE DEF e, d, acc
  <2>4. /\ Reports(e \o Ending(d, how), acc)
        /\ Settled(e, acc) => Settled(e \o Ending(d, how), acc)
    BY <2>1, <2>2, ReportsCancel
  <2> QED  BY <1>3, <2>1, <2>3, <2>4 DEF e, acc
<1>7. JournalsOK'
  BY <1>3, <1>6 DEF JournalsOK
<1> QED  BY <1>3, <1>4, <1>5, <1>6, <1>7

\* A cancellation under the lease of a recovered root stops the turns it ends.
LEMMA CancelsInv ==
    ASSUME IInv, NEW r \in Runtime, NEW A \in SUBSET Actor, "child" \in A,
           NEW how \in {"cancelled", "cancelled_by_parent"},
           EndTargets(A, how), CancelLocal(r, A), lease.owner = r, r \notin unrecovered,
           UNCHANGED <<lease, opener, accepted, sent, own, unrecovered, renewals, delivered>>,
           lock[r] = Free,
           lock' \in {lock, [lock EXCEPT ![r] = [Free EXCEPT !.at = "release"]]}
    PROVE  IInv'
<1>0. Types /\ JournalsOK /\ RuntimeOK(r)
  BY DEF IInv
<1>1. /\ queue' \in [Actor -> Seq(Int)] /\ open' \in [Actor -> Int]
      /\ ended' \in [Actor -> Seq(End)]
      /\ JournalsOK' /\ Grows
      /\ \A a \in A : open'[a] = 0
      /\ \A a \in Actor \ A : open'[a] = open[a]
      /\ Settled(ended["child"], accepted["parent"])
            => Settled(ended'["child"], accepted'["parent"])
  BY <1>0, EndTargetsIs
<1> DEFINE S == drains[r]
           W == {d \in LiveDrains(r) : d.actor \in A /\ Targets(d.actor) # <<>>
                               /\ (d.turn = 0 \/ d.turn \in Range(Targets(d.actor)))}
           T == Cancelled(S, W)
<1>2. S \in SUBSET Drain /\ Shape(S) /\ W \in SUBSET S
  BY <1>0 DEF Types, RuntimeOK, LiveDrains
<1>3. /\ T \in SUBSET Drain /\ Shape(T) /\ Within(T, S) /\ Looks(T, S)
      /\ \A d \in T : d.at = "run" \/ d.live => d \in S \ W
  BY <1>2, CancelledIs
<1>4. drains' = [drains EXCEPT ![r] = T]
  BY DEF CancelLocal
<1>5. Mine(r) => \A d \in T : d.at = "run" => d.actor \notin A
  <2> SUFFICES ASSUME Mine(r), NEW d \in T, d.at = "run", d.actor \in A PROVE FALSE
    OBVIOUS
  <2> DEFINE b == d.actor
             q == queue[b]
             o == open[b]
             e == ended[b]
             acc == accepted[b]
  <2>1. d \in S /\ d \notin W
    BY <1>3
  <2>2. o = d.turn /\ d.turn # 0 /\ d \in LiveDrains(r)
    BY <1>0, <2>1 DEF RuntimeOK, EngineOK, Runs, Shape, Working, LiveDrains
  <2>3. /\ b \in Actor /\ q \in Seq(Int) /\ o \in Int /\ e \in Seq(End)
        /\ acc \in SUBSET Int /\ sent \in Int
        /\ JournalOK(b, q, o, e, acc, sent)
    BY <1>0 DEF Types, JournalsOK
  <2>4. Targets(b) = Doomed(q, o)
    BY DEF Targets, Doomed
  <2> HIDE DEF q, o, e, acc
  <2>6. o # 0 => o \in Range(Doomed(q, o)) /\ Doomed(q, o) # <<>>
    <3> HIDE DEF b
    <3> QED  BY <2>3, DoomedAre
  <2>5. d.turn \in Range(Targets(b)) /\ Targets(b) # <<>>
    BY <2>2, <2>4, <2>6
  <2> QED  BY <2>1, <2>2, <2>5 DEF b
<1> HIDE DEF S, T, W
<1>6. /\ drains' \in [Runtime -> SUBSET Drain] /\ drains'[r] = T
      /\ \A u \in Runtime \ {r} : drains'[u] = drains[u]
  BY <1>0, <1>3, <1>4 DEF Types
<1>7. /\ lock' \in [Runtime -> Locks] /\ lock'[r].at \in {"free", "release"}
      /\ \A u \in Runtime \ {r} : lock'[u] = lock[u]
  <2>1. lock \in [Runtime -> Locks] /\ lock[r].at = "free"
    BY <1>0, LockFields DEF Types
  <2>2. CASE lock' = lock
    BY <2>1, <2>2
  <2>3. CASE lock' = [lock EXCEPT ![r] = [Free EXCEPT !.at = "release"]]
    BY <2>1, <2>3, LockFields
  <2> QED  BY <2>2, <2>3
<1>8. Types'
  BY <1>0, <1>1, <1>6, <1>7 DEF Types
<1>9. Frame(r)
  BY <1>1, <1>6, <1>7 DEF Frame
<1>10. (Mine(r)' <=> Mine(r)) /\ (Fenced(r)' <=> Fenced(r))
  BY DEF Mine, Fenced
<1>11. Mine(r)' => Mine(r) /\ \A d \in Runs(r)' : open'[d.actor] = open[d.actor]
  BY <1>1, <1>3, <1>5, <1>6, <1>10 DEF Runs, Drain
<1>12. From(drains'[r], drains[r])
  BY <1>3, <1>6, WithinFrom DEF S
<1>13. /\ TakenOK(r)' /\ EngineOK(r)'
       /\ Runs(r) = {} => Runs(r)' = {}
  BY <1>1, <1>3, <1>6, <1>8, <1>11, <1>12, TasksKept
<1>14. OwnerOK(r)'
  BY <1>0, <1>1, <1>7, <1>10, <1>13 DEF RuntimeOK, OwnerOK, Recovering
<1>15. RenewalOK(r)'
  BY <1>0 DEF RuntimeOK, RenewalOK
<1>16. ReportOK(r)'
  <2>1. lock[r].at = "free" /\ (delivered[r] # 0 => delivered[r] \in accepted["parent"])
    BY <1>0, LockFields DEF RuntimeOK, ReportOK
  <2>2. Looks(drains'[r], drains[r])
    BY <1>3, <1>6 DEF S
  <2> QED  BY <1>1, <2>1, <2>2, ReportKept
<1> QED  BY <1>1, <1>3, <1>6, <1>8, <1>9, <1>13, <1>14, <1>15, <1>16, Assemble DEF RuntimeOK, IInv

LEMMA HandleCancelInv ==
    ASSUME IInv, NEW r \in Runtime, HandleCancel(r)
    PROVE  IInv'
  BY CancelsInv DEF HandleCancel, Unlocked, Actor

\* A runtime whose task runs a turn under the lease has recovered.
LEMMA ActorCancelInv ==
    ASSUME IInv, NEW r \in Runtime, ActorCancel(r)
    PROVE  IInv'
<1>1. Runs(r) # {} /\ Mine(r)
  BY DEF ActorCancel, Runs, LiveDrains, Mine, Fenced
<1>2. r \notin unrecovered
  BY <1>1 DEF IInv, RuntimeOK, OwnerOK
<1> QED  BY <1>1, <1>2, CancelsInv DEF ActorCancel, Unlocked, Actor, Mine

----------------------------------------------------------------------------
(* The drain task *)

\* A step of a task that leaves the lease and the ownership as they are.  While
\* the lease stands the root has been recovered.
LEMMA StepDone ==
    ASSUME IInv, NEW r \in Runtime, lock[r].at = "free", lock'[r].at \in {"free", "release"},
           UNCHANGED <<lease, own, unrecovered, renewals>>, drains[r] # {},
           Types', Frame(r), JournalsOK',
           Shape(drains'[r]), TakenOK(r)', EngineOK(r)', ReportOK(r)',
           Fenced(r) \/ (Runs(r) = {} => Runs(r)' = {}),
           r \notin unrecovered /\ Mine(r) =>
              \A a \in Actor : open'[a] # 0 => opener'[a] = own[r]
    PROVE  IInv'
<1>0. RuntimeOK(r) /\ (lease.owner # NoOne => lease.generation > 0)
  BY DEF IInv
<1>1. (Mine(r)' <=> Mine(r)) /\ (Fenced(r)' <=> Fenced(r))
  BY DEF Mine, Fenced
<1>2. r \in unrecovered => ~Fenced(r)
  BY <1>0 DEF RuntimeOK, OwnerOK, Recovering
<1>3. Fenced(r) => own[r] # 0
  BY <1>0, TakeoverAssumption DEF Fenced
<1>4. OwnerOK(r)'
  <2>1. own'[r] = 0 => Runs(r)' = {}
    BY <1>0, <1>3 DEF RuntimeOK, OwnerOK
  <2>2. r \in unrecovered' /\ Mine(r)' => Runs(r)' = {}
    BY <1>0, <1>1, <1>2 DEF RuntimeOK, OwnerOK
  <2> QED  BY <1>1, <1>2, <2>1, <2>2 DEF OwnerOK, Recovering
<1>5. RenewalOK(r)'
  BY <1>0 DEF RuntimeOK, RenewalOK
<1> QED  BY <1>0, <1>4, <1>5, Assemble DEF RuntimeOK

\* What the first conjuncts of the invariant say of the tasks of a runtime.
LEMMA TasksAre ==
    ASSUME IInv, NEW r \in Runtime, NEW d \in drains[r]
    PROVE  /\ drains[r] \in SUBSET Drain /\ Shape(drains[r]) /\ d \in Drain /\ d.actor \in Actor
           /\ d.turn \in Int
           /\ \A n : Moved(r, d, n)[r] = (drains[r] \ {d}) \cup {n}
           /\ d.at \in Working =>
                 \A x \in drains[r] : x.actor = d.actor /\ x.at \in {"run", "next"} => x = d
<1>1. Types /\ Shape(drains[r])
  BY DEF IInv, RuntimeOK
<1>2. drains[r] \in SUBSET Drain /\ d \in Drain
  BY <1>1 DEF Types
<1>3. d.actor \in Actor /\ d.turn \in Int
  BY <1>2 DEF Drain
<1>4. \A n : Moved(r, d, n)[r] = (drains[r] \ {d}) \cup {n}
  BY <1>1 DEF Types, Moved
<1>5. d.at \in Working => \A x \in drains[r] : x.actor = d.actor /\ x.at \in {"run", "next"} => x = d
  BY <1>1 DEF Shape, Working
<1> QED  BY <1>1, <1>2, <1>3, <1>4, <1>5

\* A step of a task that writes nothing.
LEMMA TaskMoves ==
    ASSUME IInv, NEW r \in Runtime, NEW d \in drains[r], NEW n \in Drain,
           n.actor = d.actor, n.live => d.live, n.at \in Working => n.live,
           n.at \notin {"run", "next"}, n.turn \in {0, d.turn},
           drains' = Moved(r, d, n), lock[r] = Free,
           UNCHANGED <<lease, queue, open, opener, ended, accepted, sent, own, unrecovered,
                       renewals, lock, delivered>>
    PROVE  IInv'
<1>0. Types /\ JournalsOK /\ RuntimeOK(r) /\ lock[r].at = "free"
  BY LockFields DEF IInv
<1> DEFINE S == drains[r]
           T == (S \ {d}) \cup {n}
<1>1. S \in SUBSET Drain /\ Shape(S) /\ d \in S
  BY TasksAre
<1>2. drains' = [drains EXCEPT ![r] = T]
  BY DEF Moved
<1> HIDE DEF S
<1>3. T \in SUBSET Drain /\ Shape(T) /\ Within(T, S) /\ Looks(T, S)
  BY <1>1, MovedIs
<1> HIDE DEF T
<1>4. /\ drains' \in [Runtime -> SUBSET Drain] /\ drains'[r] = T
      /\ \A u \in Runtime \ {r} : drains'[u] = drains[u]
  BY <1>0, <1>2, <1>3 DEF Types
<1>5. Types'
  BY <1>0, <1>4 DEF Types
<1>6. JournalsOK' /\ Grows
  BY <1>0, JournalsSame
<1>7. Frame(r)
  BY <1>4, <1>6 DEF Frame
<1>8. From(drains'[r], drains[r])
  BY <1>3, <1>4, WithinFrom DEF S
<1>9. /\ TakenOK(r)' /\ EngineOK(r)'
      /\ Runs(r) = {} => Runs(r)' = {}
  BY <1>3, <1>4, <1>5, <1>6, <1>8, TasksKept DEF Mine
<1>10. ReportOK(r)'
  <2>1. Looks(drains'[r], drains[r])
    BY <1>3, <1>4 DEF S
  <2>2. delivered[r] # 0 => delivered[r] \in accepted["parent"]
    BY <1>0 DEF RuntimeOK, ReportOK
  <2> QED  BY <1>0, <2>1, <2>2, ReportKept
<1>11. r \notin unrecovered /\ Mine(r) => \A a \in Actor : open'[a] # 0 => opener'[a] = own[r]
  BY <1>0 DEF RuntimeOK, OwnerOK
<1>12. drains[r] # {} /\ Shape(drains'[r]) /\ lock'[r].at \in {"free", "release"}
  BY <1>0, <1>3, <1>4
<1> QED  BY <1>0, <1>5, <1>6, <1>7, <1>9, <1>10, <1>11, <1>12, StepDone

LEMMA DrainBeginInv ==
    ASSUME IInv, NEW r \in Runtime, NEW d \in drains[r], DrainBegin(r, d)
    PROVE  IInv'
<1> DEFINE n == [d EXCEPT !.at = "reconcile"]
<1>1. /\ UNCHANGED <<lease, queue, open, opener, ended, accepted, sent, own, unrecovered,
                     renewals, lock, delivered>>
      /\ drains' = Moved(r, d, n) /\ lock[r] = Free /\ d.at = "begin"
  BY DEF DrainBegin, Steps, Unlocked, bounds
<1>2. d \in Drain /\ Shape(drains[r])
  BY TasksAre
<1>3. d.live
  BY <1>1, <1>2 DEF Shape, Working
<1>4. n \in Drain /\ n.at = "reconcile" /\ n.actor = d.actor /\ n.turn = d.turn /\ n.live = d.live
  BY <1>2, FieldsAt DEF Working
<1> HIDE DEF n
<1> QED  BY <1>1, <1>3, <1>4, TaskMoves

LEMMA DrainEmptyInv ==
    ASSUME IInv, NEW r \in Runtime, NEW d \in drains[r], DrainEmpty(r, d)
    PROVE  IInv'
<1> DEFINE n == [d EXCEPT !.live = FALSE, !.at = "finally", !.again = FALSE]
<1>1. /\ UNCHANGED <<lease, queue, open, opener, ended, accepted, sent, own, unrecovered,
                     renewals, lock, delivered>>
      /\ drains' = Moved(r, d, n) /\ lock[r] = Free
  BY DEF DrainEmpty, Steps, Unlocked, bounds, journal
<1>2. n \in Drain /\ n.at = "finally" /\ n.actor = d.actor /\ n.turn = d.turn /\ ~n.live
  BY TasksAre, FieldsEmpty
<1> HIDE DEF n
<1>3. n.at \notin Working
  BY <1>2 DEF Working
<1> QED  BY <1>1, <1>2, <1>3, TaskMoves

LEMMA DrainFailsInv ==
    ASSUME IInv, NEW r \in Runtime, NEW d \in drains[r], DrainFails(r, d)
    PROVE  IInv'
<1> DEFINE n == [d EXCEPT !.at = "finally", !.failed = TRUE]
<1>1. /\ UNCHANGED <<lease, queue, open, opener, ended, accepted, sent, own, unrecovered,
                     renewals, lock, delivered>>
      /\ drains' = Moved(r, d, n) /\ lock[r] = Free
  BY DEF DrainFails, Unlocked, journal
<1>2. n \in Drain /\ n.at = "finally" /\ n.actor = d.actor /\ n.turn = d.turn /\ n.live = d.live
  BY TasksAre, FieldsFailed
<1> HIDE DEF n
<1>3. n.at \notin Working
  BY <1>2 DEF Working
<1> QED  BY <1>1, <1>2, <1>3, TaskMoves

\* A step of a task that reports the last of the child's ends, or nothing.
LEMMA TaskReports ==
    ASSUME IInv, NEW r \in Runtime, NEW d \in drains[r], NEW n \in Drain,
           n.actor = d.actor, n.live = d.live, d.live, n.turn = d.turn, n.at \in {"reconcile", "next"},
           NEW ends, ends \in {ended["child"], <<>>}, n.at = "next" => ends = ended["child"],
           DeliverTo(r, ends, Moved(r, d, n)[r]), Fenced(r), lock[r] = Free,
           UNCHANGED <<lease, open, opener, ended, sent, own, unrecovered, renewals, lock>>
    PROVE  IInv'
<1>0. Types /\ JournalsOK /\ RuntimeOK(r) /\ lock[r].at = "free"
  BY LockFields DEF IInv
<1> DEFINE S == drains[r]
           T == (S \ {d}) \cup {n}
<1>1. S \in SUBSET Drain /\ Shape(S) /\ d \in S /\ Moved(r, d, n)[r] = T
  BY TasksAre
<1> HIDE DEF S
<1>2. /\ T \in SUBSET Drain /\ Shape(T) /\ Within(T, S)
      /\ n.at # "next" => Looks(T, S)
  BY <1>1, MovedIs
<1> HIDE DEF T
<1>3. /\ queue' \in [Actor -> Seq(Int)] /\ accepted' \in [Actor -> SUBSET Int]
      /\ delivered' \in [Runtime -> Int]
      /\ JournalsOK' /\ Grows
      /\ delivered'[r] # 0 => delivered'[r] \in accepted'["parent"]
      /\ \A u \in Runtime \ {r} : delivered'[u] = delivered[u]
      /\ Settled(ends, accepted'["parent"])
      /\ drains' \in [Runtime -> SUBSET Drain]
      /\ \A u \in Runtime \ {r} : drains'[u] = drains[u]
      /\ Shape(drains'[r]) /\ From(drains'[r], T) /\ Looks(drains'[r], T)
  BY <1>1, <1>2, Delivery
<1>4. Types'
  BY <1>0, <1>3 DEF Types
<1>5. Frame(r)
  BY <1>3 DEF Frame, Fenced
<1>6. From(drains'[r], drains[r])
  BY <1>2, <1>3, Lineage DEF S
<1>7. /\ TakenOK(r)' /\ EngineOK(r)'
      /\ Runs(r) = {} => Runs(r)' = {}
  BY <1>3, <1>4, <1>6, TasksKept DEF Mine
<1>8. ReportOK(r)'
  <2>1. CASE n.at = "next"
    BY <1>3, <2>1 DEF ReportOK
  <2>2. CASE n.at # "next"
    <3>1. Looks(drains'[r], drains[r])
      BY <1>2, <1>3, <2>2, LooksOn DEF S
    <3>2. accepted["parent"] \subseteq accepted'["parent"] /\ ended["child"] \in Seq(End)
      BY <1>0, <1>3 DEF Grows, Actor, Types
    <3>3. Settled(ended["child"], accepted["parent"]) => Settled(ended'["child"], accepted'["parent"])
      BY <3>2, ReportsGrow
    <3> QED  BY <1>0, <1>3, <3>1, <3>3, ReportKept
  <2> QED  BY <2>1, <2>2
<1>9. r \notin unrecovered /\ Mine(r) => \A a \in Actor : open'[a] # 0 => opener'[a] = own[r]
  BY <1>0 DEF RuntimeOK, OwnerOK
<1>10. drains[r] # {} /\ lock'[r].at \in {"free", "release"}
  BY <1>0
<1> QED  BY <1>0, <1>3, <1>4, <1>5, <1>7, <1>8, <1>9, <1>10, StepDone

LEMMA ReconcileInv ==
    ASSUME IInv, NEW r \in Runtime, NEW d \in drains[r], Reconcile(r, d)
    PROVE  IInv'
<1> DEFINE n == [d EXCEPT !.at = "next"]
<1>1. /\ UNCHANGED <<lease, open, opener, ended, sent, own, unrecovered, renewals, lock>>
      /\ DeliverTo(r, ended["child"], Moved(r, d, n)[r])
      /\ lock[r] = Free /\ d.at = "reconcile" /\ Fenced(r)
  BY DEF Reconcile, Steps, Unlocked, bounds
<1>2. d \in Drain /\ Shape(drains[r])
  BY TasksAre
<1>3. d.live
  BY <1>1, <1>2 DEF Shape, Working
<1>4. n \in Drain /\ n.at = "next" /\ n.actor = d.actor /\ n.turn = d.turn /\ n.live = d.live
  BY <1>2, FieldsAt DEF Working
<1> HIDE DEF n
<1> QED  BY <1>1, <1>3, <1>4, TaskReports

LEMMA DeliverInv ==
    ASSUME IInv, NEW r \in Runtime, NEW d \in drains[r], Deliver(r, d)
    PROVE  IInv'
<1> DEFINE n == [d EXCEPT !.at = "reconcile"]
           ends == IF d.actor = "child" THEN ended["child"] ELSE <<>>
<1>1. /\ UNCHANGED <<lease, open, opener, ended, sent, own, unrecovered, renewals, lock>>
      /\ DeliverTo(r, ends, Moved(r, d, n)[r])
      /\ lock[r] = Free /\ d.at = "deliver" /\ Fenced(r)
  BY DEF Deliver, Steps, Unlocked, bounds
<1>2. d \in Drain /\ Shape(drains[r])
  BY TasksAre
<1>3. d.live
  BY <1>1, <1>2 DEF Shape, Working
<1>4. n \in Drain /\ n.at = "reconcile" /\ n.actor = d.actor /\ n.turn = d.turn /\ n.live = d.live
  BY <1>2, FieldsAt DEF Working
<1>5. ends \in {ended["child"], <<>>}
  OBVIOUS
<1> HIDE DEF n, ends
<1> QED  BY <1>1, <1>3, <1>4, <1>5, TaskReports

\* The turn a task starts was pending, so that no other task has it; the child's
\* task has looked, and the last end is settled.
LEMMA StartTurnInv ==
    ASSUME IInv, NEW r \in Runtime, NEW d \in drains[r], StartTurn(r, d)
    PROVE  IInv'
<1>0. Types /\ JournalsOK /\ RuntimeOK(r)
  BY DEF IInv
<1> DEFINE a == d.actor
           q == queue[a]
           h == Head(q)
           n == [d EXCEPT !.at = "run", !.turn = h]
<1>1. /\ UNCHANGED <<lease, ended, accepted, sent, own, unrecovered, renewals, lock, delivered>>
      /\ open' = [open EXCEPT ![a] = h]
      /\ opener' = [opener EXCEPT ![a] = own[r]]
      /\ queue' = [queue EXCEPT ![a] = Tail(@)]
      /\ drains' = Moved(r, d, n)
      /\ lock[r] = Free /\ d.at = "next" /\ Fenced(r) /\ q # <<>> /\ open[a] = 0
  BY DEF StartTurn, Steps, Unlocked, bounds
<1>2. a \in Actor /\ d \in Drain /\ drains[r] \in SUBSET Drain /\ Shape(drains[r]) /\ lock[r].at = "free"
  BY <1>1, TasksAre, LockFields
<1>3. d.live
  BY <1>1, <1>2 DEF Shape, Working
<1>4. \A x \in drains[r] : x.actor = a /\ x.at \in {"run", "next"} => x = d
  BY <1>1, TasksAre DEF Working
<1>5. q \in Seq(Int) /\ own[r] \in Nat /\ sent \in Int
  BY <1>0, <1>2 DEF Types
<1>6. /\ JournalOK(a, Tail(q), h, ended[a], accepted[a], sent)
      /\ Tail(q) \in Seq(Int) /\ h \in Int
      /\ Range(Tail(q)) \subseteq Range(q)
      /\ h \in Range(q) /\ h \in accepted[a] /\ h # 0
      /\ h \notin Range(Tail(q))
  <2> DEFINE e == ended[a]
             acc == accepted[a]
  <2>1. e \in Seq(End) /\ acc \in SUBSET Int /\ JournalOK(a, q, 0, e, acc, sent)
    BY <1>0, <1>1, <1>2 DEF Types, JournalsOK
  <2> HIDE DEF a, q, e, acc
  <2> QED  BY <1>1, <1>2, <1>5, <2>1, JournalStart DEF e, acc
<1>7. n \in Drain /\ n.at = "run" /\ n.actor = a /\ n.turn = h /\ n.live = d.live
  <2>1. "run" \in Working /\ h \in Int
    BY <1>6 DEF Working
  <2> HIDE DEF h
  <2> QED  BY <1>2, <2>1 DEF Drain
<1>8. \A s \in drains[r] : s.actor = a /\ s.turn # 0 => s.turn \in accepted[a] /\ s.turn \notin Range(q)
  BY <1>0 DEF RuntimeOK, TakenOK
<1> HIDE DEF h, n
<1>9. \A s \in drains[r] : s.actor = a => s.turn # h
  BY <1>6, <1>8
<1> DEFINE S == drains[r]
           T == (S \ {d}) \cup {n}
<1>10. drains' = [drains EXCEPT ![r] = T]
  BY <1>1 DEF Moved
<1>11. T \in SUBSET Drain /\ Shape(T) /\ Looks(T, S)
  BY <1>2, <1>3, <1>6, <1>7, <1>9, MovedIs
<1>12. \A x \in T : x = n \/ x \in S
  OBVIOUS
<1> HIDE DEF S, T
<1>13. /\ drains' \in [Runtime -> SUBSET Drain] /\ drains'[r] = T
       /\ \A u \in Runtime \ {r} : drains'[u] = drains[u]
  BY <1>0, <1>10, <1>11 DEF Types
<1>14. /\ queue' \in [Actor -> Seq(Int)] /\ queue'[a] = Tail(q)
       /\ \A b \in Actor \ {a} : queue'[b] = queue[b]
  BY <1>0, <1>1, <1>2, <1>6 DEF Types
<1>15. /\ open' \in [Actor -> Int] /\ open'[a] = h
       /\ opener' \in [Actor -> Nat] /\ opener'[a] = own[r]
       /\ \A b \in Actor \ {a} : open'[b] = open[b] /\ opener'[b] = opener[b]
  BY <1>0, <1>1, <1>2, <1>5, <1>6 DEF Types
<1>16. Types'
  BY <1>0, <1>1, <1>13, <1>14, <1>15 DEF Types
<1>17. Grows
  <2>1. \A b \in Actor : \A c \in accepted[b] : c \in Range(queue'[b]) => c \in Range(queue[b])
    <3> TAKE b \in Actor
    <3>1. CASE b = a
      BY <1>6, <1>14, <3>1
    <3> QED  BY <1>14, <3>1
  <2> QED  BY <1>1, <2>1 DEF Grows
<1>18. a = "child" => Settled(ended["child"], accepted["parent"])
  BY <1>0, <1>1, <1>2 DEF RuntimeOK, ReportOK
<1>19. JournalsOK'
  <2>1. \A b \in Actor : JournalOK(b, queue'[b], open'[b], ended'[b], accepted'[b], sent')
    <3> TAKE b \in Actor
    <3>1. CASE b = a
      BY <1>1, <1>6, <1>14, <1>15, <3>1
    <3>2. CASE b # a
      BY <1>0, <1>1, <1>14, <1>15, <3>2 DEF JournalsOK
    <3> QED  BY <3>1, <3>2
  <2>2. open'["child"] # 0 => Settled(ended["child"], accepted["parent"])
    BY <1>0, <1>15, <1>18 DEF JournalsOK, Actor
  <2> QED  BY <1>0, <1>1, <2>1, <2>2 DEF JournalsOK
<1>20. Frame(r)
  BY <1>1, <1>13, <1>17 DEF Frame, Fenced
<1>21. Mine(r) /\ Mine(r)'
  BY <1>1 DEF Mine, Fenced
<1>22. TakenOK(r)'
  <2> SUFFICES ASSUME NEW x \in drains'[r], x.turn # 0
      PROVE  x.turn \in accepted'[x.actor] /\ x.turn \notin Range(queue'[x.actor])
    BY DEF TakenOK
  <2>1. CASE x = n
    BY <1>1, <1>6, <1>7, <1>14, <2>1
  <2>2. CASE x \in S
    <3>1. x.turn \in accepted[x.actor] /\ x.turn \notin Range(queue[x.actor]) /\ x.actor \in Actor
      BY <1>0, <1>2, <2>2 DEF RuntimeOK, TakenOK, S, Drain
    <3> QED  BY <1>1, <1>17, <3>1 DEF Grows
  <2> QED  BY <1>12, <1>13, <2>1, <2>2
<1>23. EngineOK(r)'
  <2> SUFFICES ASSUME NEW x \in drains'[r], x.at = "run" PROVE open'[x.actor] = x.turn
    BY DEF EngineOK, Runs
  <2>1. CASE x = n
    BY <1>7, <1>15, <2>1
  <2>2. CASE x \in S /\ x # n
    <3>1. open[x.actor] = x.turn /\ x.actor \in Actor /\ x # d
      BY <1>0, <1>1, <1>2, <1>21, <2>2 DEF RuntimeOK, EngineOK, Runs, S, Drain
    <3>2. x.actor # a
      BY <1>4, <2>2, <3>1 DEF S
    <3> QED  BY <1>15, <3>1, <3>2
  <2> QED  BY <1>12, <1>13, <2>1, <2>2
<1>24. ReportOK(r)'
  <2>1. Looks(drains'[r], drains[r])
    BY <1>11, <1>13 DEF S
  <2>2. delivered[r] # 0 => delivered[r] \in accepted["parent"]
    BY <1>0 DEF RuntimeOK, ReportOK
  <2> QED  BY <1>1, <1>2, <2>1, <2>2, ReportKept
<1>25. r \notin unrecovered /\ Mine(r) => \A b \in Actor : open'[b] # 0 => opener'[b] = own[r]
  <2> SUFFICES ASSUME r \notin unrecovered, NEW b \in Actor, open'[b] # 0 PROVE opener'[b] = own[r]
    OBVIOUS
  <2>1. CASE b = a
    BY <1>15, <2>1
  <2>2. CASE b # a
    BY <1>0, <1>15, <1>21, <2>2 DEF RuntimeOK, OwnerOK
  <2> QED  BY <2>1, <2>2
<1>26. drains[r] # {} /\ lock'[r].at \in {"free", "release"} /\ Shape(drains'[r])
  BY <1>1, <1>2, <1>11, <1>13
<1> QED  BY <1>1, <1>2, <1>16, <1>19, <1>20, <1>22, <1>23, <1>24, <1>25, <1>26, StepDone

\* The open turn of an actor ends.
LEMMA TurnEnds ==
    ASSUME Types, JournalsOK, NEW a \in Actor, open[a] # 0, NEW how \in How,
           ended' = [ended EXCEPT ![a] = Append(@, [turn |-> open[a], how |-> how])],
           open' = [open EXCEPT ![a] = 0]
    PROVE  /\ ended' \in [Actor -> Seq(End)] /\ open' \in [Actor -> Int]
           /\ open'[a] = 0 /\ ended'[a] = Append(ended[a], [turn |-> open[a], how |-> how])
           /\ \A b \in Actor \ {a} : open'[b] = open[b] /\ ended'[b] = ended[b]
           /\ \A b \in Actor : JournalOK(b, queue[b], open'[b], ended'[b], accepted[b], sent)
           /\ Reports(ended'["child"], accepted["parent"])
           /\ open'["child"] # 0 => Settled(ended'["child"], accepted["parent"])
<1> DEFINE q == queue[a]
           o == open[a]
           e == ended[a]
           acc == accepted[a]
           x == [turn |-> o, how |-> how]
<1>1. /\ q \in Seq(Int) /\ o \in Int /\ e \in Seq(End) /\ acc \in SUBSET Int /\ sent \in Int
      /\ JournalOK(a, q, o, e, acc, sent) /\ o # 0
  BY DEF Types, JournalsOK
<1>2. ended' = [ended EXCEPT ![a] = Append(e, x)]
  OBVIOUS
<1>3. x \in End
  BY <1>1 DEF End, How
<1>4. Append(e, x) \in Seq(End)
  BY <1>1, <1>3
<1>5. /\ ended' \in [Actor -> Seq(End)] /\ ended'[a] = Append(e, x)
      /\ \A b \in Actor \ {a} : ended'[b] = ended[b]
  <2> HIDE DEF e, x
  <2> QED  BY <1>2, <1>4 DEF Types
<1>6. /\ open' \in [Actor -> Int] /\ open'[a] = 0
      /\ \A b \in Actor \ {a} : open'[b] = open[b]
  BY DEF Types
<1>7. JournalOK(a, q, 0, Append(e, x), acc, sent)
  <2> HIDE DEF q, o, e, acc
  <2> QED  BY <1>1, JournalEnd
<1>8. \A b \in Actor : JournalOK(b, queue[b], open'[b], ended'[b], accepted[b], sent)
  <2> TAKE b \in Actor
  <2>1. CASE b = a
    BY <1>5, <1>6, <1>7, <2>1
  <2>2. CASE b # a
    BY <1>5, <1>6, <2>2 DEF JournalsOK
  <2> QED  BY <2>1, <2>2
<1>9. Reports(ended'["child"], accepted["parent"])
  <2>1. Reports(ended["child"], accepted["parent"])
    BY DEF JournalsOK
  <2>2. CASE a = "child"
    <3>1. Settled(e, accepted["parent"]) /\ Reports(e, accepted["parent"])
      BY <1>1, <2>1, <2>2 DEF JournalsOK
    <3> HIDE DEF e, x
    <3>2. Reports(Append(e, x), accepted["parent"])
      BY <1>1, <1>3, <3>1, ReportsAppend
    <3> QED  BY <1>5, <2>2, <3>2
  <2>3. CASE a # "child"
    BY <1>5, <2>1, <2>3 DEF Actor
  <2> QED  BY <2>2, <2>3
<1>10. open'["child"] # 0 => Settled(ended'["child"], accepted["parent"])
  <2>1. CASE a = "child"
    BY <1>6, <2>1
  <2>2. CASE a # "child"
    BY <1>5, <1>6, <2>2 DEF JournalsOK, Actor
  <2> QED  BY <2>1, <2>2
<1> QED  BY <1>5, <1>6, <1>8, <1>9, <1>10

\* The task that looks at the queue or runs the turn ends the open one.
LEMMA TaskEnds ==
    ASSUME IInv, NEW r \in Runtime, NEW d \in drains[r], d.at \in {"next", "run"},
           open[d.actor] # 0, NEW how \in How, Fenced(r), lock[r] = Free,
           ended' = [ended EXCEPT ![d.actor] = Append(@, [turn |-> open[d.actor], how |-> how])],
           open' = [open EXCEPT ![d.actor] = 0],
           drains' = Moved(r, d, [d EXCEPT !.at = "deliver", !.turn = 0]),
           UNCHANGED <<lease, opener, queue, accepted, sent, own, unrecovered, renewals,
                       lock, delivered>>
    PROVE  IInv'
<1>0. Types /\ JournalsOK /\ RuntimeOK(r) /\ lock[r].at = "free"
  BY LockFields DEF IInv
<1> DEFINE a == d.actor
           n == [d EXCEPT !.at = "deliver", !.turn = 0]
           S == drains[r]
           T == (S \ {d}) \cup {n}
<1>1. a \in Actor /\ d \in Drain /\ S \in SUBSET Drain /\ Shape(S)
  BY TasksAre
<1>2. d.live
  BY <1>1 DEF Shape, Working
<1>3. \A x \in S : x.actor = a /\ x.at \in {"run", "next"} => x = d
  BY TasksAre DEF Working
<1>4. n \in Drain /\ n.at = "deliver" /\ n.actor = a /\ n.turn = 0 /\ n.live = d.live
  <2>1. "deliver" \in Working /\ 0 \in Int
    BY DEF Working
  <2> QED  BY <1>1, <2>1 DEF Drain
<1>5. drains' = [drains EXCEPT ![r] = T]
  BY DEF Moved
<1> HIDE DEF n
<1>6. T \in SUBSET Drain /\ Shape(T) /\ Within(T, S) /\ Looks(T, S)
  BY <1>1, <1>2, <1>4, MovedIs
<1>7. \A x \in T : x = n \/ x \in S \ {d}
  OBVIOUS
<1> HIDE DEF S, T
<1>8. /\ drains' \in [Runtime -> SUBSET Drain] /\ drains'[r] = T
      /\ \A u \in Runtime \ {r} : drains'[u] = drains[u]
  BY <1>0, <1>5, <1>6 DEF Types
<1>9. \A x \in drains'[r] : x.at \in {"run", "next"} => x.actor # a
  BY <1>3, <1>4, <1>7, <1>8
<1>10. /\ ended' \in [Actor -> Seq(End)] /\ open' \in [Actor -> Int]
       /\ open'[a] = 0
       /\ \A b \in Actor \ {a} : open'[b] = open[b] /\ ended'[b] = ended[b]
       /\ \A b \in Actor : JournalOK(b, queue[b], open'[b], ended'[b], accepted[b], sent)
       /\ Reports(ended'["child"], accepted["parent"])
       /\ open'["child"] # 0 => Settled(ended'["child"], accepted["parent"])
  BY <1>0, <1>1, TurnEnds
<1>11. Types'
  BY <1>0, <1>8, <1>10 DEF Types
<1>12. JournalsOK' /\ Grows
  BY <1>10 DEF JournalsOK, Grows
<1>13. Frame(r)
  BY <1>8, <1>12 DEF Frame, Fenced
<1>14. From(drains'[r], drains[r])
  BY <1>6, <1>8, WithinFrom DEF S
<1>15. /\ TakenOK(r)' /\ EngineOK(r)'
       /\ Runs(r) = {} => Runs(r)' = {}
  <2>1. \A x \in Runs(r)' : open'[x.actor] = open[x.actor]
    BY <1>6, <1>8, <1>9, <1>10 DEF Runs, Drain
  <2> QED  BY <1>6, <1>8, <1>11, <1>12, <1>14, <2>1, TasksKept DEF Mine
<1>16. ReportOK(r)'
  <2>1. ReportOK(r)
    BY <1>0 DEF RuntimeOK
  <2>2. CASE a = "child"
    BY <1>9, <2>1, <2>2 DEF ReportOK
  <2>3. CASE a # "child"
    <3>1. Looks(drains'[r], drains[r])
      BY <1>6, <1>8 DEF S
    <3>2. ended'["child"] = ended["child"]
      BY <1>10, <2>3 DEF Actor
    <3> QED  BY <1>0, <2>1, <3>1, <3>2, ReportKept DEF ReportOK
  <2> QED  BY <2>2, <2>3
<1>17. r \notin unrecovered /\ Mine(r) => \A b \in Actor : open'[b] # 0 => opener'[b] = own[r]
  BY <1>0, <1>10 DEF RuntimeOK, OwnerOK
<1>18. drains[r] # {} /\ lock'[r].at \in {"free", "release"} /\ Shape(drains'[r])
  BY <1>0, <1>6, <1>8
<1> QED  BY <1>0, <1>11, <1>12, <1>13, <1>15, <1>16, <1>17, <1>18, StepDone

LEMMA InterruptOpenInv ==
    ASSUME IInv, NEW r \in Runtime, NEW d \in drains[r], InterruptOpen(r, d)
    PROVE  IInv'
<1>1. "interrupted" \in How
  BY DEF How
<1> QED  BY <1>1, TaskEnds DEF InterruptOpen, Steps, Unlocked, bounds

\* The turn a task runs under the lease is the open one: the engine need not look.
LEMMA CompleteTurnInv ==
    ASSUME IInv, NEW r \in Runtime, NEW d \in drains[r], CompleteTurn(r, d)
    PROVE  IInv'
<1>1. "completed" \in How
  BY DEF How
<1>2. /\ UNCHANGED <<lease, opener, queue, accepted, sent, own, unrecovered, renewals, lock, delivered>>
      /\ ended' = [ended EXCEPT ![d.actor] = Append(@, [turn |-> d.turn, how |-> "completed"])]
      /\ open' = [open EXCEPT ![d.actor] = IF @ = d.turn THEN 0 ELSE @]
      /\ drains' = Moved(r, d, [d EXCEPT !.at = "deliver", !.turn = 0])
      /\ Fenced(r) /\ lock[r] = Free /\ d.at = "run"
  BY DEF CompleteTurn, Steps, Unlocked, bounds
<1>3. open[d.actor] = d.turn /\ d.turn # 0
  BY <1>2 DEF IInv, RuntimeOK, EngineOK, Runs, Shape, Mine, Fenced
<1>4. /\ ended' = [ended EXCEPT ![d.actor] = Append(@, [turn |-> open[d.actor], how |-> "completed"])]
      /\ open' = [open EXCEPT ![d.actor] = 0]
      /\ open[d.actor] # 0 /\ d.at \in {"next", "run"}
  BY <1>2, <1>3
<1> QED  BY <1>1, <1>2, <1>4, TaskEnds

\* The handler of a cancelled task ends its turn only when it is the open one,
\* and then no other task runs it.
LEMMA UnwindInv ==
    ASSUME IInv, NEW r \in Runtime, NEW d \in drains[r], Unwind(r, d)
    PROVE  IInv'
<1>0. Types /\ JournalsOK /\ RuntimeOK(r)
  BY DEF IInv
<1> DEFINE a == d.actor
           n == [d EXCEPT !.at = "finally"]
           S == drains[r]
           T == (S \ {d}) \cup {n}
           new == Append(ended[a], [turn |-> d.turn, how |-> "interrupted"])
           ends == IF a = "child" THEN new ELSE <<>>
<1>1. /\ UNCHANGED <<lease, opener, sent, own, unrecovered, renewals, lock>>
      /\ lock[r] = Free /\ d.at = "unwind"
  BY DEF Unwind, Steps, Unlocked, bounds
<1>2. a \in Actor /\ d \in Drain /\ S \in SUBSET Drain /\ Shape(S) /\ lock[r].at = "free"
  BY <1>1, TasksAre, LockFields
<1>3. n \in Drain /\ n.at = "finally" /\ n.actor = a /\ n.turn = d.turn /\ n.live = d.live
  BY <1>2, FieldsAt
<1>4. n.at \notin Working
  BY <1>3 DEF Working
<1>5. CASE ~(Fenced(r) /\ d.turn # 0 /\ open[a] = d.turn)
  <2>1. drains' = Moved(r, d, n) /\ UNCHANGED <<queue, open, ended, accepted, delivered>>
    BY <1>5 DEF Unwind
  <2> HIDE DEF n
  <2> QED  BY <1>1, <1>3, <1>4, <2>1, TaskMoves
<1>6. CASE Fenced(r) /\ d.turn # 0 /\ open[a] = d.turn
  <2>1. /\ ended' = [ended EXCEPT ![a] = new]
        /\ open' = [open EXCEPT ![a] = 0]
        /\ DeliverTo(r, ends, Moved(r, d, n)[r])
    BY <1>6 DEF Unwind
  <2>2. Moved(r, d, n)[r] = T
    BY TasksAre
  <2> HIDE DEF n
  <2>3. T \in SUBSET Drain /\ Shape(T) /\ Within(T, S) /\ Looks(T, S)
    BY <1>2, <1>3, <1>4, MovedIs
  <2>4. "interrupted" \in How
    BY DEF How
  <2>5. /\ ended' \in [Actor -> Seq(End)] /\ open' \in [Actor -> Int]
        /\ open'[a] = 0 /\ ended'[a] = new
        /\ \A b \in Actor \ {a} : open'[b] = open[b] /\ ended'[b] = ended[b]
        /\ \A b \in Actor : JournalOK(b, queue[b], open'[b], ended'[b], accepted[b], sent)
        /\ Reports(ended'["child"], accepted["parent"])
        /\ open'["child"] # 0 => Settled(ended'["child"], accepted["parent"])
    <3>1. ended' = [ended EXCEPT ![a] = Append(@, [turn |-> open[a], how |-> "interrupted"])]
      BY <1>6, <2>1
    <3>2. open[a] # 0
      BY <1>6
    <3>3. new = Append(ended[a], [turn |-> open[a], how |-> "interrupted"])
      BY <1>6
    <3> HIDE DEF new, a
    <3> QED  BY <1>0, <1>2, <2>1, <2>4, <3>1, <3>2, <3>3, TurnEnds
  <2>6. ends = (IF a = "child" THEN ended'["child"] ELSE <<>>)
    BY <2>5
  <2> HIDE DEF new, ends, T, S
  <2> DEFINE o == open'["parent"]
             e == ended'["parent"]
  <2>7. /\ o \in Int /\ e \in Seq(End) /\ ended'["child"] \in Seq(End)
        /\ JournalOK("parent", queue["parent"], o, e, accepted["parent"], sent)
    BY <2>5 DEF Actor
  <2>8. ends \in Seq(End) /\ \A i \in 1 .. Len(ends) : ends[i].turn > 0
    <3>1. <<>> \in Seq(End) /\ Len(<<>>) = 0 /\ \A i \in 1 .. 0 : FALSE
      OBVIOUS
    <3>2. CASE a # "child"
      BY <2>6, <3>1, <3>2
    <3>3. CASE a = "child"
      <4> DEFINE f == ended'["child"]
                 acc == accepted["child"]
      <4>1. /\ f \in Seq(End) /\ acc \subseteq Int
            /\ JournalOK("child", queue["child"], open'["child"], f, acc, sent)
        BY <1>0, <2>5 DEF Types, Actor
      <4> HIDE DEF f, acc
      <4>2. \A i \in 1 .. Len(f) : f[i].turn \in Turns(f)
        BY <4>1, TurnsAre
      <4>3. Turns(f) \subseteq acc /\ \A c \in acc : c > 0
        BY <4>1 DEF JournalOK
      <4>4. ends = f
        BY <2>6, <3>3 DEF f
      <4> QED  BY <4>1, <4>2, <4>3, <4>4
    <3> QED  BY <3>2, <3>3
  <2>9. delivered[r] # 0 => delivered[r] \in accepted["parent"]
    BY <1>0 DEF RuntimeOK, ReportOK
  <2>10. DeliverTo(r, ends, T)
    BY <2>1, <2>2 DEF ends, new
  <2> HIDE DEF o, e
  <2>11. /\ queue' \in [Actor -> Seq(Int)] /\ accepted' \in [Actor -> SUBSET Int]
         /\ delivered' \in [Runtime -> Int]
         /\ queue'["child"] = queue["child"] /\ accepted'["child"] = accepted["child"]
         /\ JournalOK("parent", queue'["parent"], o, e, accepted'["parent"], sent)
         /\ Grows
         /\ delivered'[r] # 0 => delivered'[r] \in accepted'["parent"]
         /\ \A u \in Runtime \ {r} : delivered'[u] = delivered[u]
         /\ Settled(ends, accepted'["parent"])
         /\ \E U \in SUBSET Drain :
               /\ drains' = [drains EXCEPT ![r] = U]
               /\ Shape(U) /\ From(U, T) /\ Looks(U, T)
    BY <1>0, <2>3, <2>7, <2>8, <2>9, <2>10, DeliverIs
  <2>12. PICK U \in SUBSET Drain :
               /\ drains' = [drains EXCEPT ![r] = U]
               /\ Shape(U) /\ From(U, T) /\ Looks(U, T)
    BY <2>11
  <2>13. /\ drains' \in [Runtime -> SUBSET Drain] /\ drains'[r] = U
         /\ \A u \in Runtime \ {r} : drains'[u] = drains[u]
    BY <1>0, <2>12 DEF Types
  <2>14. From(U, S) /\ Looks(U, S)
    BY <2>3, <2>12, Lineage, LooksOn
  <2>15. Types'
    BY <1>0, <1>1, <2>5, <2>11, <2>13 DEF Types
  <2>16. JournalsOK'
    <3>1. JournalOK("child", queue'["child"], open'["child"], ended'["child"], accepted'["child"], sent')
      BY <1>1, <2>5, <2>11 DEF Actor
    <3>2. JournalOK("parent", queue'["parent"], open'["parent"], ended'["parent"], accepted'["parent"], sent')
      BY <1>1, <2>11 DEF o, e
    <3>3. accepted["parent"] \subseteq accepted'["parent"]
      BY <2>11 DEF Grows, Actor
    <3>4. /\ Reports(ended'["child"], accepted'["parent"])
          /\ open'["child"] # 0 => Settled(ended'["child"], accepted'["parent"])
      BY <2>5, <2>7, <3>3, ReportsGrow
    <3> QED  BY <3>1, <3>2, <3>4 DEF JournalsOK, Actor
  <2>17. Frame(r)
    BY <1>1, <1>6, <2>11, <2>13 DEF Frame, Fenced
  <2>18. Mine(r)
    BY <1>6 DEF Mine, Fenced
  <2>19. \A x \in U : x.at = "run" => x.actor # a
    <3> SUFFICES ASSUME NEW x \in U, x.at = "run", x.actor = a PROVE FALSE
      OBVIOUS
    <3>1. PICK s \in S : s.at = "run" /\ s.actor = a /\ s.turn = x.turn
      BY <2>12, <2>14, FromIs
    <3>2. open[a] = s.turn
      BY <1>0, <2>18, <3>1 DEF RuntimeOK, EngineOK, Runs, S
    <3>3. s = d
      BY <1>2, <1>6, <3>1, <3>2 DEF Shape, S
    <3> QED  BY <1>1, <3>1, <3>3
  <2>20. /\ TakenOK(r)' /\ EngineOK(r)'
    <3>1. \A x \in Runs(r)' : open'[x.actor] = open[x.actor]
      BY <2>5, <2>12, <2>13, <2>19 DEF Runs, Drain
    <3> QED  BY <2>11, <2>12, <2>13, <2>14, <2>15, <2>18, <3>1, TasksKept DEF S
  <2>21. ReportOK(r)'
    <3>1. CASE a = "child"
      <4>1. Settled(ended'["child"], accepted'["parent"])
        BY <2>6, <2>11, <3>1
      <4> QED  BY <2>11, <4>1 DEF ReportOK
    <3>2. CASE a # "child"
      <4>1. Looks(drains'[r], drains[r])
        BY <2>13, <2>14 DEF S
      <4>2. ended'["child"] = ended["child"] /\ ended["child"] \in Seq(End)
        BY <1>0, <2>5, <3>2 DEF Actor, Types
      <4>3. accepted["parent"] \subseteq accepted'["parent"]
        BY <2>11 DEF Grows, Actor
      <4>4. Settled(ended["child"], accepted["parent"]) => Settled(ended'["child"], accepted'["parent"])
        BY <4>2, <4>3, ReportsGrow
      <4> QED  BY <1>1, <1>2, <2>11, <4>1, <4>4, ReportKept
    <3> QED  BY <3>1, <3>2
  <2>22. r \notin unrecovered /\ Mine(r) => \A b \in Actor : open'[b] # 0 => opener'[b] = own[r]
    BY <1>0, <1>1, <2>5 DEF RuntimeOK, OwnerOK
  <2>23. drains[r] # {} /\ lock'[r].at \in {"free", "release"} /\ Shape(drains'[r])
    BY <1>1, <1>2, <2>12, <2>13
  <2> QED  BY <1>1, <1>2, <1>6, <2>15, <2>16, <2>17, <2>20, <2>21, <2>22, <2>23, StepDone
<1> QED  BY <1>5, <1>6

LEMMA FewerTasks ==
    ASSUME NEW S \in SUBSET Drain, Shape(S), NEW R \in SUBSET S
    PROVE  R \in SUBSET Drain /\ Shape(R) /\ Within(R, S) /\ Looks(R, S)
<1>1. Shape(R)
  BY DEF Shape
<1>2. Within(R, S) /\ Looks(R, S)
  BY DEF Within, Descends, Looks
<1> QED  BY <1>1, <1>2

LEMMA FinallyInv ==
    ASSUME IInv, NEW r \in Runtime, NEW d \in drains[r], Finally(r, d)
    PROVE  IInv'
<1>0. Types /\ JournalsOK /\ RuntimeOK(r)
  BY DEF IInv
<1> DEFINE S == drains[r]
           R == S \ {d}
           T == IF d.again THEN Activated(r, R, d.actor) ELSE R
<1>1. /\ UNCHANGED <<lease, opener, queue, open, ended, accepted, sent, own, unrecovered, renewals, delivered>>
      /\ drains' = [drains EXCEPT ![r] = T]
      /\ lock' = [lock EXCEPT ![r] = [Free EXCEPT !.at = "release"]]
      /\ lock[r] = Free
  BY DEF Finally, Steps, Unlocked, bounds
<1>2. d.actor \in Actor /\ S \in SUBSET Drain /\ Shape(S) /\ lock[r].at = "free" /\ R \in SUBSET S
  BY <1>1, TasksAre, LockFields
<1>3. R \in SUBSET Drain /\ Shape(R) /\ Within(R, S) /\ Looks(R, S)
  BY <1>2, FewerTasks
<1> HIDE DEF S, R
<1>4. T \in SUBSET Drain /\ Shape(T) /\ From(T, R) /\ Looks(T, R)
  <2>1. CASE d.again
    BY <1>2, <1>3, <2>1, ActivatedIs
  <2>2. CASE ~d.again
    BY <1>3, <2>2, SameTasks
  <2> QED  BY <2>1, <2>2
<1> HIDE DEF T
<1>5. /\ drains' \in [Runtime -> SUBSET Drain] /\ drains'[r] = T
      /\ \A u \in Runtime \ {r} : drains'[u] = drains[u]
  BY <1>0, <1>1, <1>4 DEF Types
<1>6. From(drains'[r], drains[r]) /\ Looks(drains'[r], drains[r])
  BY <1>3, <1>4, <1>5, Lineage, LooksOn DEF S
<1>7. /\ lock' \in [Runtime -> Locks] /\ lock'[r].at = "release"
      /\ \A u \in Runtime \ {r} : lock'[u] = lock[u]
  BY <1>0, <1>1, LockFields DEF Types
<1>8. Types'
  BY <1>0, <1>1, <1>5, <1>7 DEF Types
<1>9. JournalsOK' /\ Grows
  BY <1>0, <1>1, JournalsSame
<1>10. Frame(r)
  BY <1>1, <1>5, <1>7, <1>9 DEF Frame
<1>11. /\ TakenOK(r)' /\ EngineOK(r)'
       /\ Runs(r) = {} => Runs(r)' = {}
  BY <1>1, <1>4, <1>5, <1>6, <1>8, <1>9, TasksKept DEF Mine
<1>12. ReportOK(r)'
  <2>1. delivered[r] # 0 => delivered[r] \in accepted["parent"]
    BY <1>0 DEF RuntimeOK, ReportOK
  <2> QED  BY <1>1, <1>2, <1>6, <2>1, ReportKept
<1>13. r \notin unrecovered /\ Mine(r) => \A a \in Actor : open'[a] # 0 => opener'[a] = own[r]
  BY <1>0, <1>1 DEF RuntimeOK, OwnerOK
<1>14. drains[r] # {} /\ Shape(drains'[r])
  BY <1>4, <1>5
<1> QED  BY <1>1, <1>2, <1>7, <1>8, <1>9, <1>10, <1>11, <1>12, <1>13, <1>14, StepDone

----------------------------------------------------------------------------
(* Release, closing, and the environment *)

LEMMA ReleaseIdleInv ==
    ASSUME IInv, NEW r \in Runtime, ReleaseIdle(r)
    PROVE  IInv'
<1>0. Types /\ JournalsOK /\ RuntimeOK(r)
  BY DEF IInv
<1>1. /\ UNCHANGED <<queue, open, opener, ended, accepted, sent, own, unrecovered, renewals,
                     drains, delivered>>
      /\ lease' = [lease EXCEPT !.owner = NoOne, !.valid = FALSE]
      /\ lock' = [lock EXCEPT ![r].at = "released"]
      /\ LiveDrains(r) = {}
  BY DEF ReleaseIdle, journal, bounds
<1>2. lease' \in Leases /\ lease'.owner = NoOne /\ ~lease'.valid
  BY <1>0, <1>1, LeaseFields DEF Types
<1>3. /\ lock' \in [Runtime -> Locks] /\ lock'[r].at = "released"
      /\ \A u \in Runtime \ {r} : lock'[u] = lock[u]
  <2>1. lock[r] \in Locks
    BY <1>0 DEF Types
  <2>2. [lock[r] EXCEPT !.at = "released"] \in Locks /\ [lock[r] EXCEPT !.at = "released"].at = "released"
    BY <2>1, LockFields
  <2> QED  BY <1>0, <1>1, <2>2 DEF Types
<1>4. Types'
  BY <1>0, <1>1, <1>2, <1>3 DEF Types
<1>5. JournalsOK' /\ Grows
  BY <1>0, <1>1, JournalsSame
<1>6. Frame(r)
  BY <1>1, <1>2, <1>3, <1>5 DEF Frame
<1>7. ~Mine(r)' /\ ~Fenced(r)'
  BY <1>2, TakeoverAssumption DEF Mine, Fenced
<1>8. Shape(drains'[r]) /\ TakenOK(r)' /\ EngineOK(r)' /\ RenewalOK(r)'
  BY <1>0, <1>1, <1>7 DEF RuntimeOK, TakenOK, EngineOK, RenewalOK
<1>9. OwnerOK(r)'
  BY <1>0, <1>1, <1>3, <1>7 DEF RuntimeOK, OwnerOK, Runs, LiveDrains, Recovering
<1>10. ReportOK(r)'
  BY <1>0, <1>1, <1>7 DEF RuntimeOK, ReportOK
<1> QED  BY <1>2, <1>4, <1>5, <1>6, <1>8, <1>9, <1>10, Assemble DEF RuntimeOK

\* A runtime that forgets the ownership and runs no turn.
LEMMA Forgotten ==
    ASSUME IInv, NEW r \in Runtime, Types', Frame(r), JournalsOK',
           lease'.owner # NoOne => lease'.generation > 0,
           own'[r] = 0, renewals'[r] = {}, lock'[r].at = "free",
           Shape(drains'[r]), TakenOK(r)', Runs(r)' = {},
           delivered'[r] # 0 => delivered'[r] \in accepted'["parent"]
    PROVE  IInv'
<1>1. ~Mine(r)' /\ ~Fenced(r)'
  BY TakeoverAssumption DEF Mine, Fenced
<1>2. EngineOK(r)' /\ RenewalOK(r)' /\ ReportOK(r)'
  BY <1>1 DEF EngineOK, RenewalOK, ReportOK
<1>3. OwnerOK(r)'
  BY <1>1 DEF OwnerOK, Recovering
<1> QED  BY <1>2, <1>3, Assemble DEF RuntimeOK

\* Forgetting an ownership touches this runtime only.
LEMMA ForgetOwnershipIs ==
    ASSUME Types, NEW r \in Runtime, ForgetOwnership(r)
    PROVE  /\ own' \in [Runtime -> Nat] /\ own'[r] = 0
           /\ renewals' \in [Runtime -> SUBSET Renewal] /\ renewals'[r] = {}
           /\ \A u \in Runtime \ {r} : own'[u] = own[u] /\ renewals'[u] = renewals[u]
  BY DEF ForgetOwnership, Types

LEMMA ReleasedInv ==
    ASSUME IInv, NEW r \in Runtime, Released(r)
    PROVE  IInv'
<1>0. Types /\ JournalsOK /\ RuntimeOK(r) /\ (lease.owner # NoOne => lease.generation > 0)
  BY DEF IInv
<1>1. /\ UNCHANGED <<lease, queue, open, opener, ended, accepted, sent, unrecovered, drains, delivered>>
      /\ lock' = [lock EXCEPT ![r] = Free]
      /\ lock[r].at = "released" /\ ForgetOwnership(r)
  BY DEF Released, journal, bounds
<1>2. /\ own' \in [Runtime -> Nat] /\ own'[r] = 0
      /\ renewals' \in [Runtime -> SUBSET Renewal] /\ renewals'[r] = {}
      /\ \A u \in Runtime \ {r} : own'[u] = own[u] /\ renewals'[u] = renewals[u]
  BY <1>0, <1>1, ForgetOwnershipIs
<1>3. /\ lock' \in [Runtime -> Locks] /\ lock'[r].at = "free"
      /\ \A u \in Runtime \ {r} : lock'[u] = lock[u]
  BY <1>0, <1>1, LockFields DEF Types
<1>4. Types'
  BY <1>0, <1>1, <1>2, <1>3 DEF Types
<1>5. JournalsOK' /\ Grows
  BY <1>0, <1>1, JournalsSame
<1>6. Frame(r)
  BY <1>1, <1>2, <1>3, <1>5 DEF Frame
<1>7. Runs(r)' = {}
  BY <1>0, <1>1 DEF RuntimeOK, OwnerOK, Runs, LiveDrains, Shape, Working
<1>8. Shape(drains'[r]) /\ TakenOK(r)' /\ (delivered'[r] # 0 => delivered'[r] \in accepted'["parent"])
  BY <1>0, <1>1 DEF RuntimeOK, TakenOK, ReportOK
<1> QED  BY <1>0, <1>1, <1>2, <1>3, <1>4, <1>5, <1>6, <1>7, <1>8, Forgotten

LEMMA ReleaseRefusedInv ==
    ASSUME IInv, NEW r \in Runtime, ReleaseRefused(r)
    PROVE  IInv'
<1>1. /\ UNCHANGED <<lease, queue, open, opener, ended, accepted, sent, own, unrecovered,
                     renewals, drains, delivered>>
      /\ lock' = [lock EXCEPT ![r] = Free] /\ lock[r].at = "release"
  BY DEF ReleaseRefused, journal, bounds
<1>2. /\ r \in unrecovered /\ Fenced(r) => drains[r] = {}
      /\ lock[r].at \notin {"recover", "deliver"}
  BY <1>1 DEF IInv, RuntimeOK, OwnerOK, Recovering
<1> QED  BY <1>1, <1>2, Unlocks

LEMMA CloseInv ==
    ASSUME IInv, NEW r \in Runtime, Close(r)
    PROVE  IInv'
<1>0. Types /\ JournalsOK /\ RuntimeOK(r)
  BY DEF IInv
<1> DEFINE S == drains[r]
           W == LiveDrains(r)
           T == Cancelled(S, W)
<1>1. /\ UNCHANGED <<lease, queue, open, opener, ended, accepted, sent, own, unrecovered,
                     renewals, lock, delivered>>
      /\ drains' = [drains EXCEPT ![r] = T]
  BY DEF Close, journal
<1>2. S \in SUBSET Drain /\ Shape(S) /\ W \in SUBSET S
  BY <1>0 DEF Types, RuntimeOK, LiveDrains
<1>3. /\ T \in SUBSET Drain /\ Shape(T) /\ Within(T, S) /\ Looks(T, S)
      /\ \A d \in T : d.at = "run" \/ d.live => d \in S \ W
  BY <1>2, CancelledIs
<1>4. \A d \in T : d.at # "run" /\ ~d.live
  <2>1. \A d \in S \ W : d.at # "run" /\ ~d.live
    BY <1>2 DEF Shape, Working, LiveDrains
  <2> QED  BY <1>3, <2>1
<1>5. S = {} => T = {}
  BY <1>3 DEF Within
<1> HIDE DEF S, W, T
<1>6. /\ drains' \in [Runtime -> SUBSET Drain] /\ drains'[r] = T
      /\ \A u \in Runtime \ {r} : drains'[u] = drains[u]
  BY <1>0, <1>1, <1>3 DEF Types
<1>7. Types'
  BY <1>0, <1>1, <1>6 DEF Types
<1>8. JournalsOK' /\ Grows
  BY <1>0, <1>1, JournalsSame
<1>9. Frame(r)
  BY <1>1, <1>6, <1>8 DEF Frame
<1>10. (Mine(r)' <=> Mine(r)) /\ (Fenced(r)' <=> Fenced(r))
  BY <1>1 DEF Mine, Fenced
<1>11. Runs(r)' = {} /\ LiveDrains(r)' = {} /\ (drains[r] = {} => drains'[r] = {})
  BY <1>4, <1>5, <1>6 DEF Runs, LiveDrains, S
<1>12. TakenOK(r)' /\ EngineOK(r)'
  <2>1. From(drains'[r], drains[r])
    BY <1>3, <1>6, WithinFrom DEF S
  <2> QED  BY <1>1, <1>3, <1>6, <1>7, <1>8, <1>10, <2>1, TasksKept
<1>13. OwnerOK(r)'
  BY <1>0, <1>1, <1>10, <1>11 DEF RuntimeOK, OwnerOK
<1>14. RenewalOK(r)'
  BY <1>0, <1>1 DEF RuntimeOK, RenewalOK
<1>15. ReportOK(r)'
  <2>1. Looks(drains'[r], drains[r])
    BY <1>3, <1>6 DEF S
  <2> QED  BY <1>0, <1>1, <1>10, <2>1 DEF RuntimeOK, ReportOK, Looks
<1> QED  BY <1>1, <1>3, <1>6, <1>7, <1>8, <1>9, <1>12, <1>13, <1>14, <1>15, Assemble DEF RuntimeOK, IInv

LEMMA CloseRootInv ==
    ASSUME IInv, NEW r \in Runtime, CloseRoot(r)
    PROVE  IInv'
<1>0. Types /\ JournalsOK /\ RuntimeOK(r) /\ (lease.owner # NoOne => lease.generation > 0)
  BY DEF IInv
<1>1. /\ UNCHANGED <<queue, opener, accepted, sent, unrecovered, lock, drains, delivered>>
      /\ lock[r] = Free /\ drains[r] = {} /\ ForgetOwnership(r)
  BY DEF CloseRoot, bounds, Unlocked
<1>2. /\ own' \in [Runtime -> Nat] /\ own'[r] = 0
      /\ renewals' \in [Runtime -> SUBSET Renewal] /\ renewals'[r] = {}
      /\ \A u \in Runtime \ {r} : own'[u] = own[u] /\ renewals'[u] = renewals[u]
  BY <1>0, <1>1, ForgetOwnershipIs
<1>3. /\ ended' \in [Actor -> Seq(End)] /\ open' \in [Actor -> Int] /\ JournalsOK'
      /\ lease' \in Leases
      /\ lease'.owner # NoOne => lease'.generation > 0
      /\ \/ lease'.owner \in {r, NoOne}
         \/ lease' = lease /\ open' = open /\ ended' = ended
  <2>1. CASE Fenced(r)
    <3>1. /\ ended' = [a \in Actor |-> Interrupted(a)]
          /\ open' = [a \in Actor |-> 0]
          /\ lease' \in {lease, [lease EXCEPT !.owner = NoOne, !.valid = FALSE]}
      BY <2>1 DEF CloseRoot
    <3>2. ended' \in [Actor -> Seq(End)] /\ open' \in [Actor -> Int] /\ JournalsOK'
      BY <1>0, <1>1, <3>1, InterruptedIs
    <3>3. lease \in Leases /\ lease.owner = r
      BY <1>0, <2>1 DEF Types, Fenced
    <3>4. CASE lease' = lease
      BY <1>0, <3>2, <3>3, <3>4
    <3>5. CASE lease' = [lease EXCEPT !.owner = NoOne, !.valid = FALSE]
      BY <3>2, <3>3, <3>5, LeaseFields
    <3> QED  BY <3>1, <3>4, <3>5
  <2>2. CASE ~Fenced(r)
    <3>1. UNCHANGED <<ended, open, lease>>
      BY <2>2 DEF CloseRoot
    <3>2. JournalsOK'
      BY <1>0, <1>1, <3>1, JournalsSame
    <3> QED  BY <1>0, <3>1, <3>2 DEF Types
  <2> QED  BY <2>1, <2>2
<1>4. Types'
  BY <1>0, <1>1, <1>2, <1>3 DEF Types
<1>5. Grows
  BY <1>1 DEF Grows
<1>6. Frame(r)
  BY <1>1, <1>2, <1>3, <1>5 DEF Frame
<1>7. Shape(drains'[r]) /\ TakenOK(r)' /\ Runs(r)' = {} /\ lock'[r].at = "free"
  BY <1>1, LockFields DEF Shape, TakenOK, Runs
<1>8. delivered'[r] # 0 => delivered'[r] \in accepted'["parent"]
  BY <1>0, <1>1 DEF RuntimeOK, ReportOK
<1> QED  BY <1>2, <1>3, <1>4, <1>6, <1>7, <1>8, Forgotten

LEMMA CrashInv ==
    ASSUME IInv, NEW r \in Runtime, Crash(r)
    PROVE  IInv'
<1>0. Types /\ JournalsOK /\ RuntimeOK(r) /\ (lease.owner # NoOne => lease.generation > 0)
  BY DEF IInv
<1>1. /\ UNCHANGED <<lease, queue, open, opener, ended, accepted, sent>>
      /\ own' = [own EXCEPT ![r] = 0]
      /\ unrecovered' = unrecovered \ {r}
      /\ renewals' = [renewals EXCEPT ![r] = {}]
      /\ lock' = [lock EXCEPT ![r] = Free]
      /\ drains' = [drains EXCEPT ![r] = {}]
      /\ delivered' = [delivered EXCEPT ![r] = 0]
  BY DEF Crash, journal
<1>2. /\ own' \in [Runtime -> Nat] /\ own'[r] = 0
      /\ renewals' \in [Runtime -> SUBSET Renewal] /\ renewals'[r] = {}
      /\ \A u \in Runtime \ {r} : own'[u] = own[u] /\ renewals'[u] = renewals[u]
  BY <1>0, <1>1 DEF Types
<1>3. /\ lock' \in [Runtime -> Locks] /\ lock'[r].at = "free"
      /\ \A u \in Runtime \ {r} : lock'[u] = lock[u]
  BY <1>0, <1>1, LockFields DEF Types
<1>4. /\ drains' \in [Runtime -> SUBSET Drain] /\ drains'[r] = {}
      /\ delivered' \in [Runtime -> Int] /\ delivered'[r] = 0
      /\ \A u \in Runtime \ {r} : drains'[u] = drains[u] /\ delivered'[u] = delivered[u]
  BY <1>0, <1>1 DEF Types
<1>5. Types'
  BY <1>0, <1>1, <1>2, <1>3, <1>4 DEF Types
<1>6. JournalsOK' /\ Grows
  BY <1>0, <1>1, JournalsSame
<1>7. Frame(r)
  BY <1>1, <1>2, <1>3, <1>4, <1>6 DEF Frame
<1>8. Shape(drains'[r]) /\ TakenOK(r)' /\ Runs(r)' = {}
  BY <1>4 DEF Shape, TakenOK, Runs
<1> QED  BY <1>0, <1>1, <1>2, <1>3, <1>4, <1>5, <1>6, <1>7, <1>8, Forgotten

----------------------------------------------------------------------------
(* The theorems *)

LEMMA InitInv == TakeoverInit => IInv
<1> SUFFICES ASSUME TakeoverInit PROVE IInv
  OBVIOUS
<1>1. <<>> \in Seq(Int) /\ <<>> \in Seq(End) /\ Range(<<>>) = {} /\ Turns(<<>>) = {} /\ DOMAIN <<>> = {}
  BY DEF Range, Turns
<1>2. lease \in Leases /\ lease.owner = NoOne
  BY DEF TakeoverInit, Leases
<1>3. Types
  BY <1>1, <1>2, LockFields DEF TakeoverInit, Types
<1>4. JournalsOK
  <2>1. \A a \in Actor : JournalOK(a, <<>>, 0, <<>>, {}, 0)
    BY <1>1 DEF JournalOK
  <2>2. Reports(<<>>, {})
    <3>1. \A i \in 1 .. (Len(<<>>) - 1) : FALSE
      OBVIOUS
    <3> QED  BY <3>1 DEF Reports
  <2>3. \A a \in Actor : /\ queue[a] = <<>> /\ open[a] = 0 /\ ended[a] = <<>> /\ accepted[a] = {}
    BY DEF TakeoverInit
  <2>4. sent = 0
    BY DEF TakeoverInit
  <2> QED  BY <2>1, <2>2, <2>3, <2>4 DEF JournalsOK, Actor
<1>5. ASSUME NEW r \in Runtime PROVE RuntimeOK(r)
  <2>1. /\ drains[r] = {} /\ renewals[r] = {} /\ delivered[r] = 0 /\ lock[r] = Free
        /\ unrecovered = {} /\ own[r] = 0
    BY DEF TakeoverInit
  <2>2. ~Mine(r) /\ ~Fenced(r)
    BY <1>2, TakeoverAssumption DEF Mine, Fenced
  <2>3. Shape(drains[r]) /\ TakenOK(r) /\ EngineOK(r) /\ RenewalOK(r) /\ ReportOK(r)
    BY <2>1, <2>2 DEF Shape, TakenOK, EngineOK, RenewalOK, ReportOK
  <2>4. OwnerOK(r)
    BY <2>1, <2>2, LockFields DEF OwnerOK, Runs, Recovering
  <2> QED  BY <2>3, <2>4 DEF RuntimeOK
<1> QED  BY <1>2, <1>3, <1>4, <1>5 DEF IInv

LEMMA StutterInv ==
    ASSUME IInv, UNCHANGED takeoverVars
    PROVE  IInv'
<1>1. UNCHANGED <<lease, queue, open, opener, ended, accepted, sent, own, unrecovered, renewals,
                  lock, drains, delivered>>
  BY DEF takeoverVars, journal, bounds, memory
<1>2. Types' /\ JournalsOK' /\ (lease'.owner # NoOne => lease'.generation > 0)
  BY <1>1 DEF IInv, Types, JournalsOK
<1>3. ASSUME NEW r \in Runtime PROVE RuntimeOK(r)'
  <2>1. RuntimeOK(r)
    BY DEF IInv
  <2>2. (Mine(r)' <=> Mine(r)) /\ (Fenced(r)' <=> Fenced(r))
    BY <1>1 DEF Mine, Fenced
  <2>3. Shape(drains'[r]) /\ TakenOK(r)' /\ EngineOK(r)' /\ RenewalOK(r)' /\ ReportOK(r)'
    BY <1>1, <2>1, <2>2 DEF RuntimeOK, TakenOK, EngineOK, Runs, RenewalOK, ReportOK
  <2>4. OwnerOK(r)'
    BY <1>1, <2>1, <2>2 DEF RuntimeOK, OwnerOK, Runs, LiveDrains
  <2> QED  BY <2>3, <2>4 DEF RuntimeOK
<1> QED  BY <1>2, <1>3 DEF IInv

LEMMA DrainStepInv ==
    ASSUME IInv, NEW r \in Runtime, NEW d \in drains[r],
           \/ DrainBegin(r, d) \/ Reconcile(r, d) \/ DrainEmpty(r, d) \/ StartTurn(r, d)
           \/ InterruptOpen(r, d) \/ CompleteTurn(r, d) \/ Deliver(r, d) \/ DrainFails(r, d)
           \/ Unwind(r, d) \/ Finally(r, d)
    PROVE  IInv'
  BY DrainBeginInv, ReconcileInv, DrainEmptyInv, StartTurnInv, InterruptOpenInv, CompleteTurnInv,
     DeliverInv, DrainFailsInv, UnwindInv, FinallyInv

LEMMA NextInv ==
    ASSUME IInv, [TakeoverNext]_takeoverVars, LateFaults = FALSE
    PROVE  IInv'
<1>1. CASE UNCHANGED takeoverVars
  BY <1>1, StutterInv
<1>2. CASE LeaseExpires
  BY <1>2, LeaseExpiresInv
<1>3. ASSUME NEW r \in Runtime,
             \/ EnsureOwner(r)
             \/ \E t \in renewals[r] : RenewFails(r, t) \/ Invalidate(r, t)
             \/ Recover(r) \/ RecoveryDelivers(r) \/ \E a \in Actor : RecoveryActivates(r, a)
             \/ Recovered(r) \/ RecoveryFails(r) \/ \E a \in Actor : RequestRecovers(r, a)
      PROVE  IInv'
  BY <1>3, EnsureOwnerInv, RenewFailsInv, InvalidateInv, RecoverInv, RecoveryDeliversInv,
     RecoveryActivatesInv, RecoveredInv, RecoveryFailsInv, RequestRecoversInv
<1>4. ASSUME NEW r \in Runtime,
             \/ \E a \in Actor : HandleRequest(r, a)
             \/ ApplyRequest(r) \/ HandleCancel(r) \/ ActorCancel(r)
      PROVE  IInv'
  BY <1>4, HandleRequestInv, ApplyRequestInv, HandleCancelInv, ActorCancelInv
<1>5. ASSUME NEW r \in Runtime,
             \/ ReleaseIdle(r) \/ Released(r) \/ ReleaseRefused(r)
             \/ Close(r) \/ CloseRoot(r) \/ Crash(r)
      PROVE  IInv'
  BY <1>5, ReleaseIdleInv, ReleasedInv, ReleaseRefusedInv, CloseInv, CloseRootInv, CrashInv
<1> QED  BY <1>1, <1>2, <1>3, <1>4, <1>5, DrainStepInv DEF TakeoverNext

\* The inductive invariant, under the assumption that recovery does not fail
\* while the runtime has the lease and tasks from before (runtime.py:478).
THEOREM TakeoverInvariant ==
    ASSUME LateFaults = FALSE
    PROVE  TakeoverSpec => []IInv
  BY InitInv, NextInv, PTL DEF TakeoverSpec

\* A turn that is over is over once.
LEMMA JournalsOnce == IInv => OneTerminalPerTurn
<1> SUFFICES ASSUME IInv, NEW a \in Actor, NEW i \in 1 .. Len(ended[a]), NEW j \in 1 .. Len(ended[a]),
                    ended[a][i].turn = ended[a][j].turn
             PROVE  i = j
  BY DEF OneTerminalPerTurn
<1> DEFINE e == ended[a]
<1>1. e \in Seq(End) /\ JournalOK(a, queue[a], open[a], e, accepted[a], sent)
  BY DEF IInv, Types, JournalsOK
<1> HIDE DEF e
<1>2. DOMAIN e = 1 .. Len(e)
  BY <1>1, LenProperties
<1> QED  BY <1>1, <1>2 DEF JournalOK, e

\* Every turn has at most one terminal event, whoever wrote it: the engine, a
\* handler, a cancellation, recovery or the close of another runtime.
THEOREM TurnsEndOnce ==
    ASSUME LateFaults = FALSE
    PROVE  TakeoverSpec => []OneTerminalPerTurn
  BY TakeoverInvariant, JournalsOnce, PTL

\* Every process is one of the runtimes.
Known == up \subseteq Runtime

LEMMA Processes == TakeoverSpec => []Known
<1>1. TakeoverInit => Known
  BY DEF TakeoverInit, Known
<1>2. [TakeoverNext]_takeoverVars => up' \subseteq up
  <2>1. UNCHANGED takeoverVars => up' = up
    BY DEF takeoverVars
  <2>2. LeaseExpires => up' = up
    BY DEF LeaseExpires
  <2>3. ASSUME NEW r \in Runtime, NEW d \in drains[r],
               \/ DrainBegin(r, d) \/ Reconcile(r, d) \/ DrainEmpty(r, d) \/ StartTurn(r, d)
               \/ InterruptOpen(r, d) \/ CompleteTurn(r, d) \/ Deliver(r, d) \/ DrainFails(r, d)
               \/ Unwind(r, d) \/ Finally(r, d)
        PROVE  up' = up
    BY <2>3 DEF DrainBegin, Reconcile, DrainEmpty, StartTurn, InterruptOpen, CompleteTurn,
                Deliver, DrainFails, Unwind, Finally
  <2>4. ASSUME NEW r \in Runtime,
               \/ EnsureOwner(r)
               \/ \E t \in renewals[r] : RenewFails(r, t) \/ Invalidate(r, t)
               \/ Recover(r) \/ RecoveryDelivers(r) \/ \E a \in Actor : RecoveryActivates(r, a)
               \/ Recovered(r) \/ RecoveryFails(r) \/ \E a \in Actor : RequestRecovers(r, a)
        PROVE  up' = up
    BY <2>4 DEF EnsureOwner, RenewFails, Invalidate, Recover, RecoveryDelivers, RecoveryActivates,
                Recovered, RecoveryFails, RequestRecovers
  <2>5. ASSUME NEW r \in Runtime,
               \/ \E a \in Actor : HandleRequest(r, a)
               \/ ApplyRequest(r) \/ HandleCancel(r) \/ ActorCancel(r)
               \/ ReleaseIdle(r) \/ Released(r) \/ ReleaseRefused(r)
               \/ Close(r) \/ CloseRoot(r) \/ Crash(r)
        PROVE  up' \subseteq up
    BY <2>5 DEF HandleRequest, ApplyRequest, Accept, HandleCancel, ActorCancel, ReleaseIdle,
                Released, ReleaseRefused, Close, CloseRoot, Crash
  <2> QED  BY <2>1, <2>2, <2>3, <2>4, <2>5 DEF TakeoverNext
<1>3. Known /\ [TakeoverNext]_takeoverVars => Known'
  BY <1>2 DEF Known
<1> QED  BY <1>1, <1>3, PTL DEF TakeoverSpec

\* A failed renewal takes away the ownership it renewed, a recovered owner shows
\* only open turns of its own, and the end of a child's turn is in the parent's
\* journal before the next one ends, cancellations apart.
THEOREM TakeoversStayClean ==
    ASSUME LateFaults = FALSE
    PROVE  TakeoverSpec => []TakeoversAreClean
<1>1. IInv /\ Known => TakeoversAreClean
  <2> SUFFICES ASSUME IInv, up \subseteq Runtime PROVE TakeoversAreClean
    BY DEF Known
  <2>1. RenewalsKnowTheirLease
    BY DEF RenewalsKnowTheirLease, IInv, RuntimeOK, RenewalOK
  <2>2. OpenTurnsAreTheOwners
    BY DEF OpenTurnsAreTheOwners, IInv, RuntimeOK, OwnerOK, Fenced, Mine
  <2>3. EndsAreReported
    BY DEF EndsAreReported, Reported, IInv, JournalsOK, Reports
  <2> QED  BY <2>1, <2>2, <2>3 DEF TakeoversAreClean
<1> QED  BY <1>1, TakeoverInvariant, Processes, PTL
=============================================================================
