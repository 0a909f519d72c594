-------------------------- MODULE DrainLoopProofs ---------------------------
(***************************************************************************)
(* The drain loop, for every set of inputs, cancellations and tasks and    *)
(* any number of calls and restarts: every input gets at most one turn,    *)
(* turns start in order, and a cancellation that returned has ended what   *)
(* it was for.  SlowUnwind = FALSE throughout: what a cancelled task       *)
(* awaited unwinds at once.                                                *)
(***************************************************************************)
EXTENDS DrainLoop, FiniteSetTheorems, TLAPS

----------------------------------------------------------------------------
(* The inductive invariant *)

queued(j) == Ids(j, {"InputQueued"})

\* Input a was accepted before input b.
Precedes(j, a, b) ==
    \A m, n \in DOMAIN j : j[m] = Queued(a) /\ j[n] = Queued(b) => m < n

\* What the cancellation at position n is for.
Reach(j, n) ==
    LET before == SubSeq(j, 1, n)
    IN  {c \in PendingIds(before) : j[n].descendants \/ c \in UserInput}
        \cup incomplete(before)

\* The events of an input come in order, each at most once.
InStages(j) ==
    /\ \A m, n \in DOMAIN j :
          m < n /\ Stage(j[m]) > 0 /\ j[m].id = j[n].id => Stage(j[m]) < Stage(j[n])
    /\ \A n \in DOMAIN j : Stage(j[n]) > 1 => j[n].id \in queued(j)

\* At most one turn is open.
OneOpen(j) == \A a, b \in started(j) \ terminal(j) : a = b

\* Turns start in order, and every started input precedes every pending one.
Ordered(j) ==
    /\ \A m, n \in DOMAIN j :
          m < n /\ j[m].kind = "TurnStarted" /\ j[n].kind = "TurnStarted"
          => Precedes(j, j[m].id, j[n].id)
    /\ \A a \in started(j), b \in PendingIds(j) : Precedes(j, a, b)

IsRequest(j, n) == n \in DOMAIN j /\ j[n].kind = "CancellationRequested"

\* A cancellation is recorded once; its targets are distinct inputs accepted by
\* then, and among them is everything it is for.
Requests(j) ==
    /\ \A m, n \in DOMAIN j :
          IsRequest(j, m) /\ IsRequest(j, n) /\ j[m].id = j[n].id => m = n
    /\ \A n \in DOMAIN j :
          IsRequest(j, n) =>
             /\ ToSet(j[n].targets) \subseteq queued(j)
             /\ IsInjective(j[n].targets)
             /\ Reach(j, n) \subseteq ToSet(j[n].targets)

JournalInv(j) == InStages(j) /\ OneOpen(j) /\ Ordered(j) /\ Requests(j)

\* A task that is not the active one is on its way out; a task's turn is its
\* input; no two turns have the same generation.
TaskOK(t) ==
    /\ task[t].at = "free" => task[t] = FreeTask
    /\ t = active => ~task[t].cancelled
    /\ t # active /\ task[t].at # "free"
          => task[t].cancelled \/ task[t].at \in {"abort", "leave"}
    /\ task[t].turn # None =>
          /\ task[t].turn = task[t].current
          /\ task[t].at \in {"start", "run", "ended", "fail", "abort"}
    /\ task[t].at \in {"start", "run"} => task[t].generation > 0
    /\ task[t].generation <= turnGeneration
    /\ \A u \in Task :
          task[t].generation = task[u].generation /\ task[t].generation > 0 => t = u

TaskInv == \A t \in Task : TaskOK(t)

\* Shutdown: the tasks found active are the only ones left, and no cancellation
\* outlives the sweep.
ShutdownInv ==
    /\ shutdown \in {"begun", "swept"} =>
          active \in doomed \cup {None} /\ \A t, u \in doomed : t = u
    /\ shutdown \in {"swept", "done"} => cancelling = None
    /\ shutdown = "done" => active = None
    /\ coordinated => shutdown = "no"

\* The engine of this task may append.
Current(t) == task[t].at \in {"start", "run"} /\ MayAppend(t)

\* The turn of an engine that may append is the actor's: about to start when no
\* other is open, or open.  It has ended only while a cancellation that will
\* stop the task still holds the lock.
EngineInv ==
    \A t \in Task :
        Current(t) =>
           /\ task[t].turn = task[t].current /\ task[t].current # None
           /\ t = active \/ shutdown = "done"
           /\ task[t].current \in terminal(journal) =>
                 /\ cancelling # None
                 /\ IF coordinated THEN task[t].current \in ToSet(cancelling.todo)
                    ELSE cancelling.decision /\ cancelling.turn = task[t].current
           /\ task[t].current \notin terminal(journal) =>
                 IF task[t].at = "start"
                 THEN /\ task[t].current \in PendingIds(journal)
                      /\ started(journal) \subseteq terminal(journal)
                 ELSE task[t].current \in started(journal)

\* The input a task prepares is the oldest one as long as it is pending, and no
\* turn is open.
PrepareInv ==
    \A t \in Task :
        /\ Resumes(t, "prepare") =>
              /\ started(journal) \subseteq terminal(journal)
              /\ task[t].current \in queued(journal)
        /\ Resumes(t, "prepare") \/ (task[t].at = "start" /\ MayAppend(t)) =>
              \A c \in PendingIds(journal) :
                  task[t].current \in PendingIds(journal) /\ c # task[t].current
                  => Precedes(journal, task[t].current, c)

\* A task on its way out that will close its turn if it is open.
Unwinds(t) ==
    \/ task[t].at = "abort"
    \/ task[t].cancelled /\ task[t].at \notin {"free", "leave"}

\* No such task has the turn of an engine that may append, and the turns of
\* tasks that were stopped have ended.
RivalInv ==
    /\ \A t, u \in Task :
          Current(u) /\ t # u /\ Unwinds(t) => task[t].current # task[u].current
    /\ \A t \in Task :
          t # active /\ task[t].turn # None /\ shutdown # "done"
          => task[t].turn \in terminal(journal)

\* A cancellation under way without a coordinator.
LocalInv ==
    cancelling # None /\ ~coordinated =>
       /\ active # None => task[active].turn \in {None, cancelling.turn}
       /\ active # None /\ cancelling.turn \in ToSet(cancelling.todo) => cancelling.decision
       /\ cancelling.decision => active # None
       /\ cancelling.decision /\ cancelling.turn # None
             => cancelling.turn \in ToSet(cancelling.todo) \cup terminal(journal)
       /\ cancelling.last # None => cancelling.last \in terminal(journal)
       /\ ToSet(cancelling.todo) \subseteq queued(journal)
       /\ Recorded(cancelling.id) # {}
       /\ \A n \in Recorded(cancelling.id) :
             ToSet(journal[n].targets) \subseteq ToSet(cancelling.todo) \cup terminal(journal)

\* A cancellation under way with a coordinator has ended its targets already.
CoordinatedInv ==
    cancelling # None /\ coordinated => ToSet(cancelling.todo) \subseteq terminal(journal)

\* A cancellation that returned is recorded, and its targets have ended.
ReceiptInv ==
    \A k \in acknowledged :
        /\ Recorded(k) # {}
        /\ \A n \in Recorded(k) : ToSet(journal[n].targets) \subseteq terminal(journal)

IInv ==
    /\ TypeOK
    /\ JournalInv(journal)
    /\ TaskInv
    /\ ShutdownInv
    /\ EngineInv
    /\ PrepareInv
    /\ RivalInv
    /\ LocalInv
    /\ CoordinatedInv
    /\ ReceiptInv

----------------------------------------------------------------------------
(* Ordered choices *)

\* InOrder enumerates a set of positions, each once, the smallest first.
LEMMA InOrderEnumerates ==
    ASSUME NEW N \in Nat, NEW P \in SUBSET (1 .. N)
    PROVE  /\ Cardinality(P) \in Nat
           /\ InOrder(P) \in [1 .. Cardinality(P) -> P]
           /\ \A k, l \in 1 .. Cardinality(P) : InOrder(P)[k] = InOrder(P)[l] => k = l
           /\ \A n \in P : \E k \in 1 .. Cardinality(P) : InOrder(P)[k] = n
           /\ P = {} <=> Cardinality(P) = 0
           /\ P # {} => \A n \in P : InOrder(P)[1] <= n
<1> DEFINE card == Cardinality(P)
           below(n) == {m \in P : m <= n}
           rank == [n \in P |-> Cardinality(below(n))]
<1>1. IsFiniteSet(P) /\ card \in Nat /\ P \subseteq Nat
  <2>1. IsFiniteSet(1 .. N)
    BY FS_Interval
  <2>2. IsFiniteSet(P)
    BY <2>1, FS_Subset
  <2> QED BY <2>2, FS_CardinalityType
<1>2. \A n \in P : /\ IsFiniteSet(below(n)) /\ Cardinality(below(n)) \in Nat
                   /\ Cardinality(below(n)) <= card
  BY <1>1, FS_Subset, FS_CardinalityType
<1>3. \A n \in P : rank[n] \in 1 .. card
  <2> SUFFICES ASSUME NEW n \in P PROVE Cardinality(below(n)) \in 1 .. card
    OBVIOUS
  <2>1. n \in below(n)
    BY <1>1
  <2>2. Cardinality(below(n)) # 0
    BY <2>1, <1>2, FS_EmptySet
  <2> QED BY <2>2, <1>1, <1>2
<1>4. ASSUME NEW m \in P, NEW n \in P, m < n
      PROVE  rank[m] < rank[n]
  <2>1. below(m) \subseteq below(n) /\ n \in below(n) /\ n \notin below(m)
    <3>1. m \in Nat /\ n \in Nat /\ ~(n <= m) /\ n <= n
      BY <1>1, <1>4
    <3>2. \A o \in P : o <= m => o <= n
      BY <1>1, <1>4
    <3> QED BY <3>1, <3>2
  <2>2. below(m) # below(n)
    BY <2>1
  <2>3. Cardinality(below(m)) <= Cardinality(below(n))
    BY <2>1, <1>2, FS_Subset
  <2>4. Cardinality(below(m)) # Cardinality(below(n))
    BY <2>1, <2>2, <1>2, FS_Subset
  <2> QED BY <2>3, <2>4, <1>2
<1>5. \A m, n \in P : rank[m] = rank[n] => m = n
  BY <1>1, <1>3, <1>4
<1>6. rank \in Injection(P, 1 .. card)
  BY <1>3, <1>5 DEF Injection, IsInjective
<1>7. IsFiniteSet(1 .. card) /\ Cardinality(1 .. card) = card
  BY <1>1, FS_Interval
<1>8. \A k \in 1 .. card : \E n \in P : rank[n] = k
  <2>1. rank \in Surjection(P, 1 .. card)
    BY <1>6, <1>7, FS_Injection
  <2> QED BY <2>1 DEF Surjection
<1>9. \A k \in 1 .. card : InOrder(P)[k] \in P /\ rank[InOrder(P)[k]] = k
  <2> SUFFICES ASSUME NEW k \in 1 .. card
               PROVE  InOrder(P)[k] \in P /\ rank[InOrder(P)[k]] = k
    OBVIOUS
  <2>1. \E n \in P : Cardinality({m \in P : m <= n}) = k
    BY <1>8
  <2>2. InOrder(P)[k] = CHOOSE n \in P : Cardinality({m \in P : m <= n}) = k
    BY DEF InOrder
  <2> QED BY <2>1, <2>2
<1>10. InOrder(P) \in [1 .. card -> P]
  BY <1>9 DEF InOrder
<1>11. \A n \in P : rank[n] \in 1 .. card /\ InOrder(P)[rank[n]] = n
  BY <1>3, <1>5, <1>9
<1>12. P = {} <=> card = 0
  BY <1>1, FS_EmptySet
<1>13. P # {} => \A n \in P : InOrder(P)[1] <= n
  <2> SUFFICES ASSUME P # {}, NEW n \in P, ~(InOrder(P)[1] <= n)
               PROVE  FALSE
    OBVIOUS
  <2>1. 1 \in 1 .. card
    BY <1>1, <1>12
  <2>2. InOrder(P)[1] \in P /\ rank[InOrder(P)[1]] = 1
    BY <2>1, <1>9
  <2>3. n < InOrder(P)[1]
    <3>1. n \in Nat /\ InOrder(P)[1] \in Nat
      BY <2>2, <1>1
    <3> QED BY <3>1
  <2>4. rank[n] < 1
    BY <2>2, <2>3, <1>4
  <2> QED BY <2>4, <1>3
<1> QED BY <1>1, <1>9, <1>10, <1>11, <1>12, <1>13

\* Chosen(s, P) holds the elements of s at P, the first of them first.
LEMMA ChosenElements ==
    ASSUME NEW X, NEW s \in Seq(X), NEW P \in SUBSET DOMAIN s
    PROVE  /\ Chosen(s, P) \in Seq(X)
           /\ ToSet(Chosen(s, P)) = {s[n] : n \in P}
           /\ (\A m, n \in P : s[m] = s[n] => m = n) => IsInjective(Chosen(s, P))
           /\ Chosen(s, P) = <<>> <=> P = {}
           /\ P # {} => \E n \in P : Head(Chosen(s, P)) = s[n] /\ \A m \in P : n <= m
<1> DEFINE card == Cardinality(P)
           order == InOrder(P)
           chosen == Chosen(s, P)
<1>1. Len(s) \in Nat /\ P \in SUBSET (1 .. Len(s))
  OBVIOUS
<1>2. /\ card \in Nat
      /\ order \in [1 .. card -> P]
      /\ \A k, l \in 1 .. card : order[k] = order[l] => k = l
      /\ \A n \in P : \E k \in 1 .. card : order[k] = n
      /\ P = {} <=> card = 0
      /\ P # {} => \A n \in P : order[1] <= n
  BY <1>1, InOrderEnumerates
<1> HIDE DEF order, card
<1>3. chosen = [k \in 1 .. card |-> s[order[k]]]
  BY DEF Chosen, order, card
<1>4. \A k \in 1 .. card : chosen[k] = s[order[k]] /\ order[k] \in P
  BY <1>2, <1>3
<1>5. chosen \in Seq(X) /\ DOMAIN chosen = 1 .. card /\ Len(chosen) = card
  <2>1. chosen \in [1 .. card -> X]
    BY <1>2, <1>3, <1>1
  <2> QED BY <2>1, <1>2
<1> HIDE DEF chosen
<1>6. ToSet(chosen) = {s[n] : n \in P}
  <2>1. ToSet(chosen) = {chosen[k] : k \in 1 .. card}
    BY <1>5 DEF ToSet
  <2> QED BY <2>1, <1>2, <1>4
<1>7. (\A m, n \in P : s[m] = s[n] => m = n) => IsInjective(chosen)
  BY <1>2, <1>4, <1>5 DEF IsInjective
<1>8. chosen = <<>> <=> P = {}
  BY <1>2, <1>5
<1>9. P # {} => \E n \in P : Head(chosen) = s[n] /\ \A m \in P : n <= m
  <2> SUFFICES ASSUME P # {} PROVE \E n \in P : Head(chosen) = s[n] /\ \A m \in P : n <= m
    OBVIOUS
  <2>1. 1 \in 1 .. card
    BY <1>2
  <2>2. Head(chosen) = chosen[1]
    BY <2>1, <1>5
  <2> QED BY <2>1, <2>2, <1>2, <1>4
<1> QED BY <1>5, <1>6, <1>7, <1>8, <1>9 DEF chosen

----------------------------------------------------------------------------
(* Journals *)

\* The fields of an event, and its place in the life of its turn.
LEMMA EventFields ==
    ASSUME NEW e \in Event
    PROVE  /\ e.kind \in Terminal \cup {"InputQueued", "TurnStarted", "CancellationRequested"}
           /\ e.kind # "CancellationRequested" => e.id \in Input
           /\ e.kind = "CancellationRequested" =>
                 e.id \in CancelId /\ e.targets \in Seq(Input) /\ e.descendants \in BOOLEAN
           /\ e.kind = "InputQueued" => e = Queued(e.id)
           /\ Stage(e) \in 0 .. 3
           /\ Stage(e) = 0 <=> e.kind = "CancellationRequested"
           /\ Stage(e) = 1 <=> e.kind = "InputQueued"
           /\ Stage(e) = 2 <=> e.kind = "TurnStarted"
           /\ Stage(e) = 3 <=> e.kind \in Terminal
<1>1. CASE e \in [kind : Terminal \cup {"InputQueued", "TurnStarted"}, id : Input]
  BY <1>1 DEF Stage, Terminal, Queued
<1>2. CASE e \in [kind : {"CancellationRequested"}, id : CancelId, targets : Seq(Input),
                  descendants : BOOLEAN]
  BY <1>2 DEF Stage, Terminal
<1> QED BY <1>1, <1>2 DEF Event

\* The events the runtime makes.
LEMMA EventMakers ==
    /\ \A c \in Input : /\ Queued(c) \in Event /\ Queued(c).kind = "InputQueued"
                        /\ Queued(c).id = c
                        /\ Started(c) \in Event /\ Started(c).kind = "TurnStarted"
                        /\ Started(c).id = c
    /\ \A kind \in Terminal, c \in Input :
          Ended(kind, c) \in Event /\ Ended(kind, c).kind = kind /\ Ended(kind, c).id = c
    /\ \A k \in CancelId, targets \in Seq(Input), d \in BOOLEAN :
          LET e == Cancellation(k, targets, d)
          IN  /\ e \in Event /\ e.kind = "CancellationRequested" /\ e.id = k
              /\ e.targets = targets /\ e.descendants = d
BY DEF Queued, Started, Ended, Cancellation, Event

\* Where the events of a longer journal are.
LEMMA Positions ==
    ASSUME NEW j \in Seq(Event), NEW x \in Seq(Event)
    PROVE  /\ j \o x \in Seq(Event)
           /\ \A n \in DOMAIN j : n \in DOMAIN (j \o x) /\ (j \o x)[n] = j[n] /\ n \in Nat
           /\ \A n \in DOMAIN (j \o x) :
                 n \notin DOMAIN j =>
                    /\ n \in Nat /\ n > Len(j)
                    /\ n - Len(j) \in DOMAIN x /\ (j \o x)[n] = x[n - Len(j)]
           /\ \A i \in DOMAIN x :
                 Len(j) + i \in DOMAIN (j \o x) /\ (j \o x)[Len(j) + i] = x[i]
           /\ \A n \in DOMAIN j : SubSeq(j \o x, 1, n) = SubSeq(j, 1, n)
<1>1. /\ j \o x \in Seq(Event)
      /\ \A n \in DOMAIN j : n \in DOMAIN (j \o x) /\ (j \o x)[n] = j[n] /\ n \in Nat
      /\ \A n \in DOMAIN (j \o x) :
            n \notin DOMAIN j =>
               /\ n \in Nat /\ n > Len(j)
               /\ n - Len(j) \in DOMAIN x /\ (j \o x)[n] = x[n - Len(j)]
      /\ \A i \in DOMAIN x : Len(j) + i \in DOMAIN (j \o x) /\ (j \o x)[Len(j) + i] = x[i]
  OBVIOUS
<1>2. ASSUME NEW n \in DOMAIN j PROVE SubSeq(j \o x, 1, n) = SubSeq(j, 1, n)
  <2>1. n \in Nat /\ n <= Len(j) /\ n <= Len(j \o x)
    OBVIOUS
  <2>2. /\ SubSeq(j \o x, 1, n) = [i \in 1 .. n |-> (j \o x)[i]]
        /\ SubSeq(j, 1, n) = [i \in 1 .. n |-> j[i]]
    BY <2>1
  <2>3. \A i \in 1 .. n : (j \o x)[i] = j[i]
    BY <1>1, <2>1
  <2> QED BY <2>2, <2>3
<1> QED BY <1>1, <1>2

\* The ids in a longer journal.
LEMMA IdsConcat ==
    ASSUME NEW j \in Seq(Event), NEW x \in Seq(Event), NEW kinds
    PROVE  Ids(j \o x, kinds) = Ids(j, kinds) \cup Ids(x, kinds)
<1> DEFINE k == j \o x
<1>1. ASSUME NEW c \in Ids(k, kinds) PROVE c \in Ids(j, kinds) \cup Ids(x, kinds)
  <2>1. PICK n \in DOMAIN k : k[n].kind \in kinds /\ k[n].id = c
    BY <1>1 DEF Ids
  <2> QED BY <2>1, Positions DEF Ids
<1>2. ASSUME NEW c \in Ids(j, kinds) PROVE c \in Ids(k, kinds)
  <2>1. PICK n \in DOMAIN j : j[n].kind \in kinds /\ j[n].id = c
    BY <1>2 DEF Ids
  <2> QED BY <2>1, Positions DEF Ids
<1>3. ASSUME NEW c \in Ids(x, kinds) PROVE c \in Ids(k, kinds)
  <2>1. PICK n \in DOMAIN x : x[n].kind \in kinds /\ x[n].id = c
    BY <1>3 DEF Ids
  <2>2. Len(j) + n \in DOMAIN k /\ k[Len(j) + n] = x[n]
    BY Positions
  <2> QED BY <2>1, <2>2 DEF Ids
<1> QED BY <1>1, <1>2, <1>3

\* The same for the sets a journal is reduced to.
LEMMA ReductionsConcat ==
    ASSUME NEW j \in Seq(Event), NEW x \in Seq(Event)
    PROVE  /\ queued(j \o x) = queued(j) \cup queued(x)
           /\ started(j \o x) = started(j) \cup started(x)
           /\ terminal(j \o x) = terminal(j) \cup terminal(x)
<1>1. queued(j \o x) = queued(j) \cup queued(x)
  BY IdsConcat DEF queued
<1>2. started(j \o x) = started(j) \cup started(x)
  BY IdsConcat DEF started
<1>3. terminal(j \o x) = terminal(j) \cup terminal(x)
  BY IdsConcat DEF terminal
<1> QED BY <1>1, <1>2, <1>3

\* Membership in the sets a journal is reduced to.
LEMMA Reductions ==
    ASSUME NEW j \in Seq(Event)
    PROVE  /\ \A n \in DOMAIN j :
                 /\ j[n] \in Event
                 /\ j[n].kind = "InputQueued" => j[n].id \in queued(j)
                 /\ j[n].kind = "TurnStarted" => j[n].id \in started(j)
                 /\ j[n].kind \in Terminal => j[n].id \in terminal(j)
           /\ \A c \in queued(j) : c \in Input /\ \E n \in DOMAIN j : j[n] = Queued(c)
           /\ \A c \in started(j) :
                 \E n \in DOMAIN j : j[n].kind = "TurnStarted" /\ j[n].id = c
           /\ \A c \in terminal(j) : \E n \in DOMAIN j : j[n].kind \in Terminal /\ j[n].id = c
           /\ PendingIds(j) = queued(j) \ (started(j) \cup terminal(j))
<1>1. \A n \in DOMAIN j : j[n] \in Event
  OBVIOUS
<1>2. \A c \in queued(j) : c \in Input /\ \E n \in DOMAIN j : j[n] = Queued(c)
  BY <1>1, EventFields DEF queued, Ids
<1>3. PendingIds(j) = queued(j) \ (started(j) \cup terminal(j))
  BY DEF PendingIds, PendingAt, queued, Ids
<1> QED BY <1>1, <1>2, <1>3 DEF queued, started, terminal, Ids

\* No two events of one kind belong to the same input.
LEMMA OnceEach ==
    ASSUME NEW j \in Seq(Event), InStages(j),
           NEW m \in DOMAIN j, NEW n \in DOMAIN j, j[m].id = j[n].id,
           Stage(j[m]) = Stage(j[n]), Stage(j[m]) > 0
    PROVE  m = n
<1>1. m \in Nat /\ n \in Nat /\ Stage(j[m]) \in 0 .. 3
  BY Reductions, EventFields
<1> QED BY <1>1 DEF InStages

\* What is known of a journal in good order: the turn the reduction finds
\* incomplete is the one that is open.
LEMMA OpenFacts ==
    ASSUME NEW j \in Seq(Event), InStages(j), OneOpen(j)
    PROVE  /\ queued(j) \subseteq Input
           /\ started(j) \subseteq queued(j)
           /\ terminal(j) \subseteq queued(j)
           /\ PendingIds(j) = queued(j) \ (started(j) \cup terminal(j))
           /\ incomplete(j) = started(j) \ terminal(j)
           /\ \A a, b \in incomplete(j) : a = b
           /\ Live(j) = queued(j) \ terminal(j)
<1>1. started(j) \subseteq queued(j) /\ terminal(j) \subseteq queued(j)
  BY Reductions, EventFields DEF InStages
<1>2. incomplete(j) = started(j) \ terminal(j)
  <2>1. incomplete(j) \subseteq started(j) \ terminal(j)
    BY Reductions DEF incomplete, OpenTurns
  <2>2. ASSUME NEW c \in started(j) \ terminal(j) PROVE c \in incomplete(j)
    <3>1. PICK n \in DOMAIN j : j[n].kind = "TurnStarted" /\ j[n].id = c
      BY <2>2, Reductions
    <3>2. n \in OpenTurns(j)
      BY <2>2, <3>1 DEF OpenTurns
    <3>3. ASSUME NEW o \in OpenTurns(j) PROVE o <= n
      <4>1. o \in DOMAIN j /\ j[o].kind = "TurnStarted" /\ j[o].id \in started(j) \ terminal(j)
        BY <3>3, Reductions DEF OpenTurns
      <4>2. j[o].id = c
        BY <2>2, <4>1 DEF OneOpen
      <4>3. Stage(j[o]) = 2 /\ Stage(j[n]) = 2
        BY <3>1, <4>1, Reductions, EventFields
      <4>4. o = n
        BY <3>1, <4>1, <4>2, <4>3, OnceEach
      <4> QED BY <4>4
    <3> QED BY <3>1, <3>2, <3>3 DEF incomplete
  <2> QED BY <2>1, <2>2
<1>3. \A a, b \in incomplete(j) : a = b
  BY <1>2 DEF OneOpen
<1>4. PendingIds(j) = queued(j) \ (started(j) \cup terminal(j)) /\ queued(j) \subseteq Input
  BY Reductions
<1>5. Live(j) = queued(j) \ terminal(j)
  BY <1>1, <1>2, <1>4 DEF Live
<1> QED BY <1>1, <1>2, <1>3, <1>4, <1>5

\* The same for the journal of the invariant.
LEMMA JournalFacts ==
    ASSUME NEW j \in Seq(Event), JournalInv(j)
    PROVE  /\ queued(j) \subseteq Input
           /\ started(j) \subseteq queued(j)
           /\ terminal(j) \subseteq queued(j)
           /\ PendingIds(j) = queued(j) \ (started(j) \cup terminal(j))
           /\ incomplete(j) = started(j) \ terminal(j)
           /\ \A a, b \in incomplete(j) : a = b
           /\ Live(j) = queued(j) \ terminal(j)
BY OpenFacts DEF JournalInv

\* The reduction's queue: state.pending[0] precedes every other pending input.
LEMMA PendingFacts ==
    ASSUME NEW j \in Seq(Event), JournalInv(j)
    PROVE  /\ pending(j) = <<>> <=> PendingIds(j) = {}
           /\ pending(j) # <<>> =>
                 /\ Head(pending(j)).id \in PendingIds(j)
                 /\ \A c \in PendingIds(j) :
                       c # Head(pending(j)).id => Precedes(j, Head(pending(j)).id, c)
<1> DEFINE P == PendingAt(j)
<1>1. P \in SUBSET DOMAIN j
  BY DEF PendingAt
<1>2. /\ pending(j) = <<>> <=> P = {}
      /\ P # {} => \E n \in P : Head(pending(j)) = j[n] /\ \A m \in P : n <= m
  BY <1>1, ChosenElements DEF pending
<1>3. PendingIds(j) = {} <=> P = {}
  BY DEF PendingIds
<1>4. ASSUME P # {}
      PROVE  /\ Head(pending(j)).id \in PendingIds(j)
             /\ \A c \in PendingIds(j) :
                   c # Head(pending(j)).id => Precedes(j, Head(pending(j)).id, c)
  <2>1. PICK n \in P : Head(pending(j)) = j[n] /\ \A m \in P : n <= m
    BY <1>2, <1>4
  <2> DEFINE a == j[n].id
  <2>2. a \in PendingIds(j)
    BY DEF PendingIds
  <2>3. ASSUME NEW c \in PendingIds(j), c # a,
               NEW p \in DOMAIN j, NEW q \in DOMAIN j, j[p] = Queued(a), j[q] = Queued(c)
        PROVE  p < q
    <3>1. a \in Input /\ c \in Input /\ n \in DOMAIN j /\ j[n].kind = "InputQueued"
      BY <1>1, <2>2, Reductions DEF PendingAt
    <3>2. j[p].kind = "InputQueued" /\ j[p].id = a /\ j[q].kind = "InputQueued" /\ j[q].id = c
      BY <2>3, <3>1, EventMakers
    <3>3. Stage(j[p]) = 1 /\ Stage(j[n]) = 1
      BY <3>1, <3>2, Reductions, EventFields
    <3>4. p = n
      BY <3>1, <3>2, <3>3, OnceEach DEF JournalInv
    <3>5. q \in P
      BY <2>3, <3>2, Reductions DEF PendingAt
    <3>6. p <= q /\ p # q
      BY <2>1, <2>3, <3>2, <3>4, <3>5
    <3>7. p \in Nat /\ q \in Nat
      OBVIOUS
    <3> QED BY <3>6, <3>7
  <2>4. \A c \in PendingIds(j) : c # a => Precedes(j, a, c)
    BY <2>3 DEF Precedes
  <2> QED BY <2>1, <2>2, <2>4
<1> QED BY <1>2, <1>3, <1>4

\* A journal in good order that continues another one.
Grows(j, k) ==
    /\ k \in Seq(Event)
    /\ JournalInv(k)
    /\ \A n \in DOMAIN j : n \in DOMAIN k /\ k[n] = j[n]
    /\ queued(j) \subseteq queued(k)
    /\ started(j) \subseteq started(k)
    /\ terminal(j) \subseteq terminal(k)
    /\ \A a, b \in queued(j) : Precedes(j, a, b) => Precedes(k, a, b)
    /\ \A a \in queued(j), b \in queued(k) \ queued(j) : Precedes(k, a, b)

\* The stages stay in order when what is added keeps them.
LEMMA StagesConcat ==
    ASSUME NEW j \in Seq(Event), NEW x \in Seq(Event), InStages(j),
           \A m, n \in DOMAIN x : x[m].id = x[n].id /\ Stage(x[m]) > 0 => m = n,
           \A m \in DOMAIN j, n \in DOMAIN x :
              j[m].id = x[n].id /\ Stage(j[m]) > 0 => Stage(j[m]) < Stage(x[n]),
           \A n \in DOMAIN x : Stage(x[n]) > 1 => x[n].id \in queued(j)
    PROVE  InStages(j \o x)
<1> DEFINE k == j \o x
<1>1. ASSUME NEW m \in DOMAIN k, NEW n \in DOMAIN k,
             m < n, Stage(k[m]) > 0, k[m].id = k[n].id
      PROVE  Stage(k[m]) < Stage(k[n])
  <2>1. CASE n \in DOMAIN j
    <3>1. m \in DOMAIN j
      BY <1>1, <2>1
    <3> QED BY <1>1, <2>1, <3>1, Positions DEF InStages
  <2>2. CASE n \notin DOMAIN j /\ m \in DOMAIN j
    BY <1>1, <2>2, Positions
  <2>3. CASE n \notin DOMAIN j /\ m \notin DOMAIN j
    <3>1. m \in Nat /\ m - Len(j) \in DOMAIN x /\ k[m] = x[m - Len(j)]
      BY <2>3, Positions
    <3>2. n \in Nat /\ n - Len(j) \in DOMAIN x /\ k[n] = x[n - Len(j)]
      BY <2>3, Positions
    <3>3. m - Len(j) = n - Len(j) /\ Len(j) \in Nat
      BY <1>1, <3>1, <3>2
    <3> QED BY <1>1, <3>1, <3>2, <3>3
  <2> QED BY <2>1, <2>2, <2>3
<1>2. queued(j) \subseteq queued(k)
  BY IdsConcat DEF queued
<1>3. ASSUME NEW n \in DOMAIN k, Stage(k[n]) > 1 PROVE k[n].id \in queued(k)
  <2>1. CASE n \in DOMAIN j
    BY <1>2, <1>3, <2>1, Positions DEF InStages
  <2>2. CASE n \notin DOMAIN j
    BY <1>2, <1>3, <2>2, Positions
  <2> QED BY <2>1, <2>2
<1> QED BY <1>1, <1>3 DEF InStages

\* The order of the inputs accepted so far does not change, and later ones come
\* after them.
LEMMA PrecedesConcat ==
    ASSUME NEW j \in Seq(Event), NEW x \in Seq(Event),
           \A i \in DOMAIN x : x[i].kind = "InputQueued" => x[i].id \notin queued(j)
    PROVE  /\ \A a, b \in queued(j) : Precedes(j, a, b) => Precedes(j \o x, a, b)
           /\ \A a \in queued(j), b \in Input \ queued(j) : Precedes(j \o x, a, b)
<1> DEFINE k == j \o x
<1>1. ASSUME NEW c \in Input, NEW n \in DOMAIN k, k[n] = Queued(c)
      PROVE  /\ c \in queued(j) => n \in DOMAIN j /\ j[n] = Queued(c)
             /\ c \notin queued(j) => n \notin DOMAIN j
  <2>1. k[n].kind = "InputQueued" /\ k[n].id = c
    BY <1>1, EventMakers
  <2>2. CASE n \in DOMAIN j
    <3>1. k[n] = j[n]
      BY <2>2, Positions
    <3> QED BY <1>1, <2>1, <2>2, <3>1, Reductions
  <2>3. CASE n \notin DOMAIN j
    <3>1. n - Len(j) \in DOMAIN x /\ k[n] = x[n - Len(j)]
      BY <2>3, Positions
    <3> QED BY <2>1, <2>3, <3>1
  <2> QED BY <2>2, <2>3
<1>2. queued(j) \subseteq Input
  BY Reductions
<1>3. \A a, b \in queued(j) : Precedes(j, a, b) => Precedes(k, a, b)
  BY <1>1, <1>2 DEF Precedes
<1>4. \A m \in DOMAIN j, n \in DOMAIN k : n \notin DOMAIN j => m < n
  BY Positions
<1>5. \A a \in queued(j), b \in Input \ queued(j) : Precedes(k, a, b)
  BY <1>1, <1>2, <1>4 DEF Precedes
<1> QED BY <1>3, <1>5

\* The recorded cancellations are kept.
LEMMA RequestsConcat ==
    ASSUME NEW j \in Seq(Event), NEW x \in Seq(Event), Requests(j),
           \A i \in DOMAIN x : x[i].kind # "CancellationRequested"
    PROVE  Requests(j \o x)
<1> DEFINE k == j \o x
<1>1. \A n \in DOMAIN k : IsRequest(k, n) => n \in DOMAIN j /\ IsRequest(j, n) /\ k[n] = j[n]
  BY Positions DEF IsRequest
<1>2. queued(j) \subseteq queued(k)
  BY IdsConcat DEF queued
<1>3. ASSUME NEW n \in DOMAIN j PROVE Reach(k, n) = Reach(j, n)
  <2>1. k[n] = j[n] /\ SubSeq(k, 1, n) = SubSeq(j, 1, n)
    BY Positions
  <2> HIDE DEF k
  <2> QED BY <2>1 DEF Reach
<1>4. \A m, n \in DOMAIN k :
         IsRequest(k, m) /\ IsRequest(k, n) /\ k[m].id = k[n].id => m = n
  BY <1>1 DEF Requests
<1>5. ASSUME NEW n \in DOMAIN k, IsRequest(k, n)
      PROVE  /\ ToSet(k[n].targets) \subseteq queued(k)
             /\ IsInjective(k[n].targets)
             /\ Reach(k, n) \subseteq ToSet(k[n].targets)
  <2>1. n \in DOMAIN j /\ IsRequest(j, n) /\ k[n] = j[n]
    BY <1>1, <1>5
  <2> QED BY <2>1, <1>2, <1>3 DEF Requests
<1> QED BY <1>4, <1>5 DEF Requests

\* A journal with one more event.
LEMMA Single ==
    ASSUME NEW j \in Seq(Event), NEW e \in Event
    PROVE  /\ <<e>> \in Seq(Event) /\ DOMAIN <<e>> = {1} /\ <<e>>[1] = e
           /\ Append(j, e) = j \o <<e>>
           /\ \A kinds : Ids(<<e>>, kinds) = IF e.kind \in kinds THEN {e.id} ELSE {}
<1>1. <<e>> \in Seq(Event) /\ DOMAIN <<e>> = {1} /\ <<e>>[1] = e /\ Append(j, e) = j \o <<e>>
  OBVIOUS
<1>2. ASSUME NEW kinds PROVE Ids(<<e>>, kinds) = IF e.kind \in kinds THEN {e.id} ELSE {}
  BY <1>1 DEF Ids
<1> QED BY <1>1, <1>2

\* Turns stay in order as long as none starts.
LEMMA OrderedConcat ==
    ASSUME NEW j \in Seq(Event), NEW x \in Seq(Event), JournalInv(j),
           \A i \in DOMAIN x : x[i].kind = "InputQueued" => x[i].id \notin queued(j),
           \A i \in DOMAIN x : x[i].kind # "TurnStarted"
    PROVE  Ordered(j \o x)
<1> DEFINE k == j \o x
<1>1. started(k) = started(j) /\ terminal(k) = terminal(j) \cup terminal(x)
  <2>1. started(x) = {}
    BY DEF started, Ids
  <2>2. started(k) = started(j) \cup started(x) /\ terminal(k) = terminal(j) \cup terminal(x)
    BY ReductionsConcat
  <2> QED BY <2>1, <2>2
<1>2. k \in Seq(Event)
  BY Positions
<1>3. ASSUME NEW m \in DOMAIN k, NEW n \in DOMAIN k, m < n,
             k[m].kind = "TurnStarted", k[n].kind = "TurnStarted"
      PROVE  Precedes(k, k[m].id, k[n].id)
  <2>1. m \in DOMAIN j /\ k[m] = j[m]
    BY <1>3, Positions
  <2>2. n \in DOMAIN j /\ k[n] = j[n]
    BY <1>3, Positions
  <2>3. Precedes(j, j[m].id, j[n].id)
    BY <1>3, <2>1, <2>2 DEF JournalInv, Ordered
  <2>4. j[m].id \in queued(j) /\ j[n].id \in queued(j)
    BY <1>3, <2>1, <2>2, Reductions, JournalFacts
  <2> QED BY <2>1, <2>2, <2>3, <2>4, PrecedesConcat
<1>4. ASSUME NEW a \in started(k), NEW b \in PendingIds(k) PROVE Precedes(k, a, b)
  <2>1. a \in started(j) /\ a \in queued(j)
    BY <1>1, <1>4, JournalFacts
  <2>2. b \in queued(k) \ (started(k) \cup terminal(k)) /\ b \in Input
    <3> HIDE DEF k
    <3> QED BY <1>2, <1>4, Reductions
  <2>3. CASE b \in queued(j)
    <3>1. b \in PendingIds(j)
      BY <1>1, <2>2, <2>3, Reductions
    <3>2. Precedes(j, a, b)
      BY <2>1, <3>1 DEF JournalInv, Ordered
    <3> QED BY <2>1, <2>3, <3>2, PrecedesConcat
  <2>4. CASE b \notin queued(j)
    BY <2>1, <2>2, <2>4, PrecedesConcat
  <2> QED BY <2>3, <2>4
<1> QED BY <1>3, <1>4 DEF Ordered

\* An input is accepted.
LEMMA QueueGrows ==
    ASSUME NEW j \in Seq(Event), JournalInv(j), NEW c \in Input, c \notin queued(j)
    PROVE  LET k == Append(j, Queued(c))
           IN  /\ Grows(j, k)
               /\ queued(k) = queued(j) \cup {c}
               /\ started(k) = started(j) /\ terminal(k) = terminal(j)
               /\ \A n : IsRequest(k, n) => IsRequest(j, n) /\ k[n] = j[n]
<1> DEFINE e == Queued(c)
           x == <<e>>
           k == j \o x
<1>1. /\ e \in Event /\ e.kind = "InputQueued" /\ e.id = c /\ Stage(e) = 1
      /\ e.kind \notin Terminal
  BY EventMakers, EventFields DEF Terminal
<1>2. x \in Seq(Event) /\ DOMAIN x = {1} /\ x[1] = e /\ Append(j, e) = k
  BY <1>1, Single
<1> HIDE DEF e, x
<1>3. /\ queued(k) = queued(j) \cup {c} /\ started(k) = started(j)
      /\ terminal(k) = terminal(j)
  <2>1. queued(x) = {c} /\ started(x) = {} /\ terminal(x) = {}
    BY <1>1, Single DEF x, queued, started, terminal
  <2>2. /\ queued(k) = queued(j) \cup queued(x) /\ started(k) = started(j) \cup started(x)
        /\ terminal(k) = terminal(j) \cup terminal(x)
    BY <1>2, ReductionsConcat
  <2> QED BY <2>1, <2>2
<1>4. /\ queued(j) \subseteq Input /\ started(j) \subseteq queued(j)
      /\ terminal(j) \subseteq queued(j)
  BY JournalFacts
<1>5. ASSUME NEW m \in DOMAIN j, j[m].id = c PROVE Stage(j[m]) = 0
  BY <1>4, <1>5, Reductions, EventFields
<1>6. InStages(k)
  BY <1>1, <1>2, <1>5, StagesConcat DEF JournalInv
<1>7. OneOpen(k)
  BY <1>3 DEF OneOpen, JournalInv
<1>8. Ordered(k)
  BY <1>1, <1>2, OrderedConcat
<1>9. Requests(k)
  BY <1>1, <1>2, RequestsConcat DEF JournalInv
<1>10. /\ \A a, b \in queued(j) : Precedes(j, a, b) => Precedes(k, a, b)
       /\ \A a \in queued(j), b \in Input \ queued(j) : Precedes(k, a, b)
  BY <1>1, <1>2, PrecedesConcat
<1>11. /\ k \in Seq(Event)
       /\ \A n \in DOMAIN j : n \in DOMAIN k /\ k[n] = j[n]
  BY <1>2, Positions
<1>12. ASSUME NEW n, IsRequest(k, n) PROVE IsRequest(j, n) /\ k[n] = j[n]
  BY <1>1, <1>2, <1>12, Positions DEF IsRequest
<1>13. Grows(j, k)
  BY <1>3, <1>4, <1>6, <1>7, <1>8, <1>9, <1>10, <1>11 DEF Grows, JournalInv
<1> QED BY <1>2, <1>3, <1>12, <1>13 DEF e

\* The oldest pending input starts its turn when no turn is open.
LEMMA StartGrows ==
    ASSUME NEW j \in Seq(Event), JournalInv(j), NEW c \in PendingIds(j),
           started(j) \subseteq terminal(j),
           \A b \in PendingIds(j) : b # c => Precedes(j, c, b)
    PROVE  LET k == Append(j, Started(c))
           IN  /\ Grows(j, k)
               /\ queued(k) = queued(j) /\ terminal(k) = terminal(j)
               /\ started(k) = started(j) \cup {c}
               /\ \A n : IsRequest(k, n) => IsRequest(j, n) /\ k[n] = j[n]
<1> DEFINE e == Started(c)
           x == <<e>>
           k == j \o x
<1>0. /\ queued(j) \subseteq Input /\ started(j) \subseteq queued(j)
      /\ terminal(j) \subseteq queued(j)
      /\ PendingIds(j) = queued(j) \ (started(j) \cup terminal(j))
  BY JournalFacts
<1>1. /\ c \in Input /\ e \in Event /\ e.kind = "TurnStarted" /\ e.id = c /\ Stage(e) = 2
      /\ e.kind \notin Terminal
  BY <1>0, EventMakers, EventFields DEF Terminal
<1>2. x \in Seq(Event) /\ DOMAIN x = {1} /\ x[1] = e /\ Append(j, e) = k
  BY <1>1, Single
<1> HIDE DEF e, x
<1>3. /\ queued(k) = queued(j) /\ started(k) = started(j) \cup {c}
      /\ terminal(k) = terminal(j)
  <2>1. queued(x) = {} /\ started(x) = {c} /\ terminal(x) = {}
    BY <1>1, Single DEF x, queued, started, terminal
  <2>2. /\ queued(k) = queued(j) \cup queued(x) /\ started(k) = started(j) \cup started(x)
        /\ terminal(k) = terminal(j) \cup terminal(x)
    BY <1>2, ReductionsConcat
  <2> QED BY <2>1, <2>2
<1>4. ASSUME NEW m \in DOMAIN j, j[m].id = c PROVE Stage(j[m]) < 2
  BY <1>0, <1>4, Reductions, EventFields
<1>5. InStages(k)
  BY <1>0, <1>1, <1>2, <1>4, StagesConcat DEF JournalInv
<1>6. OneOpen(k)
  BY <1>3 DEF OneOpen
<1>7. \A a, b \in queued(j) : Precedes(j, a, b) => Precedes(k, a, b)
  BY <1>1, <1>2, PrecedesConcat
<1>8. /\ k \in Seq(Event)
      /\ \A n \in DOMAIN j : n \in DOMAIN k /\ k[n] = j[n]
      /\ \A n \in DOMAIN k : n \notin DOMAIN j => n > Len(j) /\ k[n] = e
  <2>1. /\ k \in Seq(Event)
        /\ \A n \in DOMAIN j : n \in DOMAIN k /\ k[n] = j[n]
    BY <1>2, Positions
  <2>2. ASSUME NEW n \in DOMAIN k, n \notin DOMAIN j PROVE n > Len(j) /\ k[n] = e
    <3>1. n > Len(j) /\ n - Len(j) \in DOMAIN x /\ k[n] = x[n - Len(j)]
      BY <1>2, <2>2, Positions
    <3> QED BY <1>2, <3>1
  <2> QED BY <2>1, <2>2
<1>9. Ordered(k)
  <2>1. ASSUME NEW m \in DOMAIN k, NEW n \in DOMAIN k, m < n,
               k[m].kind = "TurnStarted", k[n].kind = "TurnStarted"
        PROVE  Precedes(k, k[m].id, k[n].id)
    <3>1. m \in DOMAIN j
      <4>1. SUFFICES ASSUME m \notin DOMAIN j PROVE FALSE
        OBVIOUS
      <4>2. n \notin DOMAIN j
        BY <2>1, <4>1, <1>8
      <4>3. Stage(k[m]) = 2 /\ Stage(k[n]) = 2 /\ k[m].id = k[n].id
        BY <4>1, <4>2, <1>1, <1>8
      <4> QED BY <2>1, <4>3, <1>5 DEF InStages
    <3>2. k[m] = j[m] /\ j[m].id \in started(j) /\ j[m].id \in queued(j)
      BY <2>1, <3>1, <1>0, <1>8, Reductions
    <3>3. CASE n \in DOMAIN j
      <4>1. k[n] = j[n] /\ j[n].id \in queued(j)
        BY <2>1, <3>3, <1>0, <1>8, Reductions
      <4>2. Precedes(j, j[m].id, j[n].id)
        BY <2>1, <3>1, <3>2, <3>3, <4>1 DEF JournalInv, Ordered
      <4> QED BY <3>2, <4>1, <4>2, <1>7
    <3>4. CASE n \notin DOMAIN j
      <4>1. k[n].id = c /\ c \in queued(j)
        BY <3>4, <1>0, <1>1, <1>8
      <4>2. Precedes(j, j[m].id, c)
        BY <3>2 DEF JournalInv, Ordered
      <4> QED BY <3>2, <4>1, <4>2, <1>7
    <3> QED BY <3>3, <3>4
  <2>2. ASSUME NEW a \in started(k), NEW b \in PendingIds(k) PROVE Precedes(k, a, b)
    <3>1. PendingIds(k) = queued(k) \ (started(k) \cup terminal(k))
      <4> HIDE DEF k
      <4> QED BY <1>8, Reductions
    <3>2. b \in PendingIds(j) /\ b # c /\ b \in queued(j) /\ a \in queued(j)
      BY <2>2, <3>1, <1>0, <1>3
    <3>3. Precedes(j, a, b)
      BY <2>2, <3>2, <1>3 DEF JournalInv, Ordered
    <3> QED BY <3>2, <3>3, <1>7
  <2> QED BY <2>1, <2>2 DEF Ordered
<1>10. Requests(k)
  BY <1>1, <1>2, RequestsConcat DEF JournalInv
<1>11. ASSUME NEW n, IsRequest(k, n) PROVE IsRequest(j, n) /\ k[n] = j[n]
  BY <1>1, <1>8, <1>11 DEF IsRequest
<1>12. Grows(j, k)
  BY <1>3, <1>5, <1>6, <1>7, <1>8, <1>9, <1>10 DEF Grows, JournalInv
<1> QED BY <1>2, <1>3, <1>11, <1>12 DEF e

\* Turns end: distinct inputs that had not ended.
LEMMA EndsGrow ==
    ASSUME NEW j \in Seq(Event), JournalInv(j), NEW x \in Seq(Event),
           \A i \in DOMAIN x : x[i].kind \in Terminal /\ x[i].id \in queued(j) \ terminal(j),
           \A i, l \in DOMAIN x : x[i].id = x[l].id => i = l
    PROVE  /\ Grows(j, j \o x)
           /\ queued(j \o x) = queued(j) /\ started(j \o x) = started(j)
           /\ terminal(j \o x) = terminal(j) \cup {x[i].id : i \in DOMAIN x}
           /\ \A n : IsRequest(j \o x, n) => IsRequest(j, n) /\ (j \o x)[n] = j[n]
<1> DEFINE k == j \o x
<1>1. \A i \in DOMAIN x :
         /\ x[i] \in Event /\ Stage(x[i]) = 3
         /\ x[i].kind \notin {"InputQueued", "TurnStarted", "CancellationRequested"}
  BY EventFields DEF Terminal
<1>2. /\ queued(k) = queued(j) /\ started(k) = started(j)
      /\ terminal(k) = terminal(j) \cup {x[i].id : i \in DOMAIN x}
  <2>1. queued(x) = {} /\ started(x) = {} /\ terminal(x) = {x[i].id : i \in DOMAIN x}
    BY <1>1 DEF queued, started, terminal, Ids
  <2>2. /\ queued(k) = queued(j) \cup queued(x) /\ started(k) = started(j) \cup started(x)
        /\ terminal(k) = terminal(j) \cup terminal(x)
    BY ReductionsConcat
  <2> QED BY <2>1, <2>2
<1>3. ASSUME NEW m \in DOMAIN j, NEW n \in DOMAIN x, j[m].id = x[n].id
      PROVE  Stage(j[m]) < 3
  BY <1>3, Reductions, EventFields
<1>4. InStages(k)
  BY <1>1, <1>3, StagesConcat DEF JournalInv
<1>5. OneOpen(k)
  BY <1>2 DEF OneOpen, JournalInv
<1>6. Ordered(k)
  BY <1>1, OrderedConcat
<1>7. Requests(k)
  BY <1>1, RequestsConcat DEF JournalInv
<1>8. \A a, b \in queued(j) : Precedes(j, a, b) => Precedes(k, a, b)
  BY <1>1, PrecedesConcat
<1>9. /\ k \in Seq(Event)
      /\ \A n \in DOMAIN j : n \in DOMAIN k /\ k[n] = j[n]
  BY Positions
<1>10. ASSUME NEW n, IsRequest(k, n) PROVE IsRequest(j, n) /\ k[n] = j[n]
  BY <1>1, <1>10, Positions DEF IsRequest
<1>11. Grows(j, k)
  BY <1>2, <1>4, <1>5, <1>6, <1>7, <1>8, <1>9 DEF Grows, JournalInv
<1> QED BY <1>2, <1>10, <1>11

\* One turn ends.
LEMMA EndGrows ==
    ASSUME NEW j \in Seq(Event), JournalInv(j), NEW kind \in Terminal,
           NEW c \in queued(j) \ terminal(j)
    PROVE  LET k == Append(j, Ended(kind, c))
           IN  /\ Grows(j, k)
               /\ queued(k) = queued(j) /\ started(k) = started(j)
               /\ terminal(k) = terminal(j) \cup {c}
               /\ \A n : IsRequest(k, n) => IsRequest(j, n) /\ k[n] = j[n]
<1> DEFINE e == Ended(kind, c)
           x == <<e>>
<1>1. c \in Input /\ e \in Event /\ e.kind \in Terminal /\ e.id = c
  BY JournalFacts, EventMakers
<1>2. x \in Seq(Event) /\ DOMAIN x = {1} /\ x[1] = e /\ Append(j, e) = j \o x
  BY <1>1, Single
<1> HIDE DEF e, x
<1>3. {x[i].id : i \in DOMAIN x} = {c}
  BY <1>1, <1>2
<1>4. /\ Grows(j, j \o x)
      /\ queued(j \o x) = queued(j) /\ started(j \o x) = started(j)
      /\ terminal(j \o x) = terminal(j) \cup {x[i].id : i \in DOMAIN x}
      /\ \A n : IsRequest(j \o x, n) => IsRequest(j, n) /\ (j \o x)[n] = j[n]
  BY <1>1, <1>2, EndsGrow
<1> QED BY <1>2, <1>3, <1>4 DEF e

\* A cancellation is recorded with targets that hold everything it is for.
LEMMA RequestGrows ==
    ASSUME NEW j \in Seq(Event), JournalInv(j), NEW id \in CancelId,
           NEW targets \in Seq(Input), NEW d \in BOOLEAN,
           \A n \in DOMAIN j : IsRequest(j, n) => j[n].id # id,
           ToSet(targets) \subseteq queued(j), IsInjective(targets),
           \A c \in PendingIds(j) : d \/ c \in UserInput => c \in ToSet(targets),
           incomplete(j) \subseteq ToSet(targets)
    PROVE  LET k == Append(j, Cancellation(id, targets, d))
           IN  /\ Grows(j, k)
               /\ queued(k) = queued(j) /\ started(k) = started(j)
               /\ terminal(k) = terminal(j)
               /\ \A n : IsRequest(k, n) =>
                     \/ IsRequest(j, n) /\ k[n] = j[n]
                     \/ k[n] = Cancellation(id, targets, d)
<1> DEFINE e == Cancellation(id, targets, d)
           x == <<e>>
           k == j \o x
<1>1. /\ e \in Event /\ e.kind = "CancellationRequested" /\ e.id = id /\ e.targets = targets
      /\ e.descendants = d /\ Stage(e) = 0 /\ e.kind \notin Terminal
  BY EventMakers, EventFields DEF Terminal
<1>2. x \in Seq(Event) /\ DOMAIN x = {1} /\ x[1] = e /\ Append(j, e) = k
  BY <1>1, Single
<1> HIDE DEF e, x
<1>3. queued(k) = queued(j) /\ started(k) = started(j) /\ terminal(k) = terminal(j)
  <2>1. queued(x) = {} /\ started(x) = {} /\ terminal(x) = {}
    BY <1>1, Single DEF x, queued, started, terminal
  <2>2. /\ queued(k) = queued(j) \cup queued(x) /\ started(k) = started(j) \cup started(x)
        /\ terminal(k) = terminal(j) \cup terminal(x)
    BY <1>2, ReductionsConcat
  <2> QED BY <2>1, <2>2
<1>4. ASSUME NEW m \in DOMAIN j, j[m].id = id PROVE Stage(j[m]) = 0
  BY <1>4, Reductions, EventFields, DrainAssumption
<1>5. InStages(k)
  BY <1>1, <1>2, <1>4, StagesConcat DEF JournalInv
<1>6. OneOpen(k)
  BY <1>3 DEF OneOpen, JournalInv
<1>7. Ordered(k)
  BY <1>1, <1>2, OrderedConcat
<1>8. \A a, b \in queued(j) : Precedes(j, a, b) => Precedes(k, a, b)
  BY <1>1, <1>2, PrecedesConcat
<1>9. /\ k \in Seq(Event)
      /\ \A n \in DOMAIN j : n \in DOMAIN k /\ k[n] = j[n] /\ SubSeq(k, 1, n) = SubSeq(j, 1, n)
  BY <1>2, Positions
<1>10. ASSUME NEW n \in DOMAIN k, n \notin DOMAIN j
       PROVE  n = Len(k) /\ k[n] = e
  <2>1. n \in Nat /\ n > Len(j) /\ n - Len(j) \in DOMAIN x /\ k[n] = x[n - Len(j)]
    BY <1>2, <1>10, Positions
  <2>2. n = Len(j) + 1 /\ k[n] = e
    BY <1>2, <2>1
  <2>3. Len(k) = Len(j) + 1
    BY <1>2
  <2> QED BY <2>2, <2>3
<1>11. ASSUME NEW n \in DOMAIN k, IsRequest(k, n)
       PROVE  /\ ToSet(k[n].targets) \subseteq queued(k)
              /\ IsInjective(k[n].targets)
              /\ Reach(k, n) \subseteq ToSet(k[n].targets)
  <2>1. CASE n \in DOMAIN j
    <3>1. k[n] = j[n] /\ IsRequest(j, n) /\ SubSeq(k, 1, n) = SubSeq(j, 1, n)
      BY <1>9, <1>11, <2>1 DEF IsRequest
    <3>2. Reach(k, n) = Reach(j, n)
      <4> HIDE DEF k
      <4> QED BY <3>1 DEF Reach
    <3> QED BY <1>3, <2>1, <3>1, <3>2 DEF JournalInv, Requests
  <2>2. CASE n \notin DOMAIN j
    <3>1. k[n] = e /\ SubSeq(k, 1, n) = k
      <4>1. n = Len(k) /\ k[n] = e
        BY <1>10, <2>2
      <4> HIDE DEF k
      <4>2. SubSeq(k, 1, Len(k)) = k
        BY <1>9
      <4> QED BY <4>1, <4>2
    <3>2. PendingIds(k) = PendingIds(j) /\ incomplete(k) = incomplete(j)
      <4> HIDE DEF k
      <4> QED BY <1>3, <1>5, <1>6, <1>9, OpenFacts DEF JournalInv
    <3>3. Reach(k, n) = {c \in PendingIds(k) : e.descendants \/ c \in UserInput} \cup incomplete(k)
      <4> HIDE DEF k
      <4> QED BY <3>1 DEF Reach
    <3>4. Reach(k, n) \subseteq ToSet(targets)
      BY <1>1, <3>2, <3>3
    <3> QED BY <1>1, <1>3, <3>1, <3>4
  <2> QED BY <2>1, <2>2
<1>12. ASSUME NEW m \in DOMAIN k, NEW n \in DOMAIN k,
              IsRequest(k, m), IsRequest(k, n), k[m].id = k[n].id
       PROVE  m = n
  <2>1. \A o \in DOMAIN k : o \in DOMAIN j /\ IsRequest(k, o) => IsRequest(j, o) /\ k[o] = j[o]
    BY <1>9 DEF IsRequest
  <2>2. CASE m \in DOMAIN j /\ n \in DOMAIN j
    BY <1>12, <2>1, <2>2 DEF JournalInv, Requests
  <2>3. CASE m \notin DOMAIN j /\ n \notin DOMAIN j
    BY <1>10, <2>3
  <2>4. CASE m \in DOMAIN j /\ n \notin DOMAIN j
    BY <1>1, <1>10, <1>12, <2>1, <2>4
  <2>5. CASE m \notin DOMAIN j /\ n \in DOMAIN j
    BY <1>1, <1>10, <1>12, <2>1, <2>5
  <2> QED BY <2>2, <2>3, <2>4, <2>5
<1>13. Requests(k)
  BY <1>11, <1>12 DEF Requests
<1>14. ASSUME NEW n, IsRequest(k, n) PROVE (IsRequest(j, n) /\ k[n] = j[n]) \/ k[n] = e
  BY <1>9, <1>10, <1>14 DEF IsRequest
<1>15. Grows(j, k)
  BY <1>3, <1>5, <1>6, <1>7, <1>8, <1>9, <1>13 DEF Grows, JournalInv
<1> QED BY <1>2, <1>3, <1>14, <1>15 DEF e

----------------------------------------------------------------------------
(* Steps of one task *)

\* A journal that does not change continues itself.
LEMMA GrowsReflexive ==
    ASSUME NEW j \in Seq(Event), JournalInv(j)
    PROVE  Grows(j, j)
BY DEF Grows

\* The recorded cancellations are the same after a step that records none.
LEMMA RecordsKept ==
    ASSUME Grows(journal, journal'),
           \A n : IsRequest(journal', n) => IsRequest(journal, n) /\ journal'[n] = journal[n]
    PROVE  \A k : Recorded(k)' = Recorded(k) /\ \A n \in Recorded(k) : journal'[n] = journal[n]
BY DEF Recorded, IsRequest, Grows

\* Receipts stay true as turns end.
LEMMA ReceiptsKept ==
    ASSUME IInv, acknowledged' = acknowledged, terminal(journal) \subseteq terminal(journal'),
           Grows(journal, journal'),
           \A n : IsRequest(journal', n) => IsRequest(journal, n) /\ journal'[n] = journal[n]
    PROVE  ReceiptInv'
<1>1. \A k : Recorded(k)' = Recorded(k) /\ \A n \in Recorded(k) : journal'[n] = journal[n]
  BY RecordsKept
<1> QED BY <1>1 DEF IInv, ReceiptInv

\* Task t may become w: no engine becomes current, and one that is about to
\* unwind was, unless no other engine is current.
MayBecome(t, w) ==
    /\ w.at \notin {"start", "run"}
    /\ w.at = "free" => w = FreeTask
    /\ w.turn # None =>
          /\ w.turn = task[t].turn /\ w.turn = w.current
          /\ w.at \in {"ended", "fail", "abort"}
    /\ w.generation \in {0, task[t].generation}
    /\ w.at = "prepare" /\ ~w.cancelled =>
          /\ w.current \in queued(journal)
          /\ started(journal) \subseteq terminal(journal)
          /\ \A c \in PendingIds(journal) :
                w.current \in PendingIds(journal) /\ c # w.current
                => Precedes(journal, w.current, c)
    /\ w.at = "abort" \/ (w.cancelled /\ w.at \notin {"free", "leave"}) =>
          \/ Unwinds(t) /\ w.current = task[t].current
          \/ \A u \in Task : Current(u) => u = t

\* The turns D end in this step, none of them that of a current engine but t's.
Ends(t, D) ==
    /\ Grows(journal, journal')
    /\ queued(journal') = queued(journal)
    /\ started(journal') = started(journal)
    /\ terminal(journal') = terminal(journal) \cup D
    /\ \A n : IsRequest(journal', n) => IsRequest(journal, n) /\ journal'[n] = journal[n]
    /\ \A u \in Task : Current(u) /\ u # t => task[u].current \notin D

\* A step of task t that makes no engine current: t becomes w, the turns D end,
\* and t may give up `active'.
LEMMA TaskStep ==
    ASSUME IInv, NEW t \in Task, NEW w \in TaskState, NEW D \in SUBSET Input,
           task' = [task EXCEPT ![t] = w],
           active' \in {active, None},
           active' # active => active = t /\ cancelling = None /\ w.turn = None,
           UNCHANGED <<turnGeneration, clientVars>>,
           activations' \in Nat, errors' \in SUBSET Input,
           t = active' => w.at # "free" /\ ~w.cancelled,
           t # active' /\ w.at # "free" => w.cancelled \/ w.at \in {"abort", "leave"},
           Ends(t, D), MayBecome(t, w)
    PROVE  IInv'
<1> USE DEF Ends, MayBecome, clientVars
<1>1. /\ TypeOK /\ JournalInv(journal) /\ TaskInv /\ ShutdownInv /\ EngineInv
      /\ PrepareInv /\ RivalInv /\ LocalInv /\ CoordinatedInv /\ ReceiptInv
  BY DEF IInv
<1>2. /\ task \in [Task -> TaskState] /\ task' \in [Task -> TaskState] /\ task'[t] = w
      /\ \A u \in Task : u # t => task'[u] = task[u]
      /\ journal \in Seq(Event) /\ journal' \in Seq(Event) /\ JournalInv(journal')
  BY <1>1 DEF TypeOK, Grows
<1>3. /\ PendingIds(journal) = queued(journal) \ (started(journal) \cup terminal(journal))
      /\ PendingIds(journal') = queued(journal') \ (started(journal') \cup terminal(journal'))
      /\ PendingIds(journal') \subseteq PendingIds(journal)
      /\ PendingIds(journal) \subseteq queued(journal)
      /\ terminal(journal) \subseteq terminal(journal')
  BY <1>1, <1>2, Reductions
<1>4. TypeOK'
  BY <1>1, <1>2 DEF TypeOK
<1>5. JournalInv(journal)'
  BY <1>2
<1>6. TaskInv'
  <2> SUFFICES ASSUME NEW u \in Task PROVE TaskOK(u)'
    BY DEF TaskInv
  <2>1. TaskOK(u) /\ TaskOK(t) /\ \A v \in Task : task[v].generation \in Nat
    BY <1>1, <1>2 DEF TaskInv, TaskState
  <2>2. \A v \in Task : task'[v].generation \in {0, task[v].generation}
    BY <1>2
  <2>3. CASE u = t
    <3>1. turnGeneration \in Nat /\ turnGeneration' = turnGeneration
      BY <1>1 DEF TypeOK
    <3>2. task'[t].generation <= turnGeneration'
      BY <1>2, <2>1, <2>2, <3>1 DEF TaskOK
    <3>3. \A v \in Task :
             task'[t].generation = task'[v].generation /\ task'[t].generation > 0 => t = v
      BY <2>1, <2>2 DEF TaskOK
    <3> QED BY <1>2, <2>3, <3>2, <3>3 DEF TaskOK
  <2>4. CASE u # t
    <3>1. u = active' => u = active
      BY DrainAssumption
    <3>2. u # active' => u # active
      BY <2>4
    <3> QED BY <1>2, <2>1, <2>2, <2>4, <3>1, <3>2 DEF TaskOK
  <2> QED BY <2>3, <2>4
<1>7. ShutdownInv'
  BY <1>1 DEF ShutdownInv
<1>8. \A u \in Task : Current(u)' => u # t /\ Current(u) /\ task'[u] = task[u]
  BY <1>2 DEF Current, MayAppend
<1>9. EngineInv'
  <2> SUFFICES ASSUME NEW u \in Task, Current(u)'
               PROVE  /\ task'[u].turn = task'[u].current /\ task'[u].current # None
                      /\ u = active' \/ shutdown' = "done"
                      /\ task'[u].current \in terminal(journal') =>
                            /\ cancelling' # None
                            /\ IF coordinated' THEN task'[u].current \in ToSet(cancelling'.todo)
                               ELSE cancelling'.decision /\ cancelling'.turn = task'[u].current
                      /\ task'[u].current \notin terminal(journal') =>
                            IF task'[u].at = "start"
                            THEN /\ task'[u].current \in PendingIds(journal')
                                 /\ started(journal') \subseteq terminal(journal')
                            ELSE task'[u].current \in started(journal')
    BY DEF EngineInv
  <2>1. u # t /\ Current(u) /\ task'[u] = task[u] /\ task[u].current \notin D
    BY <1>8
  <2> QED BY <2>1, <1>1, <1>3 DEF EngineInv
<1>10. PrepareInv'
  <2> SUFFICES ASSUME NEW u \in Task
               PROVE  /\ Resumes(u, "prepare")' =>
                            /\ started(journal') \subseteq terminal(journal')
                            /\ task'[u].current \in queued(journal')
                      /\ Resumes(u, "prepare")' \/ (task'[u].at = "start" /\ MayAppend(u)') =>
                            \A c \in PendingIds(journal') :
                               task'[u].current \in PendingIds(journal') /\ c # task'[u].current
                               => Precedes(journal', task'[u].current, c)
    BY DEF PrepareInv
  <2>1. \A a, b \in PendingIds(journal') : Precedes(journal, a, b) => Precedes(journal', a, b)
    BY <1>3 DEF Grows
  <2>2. CASE u = t
    BY <1>2, <1>3, <2>1, <2>2 DEF Resumes
  <2>3. CASE u # t
    BY <1>1, <1>2, <1>3, <2>1, <2>3 DEF PrepareInv, Resumes, MayAppend
  <2> QED BY <2>2, <2>3
<1>11. RivalInv'
  <2>1. ASSUME NEW a \in Task, NEW u \in Task, Current(u)', a # u, Unwinds(a)'
        PROVE  task'[a].current # task'[u].current
    <3>1. u # t /\ Current(u) /\ task'[u] = task[u]
      BY <1>8, <2>1
    <3>2. CASE a = t
      <4>1. w.at = "abort" \/ (w.cancelled /\ w.at \notin {"free", "leave"})
        BY <1>2, <2>1, <3>2 DEF Unwinds
      <4>2. Unwinds(t) /\ w.current = task[t].current
        BY <3>1, <4>1
      <4> QED BY <1>1, <1>2, <2>1, <3>1, <3>2, <4>2 DEF RivalInv
    <3>3. CASE a # t
      BY <1>1, <1>2, <2>1, <3>1, <3>3 DEF RivalInv, Unwinds
    <3> QED BY <3>2, <3>3
  <2>2. ASSUME NEW a \in Task, a # active', task'[a].turn # None, shutdown' # "done"
        PROVE  task'[a].turn \in terminal(journal')
    BY <1>1, <1>2, <1>3, <2>2 DEF RivalInv
  <2> QED BY <2>1, <2>2 DEF RivalInv
<1>12. LocalInv'
  <2>1. \A k : Recorded(k)' = Recorded(k) /\ \A n \in Recorded(k) : journal'[n] = journal[n]
    BY RecordsKept
  <2>2. active' # None => active' = active /\ task'[active'].turn \in {None, task[active].turn}
    BY <1>1, <1>2 DEF TypeOK
  <2>3. \A n \in Recorded(cancelling.id) :
           n \in Recorded(cancelling.id)' /\ journal'[n] = journal[n]
    BY <2>1
  <2>4. \A n \in Recorded(cancelling.id)' :
           n \in Recorded(cancelling.id) /\ journal'[n] = journal[n]
    BY <2>1
  <2> QED BY <1>1, <1>3, <2>2, <2>3, <2>4 DEF LocalInv
<1>13. CoordinatedInv'
  BY <1>1, <1>3 DEF CoordinatedInv
<1>14. ReceiptInv'
  BY <1>3, ReceiptsKept
<1> QED BY <1>4, <1>5, <1>6, <1>7, <1>9, <1>10, <1>11, <1>12, <1>13, <1>14 DEF IInv

\* Nothing ends in a step that leaves the journal alone.
LEMMA NothingEnds ==
    ASSUME IInv, NEW t \in Task, journal' = journal
    PROVE  Ends(t, {})
BY GrowsReflexive DEF Ends, IInv, TypeOK

\* The incomplete turn ends, in a step of a task that no current engine rivals.
LEMMA OpenTurnEnds ==
    ASSUME IInv, NEW t \in Task, NEW kind \in Terminal, NEW c \in incomplete(journal),
           journal' = Append(journal, Ended(kind, c)),
           \A u \in Task : Current(u) /\ u # t => task[u].current # c
    PROVE  Ends(t, {c}) /\ c \in Input
<1>1. journal \in Seq(Event) /\ JournalInv(journal)
  BY DEF IInv, TypeOK
<1>2. c \in queued(journal) \ terminal(journal) /\ c \in Input
  BY <1>1, JournalFacts
<1> QED BY <1>1, <1>2, EndGrows DEF Ends

\* A task that is resumed anywhere but in its handlers is the active one; while
\* there is an active task no other engine is current.
LEMMA ActiveTask ==
    ASSUME IInv, NEW t \in Task
    PROVE  /\ ~task[t].cancelled /\ task[t].at \notin {"free", "abort", "leave"} => t = active
           /\ t = active => \A u \in Task : Current(u) => u = t
           /\ t = active => active # None
           /\ task[t] \in TaskState
<1>1. ~task[t].cancelled /\ task[t].at \notin {"free", "abort", "leave"} => t = active
  BY DEF IInv, TaskInv, TaskOK
<1>2. t = active => active # None
  BY DrainAssumption
<1>3. t = active => \A u \in Task : Current(u) => u = t
  BY <1>2 DEF IInv, EngineInv, ShutdownInv
<1> QED BY <1>1, <1>2, <1>3 DEF IInv, TypeOK

\* The drain task sets its activity.
LEMMA EnterKeeps ==
    ASSUME IInv, NEW t \in Task, Enter(t)
    PROVE  IInv'
<1> DEFINE w == [task[t] EXCEPT !.at = "loop"]
<1>1. t = active /\ task[t] \in TaskState /\ task[t].at = "enter" /\ ~task[t].cancelled
  BY ActiveTask DEF Enter, Resumes
<1>2. w \in TaskState /\ task' = [task EXCEPT ![t] = w]
  BY <1>1 DEF Enter, Goto, TaskState, At, IInv, TypeOK
<1>3. task[t].turn = None
  BY <1>1 DEF IInv, TaskInv, TaskOK
<1>4. MayBecome(t, w)
  BY <1>1, <1>3 DEF MayBecome, TaskState
<1>5. Ends(t, {})
  BY NothingEnds DEF Enter
<1>6. activations' \in Nat /\ errors' \in SUBSET Input
  BY DEF Enter, IInv, TypeOK
<1>7. w.at # "free" /\ ~w.cancelled /\ UNCHANGED <<active, turnGeneration, clientVars>>
  BY <1>1 DEF Enter, TaskState
<1> QED BY <1>1, <1>2, <1>4, <1>5, <1>6, <1>7, TaskStep

\* The drain task reads the journal and decides what to do.
LEMMA ReadKeeps ==
    ASSUME IInv, NEW t \in Task, Read(t)
    PROVE  IInv'
<1>1. t = active /\ task[t] \in TaskState /\ task[t].at = "loop" /\ ~task[t].cancelled
  BY ActiveTask DEF Read, Resumes
<1>2. task[t].turn = None /\ task \in [Task -> TaskState]
  BY <1>1 DEF IInv, TaskInv, TaskOK, TypeOK
<1>3. Ends(t, {})
  BY NothingEnds DEF Read
<1>4. /\ activations' \in Nat /\ errors' \in SUBSET Input
      /\ UNCHANGED <<active, turnGeneration, clientVars>>
  BY DEF Read, IInv, TypeOK
<1>5. ASSUME NEW w \in TaskState, task' = [task EXCEPT ![t] = w],
             w.at # "free", ~w.cancelled, MayBecome(t, w)
      PROVE  IInv'
  BY <1>1, <1>3, <1>4, <1>5, TaskStep
<1>6. journal \in Seq(Event) /\ JournalInv(journal)
  BY DEF IInv, TypeOK
<1>7. /\ incomplete(journal) \subseteq Input /\ PendingIds(journal) \subseteq Input
      /\ incomplete(journal) = started(journal) \ terminal(journal)
  BY <1>6, JournalFacts
<1>8. ASSUME NEW at \in {"leave", "check"}, Goto(t, at)
      PROVE  IInv'
  <2> DEFINE w == [task[t] EXCEPT !.at = at]
  <2>1. w \in TaskState /\ task' = [task EXCEPT ![t] = w]
    BY <1>1, <1>2, <1>8 DEF Goto, TaskState, At
  <2>2. MayBecome(t, w) /\ w.at # "free" /\ ~w.cancelled
    BY <1>1, <1>2 DEF MayBecome, TaskState
  <2> QED BY <2>1, <2>2, <1>5
<1>9. ASSUME NEW c \in incomplete(journal),
             task' = [task EXCEPT ![t].at = "interrupt", ![t].current = c]
      PROVE  IInv'
  <2> DEFINE w == [task[t] EXCEPT !.at = "interrupt", !.current = c]
  <2>1. w \in TaskState /\ task' = [task EXCEPT ![t] = w]
    BY <1>1, <1>2, <1>7, <1>9 DEF TaskState, At
  <2>2. MayBecome(t, w) /\ w.at # "free" /\ ~w.cancelled
    BY <1>1, <1>2 DEF MayBecome, TaskState
  <2> QED BY <2>1, <2>2, <1>5
<1>10. ASSUME incomplete(journal) = {}, pending(journal) # <<>>,
              task' = [task EXCEPT ![t].at = "prepare", ![t].current = OldestInput]
       PROVE  IInv'
  <2> DEFINE w == [task[t] EXCEPT !.at = "prepare", !.current = OldestInput]
  <2>1. /\ OldestInput \in PendingIds(journal) /\ OldestInput \in Input
        /\ \A c \in PendingIds(journal) :
              c # OldestInput => Precedes(journal, OldestInput, c)
    BY <1>6, <1>7, <1>10, PendingFacts DEF OldestInput
  <2>5. OldestInput \in queued(journal)
    BY <1>6, <2>1, JournalFacts
  <2>2. w \in TaskState /\ task' = [task EXCEPT ![t] = w]
    BY <1>1, <1>2, <1>10, <2>1 DEF TaskState, At
  <2>3. started(journal) \subseteq terminal(journal)
    BY <1>7, <1>10
  <2>4. MayBecome(t, w) /\ w.at # "free" /\ ~w.cancelled
    BY <1>1, <1>2, <2>1, <2>3, <2>5 DEF MayBecome, TaskState
  <2> QED BY <2>2, <2>4, <1>5
<1> QED BY <1>8, <1>9, <1>10 DEF Read

\* A turn left open is interrupted.
LEMMA InterruptStoppedKeeps ==
    ASSUME IInv, NEW t \in Task, InterruptStopped(t)
    PROVE  IInv'
<1> DEFINE w == [task[t] EXCEPT !.at = "loop", !.current = None]
           c == task[t].current
<1>1. /\ t = active /\ task[t] \in TaskState /\ task[t].at = "interrupt" /\ ~task[t].cancelled
      /\ \A u \in Task : Current(u) => u = t
  BY ActiveTask DEF InterruptStopped, Resumes
<1>2. w \in TaskState /\ task' = [task EXCEPT ![t] = w] /\ task[t].turn = None
  BY <1>1 DEF InterruptStopped, TaskState, At, IInv, TypeOK, TaskInv, TaskOK
<1>3. MayBecome(t, w) /\ w.at # "free" /\ ~w.cancelled
  BY <1>1, <1>2 DEF MayBecome, TaskState
<1>4. /\ activations' \in Nat /\ errors' \in SUBSET Input
      /\ UNCHANGED <<active, turnGeneration, clientVars>>
  BY DEF InterruptStopped, IInv, TypeOK
<1>5. CASE c \in incomplete(journal)
  <2>1. "TurnInterrupted" \in Terminal /\ journal' = Append(journal, Ended("TurnInterrupted", c))
    BY <1>5 DEF InterruptStopped, Terminal
  <2>2. Ends(t, {c}) /\ c \in Input
    BY <1>1, <1>5, <2>1, OpenTurnEnds
  <2> QED BY <1>1, <1>2, <1>3, <1>4, <2>2, TaskStep
<1>6. CASE c \notin incomplete(journal)
  <2>1. Ends(t, {})
    BY <1>6, NothingEnds DEF InterruptStopped
  <2> QED BY <1>1, <1>2, <1>3, <1>4, <2>1, TaskStep
<1> QED BY <1>5, <1>6

\* The queue is checked again, and `active' given up when it is empty.
LEMMA CheckEmptyKeeps ==
    ASSUME IInv, NEW t \in Task, CheckEmpty(t)
    PROVE  IInv'
<1>1. t = active /\ task[t] \in TaskState /\ task[t].at = "check" /\ ~task[t].cancelled
  BY ActiveTask DEF CheckEmpty, Resumes
<1>2. task[t].turn = None /\ task \in [Task -> TaskState]
  BY <1>1 DEF IInv, TaskInv, TaskOK, TypeOK
<1>3. Ends(t, {})
  BY NothingEnds DEF CheckEmpty
<1>4. /\ activations' \in Nat /\ errors' \in SUBSET Input /\ cancelling = None
      /\ UNCHANGED <<turnGeneration, clientVars>>
  BY DEF CheckEmpty, Unlocked, IInv, TypeOK
<1>5. CASE Goto(t, "loop") /\ active' = active
  <2> DEFINE w == [task[t] EXCEPT !.at = "loop"]
  <2>1. w \in TaskState /\ task' = [task EXCEPT ![t] = w]
    BY <1>1, <1>2, <1>5 DEF Goto, TaskState, At
  <2>2. MayBecome(t, w) /\ w.at # "free" /\ ~w.cancelled
    BY <1>1, <1>2 DEF MayBecome, TaskState
  <2> QED BY <1>1, <1>3, <1>4, <1>5, <2>1, <2>2, TaskStep
<1>6. CASE Goto(t, "leave") /\ active' = ActiveWithout(t)
  <2> DEFINE w == [task[t] EXCEPT !.at = "leave"]
  <2>1. w \in TaskState /\ task' = [task EXCEPT ![t] = w]
    BY <1>1, <1>2, <1>6 DEF Goto, TaskState, At
  <2>2. MayBecome(t, w) /\ w.at = "leave" /\ w.turn = None
    BY <1>1, <1>2 DEF MayBecome, TaskState
  <2>3. active' = None /\ t # None
    BY <1>1, <1>6, DrainAssumption DEF ActiveWithout
  <2> QED BY <1>1, <1>3, <1>4, <2>1, <2>2, <2>3, TaskStep
<1> QED BY <1>5, <1>6 DEF CheckEmpty

\* A stale engine unwinds.
LEMMA SupersededKeeps ==
    ASSUME IInv, NEW t \in Task, Superseded(t)
    PROVE  IInv'
<1> DEFINE w == [task[t] EXCEPT !.at = "abort", !.unwound = TRUE]
<1>1. /\ t = active /\ task[t] \in TaskState /\ task[t].at \in {"start", "run"}
      /\ ~task[t].cancelled /\ \A u \in Task : Current(u) => u = t
  BY ActiveTask DEF Superseded, Resumes
<1>2. w \in TaskState /\ task' = [task EXCEPT ![t] = w]
  BY <1>1 DEF Superseded, TaskState, At, IInv, TypeOK
<1>3. task[t].turn # None => task[t].turn = task[t].current
  BY DEF IInv, TaskInv, TaskOK
<1>4. MayBecome(t, w) /\ w.at # "free" /\ ~w.cancelled
  BY <1>1, <1>3 DEF MayBecome, TaskState
<1>5. Ends(t, {})
  BY NothingEnds DEF Superseded
<1>6. /\ activations' \in Nat /\ errors' \in SUBSET Input
      /\ UNCHANGED <<active, turnGeneration, clientVars>>
  BY DEF Superseded, IInv, TypeOK
<1> QED BY <1>1, <1>2, <1>4, <1>5, <1>6, TaskStep

\* The turn is over and the task goes around.
LEMMA NextTurnKeeps ==
    ASSUME IInv, NEW t \in Task, NextTurn(t)
    PROVE  IInv'
<1> DEFINE w == [task[t] EXCEPT !.at = "loop", !.current = None, !.turn = None]
<1>1. t = active /\ task[t] \in TaskState /\ task[t].at = "ended" /\ ~task[t].cancelled
  BY ActiveTask DEF NextTurn, Resumes
<1>2. w \in TaskState /\ task' = [task EXCEPT ![t] = w]
  BY <1>1 DEF NextTurn, TaskState, At, IInv, TypeOK
<1>3. MayBecome(t, w) /\ w.at # "free" /\ ~w.cancelled
  BY <1>1 DEF MayBecome, TaskState
<1>4. Ends(t, {})
  BY NothingEnds DEF NextTurn
<1>5. /\ activations' \in Nat /\ errors' \in SUBSET Input
      /\ UNCHANGED <<active, turnGeneration, clientVars>>
  BY DEF NextTurn, IInv, TypeOK
<1> QED BY <1>1, <1>2, <1>3, <1>4, <1>5, TaskStep

\* An exception is raised.
LEMMA RaiseKeeps ==
    ASSUME IInv, NEW t \in Task, Raise(t)
    PROVE  IInv'
<1> DEFINE w == [task[t] EXCEPT !.at = "fail"]
<1>1. t = active /\ task[t] \in TaskState /\ ~task[t].cancelled
  BY ActiveTask DEF Raise, Resumes
<1>2. w \in TaskState /\ task' = [task EXCEPT ![t] = w]
  BY <1>1 DEF Raise, Goto, TaskState, At, IInv, TypeOK
<1>3. task[t].turn # None => task[t].turn = task[t].current
  BY DEF IInv, TaskInv, TaskOK
<1>4. MayBecome(t, w) /\ w.at # "free" /\ ~w.cancelled
  BY <1>1, <1>3 DEF MayBecome, TaskState
<1>5. Ends(t, {})
  BY NothingEnds DEF Raise
<1>6. /\ activations' \in Nat /\ errors' \in SUBSET Input
      /\ UNCHANGED <<active, turnGeneration, clientVars>>
  BY DEF Raise, IInv, TypeOK
<1> QED BY <1>1, <1>2, <1>4, <1>5, <1>6, TaskStep

\* The error is recorded for the input it belongs to.
LEMMA FailKeeps ==
    ASSUME IInv, NEW t \in Task, Fail(t)
    PROVE  IInv'
<1> DEFINE blamed == IF /\ task[t].current = None
                        /\ incomplete(journal) = {}
                        /\ pending(journal) # <<>>
                     THEN Head(pending(journal)).id ELSE task[t].current
           w == [task[t] EXCEPT !.at = "leave", !.current = blamed,
                                !.unwound = TRUE, !.turn = None]
<1>1. t = active /\ task[t] \in TaskState /\ task[t].at = "fail" /\ ~task[t].cancelled
  BY ActiveTask DEF Fail, Resumes
<1>2. journal \in Seq(Event) /\ JournalInv(journal) /\ task \in [Task -> TaskState]
  BY DEF IInv, TypeOK
<1>3. blamed \in Input \cup {None}
  BY <1>1, <1>2, JournalFacts, PendingFacts DEF TaskState
<1>4. errors' = errors \cup ({blamed} \ {None})
  BY DEF Fail
<1>5. task' = [task EXCEPT ![t].at = "leave", ![t].current = blamed,
                           ![t].unwound = TRUE, ![t].turn = None]
  BY DEF Fail
<1> HIDE DEF blamed
<1>6. w \in TaskState /\ task' = [task EXCEPT ![t] = w]
  BY <1>1, <1>2, <1>3, <1>5 DEF TaskState, At
<1>7. MayBecome(t, w) /\ w.at # "free" /\ ~w.cancelled
  BY <1>1 DEF MayBecome, TaskState
<1>8. Ends(t, {})
  BY NothingEnds DEF Fail
<1>9. /\ activations' \in Nat /\ errors' \in SUBSET Input
      /\ UNCHANGED <<active, turnGeneration, clientVars>>
  BY <1>3, <1>4 DEF Fail, IInv, TypeOK
<1> QED BY <1>1, <1>6, <1>7, <1>8, <1>9, TaskStep

\* CancelledError is delivered.
LEMMA DeliverKeeps ==
    ASSUME IInv, NEW t \in Task, Deliver(t)
    PROVE  IInv'
<1>1. /\ t # active /\ task[t] \in TaskState /\ task[t].at # "free" /\ task[t].cancelled
      /\ task[t].turn # None =>
            task[t].turn = task[t].current
            /\ task[t].at \in {"start", "run", "ended", "fail", "abort"}
  <2>1. task[t].cancelled /\ TaskOK(t) /\ task[t] \in TaskState
    BY DEF Deliver, IInv, TaskInv, TypeOK
  <2>2. task[t].at # "free"
    BY <2>1 DEF TaskOK, FreeTask
  <2> QED BY <2>1, <2>2 DEF TaskOK
<1>2. Ends(t, {}) /\ task \in [Task -> TaskState] /\ errors \in SUBSET Input
  BY NothingEnds DEF Deliver, IInv, TypeOK
<1>3. activations' \in Nat /\ UNCHANGED <<active, turnGeneration, clientVars>>
  BY DEF Deliver, IInv, TypeOK
<1>4. CASE task[t].at = "leave"
  <2>1. task' = [task EXCEPT ![t] = FreeTask] /\ errors' = errors
    BY <1>4 DEF Deliver
  <2>2. MayBecome(t, FreeTask) /\ FreeTask \in TaskState /\ FreeTask.at = "free"
    BY DEF MayBecome, FreeTask, TaskState, At
  <2> QED BY <1>1, <1>2, <1>3, <2>1, <2>2, TaskStep
<1>5. CASE task[t].at \in {"abort", "fail"}
  <2> DEFINE w == [task[t] EXCEPT !.at = "leave", !.cancelled = FALSE,
                                  !.unwound = TRUE, !.turn = None]
  <2>1. /\ errors' = errors \cup ({task[t].current} \ {None})
        /\ task' = [task EXCEPT ![t].at = "leave", ![t].cancelled = FALSE,
                                ![t].unwound = TRUE, ![t].turn = None]
    BY <1>5 DEF Deliver
  <2>2. errors' \in SUBSET Input
    BY <1>1, <1>2, <2>1 DEF TaskState
  <2>3. w \in TaskState /\ task' = [task EXCEPT ![t] = w]
    BY <1>1, <1>2, <2>1 DEF TaskState, At
  <2>4. MayBecome(t, w) /\ w.at = "leave"
    BY <1>1 DEF MayBecome, TaskState
  <2> QED BY <1>1, <1>2, <1>3, <2>2, <2>3, <2>4, TaskStep
<1>6. CASE task[t].at \notin {"leave", "abort", "fail", "free"}
  <2> DEFINE at == IF task[t].current = None THEN "leave" ELSE "abort"
             w == [task[t] EXCEPT !.at = at, !.cancelled = FALSE, !.unwound = TRUE]
  <2>1. /\ errors' = errors
        /\ task' = [task EXCEPT ![t].at = at, ![t].cancelled = FALSE, ![t].unwound = TRUE]
    BY <1>6 DEF Deliver
  <2>2. at \in {"leave", "abort"} /\ (task[t].turn # None => at = "abort")
    BY <1>1
  <2> HIDE DEF at
  <2>3. w \in TaskState /\ task' = [task EXCEPT ![t] = w]
    BY <1>1, <1>2, <2>1, <2>2 DEF TaskState, At
  <2>4. Unwinds(t)
    BY <1>1, <1>6 DEF Unwinds
  <2>5. MayBecome(t, w) /\ w.at \in {"leave", "abort"}
    BY <1>1, <2>2, <2>4 DEF MayBecome, TaskState
  <2> QED BY <1>1, <1>2, <1>3, <2>1, <2>3, <2>5, TaskStep
<1> QED BY <1>1, <1>4, <1>5, <1>6

\* An aborted task closes its turn.
LEMMA AbortKeeps ==
    ASSUME IInv, NEW t \in Task, Abort(t)
    PROVE  IInv'
<1> DEFINE w == [task[t] EXCEPT !.at = "leave", !.turn = None]
           c == task[t].current
<1>1. task[t] \in TaskState /\ task[t].at = "abort" /\ ~task[t].cancelled /\ Unwinds(t)
  BY DEF Abort, Resumes, IInv, TypeOK, Unwinds
<1>2. w \in TaskState /\ task' = [task EXCEPT ![t] = w]
  BY <1>1 DEF Abort, TaskState, At, IInv, TypeOK
<1>3. MayBecome(t, w) /\ w.at = "leave" /\ ~w.cancelled
  BY <1>1 DEF MayBecome, TaskState
<1>4. /\ activations' \in Nat /\ errors' \in SUBSET Input
      /\ UNCHANGED <<active, turnGeneration, clientVars>>
  BY DEF Abort, IInv, TypeOK
<1>5. CASE c \in incomplete(journal)
  <2>1. PICK kind \in {"TurnCancelled", "TurnInterrupted"} :
            journal' = Append(journal, Ended(kind, c))
    BY <1>5 DEF Abort
  <2>2. kind \in Terminal
    BY DEF Terminal
  <2>3. \A u \in Task : Current(u) /\ u # t => task[u].current # c
    BY <1>1 DEF IInv, RivalInv
  <2>4. Ends(t, {c}) /\ c \in Input
    BY <1>5, <2>1, <2>2, <2>3, OpenTurnEnds
  <2> QED BY <1>1, <1>2, <1>3, <1>4, <2>4, TaskStep
<1>6. CASE c \notin incomplete(journal)
  <2>1. Ends(t, {})
    BY <1>6, NothingEnds DEF Abort
  <2> QED BY <1>1, <1>2, <1>3, <1>4, <2>1, TaskStep
<1> QED BY <1>5, <1>6

\* The turn of a current engine while no cancellation is under way: about to
\* start when none is open, or open.
LEMMA EngineTurn ==
    ASSUME IInv, NEW t \in Task, Unlocked, Current(t)
    PROVE  /\ task[t].turn = task[t].current
           /\ task[t].at = "start" =>
                 /\ task[t].current \in PendingIds(journal)
                 /\ started(journal) \subseteq terminal(journal)
                 /\ \A c \in PendingIds(journal) :
                       c # task[t].current => Precedes(journal, task[t].current, c)
           /\ task[t].at = "run" => task[t].current \in incomplete(journal)
           /\ \A u \in Task : Current(u) => u = t
<1>1. /\ task[t].turn = task[t].current
      /\ task[t].at = "start" =>
            /\ task[t].current \in PendingIds(journal)
            /\ started(journal) \subseteq terminal(journal)
      /\ task[t].at # "start" => task[t].current \in started(journal) \ terminal(journal)
  BY DEF IInv, EngineInv, Unlocked
<1>2. incomplete(journal) = started(journal) \ terminal(journal)
  BY JournalFacts DEF IInv, TypeOK
<1>3. task[t].at = "start" =>
         \A c \in PendingIds(journal) :
            c # task[t].current => Precedes(journal, task[t].current, c)
  BY <1>1 DEF IInv, PrepareInv, Current
<1>4. ASSUME NEW u \in Task, Current(u) PROVE u = t
  BY <1>4 DEF IInv, TaskInv, TaskOK, Current, MayAppend
<1> QED BY <1>1, <1>2, <1>3, <1>4

\* The engine ends its turn.
LEMMA FinishKeeps ==
    ASSUME IInv, NEW t \in Task, Finish(t)
    PROVE  IInv'
<1> DEFINE w == [task[t] EXCEPT !.at = "ended"]
           c == task[t].current
<1>1. PICK kind \in {"TurnCompleted", "TurnFailed"} : Engine(t, "run", "ended", Ended(kind, c))
  BY DEF Finish
<1>2. task[t] \in TaskState /\ task[t].at = "run" /\ Current(t) /\ Unlocked /\ TaskOK(t)
  BY <1>1 DEF Engine, IInv, TypeOK, Current, TaskInv
<1>3. /\ task[t].turn = c /\ c \in incomplete(journal)
      /\ \A u \in Task : Current(u) => u = t
  BY <1>2, EngineTurn
<1>4. w \in TaskState /\ task' = [task EXCEPT ![t] = w]
  BY <1>1, <1>2 DEF Engine, Goto, TaskState, At, IInv, TypeOK
<1>5. MayBecome(t, w) /\ w.at = "ended" /\ w.cancelled = task[t].cancelled
  BY <1>2, <1>3 DEF MayBecome, TaskState
<1>6. kind \in Terminal /\ journal' = Append(journal, Ended(kind, c))
  BY <1>1 DEF Engine, Terminal
<1>7. Ends(t, {c}) /\ c \in Input
  BY <1>3, <1>6, OpenTurnEnds
<1>8. /\ activations' \in Nat /\ errors' \in SUBSET Input
      /\ UNCHANGED <<active, turnGeneration, clientVars>>
  BY <1>1 DEF Engine, IInv, TypeOK
<1>9. /\ t = active' => ~w.cancelled
      /\ t # active' => w.cancelled
  BY <1>2, <1>5, <1>8 DEF TaskOK
<1> QED BY <1>4, <1>5, <1>7, <1>8, <1>9, TaskStep

\* What _activate leaves behind: s is the task it starts, or None.
Spawned(tasks, act, s) ==
    /\ task' \in [Task -> TaskState]
    /\ \A u \in Task : u # s => task'[u] = tasks[u]
    /\ s = None => active' = act
    /\ s # None =>
          /\ s \in Task /\ act = None /\ active' = s /\ shutdown = "no"
          /\ tasks[s].at = "free" /\ task'[s].at = "enter" /\ task'[s].turn = None
          /\ task'[s].generation = 0 /\ ~task'[s].cancelled

\* A new task has its type.
LEMMA NewTaskType ==
    ASSUME NEW n \in Nat
    PROVE  /\ NewTask(n) \in TaskState /\ NewTask(n).at = "enter" /\ NewTask(n).turn = None
           /\ NewTask(n).generation = 0 /\ ~NewTask(n).cancelled
BY DEF NewTask, FreeTask, TaskState, At

\* A task that is free has its type.
LEMMA FreeTaskType ==
    /\ FreeTask \in TaskState /\ FreeTask.at = "free" /\ FreeTask.turn = None
    /\ FreeTask.generation = 0 /\ ~FreeTask.cancelled
BY DEF FreeTask, TaskState, At

\* Cancelling a task changes nothing else of it.
LEMMA StoppedFields ==
    ASSUME NEW x \in TaskState
    PROVE  LET y == [x EXCEPT !.cancelled = TRUE]
           IN  /\ y \in TaskState /\ y.at = x.at /\ y.turn = x.turn /\ y.current = x.current
               /\ y.generation = x.generation /\ y.cancelled
BY DEF TaskState

\* _activate starts one task or none.
LEMMA ActivateSpawns ==
    ASSUME NEW tasks \in [Task -> TaskState], NEW act, NEW n \in Nat,
           \/ Activate(tasks, act, n)
           \/ task' = tasks /\ active' = act
    PROVE  \E s \in Task \cup {None} : Spawned(tasks, act, s)
<1>1. CASE task' = tasks /\ active' = act
  BY <1>1 DEF Spawned
<1>2. CASE Activate(tasks, act, n) /\ ~(closed \/ act # None)
  <2>1. PICK s \in {u \in Task : tasks[u].at = "free"} :
           task' = [tasks EXCEPT ![s] = NewTask(n)] /\ active' = s
    BY <1>2 DEF Activate
  <2>2. task' \in [Task -> TaskState] /\ task'[s] = NewTask(n)
    BY <2>1, NewTaskType
  <2>3. Spawned(tasks, act, s)
    BY <1>2, <2>1, <2>2, NewTaskType, DrainAssumption DEF Spawned, closed
  <2> QED BY <2>1, <2>3
<1> QED BY <1>1, <1>2 DEF Activate

\* What is the same of a task that was cancelled.
IsStopped(x, y) ==
    /\ y.cancelled /\ y.at = x.at /\ y.turn = x.turn /\ y.current = x.current
    /\ y.generation = x.generation

\* A task may be freed or stopped and another one started, and new
\* inputs queued.
LEMMA TasksChange ==
    ASSUME IInv, NEW tasks \in [Task -> TaskState], NEW act \in {active, None},
           NEW s \in Task \cup {None}, Spawned(tasks, act, s),
           \A u \in Task : u # active => tasks[u] \in {task[u], FreeTask},
           act # None => tasks[active] = task[active] /\ turnGeneration' = turnGeneration,
           act = None /\ active # None =>
              \/ tasks[active] = FreeTask /\ turnGeneration' = turnGeneration
              \/ /\ tasks[active] = [task[active] EXCEPT !.cancelled = TRUE]
                 /\ task[active].turn \in {None} \cup terminal(journal)
                 /\ turnGeneration' = turnGeneration + 1,
           active = None => turnGeneration' = turnGeneration,
           turnGeneration' = turnGeneration =>
              \A u \in Task : Current(u) => task[u].current \notin terminal(journal),
           cancelling' = None \/ \E k \in CancelId : cancelling' \in Cancelled(k),
           shutdown \in {"swept", "done"} => cancelling' = None, LocalInv', CoordinatedInv',
           UNCHANGED <<shutdown, doomed, coordinated>>,
           activations' \in Nat, errors' \in SUBSET Input, acknowledged' \in SUBSET CancelId,
           Grows(journal, journal'), started(journal') = started(journal),
           terminal(journal') = terminal(journal), ReceiptInv'
    PROVE  IInv'
<1>1. /\ TypeOK /\ JournalInv(journal) /\ TaskInv /\ ShutdownInv /\ EngineInv
      /\ PrepareInv /\ RivalInv /\ turnGeneration \in Nat /\ turnGeneration' \in Nat
  BY DEF IInv, TypeOK
<1>2. /\ task \in [Task -> TaskState] /\ task' \in [Task -> TaskState]
      /\ journal \in Seq(Event) /\ journal' \in Seq(Event) /\ JournalInv(journal')
      /\ active \in Task \cup {None} /\ None \notin Task
  BY <1>1, DrainAssumption DEF TypeOK, Grows, Spawned
<1>3. \A u \in Task :
         \/ task'[u] = task[u] /\ (u = active <=> u = active')
         \/ u = active' /\ task'[u].at = "enter" /\ task'[u].turn = None
            /\ task'[u].generation = 0 /\ ~task'[u].cancelled
         \/ u # active' /\ task'[u] = FreeTask
         \/ /\ u # active' /\ u = active /\ IsStopped(task[u], task'[u])
            /\ task[u].turn \in {None} \cup terminal(journal)
            /\ turnGeneration' = turnGeneration + 1
  <2> SUFFICES ASSUME NEW u \in Task
               PROVE  \/ task'[u] = task[u] /\ (u = active <=> u = active')
                      \/ u = active' /\ task'[u].at = "enter" /\ task'[u].turn = None
                         /\ task'[u].generation = 0 /\ ~task'[u].cancelled
                      \/ u # active' /\ task'[u] = FreeTask
                      \/ /\ u # active' /\ u = active
                         /\ IsStopped(task[u], task'[u])
                         /\ task[u].turn \in {None} \cup terminal(journal)
                         /\ turnGeneration' = turnGeneration + 1
    OBVIOUS
  <2>1. CASE u = s
    BY <1>2, <2>1 DEF Spawned
  <2>2. CASE u # s /\ u # active
    BY <1>2, <2>2 DEF Spawned
  <2>3. CASE u # s /\ u = active /\ act # None
    BY <1>2, <2>3 DEF Spawned
  <2>4. CASE u # s /\ u = active /\ act = None
    <3>1. task'[u] = tasks[u] /\ u # active'
      BY <1>2, <2>4 DEF Spawned
    <3>2. IsStopped(task[u], [task[u] EXCEPT !.cancelled = TRUE])
      BY <1>2, StoppedFields DEF IsStopped
    <3> QED BY <1>2, <2>4, <3>1, <3>2
  <2> QED BY <2>1, <2>2, <2>3, <2>4
<1>4. active' \in Task \cup {None} /\ (active' # None => task'[active'].at # "free")
  <2>1. CASE s = None
    BY <1>1, <1>2, <2>1 DEF Spawned, TypeOK
  <2>2. CASE s # None
    BY <2>2 DEF Spawned
  <2> QED BY <2>1, <2>2
<1>5. TypeOK'
  BY <1>1, <1>2, <1>4 DEF TypeOK
<1>6. TaskInv'
  <2> SUFFICES ASSUME NEW u \in Task PROVE TaskOK(u)'
    BY DEF TaskInv
  <2>1. TaskOK(u) /\ \A v \in Task : task[v].generation \in Nat
    BY <1>1, <1>2 DEF TaskInv, TaskState
  <2>2. \A v \in Task : task'[v].generation \in {0, task[v].generation}
    BY <1>2, <1>3, FreeTaskType DEF IsStopped
  <2>3. /\ task'[u].generation <= turnGeneration'
        /\ \A v \in Task :
              task'[u].generation = task'[v].generation /\ task'[u].generation > 0 => u = v
    <3>1. turnGeneration <= turnGeneration'
      BY <1>1, <1>2
    <3> QED BY <1>1, <2>1, <2>2, <3>1 DEF TaskOK
  <2>4. CASE task'[u] = task[u] /\ (u = active <=> u = active')
    BY <2>1, <2>3, <2>4 DEF TaskOK
  <2>5. CASE u = active' /\ task'[u].at = "enter" /\ task'[u].turn = None
             /\ task'[u].generation = 0 /\ ~task'[u].cancelled
    BY <2>3, <2>5 DEF TaskOK
  <2>6. CASE u # active' /\ task'[u] = FreeTask
    BY <2>3, <2>6, FreeTaskType DEF TaskOK
  <2>7. CASE u # active' /\ u = active /\ IsStopped(task[u], task'[u])
    <3>1. /\ task'[u].at = task[u].at /\ task'[u].cancelled /\ task[u].at # "free"
          /\ task'[u].turn = task[u].turn /\ task'[u].current = task[u].current
          /\ task'[u].generation = task[u].generation
      BY <1>1, <1>2, <2>7 DEF IsStopped, TypeOK
    <3> QED BY <2>1, <2>3, <2>7, <3>1 DEF TaskOK
  <2> QED BY <1>3, <2>4, <2>5, <2>6, <2>7
<1>7. ShutdownInv'
  BY <1>1, <1>2 DEF ShutdownInv, Spawned
<1>8. ASSUME NEW u \in Task, Current(u)'
      PROVE  /\ task'[u] = task[u] /\ Current(u) /\ (u = active <=> u = active')
             /\ turnGeneration' = turnGeneration
  <2>1. task'[u].at \in {"start", "run"} /\ task'[u].generation = turnGeneration'
    BY <1>8 DEF Current, MayAppend
  <2>2. task[u].generation <= turnGeneration /\ task[u].generation \in Nat
    BY <1>1, <1>2 DEF TaskInv, TaskOK, TaskState
  <2>3. ~(IsStopped(task[u], task'[u]) /\ turnGeneration' = turnGeneration + 1)
    BY <1>1, <2>1, <2>2 DEF IsStopped
  <2>4. task'[u] = task[u] /\ (u = active <=> u = active')
    BY <1>3, <2>1, <2>3, FreeTaskType
  <2>5. turnGeneration' = turnGeneration
    BY <1>1, <2>1, <2>2, <2>4
  <2> QED BY <2>1, <2>4, <2>5 DEF Current, MayAppend
<1>9. /\ PendingIds(journal) = queued(journal) \ (started(journal) \cup terminal(journal))
      /\ PendingIds(journal') = queued(journal') \ (started(journal') \cup terminal(journal'))
      /\ PendingIds(journal) \subseteq PendingIds(journal')
      /\ terminal(journal) \subseteq queued(journal)
  BY <1>1, <1>2, JournalFacts DEF Grows
<1>10. EngineInv'
  <2> SUFFICES ASSUME NEW u \in Task, Current(u)'
               PROVE  /\ task'[u].turn = task'[u].current /\ task'[u].current # None
                      /\ u = active' \/ shutdown' = "done"
                      /\ task'[u].current \notin terminal(journal')
                      /\ IF task'[u].at = "start"
                         THEN /\ task'[u].current \in PendingIds(journal')
                              /\ started(journal') \subseteq terminal(journal')
                         ELSE task'[u].current \in started(journal')
    BY DEF EngineInv
  <2> QED BY <1>1, <1>8, <1>9 DEF EngineInv
<1>11. PrepareInv'
  <2> SUFFICES ASSUME NEW u \in Task
               PROVE  /\ Resumes(u, "prepare")' =>
                            /\ started(journal') \subseteq terminal(journal')
                            /\ task'[u].current \in queued(journal')
                      /\ Resumes(u, "prepare")' \/ (task'[u].at = "start" /\ MayAppend(u)') =>
                            \A c \in PendingIds(journal') :
                               task'[u].current \in PendingIds(journal') /\ c # task'[u].current
                               => Precedes(journal', task'[u].current, c)
    BY DEF PrepareInv
  <2>1. CASE ~Resumes(u, "prepare")' /\ ~(task'[u].at = "start" /\ MayAppend(u)')
    BY <2>1
  <2>2. CASE Resumes(u, "prepare")' \/ (task'[u].at = "start" /\ MayAppend(u)')
    <3>1. ASSUME Resumes(u, "prepare")'
          PROVE  /\ started(journal') \subseteq terminal(journal')
                 /\ task'[u].current \in queued(journal')
      <4>1. task'[u] = task[u]
        BY <1>2, <1>3, <3>1, FreeTaskType DEF Resumes, IsStopped
      <4> QED BY <1>1, <3>1, <4>1 DEF PrepareInv, Resumes, Grows
    <3>2. /\ task'[u] = task[u] /\ task[u].current \in queued(journal)
          /\ \A c \in PendingIds(journal) :
                task[u].current \in PendingIds(journal) /\ c # task[u].current
                => Precedes(journal, task[u].current, c)
      <4>1. CASE Resumes(u, "prepare")'
        <5>1. task'[u] = task[u]
          BY <1>2, <1>3, <4>1, FreeTaskType DEF Resumes, IsStopped
        <5> QED BY <1>1, <4>1, <5>1 DEF PrepareInv, Resumes
      <4>2. CASE task'[u].at = "start" /\ MayAppend(u)'
        <5>1. Current(u)'
          BY <4>2 DEF Current
        <5>2. task'[u] = task[u] /\ Current(u) /\ turnGeneration' = turnGeneration
          BY <1>8, <5>1
        <5>3. task[u].current \in queued(journal)
          BY <1>1, <1>9, <4>2, <5>2 DEF EngineInv
        <5> QED BY <1>1, <4>2, <5>2, <5>3 DEF PrepareInv, Current
      <4> QED BY <2>2, <4>1, <4>2
    <3>3. ASSUME NEW c \in PendingIds(journal'), task[u].current \in PendingIds(journal'),
                 c # task[u].current
          PROVE  Precedes(journal', task[u].current, c)
      <4>1. task[u].current \in PendingIds(journal)
        BY <1>9, <3>2, <3>3
      <4>2. CASE c \in queued(journal)
        <5>1. c \in PendingIds(journal)
          BY <1>9, <3>3, <4>2
        <5>2. Precedes(journal, task[u].current, c)
          BY <3>2, <3>3, <4>1, <5>1
        <5> QED BY <3>2, <4>2, <5>2 DEF Grows
      <4>3. CASE c \notin queued(journal)
        BY <1>9, <3>2, <3>3, <4>3 DEF Grows
      <4> QED BY <4>2, <4>3
    <3> QED BY <3>1, <3>2, <3>3
  <2> QED BY <2>1, <2>2
<1>12. RivalInv'
  <2>1. ASSUME NEW a \in Task, NEW u \in Task, Current(u)', a # u, Unwinds(a)'
        PROVE  task'[a].current # task'[u].current
    <3>1. task'[u] = task[u] /\ Current(u) /\ turnGeneration' = turnGeneration
      BY <1>8, <2>1
    <3>2. turnGeneration' # turnGeneration + 1
      BY <1>1, <3>1
    <3>3. task'[a] = task[a]
      BY <1>3, <2>1, <3>2, FreeTaskType DEF Unwinds
    <3> QED BY <1>1, <2>1, <3>1, <3>3 DEF RivalInv, Unwinds
  <2>2. ASSUME NEW a \in Task, a # active', task'[a].turn # None, shutdown' # "done"
        PROVE  task'[a].turn \in terminal(journal')
    <3>1. CASE task'[a] = task[a] /\ (a = active <=> a = active')
      BY <1>1, <2>2, <3>1 DEF RivalInv
    <3>2. CASE /\ IsStopped(task[a], task'[a])
               /\ task[a].turn \in {None} \cup terminal(journal)
      BY <2>2, <3>2 DEF IsStopped
    <3> QED BY <1>3, <2>2, <3>1, <3>2, FreeTaskType
  <2> QED BY <2>1, <2>2 DEF RivalInv
<1> QED BY <1>2, <1>5, <1>6, <1>7, <1>10, <1>11, <1>12 DEF IInv

\* The same in a step that leaves no cancellation under way.
LEMMA HandOver ==
    ASSUME IInv, NEW tasks \in [Task -> TaskState], NEW act \in {active, None},
           NEW s \in Task \cup {None}, Spawned(tasks, act, s),
           \A u \in Task : u # active => tasks[u] \in {task[u], FreeTask},
           act # None => tasks[active] = task[active] /\ turnGeneration' = turnGeneration,
           act = None /\ active # None =>
              \/ tasks[active] = FreeTask /\ turnGeneration' = turnGeneration
              \/ /\ tasks[active] = [task[active] EXCEPT !.cancelled = TRUE]
                 /\ task[active].turn \in {None} \cup terminal(journal)
                 /\ turnGeneration' = turnGeneration + 1,
           active = None => turnGeneration' = turnGeneration,
           turnGeneration' = turnGeneration =>
              \A u \in Task : Current(u) => task[u].current \notin terminal(journal),
           cancelling' = None, UNCHANGED <<shutdown, doomed, coordinated>>,
           activations' \in Nat, errors' \in SUBSET Input, acknowledged' \in SUBSET CancelId,
           Grows(journal, journal'), started(journal') = started(journal),
           terminal(journal') = terminal(journal), ReceiptInv'
    PROVE  IInv'
<1>1. LocalInv' /\ CoordinatedInv'
  BY DEF LocalInv, CoordinatedInv
<1> QED BY <1>1, TasksChange

\* No current engine's turn has ended while no cancellation is under way.
LEMMA CurrentNotEnded ==
    ASSUME IInv, Unlocked
    PROVE  \A u \in Task : Current(u) => task[u].current \notin terminal(journal)
BY DEF IInv, EngineInv, Unlocked

\* The task is over, and perhaps another one is started.
LEMMA LeaveKeeps ==
    ASSUME IInv, NEW t \in Task, Leave(t)
    PROVE  IInv'
<1> DEFINE tasks == [task EXCEPT ![t] = FreeTask]
           act == ActiveWithout(t)
<1>1. /\ task \in [Task -> TaskState] /\ activations \in Nat /\ journal \in Seq(Event)
      /\ JournalInv(journal) /\ active \in Task \cup {None}
  BY DEF IInv, TypeOK
<1>2. tasks \in [Task -> TaskState] /\ act \in {active, None} /\ (act = None <=> active \in {t, None})
  BY <1>1, FreeTaskType, DrainAssumption DEF ActiveWithout
<1>3. \/ Activate(tasks, act, activations)
      \/ task' = tasks /\ active' = act
  BY DEF Leave
<1>4. /\ \A u \in Task : u # active => tasks[u] \in {task[u], FreeTask}
      /\ act # None => tasks[active] = task[active]
      /\ act = None /\ active # None => tasks[active] = FreeTask
  BY <1>1, <1>2
<1>5. /\ turnGeneration' = turnGeneration /\ cancelling' = None /\ journal' = journal
      /\ acknowledged' = acknowledged /\ UNCHANGED <<shutdown, doomed, coordinated>>
      /\ activations' \in Nat /\ errors' \in SUBSET Input /\ acknowledged' \in SUBSET CancelId
  BY DEF Leave, Unlocked, clientVars, IInv, TypeOK
<1>6. \A u \in Task : Current(u) => task[u].current \notin terminal(journal)
  BY CurrentNotEnded DEF Leave
<1>7. Grows(journal, journal') /\ ReceiptInv'
  BY <1>1, <1>5, GrowsReflexive, ReceiptsKept
<1> HIDE DEF tasks, act
<1>8. PICK s \in Task \cup {None} : Spawned(tasks, act, s)
  BY <1>1, <1>2, <1>3, ActivateSpawns
<1> QED BY <1>2, <1>4, <1>5, <1>6, <1>7, <1>8, HandOver

\* An input is accepted, by whichever way it comes.
LEMMA AcceptInputKeeps ==
    ASSUME IInv, NEW c \in Input, AcceptInput(c)
    PROVE  IInv'
<1>1. /\ task \in [Task -> TaskState] /\ activations \in Nat /\ journal \in Seq(Event)
      /\ JournalInv(journal) /\ active \in Task \cup {None} /\ Counted \in Nat
  BY DEF IInv, TypeOK, Counted
<1>2. Activate(task, active, Counted)
  BY DEF AcceptInput
<1>3. /\ turnGeneration' = turnGeneration /\ cancelling' = None
      /\ acknowledged' = acknowledged /\ UNCHANGED <<shutdown, doomed, coordinated>>
      /\ activations' \in Nat /\ errors' \in SUBSET Input /\ acknowledged' \in SUBSET CancelId
  BY <1>1 DEF AcceptInput, Call, Unlocked, IInv, TypeOK
<1>4. \A u \in Task : Current(u) => task[u].current \notin terminal(journal)
  BY CurrentNotEnded DEF AcceptInput, Call
<1>5. /\ Grows(journal, journal') /\ started(journal') = started(journal)
      /\ terminal(journal') = terminal(journal) /\ ReceiptInv'
  <2>1. CASE c \in queued(journal)
    <3>1. journal' = journal
      BY <2>1 DEF AcceptInput, queued
    <3> QED BY <1>1, <1>3, <3>1, GrowsReflexive, ReceiptsKept
  <2>2. CASE c \notin queued(journal)
    <3>1. journal' = Append(journal, Queued(c))
      BY <2>2 DEF AcceptInput, queued
    <3>2. /\ Grows(journal, journal') /\ started(journal') = started(journal)
          /\ terminal(journal') = terminal(journal)
          /\ \A n : IsRequest(journal', n) => IsRequest(journal, n) /\ journal'[n] = journal[n]
      BY <1>1, <2>2, <3>1, QueueGrows
    <3> QED BY <1>3, <3>2, ReceiptsKept
  <2> QED BY <2>1, <2>2
<1>6. PICK s \in Task \cup {None} : Spawned(task, active, s)
  BY <1>1, <1>2, ActivateSpawns
<1> QED BY <1>1, <1>3, <1>4, <1>5, <1>6, HandOver

\* The task claims its input: the turn gets a generation of its own.
LEMMA ClaimKeeps ==
    ASSUME IInv, SlowUnwind = FALSE, NEW t \in Task, Claim(t)
    PROVE  IInv'
<1>1. /\ t = active /\ task[t] \in TaskState /\ task[t].at = "prepare" /\ ~task[t].cancelled
      /\ active # None
  BY ActiveTask DEF Claim, Resumes
<1>2. task \in [Task -> TaskState] /\ journal \in Seq(Event) /\ JournalInv(journal)
  BY DEF IInv, TypeOK
<1>3. /\ activations' \in Nat /\ errors' \in SUBSET Input /\ journal' = journal
      /\ UNCHANGED <<active, clientVars>> /\ cancelling = None /\ cancelling' = None
  BY DEF Claim, Unlocked, clientVars, IInv, TypeOK
<1>4. CASE ~StillPending(task[t].current)
  <2> DEFINE w == [task[t] EXCEPT !.at = "loop", !.current = None]
  <2>1. w \in TaskState /\ task' = [task EXCEPT ![t] = w] /\ task[t].turn = None
    BY <1>1, <1>4 DEF Claim, TaskState, At, IInv, TypeOK, TaskInv, TaskOK
  <2>2. MayBecome(t, w) /\ w.at # "free" /\ ~w.cancelled
    BY <1>1, <2>1 DEF MayBecome, TaskState
  <2>3. Ends(t, {})
    BY <1>3, NothingEnds
  <2>4. turnGeneration' = turnGeneration
    BY <1>4 DEF Claim
  <2> QED BY <1>1, <1>3, <2>1, <2>2, <2>3, <2>4, TaskStep
<1>5. CASE StillPending(task[t].current)
  <2> DEFINE c == task[t].current
             w == [task[t] EXCEPT !.at = "start", !.turn = c, !.generation = turnGeneration + 1]
  <2>1. turnGeneration \in Nat /\ turnGeneration' = turnGeneration + 1
    BY <1>5 DEF Claim, IInv, TypeOK
  <2>2. c \in PendingIds(journal) /\ c \in Input /\ c \notin terminal(journal)
    BY <1>2, <1>5, JournalFacts DEF StillPending
  <2>3. w \in TaskState /\ task' = [task EXCEPT ![t] = w]
    <3>1. task' = [task EXCEPT ![t].at = "start", ![t].turn = c,
                               ![t].generation = turnGeneration + 1]
      BY <1>5 DEF Claim
    <3>2. \A x \in TaskState, b \in Input, n \in Nat :
             [x EXCEPT !.at = "start", !.turn = b, !.generation = n] \in TaskState
      BY DEF TaskState, At
    <3>3. turnGeneration + 1 \in Nat
      BY <2>1
    <3>4. w \in TaskState
      BY <1>1, <2>2, <3>2, <3>3
    <3> QED BY <1>1, <1>2, <3>1, <3>4
  <2>4. /\ w.at = "start" /\ w.turn = c /\ w.current = c /\ w.generation = turnGeneration'
        /\ ~w.cancelled
    BY <1>1, <2>1 DEF TaskState
  <2>5. /\ task' \in [Task -> TaskState] /\ task'[t] = w
        /\ \A u \in Task : u # t => task'[u] = task[u]
    BY <1>2, <2>3
  <2> HIDE DEF w
  <2>6. \A u \in Task : task[u].generation <= turnGeneration /\ task[u].generation \in Nat
    BY <1>2 DEF IInv, TaskInv, TaskOK, TaskState
  <2>7. \A u \in Task : MayAppend(u)' => u = t
    BY <2>1, <2>5, <2>6 DEF MayAppend
  <2>8. TypeOK'
    BY <1>1, <1>3, <2>1, <2>4, <2>5 DEF IInv, TypeOK, clientVars
  <2>9. TaskInv'
    <3> SUFFICES ASSUME NEW u \in Task PROVE TaskOK(u)'
      BY DEF TaskInv
    <3>1. TaskOK(u)
      BY DEF IInv, TaskInv
    <3>2. CASE u = t
      BY <1>1, <1>3, <2>1, <2>4, <2>5, <2>6, <3>2 DEF TaskOK
    <3>3. CASE u # t
      <4>1. /\ task'[u].generation <= turnGeneration'
            /\ \A v \in Task :
                  task'[u].generation = task'[v].generation /\ task'[u].generation > 0 => u = v
        BY <2>1, <2>4, <2>5, <2>6, <3>1, <3>3 DEF TaskOK
      <4> QED BY <1>3, <2>5, <3>1, <3>3, <4>1 DEF TaskOK
    <3> QED BY <3>2, <3>3
  <2>10. EngineInv'
    <3>1. started(journal) \subseteq terminal(journal)
      BY <1>1 DEF IInv, PrepareInv, Resumes
    <3>2. c # None
      BY <2>2, DrainAssumption
    <3> QED BY <1>1, <1>3, <2>2, <2>4, <2>5, <2>7, <3>1, <3>2 DEF EngineInv, Current
  <2>11. PrepareInv'
    <3>1. \A b \in PendingIds(journal) : b # c => Precedes(journal, c, b)
      BY <1>1, <2>2 DEF IInv, PrepareInv, Resumes
    <3> SUFFICES ASSUME NEW u \in Task
                 PROVE  /\ Resumes(u, "prepare")' =>
                              /\ started(journal') \subseteq terminal(journal')
                              /\ task'[u].current \in queued(journal')
                        /\ Resumes(u, "prepare")' \/ (task'[u].at = "start" /\ MayAppend(u)') =>
                              \A b \in PendingIds(journal') :
                                 task'[u].current \in PendingIds(journal') /\ b # task'[u].current
                                 => Precedes(journal', task'[u].current, b)
      BY DEF PrepareInv
    <3>2. CASE u = t
      BY <1>3, <2>4, <2>5, <3>1, <3>2 DEF Resumes
    <3>3. CASE u # t
      BY <1>3, <2>5, <2>7, <3>3 DEF Resumes, IInv, PrepareInv
    <3> QED BY <3>2, <3>3
  <2>12. RivalInv'
    <3>1. ASSUME NEW a \in Task, NEW u \in Task, Current(u)', a # u, Unwinds(a)'
          PROVE  task'[a].current # task'[u].current
      <4>1. u = t /\ task'[a] = task[a] /\ a # active
        BY <1>1, <2>5, <2>7, <3>1 DEF Current
      <4>2. Unwinds(a) /\ ~Unwinding(a)
        BY <3>1, <4>1 DEF Claim, Unwinds
      <4>3. task[a].turn # None
        BY <4>2 DEF Unwinds, Unwinding
      <4>4. task[a].turn = task[a].current
        BY <4>3 DEF IInv, TaskInv, TaskOK
      <4>5. shutdown # "done"
        BY <1>1 DEF IInv, ShutdownInv
      <4>6. task[a].turn \in terminal(journal)
        BY <4>1, <4>3, <4>5 DEF IInv, RivalInv
      <4> QED BY <2>2, <2>4, <2>5, <4>1, <4>4, <4>6
    <3>2. ASSUME NEW a \in Task, a # active', task'[a].turn # None, shutdown' # "done"
          PROVE  task'[a].turn \in terminal(journal')
      BY <1>1, <1>3, <2>5, <3>2 DEF IInv, RivalInv, clientVars
    <3> QED BY <3>1, <3>2 DEF RivalInv
  <2>13. ShutdownInv' /\ LocalInv' /\ CoordinatedInv'
    BY <1>3 DEF IInv, ShutdownInv, LocalInv, CoordinatedInv, clientVars
  <2>14. ReceiptInv'
    BY <1>3 DEF IInv, ReceiptInv, Recorded, clientVars
  <2> QED BY <1>2, <1>3, <2>8, <2>9, <2>10, <2>11, <2>12, <2>13, <2>14 DEF IInv
<1> QED BY <1>4, <1>5

\* The engine starts the turn.
LEMMA StartKeeps ==
    ASSUME IInv, NEW t \in Task, Start(t)
    PROVE  IInv'
<1> DEFINE w == [task[t] EXCEPT !.at = "run"]
           c == task[t].current
<1>1. /\ task[t] \in TaskState /\ task[t].at = "start" /\ Current(t) /\ Unlocked
      /\ journal' = Append(journal, Started(c)) /\ Goto(t, "run")
      /\ UNCHANGED <<active, activations, turnGeneration, errors, clientVars>>
  BY DEF Start, Engine, IInv, TypeOK, Current
<1>2. /\ task[t].turn = c /\ c \in PendingIds(journal)
      /\ started(journal) \subseteq terminal(journal)
      /\ \A b \in PendingIds(journal) : b # c => Precedes(journal, c, b)
      /\ \A u \in Task : Current(u) => u = t
  BY <1>1, EngineTurn
<1>3. /\ TypeOK /\ JournalInv(journal) /\ TaskInv /\ ShutdownInv /\ EngineInv
      /\ PrepareInv /\ RivalInv /\ ReceiptInv
      /\ task \in [Task -> TaskState] /\ journal \in Seq(Event)
  BY DEF IInv, TypeOK
<1>4. /\ Grows(journal, journal') /\ queued(journal') = queued(journal)
      /\ terminal(journal') = terminal(journal) /\ started(journal') = started(journal) \cup {c}
      /\ \A n : IsRequest(journal', n) => IsRequest(journal, n) /\ journal'[n] = journal[n]
  BY <1>1, <1>2, <1>3, StartGrows
<1>5. w \in TaskState /\ task' = [task EXCEPT ![t] = w]
  BY <1>1, <1>3 DEF Goto, TaskState, At
<1>6. /\ w.at = "run" /\ w.turn = c /\ w.current = c /\ w.generation = task[t].generation
      /\ w.cancelled = task[t].cancelled
  BY <1>1, <1>2 DEF TaskState
<1>7. /\ task' \in [Task -> TaskState] /\ task'[t] = w
      /\ \A u \in Task : u # t => task'[u] = task[u]
  BY <1>3, <1>5
<1> HIDE DEF w
<1>8. \A u \in Task : Current(u)' => u = t
  BY <1>1, <1>2, <1>7 DEF Current, MayAppend
<1>9. TypeOK'
  BY <1>1, <1>3, <1>4, <1>6, <1>7 DEF TypeOK, Grows, clientVars
<1>10. TaskInv'
  <2> SUFFICES ASSUME NEW u \in Task PROVE TaskOK(u)'
    BY DEF TaskInv
  <2>1. TaskOK(u) /\ \A v \in Task : task'[v].generation = task[v].generation
    BY <1>3, <1>6, <1>7 DEF TaskInv
  <2>2. CASE u = t
    BY <1>1, <1>6, <1>7, <2>1, <2>2 DEF TaskOK
  <2>3. CASE u # t
    BY <1>1, <1>7, <2>1, <2>3 DEF TaskOK
  <2> QED BY <2>2, <2>3
<1>11. EngineInv'
  <2>1. c # None /\ c \notin terminal(journal) /\ (t = active \/ shutdown = "done")
    BY <1>1, <1>2, <1>3, Reductions DEF EngineInv
  <2> QED BY <1>1, <1>4, <1>6, <1>7, <1>8, <2>1 DEF EngineInv, clientVars
<1>12. PrepareInv'
  <2>1. ASSUME NEW u \in Task PROVE ~Resumes(u, "prepare")'
    <3>1. CASE u = t
      BY <1>6, <1>7, <3>1 DEF Resumes
    <3>2. CASE u # t
      <4>1. SUFFICES ASSUME task[u].at = "prepare", ~task[u].cancelled PROVE FALSE
        BY <1>7, <3>2 DEF Resumes
      <4>2. u = active
        BY <4>1, ActiveTask
      <4> QED BY <1>1, <3>2, <4>2, ActiveTask
    <3> QED BY <3>1, <3>2
  <2>2. ASSUME NEW u \in Task PROVE ~(task'[u].at = "start" /\ MayAppend(u)')
    BY <1>6, <1>7, <1>8 DEF Current
  <2> QED BY <2>1, <2>2 DEF PrepareInv
<1>13. RivalInv'
  <2>1. ASSUME NEW a \in Task, NEW u \in Task, Current(u)', a # u, Unwinds(a)'
        PROVE  task'[a].current # task'[u].current
    <3>1. u = t /\ task'[a] = task[a]
      BY <1>7, <1>8, <2>1
    <3>2. task[a].current # c
      BY <1>1, <1>3, <2>1, <3>1 DEF RivalInv, Unwinds
    <3> QED BY <1>6, <1>7, <3>1, <3>2
  <2>2. ASSUME NEW a \in Task, a # active', task'[a].turn # None, shutdown' # "done"
        PROVE  task'[a].turn \in terminal(journal')
    <3>1. task'[a].turn = task[a].turn /\ a # active /\ shutdown # "done"
      BY <1>1, <1>2, <1>6, <1>7, <2>2 DEF clientVars
    <3> QED BY <1>3, <1>4, <2>2, <3>1 DEF RivalInv
  <2> QED BY <2>1, <2>2 DEF RivalInv
<1>14. ShutdownInv' /\ LocalInv' /\ CoordinatedInv'
  BY <1>1, <1>3 DEF ShutdownInv, LocalInv, CoordinatedInv, clientVars, Unlocked
<1>15. ReceiptInv'
  BY <1>1, <1>4, ReceiptsKept DEF clientVars
<1>16. JournalInv(journal')
  BY <1>4 DEF Grows
<1> QED BY <1>9, <1>10, <1>11, <1>12, <1>13, <1>14, <1>15, <1>16 DEF IInv

----------------------------------------------------------------------------
(* Cancellation *)

\* The targets of a new cancellation: distinct live inputs, among them all that
\* it is for.
LEMMA TargetsFacts ==
    ASSUME journal \in Seq(Event), JournalInv(journal), NEW d \in BOOLEAN
    PROVE  /\ Targets(d) \in Seq(Input)
           /\ IsInjective(Targets(d))
           /\ ToSet(Targets(d)) \subseteq queued(journal) \ terminal(journal)
           /\ \A c \in PendingIds(journal) : d \/ c \in UserInput => c \in ToSet(Targets(d))
           /\ incomplete(journal) \subseteq ToSet(Targets(d))
<1> DEFINE P == {n \in PendingAt(journal) : d \/ journal[n].id \in UserInput}
           events == Chosen(journal, P)
           ids == Reached(d)
<1>1. P \in SUBSET DOMAIN journal
  BY DEF PendingAt
<1>2. ASSUME NEW m \in P, NEW n \in P, journal[m] = journal[n] PROVE m = n
  <2>1. m \in DOMAIN journal /\ n \in DOMAIN journal /\ journal[m].kind = "InputQueued"
    BY <1>1 DEF PendingAt
  <2>2. Stage(journal[m]) = 1
    BY <2>1, Reductions, EventFields
  <2> QED BY <1>2, <2>1, <2>2, OnceEach DEF JournalInv
<1>3. /\ events \in Seq(Event) /\ ToSet(events) = {journal[n] : n \in P}
      /\ IsInjective(events)
  BY <1>1, <1>2, ChosenElements
<1>4. \A i \in DOMAIN events : \E n \in P : events[i] = journal[n]
  BY <1>3 DEF ToSet
<1>5. \A n \in P : \E i \in DOMAIN events : events[i] = journal[n]
  BY <1>3 DEF ToSet
<1>6. \A n \in P : /\ n \in DOMAIN journal /\ journal[n] = Queued(journal[n].id)
                   /\ journal[n].id \in PendingIds(journal)
  BY <1>1, Reductions, EventFields DEF PendingAt, PendingIds
<1>7. ids = [i \in DOMAIN events |-> events[i].id]
  BY DEF Reached, MapIds
<1> HIDE DEF events, P, ids
<1>8. PendingIds(journal) \subseteq Input
  BY Reductions
<1>9. \A i \in DOMAIN events :
         events[i] = Queued(events[i].id) /\ events[i].id \in PendingIds(journal)
  BY <1>4, <1>6
<1>10. ids \in Seq(Input) /\ DOMAIN ids = DOMAIN events
  BY <1>3, <1>7, <1>8, <1>9
<1>11. IsInjective(ids)
  <2>1. \A i, l \in DOMAIN events : events[i] = events[l] => i = l
    BY <1>3 DEF IsInjective
  <2>2. ASSUME NEW i \in DOMAIN events, NEW l \in DOMAIN events, ids[i] = ids[l]
        PROVE  i = l
    <3>1. events[i].id = events[l].id
      BY <1>7, <2>2
    <3>2. events[i] = events[l]
      BY <1>9, <3>1
    <3> QED BY <2>1, <3>2
  <2> QED BY <1>10, <2>2 DEF IsInjective
<1>12. ToSet(ids) \subseteq PendingIds(journal)
  BY <1>7, <1>9, <1>10 DEF ToSet
<1>13. ASSUME NEW c \in PendingIds(journal), d \/ c \in UserInput PROVE c \in ToSet(ids)
  <2>1. PICK n \in PendingAt(journal) : journal[n].id = c
    BY <1>13 DEF PendingIds
  <2>2. n \in P
    BY <1>13, <2>1 DEF P
  <2>3. PICK i \in DOMAIN events : events[i] = journal[n]
    BY <1>5, <2>2
  <2> QED BY <1>7, <1>10, <2>1, <2>3 DEF ToSet
<1>14. /\ PendingIds(journal) = queued(journal) \ (started(journal) \cup terminal(journal))
       /\ incomplete(journal) = started(journal) \ terminal(journal)
       /\ started(journal) \subseteq queued(journal) /\ queued(journal) \subseteq Input
       /\ \A a, b \in incomplete(journal) : a = b
  BY JournalFacts
<1>15. CASE incomplete(journal) = {}
  <2>1. Targets(d) = ids
    BY <1>15 DEF Targets, ids
  <2> QED BY <1>10, <1>11, <1>12, <1>13, <1>14, <1>15, <2>1
<1>16. CASE incomplete(journal) # {}
  <2>1. PICK c \in incomplete(journal) : Targets(d) = Append(ids, c)
    BY <1>16 DEF Targets, ids
  <2>2. c \in Input /\ c \notin ToSet(ids) /\ c \in queued(journal) \ terminal(journal)
    BY <1>12, <1>14
  <2>3. /\ Append(ids, c) \in Seq(Input) /\ Len(ids) \in Nat /\ DOMAIN ids = 1 .. Len(ids)
        /\ DOMAIN Append(ids, c) = 1 .. (Len(ids) + 1)
        /\ \A i \in DOMAIN ids : Append(ids, c)[i] = ids[i]
        /\ Append(ids, c)[Len(ids) + 1] = c
    BY <1>10, <2>2
  <2>4. ToSet(Append(ids, c)) = ToSet(ids) \cup {c}
    BY <2>3 DEF ToSet
  <2>5. IsInjective(Append(ids, c))
    <3>1. \A i \in DOMAIN ids : ids[i] # c
      BY <2>2 DEF ToSet
    <3>2. \A i, l \in DOMAIN ids : ids[i] = ids[l] => i = l
      BY <1>11 DEF IsInjective
    <3>3. ASSUME NEW i \in DOMAIN Append(ids, c), NEW l \in DOMAIN Append(ids, c),
                 Append(ids, c)[i] = Append(ids, c)[l]
          PROVE  i = l
      <4>1. \A k \in DOMAIN Append(ids, c) : k \in DOMAIN ids \/ k = Len(ids) + 1
        BY <2>3
      <4> QED BY <2>3, <3>1, <3>2, <3>3, <4>1
    <3> QED BY <3>3 DEF IsInjective
  <2>6. incomplete(journal) \subseteq {c}
    BY <1>14
  <2> QED BY <1>12, <1>13, <1>14, <2>1, <2>2, <2>3, <2>4, <2>5, <2>6
<1> QED BY <1>15, <1>16

\* Turns end while a cancellation holds the lock.
LEMMA LockedStep ==
    ASSUME IInv, UNCHANGED <<active, task, turnGeneration, shutdown, doomed, coordinated,
                             activations, errors>>,
           NEW k \in CancelId, cancelling' \in Cancelled(k), shutdown \notin {"swept", "done"},
           acknowledged' \in SUBSET CancelId, Grows(journal, journal'),
           queued(journal') = queued(journal), started(journal') = started(journal),
           \A u \in Task :
              Current(u) /\ task[u].current \in terminal(journal') =>
                 IF coordinated THEN task[u].current \in ToSet(cancelling'.todo)
                 ELSE cancelling'.decision /\ cancelling'.turn = task[u].current,
           LocalInv', CoordinatedInv', ReceiptInv'
    PROVE  IInv'
<1>1. /\ TypeOK /\ JournalInv(journal) /\ TaskInv /\ ShutdownInv /\ EngineInv
      /\ PrepareInv /\ RivalInv /\ journal \in Seq(Event)
  BY DEF IInv, TypeOK
<1>2. /\ journal' \in Seq(Event) /\ JournalInv(journal')
      /\ terminal(journal) \subseteq terminal(journal')
      /\ \A a, b \in queued(journal) : Precedes(journal, a, b) => Precedes(journal', a, b)
  BY DEF Grows
<1>3. /\ PendingIds(journal) = queued(journal) \ (started(journal) \cup terminal(journal))
      /\ PendingIds(journal') = queued(journal') \ (started(journal') \cup terminal(journal'))
      /\ PendingIds(journal') \subseteq PendingIds(journal)
      /\ PendingIds(journal) \subseteq queued(journal)
  BY <1>1, <1>2, Reductions
<1>4. TypeOK'
  BY <1>1, <1>2 DEF TypeOK
<1>5. TaskInv'
  BY <1>1 DEF TaskInv, TaskOK
<1>6. cancelling' # None
  BY NoneAssumption
<1>7. ShutdownInv'
  BY <1>1 DEF ShutdownInv
<1>8. \A u \in Task : Current(u)' <=> Current(u)
  BY DEF Current, MayAppend
<1>9. EngineInv'
  <2> SUFFICES ASSUME NEW u \in Task, Current(u)'
               PROVE  /\ task'[u].turn = task'[u].current /\ task'[u].current # None
                      /\ u = active' \/ shutdown' = "done"
                      /\ task'[u].current \in terminal(journal') =>
                            /\ cancelling' # None
                            /\ IF coordinated' THEN task'[u].current \in ToSet(cancelling'.todo)
                               ELSE cancelling'.decision /\ cancelling'.turn = task'[u].current
                      /\ task'[u].current \notin terminal(journal') =>
                            IF task'[u].at = "start"
                            THEN /\ task'[u].current \in PendingIds(journal')
                                 /\ started(journal') \subseteq terminal(journal')
                            ELSE task'[u].current \in started(journal')
    BY DEF EngineInv
  <2> QED BY <1>1, <1>2, <1>3, <1>6, <1>8 DEF EngineInv
<1>10. PrepareInv'
  <2>1. \A a, b \in PendingIds(journal') : Precedes(journal, a, b) => Precedes(journal', a, b)
    BY <1>2, <1>3
  <2> SUFFICES ASSUME NEW u \in Task
               PROVE  /\ Resumes(u, "prepare")' =>
                            /\ started(journal') \subseteq terminal(journal')
                            /\ task'[u].current \in queued(journal')
                      /\ Resumes(u, "prepare")' \/ (task'[u].at = "start" /\ MayAppend(u)') =>
                            \A c \in PendingIds(journal') :
                               task'[u].current \in PendingIds(journal') /\ c # task'[u].current
                               => Precedes(journal', task'[u].current, c)
    BY DEF PrepareInv
  <2> QED BY <1>1, <1>2, <1>3, <2>1 DEF PrepareInv, Resumes, MayAppend
<1>11. RivalInv'
  BY <1>1, <1>2, <1>8 DEF RivalInv, Unwinds
<1> QED BY <1>2, <1>4, <1>5, <1>7, <1>9, <1>10, <1>11 DEF IInv

\* The targets of a cancellation call, and the journal once it is recorded.
LEMMA RequestFacts ==
    ASSUME IInv, NEW k \in CancelId, NEW d \in BOOLEAN
    PROVE  LET targets == TargetsOf(k, d)
               j == WithRequest(k, d)
           IN  /\ targets \in Seq(Input) /\ IsInjective(targets)
               /\ ToSet(targets) \subseteq queued(journal)
               /\ Grows(journal, j) /\ queued(j) = queued(journal)
               /\ started(j) = started(journal) /\ terminal(j) = terminal(journal)
               /\ \A n : IsRequest(j, n) /\ j[n].id = k => j[n].targets = targets
               /\ \A n : IsRequest(j, n) /\ j[n].id # k =>
                            IsRequest(journal, n) /\ j[n] = journal[n]
               /\ \E n : IsRequest(j, n) /\ j[n].id = k
               /\ Recorded(k) # {} => j = journal
<1>1. journal \in Seq(Event) /\ JournalInv(journal)
  BY DEF IInv, TypeOK
<1>2. \A n : n \in Recorded(k) <=> IsRequest(journal, n) /\ journal[n].id = k
  BY DEF Recorded, IsRequest
<1>3. CASE Recorded(k) = {}
  <2> DEFINE e == Cancellation(k, Targets(d), d)
  <2>1. /\ Targets(d) \in Seq(Input) /\ IsInjective(Targets(d))
        /\ ToSet(Targets(d)) \subseteq queued(journal)
        /\ \A c \in PendingIds(journal) : d \/ c \in UserInput => c \in ToSet(Targets(d))
        /\ incomplete(journal) \subseteq ToSet(Targets(d))
    BY <1>1, TargetsFacts
  <2>2. TargetsOf(k, d) = Targets(d) /\ WithRequest(k, d) = Append(journal, e)
    BY <1>3 DEF TargetsOf, WithRequest
  <2>3. \A n \in DOMAIN journal : IsRequest(journal, n) => journal[n].id # k
    BY <1>2, <1>3
  <2>4. e.id = k /\ e.targets = Targets(d)
    BY <2>1, EventMakers
  <2> HIDE DEF e
  <2>5. LET j == Append(journal, e)
        IN  /\ Grows(journal, j) /\ queued(j) = queued(journal)
            /\ started(j) = started(journal) /\ terminal(j) = terminal(journal)
            /\ \A n : IsRequest(j, n) => (IsRequest(journal, n) /\ j[n] = journal[n]) \/ j[n] = e
    BY <1>1, <2>1, <2>3, RequestGrows DEF e
  <2>6. \A n : IsRequest(journal, n) => journal[n].id # k
    BY <2>3 DEF IsRequest
  <2>7. \E n : IsRequest(Append(journal, e), n) /\ Append(journal, e)[n].id = k
    <3>1. e \in Event /\ e.kind = "CancellationRequested"
      BY <2>1, EventMakers DEF e
    <3>2. /\ Len(journal) + 1 \in DOMAIN Append(journal, e)
          /\ Append(journal, e)[Len(journal) + 1] = e
      BY <1>1, <3>1
    <3> QED BY <2>4, <3>1, <3>2 DEF IsRequest
  <2> QED BY <1>3, <2>1, <2>2, <2>4, <2>5, <2>6, <2>7
<1>4. CASE Recorded(k) # {}
  <2>1. PICK m \in Recorded(k) : TargetsOf(k, d) = journal[m].targets
    BY <1>4 DEF TargetsOf
  <2>2. m \in DOMAIN journal /\ IsRequest(journal, m) /\ journal[m].id = k
    BY <1>2 DEF IsRequest
  <2>3. /\ ToSet(journal[m].targets) \subseteq queued(journal)
        /\ IsInjective(journal[m].targets)
    BY <1>1, <2>2 DEF JournalInv, Requests
  <2>4. journal[m].targets \in Seq(Input)
    BY <1>1, <2>2, Reductions, EventFields DEF IsRequest
  <2>5. \A n : IsRequest(journal, n) /\ journal[n].id = k => n = m
    BY <1>1, <2>2 DEF JournalInv, Requests, IsRequest
  <2>6. WithRequest(k, d) = journal /\ Grows(journal, journal)
    BY <1>1, <1>4, GrowsReflexive DEF WithRequest
  <2> QED BY <2>1, <2>2, <2>3, <2>4, <2>5, <2>6
<1> QED BY <1>3, <1>4

\* Receipts stay true when a cancellation is recorded, or found recorded.
LEMMA ReceiptsAfterRequest ==
    ASSUME IInv, NEW k \in CancelId, acknowledged' = acknowledged,
           terminal(journal) \subseteq terminal(journal'), Grows(journal, journal'),
           Recorded(k) # {} => journal' = journal,
           \A n : IsRequest(journal', n) /\ journal'[n].id # k =>
                     IsRequest(journal, n) /\ journal'[n] = journal[n]
    PROVE  ReceiptInv'
<1> SUFFICES ASSUME NEW a \in acknowledged
             PROVE  /\ Recorded(a)' # {}
                    /\ \A n \in Recorded(a)' : ToSet(journal'[n].targets) \subseteq terminal(journal')
  BY DEF ReceiptInv
<1>1. /\ Recorded(a) # {}
      /\ \A n \in Recorded(a) : ToSet(journal[n].targets) \subseteq terminal(journal)
  BY DEF IInv, ReceiptInv
<1>2. \A n \in Recorded(a) : n \in Recorded(a)' /\ journal'[n] = journal[n]
  BY DEF Recorded, Grows
<1>3. CASE a = k
  BY <1>1, <1>2, <1>3 DEF Recorded
<1>4. CASE a # k
  <2>1. \A n \in Recorded(a)' : n \in Recorded(a) /\ journal'[n] = journal[n]
    BY <1>4 DEF Recorded, IsRequest
  <2> QED BY <1>1, <1>2, <2>1
<1> QED BY <1>3, <1>4

\* Without a coordinator: the cancellation is recorded and decides.
LEMMA CancelLocalKeeps ==
    ASSUME IInv, NEW k \in CancelId, NEW d \in BOOLEAN, CancelLocal(k, d)
    PROVE  IInv'
<1> DEFINE targets == TargetsOf(k, d)
           turn == IF active = None THEN None ELSE task[active].turn
           stops == /\ active # None
                    /\ \/ turn \in ToSet(targets)
                       \/ turn = None /\ Live(journal) \cap ToSet(targets) # {}
<1>1. /\ targets \in Seq(Input) /\ ToSet(targets) \subseteq queued(journal)
      /\ Grows(journal, journal') /\ queued(journal') = queued(journal)
      /\ started(journal') = started(journal) /\ terminal(journal') = terminal(journal)
      /\ \A n : IsRequest(journal', n) /\ journal'[n].id = k => journal'[n].targets = targets
      /\ \A n : IsRequest(journal', n) /\ journal'[n].id # k =>
                   IsRequest(journal, n) /\ journal'[n] = journal[n]
      /\ \E n : IsRequest(journal', n) /\ journal'[n].id = k
      /\ Recorded(k) # {} => journal' = journal
  <2>1. journal' = WithRequest(k, d)
    BY DEF CancelLocal
  <2> QED BY <2>1, RequestFacts
<1>2. cancelling' = [id |-> k, todo |-> targets, turn |-> turn, last |-> None, decision |-> stops]
  BY DEF CancelLocal
<1>3. turn \in Input \cup {None} /\ (active # None => turn = task[active].turn)
  BY DEF IInv, TypeOK, TaskState
<1>4. stops \in BOOLEAN
  OBVIOUS
<1>5. /\ stops => active # None
      /\ active # None /\ turn \in ToSet(targets) => stops
      /\ stops /\ turn # None => turn \in ToSet(targets)
  OBVIOUS
<1> HIDE DEF targets, turn, stops
<1>6. /\ cancelling' \in Cancelled(k) /\ cancelling'.id = k /\ cancelling'.todo = targets
      /\ cancelling'.turn = turn /\ cancelling'.last = None /\ cancelling'.decision = stops
  BY <1>1, <1>2, <1>3, <1>4 DEF Cancelled
<1>7. /\ ~coordinated /\ Unlocked /\ ~closed
      /\ UNCHANGED <<active, task, turnGeneration, shutdown, doomed, coordinated,
                     activations, errors>>
      /\ acknowledged' = acknowledged /\ acknowledged' \in SUBSET CancelId
  BY DEF CancelLocal, CancelCall, Call, IInv, TypeOK
<1>8. \A u \in Task : Current(u) => task[u].current \notin terminal(journal')
  BY <1>1, <1>7, CurrentNotEnded
<1>9. LocalInv'
  <2>1. \A n \in Recorded(cancelling.id)' : journal'[n].targets = targets
    BY <1>1, <1>6 DEF Recorded, IsRequest
  <2>2. Recorded(cancelling.id)' # {}
    BY <1>1, <1>6 DEF Recorded, IsRequest
  <2> QED BY <1>1, <1>3, <1>5, <1>6, <1>7, <2>1, <2>2 DEF LocalInv
<1>10. CoordinatedInv'
  BY <1>7 DEF CoordinatedInv
<1>11. ReceiptInv'
  BY <1>1, <1>7, ReceiptsAfterRequest
<1>12. shutdown \notin {"swept", "done"}
  BY <1>7 DEF closed
<1> QED BY <1>1, <1>6, <1>7, <1>8, <1>9, <1>10, <1>11, <1>12, LockedStep

\* Without a coordinator: the next target ends.
LEMMA CancelTurnKeeps ==
    ASSUME IInv, CancelTurn
    PROVE  IInv'
<1> DEFINE c == Head(cancelling.todo)
           rest == Tail(cancelling.todo)
           last == IF StillLive(c) THEN c ELSE None
<1>1. PICK k \in CancelId : cancelling \in Cancelled(k)
  BY DEF CancelTurn, IInv, TypeOK
<1>2. /\ ~coordinated /\ cancelling # None /\ cancelling.todo # <<>>
      /\ cancelling' = [cancelling EXCEPT !.todo = rest, !.last = last]
      /\ UNCHANGED <<active, task, turnGeneration, shutdown, doomed, coordinated,
                     activations, errors, acknowledged>>
  BY DEF CancelTurn
<1>3. /\ cancelling.todo \in Seq(Input) /\ cancelling.decision \in BOOLEAN /\ cancelling.id = k
      /\ cancelling.turn \in Input \cup {None}
  BY <1>1 DEF Cancelled
<1>4. /\ c \in Input /\ rest \in Seq(Input)
      /\ ToSet(cancelling.todo) = {c} \cup ToSet(rest)
  <2>1. /\ c \in Input /\ rest \in Seq(Input) /\ Len(cancelling.todo) \in Nat \ {0}
        /\ DOMAIN cancelling.todo = 1 .. Len(cancelling.todo)
        /\ DOMAIN rest = 1 .. (Len(cancelling.todo) - 1)
        /\ \A i \in DOMAIN rest : rest[i] = cancelling.todo[i + 1]
        /\ c = cancelling.todo[1]
    BY <1>2, <1>3
  <2>2. \A i \in DOMAIN cancelling.todo : i = 1 \/ i - 1 \in DOMAIN rest
    BY <2>1
  <2>3. \A i \in DOMAIN rest : i + 1 \in DOMAIN cancelling.todo
    BY <2>1
  <2>4. 1 \in DOMAIN cancelling.todo
    BY <2>1
  <2>5. ToSet(cancelling.todo) \subseteq {c} \cup ToSet(rest)
    <3> SUFFICES ASSUME NEW i \in DOMAIN cancelling.todo
                 PROVE  cancelling.todo[i] \in {c} \cup ToSet(rest)
      BY DEF ToSet
    <3>1. CASE i = 1
      BY <2>1, <3>1
    <3>2. CASE i # 1
      <4>1. i - 1 \in DOMAIN rest /\ rest[i - 1] = cancelling.todo[i]
        BY <2>1, <2>2, <3>2
      <4> QED BY <4>1 DEF ToSet
    <3> QED BY <3>1, <3>2
  <2>6. ToSet(rest) \subseteq ToSet(cancelling.todo)
    BY <2>1, <2>3 DEF ToSet
  <2> QED BY <2>1, <2>4, <2>5, <2>6 DEF ToSet
<1>5. /\ journal \in Seq(Event) /\ JournalInv(journal) /\ LocalInv /\ EngineInv /\ ShutdownInv
  BY DEF IInv, TypeOK
<1>6. StillLive(c) <=> c \in queued(journal) \ terminal(journal)
  BY <1>5, JournalFacts DEF StillLive
<1>7. c \in queued(journal)
  BY <1>2, <1>4, <1>5 DEF LocalInv
<1>8. /\ Grows(journal, journal') /\ queued(journal') = queued(journal)
      /\ started(journal') = started(journal)
      /\ terminal(journal') = terminal(journal) \cup {c}
      /\ \A n : IsRequest(journal', n) => IsRequest(journal, n) /\ journal'[n] = journal[n]
  <2>1. CASE StillLive(c)
    <3>1. journal' = Append(journal, Ended("TurnCancelled", c)) /\ "TurnCancelled" \in Terminal
      BY <2>1 DEF CancelTurn, Terminal
    <3> QED BY <1>5, <1>6, <2>1, <3>1, EndGrows
  <2>2. CASE ~StillLive(c)
    <3>1. journal' = journal /\ c \in terminal(journal)
      BY <1>6, <1>7, <2>2 DEF CancelTurn
    <3> QED BY <1>5, <3>1, GrowsReflexive
  <2> QED BY <2>1, <2>2
<1>9. last \in Input \cup {None} /\ (last # None => last \in terminal(journal'))
  BY <1>4, <1>8
<1> HIDE DEF c, rest, last
<1>10. /\ cancelling' \in Cancelled(k) /\ cancelling'.id = cancelling.id
       /\ cancelling'.todo = rest /\ cancelling'.last = last
       /\ cancelling'.turn = cancelling.turn /\ cancelling'.decision = cancelling.decision
  BY <1>1, <1>2, <1>4, <1>9 DEF Cancelled
<1>11. shutdown \notin {"swept", "done"}
  BY <1>2, <1>5 DEF ShutdownInv
<1>12. ASSUME NEW u \in Task, Current(u), task[u].current \in terminal(journal')
       PROVE  cancelling'.decision /\ cancelling'.turn = task[u].current
  <2>1. CASE task[u].current \in terminal(journal)
    BY <1>2, <1>5, <1>10, <1>12, <2>1 DEF EngineInv
  <2>2. CASE task[u].current = c
    <3>1. u = active /\ task[u].turn = task[u].current /\ active # None
      BY <1>5, <1>11, <1>12, DrainAssumption DEF EngineInv
    <3>2. cancelling.turn = c
      BY <1>2, <1>4, <1>5, <2>2, <3>1, DrainAssumption DEF LocalInv
    <3>3. cancelling.decision
      BY <1>2, <1>4, <1>5, <3>1, <3>2 DEF LocalInv
    <3> QED BY <1>10, <2>2, <3>2, <3>3
  <2> QED BY <1>8, <1>12, <2>1, <2>2
<1>13. LocalInv'
  <2>1. \A n \in Recorded(cancelling.id) :
           n \in Recorded(cancelling.id)' /\ journal'[n] = journal[n]
    BY <1>8, <1>10, RecordsKept DEF Recorded
  <2>2. \A n \in Recorded(cancelling.id)' :
           n \in Recorded(cancelling.id) /\ journal'[n] = journal[n]
    BY <1>8, <1>10, RecordsKept DEF Recorded
  <2> QED BY <1>2, <1>4, <1>5, <1>8, <1>9, <1>10, <2>1, <2>2 DEF LocalInv
<1>14. CoordinatedInv' /\ ReceiptInv'
  BY <1>2, <1>8, ReceiptsKept DEF CoordinatedInv
<1>15. acknowledged' \in SUBSET CancelId
  BY <1>2 DEF IInv, TypeOK
<1> QED BY <1>2, <1>8, <1>10, <1>11, <1>12, <1>13, <1>14, <1>15, LockedStep

\* The active task is cancelled.
LEMMA StoppedTasks ==
    ASSUME IInv, active # None
    PROVE  /\ Stopped \in [Task -> TaskState]
           /\ Stopped[active] = [task[active] EXCEPT !.cancelled = TRUE]
           /\ \A u \in Task : u # active => Stopped[u] = task[u]
<1>1. active \in Task /\ task \in [Task -> TaskState]
  BY DEF IInv, TypeOK
<1>2. [task[active] EXCEPT !.cancelled = TRUE] \in TaskState
  BY <1>1, StoppedFields
<1>3. Stopped = [task EXCEPT ![active] = [task[active] EXCEPT !.cancelled = TRUE]]
  BY <1>1 DEF Stopped
<1> QED BY <1>1, <1>2, <1>3

\* Without a coordinator: the task is stopped once its turn has ended.
LEMMA CancelStopKeeps ==
    ASSUME IInv, CancelStop
    PROVE  IInv'
<1>1. PICK k \in CancelId : cancelling \in Cancelled(k)
  BY DEF CancelStop, IInv, TypeOK
<1>2. /\ ~coordinated /\ cancelling # None /\ cancelling.decision /\ cancelling.last # None
      /\ cancelling.turn \in {None, cancelling.last}
      /\ task' = Stopped /\ active' = None /\ turnGeneration' = turnGeneration + 1
      /\ cancelling' = [cancelling EXCEPT !.decision = FALSE]
      /\ UNCHANGED <<shutdown, doomed, coordinated, acknowledged>> /\ journal' = journal
  BY DEF CancelStop, StopIsDue
<1>3. /\ journal \in Seq(Event) /\ JournalInv(journal) /\ LocalInv /\ ShutdownInv
      /\ turnGeneration \in Nat
  BY DEF IInv, TypeOK
<1>4. active # None /\ task[active].turn \in {None} \cup terminal(journal)
  BY <1>2, <1>3 DEF LocalInv
<1>5. /\ Stopped \in [Task -> TaskState]
      /\ Stopped[active] = [task[active] EXCEPT !.cancelled = TRUE]
      /\ \A u \in Task : u # active => Stopped[u] = task[u]
  BY <1>4, StoppedTasks
<1>6. Spawned(Stopped, None, None)
  BY <1>2, <1>5 DEF Spawned
<1>7. /\ cancelling' \in Cancelled(k) /\ cancelling'.id = cancelling.id
      /\ cancelling'.todo = cancelling.todo /\ cancelling'.last = cancelling.last
      /\ cancelling'.turn = cancelling.turn /\ ~cancelling'.decision
  BY <1>1, <1>2 DEF Cancelled
<1>8. LocalInv'
  BY <1>2, <1>3, <1>7 DEF LocalInv, Recorded
<1>9. /\ CoordinatedInv' /\ ReceiptInv' /\ Grows(journal, journal')
  BY <1>2, <1>3, GrowsReflexive, ReceiptsKept DEF CoordinatedInv
<1>10. shutdown \in {"swept", "done"} => cancelling' = None
  BY <1>2, <1>3 DEF ShutdownInv
<1>11. activations' \in Nat /\ errors' \in SUBSET Input /\ acknowledged' \in SUBSET CancelId
  BY DEF CancelStop, IInv, TypeOK
<1>12. turnGeneration' # turnGeneration
  BY <1>2, <1>3
<1> QED BY <1>2, <1>4, <1>5, <1>6, <1>7, <1>8, <1>9, <1>10, <1>11, <1>12, TasksChange

\* A cancellation ends: the task it stops has no turn or one that has ended, and
\* if it stops none, no current engine's turn has ended.
LEMMA EndCancellationKeeps ==
    ASSUME IInv, NEW stops \in BOOLEAN, NEW counts \in BOOLEAN, NEW activates \in BOOLEAN,
           EndCancellation(stops, counts, activates), acknowledged' \in SUBSET CancelId,
           stops => active # None /\ task[active].turn \in {None} \cup terminal(journal),
           ~stops => \A u \in Task : Current(u) => task[u].current \notin terminal(journal),
           ReceiptInv'
    PROVE  IInv'
<1> DEFINE tasks == IF stops THEN Stopped ELSE task
           act == IF stops THEN None ELSE active
<1>1. /\ journal \in Seq(Event) /\ JournalInv(journal) /\ turnGeneration \in Nat
      /\ activations \in Nat /\ Counted \in Nat /\ task \in [Task -> TaskState]
  BY DEF IInv, TypeOK, Counted
<1>2. /\ \/ Activate(tasks, act, Counted)
         \/ task' = tasks /\ active' = act
      /\ turnGeneration' = IF stops THEN turnGeneration + 1 ELSE turnGeneration
      /\ activations' = IF counts THEN Counted ELSE activations
      /\ cancelling' = None /\ journal' = journal /\ errors' = errors
      /\ UNCHANGED <<shutdown, doomed, coordinated>>
  BY DEF EndCancellation
<1>3. stops => /\ Stopped \in [Task -> TaskState]
               /\ Stopped[active] = [task[active] EXCEPT !.cancelled = TRUE]
               /\ \A u \in Task : u # active => Stopped[u] = task[u]
  BY StoppedTasks
<1>4. /\ tasks \in [Task -> TaskState] /\ act \in {active, None}
      /\ \A u \in Task : u # active => tasks[u] \in {task[u], FreeTask}
      /\ act # None => ~stops /\ tasks[active] = task[active]
      /\ act = None /\ active # None =>
            stops /\ tasks[active] = [task[active] EXCEPT !.cancelled = TRUE]
  BY <1>1, <1>3
<1> HIDE DEF tasks, act
<1>5. PICK s \in Task \cup {None} : Spawned(tasks, act, s)
  BY <1>1, <1>2, <1>4, ActivateSpawns
<1>6. /\ activations' \in Nat /\ errors' \in SUBSET Input
      /\ stops => turnGeneration' = turnGeneration + 1 /\ turnGeneration' # turnGeneration
      /\ ~stops => turnGeneration' = turnGeneration
  BY <1>1, <1>2 DEF IInv, TypeOK
<1>7. Grows(journal, journal')
  BY <1>1, <1>2, GrowsReflexive
<1> QED BY <1>2, <1>4, <1>5, <1>6, <1>7, HandOver

\* Without a coordinator: the cancellation returns its receipt.
LEMMA CancelEndKeeps ==
    ASSUME IInv, CancelEnd
    PROVE  IInv'
<1> DEFINE keeps == /\ \E n \in Recorded(cancelling.id) : ~journal[n].descendants
                    /\ pending(journal) # <<>>
<1>1. PICK k \in CancelId : cancelling \in Cancelled(k)
  BY DEF CancelEnd, IInv, TypeOK
<1>2. /\ ~coordinated /\ cancelling # None /\ cancelling.todo = <<>>
      /\ EndCancellation(cancelling.decision, keeps, keeps)
      /\ acknowledged' = acknowledged \cup {cancelling.id}
  BY DEF CancelEnd
<1>3. cancelling.decision \in BOOLEAN /\ cancelling.id = k /\ keeps \in BOOLEAN
  BY <1>1 DEF Cancelled
<1> HIDE DEF keeps
<1>4. LocalInv /\ EngineInv /\ ReceiptInv /\ acknowledged \in SUBSET CancelId
  BY DEF IInv, TypeOK
<1>5. ToSet(cancelling.todo) = {}
  BY <1>2 DEF ToSet
<1>6. cancelling.decision => active # None /\ task[active].turn \in {None} \cup terminal(journal)
  BY <1>2, <1>4, <1>5 DEF LocalInv
<1>7. ~cancelling.decision =>
         \A u \in Task : Current(u) => task[u].current \notin terminal(journal)
  BY <1>2, <1>4 DEF EngineInv
<1>8. journal' = journal
  BY <1>2 DEF EndCancellation
<1>9. ReceiptInv'
  <2>1. \A n \in Recorded(cancelling.id) : ToSet(journal[n].targets) \subseteq terminal(journal)
    BY <1>2, <1>4, <1>5 DEF LocalInv
  <2>2. Recorded(cancelling.id) # {}
    BY <1>2, <1>4 DEF LocalInv
  <2>3. \A a : Recorded(a)' = Recorded(a)
    BY <1>8 DEF Recorded
  <2> QED BY <1>2, <1>4, <1>8, <2>1, <2>2, <2>3 DEF ReceiptInv
<1> QED BY <1>2, <1>3, <1>4, <1>6, <1>7, <1>9, EndCancellationKeeps

\* With a coordinator: the tasks are dealt with after the commit.
LEMMA CancelEffectsKeeps ==
    ASSUME IInv, CancelEffects
    PROVE  IInv'
<1> DEFINE stops == CancelsTask(cancelling.todo)
           activates == cancelling.decision /\ ~stops
<1>1. PICK k \in CancelId : cancelling \in Cancelled(k)
  BY DEF CancelEffects, IInv, TypeOK
<1>2. /\ coordinated /\ cancelling # None
      /\ EndCancellation(stops, cancelling.decision, activates)
      /\ acknowledged' = acknowledged
  BY DEF CancelEffects
<1>3. cancelling.decision \in BOOLEAN /\ cancelling.todo \in Seq(Input)
  BY <1>1 DEF Cancelled
<1>4. stops \in BOOLEAN /\ activates \in BOOLEAN
  BY <1>3 DEF CancelsTask
<1>5. /\ CoordinatedInv /\ EngineInv /\ ShutdownInv /\ acknowledged' \in SUBSET CancelId
      /\ journal \in Seq(Event) /\ JournalInv(journal)
  BY <1>2 DEF IInv, TypeOK
<1>6. ToSet(cancelling.todo) \subseteq terminal(journal)
  BY <1>2, <1>5 DEF CoordinatedInv
<1>7. stops => active # None /\ task[active].turn \in {None} \cup terminal(journal)
  BY <1>6 DEF CancelsTask
<1>8. ASSUME ~stops, NEW u \in Task, Current(u), task[u].current \in terminal(journal)
      PROVE  FALSE
  <2>1. /\ u = active /\ task[u].turn = task[u].current
        /\ task[u].current \in ToSet(cancelling.todo)
    BY <1>2, <1>5, <1>8 DEF EngineInv, ShutdownInv
  <2>2. cancelling.todo # <<>>
    BY <2>1 DEF ToSet
  <2>3. active # None
    BY <2>1, DrainAssumption
  <2> QED BY <1>8, <2>1, <2>2, <2>3 DEF CancelsTask
<1>9. journal' = journal
  BY <1>2 DEF EndCancellation
<1>10. ReceiptInv'
  BY <1>2, <1>5, <1>9, GrowsReflexive, ReceiptsKept
<1> HIDE DEF stops, activates
<1> QED BY <1>2, <1>3, <1>4, <1>5, <1>7, <1>8, <1>10, EndCancellationKeeps

\* Continuing a journal is transitive.
LEMMA GrowsTransitive ==
    ASSUME NEW i, NEW j, NEW k, Grows(i, j), Grows(j, k)
    PROVE  Grows(i, k)
<1>1. \A a, b \in queued(i) : Precedes(i, a, b) => Precedes(k, a, b)
  BY DEF Grows
<1>2. ASSUME NEW a \in queued(i), NEW b \in queued(k) \ queued(i) PROVE Precedes(k, a, b)
  <2>1. CASE b \in queued(j)
    <3>1. Precedes(j, a, b)
      BY <1>2, <2>1 DEF Grows
    <3>2. a \in queued(j)
      BY DEF Grows
    <3> QED BY <2>1, <3>1, <3>2 DEF Grows
  <2>2. CASE b \notin queued(j)
    BY <1>2, <2>2 DEF Grows
  <2> QED BY <2>1, <2>2
<1> QED BY <1>1, <1>2 DEF Grows

\* With a coordinator: one transaction records the cancellation and ends all its
\* targets.
LEMMA CancelCoordinatedKeeps ==
    ASSUME IInv, NEW k \in CancelId, NEW d \in BOOLEAN, CancelCoordinated(k, d)
    PROVE  IInv'
<1> DEFINE targets == TargetsOf(k, d)
           live == {n \in DOMAIN targets : StillLive(targets[n])}
           ended == Chosen(targets, live)
           x == [n \in DOMAIN ended |-> Ended("TurnCancelled", ended[n])]
           j == WithRequest(k, d)
           decision == ~d /\ PendingIds(journal) \ ToSet(targets) # {}
<1>1. /\ targets \in Seq(Input) /\ IsInjective(targets)
      /\ ToSet(targets) \subseteq queued(journal)
      /\ Grows(journal, j) /\ queued(j) = queued(journal)
      /\ started(j) = started(journal) /\ terminal(j) = terminal(journal)
      /\ \A n : IsRequest(j, n) /\ j[n].id = k => j[n].targets = targets
      /\ \A n : IsRequest(j, n) /\ j[n].id # k => IsRequest(journal, n) /\ j[n] = journal[n]
      /\ \E n : IsRequest(j, n) /\ j[n].id = k
  BY RequestFacts
<1>2. /\ journal' = j \o x
      /\ cancelling' = [id |-> k, todo |-> targets, turn |-> None, last |-> None,
                        decision |-> decision]
      /\ acknowledged' = acknowledged \cup {k} /\ coordinated /\ Unlocked
      /\ UNCHANGED <<active, task, turnGeneration, shutdown, doomed, coordinated,
                     activations, errors>>
  BY DEF CancelCoordinated, CancelCall, Call
<1>3. decision \in BOOLEAN
  OBVIOUS
<1> HIDE DEF j, targets, decision
<1>4. /\ journal \in Seq(Event) /\ JournalInv(journal) /\ j \in Seq(Event) /\ JournalInv(j)
      /\ EngineInv /\ ShutdownInv /\ ReceiptInv /\ acknowledged \in SUBSET CancelId
  BY <1>1 DEF IInv, TypeOK, Grows
<1>5. \A c : StillLive(c) <=> c \in queued(journal) \ terminal(journal)
  BY <1>4, JournalFacts DEF StillLive
<1>6. live \in SUBSET DOMAIN targets
  OBVIOUS
<1>7. \A m, n \in live : targets[m] = targets[n] => m = n
  BY <1>1 DEF IsInjective
<1>8. /\ ended \in Seq(Input) /\ ToSet(ended) = {targets[n] : n \in live}
      /\ IsInjective(ended)
  BY <1>1, <1>6, <1>7, ChosenElements
<1>9. ToSet(ended) = ToSet(targets) \ terminal(journal)
  <2>1. \A n \in DOMAIN targets : targets[n] \in queued(journal)
    BY <1>1 DEF ToSet
  <2>2. \A n \in DOMAIN targets : n \in live <=> targets[n] \notin terminal(journal)
    BY <1>5, <2>1
  <2>3. ToSet(targets) = {targets[n] : n \in DOMAIN targets}
    BY DEF ToSet
  <2> HIDE DEF ended, live
  <2> QED BY <1>6, <1>8, <2>2, <2>3
<1> HIDE DEF ended, live
<1>10. /\ x \in Seq(Event) /\ DOMAIN x = DOMAIN ended
       /\ \A i \in DOMAIN x : x[i].kind \in Terminal /\ x[i].id = ended[i]
  <2>1. "TurnCancelled" \in Terminal /\ \A i \in DOMAIN ended : ended[i] \in Input
    BY <1>8 DEF Terminal
  <2>2. DOMAIN x = DOMAIN ended /\ \A i \in DOMAIN ended : x[i] = Ended("TurnCancelled", ended[i])
    OBVIOUS
  <2>3. \A i \in DOMAIN x : x[i] \in Event /\ x[i].kind \in Terminal /\ x[i].id = ended[i]
    BY <2>1, <2>2, EventMakers
  <2>4. x \in Seq(Event)
    BY <1>8, <2>2, <2>3
  <2> QED BY <2>2, <2>3, <2>4
<1> HIDE DEF x
<1>11. \A i \in DOMAIN x : x[i].id \in queued(j) \ terminal(j)
  <2>1. \A i \in DOMAIN ended : ended[i] \in ToSet(ended)
    BY DEF ToSet
  <2> QED BY <1>1, <1>9, <1>10, <2>1
<1>12. \A i, l \in DOMAIN x : x[i].id = x[l].id => i = l
  BY <1>8, <1>10 DEF IsInjective
<1>13. {x[i].id : i \in DOMAIN x} = ToSet(ended)
  BY <1>10 DEF ToSet
<1>14. /\ Grows(j, journal') /\ queued(journal') = queued(journal)
       /\ started(journal') = started(journal)
       /\ terminal(journal') = terminal(journal) \cup ToSet(targets)
       /\ \A n : IsRequest(journal', n) => IsRequest(j, n) /\ journal'[n] = j[n]
  <2>1. /\ Grows(j, j \o x)
        /\ queued(j \o x) = queued(j) /\ started(j \o x) = started(j)
        /\ terminal(j \o x) = terminal(j) \cup {x[i].id : i \in DOMAIN x}
        /\ \A n : IsRequest(j \o x, n) => IsRequest(j, n) /\ (j \o x)[n] = j[n]
    BY <1>4, <1>10, <1>11, <1>12, EndsGrow
  <2>2. terminal(journal') = terminal(journal) \cup ToSet(ended)
    BY <1>1, <1>2, <1>13, <2>1
  <2>3. terminal(journal') = terminal(journal) \cup ToSet(targets)
    BY <1>9, <2>2
  <2> QED BY <1>1, <1>2, <2>1, <2>3
<1>15. Grows(journal, journal')
  BY <1>1, <1>14, GrowsTransitive
<1>16. /\ cancelling' \in Cancelled(k) /\ cancelling'.todo = targets
  BY <1>1, <1>2, <1>3 DEF Cancelled
<1>17. ASSUME NEW u \in Task, Current(u), task[u].current \in terminal(journal')
       PROVE  task[u].current \in ToSet(cancelling'.todo)
  BY <1>2, <1>14, <1>16, <1>17, CurrentNotEnded
<1>18. LocalInv' /\ CoordinatedInv'
  BY <1>2, <1>14, <1>16 DEF LocalInv, CoordinatedInv
<1>19. ReceiptInv'
  <2> SUFFICES ASSUME NEW a \in acknowledged'
               PROVE  /\ Recorded(a)' # {}
                      /\ \A n \in Recorded(a)' :
                            ToSet(journal'[n].targets) \subseteq terminal(journal')
    BY DEF ReceiptInv
  <2>1. CASE a = k
    <3>1. PICK m : IsRequest(j, m) /\ j[m].id = k
      BY <1>1
    <3>2. m \in Recorded(k)'
      BY <1>14, <3>1 DEF Recorded, IsRequest, Grows
    <3>3. \A n \in Recorded(k)' : journal'[n].targets = targets
      BY <1>1, <1>14 DEF Recorded, IsRequest
    <3> QED BY <1>14, <2>1, <3>2, <3>3
  <2>2. CASE a # k
    <3>1. /\ Recorded(a) # {}
          /\ \A n \in Recorded(a) : ToSet(journal[n].targets) \subseteq terminal(journal)
      BY <1>2, <1>4, <2>2 DEF ReceiptInv
    <3>2. \A n \in Recorded(a) : n \in Recorded(a)'
      BY <1>15 DEF Recorded, Grows
    <3>3. \A n \in Recorded(a)' : n \in Recorded(a) /\ journal'[n] = journal[n]
      BY <1>1, <1>14, <2>2 DEF Recorded, IsRequest
    <3> QED BY <1>14, <3>1, <3>2, <3>3
  <2> QED BY <2>1, <2>2
<1>20. shutdown \notin {"swept", "done"} /\ acknowledged' \in SUBSET CancelId
  BY <1>2, <1>4 DEF ShutdownInv
<1> QED BY <1>2, <1>14, <1>15, <1>16, <1>17, <1>18, <1>19, <1>20, LockedStep

\* aclose begins: the active task is doomed, if there is one.
LEMMA CloseKeeps ==
    ASSUME IInv, Close
    PROVE  IInv'
<1>1. /\ ~coordinated /\ shutdown = "no" /\ shutdown' = "begun" /\ doomed' = {active} \ {None}
      /\ UNCHANGED <<journal, active, task, activations, turnGeneration, errors,
                     cancelling, acknowledged, coordinated>>
  BY DEF Close
<1>2. /\ TypeOK /\ TaskInv /\ EngineInv /\ PrepareInv /\ RivalInv /\ LocalInv
      /\ ReceiptInv /\ JournalInv(journal) /\ active \in Task \cup {None}
  BY DEF IInv, TypeOK
<1>3. TypeOK' /\ JournalInv(journal')
  BY <1>1, <1>2 DEF TypeOK
<1>4. TaskInv' /\ PrepareInv'
  BY <1>1, <1>2 DEF TaskInv, TaskOK, PrepareInv, Resumes, MayAppend
<1>5. ShutdownInv'
  BY <1>1, <1>2 DEF ShutdownInv
<1>6. \A u \in Task : (Current(u)' <=> Current(u)) /\ (Unwinds(u)' <=> Unwinds(u))
  BY <1>1 DEF Current, MayAppend, Unwinds
<1>7. EngineInv'
  BY <1>1, <1>2, <1>6 DEF EngineInv
<1>8. RivalInv'
  BY <1>1, <1>2, <1>6 DEF RivalInv
<1>9. LocalInv' /\ CoordinatedInv' /\ ReceiptInv'
  BY <1>1, <1>2 DEF LocalInv, CoordinatedInv, ReceiptInv, Recorded
<1> QED BY <1>3, <1>4, <1>5, <1>7, <1>8, <1>9 DEF IInv

\* aclose supersedes the turn in progress and interrupts it.
LEMMA CloseActorKeeps ==
    ASSUME IInv, CloseActor
    PROVE  IInv'
<1>1. /\ shutdown = "begun" /\ cancelling = None /\ shutdown' = "swept"
      /\ turnGeneration' = IF active = None THEN turnGeneration ELSE turnGeneration + 1
      /\ journal' = IF active = None \/ incomplete(journal) = {} THEN journal
                    ELSE Append(journal,
                                Ended("TurnInterrupted",
                                      CHOOSE c \in incomplete(journal) : TRUE))
      /\ UNCHANGED <<active, task, activations, errors, cancelling, acknowledged,
                     doomed, coordinated>>
  BY DEF CloseActor, Unlocked
<1>2. /\ TypeOK /\ TaskInv /\ EngineInv /\ PrepareInv /\ RivalInv /\ ShutdownInv
      /\ JournalInv(journal) /\ journal \in Seq(Event) /\ turnGeneration \in Nat
      /\ task \in [Task -> TaskState]
  BY DEF IInv, TypeOK
<1>3. /\ Grows(journal, journal') /\ queued(journal') = queued(journal)
      /\ started(journal') = started(journal) /\ terminal(journal) \subseteq terminal(journal')
      /\ \A n : IsRequest(journal', n) => IsRequest(journal, n) /\ journal'[n] = journal[n]
  <2>1. CASE journal' = journal
    BY <1>2, <2>1, GrowsReflexive
  <2>2. CASE journal' # journal
    <3>1. PICK c \in incomplete(journal) : journal' = Append(journal, Ended("TurnInterrupted", c))
      BY <1>1, <2>2
    <3>2. c \in queued(journal) \ terminal(journal)
      BY <1>2, JournalFacts
    <3>3. "TurnInterrupted" \in Terminal
      BY DEF Terminal
    <3> DEFINE k == Append(journal, Ended("TurnInterrupted", c))
    <3>4. /\ Grows(journal, k) /\ queued(k) = queued(journal) /\ started(k) = started(journal)
          /\ terminal(k) = terminal(journal) \cup {c}
          /\ \A n : IsRequest(k, n) => IsRequest(journal, n) /\ k[n] = journal[n]
      BY <1>2, <3>2, <3>3, EndGrows
    <3>5. journal' = k
      BY <3>1
    <3> HIDE DEF k
    <3> QED BY <3>4, <3>5
  <2> QED BY <2>1, <2>2
<1>4. journal' \in Seq(Event) /\ JournalInv(journal') /\ turnGeneration' \in Nat
  BY <1>1, <1>2, <1>3 DEF Grows
<1>5. TypeOK'
  BY <1>1, <1>2, <1>4 DEF TypeOK
<1>6. turnGeneration <= turnGeneration' /\ \A t \in Task : task[t].generation \in Nat
  BY <1>1, <1>2 DEF TaskState
<1>7. TaskInv'
  BY <1>1, <1>2, <1>4, <1>6 DEF TaskInv, TaskOK
<1>8. ShutdownInv'
  BY <1>1, <1>2 DEF ShutdownInv
<1>9. ASSUME NEW t \in Task, task[t].at \in {"start", "run"}, MayAppend(t)' PROVE FALSE
  <2>1. CASE active = None
    <3>1. Current(t)
      BY <1>1, <1>9, <2>1 DEF Current, MayAppend
    <3>2. t = active
      BY <1>1, <1>2, <3>1 DEF EngineInv
    <3> QED BY <2>1, <3>2, DrainAssumption
  <2>2. CASE active # None
    <3>1. task[t].generation <= turnGeneration /\ turnGeneration' = turnGeneration + 1
      BY <1>1, <1>2, <2>2 DEF TaskInv, TaskOK
    <3>2. task[t].generation = turnGeneration'
      BY <1>1, <1>9 DEF MayAppend
    <3> QED BY <1>2, <1>6, <3>1, <3>2
  <2> QED BY <2>1, <2>2
<1>10. EngineInv'
  BY <1>1, <1>9 DEF EngineInv, Current
<1>11. /\ PendingIds(journal) = queued(journal) \ (started(journal) \cup terminal(journal))
       /\ PendingIds(journal') = queued(journal') \ (started(journal') \cup terminal(journal'))
  BY <1>2, <1>4, JournalFacts
<1>12. PrepareInv'
  <2> SUFFICES ASSUME NEW t \in Task, Resumes(t, "prepare")
               PROVE  /\ started(journal') \subseteq terminal(journal')
                      /\ task[t].current \in queued(journal')
                      /\ \A c \in PendingIds(journal') :
                            task[t].current \in PendingIds(journal') /\ c # task[t].current
                            => Precedes(journal', task[t].current, c)
    BY <1>1, <1>9 DEF PrepareInv, Resumes
  <2>1. /\ started(journal) \subseteq terminal(journal) /\ task[t].current \in queued(journal)
        /\ \A c \in PendingIds(journal) :
              task[t].current \in PendingIds(journal) /\ c # task[t].current
              => Precedes(journal, task[t].current, c)
    BY <1>2 DEF PrepareInv
  <2>2. PendingIds(journal') \subseteq PendingIds(journal)
    BY <1>3, <1>11
  <2>3. \A a, b \in queued(journal) : Precedes(journal, a, b) => Precedes(journal', a, b)
    BY <1>3 DEF Grows
  <2> QED BY <1>3, <1>11, <2>1, <2>2, <2>3
<1>13. RivalInv'
  <2>1. \A t \in Task : ~Current(t)'
    BY <1>1, <1>9 DEF Current
  <2> QED BY <1>1, <1>2, <1>3, <2>1 DEF RivalInv
<1>14. LocalInv' /\ CoordinatedInv' /\ ReceiptInv'
  BY <1>1, <1>3, ReceiptsKept DEF LocalInv, CoordinatedInv
<1> QED BY <1>4, <1>5, <1>7, <1>8, <1>10, <1>12, <1>13, <1>14 DEF IInv

\* aclose cancels the task it found active.
LEMMA CloseTasksKeeps ==
    ASSUME IInv, CloseTasks
    PROVE  IInv'
<1>1. /\ shutdown = "swept" /\ shutdown' = "done" /\ active' = None /\ doomed' = {}
      /\ task' = [t \in Task |->
                     IF t \in doomed /\ task[t].at # "free"
                     THEN [task[t] EXCEPT !.cancelled = TRUE] ELSE task[t]]
      /\ UNCHANGED <<journal, activations, turnGeneration, errors, cancelling,
                     acknowledged, coordinated>>
  BY DEF CloseTasks
<1>2. /\ TypeOK /\ TaskInv /\ EngineInv /\ PrepareInv /\ RivalInv /\ ShutdownInv
      /\ JournalInv(journal) /\ journal \in Seq(Event) /\ task \in [Task -> TaskState]
      /\ cancelling = None /\ ~coordinated /\ active \in doomed \cup {None}
      /\ \A t, u \in doomed : t = u
  BY <1>1 DEF IInv, TypeOK, ShutdownInv
<1>3. ASSUME NEW t \in Task
      PROVE  /\ task'[t] \in TaskState /\ task'[t].at = task[t].at
             /\ task'[t].turn = task[t].turn /\ task'[t].current = task[t].current
             /\ task'[t].generation = task[t].generation
             /\ t \in doomed /\ task[t].at # "free" => task'[t].cancelled
             /\ task[t].cancelled => task'[t].cancelled
             /\ task'[t].cancelled /\ t \notin doomed => task[t].cancelled
             /\ task[t].at = "free" => task'[t] = task[t]
  <2>1. CASE t \in doomed /\ task[t].at # "free"
    <3>1. task'[t] = [task[t] EXCEPT !.cancelled = TRUE] /\ task[t] \in TaskState
      BY <1>1, <1>2, <2>1
    <3>2. /\ task'[t] \in TaskState /\ task'[t].at = task[t].at
          /\ task'[t].turn = task[t].turn /\ task'[t].current = task[t].current
          /\ task'[t].generation = task[t].generation /\ task'[t].cancelled = TRUE
      BY <3>1 DEF TaskState
    <3> QED BY <2>1, <3>2
  <2>2. CASE ~(t \in doomed /\ task[t].at # "free")
    <3>1. task'[t] = task[t] /\ task[t] \in TaskState
      BY <1>1, <1>2, <2>2
    <3>2. task[t].cancelled \in BOOLEAN
      BY <3>1 DEF TaskState
    <3> QED BY <2>2, <3>1, <3>2
  <2> QED BY <2>1, <2>2
<1>4. task' \in [Task -> TaskState]
  BY <1>1, <1>3
<1> HIDE DEF TaskState
<1>5. TypeOK' /\ JournalInv(journal')
  BY <1>1, <1>2, <1>4 DEF TypeOK
<1>6. TaskInv'
  <2> SUFFICES ASSUME NEW t \in Task PROVE TaskOK(t)'
    BY DEF TaskInv
  <2>1. TaskOK(t)
    BY <1>2 DEF TaskInv
  <2>2. t # active'
    BY <1>1, DrainAssumption
  <2>3. task[t].at # "free" => task'[t].cancelled \/ task'[t].at \in {"abort", "leave"}
    <3>1. t = active => t \in doomed
      BY <1>2, DrainAssumption
    <3>2. t # active /\ task[t].at # "free"
             => task[t].cancelled \/ task[t].at \in {"abort", "leave"}
      BY <2>1 DEF TaskOK
    <3> QED BY <1>3, <3>1, <3>2
  <2> QED BY <1>1, <1>3, <2>1, <2>2, <2>3 DEF TaskOK
<1>7. ShutdownInv'
  BY <1>1, <1>2 DEF ShutdownInv
<1>8. \A t \in Task : Current(t)' <=> Current(t)
  BY <1>1, <1>3 DEF Current, MayAppend
<1>9. EngineInv'
  BY <1>1, <1>2, <1>3, <1>8 DEF EngineInv
<1>10. PrepareInv'
  <2>1. \A t \in Task : Resumes(t, "prepare")' => Resumes(t, "prepare")
    BY <1>3 DEF Resumes
  <2>2. \A t \in Task : MayAppend(t)' <=> MayAppend(t)
    BY <1>1, <1>3 DEF MayAppend
  <2> QED BY <1>1, <1>2, <1>3, <2>1, <2>2 DEF PrepareInv
<1>11. RivalInv'
  <2>1. ASSUME NEW t \in Task, NEW u \in Task, Current(u), t # u, Unwinds(t)'
        PROVE  task[t].current # task[u].current
    <3>1. u = active /\ u \in doomed /\ t \notin doomed
      BY <1>1, <1>2, <2>1, DrainAssumption DEF EngineInv
    <3>2. Unwinds(t)
      BY <1>3, <2>1, <3>1 DEF Unwinds
    <3> QED BY <1>2, <2>1, <3>2 DEF RivalInv
  <2> QED BY <1>1, <1>3, <1>8, <2>1 DEF RivalInv
<1>12. LocalInv' /\ CoordinatedInv' /\ ReceiptInv'
  BY <1>1, <1>2, GrowsReflexive, ReceiptsKept DEF LocalInv, CoordinatedInv
<1> QED BY <1>5, <1>6, <1>7, <1>9, <1>10, <1>11, <1>12 DEF IInv

\* The process ends: only the journal is left.
LEMMA RestartKeeps ==
    ASSUME IInv, Restart
    PROVE  IInv'
<1>1. /\ ~coordinated /\ active' = None /\ task' = [t \in Task |-> FreeTask]
      /\ activations' = 0 /\ turnGeneration' = 0 /\ errors' = {} /\ cancelling' = None
      /\ shutdown' = "no" /\ doomed' = {} /\ UNCHANGED <<journal, acknowledged, coordinated>>
  BY DEF Restart
<1>2. /\ TypeOK /\ JournalInv(journal) /\ journal \in Seq(Event)
  BY DEF IInv, TypeOK
<1>3. \A t \in Task :
         /\ task'[t] = FreeTask /\ task'[t].at = "free" /\ task'[t].turn = None
         /\ task'[t].generation = 0 /\ ~task'[t].cancelled /\ t # None
  BY <1>1, FreeTaskType, DrainAssumption
<1>4. TypeOK' /\ JournalInv(journal')
  <2>1. task' \in [Task -> TaskState]
    BY <1>1, FreeTaskType
  <2> QED BY <1>1, <1>2, <2>1 DEF TypeOK
<1>5. TaskInv' /\ ShutdownInv'
  BY <1>1, <1>3 DEF TaskInv, TaskOK, ShutdownInv
<1>6. EngineInv' /\ PrepareInv' /\ RivalInv'
  BY <1>1, <1>3 DEF EngineInv, PrepareInv, RivalInv, Current, Resumes
<1>7. LocalInv' /\ CoordinatedInv' /\ ReceiptInv'
  BY <1>1, <1>2, GrowsReflexive, ReceiptsKept DEF LocalInv, CoordinatedInv
<1> QED BY <1>4, <1>5, <1>6, <1>7 DEF IInv

----------------------------------------------------------------------------
(* Theorems *)

\* The initial states.
LEMMA InitHolds ==
    ASSUME Init
    PROVE  IInv
<1>1. /\ journal = <<>> /\ active = None /\ task = [t \in Task |-> FreeTask]
      /\ activations = 0 /\ turnGeneration = 0 /\ errors = {} /\ cancelling = None
      /\ acknowledged = {} /\ shutdown = "no" /\ doomed = {} /\ coordinated \in BOOLEAN
  BY DrainAssumption DEF Init
<1>2. \A t \in Task :
         /\ task[t] = FreeTask /\ task[t].at = "free" /\ task[t].turn = None
         /\ task[t].generation = 0 /\ ~task[t].cancelled /\ t # None
  BY <1>1, FreeTaskType, DrainAssumption
<1>3. TypeOK
  <2>1. task \in [Task -> TaskState]
    BY <1>1, FreeTaskType
  <2> QED BY <1>1, <2>1 DEF TypeOK
<1>4. DOMAIN journal = {}
  BY <1>1
<1>5. JournalInv(journal)
  <2>1. started(journal) = {}
    BY <1>4 DEF started, Ids
  <2> QED BY <1>4, <2>1 DEF JournalInv, InStages, OneOpen, Ordered, Requests
<1>6. TaskInv /\ ShutdownInv
  BY <1>1, <1>2 DEF TaskInv, TaskOK, ShutdownInv
<1>7. EngineInv /\ PrepareInv /\ RivalInv
  BY <1>1, <1>2 DEF EngineInv, PrepareInv, RivalInv, Current, Resumes
<1>8. LocalInv /\ CoordinatedInv /\ ReceiptInv
  BY <1>1 DEF LocalInv, CoordinatedInv, ReceiptInv
<1> QED BY <1>3, <1>5, <1>6, <1>7, <1>8 DEF IInv

\* A step that changes nothing.
LEMMA StutterKeeps ==
    ASSUME IInv, UNCHANGED vars
    PROVE  IInv'
<1>1. UNCHANGED <<journal, active, task, activations, turnGeneration, errors, cancelling,
                  acknowledged, shutdown, doomed, coordinated>>
  BY DEF vars
<1>2. TypeOK' /\ JournalInv(journal')
  BY <1>1 DEF IInv, TypeOK
<1>3. TaskInv' /\ ShutdownInv'
  BY <1>1 DEF IInv, TaskInv, TaskOK, ShutdownInv
<1>4. EngineInv' /\ PrepareInv' /\ RivalInv'
  BY <1>1 DEF IInv, EngineInv, PrepareInv, RivalInv, Current, Resumes, MayAppend, Unwinds
<1>5. LocalInv' /\ CoordinatedInv' /\ ReceiptInv'
  BY <1>1 DEF IInv, LocalInv, CoordinatedInv, ReceiptInv, Recorded
<1> QED BY <1>2, <1>3, <1>4, <1>5 DEF IInv

\* A client's call.
LEMMA ClientKeeps ==
    ASSUME IInv, Client
    PROVE  IInv'
<1>1. ASSUME NEW c \in UserInput, Send(c) PROVE IInv'
  <2>1. c \in Input /\ AcceptInput(c)
    BY <1>1 DEF Send, Input
  <2> QED BY <2>1, AcceptInputKeeps
<1>2. ASSUME NEW c \in EventInput, DeliverInput(c) \/ ActorSend(c) PROVE IInv'
  <2>1. c \in Input /\ AcceptInput(c)
    BY <1>2 DEF DeliverInput, ActorSend, Input
  <2> QED BY <2>1, AcceptInputKeeps
<1>3. ASSUME NEW k \in CancelId, NEW d \in BOOLEAN, CancelLocal(k, d) PROVE IInv'
  BY <1>3, CancelLocalKeeps
<1>4. ASSUME NEW k \in CancelId, NEW d \in BOOLEAN, CancelCoordinated(k, d) PROVE IInv'
  BY <1>4, CancelCoordinatedKeeps
<1> QED BY <1>1, <1>2, <1>3, <1>4 DEF Client

\* A step of a drain task.
LEMMA DrainKeeps ==
    ASSUME IInv, SlowUnwind = FALSE, NEW t \in Task, Drain(t) \/ Raise(t)
    PROVE  IInv'
<1>1. CASE Enter(t) \/ Read(t) \/ InterruptStopped(t) \/ CheckEmpty(t)
  BY <1>1, EnterKeeps, ReadKeeps, InterruptStoppedKeeps, CheckEmptyKeeps
<1>2. CASE Claim(t) \/ Start(t) \/ Finish(t) \/ Superseded(t)
  BY <1>2, ClaimKeeps, StartKeeps, FinishKeeps, SupersededKeeps
<1>3. CASE NextTurn(t) \/ Fail(t) \/ Deliver(t) \/ Abort(t) \/ Leave(t)
  BY <1>3, NextTurnKeeps, FailKeeps, DeliverKeeps, AbortKeeps, LeaveKeeps
<1>4. CASE Raise(t)
  BY <1>4, RaiseKeeps
<1> QED BY <1>1, <1>2, <1>3, <1>4 DEF Drain

\* IInv is inductive.
LEMMA NextKeeps ==
    ASSUME SlowUnwind = FALSE, IInv, [Next]_vars
    PROVE  IInv'
<1>1. CASE Client
  BY <1>1, ClientKeeps
<1>2. CASE CancelTurn \/ CancelStop \/ CancelEnd \/ CancelEffects
  BY <1>2, CancelTurnKeeps, CancelStopKeeps, CancelEndKeeps, CancelEffectsKeeps
<1>3. CASE Close \/ CloseActor \/ CloseTasks \/ Restart
  BY <1>3, CloseKeeps, CloseActorKeeps, CloseTasksKeeps, RestartKeeps
<1>4. ASSUME NEW t \in Task, Drain(t) \/ Raise(t) PROVE IInv'
  BY <1>4, DrainKeeps
<1>5. CASE UNCHANGED vars
  BY <1>5, StutterKeeps
<1> QED BY <1>1, <1>2, <1>3, <1>4, <1>5 DEF Next

\* What the invariant says of the journal's turns.
LEMMA TurnsFollow ==
    ASSUME IInv
    PROVE  TurnsRunOnce
<1> DEFINE open == OpenTurns(journal)
<1>1. TypeOK /\ journal \in Seq(Event) /\ InStages(journal) /\ OneOpen(journal)
  BY DEF IInv, TypeOK, JournalInv
<1>2. \A m, n \in open : m = n
  <2> SUFFICES ASSUME NEW m \in open, NEW n \in open PROVE m = n
    OBVIOUS
  <2>1. /\ m \in DOMAIN journal /\ n \in DOMAIN journal
        /\ journal[m].kind = "TurnStarted" /\ journal[n].kind = "TurnStarted"
        /\ journal[m].id \notin terminal(journal) /\ journal[n].id \notin terminal(journal)
    BY DEF OpenTurns
  <2>2. journal[m].id \in started(journal) /\ journal[n].id \in started(journal)
    BY <1>1, <2>1, Reductions
  <2>3. journal[m].id = journal[n].id
    BY <1>1, <2>1, <2>2 DEF OneOpen
  <2>4. Stage(journal[m]) = 2 /\ Stage(journal[n]) = 2
    BY <1>1, <2>1, Reductions, EventFields
  <2> QED BY <1>1, <2>1, <2>3, <2>4, OnceEach
<1>3. Cardinality(open) <= 1
  <2>1. CASE open = {}
    <3>1. Cardinality({}) = 0
      BY FS_EmptySet
    <3> QED BY <2>1, <3>1
  <2>2. CASE open # {}
    <3>1. PICK n \in open : TRUE
      BY <2>2
    <3>2. open = {n}
      BY <1>2
    <3>3. Cardinality({n}) = 1
      BY FS_Singleton
    <3> QED BY <3>2, <3>3
  <2> QED BY <2>1, <2>2
<1> QED BY <1>1, <1>3 DEF TurnsRunOnce, OneTurnPerInput, InStages, queued

\* What the invariant says of the order in which turns start.
LEMMA OrderFollows ==
    ASSUME IInv
    PROVE  StartsInOrder
<1>1. journal \in Seq(Event) /\ JournalInv(journal) /\ Ordered(journal)
  BY DEF IInv, TypeOK, JournalInv
<1> SUFFICES ASSUME NEW m \in DOMAIN journal, NEW n \in DOMAIN journal, m < n,
                    journal[m].kind = "TurnStarted", journal[n].kind = "TurnStarted"
             PROVE  QueuedAt(journal[m].id) < QueuedAt(journal[n].id)
  BY DEF StartsInOrder
<1>2. Precedes(journal, journal[m].id, journal[n].id)
  BY <1>1 DEF Ordered
<1>3. \A c \in started(journal) : \E i \in DOMAIN journal : journal[i] = Queued(c)
  BY <1>1, JournalFacts, Reductions
<1>4. journal[m].id \in started(journal) /\ journal[n].id \in started(journal)
  BY <1>1, Reductions
<1>5. \A c \in started(journal) : QueuedAt(c) \in DOMAIN journal /\ journal[QueuedAt(c)] = Queued(c)
  BY <1>3 DEF QueuedAt
<1> QED BY <1>2, <1>4, <1>5 DEF Precedes

\* What the invariant says of cancellations that returned.
LEMMA ReceiptsFollow ==
    ASSUME IInv
    PROVE  CancelledWorkHasEnded
<1>1. Requests(journal) /\ ReceiptInv
  BY DEF IInv, JournalInv
<1> SUFFICES ASSUME NEW n \in DOMAIN journal, journal[n].kind = "CancellationRequested",
                    journal[n].id \in acknowledged
             PROVE  Reach(journal, n) \subseteq terminal(journal)
  BY DEF CancelledWorkHasEnded, Reach
<1>2. Reach(journal, n) \subseteq ToSet(journal[n].targets)
  BY <1>1 DEF Requests, IsRequest
<1>3. n \in Recorded(journal[n].id)
  BY DEF Recorded
<1>4. ToSet(journal[n].targets) \subseteq terminal(journal)
  BY <1>1, <1>3 DEF ReceiptInv
<1> QED BY <1>2, <1>4

\* The invariant holds in every state, when what a cancelled task awaited
\* unwinds at once: sends, cancellations of either kind, drain tasks that raise,
\* are cancelled and hand over, aclose and process death all keep it.
THEOREM DrainInvariant ==
    ASSUME SlowUnwind = FALSE
    PROVE  Spec => []IInv
<1>1. Init => IInv
  BY InitHolds
<1>2. IInv /\ [Next]_vars => IInv'
  BY NextKeeps
<1> QED BY <1>1, <1>2, PTL DEF Spec

\* Every accepted input is queued once, started at most once and ended at most
\* once, in that order, and at most one turn is open: the engine generation that
\* _engine_append checks under the lock is enough, whatever a cancelled task
\* still does next to its successor (Runtime._drain, _interrupt_if_incomplete).
THEOREM TurnsRunOnceAlways ==
    ASSUME SlowUnwind = FALSE
    PROVE  Spec => []TurnsRunOnce
BY DrainInvariant, TurnsFollow, PTL

\* Turns start in the order their inputs were accepted, although _drain picks
\* the input in a read outside the lock and starts it two lock sections later.
THEOREM TurnsStartInOrder ==
    ASSUME SlowUnwind = FALSE
    PROVE  Spec => []StartsInOrder
BY DrainInvariant, OrderFollows, PTL

\* Whatever was queued or running when a cancellation was recorded has a
\* terminal event once the caller has its receipt, with and without a
\* coordinator, for repeated cancellations and across restarts in between.
THEOREM CancelledWorkAlwaysEnds ==
    ASSUME SlowUnwind = FALSE
    PROVE  Spec => []CancelledWorkHasEnded
BY DrainInvariant, ReceiptsFollow, PTL

=============================================================================
