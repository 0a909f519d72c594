------------------------ MODULE CommittedPagesProofs ------------------------
(***************************************************************************)
(* The page cache is sound and every stream gapless, for any number of     *)
(* readers and events and any limits.                                      *)
(***************************************************************************)
EXTENDS CommittedPages, SequenceTheorems, FiniteSetTheorems, TLAPS

\* Consecutive events.  The closed form is what the proofs need: that neighbours
\* are consecutive follows from it at once, the converse only by induction.
IsRun(s) == s \in Seq(1..MaxSeq) /\ \A n \in 1 .. Len(s) : s[n] = s[1] + n - 1

\* They are in the database, or were until the tree was deleted.
Within(s) == s # <<>> => s[Len(s)] <= committed

\* The result of a read from a cursor.
ReadFrom(page, begin) == IsRun(page) /\ Within(page) /\ (page # <<>> => page[1] = begin + 1)

\* What readers, the fetch and the cache hold are runs that begin where they
\* should.
RunsAreRight ==
    /\ IsRun(recent) /\ Within(recent)
    /\ unpublished # None => unpublished <= committed
    /\ flight # None /\ flight.at # "reading" => ReadFrom(flight.page, flight.begin)
    /\ \A s \in Reader :
          /\ reader[s].at = "resumed" => ReadFrom(reader[s].page, reader[s].begin)
          /\ reader[s].at = "yield" => reader[s].page # <<>>
                                       /\ ReadFrom(reader[s].page, reader[s].cursor)

\* Nothing is cached for a session without readers, or a deleted one, and what
\* is cached fits.
CacheIsNeeded ==
    recent # <<>> => readers # None /\ ~readers.deleted /\ Fits(recent)

Active == {s \in Reader : reader[s].at # "off"}

IInv ==
    /\ TypeOK
    /\ RunsAreRight
    /\ CacheIsNeeded
    /\ ReadersAreCounted
    /\ closed => readers = None

----------------------------------------------------------------------------
(* Runs *)

LEMMA SuffixFacts ==
    ASSUME NEW S, NEW s \in Seq(S), NEW n \in 1 .. (Len(s) + 1)
    PROVE  /\ Suffix(s, n) \in Seq(S)
           /\ Len(Suffix(s, n)) = Len(s) - n + 1
           /\ \A i \in 1 .. (Len(s) - n + 1) : Suffix(s, n)[i] = s[n + i - 1]
<1>1. Len(s) \in Nat
  BY LenProperties
<1>2. n \in Int /\ Len(s) \in Int /\ \A i \in n .. Len(s) : i \in 1 .. Len(s)
  BY <1>1
<1>3. \A i \in n .. Len(s) : s[i] \in S
  BY <1>2, ElementOfSeq
<1>4. /\ SubSeq(s, n, Len(s)) \in Seq(S)
      /\ Len(SubSeq(s, n, Len(s))) = IF n <= Len(s) THEN Len(s) - n + 1 ELSE 0
      /\ \A i \in 1 .. (Len(s) - n + 1) : SubSeq(s, n, Len(s))[i] = s[n + i - 1]
  BY <1>2, <1>3, SubSeqProperties
<1> QED
  BY <1>1, <1>4 DEF Suffix

LEMMA RunFacts ==
    ASSUME NEW s, IsRun(s)
    PROVE  /\ s \in Seq(1..MaxSeq) /\ Len(s) \in Nat
           /\ \A i \in 1 .. Len(s) : s[i] = s[1] + i - 1
           /\ s # <<>> => /\ Len(s) > 0 /\ s[1] \in 1..MaxSeq
                          /\ s[Len(s)] \in 1..MaxSeq
                          /\ s[Len(s)] = s[1] + Len(s) - 1
                          /\ Head(s) = s[1] /\ Last(s) = s[Len(s)]
<1>1. s \in Seq(1..MaxSeq) /\ \A i \in 1 .. Len(s) : s[i] = s[1] + i - 1
  BY DEF IsRun
<1>2. Len(s) \in Nat
  BY <1>1, LenProperties
<1>3. ASSUME s # <<>>
      PROVE  /\ Len(s) > 0 /\ s[1] \in 1..MaxSeq /\ s[Len(s)] \in 1..MaxSeq
             /\ s[Len(s)] = s[1] + Len(s) - 1
             /\ Head(s) = s[1] /\ Last(s) = s[Len(s)]
  <2>1. Len(s) \in Nat \ {0}
    BY <1>1, <1>3, EmptySeq
  <2>2. 1 \in 1 .. Len(s) /\ Len(s) \in 1 .. Len(s)
    BY <2>1
  <2>3. s[1] \in 1..MaxSeq /\ s[Len(s)] \in 1..MaxSeq
    BY <1>1, <2>2, ElementOfSeq
  <2>4. Head(s) = s[1]
    BY <1>1, <1>3
  <2> QED
    BY <1>1, <2>1, <2>2, <2>3, <2>4 DEF Last
<1> QED
  BY <1>1, <1>2, <1>3

\* A suffix of a run is a run with the same end.
LEMMA SuffixRun ==
    ASSUME NEW s, IsRun(s), NEW n \in 1 .. Len(s)
    PROVE  /\ IsRun(Suffix(s, n))
           /\ Suffix(s, n) # <<>> /\ s # <<>>
           /\ Suffix(s, n)[1] = s[n]
           /\ Suffix(s, n)[Len(Suffix(s, n))] = s[Len(s)]
<1> DEFINE t == Suffix(s, n)
<1>1. s \in Seq(1..MaxSeq) /\ Len(s) \in Nat /\ \A i \in 1 .. Len(s) : s[i] = s[1] + i - 1
  BY LenProperties DEF IsRun
<1>2. /\ t \in Seq(1..MaxSeq) /\ Len(t) = Len(s) - n + 1
      /\ \A i \in 1 .. (Len(s) - n + 1) : t[i] = s[n + i - 1]
  BY <1>1, SuffixFacts
<1>3. s[1] \in Nat
  <2>1. 1 \in 1 .. Len(s)
    BY <1>1
  <2>2. s[1] \in 1..MaxSeq
    BY <1>1, <2>1, ElementOfSeq
  <2> QED
    BY <2>2
<1> HIDE DEF t
<1>4. t[1] = s[n] /\ t[Len(t)] = s[Len(s)] /\ Len(t) > 0
  BY <1>1, <1>2
<1>5. ASSUME NEW i \in 1 .. Len(t) PROVE t[i] = t[1] + i - 1
  <2>1. t[i] = s[n + i - 1] /\ n + i - 1 \in 1 .. Len(s)
    BY <1>1, <1>2, <1>5
  <2>2. s[n + i - 1] = s[1] + (n + i - 1) - 1 /\ s[n] = s[1] + n - 1
    BY <1>1, <2>1
  <2> QED
    BY <1>3, <1>4, <2>1, <2>2
<1>6. t # <<>> /\ s # <<>>
  BY <1>1, <1>4, EmptySeq
<1> QED
  BY <1>2, <1>4, <1>5, <1>6 DEF IsRun, t

\* Trimming leaves a suffix that fits, or nothing.
LEMMA TrimmedRun ==
    ASSUME NEW s, IsRun(s)
    PROVE  /\ IsRun(Trimmed(s))
           /\ Trimmed(s) # <<>> => /\ Fits(Trimmed(s)) /\ s # <<>>
                                   /\ Trimmed(s)[Len(Trimmed(s))] = s[Len(s)]
<1> DEFINE cuts == {n \in 1 .. Len(s) : /\ Fits(Suffix(s, n))
                                        /\ \A m \in 1 .. (n - 1) : ~Fits(Suffix(s, m))}
           cut == CHOOSE n \in cuts : TRUE
<1>1. CASE cuts = {}
  <2>1. Trimmed(s) = <<>>
    BY <1>1 DEF Trimmed
  <2> QED
    BY <2>1, EmptySeq DEF IsRun
<1>2. CASE cuts # {}
  <2>1. cut \in cuts /\ Trimmed(s) = Suffix(s, cut)
    BY <1>2 DEF Trimmed
  <2>2. cut \in 1 .. Len(s) /\ Fits(Suffix(s, cut))
    BY <2>1
  <2> QED
    BY <2>1, <2>2, SuffixRun
<1> QED
  BY <1>1, <1>2

\* What comes after a cursor is a run that begins with the next event, or with
\* the first there is.
LEMMA AfterRun ==
    ASSUME NEW s, IsRun(s), NEW a \in Nat
    PROVE  /\ IsRun(After(s, a))
           /\ After(s, a) # <<>> =>
                 /\ s # <<>>
                 /\ After(s, a)[1] = IF s[1] > a THEN s[1] ELSE a + 1
                 /\ After(s, a)[Len(After(s, a))] = s[Len(s)]
<1>1. s \in Seq(1..MaxSeq) /\ Len(s) \in Nat /\ \A i \in 1 .. Len(s) : s[i] = s[1] + i - 1
  BY RunFacts
<1>2. CASE s = <<>>
  BY <1>2, EmptySeq DEF After, IsRun
<1>3. CASE s # <<>>
  <2> DEFINE n == IF s[1] > a THEN 1 ELSE a - s[1] + 2
  <2>1. s[1] \in Nat /\ Len(s) > 0 /\ Head(s) = s[1]
    BY <1>3, RunFacts
  <2>2. After(s, a) = Suffix(s, n) /\ n \in Nat \ {0}
    BY <1>3, <2>1 DEF After
  <2>3. CASE n \in 1 .. Len(s)
    <3>1. s[n] = s[1] + n - 1
      BY <1>1, <2>3
    <3>2. s[n] = IF s[1] > a THEN s[1] ELSE a + 1
      BY <2>1, <3>1
    <3> HIDE DEF n
    <3> QED
      BY <1>3, <2>2, <2>3, <3>2, SuffixRun
  <2>4. CASE n \notin 1 .. Len(s)
    <3>1. Len(s) < n /\ n \in Int /\ Len(s) \in Int
      BY <1>1, <2>2, <2>4
    <3> HIDE DEF n
    <3>2. SubSeq(s, n, Len(s)) = <<>>
      BY <3>1, SubSeqEmpty
    <3> QED
      BY <2>2, <3>2, EmptySeq DEF IsRun, Suffix
  <2> QED
    BY <2>3, <2>4
<1> QED
  BY <1>2, <1>3

\* Joining two runs makes a run that ends where one of them does.
LEMMA JoinedRun ==
    ASSUME NEW s, NEW t, IsRun(s), IsRun(t), t # <<>>, Within(s), Within(t)
    PROVE  IsRun(Joined(s, t)) /\ Within(Joined(s, t))
<1>1. /\ s \in Seq(1..MaxSeq) /\ Len(s) \in Nat /\ \A i \in 1 .. Len(s) : s[i] = s[1] + i - 1
      /\ t \in Seq(1..MaxSeq) /\ Len(t) \in Nat /\ \A i \in 1 .. Len(t) : t[i] = t[1] + i - 1
  BY RunFacts
<1>2. CASE s = <<>> \/ Head(t) > Last(s) + 1
  BY <1>2 DEF Joined
<1>3. CASE ~(s = <<>> \/ Head(t) > Last(s) + 1)
  <2> DEFINE last == s[Len(s)]
             u == After(t, last)
             j == s \o u
  <2>1. /\ Len(s) > 0 /\ Len(t) > 0 /\ s[1] \in Nat /\ t[1] \in Nat
        /\ last = s[1] + Len(s) - 1 /\ last \in Nat /\ Head(t) = t[1] /\ Last(s) = last
    BY <1>3, RunFacts
  <2>2. t[1] <= last + 1 /\ Joined(s, t) = j
    BY <1>3, <2>1 DEF Joined
  <2>3. /\ IsRun(u)
        /\ u # <<>> => u[1] = (IF t[1] > last THEN t[1] ELSE last + 1) /\ u[Len(u)] = t[Len(t)]
    BY <2>1, AfterRun
  <2> HIDE DEF u
  <2>4. u # <<>> => u[1] = last + 1
    BY <2>1, <2>2, <2>3
  <2>5. u \in Seq(1..MaxSeq) /\ Len(u) \in Nat /\ \A i \in 1 .. Len(u) : u[i] = u[1] + i - 1
    BY <2>3, LenProperties DEF IsRun
  <2>6. /\ j \in Seq(1..MaxSeq) /\ Len(j) = Len(s) + Len(u)
        /\ \A i \in 1 .. (Len(s) + Len(u)) : j[i] = IF i <= Len(s) THEN s[i] ELSE u[i - Len(s)]
    BY <1>1, <2>5, ConcatProperties
  <2> HIDE DEF j
  <2>7. j[1] = s[1]
    BY <1>1, <2>1, <2>5, <2>6
  <2>8. ASSUME NEW i \in 1 .. Len(j) PROVE j[i] = j[1] + i - 1
    <3>1. CASE i <= Len(s)
      <4>1. i \in 1 .. Len(s) /\ j[i] = s[i]
        BY <1>1, <2>5, <2>6, <2>8, <3>1
      <4> QED
        BY <1>1, <2>7, <4>1
    <3>2. CASE i > Len(s)
      <4>1. i - Len(s) \in 1 .. Len(u) /\ j[i] = u[i - Len(s)]
        BY <1>1, <2>5, <2>6, <2>8, <3>2
      <4>2. u # <<>>
        BY <2>5, <4>1, EmptySeq
      <4>3. u[i - Len(s)] = u[1] + (i - Len(s)) - 1
        BY <2>5, <4>1
      <4>4. u[1] = s[1] + Len(s)
        BY <1>1, <2>1, <2>4, <4>2
      <4>5. i \in Int /\ s[1] \in Int /\ Len(s) \in Int
        BY <1>1, <2>1, <2>5, <2>6, <2>8
      <4>6. (s[1] + Len(s)) + (i - Len(s)) - 1 = s[1] + i - 1
        BY <4>5
      <4> QED
        BY <2>7, <4>1, <4>3, <4>4, <4>6
    <3> QED
      BY <1>1, <2>6, <2>8, <3>1, <3>2
  <2>9. Within(j)
    <3>1. CASE u = <<>>
      <4>1. Len(j) = Len(s) /\ j[Len(j)] = last
        BY <1>1, <2>1, <2>6, <3>1, EmptySeq
      <4> QED
        BY <1>3, <4>1 DEF Within
    <3>2. CASE u # <<>>
      <4>1. Len(u) > 0
        BY <2>5, <3>2, EmptySeq
      <4>2. j[Len(j)] = u[Len(u)]
        <5>1. Len(s) + Len(u) \in 1 .. (Len(s) + Len(u)) /\ ~(Len(s) + Len(u) <= Len(s))
              /\ (Len(s) + Len(u)) - Len(s) = Len(u)
          BY <1>1, <2>5, <4>1
        <5> QED
          BY <2>6, <5>1
      <4> QED
        BY <2>3, <3>2, <4>2 DEF Within
    <3> QED
      BY <3>1, <3>2
  <2> QED
    BY <2>2, <2>6, <2>8, <2>9 DEF IsRun
<1> QED
  BY <1>2, <1>3

\* What the store returns is a run from the cursor on.
LEMMA RowsAreRead ==
    ASSUME TypeOK, NEW a \in 0..MaxSeq, NEW limit \in Nat
    PROVE  ReadFrom(Rows(a, limit), a)
<1> DEFINE last == IF deleted THEN 0 ELSE committed
           n == IF last <= a THEN 0 ELSE IF last - a < limit THEN last - a ELSE limit
           s == [i \in 1..n |-> a + i]
<1>1. committed \in 0..MaxSeq /\ MaxSeq \in Nat
  BY PagesAssumption DEF TypeOK
<1>2. n \in Nat /\ (n > 0 => a + n <= committed)
  BY <1>1
<1>3. Rows(a, limit) = s
  BY DEF Rows
<1> HIDE DEF n
<1>4. \A i \in 1..n : s[i] = a + i /\ a + i \in 1..MaxSeq
  BY <1>1, <1>2
<1>5. s \in [1..n -> 1..MaxSeq]
  BY <1>4
<1>6. s \in Seq(1..MaxSeq) /\ Len(s) = n
  BY <1>2, <1>5, SeqDef, LenProperties
<1> HIDE DEF s
<1>7. s # <<>> => n > 0
  BY <1>6, EmptySeq
<1> QED
  BY <1>1, <1>2, <1>3, <1>4, <1>6, <1>7 DEF ReadFrom, IsRun, Within

----------------------------------------------------------------------------
(* What page returns *)

LEMMA ReturnedFacts ==
    ASSUME NEW r \in ReaderState, NEW p, IsRun(p), Within(p), p # <<>> => p[1] = r.cursor + 1
    PROVE  /\ Returned(r, p) \in ReaderState
           /\ Returned(r, p).at \in {"idle", "yield"}
           /\ Returned(r, p).at = "yield" =>
                 /\ Returned(r, p).page # <<>>
                 /\ ReadFrom(Returned(r, p).page, Returned(r, p).cursor)
<1>1. p \in Seq(1..MaxSeq)
  BY DEF IsRun
<1>2. 0 \in 0..MaxSeq
  BY PagesAssumption
<1>3. Returned(r, p) \in ReaderState
  BY <1>1, <1>2 DEF Returned, ReaderState, At
<1>4. /\ Returned(r, p).at = IF p = <<>> THEN "idle" ELSE "yield"
      /\ Returned(r, p).cursor = r.cursor /\ Returned(r, p).page = p
  BY DEF Returned, ReaderState
<1> QED
  BY <1>3, <1>4 DEF ReadFrom

\* A run that contains the next event, and a fetch's result that serves a cursor,
\* give the reader the run that begins with the next event, or nothing.
LEMMA CoveredRun ==
    ASSUME NEW p, IsRun(p), Within(p), NEW a \in Nat, Covers(p, a)
    PROVE  /\ IsRun(After(p, a)) /\ Within(After(p, a))
           /\ After(p, a) # <<>> => After(p, a)[1] = a + 1
<1>1. p # <<>> /\ Head(p) <= a + 1
  BY DEF Covers
<1>2. p[1] \in Nat /\ p[1] <= a + 1
  BY <1>1, RunFacts
<1>3. IsRun(After(p, a))
  BY AfterRun
<1>4. ASSUME After(p, a) # <<>>
      PROVE  /\ After(p, a)[1] = (IF p[1] > a THEN p[1] ELSE a + 1)
             /\ After(p, a)[Len(After(p, a))] = p[Len(p)]
  BY <1>4, AfterRun
<1>5. (IF p[1] > a THEN p[1] ELSE a + 1) = a + 1
  BY <1>2
<1> QED
  BY <1>1, <1>3, <1>4, <1>5 DEF Within

LEMMA ServedRun ==
    ASSUME NEW p, NEW b \in Nat, NEW a \in Nat, ReadFrom(p, b), Serves(b, p, a)
    PROVE  /\ IsRun(After(p, a)) /\ Within(After(p, a))
           /\ After(p, a) # <<>> => After(p, a)[1] = a + 1
<1>1. IsRun(p) /\ Within(p) /\ (p # <<>> => p[1] = b + 1)
  BY DEF ReadFrom
<1>2. CASE Covers(p, a)
  BY <1>1, <1>2, CoveredRun
<1>3. CASE p = <<>>
  BY <1>1, <1>3 DEF After, Within
<1>4. CASE b = a /\ p # <<>>
  <2>1. p[1] = a + 1 /\ p[1] > a
    BY <1>1, <1>4
  <2>2. IsRun(After(p, a))
    BY <1>1, AfterRun
  <2>3. ASSUME After(p, a) # <<>>
        PROVE  /\ After(p, a)[1] = (IF p[1] > a THEN p[1] ELSE a + 1)
               /\ After(p, a)[Len(After(p, a))] = p[Len(p)]
    BY <1>1, <2>3, AfterRun
  <2> QED
    BY <1>1, <1>4, <2>1, <2>2, <2>3 DEF Within
<1> QED
  BY <1>2, <1>3, <1>4 DEF Serves

----------------------------------------------------------------------------
(* Counting the readers *)

LEMMA ActiveFacts ==
    ASSUME IInv
    PROVE  /\ IsFiniteSet(Active) /\ Cardinality(Active) \in Nat
           /\ Cardinality(Active) <= Cardinality(Reader) /\ Cardinality(Reader) \in Nat
<1>1. IsFiniteSet(Reader) /\ Active \in SUBSET Reader
  BY PagesAssumption DEF Active
<1> QED
  BY <1>1, FS_Subset, FS_CardinalityType

\* A reader that is there is counted.
LEMMA ReadersAreThere ==
    ASSUME IInv, ~closed, NEW s \in Reader, reader[s].at # "off"
    PROVE  readers # None
<1>1. Active # {} /\ IsFiniteSet(Active)
  BY ActiveFacts DEF Active
<1>2. Cardinality(Active) # 0
  BY <1>1, FS_EmptySet
<1>3. (IF readers = None THEN 0 ELSE readers.users) = Cardinality(Active)
  BY DEF IInv, ReadersAreCounted, Active
<1> QED
  BY <1>2, <1>3

\* A step of one reader, and perhaps of the fetch, that neither comes nor leaves.
LEMMA ReaderStep ==
    ASSUME IInv, NEW s \in Reader, NEW r \in ReaderState,
           reader[s].at # "off", r.at # "off",
           reader' = [reader EXCEPT ![s] = r],
           UNCHANGED <<database, recent, readers, closed>>,
           \/ UNCHANGED flight
           \/ ~closed /\ \E b \in 0..MaxSeq : flight' = [at |-> "reading", begin |-> b, page |-> <<>>],
           r.at = "waiting" => flight' # None,
           r.at = "resumed" => ReadFrom(r.page, r.begin),
           r.at = "yield" => r.page # <<>> /\ ReadFrom(r.page, r.cursor)
    PROVE  IInv'
<1>1. reader \in [Reader -> ReaderState]
  BY DEF IInv, TypeOK
<1>2. /\ reader' \in [Reader -> ReaderState] /\ reader'[s] = r
      /\ \A t \in Reader \ {s} : reader'[t] = reader[t]
  BY <1>1
<1>3. flight' = flight \/ /\ flight' \in [at : {"reading", "read", "done"},
                                          begin : 0..MaxSeq, page : Seq(1..MaxSeq)]
                          /\ flight'.at = "reading" /\ flight' # None /\ ~closed
  <2>1. <<>> \in Seq(1..MaxSeq) /\ <<>> \in Seq(Nat)
    BY EmptySeq
  <2>2. \A b \in 0..MaxSeq : b \in Nat
    BY PagesAssumption
  <2>3. None \notin [at : {"reading", "read", "done"}, begin : Nat, page : Seq(Nat)]
    BY PagesAssumption
  <2>4. ASSUME NEW b \in 0..MaxSeq
        PROVE  LET f == [at |-> "reading", begin |-> b, page |-> <<>>]
               IN  f \in [at : {"reading", "read", "done"}, begin : 0..MaxSeq,
                          page : Seq(1..MaxSeq)] /\ f.at = "reading" /\ f # None
    <3> DEFINE f == [at |-> "reading", begin |-> b, page |-> <<>>]
    <3>1. f \in [at : {"reading", "read", "done"}, begin : Nat, page : Seq(Nat)]
      BY <2>1, <2>2, <2>4
    <3>2. f # None
      BY <2>3, <3>1
    <3> QED
      BY <2>1, <2>4, <3>2
  <2> QED
    BY <2>4
<1>4. TypeOK'
  BY <1>2, <1>3 DEF IInv, TypeOK, database
<1>5. RunsAreRight'
  BY <1>2, <1>3 DEF IInv, RunsAreRight, ReadFrom, IsRun, Within, database
<1>6. CacheIsNeeded'
  BY DEF IInv, CacheIsNeeded
<1>7. ReadersAreCounted'
  <2>1. {t \in Reader : reader'[t].at # "off"} = {t \in Reader : reader[t].at # "off"}
    BY <1>2
  <2>2. flight' # flight => flight' # None /\ readers # None
    BY <1>3, ReadersAreThere
  <2>3. (\E t \in Reader : reader'[t].at = "waiting") => flight' # None
    BY <1>2, <1>3 DEF IInv, ReadersAreCounted
  <2>4. readers' = None => recent' = <<>> /\ flight' = None
    BY <2>2 DEF IInv, ReadersAreCounted
  <2> QED
    BY <2>1, <2>3, <2>4 DEF IInv, ReadersAreCounted
<1> QED
  BY <1>4, <1>5, <1>6, <1>7 DEF IInv

----------------------------------------------------------------------------
(* The steps of a reader *)

LEMMA PageLoopStep ==
    ASSUME IInv, NEW s \in Reader, NEW r \in ReaderState,
           reader[s].at # "off", r.at \in {"idle", "resumed"},
           PageLoop(s, r), UNCHANGED <<database, recent, readers, closed>>
    PROVE  IInv'
<1>1. r.cursor \in Nat /\ r.cursor \in 0..MaxSeq
  BY PagesAssumption DEF ReaderState
<1>2. IsRun(<<>>) /\ Within(<<>>)
  BY EmptySeq DEF IsRun, Within
<1>3. IsRun(recent) /\ Within(recent)
  BY DEF IInv, RunsAreRight
<1>4. [r EXCEPT !.at = "waiting"] \in ReaderState /\ [r EXCEPT !.at = "waiting"].at = "waiting"
  BY DEF ReaderState, At
<1>5. [r EXCEPT !.at = "hung"] \in ReaderState /\ [r EXCEPT !.at = "hung"].at = "hung"
  BY DEF ReaderState, At
<1>6. CASE closed
  <2>1. reader' = [reader EXCEPT ![s] = Returned(r, <<>>)] /\ UNCHANGED flight
    BY <1>6 DEF PageLoop
  <2>2. /\ Returned(r, <<>>) \in ReaderState
        /\ Returned(r, <<>>).at \in {"idle", "yield"}
        /\ Returned(r, <<>>).at = "yield" =>
              /\ Returned(r, <<>>).page # <<>>
              /\ ReadFrom(Returned(r, <<>>).page, Returned(r, <<>>).cursor)
    BY <1>2, ReturnedFacts
  <2> QED
    BY <2>1, <2>2, ReaderStep
<1>7. CASE ~closed /\ Covers(recent, r.cursor)
  <2> DEFINE q == After(recent, r.cursor)
  <2>1. reader' = [reader EXCEPT ![s] = Returned(r, q)] /\ UNCHANGED flight
    BY <1>7 DEF PageLoop
  <2>2. IsRun(q) /\ Within(q) /\ (q # <<>> => q[1] = r.cursor + 1)
    BY <1>1, <1>3, <1>7, CoveredRun
  <2> HIDE DEF q
  <2>3. /\ Returned(r, q) \in ReaderState
        /\ Returned(r, q).at \in {"idle", "yield"}
        /\ Returned(r, q).at = "yield" =>
              /\ Returned(r, q).page # <<>>
              /\ ReadFrom(Returned(r, q).page, Returned(r, q).cursor)
    BY <2>2, ReturnedFacts
  <2> QED
    BY <2>1, <2>3, ReaderStep
<1>8. CASE ~closed /\ ~Covers(recent, r.cursor) /\ flight = None
  <2>1. /\ reader' = [reader EXCEPT ![s] = [r EXCEPT !.at = "waiting"]]
        /\ flight' = [at |-> "reading", begin |-> r.cursor, page |-> <<>>]
    BY <1>8 DEF PageLoop
  <2>2. flight' # None
    <3>1. <<>> \in Seq(Nat)
      BY EmptySeq
    <3>2. flight' \in [at : {"reading", "read", "done"}, begin : Nat, page : Seq(Nat)]
      BY <1>1, <2>1, <3>1
    <3> QED
      BY <3>2, PagesAssumption
  <2>3. \E b \in 0..MaxSeq : flight' = [at |-> "reading", begin |-> b, page |-> <<>>]
    BY <1>1, <2>1
  <2> QED
    BY <1>4, <1>8, <2>1, <2>2, <2>3, ReaderStep
<1>9. CASE ~closed /\ ~Covers(recent, r.cursor) /\ flight # None
  <2>1. UNCHANGED flight
    BY <1>9 DEF PageLoop
  <2>2. CASE flight.at # "done"
    <3>1. reader' = [reader EXCEPT ![s] = [r EXCEPT !.at = "waiting"]]
      BY <1>9, <2>2 DEF PageLoop
    <3> QED
      BY <1>4, <1>9, <2>1, <3>1, ReaderStep
  <2>3. CASE flight.at = "done" /\ Serves(flight.begin, flight.page, r.cursor)
    <3> DEFINE q == After(flight.page, r.cursor)
    <3>1. reader' = [reader EXCEPT ![s] = Returned(r, q)]
      BY <1>9, <2>3 DEF PageLoop
    <3>2. ReadFrom(flight.page, flight.begin) /\ flight.begin \in Nat
      BY <1>9, <2>3, PagesAssumption DEF IInv, TypeOK, RunsAreRight
    <3>3. IsRun(q) /\ Within(q) /\ (q # <<>> => q[1] = r.cursor + 1)
      BY <1>1, <2>3, <3>2, ServedRun
    <3> HIDE DEF q
    <3>4. /\ Returned(r, q) \in ReaderState
          /\ Returned(r, q).at \in {"idle", "yield"}
          /\ Returned(r, q).at = "yield" =>
                /\ Returned(r, q).page # <<>>
                /\ ReadFrom(Returned(r, q).page, Returned(r, q).cursor)
      BY <3>3, ReturnedFacts
    <3> QED
      BY <2>1, <3>1, <3>4, ReaderStep
  <2>4. CASE flight.at = "done" /\ ~Serves(flight.begin, flight.page, r.cursor)
    <3>1. reader' = [reader EXCEPT ![s] = [r EXCEPT !.at = "hung"]]
      BY <1>9, <2>4 DEF PageLoop
    <3> QED
      BY <1>5, <2>1, <3>1, ReaderStep
  <2> QED
    BY <2>2, <2>3, <2>4
<1> QED
  BY <1>6, <1>7, <1>8, <1>9

LEMMA PageIInv ==
    ASSUME IInv, NEW s \in Reader, Page(s) PROVE IInv'
<1>1. reader[s] \in ReaderState /\ reader[s].at = "idle" /\ UNCHANGED <<database, recent, readers, closed>>
  BY DEF Page, IInv, TypeOK
<1>2. CASE readers.highWater > reader[s].cursor + PageLimit
  <2> DEFINE r == [reader[s] EXCEPT !.at = "direct"]
  <2>1. reader' = [reader EXCEPT ![s] = r] /\ UNCHANGED flight
    BY <1>2 DEF Page
  <2>2. r \in ReaderState /\ r.at = "direct"
    BY <1>1 DEF ReaderState, At
  <2> QED
    BY <1>1, <2>1, <2>2, ReaderStep
<1>3. CASE ~(readers.highWater > reader[s].cursor + PageLimit)
  <2>1. PageLoop(s, reader[s])
    BY <1>3 DEF Page
  <2> QED
    BY <1>1, <2>1, PageLoopStep
<1> QED
  BY <1>2, <1>3

LEMMA DirectReadIInv ==
    ASSUME IInv, NEW s \in Reader, DirectRead(s) PROVE IInv'
<1> DEFINE r == reader[s]
           q == Rows(r.cursor, DirectLimit)
<1>1. /\ r \in ReaderState /\ r.at = "direct" /\ r.cursor \in 0..MaxSeq
      /\ UNCHANGED <<database, recent, readers, closed>> /\ UNCHANGED flight
  BY DEF DirectRead, IInv, TypeOK, ReaderState
<1>2. reader' = [reader EXCEPT ![s] = Returned(r, q)]
  BY DEF DirectRead
<1>3. ReadFrom(q, r.cursor)
  BY <1>1, RowsAreRead, PagesAssumption DEF IInv
<1> HIDE DEF q
<1>4. IsRun(q) /\ Within(q) /\ (q # <<>> => q[1] = r.cursor + 1)
  BY <1>3 DEF ReadFrom
<1>5. /\ Returned(r, q) \in ReaderState
      /\ Returned(r, q).at \in {"idle", "yield"}
      /\ Returned(r, q).at = "yield" =>
            /\ Returned(r, q).page # <<>>
            /\ ReadFrom(Returned(r, q).page, Returned(r, q).cursor)
  BY <1>1, <1>4, ReturnedFacts
<1> QED
  BY <1>1, <1>2, <1>5, ReaderStep

LEMMA ResumeIInv ==
    ASSUME IInv, NEW s \in Reader, Resume(s) PROVE IInv'
<1> DEFINE r == reader[s]
           q == After(r.page, r.cursor)
<1>1. /\ r \in ReaderState /\ r.at = "resumed" /\ r.cursor \in Nat /\ r.begin \in Nat
      /\ UNCHANGED <<database, recent, readers, closed>> /\ ReadFrom(r.page, r.begin)
  BY PagesAssumption DEF Resume, IInv, TypeOK, ReaderState, RunsAreRight
<1>2. CASE Serves(r.begin, r.page, r.cursor)
  <2>1. reader' = [reader EXCEPT ![s] = Returned(r, q)] /\ UNCHANGED flight
    BY <1>2 DEF Resume
  <2>2. IsRun(q) /\ Within(q) /\ (q # <<>> => q[1] = r.cursor + 1)
    BY <1>1, <1>2, ServedRun
  <2> HIDE DEF q
  <2>3. /\ Returned(r, q) \in ReaderState
        /\ Returned(r, q).at \in {"idle", "yield"}
        /\ Returned(r, q).at = "yield" =>
              /\ Returned(r, q).page # <<>>
              /\ ReadFrom(Returned(r, q).page, Returned(r, q).cursor)
    BY <1>1, <2>2, ReturnedFacts
  <2> QED
    BY <1>1, <2>1, <2>3, ReaderStep
<1>3. CASE ~Serves(r.begin, r.page, r.cursor)
  <2> DEFINE e == [r EXCEPT !.page = <<>>, !.begin = 0]
  <2>1. PageLoop(s, e)
    BY <1>3 DEF Resume
  <2>2. e \in ReaderState /\ e.at = "resumed"
    <3>1. <<>> \in Seq(1..MaxSeq) /\ 0 \in 0..MaxSeq
      BY EmptySeq, PagesAssumption
    <3> QED
      BY <1>1, <3>1 DEF ReaderState
  <2> HIDE DEF e
  <2> QED
    BY <1>1, <2>1, <2>2, PageLoopStep
<1> QED
  BY <1>2, <1>3

\* What is left of a page begins after the item handed out.
LEMMA YieldFacts ==
    ASSUME NEW p, NEW a \in Nat, ReadFrom(p, a), p # <<>>, committed \in Nat
    PROVE  /\ Head(p) = a + 1 /\ Head(p) \in 1..MaxSeq /\ Head(p) <= committed
           /\ ReadFrom(Tail(p), Head(p)) /\ Tail(p) \in Seq(1..MaxSeq)
           /\ Tail(p) # <<>> <=> Len(p) # 1
<1>1. IsRun(p) /\ Within(p) /\ p[1] = a + 1
  BY DEF ReadFrom
<1>2. /\ p \in Seq(1..MaxSeq) /\ Len(p) \in Nat
      /\ \A i \in 1 .. Len(p) : p[i] = p[1] + i - 1
      /\ Len(p) > 0 /\ p[1] \in 1..MaxSeq
      /\ p[Len(p)] \in 1..MaxSeq /\ p[Len(p)] = p[1] + Len(p) - 1 /\ Head(p) = p[1]
  BY <1>1, RunFacts
<1>3. p[Len(p)] <= committed
  BY <1>1 DEF Within
<1> DEFINE u == Tail(p)
<1>4. /\ u \in Seq(1..MaxSeq) /\ Len(u) = Len(p) - 1
      /\ \A i \in 1 .. Len(u) : u[i] = p[i + 1]
  BY <1>2, HeadTailProperties
<1> HIDE DEF u
<1>5. u # <<>> <=> Len(p) # 1
  <2>1. u # <<>> => Len(u) \in Nat \ {0}
    BY <1>4, EmptySeq
  <2>2. u = <<>> => Len(u) = 0
    BY EmptySeq
  <2> QED
    BY <1>2, <1>4, <2>1, <2>2
<1>6. ASSUME NEW i \in 1 .. Len(u) PROVE u[i] = p[1] + i
  <2>1. i + 1 \in 1 .. Len(p) /\ u[i] = p[i + 1]
    BY <1>2, <1>4, <1>6
  <2>2. p[i + 1] = p[1] + (i + 1) - 1
    BY <1>2, <2>1
  <2> QED
    BY <1>2, <1>4, <1>6, <2>1, <2>2
<1>7. u # <<>> => 1 \in 1 .. Len(u) /\ Len(u) \in 1 .. Len(u)
  BY <1>2, <1>4, <1>5
<1>8. u # <<>> => u[1] = p[1] + 1 /\ u[Len(u)] = p[Len(p)]
  BY <1>2, <1>4, <1>6, <1>7
<1>9. ReadFrom(u, Head(p))
  <2>1. ASSUME NEW i \in 1 .. Len(u) PROVE u[i] = u[1] + i - 1
    <3>1. u[i] = p[1] + i /\ 1 \in 1 .. Len(u)
      BY <1>2, <1>4, <1>6, <2>1
    <3>2. u[1] = p[1] + 1
      BY <1>6, <3>1
    <3> QED
      BY <1>2, <1>4, <2>1, <3>1, <3>2
  <2> QED
    BY <1>1, <1>2, <1>3, <1>4, <1>8, <2>1 DEF ReadFrom, IsRun, Within
<1>10. Head(p) <= committed
  <2>1. p[1] <= p[Len(p)]
    BY <1>2
  <2> QED
    BY <1>2, <1>3, <2>1
<1> QED
  BY <1>1, <1>2, <1>4, <1>5, <1>9, <1>10 DEF u

LEMMA YieldIInv ==
    ASSUME IInv, NEW s \in Reader, Yield(s) PROVE IInv'
<1> DEFINE r == reader[s]
           e == [r EXCEPT !.cursor = Head(r.page), !.page = Tail(r.page),
                          !.at = IF Len(r.page) = 1 THEN "idle" ELSE "yield"]
<1>1. /\ r \in ReaderState /\ r.at = "yield" /\ r.cursor \in Nat /\ r.page # <<>>
      /\ UNCHANGED <<database, recent, readers, closed>> /\ UNCHANGED flight
      /\ ReadFrom(r.page, r.cursor) /\ committed \in Nat
  BY PagesAssumption DEF Yield, IInv, TypeOK, ReaderState, RunsAreRight
<1>2. reader' = [reader EXCEPT ![s] = e]
  BY DEF Yield, IInv, TypeOK
<1>3. /\ Head(r.page) \in 0..MaxSeq /\ ReadFrom(Tail(r.page), Head(r.page))
      /\ Tail(r.page) \in Seq(1..MaxSeq) /\ (Tail(r.page) # <<>> <=> Len(r.page) # 1)
  <2> HIDE DEF r
  <2>1. /\ Head(r.page) \in 1..MaxSeq /\ ReadFrom(Tail(r.page), Head(r.page))
        /\ Tail(r.page) \in Seq(1..MaxSeq) /\ (Tail(r.page) # <<>> <=> Len(r.page) # 1)
    BY <1>1, YieldFacts
  <2>2. \A x \in 1..MaxSeq : x \in 0..MaxSeq
    BY PagesAssumption
  <2> QED
    BY <2>1, <2>2
<1>4. /\ e \in ReaderState
      /\ e.at = (IF Len(r.page) = 1 THEN "idle" ELSE "yield")
      /\ e.page = Tail(r.page) /\ e.cursor = Head(r.page)
  BY <1>1, <1>3 DEF ReaderState, At
<1> HIDE DEF e
<1>5. /\ e.at \in {"idle", "yield"}
      /\ e.at = "yield" => e.page # <<>> /\ ReadFrom(e.page, e.cursor)
  BY <1>3, <1>4
<1> QED
  BY <1>1, <1>2, <1>4, <1>5, ReaderStep

----------------------------------------------------------------------------
(* The steps of the database and of the cache *)

\* What was within the database stays within it.
LEMMA AppendIInv ==
    ASSUME IInv, committed' \in 0..MaxSeq, committed <= committed',
           unpublished' = unpublished \/ (unpublished' \in 1..MaxSeq /\ unpublished' <= committed'),
           deleted' \in BOOLEAN, UNCHANGED <<recent, readers, flight, reader, closed>>
    PROVE  IInv'
<1>1. /\ committed \in Nat /\ committed' \in Nat
      /\ unpublished' # None => unpublished' \in Nat /\ unpublished' <= committed'
  BY PagesAssumption DEF IInv, TypeOK, RunsAreRight
<1>2. TypeOK'
  BY DEF IInv, TypeOK
<1>3. \A q : IsRun(q) /\ Within(q) => (q # <<>> => q[Len(q)] <= committed')
  <2> SUFFICES ASSUME NEW q, IsRun(q), Within(q), q # <<>> PROVE q[Len(q)] <= committed'
    OBVIOUS
  <2>1. q[Len(q)] \in 1..MaxSeq /\ q[Len(q)] <= committed
    BY RunFacts DEF Within
  <2> QED
    BY <1>1, <2>1
<1>4. RunsAreRight'
  BY <1>1, <1>3 DEF IInv, RunsAreRight, ReadFrom, IsRun, Within
<1>5. CacheIsNeeded' /\ ReadersAreCounted'
  BY DEF IInv, CacheIsNeeded, ReadersAreCounted
<1> QED
  BY <1>2, <1>4, <1>5 DEF IInv

\* The task of the fetch ends with the page it read.
FlightFinishes ==
    flight # None /\ flight.at = "read" /\ flight' = [flight EXCEPT !.at = "done"]

LEMMA FlightsAreNotNone ==
    \A f \in [at : {"reading", "read", "done"}, begin : 0..MaxSeq, page : Seq(1..MaxSeq)] : f # None
<1>1. \A p \in Seq(1..MaxSeq) : p \in Seq(Nat)
  <2> SUFFICES ASSUME NEW p \in Seq(1..MaxSeq) PROVE p \in Seq(Nat)
    OBVIOUS
  <2>1. Len(p) \in Nat /\ p \in [1..Len(p) -> 1..MaxSeq]
    BY LenProperties
  <2>2. p \in [1..Len(p) -> Nat]
    BY <2>1
  <2> QED
    BY <2>1, <2>2, SeqDef
<1>2. \A b \in 0..MaxSeq : b \in Nat
  BY PagesAssumption
<1>3. None \notin [at : {"reading", "read", "done"}, begin : Nat, page : Seq(Nat)]
  BY PagesAssumption
<1> QED
  BY <1>1, <1>2, <1>3

LEMMA FinishedFacts ==
    ASSUME IInv, FlightFinishes
    PROVE  /\ flight # None /\ flight' # None /\ flight.at = "read"
           /\ flight' \in [at : {"reading", "read", "done"}, begin : 0..MaxSeq, page : Seq(1..MaxSeq)]
           /\ flight'.begin = flight.begin /\ flight'.page = flight.page
<1>1. flight # None /\ flight.at = "read" /\ flight' = [flight EXCEPT !.at = "done"]
  BY DEF FlightFinishes
<1>2. flight \in [at : {"reading", "read", "done"}, begin : 0..MaxSeq, page : Seq(1..MaxSeq)]
  BY <1>1 DEF IInv, TypeOK
<1>3. /\ flight' \in [at : {"reading", "read", "done"}, begin : 0..MaxSeq, page : Seq(1..MaxSeq)]
      /\ flight'.begin = flight.begin /\ flight'.page = flight.page
  BY <1>1, <1>2
<1> QED
  BY <1>1, <1>3, FlightsAreNotNone

\* A step that changes the cache or the entry of `readers'.
LEMMA CacheStep ==
    ASSUME IInv, UNCHANGED <<committed, deleted, reader, closed>>,
           unpublished' \in {unpublished, None},
           flight' = flight \/ FlightFinishes,
           IsRun(recent'), Within(recent'),
           readers' = None <=> readers = None,
           readers # None => /\ readers' \in [users : 1..Cardinality(Reader),
                                               highWater : 0..MaxSeq, deleted : BOOLEAN]
                             /\ readers'.users = readers.users,
           recent' # <<>> => readers' # None /\ ~readers'.deleted /\ Fits(recent')
    PROVE  IInv'
<1>0. flight' = flight \/ /\ flight # None /\ flight' # None /\ flight.at = "read"
                          /\ flight' \in [at : {"reading", "read", "done"},
                                          begin : 0..MaxSeq, page : Seq(1..MaxSeq)]
                          /\ flight'.begin = flight.begin /\ flight'.page = flight.page
  BY FinishedFacts
<1>1. TypeOK'
  BY <1>0 DEF IInv, TypeOK, IsRun
<1>2. RunsAreRight'
  <2>1. (IsRun(recent) /\ Within(recent))' /\ (unpublished # None => unpublished <= committed)'
    BY DEF IInv, RunsAreRight, IsRun, Within
  <2>2. (flight # None /\ flight.at # "reading" => ReadFrom(flight.page, flight.begin))'
    BY <1>0 DEF IInv, RunsAreRight, ReadFrom, IsRun, Within
  <2>3. ASSUME NEW s \in Reader
        PROVE  /\ reader'[s].at = "resumed" => ReadFrom(reader[s].page, reader[s].begin)'
               /\ reader'[s].at = "yield" => reader'[s].page # <<>>
                                             /\ ReadFrom(reader[s].page, reader[s].cursor)'
    BY DEF IInv, RunsAreRight, ReadFrom, IsRun, Within
  <2> QED
    BY <2>1, <2>2, <2>3 DEF RunsAreRight
<1>3. CacheIsNeeded'
  BY DEF CacheIsNeeded
<1>4. ReadersAreCounted'
  <2>1. flight' = None <=> flight = None
    BY <1>0
  <2>2. readers = None => recent' = <<>>
    OBVIOUS
  <2> QED
    BY <2>1, <2>2 DEF IInv, ReadersAreCounted
<1> QED
  BY <1>1, <1>2, <1>3, <1>4 DEF IInv

LEMMA AdvancedFacts ==
    ASSUME IInv, NEW seq \in 0..MaxSeq
    PROVE  /\ Advanced(readers, seq) = None <=> readers = None
           /\ readers # None =>
                 /\ Advanced(readers, seq) \in [users : 1..Cardinality(Reader),
                                                highWater : 0..MaxSeq, deleted : BOOLEAN]
                 /\ Advanced(readers, seq).users = readers.users
                 /\ Advanced(readers, seq).deleted = readers.deleted
<1>1. CASE ~(readers # None /\ readers.highWater < seq)
  BY <1>1 DEF Advanced, IInv, TypeOK
<1>2. CASE readers # None /\ readers.highWater < seq
  <2> DEFINE e == [readers EXCEPT !.highWater = seq]
  <2>1. readers \in [users : 1..Cardinality(Reader), highWater : 0..MaxSeq, deleted : BOOLEAN]
    BY <1>2 DEF IInv, TypeOK
  <2>2. Advanced(readers, seq) = e
    BY <1>2 DEF Advanced
  <2>3. e \in [users : 1..Cardinality(Reader), highWater : 0..MaxSeq, deleted : BOOLEAN]
    BY <2>1, Zenon
  <2>4. e.users = readers.users /\ e.deleted = readers.deleted
    BY <2>1, Zenon
  <2>5. \A x \in [users : 1..Cardinality(Reader), highWater : 0..MaxSeq, deleted : BOOLEAN] : x # None
    <3>1. 1..Cardinality(Reader) \subseteq Nat /\ 0..MaxSeq \subseteq Nat
      BY ActiveFacts, PagesAssumption
    <3>2. None \notin [users : Nat, highWater : Nat, deleted : BOOLEAN]
      BY PagesAssumption
    <3> QED
      BY <3>1, <3>2, Zenon
  <2> HIDE DEF e
  <2> QED
    BY <1>2, <2>2, <2>3, <2>4, <2>5, Zenon
<1> QED
  BY <1>1, <1>2

LEMMA PublishStep ==
    ASSUME IInv, NEW items, IsRun(items), Within(items), Publish(items),
           UNCHANGED <<committed, deleted, reader, closed>>,
           flight' = flight \/ FlightFinishes,
           unpublished' \in {unpublished, None}
    PROVE  IInv'
<1>1. IsRun(recent) /\ Within(recent)
  BY DEF IInv, RunsAreRight
<1>2. CASE Publishes(items)
  <2> DEFINE j == Joined(recent, items)
             d == Advanced(readers, Last(items))
  <2>1. items # <<>> /\ readers # None /\ ~readers.deleted
    BY <1>2 DEF Publishes
  <2>2. IsRun(j) /\ Within(j)
    BY <1>1, <2>1, JoinedRun
  <2> HIDE DEF j
  <2>3. /\ IsRun(Trimmed(j))
        /\ Trimmed(j) # <<>> => /\ Fits(Trimmed(j)) /\ j # <<>>
                                /\ Trimmed(j)[Len(Trimmed(j))] = j[Len(j)]
    BY <2>2, TrimmedRun
  <2>4. Within(Trimmed(j))
    BY <2>2, <2>3 DEF Within
  <2>5. recent' = Trimmed(j) /\ readers' = d
    BY <1>2 DEF Publish, j
  <2>6. Last(items) \in 0..MaxSeq
    BY <2>1, RunFacts, PagesAssumption
  <2>7. /\ d # None /\ d.users = readers.users /\ d.deleted = readers.deleted
        /\ d \in [users : 1..Cardinality(Reader), highWater : 0..MaxSeq, deleted : BOOLEAN]
    BY <2>1, <2>6, AdvancedFacts
  <2> HIDE DEF d
  <2>8. recent' # <<>> => readers' # None /\ ~readers'.deleted /\ Fits(recent')
    BY <2>1, <2>3, <2>5, <2>7
  <2>9. IsRun(recent') /\ Within(recent')
    BY <2>3, <2>4, <2>5 DEF IsRun, Within
  <2> QED
    BY <2>1, <2>5, <2>7, <2>8, <2>9, CacheStep
<1>3. CASE ~Publishes(items)
  <2>1. recent' = recent /\ readers' = readers
    BY <1>3 DEF Publish
  <2>2. readers # None => readers \in [users : 1..Cardinality(Reader),
                                       highWater : 0..MaxSeq, deleted : BOOLEAN]
    BY DEF IInv, TypeOK
  <2>3. recent # <<>> => readers # None /\ ~readers.deleted /\ Fits(recent)
    BY DEF IInv, CacheIsNeeded
  <2> QED
    BY <1>1, <2>1, <2>2, <2>3, CacheStep
<1> QED
  BY <1>2, <1>3

LEMMA PublishLocalIInv ==
    ASSUME IInv, PublishLocal PROVE IInv'
<1>1. unpublished \in 1..MaxSeq /\ unpublished <= committed
  BY DEF PublishLocal, IInv, TypeOK, RunsAreRight
<1> DEFINE items == <<unpublished>>
<1>2. items \in Seq(1..MaxSeq) /\ Len(items) = 1 /\ items[1] = unpublished
  BY <1>1
<1> HIDE DEF items
<1>3. unpublished = unpublished + 1 - 1
  BY <1>1
<1>4. IsRun(items) /\ Within(items)
  BY <1>1, <1>2, <1>3 DEF IsRun, Within
<1>5. /\ Publish(items) /\ unpublished' \in {unpublished, None}
      /\ UNCHANGED <<committed, deleted, flight, reader, closed>>
  BY DEF PublishLocal, items
<1> QED
  BY <1>4, <1>5, PublishStep

LEMMA EvictIInv ==
    ASSUME IInv, Evict PROVE IInv'
<1>1. readers # None => readers \in [users : 1..Cardinality(Reader),
                                     highWater : 0..MaxSeq, deleted : BOOLEAN]
  BY DEF IInv, TypeOK
<1>2. IsRun(recent') /\ Within(recent') /\ recent' = <<>>
  BY EmptySeq DEF Evict, IsRun, Within
<1> QED
  BY <1>1, <1>2, CacheStep DEF Evict, database

LEMMA AdvanceIInv ==
    ASSUME IInv, Advance PROVE IInv'
<1>1. PICK seq \in 1..committed : readers' = Advanced(readers, seq)
  BY DEF Advance
<1>2. seq \in 0..MaxSeq
  BY PagesAssumption DEF IInv, TypeOK
<1>3. readers # None /\ UNCHANGED <<committed, deleted, unpublished, recent, flight, reader, closed>>
  BY DEF Advance, database
<1>4. /\ readers' # None /\ readers'.users = readers.users /\ readers'.deleted = readers.deleted
      /\ readers' \in [users : 1..Cardinality(Reader), highWater : 0..MaxSeq, deleted : BOOLEAN]
  BY <1>1, <1>2, <1>3, AdvancedFacts
<1>5. /\ recent # <<>> => readers # None /\ ~readers.deleted /\ Fits(recent)
      /\ IsRun(recent) /\ Within(recent)
  BY DEF IInv, CacheIsNeeded, RunsAreRight
<1> QED
  BY <1>3, <1>4, <1>5, CacheStep

LEMMA InvalidateIInv ==
    ASSUME IInv, Invalidate PROVE IInv'
<1> DEFINE e == [readers EXCEPT !.deleted = TRUE]
<1>1. /\ readers \in [users : 1..Cardinality(Reader), highWater : 0..MaxSeq, deleted : BOOLEAN]
      /\ readers # None
  BY DEF IInv, TypeOK, Invalidate
<1>2. e \in [users : 1..Cardinality(Reader), highWater : 0..MaxSeq, deleted : BOOLEAN]
      /\ e.users = readers.users
  BY <1>1, Zenon
<1>3. e # None
  <2>1. 1..Cardinality(Reader) \subseteq Nat /\ 0..MaxSeq \subseteq Nat
    BY ActiveFacts, PagesAssumption
  <2>2. None \notin [users : Nat, highWater : Nat, deleted : BOOLEAN]
    BY PagesAssumption
  <2>3. e \in [users : Nat, highWater : Nat, deleted : BOOLEAN]
    BY <1>1, <2>1, Zenon
  <2> QED
    BY <2>2, <2>3
<1>4. readers' = e /\ recent' = <<>> /\ UNCHANGED <<committed, deleted, unpublished, flight, reader, closed>>
  BY DEF Invalidate, database
<1>5. IsRun(<<>>) /\ Within(<<>>)
  BY EmptySeq DEF IsRun, Within
<1> HIDE DEF e
<1> QED
  BY <1>1, <1>2, <1>3, <1>4, <1>5, CacheStep

----------------------------------------------------------------------------
(* The steps of the fetch *)

LEMMA FlightReadIInv ==
    ASSUME IInv, FlightRead PROVE IInv'
<1> DEFINE q == Rows(flight.begin, PageLimit)
<1>1. /\ flight \in [at : {"reading", "read", "done"}, begin : 0..MaxSeq, page : Seq(1..MaxSeq)]
      /\ flight # None /\ flight.begin \in 0..MaxSeq
  BY DEF FlightRead, IInv, TypeOK
<1>2. ReadFrom(q, flight.begin)
  BY <1>1, RowsAreRead, PagesAssumption DEF IInv
<1>3. flight' = [flight EXCEPT !.at = "read", !.page = q]
  BY DEF FlightRead
<1>4. UNCHANGED <<committed, deleted, unpublished, recent, readers, reader, closed>>
  BY DEF FlightRead, database
<1> HIDE DEF q
<1>5. q \in Seq(1..MaxSeq)
  BY <1>2 DEF ReadFrom, IsRun
<1>6. /\ flight' \in [at : {"reading", "read", "done"}, begin : 0..MaxSeq, page : Seq(1..MaxSeq)]
      /\ flight'.page = q /\ flight'.begin = flight.begin
  BY <1>1, <1>3, <1>5
<1>7. flight' # None
  BY <1>6, FlightsAreNotNone
<1>8. TypeOK'
  BY <1>4, <1>6 DEF IInv, TypeOK
<1>9. RunsAreRight'
  BY <1>2, <1>4, <1>6 DEF IInv, RunsAreRight, ReadFrom, IsRun, Within
<1>10. CacheIsNeeded' /\ ReadersAreCounted'
  BY <1>1, <1>4, <1>7 DEF IInv, CacheIsNeeded, ReadersAreCounted
<1> QED
  BY <1>4, <1>8, <1>9, <1>10 DEF IInv

LEMMA FlightDoneIInv ==
    ASSUME IInv, FlightDone PROVE IInv'
<1>1. IsRun(flight.page) /\ Within(flight.page)
  BY DEF FlightDone, IInv, RunsAreRight, ReadFrom
<1>2. /\ Publish(flight.page) /\ FlightFinishes /\ unpublished' \in {unpublished, None}
      /\ UNCHANGED <<committed, deleted, reader, closed>>
  BY DEF FlightDone, FlightFinishes, database
<1> QED
  BY <1>1, <1>2, PublishStep

\* The fetch is gone and the readers that awaited it go on.
LEMMA WokenStep ==
    ASSUME IInv, UNCHANGED <<database, closed>>, flight' = None,
           reader' \in [Reader -> ReaderState],
           \A s \in Reader :
              /\ reader[s].at # "waiting" => reader'[s] = reader[s]
              /\ reader[s].at = "waiting" =>
                    /\ reader'[s].at \in {"idle", "raised", "resumed"}
                    /\ reader'[s].at = "resumed" => ReadFrom(reader'[s].page, reader'[s].begin),
           UNCHANGED <<recent, readers>>
    PROVE  IInv'
<1>1. TypeOK'
  BY DEF IInv, TypeOK, database
<1>2. RunsAreRight'
  BY DEF IInv, RunsAreRight, ReadFrom, IsRun, Within, database
<1>3. CacheIsNeeded'
  BY DEF IInv, CacheIsNeeded
<1>4. ReadersAreCounted'
  <2>1. {s \in Reader : reader'[s].at # "off"} = {s \in Reader : reader[s].at # "off"}
    OBVIOUS
  <2>2. ~\E s \in Reader : reader'[s].at = "waiting"
    OBVIOUS
  <2> QED
    BY <2>1, <2>2 DEF IInv, ReadersAreCounted
<1> QED
  BY <1>1, <1>2, <1>3, <1>4 DEF IInv

LEMMA FlightForgottenIInv ==
    ASSUME IInv, FlightForgotten PROVE IInv'
<1>1. /\ flight \in [at : {"reading", "read", "done"}, begin : 0..MaxSeq, page : Seq(1..MaxSeq)]
      /\ flight.begin \in 0..MaxSeq /\ flight.page \in Seq(1..MaxSeq)
      /\ ReadFrom(flight.page, flight.begin)
  BY DEF FlightForgotten, IInv, TypeOK, RunsAreRight
<1>2. reader \in [Reader -> ReaderState]
  BY DEF IInv, TypeOK
<1>3. reader' = [s \in Reader |-> IF reader[s].at = "waiting"
                                  THEN [reader[s] EXCEPT !.at = "resumed", !.begin = flight.begin,
                                                         !.page = flight.page]
                                  ELSE reader[s]]
  BY DEF FlightForgotten, Woken
<1>4. ASSUME NEW s \in Reader
      PROVE  /\ reader'[s] \in ReaderState
             /\ reader[s].at # "waiting" => reader'[s] = reader[s]
             /\ reader[s].at = "waiting" =>
                   reader'[s].at = "resumed" /\ ReadFrom(reader'[s].page, reader'[s].begin)
  BY <1>1, <1>2, <1>3 DEF ReaderState, At
<1>5. reader' \in [Reader -> ReaderState]
  BY <1>3, <1>4
<1>6. UNCHANGED <<database, closed, recent, readers>> /\ flight' = None
  BY DEF FlightForgotten
<1> QED
  BY <1>4, <1>5, <1>6, WokenStep

LEMMA FlightFailsIInv ==
    ASSUME IInv, FlightFails PROVE IInv'
<1>1. reader \in [Reader -> ReaderState]
  BY DEF IInv, TypeOK
<1>2. reader' = [s \in Reader |-> IF reader[s].at = "waiting"
                                  THEN [reader[s] EXCEPT !.at = "raised"] ELSE reader[s]]
  BY DEF FlightFails, Woken
<1>3. ASSUME NEW s \in Reader
      PROVE  /\ reader'[s] \in ReaderState
             /\ reader[s].at # "waiting" => reader'[s] = reader[s]
             /\ reader[s].at = "waiting" => reader'[s].at = "raised"
  BY <1>1, <1>2 DEF ReaderState, At
<1>4. reader' \in [Reader -> ReaderState]
  BY <1>2, <1>3
<1>5. UNCHANGED <<database, closed, recent, readers>> /\ flight' = None
  BY DEF FlightFails
<1> QED
  BY <1>3, <1>4, <1>5, WokenStep

----------------------------------------------------------------------------
(* Readers come and leave *)

LEMMA NoReaderFacts ==
    NoReader \in ReaderState /\ NoReader.at = "off"
<1>1. <<>> \in Seq(1..MaxSeq) /\ 0 \in 0..MaxSeq
  BY EmptySeq, PagesAssumption
<1> QED
  BY <1>1 DEF NoReader, ReaderState, At

LEMMA RetainIInv ==
    ASSUME IInv, NEW s \in Reader, NEW after \in 0..MaxSeq, Retain(s, after) PROVE IInv'
<1> DEFINE r == [NoReader EXCEPT !.at = "idle", !.cursor = after]
<1>1. r \in ReaderState /\ r.at = "idle"
  BY NoReaderFacts DEF ReaderState, At, NoReader
<1>2. /\ reader[s].at = "off" /\ ~closed /\ reader' = [reader EXCEPT ![s] = r]
      /\ UNCHANGED <<committed, deleted, unpublished, recent, flight, closed>>
      /\ reader \in [Reader -> ReaderState]
  BY DEF Retain, database, IInv, TypeOK
<1> HIDE DEF r
<1>3. /\ reader' \in [Reader -> ReaderState] /\ reader'[s] = r
      /\ \A t \in Reader \ {s} : reader'[t] = reader[t]
  BY <1>1, <1>2
<1>4. {t \in Reader : reader'[t].at # "off"} = Active \cup {s} /\ s \notin Active
  BY <1>1, <1>2, <1>3 DEF Active
<1>5. /\ IsFiniteSet(Active) /\ Cardinality(Active) \in Nat
      /\ Cardinality(Active \cup {s}) = Cardinality(Active) + 1
  BY <1>4, ActiveFacts, FS_AddElement
<1>6. Cardinality(Active \cup {s}) <= Cardinality(Reader) /\ Cardinality(Reader) \in Nat
  <2>1. Active \cup {s} \in SUBSET Reader /\ IsFiniteSet(Reader)
    BY PagesAssumption DEF Active
  <2> QED
    BY <2>1, FS_Subset, FS_CardinalityType
<1>7. (IF readers = None THEN 0 ELSE readers.users) = Cardinality(Active)
  BY <1>2 DEF IInv, ReadersAreCounted, Active
<1>8. /\ readers' \in [users : 1..Cardinality(Reader), highWater : 0..MaxSeq, deleted : BOOLEAN]
      /\ readers' # None /\ readers'.users = Cardinality(Active) + 1
      /\ readers # None => readers'.deleted = readers.deleted
  <2>0. \A x \in [users : 1..Cardinality(Reader), highWater : 0..MaxSeq, deleted : BOOLEAN] : x # None
    <3>1. 1..Cardinality(Reader) \subseteq Nat /\ 0..MaxSeq \subseteq Nat
      BY <1>6, PagesAssumption
    <3>2. None \notin [users : Nat, highWater : Nat, deleted : BOOLEAN]
      BY PagesAssumption
    <3> QED
      BY <3>1, <3>2, Zenon
  <2>1. CASE readers = None
    <3>1. readers' = [users |-> 1, highWater |-> 0, deleted |-> FALSE]
      BY <2>1 DEF Retain
    <3>2. 1 \in 1..Cardinality(Reader) /\ 0 \in 0..MaxSeq /\ 1 = Cardinality(Active) + 1
      BY <1>5, <1>6, <1>7, <2>1, PagesAssumption
    <3>3. readers' \in [users : 1..Cardinality(Reader), highWater : 0..MaxSeq, deleted : BOOLEAN]
          /\ readers'.users = 1
      BY <3>1, <3>2
    <3> QED
      BY <2>0, <2>1, <3>2, <3>3
  <2>2. CASE readers # None
    <3>1. readers' = [readers EXCEPT !.users = readers.users + 1]
      BY <2>2 DEF Retain
    <3>2. readers \in [users : 1..Cardinality(Reader), highWater : 0..MaxSeq, deleted : BOOLEAN]
      BY <2>2 DEF IInv, TypeOK
    <3>3. readers.users + 1 \in 1..Cardinality(Reader) /\ readers.users + 1 = Cardinality(Active) + 1
      BY <1>5, <1>6, <1>7, <2>2
    <3>4. /\ readers' \in [users : 1..Cardinality(Reader), highWater : 0..MaxSeq, deleted : BOOLEAN]
          /\ readers'.users = readers.users + 1 /\ readers'.deleted = readers.deleted
      BY <3>1, <3>2, <3>3, Zenon
    <3> QED
      BY <2>0, <3>3, <3>4
  <2> QED
    BY <2>1, <2>2
<1>9. TypeOK'
  BY <1>2, <1>3, <1>8 DEF IInv, TypeOK
<1>10. RunsAreRight'
  BY <1>1, <1>2, <1>3 DEF IInv, RunsAreRight, ReadFrom, IsRun, Within
<1>11. CacheIsNeeded'
  BY <1>2, <1>8 DEF IInv, CacheIsNeeded
<1>12. ReadersAreCounted'
  <2>1. (\E t \in Reader : reader'[t].at = "waiting") => flight' # None
    BY <1>1, <1>2, <1>3 DEF IInv, ReadersAreCounted
  <2> QED
    BY <1>4, <1>5, <1>8, <2>1 DEF ReadersAreCounted
<1> QED
  BY <1>2, <1>9, <1>10, <1>11, <1>12 DEF IInv

LEMMA StopIInv ==
    ASSUME IInv, NEW s \in Reader, Stop(s) PROVE IInv'
<1>1. /\ reader[s].at # "off" /\ reader' = [reader EXCEPT ![s] = NoReader]
      /\ UNCHANGED <<committed, deleted, unpublished, closed>>
      /\ reader \in [Reader -> ReaderState]
  BY DEF Stop, Release, database, IInv, TypeOK
<1>2. /\ reader' \in [Reader -> ReaderState] /\ reader'[s].at = "off"
      /\ \A t \in Reader \ {s} : reader'[t] = reader[t]
  BY <1>1, NoReaderFacts
<1>3. {t \in Reader : reader'[t].at # "off"} = Active \ {s} /\ s \in Active
  BY <1>1, <1>2 DEF Active
<1>4. /\ IsFiniteSet(Active) /\ Cardinality(Active) \in Nat
      /\ IsFiniteSet(Active \ {s}) /\ Cardinality(Active \ {s}) = Cardinality(Active) - 1
  BY <1>3, ActiveFacts, FS_RemoveElement
<1>5. IsRun(<<>>) /\ Within(<<>>)
  BY EmptySeq DEF IsRun, Within
<1>6. ASSUME NEW t \in Reader
      PROVE  /\ reader'[t].at = "resumed" => ReadFrom(reader'[t].page, reader'[t].begin)
             /\ reader'[t].at = "yield" => reader'[t].page # <<>>
                                           /\ ReadFrom(reader'[t].page, reader'[t].cursor)
  BY <1>2 DEF IInv, RunsAreRight
<1>7. CASE LastUser(readers)
  <2>1. readers # None /\ readers.users = 1
    BY <1>7 DEF LastUser
  <2>2. recent' = <<>> /\ flight' = None /\ readers' = None
    BY <1>7, <2>1 DEF Stop, Release, Leaves
  <2>3. ~closed
    BY <2>1 DEF IInv
  <2>4. Cardinality(Active) = 1
    BY <2>1, <2>3 DEF IInv, ReadersAreCounted, Active
  <2>5. Cardinality(Active \ {s}) = 0 /\ Active \ {s} = {}
    BY <1>4, <2>4, FS_EmptySet
  <2>6. TypeOK'
    BY <1>1, <1>2, <2>2, EmptySeq DEF IInv, TypeOK
  <2>7. RunsAreRight'
    BY <1>1, <1>5, <1>6, <2>2 DEF IInv, RunsAreRight, ReadFrom, IsRun, Within
  <2>8. CacheIsNeeded'
    BY <2>2 DEF CacheIsNeeded
  <2>9. ReadersAreCounted'
    <3>1. ~\E t \in Reader : reader'[t].at = "waiting"
      BY <1>3, <2>5
    <3> QED
      BY <1>3, <2>2, <2>5, <3>1 DEF ReadersAreCounted
  <2> QED
    BY <2>2, <2>6, <2>7, <2>8, <2>9 DEF IInv
<1>8. CASE readers = None
  <2>1. recent' = recent /\ flight' = flight /\ readers' = None /\ recent = <<>> /\ flight = None
    BY <1>8 DEF Stop, Release, Leaves, LastUser, IInv, ReadersAreCounted
  <2>2. closed
    BY <1>1, <1>8, ReadersAreThere
  <2>3. TypeOK'
    BY <1>1, <1>2, <2>1 DEF IInv, TypeOK
  <2>4. RunsAreRight'
    BY <1>1, <1>6, <2>1 DEF IInv, RunsAreRight, ReadFrom, IsRun, Within
  <2>5. CacheIsNeeded'
    BY <2>1 DEF CacheIsNeeded
  <2>6. ReadersAreCounted'
    <3>1. ~\E t \in Reader : reader'[t].at = "waiting"
      BY <1>2, <2>1 DEF IInv, ReadersAreCounted
    <3> QED
      BY <1>1, <2>1, <2>2, <3>1 DEF ReadersAreCounted
  <2> QED
    BY <2>1, <2>3, <2>4, <2>5, <2>6 DEF IInv
<1>9. CASE readers # None /\ readers.users # 1
  <2> DEFINE e == [readers EXCEPT !.users = readers.users - 1]
  <2>1. recent' = recent /\ flight' = flight /\ readers' = e
    BY <1>9 DEF Stop, Release, Leaves, LastUser
  <2>2. readers \in [users : 1..Cardinality(Reader), highWater : 0..MaxSeq, deleted : BOOLEAN]
    BY <1>9 DEF IInv, TypeOK
  <2>3. readers.users \in 1..Cardinality(Reader) /\ Cardinality(Reader) \in Nat
    BY <2>2, ActiveFacts
  <2>4. readers.users - 1 \in 1..Cardinality(Reader)
    BY <1>9, <2>3
  <2>5. /\ e \in [users : 1..Cardinality(Reader), highWater : 0..MaxSeq, deleted : BOOLEAN]
        /\ e.users = readers.users - 1 /\ e.deleted = readers.deleted
    BY <2>2, <2>4, Zenon
  <2> HIDE DEF e
  <2>6. e # None
    <3>1. 1..Cardinality(Reader) \subseteq Nat /\ 0..MaxSeq \subseteq Nat
      BY <2>3, PagesAssumption
    <3>2. None \notin [users : Nat, highWater : Nat, deleted : BOOLEAN]
      BY PagesAssumption
    <3> QED
      BY <2>5, <3>1, <3>2, Zenon
  <2>7. ~closed /\ readers.users = Cardinality(Active)
    BY <1>9 DEF IInv, ReadersAreCounted, Active
  <2>8. TypeOK'
    BY <1>1, <1>2, <2>1, <2>5 DEF IInv, TypeOK
  <2>9. RunsAreRight'
    BY <1>1, <1>6, <2>1 DEF IInv, RunsAreRight, ReadFrom, IsRun, Within
  <2>10. CacheIsNeeded'
    BY <2>1, <2>5, <2>6 DEF IInv, CacheIsNeeded
  <2>11. ReadersAreCounted'
    <3>1. (\E t \in Reader : reader'[t].at = "waiting") => flight' # None
      BY <1>2, <2>1 DEF IInv, ReadersAreCounted
    <3>2. readers'.users = Cardinality({t \in Reader : reader'[t].at # "off"})
      BY <1>3, <1>4, <2>1, <2>5, <2>7
    <3> QED
      BY <2>1, <2>6, <3>1, <3>2 DEF ReadersAreCounted
  <2> QED
    BY <1>1, <2>7, <2>8, <2>9, <2>10, <2>11 DEF IInv
<1> QED
  BY <1>7, <1>8, <1>9 DEF LastUser

LEMMA CloseIInv ==
    ASSUME IInv, Close PROVE IInv'
<1>1. /\ closed' = TRUE /\ recent' = <<>> /\ readers' = None /\ flight' = None
      /\ UNCHANGED <<committed, deleted, unpublished>>
  BY DEF Close, database
<1>2. reader \in [Reader -> ReaderState]
  BY DEF IInv, TypeOK
<1>3. reader' = [s \in Reader |-> IF reader[s].at = "waiting" THEN Returned(reader[s], <<>>)
                                  ELSE reader[s]]
  BY DEF Close, Woken
<1>4. IsRun(<<>>) /\ Within(<<>>)
  BY EmptySeq DEF IsRun, Within
<1>5. ASSUME NEW s \in Reader
      PROVE  /\ reader'[s] \in ReaderState /\ reader'[s].at # "waiting"
             /\ reader'[s].at = "resumed" => ReadFrom(reader'[s].page, reader'[s].begin)
             /\ reader'[s].at = "yield" => reader'[s].page # <<>>
                                           /\ ReadFrom(reader'[s].page, reader'[s].cursor)
  <2>1. CASE reader[s].at # "waiting"
    BY <1>2, <1>3, <2>1 DEF IInv, RunsAreRight
  <2>2. CASE reader[s].at = "waiting"
    <3>1. reader'[s] = Returned(reader[s], <<>>)
      BY <1>3, <2>2
    <3>2. /\ Returned(reader[s], <<>>) \in ReaderState
          /\ Returned(reader[s], <<>>).at \in {"idle", "yield"}
          /\ Returned(reader[s], <<>>).at = "yield" =>
                /\ Returned(reader[s], <<>>).page # <<>>
                /\ ReadFrom(Returned(reader[s], <<>>).page, Returned(reader[s], <<>>).cursor)
      BY <1>2, <1>4, ReturnedFacts
    <3> QED
      BY <3>1, <3>2
  <2> QED
    BY <2>1, <2>2
<1>6. reader' \in [Reader -> ReaderState]
  BY <1>3, <1>5
<1>7. TypeOK'
  BY <1>1, <1>6, EmptySeq DEF IInv, TypeOK
<1>8. RunsAreRight'
  BY <1>1, <1>4, <1>5 DEF IInv, RunsAreRight, ReadFrom, IsRun, Within
<1>9. CacheIsNeeded' /\ ReadersAreCounted'
  BY <1>1, <1>5 DEF CacheIsNeeded, ReadersAreCounted
<1> QED
  BY <1>1, <1>7, <1>8, <1>9 DEF IInv

----------------------------------------------------------------------------
(* The theorems *)

LEMMA InitIInv == Init => IInv
<1> SUFFICES ASSUME Init PROVE IInv
  OBVIOUS
<1>1. <<>> \in Seq(1..MaxSeq) /\ Len(<<>>) = 0 /\ 0 \in 0..MaxSeq
  BY EmptySeq, PagesAssumption
<1>2. TypeOK
  BY <1>1, NoReaderFacts DEF Init, TypeOK
<1>3. RunsAreRight
  BY <1>1, NoReaderFacts DEF Init, RunsAreRight, IsRun, Within
<1>4. ReadersAreCounted
  <2>1. {s \in Reader : reader[s].at # "off"} = {}
    BY NoReaderFacts DEF Init
  <2> QED
    BY <2>1, NoReaderFacts, FS_EmptySet DEF Init, ReadersAreCounted
<1> QED
  BY <1>2, <1>3, <1>4 DEF Init, IInv, CacheIsNeeded

LEMMA NextIInv == IInv /\ [Next]_vars => IInv'
<1> SUFFICES ASSUME IInv, [Next]_vars PROVE IInv'
  OBVIOUS
<1>1. CASE UNCHANGED vars
  BY <1>1 DEF vars, IInv, TypeOK, RunsAreRight, ReadFrom, IsRun, Within, CacheIsNeeded, ReadersAreCounted
<1>2. committed \in 0..MaxSeq /\ MaxSeq \in Nat /\ deleted \in BOOLEAN
  BY PagesAssumption DEF IInv, TypeOK
<1>3. CASE AppendRemote
  <2>1. committed' \in 0..MaxSeq /\ committed <= committed'
    BY <1>2, <1>3 DEF AppendRemote
  <2> QED
    BY <1>2, <1>3, <2>1, AppendIInv DEF AppendRemote
<1>4. CASE Delete
  <2>1. committed' \in 0..MaxSeq /\ committed <= committed'
    BY <1>2, <1>4 DEF Delete
  <2> QED
    BY <1>4, <2>1, AppendIInv DEF Delete
<1>5. CASE AppendLocal
  <2>1. /\ committed' \in 0..MaxSeq /\ committed <= committed'
        /\ unpublished' \in 1..MaxSeq /\ unpublished' <= committed'
    BY <1>2, <1>5 DEF AppendLocal
  <2> QED
    BY <1>2, <1>5, <2>1, AppendIInv DEF AppendLocal
<1>6. CASE PublishLocal \/ Evict \/ Advance \/ Invalidate
  BY <1>6, PublishLocalIInv, EvictIInv, AdvanceIInv, InvalidateIInv
<1>7. CASE FlightRead \/ FlightDone \/ FlightForgotten \/ FlightFails
  BY <1>7, FlightReadIInv, FlightDoneIInv, FlightForgottenIInv, FlightFailsIInv
<1>8. CASE Close
  BY <1>8, CloseIInv
<1>9. ASSUME NEW s \in Reader, NEW after \in 0..MaxSeq, Retain(s, after) PROVE IInv'
  BY <1>9, RetainIInv
<1>10. ASSUME NEW s \in Reader, Stop(s) \/ Page(s) \/ DirectRead(s) \/ Resume(s) \/ Yield(s)
       PROVE  IInv'
  BY <1>10, StopIInv, PageIInv, DirectReadIInv, ResumeIInv, YieldIInv
<1> QED
  BY <1>1, <1>3, <1>4, <1>5, <1>6, <1>7, <1>8, <1>9, <1>10 DEF Next

\* The invariant that page, publish, retain, release, invalidate and close keep.
THEOREM PagesInvariant == Spec => []IInv
  BY InitIInv, NextIInv, PTL DEF Spec

\* The state of the page cache keeps its types (page, publish, retain, release,
\* invalidate and close).
THEOREM TypeCorrect == Spec => []TypeOK
<1>1. IInv => TypeOK
  BY DEF IInv
<1> QED
  BY <1>1, PagesInvariant, PTL

\* publish never leaves a gap in the cache, exceeds its limits, or caches what is
\* not committed or not wanted, whatever feeds it in whatever order.
THEOREM CacheStaysSound == Spec => []CacheIsSound
<1>1. IInv => CacheIsSound
  <2> SUFFICES ASSUME IInv PROVE CacheIsSound
    OBVIOUS
  <2>1. IsRun(recent) /\ Within(recent)
    BY DEF IInv, RunsAreRight
  <2>2. /\ Len(recent) \in Nat /\ \A i \in 1 .. Len(recent) : recent[i] = recent[1] + i - 1
        /\ recent # <<>> => recent[1] \in 1..MaxSeq /\ Last(recent) = recent[Len(recent)]
        /\ recent # <<>> <=> Len(recent) # 0
    BY <2>1, RunFacts, EmptySeq
  <2>3. ASSUME NEW n \in 1 .. (Len(recent) - 1) PROVE recent[n + 1] = recent[n] + 1
    <3>1. n \in 1 .. Len(recent) /\ n + 1 \in 1 .. Len(recent) /\ recent # <<>>
      BY <2>2, <2>3
    <3>2. /\ recent[n] = recent[1] + n - 1 /\ recent[n + 1] = recent[1] + (n + 1) - 1
          /\ recent[1] \in 1..MaxSeq
      BY <2>2, <3>1
    <3> QED
      BY <2>2, <3>1, <3>2
  <2>4. recent # <<>> => Last(recent) <= committed /\ readers # None /\ ~readers.deleted /\ Fits(recent)
    BY <2>1, <2>2 DEF Within, IInv, CacheIsNeeded
  <2> QED
    BY <2>3, <2>4 DEF CacheIsSound
<1> QED
  BY <1>1, PagesInvariant, PTL

\* retain and release count the readers right, so the cache and the fetch go with
\* the last one and no reader awaits a fetch that is gone.
THEOREM CountsAreRight == Spec => []ReadersAreCounted
<1>1. IInv => ReadersAreCounted
  BY DEF IInv
<1> QED
  BY <1>1, PagesInvariant, PTL

\* The page cache is what its readers rely on, in every state.
THEOREM PagesStaySound == Spec => []PagesAreSound
  BY TypeCorrect, CacheStaysSound, CountsAreRight, PTL DEF PagesAreSound

\* Every stream hands out every event, in order and once, from whatever page.
THEOREM EveryStreamIsGapless == Spec => StreamsAreGapless
<1>1. IInv /\ [Next]_vars => GaplessStep
  <2> SUFFICES ASSUME IInv, [Next]_vars, NEW s \in Reader,
                      reader[s].at = "yield", reader'[s].at # "off", reader'[s] # reader[s]
               PROVE  reader'[s].cursor = reader[s].cursor + 1 /\ reader'[s].cursor <= committed
    BY DEF GaplessStep
  <2>1. reader \in [Reader -> ReaderState]
    BY DEF IInv, TypeOK
  <2>2. Yield(s)
    <3>1. CASE UNCHANGED reader
      BY <3>1
    <3>2. CASE FlightForgotten \/ FlightFails \/ Close
      BY <3>2 DEF FlightForgotten, FlightFails, Close, Woken
    <3>3. ASSUME NEW t \in Reader, NEW after \in 0..MaxSeq, Retain(t, after) PROVE FALSE
      BY <2>1, <3>3 DEF Retain
    <3>4. ASSUME NEW t \in Reader, Stop(t) PROVE FALSE
      BY <2>1, <3>4, NoReaderFacts DEF Stop, Release
    <3>5. ASSUME NEW t \in Reader, Page(t) PROVE FALSE
      BY <2>1, <3>5 DEF Page, PageLoop
    <3>6. ASSUME NEW t \in Reader, DirectRead(t) PROVE FALSE
      BY <2>1, <3>6 DEF DirectRead
    <3>7. ASSUME NEW t \in Reader, Resume(t) PROVE FALSE
      BY <2>1, <3>7 DEF Resume, PageLoop
    <3>8. ASSUME NEW t \in Reader, Yield(t), t # s PROVE FALSE
      BY <2>1, <3>8 DEF Yield
    <3>9. AppendRemote \/ Delete \/ AppendLocal \/ PublishLocal \/ Evict \/ Advance
             \/ FlightRead \/ FlightDone \/ Invalidate \/ UNCHANGED vars => UNCHANGED reader
      BY DEF AppendRemote, Delete, AppendLocal, PublishLocal, Evict, Advance, FlightRead,
             FlightDone, Invalidate, vars
    <3> QED
      BY <3>1, <3>2, <3>3, <3>4, <3>5, <3>6, <3>7, <3>8, <3>9 DEF Next
  <2>3. /\ reader[s].cursor \in Nat /\ reader[s].page # <<>> /\ committed \in Nat
        /\ ReadFrom(reader[s].page, reader[s].cursor)
    BY <2>1, PagesAssumption DEF IInv, TypeOK, ReaderState, RunsAreRight
  <2>4. Head(reader[s].page) = reader[s].cursor + 1 /\ Head(reader[s].page) <= committed
    BY <2>3, YieldFacts
  <2>5. reader'[s].cursor = Head(reader[s].page)
    BY <2>1, <2>2 DEF Yield, ReaderState
  <2> QED
    BY <2>4, <2>5
<1> QED
  BY <1>1, PagesInvariant, PTL DEF Spec, StreamsAreGapless

=============================================================================
