---------------------------- MODULE LeaseProofs ----------------------------
(***************************************************************************)
(* Root ownership is safe for any number of runtimes and any bounds: the   *)
(* safety properties of Lease are consequences of one inductive invariant, *)
(* and Lease implements FencedLog.                                         *)
(***************************************************************************)
EXTENDS Lease, TLAPS

\* What an open transaction has promised to its commit.
EndingsAreWritten ==
    txn # NoTxn => /\ txn.wrote \/ txn.ending = "keep"
                   /\ txn.ending = "delete" => generation < MaxGeneration

\* How the columns of the row depend on each other.
RowIsConsistent ==
    /\ ~enrolled => generation = 0 /\ owner = NoOne
    /\ owner # NoOne => generation > 0
    /\ owner = NoOne => ~valid
    /\ deleted => owner = NoOne /\ txn = NoTxn

\* A renewal under way holds the lock, and the row still names its owner and
\* generation, even if the lease has expired since its SELECT.
RenewalOwnsRoot ==
    renewing # NoTxn =>
        /\ txn = NoTxn
        /\ renewing = [by |-> owner, epoch |-> generation]

\* No token is ahead of the row, and a token of the current generation is the
\* current owner's.
TokensFollowRow ==
    \A i \in Instance : \A g \in tokens[i] :
        /\ g <= generation
        /\ g = generation /\ owner # NoOne => owner = i

\* No batch is ahead of the row, and a batch of the current generation is the
\* current owner's.
LogFollowsRow ==
    \A n \in 1..Len(log) :
        /\ log[n].epoch <= generation
        /\ log[n].epoch = generation /\ generation > 0 /\ owner # NoOne
              => log[n].by = owner

IInv ==
    /\ TypeOK
    /\ TransactionOwnsRoot
    /\ EndingsAreWritten
    /\ RenewalOwnsRoot
    /\ RowIsConsistent
    /\ TokensFollowRow
    /\ LogFollowsRow
    /\ CommitsAreFenced
    /\ TokensAreExclusive

----------------------------------------------------------------------------

\* An open transaction is one of the records of Txn.
LEMMA OpenTransaction ==
    ASSUME TypeOK, txn # NoTxn
    PROVE  txn \in Txn /\ txn.by \in Instance /\ txn.epoch \in 0..MaxGeneration
  BY DEF TypeOK, Txn

\* The entries of the log are batches.
LEMMA LogEntry ==
    ASSUME TypeOK
    PROVE  \A n \in 1..Len(log) :
              /\ log[n] \in Batch
              /\ log[n].epoch \in Nat
              /\ log[n].by \in Instance
  <1>1. log \in Seq(Batch)
    BY DEF TypeOK
  <1>2. \A n \in 1..Len(log) : log[n] \in Batch
    BY <1>1
  <1> QED
    BY <1>2, BoundAssumption DEF Batch

\* A lease can be presented to the fence only by the instance the row names,
\* so a fenced caller is the owner and the root is neither deleted nor
\* without a generation.
LEMMA FencedCaller ==
    ASSUME IInv, NEW i \in Instance, NEW g \in 1..MaxGeneration, Fenced(i, g)
    PROVE  owner = i /\ generation = g /\ enrolled /\ ~deleted
  BY InstanceAssumption DEF IInv, Fenced, RowIsConsistent, TypeOK

\* A root that was never enrolled satisfies the invariant.
LEMMA InitIInv == Init => IInv
  <1> SUFFICES ASSUME Init PROVE IInv
    OBVIOUS
  <1> USE DEF Init
  <1>1. TypeOK
    <2>1. generation \in 0..MaxGeneration /\ status \in Status
      BY BoundAssumption DEF Status
    <2>2. tokens \in [Instance -> SUBSET (1..MaxGeneration)]
      OBVIOUS
    <2>3. log \in Seq(Batch)
      OBVIOUS
    <2>4. /\ owner \in Instance \cup {NoOne} /\ txn \in Txn \cup {NoTxn}
          /\ renewing \in Renewal \cup {NoTxn}
      OBVIOUS
    <2>5. enrolled \in BOOLEAN /\ deleted \in BOOLEAN /\ valid \in BOOLEAN
      OBVIOUS
    <2>6. active \in BOOLEAN /\ open \in BOOLEAN
      OBVIOUS
    <2>7. up \in SUBSET Instance
      OBVIOUS
    <2> QED
      BY <2>1, <2>2, <2>3, <2>4, <2>5, <2>6, <2>7 DEF TypeOK
  <1>2. TransactionOwnsRoot /\ EndingsAreWritten /\ RenewalOwnsRoot /\ RowIsConsistent
    BY DEF TransactionOwnsRoot, EndingsAreWritten, RenewalOwnsRoot, RowIsConsistent
  <1>3. TokensFollowRow /\ TokensAreExclusive
    BY DEF TokensFollowRow, TokensAreExclusive
  <1>4. Len(log) = 0
    OBVIOUS
  <1>5. LogFollowsRow /\ CommitsAreFenced
    BY <1>4 DEF LogFollowsRow, CommitsAreFenced
  <1> QED
    BY <1>1, <1>2, <1>3, <1>5 DEF IInv

\* Acquire starts a generation that no token and no batch mentions yet.
LEMMA AcquireIInv ==
    ASSUME IInv, NEW i \in Instance, Acquire(i)
    PROVE  IInv'
  <1> USE InstanceAssumption, BoundAssumption
          DEF IInv, Acquire, Acquirable, NextGeneration, Returning,
              AdvisoryLockFree
  <1>1. generation' = generation + 1 /\ generation' \in 1..MaxGeneration
    BY DEF TypeOK
  <1>2. tokens' \in [Instance -> SUBSET (1..MaxGeneration)]
    BY <1>1 DEF TypeOK
  <1>3. TypeOK'
    <2>1. /\ generation' \in 0..MaxGeneration
          /\ owner' \in Instance \cup {NoOne}
      BY <1>1 DEF TypeOK
    <2>2. enrolled' \in BOOLEAN /\ valid' \in BOOLEAN /\ active' \in BOOLEAN
      OBVIOUS
    <2> QED
      BY <1>2, <2>1, <2>2 DEF TypeOK
  <1>4. /\ TransactionOwnsRoot' /\ EndingsAreWritten' /\ RenewalOwnsRoot'
        /\ RowIsConsistent'
    BY <1>1 DEF TransactionOwnsRoot, EndingsAreWritten, RenewalOwnsRoot,
                RowIsConsistent, TypeOK
  <1>5. \A j \in Instance : \A g \in tokens'[j] :
            g \in tokens[j] \/ (j = i /\ g = generation + 1)
    BY DEF TypeOK
  <1>6. TokensFollowRow'
    BY <1>1, <1>5 DEF TokensFollowRow, TypeOK
  <1>7. TokensAreExclusive'
    <2> SUFFICES ASSUME NEW j \in Instance, NEW k \in Instance, j # k,
                        NEW g \in tokens'[j], g \in tokens'[k]
                 PROVE  FALSE
      BY DEF TokensAreExclusive
    <2>1. g \in tokens[j] => g <= generation
      BY DEF TokensFollowRow, TypeOK
    <2>2. g \in tokens[k] => g <= generation
      BY DEF TokensFollowRow, TypeOK
    <2>3. ~(g \in tokens[j] /\ g \in tokens[k])
      BY DEF TokensAreExclusive
    <2> QED
      BY <1>5, <2>1, <2>2, <2>3 DEF TypeOK
  <1>8. LogFollowsRow' /\ CommitsAreFenced'
    <2>1. \A n \in 1..Len(log) : log[n].epoch \in Nat /\ log[n].epoch <= generation
      BY LogEntry DEF LogFollowsRow
    <2>2. generation \in Nat /\ log' = log
      BY DEF TypeOK
    <2>3. LogFollowsRow'
      BY <1>1, <2>1, <2>2 DEF LogFollowsRow
    <2>4. CommitsAreFenced'
      BY <2>2 DEF CommitsAreFenced
    <2> QED
      BY <2>3, <2>4
  <1> QED
    BY <1>3, <1>4, <1>6, <1>7, <1>8

\* Repeating the answer hands the current generation to its owner only.
LEMMA AcquireAgainIInv ==
    ASSUME IInv, NEW i \in Instance, AcquireAgain(i)
    PROVE  IInv'
  <1> USE InstanceAssumption, BoundAssumption
          DEF IInv, AcquireAgain, AdvisoryLockFree, row, work
  <1>1. generation \in 1..MaxGeneration
    BY DEF RowIsConsistent, TypeOK
  <1>2. \A j \in Instance : \A g \in tokens'[j] :
            g \in tokens[j] \/ (j = i /\ g = generation)
    BY DEF TypeOK
  <1>3. TypeOK'
    BY <1>1 DEF TypeOK
  <1>4. /\ TransactionOwnsRoot' /\ EndingsAreWritten' /\ RenewalOwnsRoot'
        /\ RowIsConsistent' /\ LogFollowsRow' /\ CommitsAreFenced'
    BY DEF TransactionOwnsRoot, EndingsAreWritten, RenewalOwnsRoot,
           RowIsConsistent, LogFollowsRow, CommitsAreFenced
  <1>5. TokensFollowRow'
    BY <1>1, <1>2 DEF TokensFollowRow, TypeOK
  <1>6. TokensAreExclusive'
    <2> SUFFICES ASSUME NEW j \in Instance, NEW k \in Instance, j # k,
                        NEW g \in tokens'[j], g \in tokens'[k]
                 PROVE  FALSE
      BY DEF TokensAreExclusive
    <2>1. ~(g \in tokens[j] /\ g \in tokens[k])
      BY DEF TokensAreExclusive
    <2>2. \A l \in Instance : generation \in tokens[l] => l = i
      BY DEF TokensFollowRow
    <2> QED
      BY <1>2, <2>1, <2>2
  <1> QED
    BY <1>3, <1>4, <1>5, <1>6

\* A step that writes neither the log nor a token, and at most clears the
\* owner, cannot disturb the histories.
LEMMA HistoriesKept ==
    ASSUME IInv, UNCHANGED <<log, tokens, generation>>, owner' \in {owner, NoOne}
    PROVE  /\ TokensFollowRow' /\ TokensAreExclusive'
           /\ LogFollowsRow' /\ CommitsAreFenced'
  BY DEF IInv, TokensFollowRow, TokensAreExclusive, LogFollowsRow,
         CommitsAreFenced

\* Control steps and the environment: the row may lose its owner or its
\* validity, or have an owner's lease extended, and no transaction is opened.
LEMMA ControlIInv ==
    ASSUME IInv,
           UNCHANGED <<enrolled, deleted, generation, status, tokens, log>>,
           \/ owner' = owner /\ valid' \in {valid, FALSE}
           \/ owner' = owner /\ valid' = TRUE /\ owner # NoOne
           \/ owner' = NoOne /\ valid' = FALSE /\ AdvisoryLockFree,
           active' \in BOOLEAN, open' \in BOOLEAN, up' \in SUBSET Instance,
           txn' \in {txn, NoTxn}, renewing' \in {renewing, NoTxn}
    PROVE  IInv'
  <1> USE DEF IInv, AdvisoryLockFree
  <1>1. TypeOK'
    <2>1. /\ owner' \in Instance \cup {NoOne}
          /\ txn' \in Txn \cup {NoTxn}
          /\ renewing' \in Renewal \cup {NoTxn}
      BY DEF TypeOK
    <2>2. valid' \in BOOLEAN
      BY DEF TypeOK
    <2> QED
      BY <2>1, <2>2 DEF TypeOK
  <1>2. TransactionOwnsRoot' /\ EndingsAreWritten'
    <2>1. CASE txn' = NoTxn
      BY <2>1 DEF TransactionOwnsRoot, EndingsAreWritten, NoTxn
    <2>2. CASE txn' # NoTxn
      <3>1. txn' = txn /\ owner' = owner
        BY <2>2
      <3> QED
        BY <2>2, <3>1 DEF TransactionOwnsRoot, EndingsAreWritten
    <2> QED
      BY <2>1, <2>2
  <1>3. RowIsConsistent'
    <2>1. owner' = NoOne => ~valid'
      <3>1. CASE owner' = owner /\ valid' = valid
        BY <3>1 DEF RowIsConsistent
      <3>2. CASE valid' = FALSE
        BY <3>2
      <3>3. CASE owner' = owner /\ owner # NoOne
        BY <3>3
      <3> QED
        BY <3>1, <3>2, <3>3
    <2>2. deleted' => owner' = NoOne /\ txn' = NoTxn
      BY DEF RowIsConsistent
    <2>3. owner' # NoOne => generation' > 0
      BY DEF RowIsConsistent
    <2>4. ~enrolled' => generation' = 0 /\ owner' = NoOne
      BY DEF RowIsConsistent
    <2> QED
      BY <2>1, <2>2, <2>3, <2>4 DEF RowIsConsistent
  <1>4. RenewalOwnsRoot'
    <2>1. CASE renewing' = NoTxn
      BY <2>1 DEF RenewalOwnsRoot, NoTxn
    <2>2. CASE renewing' # NoTxn
      <3>1. renewing' = renewing /\ owner' = owner /\ txn' = NoTxn
        BY <2>2 DEF RenewalOwnsRoot
      <3> QED
        BY <2>2, <3>1 DEF RenewalOwnsRoot
    <2> QED
      BY <2>1, <2>2
  <1> QED
    BY <1>1, <1>2, <1>3, <1>4, HistoriesKept

\* Opening a transaction, or buffering in it: only txn changes, and it keeps
\* naming the owner of the row.
LEMMA TransactionIInv ==
    ASSUME IInv,
           UNCHANGED <<row, work, tokens, up, log, renewing>>,
           renewing = NoTxn,
           txn' \in Txn, ~deleted,
           TransactionOwnsRoot', EndingsAreWritten'
    PROVE  IInv'
  <1> USE DEF IInv, row, work
  <1>1. TypeOK'
    BY DEF TypeOK
  <1>2. RowIsConsistent' /\ RenewalOwnsRoot'
    BY DEF RowIsConsistent, RenewalOwnsRoot
  <1> QED
    BY <1>1, <1>2, HistoriesKept

\* Nothing is being renewed while a data transaction is open.
LEMMA NoRenewalInside ==
    ASSUME IInv, txn # NoTxn
    PROVE  renewing = NoTxn
  BY DEF IInv, RenewalOwnsRoot

\* Commit: the batch carries the owner's generation because the transaction
\* still owns the root, whether or not the lease has expired.
LEMMA CommitIInv ==
    ASSUME IInv, NEW i \in Instance, Commit(i)
    PROVE  IInv'
  <1> USE InstanceAssumption, BoundAssumption DEF IInv, Commit
  <1> DEFINE batch == [by |-> i, epoch |-> txn.epoch]
  <1>1. /\ txn \in Txn /\ txn.by = i /\ txn.epoch \in 0..MaxGeneration
        /\ txn.ending \in {"keep", "relinquish", "delete"}
        /\ generation = txn.epoch /\ generation \in 0..MaxGeneration
        /\ txn.epoch > 0 => owner = i
        /\ txn.epoch = 0 => ~enrolled /\ owner = NoOne
        /\ ~deleted
    <2>1. txn \in Txn /\ txn.by = i /\ txn.epoch \in 0..MaxGeneration
      BY OpenTransaction
    <2>2. txn.ending \in {"keep", "relinquish", "delete"}
      BY <2>1 DEF Txn
    <2>3. generation = txn.epoch /\ (txn.epoch > 0 => owner = i)
      BY <2>1 DEF TransactionOwnsRoot
    <2>4. txn.epoch = 0 => ~enrolled
      BY <2>1 DEF TransactionOwnsRoot
    <2>5. ~enrolled => owner = NoOne
      BY DEF RowIsConsistent
    <2>6. ~deleted
      BY DEF RowIsConsistent
    <2> QED
      BY <2>1, <2>2, <2>3, <2>4, <2>5, <2>6 DEF TypeOK
  <1>2. generation' \in {generation, generation + 1} /\ generation' \in 0..MaxGeneration
    BY <1>1 DEF EndingsAreWritten
  <1>3. /\ owner' \in {owner, NoOne}
        /\ generation' # generation => owner' = NoOne
    BY <1>1
  <1>4. batch \in Batch
    BY <1>1 DEF Batch
  <1>5. log \in Seq(Batch) /\ log' \in Seq(Batch)
    BY <1>4 DEF TypeOK
  <1>6. TypeOK'
    <2>1. active' \in BOOLEAN /\ status' \in Status
      BY <1>1 DEF Txn
    <2>2. open' \in BOOLEAN /\ deleted' \in BOOLEAN
      OBVIOUS
    <2>3. valid' \in BOOLEAN
      BY <1>1 DEF TypeOK
    <2>4. owner' \in Instance \cup {NoOne}
      BY <1>3 DEF TypeOK
    <2> QED
      BY <1>2, <1>5, <2>1, <2>2, <2>3, <2>4 DEF TypeOK
  <1>7. TransactionOwnsRoot' /\ EndingsAreWritten' /\ RenewalOwnsRoot'
    BY NoRenewalInside DEF TransactionOwnsRoot, EndingsAreWritten, RenewalOwnsRoot
  <1>8. RowIsConsistent'
    <2>1. ~enrolled' => generation' = 0 /\ owner' = NoOne
      BY <1>1, <1>3 DEF RowIsConsistent
    <2>2. owner' # NoOne => generation' > 0
      BY <1>1, <1>2, <1>3 DEF RowIsConsistent
    <2>3. owner' = NoOne => ~valid'
      BY <1>1 DEF RowIsConsistent
    <2>4. deleted' => owner' = NoOne /\ txn' = NoTxn
      BY <1>1
    <2> QED
      BY <2>1, <2>2, <2>3, <2>4 DEF RowIsConsistent
  <1>9. TokensFollowRow' /\ TokensAreExclusive'
    <2>1. \A j \in Instance : \A g \in tokens[j] : g \in Nat /\ g <= generation
      BY DEF TokensFollowRow, TypeOK
    <2>2. TokensFollowRow'
      BY <1>1, <1>2, <1>3, <2>1 DEF TokensFollowRow
    <2>3. TokensAreExclusive'
      BY DEF TokensAreExclusive
    <2> QED
      BY <2>2, <2>3
  <1>10. LogFollowsRow' /\ CommitsAreFenced'
    <2>1. \A n \in 1..Len(log) :
             /\ log[n].epoch \in Nat
             /\ log[n].epoch <= generation
             /\ log[n].epoch = generation /\ generation > 0 => log[n].by = i
      BY <1>1, LogEntry DEF LogFollowsRow
    <2>2. CASE log' = log
      <3>1. LogFollowsRow'
        BY <1>1, <1>2, <1>3, <2>1, <2>2 DEF LogFollowsRow
      <3>2. CommitsAreFenced'
        BY <2>2 DEF CommitsAreFenced
      <3> QED
        BY <3>1, <3>2
    <2>3. CASE log' = Append(log, batch)
      <3>1. /\ Len(log') = Len(log) + 1 /\ Len(log) \in Nat
            /\ log'[Len(log) + 1] = batch
            /\ \A n \in 1..Len(log) : log'[n] = log[n]
        BY <1>4, <1>5, <2>3
      <3>2. batch.by = i /\ batch.epoch = generation
        BY <1>1
      <3>3. \A n \in 1..Len(log') : n \in 1..Len(log) \/ n = Len(log) + 1
        BY <3>1
      <3> HIDE DEF batch
      <3>4. LogFollowsRow'
        BY <1>1, <1>2, <1>3, <2>1, <3>1, <3>2, <3>3 DEF LogFollowsRow
      <3>5. CommitsAreFenced'
        BY <1>1, <2>1, <3>1, <3>2, <3>3 DEF CommitsAreFenced
      <3> QED
        BY <3>4, <3>5
    <2> QED
      BY <2>2, <2>3
  <1> QED
    BY <1>6, <1>7, <1>8, <1>9, <1>10

\* Every step keeps the invariant: one case per action.
LEMMA NextIInv == IInv /\ [Next]_vars => IInv'
  <1> SUFFICES ASSUME IInv, [Next]_vars PROVE IInv'
    OBVIOUS
  <1> USE DEF IInv
  <1>1. CASE PutRequest
    BY <1>1, ControlIInv DEF PutRequest, row, TypeOK
  <1>2. CASE Expire
    BY <1>2, ControlIInv DEF Expire, work, TypeOK
  <1>3. CASE Lapse
    BY <1>3, ControlIInv DEF Lapse, row, TypeOK
  <1>4. ASSUME NEW i \in Instance, Acquire(i) PROVE IInv'
    BY <1>4, AcquireIInv
  <1>5. ASSUME NEW i \in Instance, AcquireAgain(i) PROVE IInv'
    BY <1>5, AcquireAgainIInv
  <1>6. ASSUME NEW i \in Instance, BeginUnfenced(i) PROVE IInv'
    <2> USE <1>6 DEF BeginUnfenced
    <2>1. txn' \in Txn
      BY BoundAssumption DEF Txn, TypeOK
    <2>2. txn'.epoch = 0 /\ txn'.wrote = TRUE /\ txn'.ending = "keep"
      OBVIOUS
    <2>3. generation = 0 /\ ~deleted
      BY DEF RowIsConsistent
    <2>4. TransactionOwnsRoot' /\ EndingsAreWritten'
      BY <2>2, <2>3 DEF TransactionOwnsRoot, EndingsAreWritten, row
    <2>5. renewing = NoTxn
      BY DEF AdvisoryLockFree
    <2> QED
      BY <2>1, <2>3, <2>4, <2>5, TransactionIInv
  <1>7. ASSUME NEW i \in Instance, NEW a \in BOOLEAN, NEW o \in BOOLEAN,
               NEW s \in Status, Write(i, a, s, o)
        PROVE  IInv'
    <2> USE <1>7 DEF Write
    <2>1. txn \in Txn
      BY OpenTransaction
    <2>2. txn' \in Txn
      BY <2>1 DEF Txn
    <2>3. /\ txn'.epoch = txn.epoch /\ txn'.by = txn.by
          /\ txn'.wrote = TRUE /\ txn'.ending = "keep"
      BY <2>1 DEF Txn
    <2>4. TransactionOwnsRoot' /\ EndingsAreWritten'
      BY <2>3 DEF TransactionOwnsRoot, EndingsAreWritten, row
    <2>5. ~deleted
      BY DEF RowIsConsistent
    <2> QED
      BY <2>2, <2>4, <2>5, TransactionIInv, NoRenewalInside
  <1>8. ASSUME NEW i \in Instance, NEW how \in {"relinquish", "delete"},
               End(i, how)
        PROVE  IInv'
    <2> USE <1>8 DEF End
    <2>1. txn \in Txn
      BY OpenTransaction
    <2>2. txn' \in Txn
      BY <2>1 DEF Txn, Status
    <2>3. /\ txn'.epoch = txn.epoch /\ txn'.by = txn.by
          /\ txn'.wrote = TRUE /\ txn'.ending = how
          /\ how = "delete" => generation < MaxGeneration
      BY <2>1 DEF Txn
    <2>4. TransactionOwnsRoot' /\ EndingsAreWritten'
      BY <2>3 DEF TransactionOwnsRoot, EndingsAreWritten, row
    <2>5. ~deleted
      BY DEF RowIsConsistent
    <2> QED
      BY <2>2, <2>4, <2>5, TransactionIInv, NoRenewalInside
  <1>9. ASSUME NEW i \in Instance, Commit(i) PROVE IInv'
    BY <1>9, CommitIInv
  <1>10. ASSUME NEW i \in Instance, Abort(i) PROVE IInv'
    BY <1>10, ControlIInv DEF Abort, row, work, TypeOK
  <1>11. ASSUME NEW i \in Instance, Crash(i) PROVE IInv'
    BY <1>11, ControlIInv DEF Crash, row, work, TypeOK
  <1>12. ASSUME NEW i \in Instance, NEW g \in 1..MaxGeneration, RenewSelects(i, g)
         PROVE  IInv'
    <2> USE <1>12 DEF RenewSelects
    <2>1. owner = i /\ generation = g
      BY FencedCaller
    <2>2. renewing' \in Renewal
      BY DEF Renewal
    <2>3. TypeOK'
      BY <2>2 DEF TypeOK, row, work
    <2>4. /\ TransactionOwnsRoot' /\ EndingsAreWritten' /\ RenewalOwnsRoot'
          /\ RowIsConsistent'
      BY <2>1 DEF TransactionOwnsRoot, EndingsAreWritten, RenewalOwnsRoot,
                  RowIsConsistent, AdvisoryLockFree, row
    <2> QED
      BY <2>3, <2>4, HistoriesKept DEF row
  <1>13. ASSUME NEW i \in Instance, NEW g \in 1..MaxGeneration,
                Release(i, g) \/ RelinquishFailedPrestart(i, g)
         PROVE  IInv'
    <2>1. AdvisoryLockFree /\ GiveUp
      BY <1>13 DEF Release, RelinquishFailedPrestart
    <2> QED
      BY <2>1, ControlIInv DEF GiveUp, work, TypeOK
  <1>14. ASSUME NEW i \in Instance, NEW g \in 1..MaxGeneration, Begin(i, g)
         PROVE  IInv'
    <2> USE <1>14 DEF Begin
    <2>1. owner = i /\ generation = g /\ ~deleted
      BY FencedCaller
    <2>2. txn' \in Txn
      BY BoundAssumption DEF Txn, TypeOK
    <2>3. /\ txn'.epoch = g /\ txn'.by = i /\ txn'.ending = "keep"
      OBVIOUS
    <2>4. TransactionOwnsRoot' /\ EndingsAreWritten'
      BY <2>1, <2>3 DEF TransactionOwnsRoot, EndingsAreWritten, row
    <2>5. renewing = NoTxn
      BY DEF AdvisoryLockFree
    <2> QED
      BY <2>1, <2>2, <2>4, <2>5, TransactionIInv
  <1>15. ASSUME NEW i \in Instance, RenewUpdates(i) PROVE IInv'
    <2>1. owner = i /\ owner # NoOne
      BY <1>15, InstanceAssumption DEF RenewUpdates, RenewalOwnsRoot
    <2> QED
      BY <1>15, <2>1, ControlIInv DEF RenewUpdates, work, TypeOK
  <1>16. ASSUME NEW i \in Instance, RenewFails(i) PROVE IInv'
    BY <1>16, ControlIInv DEF RenewFails, row, work, TypeOK
  <1>17. CASE UNCHANGED vars
    BY <1>17 DEF vars, TypeOK, TransactionOwnsRoot, EndingsAreWritten,
                 RenewalOwnsRoot, RowIsConsistent, TokensFollowRow,
                 LogFollowsRow, CommitsAreFenced, TokensAreExclusive
  <1> QED
    BY <1>1, <1>2, <1>3, <1>4, <1>5, <1>6, <1>7, <1>8, <1>9, <1>10, <1>11,
       <1>12, <1>13, <1>14, <1>15, <1>16, <1>17 DEF Next

\* IInv holds in every reachable state.
THEOREM Inductive == Spec => []IInv
  BY InitIInv, NextIInv, PTL DEF Spec

----------------------------------------------------------------------------

\* The row, the open transaction, the tokens and the log always have the
\* shapes of TypeOK, whatever order acquire, renew, release, fenced
\* transactions, expiry and crashes come in.
THEOREM TypesHold == Spec => []TypeOK
  <1>1. IInv => TypeOK
    BY DEF IInv
  <1> QED
    BY <1>1, Inductive, PTL

\* No takeover happens under an open data transaction: until its commit the
\* row names the instance and generation it was fenced with.
THEOREM TransactionsOwnTheirRoot == Spec => []TransactionOwnsRoot
  <1>1. IInv => TransactionOwnsRoot
    BY DEF IInv
  <1> QED
    BY <1>1, Inductive, PTL

\* Fencing: nothing a replaced owner does reaches the journal after its
\* successor's first commit, and one generation is one instance's.
THEOREM FencingHolds == Spec => []CommitsAreFenced
  <1>1. IInv => CommitsAreFenced
    BY DEF IInv
  <1> QED
    BY <1>1, Inductive, PTL

\* acquire never hands one generation to two instances.
THEOREM TokensStayExclusive == Spec => []TokensAreExclusive
  <1>1. IInv => TokensAreExclusive
    BY DEF IInv
  <1> QED
    BY <1>1, Inductive, PTL

\* Generations never fall, ownership changes hands only with a larger one, and
\* a renewal that outlives its lease extends it for its own owner only, because
\* RenewalOwnsRoot holds between the two statements of renew.
THEOREM OwnershipMoves == Spec => OwnershipMovesForward
  <1> DEFINE Forward ==
        /\ generation' >= generation
        /\ owner' # owner /\ owner' # NoOne => generation' > generation
        /\ ~valid /\ valid' =>
              \/ generation' > generation
              \/ /\ renewing = [by |-> owner, epoch |-> generation]
                 /\ UNCHANGED <<owner, generation>>
  <1>1. IInv /\ [Next]_vars => [Forward]_vars
    <2> SUFFICES ASSUME IInv, Next PROVE Forward
      OBVIOUS
    <2>1. generation \in Nat
      BY DEF IInv, TypeOK
    <2>2. ASSUME NEW i \in Instance, Acquire(i)
          PROVE  Forward
      BY <2>1, <2>2 DEF Acquire, NextGeneration
    <2>3. ASSUME NEW i \in Instance, Commit(i)
          PROVE  Forward
      <3>1. generation' \in {generation, generation + 1}
        BY <2>3 DEF Commit
      <3>2. valid' => valid
        BY <2>3 DEF Commit
      <3>3. owner' \in {owner, NoOne}
        BY <2>3 DEF Commit
      <3> QED
        BY <2>1, <3>1, <3>2, <3>3
    <2>4. ASSUME NEW i \in Instance, RenewUpdates(i)
          PROVE  Forward
      BY <2>1, <2>4 DEF RenewUpdates, IInv, RenewalOwnsRoot
    <2>5. CASE ~\E i \in Instance : Acquire(i) \/ Commit(i) \/ RenewUpdates(i)
      <3> USE <2>5 DEF Next, PutRequest, Expire, Lapse, AcquireAgain,
                       BeginUnfenced, Write, End, Abort, Crash, RenewSelects,
                       RenewFails, Release, Begin, RelinquishFailedPrestart,
                       GiveUp, row, work
      <3>1. generation' = generation /\ owner' \in {owner, NoOne}
        OBVIOUS
      <3>2. valid' \in {valid, FALSE}
        OBVIOUS
      <3>3. valid' => valid
        BY <3>2
      <3> HIDE DEF Next
      <3>4. generation' >= generation
        BY <2>1, <3>1
      <3> QED
        BY <3>1, <3>3, <3>4
    <2> QED
      BY <2>2, <2>3, <2>4, <2>5
  <1> QED
    BY <1>1, Inductive, PTL DEF Spec, OwnershipMovesForward

\* Deletion is final: no owner and no commit afterwards.
THEOREM DeletionsAreFinal == Spec => DeletionIsFinal
  <1>1. IInv /\ [Next]_vars =>
            [deleted => deleted' /\ owner' = NoOne /\ log' = log]_vars
    <2> SUFFICES ASSUME IInv, Next, deleted
                 PROVE  deleted' /\ owner' = NoOne /\ log' = log
      OBVIOUS
    <2>1. owner = NoOne /\ txn = NoTxn
      BY DEF IInv, RowIsConsistent
    <2>2. \A i \in Instance : owner # i
      BY <2>1, InstanceAssumption
    <2> QED
      BY <2>1, <2>2
         DEF Next, PutRequest, Expire, Lapse, Acquire, Acquirable, AcquireAgain,
             BeginUnfenced, Write, End, Commit, Abort, Crash, RenewSelects,
             RenewUpdates, RenewFails, Release, Begin, Fenced, RelinquishFailedPrestart, GiveUp, row, work
  <1> QED
    BY <1>1, Inductive, PTL DEF Spec, DeletionIsFinal

\* The coordinator keeps its promise: under the mapping epoch <- generation,
\* writer <- owner, every step of Lease is a step of FencedLog or a stutter.
THEOREM Refinement == Spec => ImplementsFencedLog
  <1>1. Init => Promise!LogInit
    BY DEF Init, Promise!LogInit
  <1>2. IInv /\ [Next]_vars => [Promise!LogNext]_(Promise!logVars)
    <2> SUFFICES ASSUME IInv, [Next]_vars
                 PROVE  Promise!LogNext \/ UNCHANGED <<log, generation, owner>>
      BY DEF Promise!logVars
    <2>1. ASSUME NEW i \in Instance, Acquire(i) PROVE Promise!Grant
      BY <2>1 DEF Acquire, NextGeneration, Promise!Grant
    <2>2. ASSUME NEW i \in Instance, Commit(i)
          PROVE  Promise!Extend \/ UNCHANGED <<log, generation, owner>>
      <3> USE <2>2 DEF Commit
      <3>1. txn.epoch = generation /\ (generation = 0 \/ owner = i)
        BY OpenTransaction DEF IInv, TransactionOwnsRoot
      <3>2. CASE txn.wrote
        <4>1. log' = Append(log, [by |-> i, epoch |-> generation])
          BY <3>1, <3>2
        <4>2. \/ UNCHANGED <<generation, owner>>
              \/ owner' = NoOne /\ generation' \in {generation, generation + 1}
          OBVIOUS
        <4> QED
          BY <3>1, <4>1, <4>2 DEF Promise!Extend
      <3>3. CASE ~txn.wrote
        <4>1. txn.ending = "keep"
          BY <3>3 DEF IInv, EndingsAreWritten
        <4> QED
          BY <3>3, <4>1
      <3> QED
        BY <3>2, <3>3
    <2>3. ASSUME NEW i \in Instance, NEW g \in 1..MaxGeneration,
                 Release(i, g) \/ RelinquishFailedPrestart(i, g)
          PROVE  Promise!Retire
      BY <2>3 DEF Release, RelinquishFailedPrestart, GiveUp, Promise!Retire
    <2>4. CASE /\ ~\E i \in Instance : Acquire(i) \/ Commit(i)
               /\ ~\E i \in Instance, g \in 1..MaxGeneration :
                      Release(i, g) \/ RelinquishFailedPrestart(i, g)
      BY <2>4 DEF Next, vars, PutRequest, Expire, Lapse, AcquireAgain,
                  BeginUnfenced, Write, End, Abort, Crash, RenewSelects,
                  RenewUpdates, RenewFails, Begin, row, work
    <2> QED
      BY <2>1, <2>2, <2>3, <2>4 DEF Promise!LogNext
  <1> QED
    BY <1>1, <1>2, Inductive, PTL
       DEF Spec, ImplementsFencedLog, Promise!LogSpec
=============================================================================
