------------------------------- MODULE Lease -------------------------------
(***************************************************************************)
(* Root ownership as PostgresCoordinator keeps it: one coordinator_roots   *)
(* row per root (owner_instance, generation, expires_at), the fenced data  *)
(* transactions that write the root's sessions and events, and the trigger *)
(* that guards those tables against everybody else.  Every statement names *)
(* one root and holds its advisory lock until the transaction ends, so one *)
(* root is modelled.                                                       *)
(*                                                                         *)
(* Time is the predicate the code computes from it: `valid' is             *)
(* expires_at > clock_timestamp(), and may turn false at any moment.       *)
(* `tokens' holds every Ownership a runtime was ever handed: renewal       *)
(* tasks, dispatchers and shutdown keep using one they captured earlier,   *)
(* so a stale one may be presented at any time.                            *)
(*                                                                         *)
(* A control transaction is one step where its last statement checks again *)
(* what its first one read (release), or where nothing it read can change  *)
(* under the lock (acquire: a lease that is not valid stays so).  renew is *)
(* two: its UPDATE names the root only, and the lease its SELECT found     *)
(* valid may expire in between.                                            *)
(***************************************************************************)
EXTENDS Naturals, Sequences, FiniteSets

CONSTANTS
    Instance,       \* coordinator instances; an id is never reused
    NoOne,          \* owner_instance IS NULL
    MaxGeneration,  \* bound on the generation counter
    MaxLog          \* bound on the number of committed batches

ASSUME InstanceAssumption == NoOne \notin Instance
ASSUME BoundAssumption == MaxGeneration \in Nat /\ MaxLog \in Nat

VARIABLES
    enrolled,   \* the coordinator_roots row exists
    deleted,    \* the root is in deleted_sessions
    owner,      \* owner_instance
    generation, \* generation
    valid,      \* expires_at > clock_timestamp()
    active,     \* some coordinator_activity row is active
    status,     \* what the headers' statuses amount to, see Status
    open,       \* a request without a reply and with a live deadline exists
    txn,        \* the data transaction that holds the advisory lock
    renewing,   \* the renewal that holds it, between its two statements
    tokens,     \* the generations each instance was handed
    up,         \* the processes that have not crashed
    log         \* history: the committed batches, as [by, epoch]

vars == <<enrolled, deleted, owner, generation, valid, active, status, open,
          txn, renewing, tokens, up, log>>

row == <<enrolled, deleted, owner, generation, valid>>

work == <<active, status, open>>

\* "running": some session is running or awaiting_input; otherwise "queued"
\* or "idle" is the status of the actor in question, and "ended" stands for
\* failed, cancelled, interrupted and finished.
Status == {"running", "queued", "idle", "ended"}

Batch == [by : Instance, epoch : 0..MaxGeneration]

NoTxn == [by |-> NoOne]

Renewal == [by : Instance, epoch : 1..MaxGeneration]

Txn == [by : Instance, epoch : 0..MaxGeneration, wrote : BOOLEAN,
        active : BOOLEAN, status : Status, open : BOOLEAN,
        ending : {"keep", "relinquish", "delete"}]

\* The variables have their types.
TypeOK ==
    /\ enrolled \in BOOLEAN
    /\ deleted \in BOOLEAN
    /\ owner \in Instance \cup {NoOne}
    /\ generation \in 0..MaxGeneration
    /\ valid \in BOOLEAN
    /\ active \in BOOLEAN
    /\ status \in Status
    /\ open \in BOOLEAN
    /\ txn \in Txn \cup {NoTxn}
    /\ renewing \in Renewal \cup {NoTxn}
    /\ tokens \in [Instance -> SUBSET (1..MaxGeneration)]
    /\ up \in SUBSET Instance
    /\ log \in Seq(Batch)

Init ==
    /\ enrolled = FALSE
    /\ deleted = FALSE
    /\ owner = NoOne
    /\ generation = 0
    /\ valid = FALSE
    /\ active = FALSE
    /\ status = "idle"
    /\ open = FALSE
    /\ txn = NoTxn
    /\ renewing = NoTxn
    /\ tokens = [i \in Instance |-> {}]
    /\ up = Instance
    /\ log = <<>>

----------------------------------------------------------------------------
(* The fence *)

\* Mutant: any valid lease passes.
FencedByAnyone(i, g) == valid

\* The row still names this instance and generation, and has not expired.
Fenced(i, g) == owner = i /\ generation = g /\ valid

\* Mutant: the control statements stop taking the advisory lock.
AdvisoryLockForgotten == TRUE

\* pg_advisory_xact_lock: no data transaction and no renewal is under way.
AdvisoryLockFree == txn = NoTxn /\ renewing = NoTxn

\* A live process using an Ownership it was handed.
Presents(i, g) == i \in up /\ g \in tokens[i]

----------------------------------------------------------------------------
(* Control transactions *)

\* Mutant: any lease that is not valid can be taken, deleted root or not.
IgnoresDeletion == ~valid

\* acquire refuses a deleted root and a lease that is still valid.
Acquirable == ~deleted /\ ~valid

\* Mutant: the UPDATE replaces the owner without a new generation.
KeptGeneration == IF generation = 0 THEN 1 ELSE generation

\* generation = generation + 1
NextGeneration == generation + 1

\* UPDATE ... RETURNING generation
Returning == NextGeneration

\* acquire: a deleted root refuses, a valid lease of another instance refuses;
\* otherwise the caller becomes the owner under a new generation and the
\* activity rows of the previous owner go.  The reply may be lost.
Acquire(i) ==
    /\ i \in up
    /\ AdvisoryLockFree
    /\ Acquirable
    /\ generation < MaxGeneration
    /\ enrolled' = TRUE
    /\ owner' = i
    /\ generation' = NextGeneration
    /\ valid' = TRUE
    /\ active' = FALSE
    /\ \/ tokens' = [tokens EXCEPT ![i] = @ \cup {Returning}]
       \/ UNCHANGED tokens
    /\ UNCHANGED <<deleted, status, open, txn, up, log, renewing>>

\* acquire by the instance whose lease is still valid hands out the same
\* generation again: how a caller whose first reply was lost learns of it.
AcquireAgain(i) ==
    /\ i \in up
    /\ AdvisoryLockFree
    /\ ~deleted
    /\ owner = i
    /\ valid
    /\ tokens' = [tokens EXCEPT ![i] = @ \cup {generation}]
    /\ UNCHANGED <<row, work, txn, up, log, renewing>>

\* renew, first statement: the row must name the caller and its generation
\* and must not have expired; otherwise LeaseLost, changing nothing here.
RenewSelects(i, g) ==
    /\ Presents(i, g)
    /\ AdvisoryLockFree
    /\ Fenced(i, g)
    /\ renewing' = [by |-> i, epoch |-> g]
    /\ UNCHANGED <<row, work, txn, tokens, up, log>>

\* Second statement and commit: expires_at is extended WHERE root_id = ...,
\* whoever the row names by now and whether or not the lease has expired.
RenewUpdates(i) ==
    /\ renewing # NoTxn
    /\ renewing.by = i
    /\ valid' = TRUE
    /\ renewing' = NoTxn
    /\ UNCHANGED <<enrolled, deleted, owner, generation, work, txn, tokens, up,
                   log>>

\* The connection fails between the statements or at the commit.
RenewFails(i) ==
    /\ renewing # NoTxn
    /\ renewing.by = i
    /\ renewing' = NoTxn
    /\ UNCHANGED <<row, work, txn, tokens, up, log>>

GiveUp ==
    /\ owner' = NoOne
    /\ valid' = FALSE
    /\ UNCHANGED <<enrolled, deleted, generation, work, txn, tokens, up, log,
                   renewing>>

\* release: refused while anything is queued, running, waiting or requested.
Release(i, g) ==
    /\ Presents(i, g)
    /\ AdvisoryLockFree
    /\ Fenced(i, g)
    /\ ~open
    /\ ~active
    /\ status \in {"idle", "ended"}
    /\ GiveUp

\* relinquish_failed_prestart: accepts queued work too, because the actor
\* whose start failed has it and nobody is running it.
RelinquishFailedPrestart(i, g) ==
    /\ Presents(i, g)
    /\ AdvisoryLockFree
    /\ Fenced(i, g)
    /\ ~open
    /\ ~active
    /\ status \in {"idle", "queued"}
    /\ GiveUp

\* _put_request by any process: only towards a valid owner of a live root.
PutRequest ==
    /\ AdvisoryLockFree
    /\ ~deleted
    /\ owner # NoOne
    /\ valid
    /\ open' = TRUE
    /\ UNCHANGED <<row, active, status, txn, tokens, up, log, renewing>>

----------------------------------------------------------------------------
(* Data transactions *)

\* _TransactionContext.__aenter__: take the lock, check the fence, open.
Begin(i, g) ==
    /\ Presents(i, g)
    /\ AdvisoryLockFree
    /\ Fenced(i, g)
    /\ Len(log) < MaxLog
    /\ txn' = [by |-> i, epoch |-> g, wrote |-> FALSE,
               active |-> active, status |-> status, open |-> open,
               ending |-> "keep"]
    /\ UNCHANGED <<row, work, tokens, up, log, renewing>>

\* A write by a client without a fence: the trigger takes the lock and lets
\* it pass only when the root was never enrolled.
BeginUnfenced(i) ==
    /\ i \in up
    /\ AdvisoryLockFree
    /\ ~enrolled
    /\ ~deleted
    /\ Len(log) < MaxLog
    /\ txn' = [by |-> i, epoch |-> 0, wrote |-> TRUE,
               active |-> active, status |-> status, open |-> open,
               ending |-> "keep"]
    /\ UNCHANGED <<row, work, tokens, up, log, renewing>>

\* The check inside each write of an open transaction.  The rows the
\* transaction holds locked cannot change, so only expiry can fail it.
WriteFence == txn.epoch = 0 \/ Fenced(txn.by, txn.epoch)

\* create, append, enqueue, set_active, set_recovery, reply: the trigger and
\* change() check the fence at the time of the write, not of the commit.
Write(i, a, s, o) ==
    /\ txn # NoTxn
    /\ txn.by = i
    /\ txn.ending = "keep"
    /\ WriteFence
    /\ txn.epoch = 0 => a = txn.active /\ o = txn.open
    /\ o => txn.open
    /\ txn' = [txn EXCEPT !.wrote = TRUE, !.active = a, !.status = s, !.open = o]
    /\ UNCHANGED <<row, work, tokens, up, log, renewing>>

\* relinquish_unrecovered and finish_deletion end the ownership inside the
\* transaction; a deletion removes the tree, its activity and its requests.
\* An unfenced client can only delete.
End(i, how) ==
    /\ txn # NoTxn
    /\ txn.by = i
    /\ txn.ending = "keep"
    /\ WriteFence
    /\ \/ how = "relinquish" /\ txn.epoch > 0
          /\ txn' = [txn EXCEPT !.wrote = TRUE, !.ending = how]
       \/ how = "delete" /\ generation < MaxGeneration
          /\ txn' = [txn EXCEPT !.wrote = TRUE, !.ending = how, !.active = FALSE,
                                !.status = "ended", !.open = FALSE]
    /\ UNCHANGED <<row, work, tokens, up, log, renewing>>

\* COMMIT checks nothing: what keeps it safe after the lease expired is that
\* the advisory lock is still held.
Commit(i) ==
    /\ txn # NoTxn
    /\ txn.by = i
    /\ i \in up
    /\ log' = IF txn.wrote
              THEN Append(log, [by |-> i, epoch |-> txn.epoch]) ELSE log
    /\ active' = txn.active
    /\ status' = txn.status
    /\ open' = (txn.open /\ open)
    /\ owner' = IF txn.ending = "keep" THEN owner ELSE NoOne
    /\ valid' = IF txn.ending = "keep" THEN valid ELSE FALSE
    /\ generation' = IF txn.ending = "delete" /\ txn.epoch > 0
                     THEN generation + 1 ELSE generation
    /\ deleted' = (deleted \/ txn.ending = "delete")
    /\ txn' = NoTxn
    /\ UNCHANGED <<enrolled, tokens, up, renewing>>

\* An exception, a lost connection or LeaseLost rolls the transaction back.
Abort(i) ==
    /\ txn # NoTxn
    /\ txn.by = i
    /\ txn' = NoTxn
    /\ UNCHANGED <<row, work, tokens, up, log, renewing>>

----------------------------------------------------------------------------
(* The environment *)

\* The clock passes expires_at.
Expire ==
    /\ valid
    /\ valid' = FALSE
    /\ UNCHANGED <<enrolled, deleted, owner, generation, work, txn,
                   tokens, up, log, renewing>>

\* The clock passes the request's deadline, or cleanup removes it.
Lapse ==
    /\ open
    /\ open' = FALSE
    /\ UNCHANGED <<row, active, status, txn, tokens, up, log, renewing>>

\* A process dies; the database rolls its transaction back.
Crash(i) ==
    /\ i \in up
    /\ up' = up \ {i}
    /\ txn' = IF txn # NoTxn /\ txn.by = i THEN NoTxn ELSE txn
    /\ renewing' = IF renewing # NoTxn /\ renewing.by = i THEN NoTxn ELSE renewing
    /\ UNCHANGED <<row, work, tokens, log>>

Next ==
    \/ PutRequest
    \/ Expire
    \/ Lapse
    \/ \E i \in Instance :
          \/ Acquire(i)
          \/ AcquireAgain(i)
          \/ BeginUnfenced(i)
          \/ \E a, o \in BOOLEAN, s \in Status : Write(i, a, s, o)
          \/ \E how \in {"relinquish", "delete"} : End(i, how)
          \/ Commit(i)
          \/ Abort(i)
          \/ Crash(i)
          \/ RenewUpdates(i)
          \/ RenewFails(i)
          \/ \E g \in 1..MaxGeneration :
                \/ RenewSelects(i, g)
                \/ Release(i, g)
                \/ RelinquishFailedPrestart(i, g)
                \/ Begin(i, g)

Spec == Init /\ [][Next]_vars

----------------------------------------------------------------------------
(* Properties *)

\* While a data transaction is open nobody can replace its owner: the row
\* still names the instance and generation the transaction was fenced with,
\* even if the lease has expired meanwhile (_TransactionContext, change).
TransactionOwnsRoot ==
    txn # NoTxn =>
        \/ txn.epoch > 0 /\ owner = txn.by /\ generation = txn.epoch
        \/ txn.epoch = 0 /\ ~enrolled /\ generation = 0

\* A takeover fences the previous owner for good: in commit order the batches
\* carry non-decreasing generations, and two batches of one generation come
\* from one instance.  Unfenced batches (generation 0) precede enrolment.
CommitsAreFenced ==
    \A m, n \in 1..Len(log) :
        m < n => /\ log[m].epoch <= log[n].epoch
                 /\ log[m].epoch = log[n].epoch /\ log[m].epoch > 0
                       => log[m].by = log[n].by

\* An ownership is handed to one instance only, although acquire may repeat
\* its answer and a reply may be lost.
TokensAreExclusive ==
    \A i, j \in Instance : i # j => tokens[i] \cap tokens[j] = {}

\* Ownership moves forward: acquire never reuses a number, a generation is
\* never handed to a second owner, and an expired lease becomes valid again
\* under its number only by a renewal of the very owner and generation the
\* row still names.  The UPDATE of renew checks none of that itself: only the
\* advisory lock, held since its SELECT, keeps it from extending a successor.
OwnershipMovesForward ==
    [][/\ generation' >= generation
       /\ owner' # owner /\ owner' # NoOne => generation' > generation
       /\ ~valid /\ valid' =>
             \/ generation' > generation
             \/ /\ renewing = [by |-> owner, epoch |-> generation]
                /\ UNCHANGED <<owner, generation>>]_vars

\* What the coordinator's design says (design/011_coordinator.md): an expired
\* lease cannot be renewed, so one that is not valid becomes valid only under
\* a larger generation.
NoRevival == [][~valid /\ valid' => generation' > generation]_vars

\* A deleted root stays deleted: nobody owns it again and nothing is
\* committed to it, not even by a transaction that was waiting for the lock.
DeletionIsFinal ==
    [][deleted => deleted' /\ owner' = NoOne /\ log' = log]_vars

\* What the coordinator promises its clients: Lease implements FencedLog.
Promise == INSTANCE FencedLog WITH epoch <- generation, writer <- owner

ImplementsFencedLog == Promise!LogSpec

=============================================================================
