---------------------------- MODULE SessionRows ----------------------------
(***************************************************************************)
(* The rows of one tree in PostgreSQL and the transactions that write      *)
(* them: header patches, appends, creations, the activity and the replies  *)
(* of an owner, and deletions.  A transaction either carries an ownership  *)
(* (a CoordinatedStore) or none (a PostgresStore of any process).          *)
(*                                                                         *)
(* A transaction locks a root by an advisory lock, with the root's row of  *)
(* coordinator_roots, and session rows by FOR UPDATE, one statement at a   *)
(* time; everything is released at its end.  The root a transaction locks  *)
(* first comes from an unlocked read, so it may be wrong by the time it is *)
(* locked; the triggers on the tables are the last line of defence.  The   *)
(* last statement and the commit are one step, for nothing a transaction   *)
(* has written is seen before.                                             *)
(***************************************************************************)
EXTENDS Naturals, FiniteSets

CONSTANTS
    RootId,      \* the root session
    Child,       \* its children
    Client,      \* database connections
    None,        \* nobody, no row, no revision
    MaxFence,    \* bound on the generations of the root
    MaxBegun     \* bound on the number of transactions

Session == {RootId} \cup Child

VARIABLES
    header,      \* sessions: id -> header, None without a row
    gone,        \* deleted_sessions
    fence,       \* coordinator_roots.generation, 0 without a row
    expired,     \* the root has no valid owner
    activity,    \* coordinator_activity: the actors that are active
    request,     \* the root's request that awaits its reply, if any
    advisory,    \* root id -> who holds its advisory lock
    rowLock,     \* session -> who holds its row
    txn,         \* what each connection is doing
    begun        \* the number of transactions begun

vars == <<header, gone, fence, expired, activity, request, advisory, rowLock,
          txn, begun>>

\* busy: the status is queued, running or awaiting_input.  The title stands for
\* the metadata too.
Header == [title : BOOLEAN, model : BOOLEAN, busy : BOOLEAN, lastSeq : Nat]

NewHeader == [title |-> FALSE, model |-> FALSE, busy |-> FALSE, lastSeq |-> 0]

Request == {"none", "command", "control"}

\* What CleanupCandidate.revision is a digest of.
Revisions == [header : [Session -> Header \cup {None}], activity : SUBSET Session,
              command : BOOLEAN]

Patches == {"title", "model", "append"}
Kinds == Patches \cup {"create", "delete", "activity", "reply"}

\* token: the ownership's generation, 0 without one; value: what is written;
\* allow, expected: allow_active and expected_revision; root: the root id that
\* is locked; guarded: tantra.model_patch_root is set; row: what FOR UPDATE
\* returned.
Txn ==
    [at : {"begun", "lookedUp", "locked", "checked"}, kind : Kinds, sid : Session,
     token : 0..MaxFence, value : BOOLEAN, allow : BOOLEAN,
     expected : Revisions \cup {None}, root : Session, guarded : BOOLEAN,
     row : Header \cup {None}]

ASSUME SessionRowsAssumption ==
    /\ RootId \notin Child
    /\ None \notin Session \cup Client \cup Header \cup Revisions \cup Txn
    /\ MaxFence \in Nat /\ MaxBegun \in Nat

TypeOK ==
    /\ header \in [Session -> Header \cup {None}]
    /\ gone \subseteq Session
    /\ fence \in 0..MaxFence
    /\ expired \in BOOLEAN
    /\ activity \subseteq Session
    /\ request \in Request
    /\ advisory \in [Session -> Client \cup {None}]
    /\ rowLock \in [Session -> Client \cup {None}]
    /\ txn \in [Client -> Txn \cup {None}]
    /\ begun \in 0..MaxBegun

Live == {a \in Session : header[a] # None}

\* A database without the tree, with its root, or with some children too.
Init ==
    /\ \E found \in {{}} \cup {{RootId} \cup some : some \in SUBSET Child} :
          header = [a \in Session |-> IF a \in found THEN NewHeader ELSE None]
    /\ gone = {}
    /\ fence = 0 /\ expired = TRUE
    /\ activity = {}
    /\ request = "none"
    /\ advisory = [a \in Session |-> None]
    /\ rowLock = [a \in Session |-> None]
    /\ txn = [c \in Client |-> None]
    /\ begun = 0

Busy == \E a \in Live : header[a].busy

\* _has_work, and the same query in _prepare_model_patch.
Work == activity # {} \/ request # "none" \/ Busy

\* state.active of _cleanup_rows: control requests do not count.
Active == activity # {} \/ request = "command" \/ Busy

Revision == [header |-> header, activity |-> activity, command |-> request = "command"]

\* The fence check of assert_coordinated_fence, of _TransactionContext and of
\* CoordinatedStore.change.
Owns(t) == t.token = fence /\ fence > 0 /\ ~expired

----------------------------------------------------------------------------
(* The statements of a transaction *)

\* The transaction ends: its locks are released.
Release(c) ==
    /\ txn' = [txn EXCEPT ![c] = None]
    /\ advisory' = [a \in Session |-> IF advisory[a] = c THEN None ELSE advisory[a]]
    /\ rowLock' = [a \in Session |-> IF rowLock[a] = c THEN None ELSE rowLock[a]]

tables == <<header, gone, fence, expired, activity, request>>

\* It is rolled back: an exception, a cancelled task, a deadlock the database
\* resolves, or a connection that is lost.
Rollback(c) ==
    /\ Release(c)
    /\ UNCHANGED <<tables, begun>>

Abort(c) == txn[c] # None /\ Rollback(c)

\* A deletion is refused; an owner answers its request with the error and commits.
Refuse(c) ==
    IF txn[c].token > 0 /\ Owns(txn[c])
    THEN /\ Release(c)
         /\ request' = "none"
         /\ UNCHANGED <<header, gone, fence, expired, activity, begun>>
    ELSE Rollback(c)

\* A transaction that knows its root: an ownership names it, a new header names
\* it, and a deletion is given it.
KnowsRoot(kind, token) == token > 0 \/ kind \in {"create", "delete"}

NewTxn(kind, sid, token, value, allow, expected) ==
    [at |-> IF KnowsRoot(kind, token) THEN "lookedUp" ELSE "begun", kind |-> kind,
     sid |-> sid, token |-> token, value |-> value, allow |-> allow,
     expected |-> expected, root |-> RootId, guarded |-> FALSE, row |-> None]

\* A call of a store.  A child is created in a tree that has had a root; an
\* owner's token may be out of date; cleanup passes on the revision it selected,
\* read without a lock.
Begin(c) ==
    /\ txn[c] = None
    /\ begun < MaxBegun
    /\ \E kind \in Kinds, sid \in Session, token \in 0..fence, value \in BOOLEAN,
          allow \in BOOLEAN, expected \in {None, Revision} :
          /\ kind \in {"activity", "reply"} => token > 0
          /\ kind = "create" /\ sid # RootId => RootId \in Live \cup gone
          /\ kind \in {"delete", "reply"} => sid = RootId
          /\ kind \in {"create", "delete", "reply"} => ~value
          /\ kind \in {"title", "model"} => value
          /\ kind # "delete" => ~allow /\ expected = None
          /\ expected # None => RootId \in Live
          /\ txn' = [txn EXCEPT ![c] = NewTxn(kind, sid, token, value, allow, expected)]
    /\ begun' = begun + 1
    /\ UNCHANGED <<tables, advisory, rowLock>>

\* SELECT root_key: a session without a row is taken for a root.
Lookup(c) ==
    /\ txn[c] # None
    /\ txn[c].at = "begun"
    /\ txn' = [txn EXCEPT ![c].at = "lookedUp",
                          ![c].root = IF txn[c].sid \in Live THEN RootId ELSE txn[c].sid]
    /\ UNCHANGED <<tables, advisory, rowLock, begun>>

\* The root is enrolled with a coordinator.
Enrolled(root) == root = RootId /\ fence > 0

\* Mutant: a patch of the model does not ask whether anything is at work.
PassesAtWork(t) ==
    /\ t.token > 0 => Owns(t)
    /\ t.token = 0 /\ t.kind \in {"append", "delete"} => ~Enrolled(t.root)
    /\ t.kind = "create" => {t.sid, RootId} \cap gone = {}
    /\ t.kind = "delete" => RootId \in Live /\ (t.token > 0 => request = "control")

\* What a transaction checks once it has locked its root: its ownership
\* (_TransactionContext), a fence nobody else may have (_guard_session), that
\* nothing is at work (_prepare_model_patch), that nothing was deleted
\* (_check_create), and that a deletion was asked for (lock_request).
Passes(t) ==
    /\ t.token > 0 => Owns(t)
    /\ t.token = 0 /\ t.kind \in {"append", "delete"} => ~Enrolled(t.root)
    /\ t.token = 0 /\ t.kind = "model" /\ Enrolled(t.root) => ~Work
    /\ t.kind = "create" => {t.sid, RootId} \cap gone = {}
    /\ t.kind = "delete" => RootId \in Live /\ (t.token > 0 => request = "control")

Lock(c) ==
    /\ txn[c] # None
    /\ txn[c].at = "lookedUp"
    /\ advisory[txn[c].root] = None
    /\ LET t == txn[c]
       IN  IF Passes(t)
           THEN /\ advisory' = [advisory EXCEPT ![t.root] = c]
                /\ txn' = [txn EXCEPT
                     ![c].at = IF t.kind \in Patches \cup {"delete"} THEN "locked"
                               ELSE "checked",
                     ![c].guarded = t.kind = "model" /\ t.token = 0 /\ Enrolled(t.root)]
                /\ UNCHANGED <<tables, rowLock, begun>>
           ELSE Rollback(c)

\* SELECT ... FOR UPDATE of the session to patch, and the checks that follow: it
\* exists, its root is the one that is locked (_guard_session leaves this one to
\* the trigger), and an owner changes the model only when nothing is at work.
LockRow(c) ==
    /\ txn[c] # None
    /\ txn[c].at = "locked" /\ txn[c].kind \in Patches
    /\ rowLock[txn[c].sid] = None
    /\ LET t == txn[c]
           current == header[t.sid]
       IN  IF /\ current # None
              /\ t.token = 0 /\ t.kind # "append" => t.root = RootId
              /\ t.token > 0 /\ t.kind = "model" /\ current.model # t.value => ~Work
           THEN /\ rowLock' = [rowLock EXCEPT ![t.sid] = c]
                /\ txn' = [txn EXCEPT ![c].at = "checked", ![c].row = current]
                /\ UNCHANGED <<tables, advisory, begun>>
           ELSE Rollback(c)

\* Mutant: the revision is not compared.
LockAnyTree(c) ==
    /\ txn[c] # None
    /\ txn[c].at = "locked" /\ txn[c].kind = "delete"
    /\ \A a \in Live : rowLock[a] = None
    /\ IF Active => txn[c].allow
       THEN /\ rowLock' = [a \in Session |-> IF a \in Live THEN c ELSE rowLock[a]]
            /\ txn' = [txn EXCEPT ![c].at = "checked"]
            /\ UNCHANGED <<tables, advisory, begun>>
       ELSE Refuse(c)

\* _delete_tree up to its first DELETE: every row of the tree is locked
\* (_deletion_headers), the revision compared and the activity looked at.
LockTree(c) ==
    /\ txn[c] # None
    /\ txn[c].at = "locked" /\ txn[c].kind = "delete"
    /\ \A a \in Live : rowLock[a] = None
    /\ LET t == txn[c]
       IN  IF /\ t.expected # None => t.expected = Revision
              /\ Active => t.allow
           THEN /\ rowLock' = [a \in Session |-> IF a \in Live THEN c ELSE rowLock[a]]
                /\ txn' = [txn EXCEPT ![c].at = "checked"]
                /\ UNCHANGED <<tables, advisory, begun>>
           ELSE Refuse(c)

\* Mutant: a field that is not set is taken for one set to nothing.
PatchedWhole(t) ==
    CASE t.kind = "title" -> [t.row EXCEPT !.title = t.value, !.model = FALSE]
      [] t.kind = "model" -> [t.row EXCEPT !.title = FALSE, !.model = t.value]
      [] t.kind = "append" -> [t.row EXCEPT !.busy = t.value, !.lastSeq = @ + 1]

\* apply_patch and reduce_header on the row that was read.
Patched(t) ==
    CASE t.kind = "title" -> [t.row EXCEPT !.title = t.value]
      [] t.kind = "model" -> [t.row EXCEPT !.model = t.value]
      [] t.kind = "append" -> [t.row EXCEPT !.busy = t.value, !.lastSeq = @ + 1]

\* guard_deleted_session: neither the session nor its root was deleted.
Undeleted(t) == {t.sid, RootId} \cap gone = {}

\* The triggers: guard_coordinated_write asks for the fence unless only the title
\* changes, or only the model under tantra.model_patch_root; guard_deleted_session
\* refuses what was deleted.
Triggers(t) ==
    /\ t.kind = "title" \/ t.guarded \/ fence = 0 \/ Owns(t)
    /\ t.kind \in Patches \cup {"create"} => Undeleted(t)

\* The row locks and the root lock of the triggers can be had; a transaction of
\* an owner ends with change, which checks its fence once more.
Commits(t) ==
    /\ t.token > 0 => Owns(t)
    /\ Triggers(t)
    /\ t.kind = "create" => t.sid \notin Live

\* Mutant: a deletion takes only the row it was given.
StoredPartly(t) ==
    CASE t.kind \in Patches -> [header EXCEPT ![t.sid] = Patched(t)]
      [] t.kind = "create" -> [header EXCEPT ![t.sid] = NewHeader]
      [] t.kind = "delete" -> [header EXCEPT ![t.sid] = None]
      [] OTHER -> header

\* The sessions after the transaction.
Stored(t) ==
    CASE t.kind \in Patches -> [header EXCEPT ![t.sid] = Patched(t)]
      [] t.kind = "create" -> [header EXCEPT ![t.sid] = NewHeader]
      [] t.kind = "delete" -> [a \in Session |-> None]
      [] OTHER -> header

\* set_active: one row of coordinator_activity, which a deletion empties.
Activities(t) ==
    CASE t.kind = "delete" -> {}
      [] t.kind = "activity" -> IF t.value THEN activity \cup {t.sid} ELSE activity \ {t.sid}
      [] OTHER -> activity

\* reply, also at the end of an owner's deletion; a deletion takes other requests along.
Requested(t) == IF t.kind \in {"delete", "reply"} THEN "none" ELSE request

\* What it writes.  finish_deletion follows a deletion by the owner.
Effect(t) ==
    /\ header' = Stored(t)
    /\ gone' = IF t.kind = "delete" THEN gone \cup Live ELSE gone
    /\ activity' = Activities(t)
    /\ request' = Requested(t)
    /\ IF t.kind = "delete" /\ t.token > 0
       THEN fence' = fence + 1 /\ expired' = TRUE
       ELSE UNCHANGED <<fence, expired>>

\* The last statement and the commit.  The triggers lock the root a row belongs
\* to, if that is not the one that is locked already.
Write(c) ==
    /\ txn[c] # None
    /\ txn[c].at = "checked"
    /\ advisory[RootId] \in {None, c}
    /\ txn[c].kind = "delete" /\ txn[c].token > 0 => fence < MaxFence
    /\ IF Commits(txn[c])
       THEN Effect(txn[c]) /\ Release(c) /\ UNCHANGED begun
       ELSE Rollback(c)

----------------------------------------------------------------------------
(* The coordinator's own transactions, each a single step under the root's *)
(* lock, and the passage of time.                                          *)

\* acquire, by an instance that finds no valid owner.
Acquire ==
    /\ advisory[RootId] = None
    /\ RootId \notin gone
    /\ expired
    /\ fence < MaxFence
    /\ fence' = fence + 1
    /\ expired' = FALSE
    /\ activity' = {}
    /\ UNCHANGED <<header, gone, request, advisory, rowLock, txn, begun>>

\* _put_request, under the owner the requester resolved.
PutRequest(kind) ==
    /\ advisory[RootId] = None
    /\ RootId \notin gone
    /\ fence > 0 /\ ~expired
    /\ request = "none"
    /\ request' = kind
    /\ UNCHANGED <<header, gone, fence, expired, activity, advisory, rowLock, txn, begun>>

\* The lease runs out.
Expire ==
    /\ ~expired
    /\ expired' = TRUE
    /\ UNCHANGED <<header, gone, fence, activity, request, advisory, rowLock, txn, begun>>

\* The deadline of a request passes.
DeadlinePasses ==
    /\ request # "none"
    /\ request' = "none"
    /\ UNCHANGED <<header, gone, fence, expired, activity, advisory, rowLock, txn, begun>>

Next ==
    \/ Acquire
    \/ Expire
    \/ DeadlinePasses
    \/ \E kind \in {"command", "control"} : PutRequest(kind)
    \/ \E c \in Client : Begin(c)
    \/ \E c \in Client : Lookup(c)
    \/ \E c \in Client : Lock(c)
    \/ \E c \in Client : LockRow(c)
    \/ \E c \in Client : LockTree(c)
    \/ \E c \in Client : Write(c)
    \/ \E c \in Client : Abort(c)

Spec == Init /\ [][Next]_vars

----------------------------------------------------------------------------
(* Properties *)

\* The model changes while the tree is enrolled only when nothing is at work in
\* it, although the check was made statements before the write.
\* Everything else but a title is written to an enrolled tree by its valid owner
\* alone, although a transaction without an ownership may have looked the session
\* up before it, or its root, was there.
FencedStep ==
    \A a \in Session :
        (fence > 0 /\ header[a] # None /\ header'[a] # header[a]) =>
            \/ \E b \in BOOLEAN : header'[a] = [header[a] EXCEPT !.title = b]
            \/ ~Work /\ \E b \in BOOLEAN : header'[a] = [header[a] EXCEPT !.model = b]
            \/ /\ header'[a] # None => header'[a].model = header[a].model
               /\ \E c \in Client : txn[c] # None /\ txn'[c] = None /\ Owns(txn[c])

\* A transaction writes the whole header back, and yet changes only the field it
\* set: no update of another transaction is lost, and no event gets a seq twice.
FieldsStep ==
    \A a \in Session :
        (header[a] # None /\ header'[a] # None /\ header'[a] # header[a]) =>
            \E b \in BOOLEAN :
                header'[a] \in {[header[a] EXCEPT !.title = b], [header[a] EXCEPT !.model = b],
                                [header[a] EXCEPT !.busy = b, !.lastSeq = @ + 1]}

\* Cleanup deletes exactly the tree it selected: no row, activity or command has
\* been added or changed between its unlocked selection and the deletion, and
\* nothing deletes an active tree unless it was told to.
SelectionStep ==
    \A c \in Client :
        (txn[c] # None /\ txn[c].kind = "delete" /\ gone' # gone /\ txn'[c] = None) =>
            /\ txn[c].expected # None => /\ txn[c].expected.header = header
                                         /\ txn[c].expected.activity = activity
                                         /\ request = "command" => txn[c].expected.command
            /\ ~txn[c].allow => ~Active

\* Every write to an enrolled tree is its owner's, a title, or a change of the model
\* that meets no work.
FencedWrites == [][FencedStep]_vars

\* No step loses an update of a header (patch_header, append).
FieldsAreKept == [][FieldsStep]_vars

\* No deletion takes more than was selected (_delete_tree).
CleanupIsExact == [][SelectionStep]_vars

\* A deleted session never comes back, and no child outlives or precedes its
\* root, although creations and deletions look at different rows.
TreesStayDeleted ==
    /\ gone \cap Live = {}
    /\ Live # {} => RootId \in Live

=============================================================================
