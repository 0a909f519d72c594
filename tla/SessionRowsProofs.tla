------------------------- MODULE SessionRowsProofs -------------------------
(***************************************************************************)
(* The rows of a tree are safe for any number of connections, children and *)
(* transactions.  What a transaction checked still holds when it writes,   *)
(* because it keeps the locks under which it checked, and because the      *)
(* triggers lock the root of every row they let through.                   *)
(***************************************************************************)
EXTENDS SessionRows, TLAPS

\* A transaction has the locks its statements took.
LocksAreHeld ==
    \A c \in Client : txn[c] # None =>
        /\ txn[c].at \in {"locked", "checked"} => advisory[txn[c].root] = c
        /\ txn[c].at = "checked" /\ txn[c].kind \in Patches => rowLock[txn[c].sid] = c
        /\ txn[c].at = "checked" /\ txn[c].kind = "delete" => \A a \in Live : rowLock[a] = c

\* It locks the right root, except for an append without an ownership.
RootsAreKnown ==
    \A c \in Client : txn[c] # None =>
        /\ KnowsRoot(txn[c].kind, txn[c].token) => txn[c].root = RootId /\ txn[c].at # "begun"
        /\ txn[c].at = "checked" /\ txn[c].kind # "append" => txn[c].root = RootId
        /\ txn[c].guarded => txn[c].kind = "model"
        /\ txn[c].kind \in {"activity", "reply"} => txn[c].token > 0

\* What it read is still there.
RowsAreCurrent ==
    \A c \in Client :
        (txn[c] # None /\ txn[c].at = "checked" /\ txn[c].kind \in Patches) =>
            header[txn[c].sid] # None /\ txn[c].row = header[txn[c].sid]

\* A patch of the model that may change it has nothing at work beside it.
ModelChecksStand ==
    \A c \in Client : (txn[c] # None /\ txn[c].kind = "model" /\ fence > 0) =>
        /\ txn[c].token = 0 /\ txn[c].root = RootId
              /\ txn[c].at \in {"locked", "checked"} => ~Work
        /\ txn[c].token > 0 /\ txn[c].at = "checked" /\ txn[c].row.model # txn[c].value
              => ~Work

\* A creation is for a tree that has its root and has not been deleted.
CreationsStand ==
    \A c \in Client : (txn[c] # None /\ txn[c].kind = "create") =>
        /\ txn[c].sid # RootId => RootId \in Live \cup gone
        /\ txn[c].at = "checked" => {txn[c].sid, RootId} \cap gone = {}

\* A deletion has before it what it was told to delete.
DeletionsStand ==
    \A c \in Client : (txn[c] # None /\ txn[c].kind = "delete" /\ txn[c].at = "checked") =>
        /\ txn[c].expected # None => /\ txn[c].expected.header = header
                                     /\ txn[c].expected.activity = activity
                                     /\ request = "command" => txn[c].expected.command
        /\ ~txn[c].allow => ~Active

IInv ==
    /\ TypeOK
    /\ LocksAreHeld
    /\ RootsAreKnown
    /\ RowsAreCurrent
    /\ ModelChecksStand
    /\ CreationsStand
    /\ DeletionsStand
    /\ TreesStayDeleted

----------------------------------------------------------------------------

\* An open transaction is one of the records of Txn.
LEMMA TxnType ==
    ASSUME TypeOK, NEW c \in Client, txn[c] # None
    PROVE  /\ txn[c] \in Txn
           /\ txn[c].sid \in Session /\ txn[c].root \in Session
           /\ txn[c].token \in Nat /\ txn[c].kind \in Kinds
           /\ txn[c].value \in BOOLEAN
  BY DEF TypeOK, Txn

\* The initial state satisfies the invariant.
LEMMA InitIInv == Init => IInv
<1> SUFFICES ASSUME Init PROVE IInv
  OBVIOUS
<1>1. PICK found \in {{}} \cup {{RootId} \cup some : some \in SUBSET Child} :
        header = [a \in Session |-> IF a \in found THEN NewHeader ELSE None]
  BY DEF Init
<1>2. NewHeader \in Header /\ None \notin Header /\ RootId \in Session
  BY SessionRowsAssumption DEF NewHeader, Header, Session
<1>3. TypeOK
  BY <1>1, <1>2, SessionRowsAssumption DEF Init, TypeOK, Request
<1>4. TreesStayDeleted
  BY <1>1, <1>2 DEF Init, TreesStayDeleted, Live
<1>5. \A c \in Client : txn[c] = None
  BY DEF Init
<1> QED
  BY <1>3, <1>4, <1>5 DEF IInv, LocksAreHeld, RootsAreKnown, RowsAreCurrent,
     ModelChecksStand, CreationsStand, DeletionsStand

\* A step that ends a transaction and leaves the tables alone, the request it
\* answers apart, keeps the invariant.
LEMMA RollbackIInv ==
    ASSUME IInv, NEW c \in Client, Rollback(c) \/ Refuse(c)
    PROVE  IInv'
<1> USE DEF Rollback, Refuse, Release, tables
<1>1. /\ header' = header /\ gone' = gone /\ fence' = fence
      /\ activity' = activity /\ request' \in {request, "none"}
      /\ txn'[c] = None
      /\ \A d \in Client \ {c} : txn'[d] = txn[d]
  BY DEF IInv, TypeOK
<1>2. \A d \in Client \ {c} : \A a \in Session :
         /\ advisory[a] = d => advisory'[a] = d
         /\ rowLock[a] = d => rowLock'[a] = d
  OBVIOUS
<1>3. Live' = Live /\ (Busy <=> Busy') /\ (Work' => Work) /\ (Active' => Active)
  BY <1>1 DEF Live, Busy, Work, Active
<1>4. TypeOK'
  BY DEF IInv, TypeOK, Request
<1>5. LocksAreHeld'
  <2> SUFFICES ASSUME NEW d \in Client, txn'[d] # None
               PROVE  LocksAreHeld!(d)'
    BY DEF LocksAreHeld
  <2>1. d # c /\ txn'[d] = txn[d]
    BY <1>1
  <2> QED
    BY <1>2, <1>3, <2>1, TxnType DEF IInv, LocksAreHeld, Live
<1>6. RootsAreKnown' /\ RowsAreCurrent' /\ TreesStayDeleted'
  BY <1>1, <1>3 DEF IInv, RootsAreKnown, RowsAreCurrent, TreesStayDeleted, KnowsRoot
<1>7. ModelChecksStand' /\ CreationsStand' /\ DeletionsStand'
  BY <1>1, <1>3 DEF IInv, ModelChecksStand, CreationsStand, DeletionsStand
<1> QED
  BY <1>4, <1>5, <1>6, <1>7 DEF IInv

\* The call of a store.
LEMMA BeginIInv ==
    ASSUME IInv, NEW c \in Client, Begin(c)
    PROVE  IInv'
<1> USE DEF tables
<1>1. PICK t \in Txn :
        /\ txn' = [txn EXCEPT ![c] = t]
        /\ t.at \in {"begun", "lookedUp"} /\ t.root = RootId /\ t.guarded = FALSE
        /\ KnowsRoot(t.kind, t.token) => t.at = "lookedUp"
        /\ t.kind = "create" /\ t.sid # RootId => RootId \in Live \cup gone
        /\ t.kind \in {"activity", "reply"} => t.token > 0
  <2>1. Revision \in Revisions
    BY DEF IInv, TypeOK, Revision, Revisions
  <2>2. RootId \in Session /\ fence \in 0..MaxFence /\ MaxFence \in Nat
    BY SessionRowsAssumption DEF Session, IInv, TypeOK
  <2>3. PICK kind \in Kinds, sid \in Session, token \in 0..fence, value \in BOOLEAN,
             allow \in BOOLEAN, expected \in {None, Revision} :
          /\ kind \in {"activity", "reply"} => token > 0
          /\ kind = "create" /\ sid # RootId => RootId \in Live \cup gone
          /\ kind \in {"delete", "reply"} => sid = RootId
          /\ kind \in {"create", "delete", "reply"} => ~value
          /\ kind \in {"title", "model"} => value
          /\ kind # "delete" => ~allow /\ expected = None
          /\ expected # None => RootId \in Live
          /\ txn' = [txn EXCEPT ![c] = NewTxn(kind, sid, token, value, allow, expected)]
    BY Zenon DEF Begin
  <2> DEFINE u == NewTxn(kind, sid, token, value, allow, expected)
  <2>4. u \in Txn
    <3>1. token \in 0..MaxFence /\ expected \in Revisions \cup {None}
      BY <2>1, <2>2
    <3> QED
      BY <2>2, <3>1 DEF NewTxn, Txn
  <2>5. /\ u.at \in {"begun", "lookedUp"} /\ u.root = RootId /\ u.guarded = FALSE
        /\ u.kind = kind /\ u.sid = sid /\ u.token = token
        /\ KnowsRoot(kind, token) => u.at = "lookedUp"
    BY DEF NewTxn
  <2> QED
    BY <2>3, <2>4, <2>5
<1>2. /\ header' = header /\ gone' = gone /\ fence' = fence
      /\ activity' = activity /\ request' = request
      /\ advisory' = advisory /\ rowLock' = rowLock
      /\ txn'[c] = t
      /\ \A d \in Client \ {c} : txn'[d] = txn[d]
  BY <1>1 DEF Begin, IInv, TypeOK
<1>3. Live' = Live /\ (Busy <=> Busy') /\ (Work <=> Work') /\ (Active <=> Active')
  BY <1>2 DEF Live, Busy, Work, Active
<1>4. TypeOK'
  <2>1. begun' \in 0..MaxBegun
    BY SessionRowsAssumption DEF IInv, TypeOK, Begin
  <2> QED
    BY <1>1, <1>2, <2>1 DEF IInv, TypeOK, Begin
<1>5. LocksAreHeld' /\ RootsAreKnown'
  BY <1>1, <1>2, <1>3 DEF IInv, LocksAreHeld, RootsAreKnown, KnowsRoot
<1>6. RowsAreCurrent' /\ TreesStayDeleted'
  BY <1>1, <1>2, <1>3 DEF IInv, RowsAreCurrent, TreesStayDeleted
<1>7. ModelChecksStand' /\ CreationsStand' /\ DeletionsStand'
  BY <1>1, <1>2, <1>3 DEF IInv, ModelChecksStand, CreationsStand, DeletionsStand
<1> QED
  BY <1>4, <1>5, <1>6, <1>7 DEF IInv

\* The unlocked read of the root.
LEMMA LookupIInv ==
    ASSUME IInv, NEW c \in Client, Lookup(c)
    PROVE  IInv'
<1> USE DEF tables
<1> DEFINE t == txn'[c]
<1>1. /\ t \in Txn /\ t.at = "lookedUp" /\ t.guarded = txn[c].guarded
      /\ t.kind = txn[c].kind /\ t.sid = txn[c].sid /\ t.token = txn[c].token
      /\ txn[c] # None
      /\ txn' = [txn EXCEPT ![c] = t]
  BY TxnType DEF IInv, TypeOK, Lookup, Txn, Session
<1>2. /\ header' = header /\ gone' = gone /\ fence' = fence
      /\ activity' = activity /\ request' = request
      /\ advisory' = advisory /\ rowLock' = rowLock
      /\ \A d \in Client \ {c} : txn'[d] = txn[d]
  BY DEF Lookup, IInv, TypeOK
<1>3. Live' = Live /\ (Busy <=> Busy') /\ (Work <=> Work') /\ (Active <=> Active')
  BY <1>2 DEF Live, Busy, Work, Active
<1>4. TypeOK'
  BY <1>1 DEF IInv, TypeOK, Lookup
<1>5. ~KnowsRoot(t.kind, t.token)
  BY <1>1 DEF Lookup, KnowsRoot, IInv, TypeOK, RootsAreKnown
<1>6. LocksAreHeld' /\ RootsAreKnown'
  BY <1>1, <1>2, <1>3, <1>5 DEF IInv, LocksAreHeld, RootsAreKnown, KnowsRoot
<1>7. RowsAreCurrent' /\ TreesStayDeleted'
  BY <1>1, <1>2, <1>3 DEF IInv, RowsAreCurrent, TreesStayDeleted
<1>8. ModelChecksStand' /\ CreationsStand' /\ DeletionsStand'
  BY <1>1, <1>2, <1>3 DEF IInv, ModelChecksStand, CreationsStand, DeletionsStand
<1> QED
  BY <1>4, <1>6, <1>7, <1>8 DEF IInv

\* The root is locked, and what has to hold under its lock checked.
LEMMA LockIInv ==
    ASSUME IInv, NEW c \in Client, Lock(c)
    PROVE  IInv'
<1> USE DEF tables
<1> DEFINE t == txn[c]
           u == txn'[c]
<1>1. CASE ~Passes(t)
  BY <1>1, RollbackIInv DEF Lock
<1>2. CASE Passes(t)
  <2>1. /\ t # None /\ t \in Txn /\ t.root \in Session /\ t.at = "lookedUp"
        /\ advisory[t.root] = None
        /\ advisory' = [advisory EXCEPT ![t.root] = c]
        /\ rowLock' = rowLock /\ begun' = begun
        /\ header' = header /\ gone' = gone /\ fence' = fence /\ expired' = expired
        /\ activity' = activity /\ request' = request
    BY <1>2, TxnType DEF Lock, IInv
  <2>2. /\ u \in Txn /\ u.at \in {"locked", "checked"}
        /\ u.kind = t.kind /\ u.sid = t.sid /\ u.token = t.token /\ u.root = t.root
        /\ u.at = "checked" <=> t.kind \notin Patches \cup {"delete"}
        /\ u.guarded => t.kind = "model"
        /\ txn' = [txn EXCEPT ![c] = u]
    BY <1>2, <2>1 DEF Lock, IInv, TypeOK, Txn
  <2>3. \A d \in Client \ {c} : txn'[d] = txn[d]
    BY <2>2 DEF IInv, TypeOK
  <2>4. \A d \in Client : \A a \in Session : advisory[a] = d => advisory'[a] = d
    BY <2>1, SessionRowsAssumption DEF IInv, TypeOK
  <2>5. Live' = Live /\ (Busy <=> Busy') /\ (Work <=> Work') /\ (Active <=> Active')
    BY <2>1 DEF Live, Busy, Work, Active
  <2>6. TypeOK'
    BY <2>1, <2>2 DEF IInv, TypeOK
  <2>7. advisory'[u.root] = c
    BY <2>1, <2>2 DEF IInv, TypeOK
  <2>8. LocksAreHeld'
    <3> SUFFICES ASSUME NEW d \in Client, txn'[d] # None
                 PROVE  LocksAreHeld!(d)'
      BY DEF LocksAreHeld
    <3>1. CASE d = c
      BY <2>2, <2>7, <3>1
    <3>2. CASE d # c
      <4>1. txn'[d] = txn[d] /\ txn[d].root \in Session
        BY <2>2, <3>2, TxnType DEF IInv, TypeOK
      <4> QED
        BY <2>1, <2>4, <2>5, <4>1 DEF IInv, LocksAreHeld
    <3> QED
      BY <3>1, <3>2
  <2>9. RootsAreKnown'
    BY <2>1, <2>2, <2>3 DEF IInv, RootsAreKnown, KnowsRoot, Patches, Kinds, TypeOK, Txn
  <2>10. RowsAreCurrent' /\ TreesStayDeleted'
    BY <2>1, <2>2, <2>3, <2>5 DEF IInv, RowsAreCurrent, TreesStayDeleted
  <2>11. ModelChecksStand'
    BY <1>2, <2>1, <2>2, <2>3, <2>5
       DEF IInv, ModelChecksStand, Passes, Enrolled, Patches
  <2>12. CreationsStand'
    BY <1>2, <2>1, <2>2, <2>3, <2>5 DEF IInv, CreationsStand, Passes
  <2>13. DeletionsStand'
    BY <2>1, <2>2, <2>3, <2>5 DEF IInv, DeletionsStand
  <2> QED
    BY <2>6, <2>8, <2>9, <2>10, <2>11, <2>12, <2>13 DEF IInv
<1> QED
  BY <1>1, <1>2

\* The row to patch is locked and read.
LEMMA LockRowIInv ==
    ASSUME IInv, NEW c \in Client, LockRow(c)
    PROVE  IInv'
<1> USE DEF tables
<1> DEFINE t == txn[c]
           u == txn'[c]
           ok == /\ header[t.sid] # None
                 /\ t.token = 0 /\ t.kind # "append" => t.root = RootId
                 /\ t.token > 0 /\ t.kind = "model" /\ header[t.sid].model # t.value => ~Work
<1>1. CASE ~ok
  BY <1>1, RollbackIInv DEF LockRow
<1>2. CASE ok
  <2>1. /\ t # None /\ t \in Txn /\ t.sid \in Session /\ t.root \in Session
        /\ t.at = "locked" /\ t.kind \in Patches
        /\ rowLock[t.sid] = None /\ header[t.sid] \in Header
        /\ rowLock' = [rowLock EXCEPT ![t.sid] = c]
        /\ advisory' = advisory /\ begun' = begun
        /\ header' = header /\ gone' = gone /\ fence' = fence /\ expired' = expired
        /\ activity' = activity /\ request' = request
    BY <1>2, TxnType DEF LockRow, IInv, TypeOK
  <2>2. /\ u \in Txn /\ u.at = "checked" /\ u.row = header[t.sid]
        /\ u.kind = t.kind /\ u.sid = t.sid /\ u.token = t.token /\ u.root = t.root
        /\ u.value = t.value /\ u.guarded = t.guarded
        /\ txn' = [txn EXCEPT ![c] = u]
    BY <1>2, <2>1 DEF LockRow, IInv, TypeOK, Txn
  <2>3. \A d \in Client \ {c} : txn'[d] = txn[d]
    BY <2>2 DEF IInv, TypeOK
  <2>4. \A d \in Client : \A a \in Session : rowLock[a] = d => rowLock'[a] = d
    BY <2>1, SessionRowsAssumption DEF IInv, TypeOK
  <2>5. Live' = Live /\ (Busy <=> Busy') /\ (Work <=> Work') /\ (Active <=> Active')
    BY <2>1 DEF Live, Busy, Work, Active
  <2>6. TypeOK'
    BY <2>1, <2>2 DEF IInv, TypeOK
  <2>7. rowLock'[t.sid] = c
    BY <2>1 DEF IInv, TypeOK
  <2>8. LocksAreHeld'
    <3> SUFFICES ASSUME NEW d \in Client, txn'[d] # None
                 PROVE  LocksAreHeld!(d)'
      BY DEF LocksAreHeld
    <3>1. CASE d = c
      BY <2>1, <2>2, <2>7, <3>1 DEF IInv, LocksAreHeld, Patches
    <3>2. CASE d # c
      <4>1. txn'[d] = txn[d] /\ txn[d].sid \in Session
        BY <2>2, <3>2, TxnType DEF IInv, TypeOK
      <4> QED
        BY <2>1, <2>4, <2>5, <4>1 DEF IInv, LocksAreHeld, Live
    <3> QED
      BY <3>1, <3>2
  <2>9. RootsAreKnown'
    BY <1>2, <2>1, <2>2, <2>3 DEF IInv, RootsAreKnown, KnowsRoot, Patches, TypeOK, Txn
  <2>10. RowsAreCurrent' /\ TreesStayDeleted'
    BY <1>2, <2>1, <2>2, <2>3, <2>5 DEF IInv, RowsAreCurrent, TreesStayDeleted
  <2>11. ModelChecksStand'
    BY <1>2, <2>1, <2>2, <2>3, <2>5 DEF IInv, ModelChecksStand
  <2>12. CreationsStand' /\ DeletionsStand'
    BY <2>1, <2>2, <2>3, <2>5 DEF IInv, CreationsStand, DeletionsStand, Patches
  <2> QED
    BY <2>6, <2>8, <2>9, <2>10, <2>11, <2>12 DEF IInv
<1> QED
  BY <1>1, <1>2

\* The rows of the tree are locked, and the deletion decided on.
LEMMA LockTreeIInv ==
    ASSUME IInv, NEW c \in Client, LockTree(c)
    PROVE  IInv'
<1> USE DEF tables
<1> DEFINE t == txn[c]
           u == txn'[c]
           ok == (t.expected # None => t.expected = Revision) /\ (Active => t.allow)
<1>1. CASE ~ok
  BY <1>1, RollbackIInv DEF LockTree
<1>2. CASE ok
  <2>1. /\ t # None /\ t \in Txn /\ t.at = "locked" /\ t.kind = "delete"
        /\ \A a \in Live : rowLock[a] = None
        /\ rowLock' = [a \in Session |-> IF a \in Live THEN c ELSE rowLock[a]]
        /\ advisory' = advisory /\ begun' = begun
        /\ header' = header /\ gone' = gone /\ fence' = fence /\ expired' = expired
        /\ activity' = activity /\ request' = request
    BY <1>2, TxnType DEF LockTree, IInv
  <2>2. /\ u \in Txn /\ u.at = "checked"
        /\ u.kind = t.kind /\ u.sid = t.sid /\ u.token = t.token /\ u.root = t.root
        /\ u.expected = t.expected /\ u.allow = t.allow /\ u.guarded = t.guarded
        /\ txn' = [txn EXCEPT ![c] = u]
    BY <1>2, <2>1 DEF LockTree, IInv, TypeOK, Txn
  <2>3. \A d \in Client \ {c} : txn'[d] = txn[d]
    BY <2>2 DEF IInv, TypeOK
  <2>4. \A d \in Client : \A a \in Session : rowLock[a] = d => rowLock'[a] = d
    BY <2>1, SessionRowsAssumption DEF IInv, TypeOK
  <2>5. /\ Live' = Live /\ Live \subseteq Session
        /\ (Busy <=> Busy') /\ (Work <=> Work') /\ (Active <=> Active')
    BY <2>1 DEF Live, Busy, Work, Active
  <2>6. TypeOK'
    BY <2>1, <2>2 DEF IInv, TypeOK
  <2>7. LocksAreHeld'
    <3> SUFFICES ASSUME NEW d \in Client, txn'[d] # None
                 PROVE  LocksAreHeld!(d)'
      BY DEF LocksAreHeld
    <3>1. CASE d = c
      BY <2>1, <2>2, <2>5, <3>1 DEF IInv, LocksAreHeld, Patches
    <3>2. CASE d # c
      <4>1. txn'[d] = txn[d] /\ txn[d].sid \in Session
        BY <2>2, <3>2, TxnType DEF IInv, TypeOK
      <4> QED
        BY <2>1, <2>4, <2>5, <4>1 DEF IInv, LocksAreHeld
    <3> QED
      BY <3>1, <3>2
  <2>8. RootsAreKnown' /\ RowsAreCurrent' /\ TreesStayDeleted'
    BY <2>1, <2>2, <2>3, <2>5
       DEF IInv, RootsAreKnown, KnowsRoot, RowsAreCurrent, TreesStayDeleted, Patches
  <2>9. ModelChecksStand' /\ CreationsStand'
    BY <2>1, <2>2, <2>3, <2>5 DEF IInv, ModelChecksStand, CreationsStand
  <2>10. DeletionsStand'
    <3>1. u.expected # None => /\ u.expected.header = header
                               /\ u.expected.activity = activity
                               /\ request = "command" => u.expected.command
      <4>1. /\ Revision.header = header /\ Revision.activity = activity
            /\ request = "command" => Revision.command
        BY Zenon DEF Revision
      <4> QED
        BY <1>2, <2>2, <4>1
    <3>2. ~u.allow => ~Active
      BY <1>2, <2>2
    <3>3. DeletionsStand!(c)'
      BY <2>1, <2>5, <3>1, <3>2
    <3>4. ASSUME NEW d \in Client \ {c}
          PROVE  DeletionsStand!(d)'
      BY <2>1, <2>3, <2>5 DEF IInv, DeletionsStand
    <3> QED
      BY <3>3, <3>4 DEF DeletionsStand
  <2> QED
    BY <2>6, <2>7, <2>8, <2>9, <2>10 DEF IInv
<1> QED
  BY <1>1, <1>2

\* A patch is a header that differs from the row in what was set.
LEMMA PatchType ==
    ASSUME NEW t \in Txn, t.kind \in Patches, t.row \in Header
    PROVE  /\ Patched(t) \in Header
           /\ t.kind = "title" => Patched(t) = [t.row EXCEPT !.title = t.value]
           /\ t.kind = "model" => Patched(t) = [t.row EXCEPT !.model = t.value]
           /\ t.kind = "append" =>
                 Patched(t) = [t.row EXCEPT !.busy = t.value, !.lastSeq = @ + 1]
<1>1. t.value \in BOOLEAN
  BY DEF Txn
<1>2. CASE t.kind = "title"
  BY <1>1, <1>2 DEF Patched, Header
<1>3. CASE t.kind = "model"
  BY <1>1, <1>3 DEF Patched, Header
<1>4. CASE t.kind = "append"
  <2>1. Patched(t) = [t.row EXCEPT !.busy = t.value, !.lastSeq = @ + 1]
    BY <1>4 DEF Patched
  <2>2. t.row.lastSeq \in Nat
    BY DEF Header
  <2>3. t.row.lastSeq + 1 \in Nat
    BY <2>2
  <2> QED
    BY <1>1, <1>4, <2>1, <2>3 DEF Header
<1> QED
  BY <1>2, <1>3, <1>4 DEF Patches

\* Whoever writes has the root's lock or finds it free, so nobody else is past
\* the checks made under it; an append that locked something else has its row.
LEMMA WriteExcludes ==
    ASSUME IInv, NEW c \in Client, Write(c), NEW d \in Client \ {c}, txn[d] # None,
           txn[d].at \in {"locked", "checked"}
    PROVE  /\ txn[d].root # RootId
           /\ ~KnowsRoot(txn[d].kind, txn[d].token)
           /\ txn[d].at = "checked" => txn[d].kind = "append" /\ rowLock[txn[d].sid] = d
<1>1. advisory[txn[d].root] = d /\ d # None
  BY SessionRowsAssumption DEF IInv, LocksAreHeld
<1>2. txn[d].root # RootId
  BY <1>1 DEF Write
<1> QED
  BY <1>1, <1>2 DEF IInv, RootsAreKnown, LocksAreHeld, Patches

\* The last statement and the commit.
LEMMA WriteIInv ==
    ASSUME IInv, NEW c \in Client, Write(c)
    PROVE  IInv'
<1> DEFINE t == txn[c]
<1>1. CASE ~Commits(t)
  BY <1>1, RollbackIInv DEF Write
<1>2. CASE Commits(t)
  <2>1. /\ t # None /\ t \in Txn /\ t.at = "checked" /\ t.sid \in Session
        /\ t.kind \in Kinds /\ t.token \in Nat
        /\ Effect(t) /\ Release(c) /\ begun' = begun
        /\ RootId \in Session /\ None \notin Header /\ NewHeader \in Header
    BY <1>2, TxnType, SessionRowsAssumption
       DEF Write, IInv, Session, NewHeader, Header
  <2>2. /\ txn'[c] = None
        /\ \A d \in Client \ {c} :
              /\ txn'[d] = txn[d]
              /\ \A a \in Session : /\ advisory[a] = d => advisory'[a] = d
                                    /\ rowLock[a] = d => rowLock'[a] = d
    BY <2>1 DEF Release, IInv, TypeOK
  <2>3. t.kind \in Patches => /\ header[t.sid] \in Header /\ t.row = header[t.sid]
                              /\ rowLock[t.sid] = c /\ Patched(t) \in Header
    BY <2>1, PatchType DEF IInv, RowsAreCurrent, LocksAreHeld, TypeOK
  <2>4. header' = Stored(t)
    BY <2>1 DEF Effect, Activities, Requested
  <2>5. /\ t.kind \in Patches => header' = [header EXCEPT ![t.sid] = Patched(t)]
        /\ t.kind = "create" => header' = [header EXCEPT ![t.sid] = NewHeader]
        /\ t.kind = "delete" => header' = [a \in Session |-> None]
        /\ t.kind \in {"activity", "reply"} => header' = header
    BY <2>4 DEF Stored, Patches
  <2>6. /\ t.kind = "create" => t.sid \notin Live
        /\ t.kind = "delete" => \A a \in Live : rowLock[a] = c
    BY <1>2, <2>1 DEF Commits, IInv, LocksAreHeld
  <2>7. TypeOK'
    <3>1. header' \in [Session -> Header \cup {None}]
      BY <2>1, <2>3, <2>5 DEF IInv, TypeOK, Kinds
    <3>2. gone' \subseteq Session /\ activity' \subseteq Session /\ request' \in Request
      BY <2>1 DEF Effect, Activities, Requested, IInv, TypeOK, Live, Request
    <3>3. fence' \in 0..MaxFence /\ expired' \in BOOLEAN
      <4>1. CASE t.kind = "delete" /\ t.token > 0
        <5>1. fence \in 0..MaxFence /\ MaxFence \in Nat /\ fence < MaxFence
          BY <4>1, SessionRowsAssumption DEF Write, IInv, TypeOK
        <5>2. fence' = fence + 1 /\ expired' = TRUE
          BY <2>1, <4>1 DEF Effect, Activities, Requested
        <5> QED
          BY <5>1, <5>2
      <4>2. CASE ~(t.kind = "delete" /\ t.token > 0)
        BY <2>1, <4>2 DEF Effect, Activities, Requested, IInv, TypeOK
      <4> QED
        BY <4>1, <4>2
    <3>4. /\ txn' \in [Client -> Txn \cup {None}]
          /\ advisory' \in [Session -> Client \cup {None}]
          /\ rowLock' \in [Session -> Client \cup {None}]
      BY <2>1 DEF Release, IInv, TypeOK
    <3> QED
      BY <2>1, <3>1, <3>2, <3>3, <3>4 DEF IInv, TypeOK
  <2>8. LocksAreHeld' /\ RootsAreKnown'
    <3> SUFFICES ASSUME NEW d \in Client, txn'[d] # None
                 PROVE  LocksAreHeld!(d)' /\ RootsAreKnown!(d)'
      BY DEF LocksAreHeld, RootsAreKnown
    <3>1. d \in Client \ {c} /\ txn'[d] = txn[d] /\ txn[d].sid \in Session
                             /\ txn[d].root \in Session
      BY <2>2, TxnType DEF IInv
    <3>2. LocksAreHeld!(d)'
      BY <2>2, <3>1, WriteExcludes DEF IInv, LocksAreHeld
    <3>3. RootsAreKnown!(d)'
      BY <3>1 DEF IInv, RootsAreKnown, KnowsRoot
    <3> QED
      BY <3>2, <3>3
  <2>9. RowsAreCurrent'
    <3> SUFFICES ASSUME NEW d \in Client, txn'[d] # None, txn'[d].at = "checked",
                        txn'[d].kind \in Patches
                 PROVE  header'[txn[d].sid] # None /\ txn[d].row = header'[txn[d].sid]
                        /\ txn'[d] = txn[d]
      BY DEF RowsAreCurrent
    <3>1. d \in Client \ {c} /\ txn'[d] = txn[d] /\ txn[d].sid \in Session
      BY <2>2, TxnType DEF IInv
    <3>2. /\ header[txn[d].sid] # None /\ txn[d].row = header[txn[d].sid]
          /\ rowLock[txn[d].sid] = d
      BY <3>1, WriteExcludes DEF IInv, RowsAreCurrent
    <3>3. header'[txn[d].sid] = header[txn[d].sid]
      BY <2>1, <2>3, <2>5, <2>6, <3>1, <3>2 DEF Kinds, Live, IInv, TypeOK
    <3> QED
      BY <3>1, <3>2, <3>3
  <2>10. TreesStayDeleted'
    <3>1. CASE t.kind \in Patches
      <4>1. Live' = Live /\ gone' = gone
        BY <2>1, <2>3, <2>5, <3>1 DEF Live, Effect, Activities, Requested, IInv, TypeOK, Patches
      <4> QED
        BY <4>1 DEF IInv, TreesStayDeleted
    <3>2. CASE t.kind = "create"
      <4>1. Live' = Live \cup {t.sid} /\ gone' = gone
        BY <2>1, <2>5, <3>2 DEF Live, Effect, Activities, Requested, IInv, TypeOK
      <4>2. /\ t.sid # RootId => RootId \in Live
            /\ t.sid \notin gone
        BY <2>1, <3>2 DEF IInv, CreationsStand
      <4> QED
        BY <4>1, <4>2 DEF IInv, TreesStayDeleted
    <3>3. CASE t.kind = "delete"
      BY <2>5, <3>3 DEF Live, TreesStayDeleted
    <3>4. CASE t.kind \in {"activity", "reply"}
      BY <2>1, <2>5, <3>4 DEF Live, Effect, Activities, Requested, IInv, TreesStayDeleted
    <3> QED
      BY <2>1, <3>1, <3>2, <3>3, <3>4 DEF Kinds
  <2>11. ModelChecksStand' /\ DeletionsStand'
    BY <2>2, WriteExcludes DEF ModelChecksStand, DeletionsStand, KnowsRoot
  <2>12. CreationsStand'
    <3>1. Live \cup gone \subseteq Live' \cup gone'
      <4>1. CASE t.kind = "delete"
        BY <2>1, <4>1 DEF Effect, Activities, Requested
      <4>2. CASE t.kind # "delete"
        BY <2>1, <2>3, <2>5, <4>2 DEF Effect, Activities, Requested, Live, IInv, TypeOK, Kinds
      <4> QED
        BY <4>1, <4>2
    <3>2. ASSUME NEW d \in Client, txn'[d] # None, txn'[d].kind = "create"
          PROVE  /\ txn'[d] = txn[d] /\ d \in Client \ {c}
                 /\ txn'[d].at # "checked"
      BY <2>2, <3>2, WriteExcludes DEF KnowsRoot
    <3> QED
      BY <3>1, <3>2 DEF IInv, CreationsStand
  <2> QED
    BY <2>7, <2>8, <2>9, <2>10, <2>11, <2>12 DEF IInv
<1> QED
  BY <1>1, <1>2

\* The coordinator's transactions find the root's lock free, and time only ends
\* leases and requests.
LEMMA CoordinatorIInv ==
    ASSUME IInv, Acquire \/ Expire \/ DeadlinePasses
                 \/ \E kind \in {"command", "control"} : PutRequest(kind)
    PROVE  IInv'
<1>1. /\ header' = header /\ gone' = gone /\ advisory' = advisory
      /\ rowLock' = rowLock /\ txn' = txn /\ begun' = begun
  BY DEF Acquire, Expire, DeadlinePasses, PutRequest
<1>2. Live' = Live /\ (Busy <=> Busy')
  BY <1>1 DEF Live, Busy
<1>3. TypeOK'
  <2>1. fence' \in 0..MaxFence /\ expired' \in BOOLEAN
    <3>1. fence \in 0..MaxFence /\ MaxFence \in Nat /\ expired \in BOOLEAN
      BY SessionRowsAssumption DEF IInv, TypeOK
    <3>2. CASE Acquire
      <4>1. fence < MaxFence /\ fence' = fence + 1 /\ expired' = FALSE
        BY <3>2 DEF Acquire
      <4>2. fence' \in 0..MaxFence
        BY <3>1, <4>1
      <4>3. expired' \in BOOLEAN
        BY <4>1, Zenon
      <4> QED
        BY <4>2, <4>3
    <3>3. CASE ~Acquire
      BY <3>1, <3>3 DEF Expire, DeadlinePasses, PutRequest
    <3> QED
      BY <3>2, <3>3
  <2>2. activity' \subseteq Session /\ request' \in Request
    BY DEF IInv, TypeOK, Request, Acquire, Expire, DeadlinePasses, PutRequest
  <2> QED
    BY <1>1, <2>1, <2>2 DEF IInv, TypeOK
<1>4. LocksAreHeld' /\ RootsAreKnown' /\ RowsAreCurrent' /\ CreationsStand' /\ TreesStayDeleted'
  BY <1>1, <1>2 DEF IInv, LocksAreHeld, RootsAreKnown, RowsAreCurrent, CreationsStand,
     TreesStayDeleted
<1>5. CASE advisory[RootId] = None
  <2>1. ASSUME NEW c \in Client, txn[c] # None, txn[c].at \in {"locked", "checked"}
        PROVE  txn[c].root # RootId
    BY <1>5, <2>1, SessionRowsAssumption DEF IInv, LocksAreHeld
  <2>2. ASSUME NEW c \in Client, txn[c] # None, txn[c].at = "checked"
        PROVE  txn[c].kind = "append"
    BY <2>1, <2>2 DEF IInv, RootsAreKnown
  <2>3. ModelChecksStand' /\ DeletionsStand'
    BY <1>1, <2>1, <2>2 DEF ModelChecksStand, DeletionsStand
  <2> QED
    BY <1>3, <1>4, <2>3 DEF IInv
<1>6. CASE Expire \/ DeadlinePasses
  <2>1. /\ fence' = fence /\ activity' = activity /\ (request' = request \/ request' = "none")
    BY <1>6 DEF Expire, DeadlinePasses
  <2>2. (Work' => Work) /\ (Active' => Active)
    BY <1>2, <2>1 DEF Work, Active
  <2>3. ModelChecksStand' /\ DeletionsStand'
    BY <1>1, <2>1, <2>2 DEF IInv, ModelChecksStand, DeletionsStand
  <2> QED
    BY <1>3, <1>4, <2>3 DEF IInv
<1> QED
  BY <1>5, <1>6 DEF Acquire, PutRequest

\* Every step keeps the invariant.
LEMMA NextIInv == IInv /\ [Next]_vars => IInv'
<1> SUFFICES ASSUME IInv, [Next]_vars PROVE IInv'
  OBVIOUS
<1>1. CASE UNCHANGED vars
  BY <1>1 DEF vars, IInv, TypeOK, LocksAreHeld, RootsAreKnown, RowsAreCurrent,
     ModelChecksStand, CreationsStand, DeletionsStand, TreesStayDeleted, Live, Work,
     Active, Busy
<1>2. CASE Acquire \/ Expire \/ DeadlinePasses
           \/ \E kind \in {"command", "control"} : PutRequest(kind)
  BY <1>2, CoordinatorIInv
<1>3. ASSUME NEW c \in Client,
             Begin(c) \/ Lookup(c) \/ Lock(c) \/ LockRow(c) \/ LockTree(c) \/ Write(c)
                \/ Abort(c)
      PROVE  IInv'
  BY <1>3, BeginIInv, LookupIInv, LockIInv, LockRowIInv, LockTreeIInv, WriteIInv,
     RollbackIInv DEF Abort
<1> QED
  BY <1>1, <1>2, <1>3 DEF Next

LEMMA AlwaysIInv == Spec => []IInv
  BY InitIInv, NextIInv, PTL DEF Spec

\* The rows, the locks and what each transaction carries keep their types, however
\* patches, appends, creations, deletions and rollbacks interleave.
THEOREM TypeCorrect == Spec => []TypeOK
  BY AlwaysIInv, PTL DEF IInv

\* deleted_sessions is final: a deleted session never has a row again, and no
\* child has a row without its root, whatever creations and deletions run.
THEOREM DeletedStaysDeleted == Spec => []TreesStayDeleted
  BY AlwaysIInv, PTL DEF IInv

\* A step changes headers only if it is the commit of a transaction.
LEMMA HeadersChangeByCommits ==
    ASSUME IInv, [Next]_vars, header' # header \/ gone' # gone
    PROVE  \E c \in Client : Write(c) /\ Commits(txn[c])
<1>1. CASE UNCHANGED vars
  BY <1>1 DEF vars
<1>2. CASE Next
  BY <1>2 DEF Next, Acquire, Expire, DeadlinePasses, PutRequest, Begin, Lookup, Lock,
     LockRow, LockTree, Abort, Write, Rollback, Refuse, tables
<1> QED
  BY <1>1, <1>2

\* What a commit does to one row that was there: its transaction and the kinds
\* of change.
LEMMA CommitOfRow ==
    ASSUME IInv, [Next]_vars, NEW a \in Session, header[a] # None, header'[a] # header[a]
    PROVE  \E c \in Client :
              /\ txn[c] # None /\ txn'[c] = None /\ txn[c] \in Txn
              /\ Commits(txn[c]) /\ txn[c].at = "checked"
              /\ \/ /\ txn[c].kind \in Patches
                    /\ txn[c].sid = a /\ txn[c].row = header[a] /\ header[a] \in Header
                    /\ header'[a] = Patched(txn[c])
                 \/ txn[c].kind = "delete" /\ header'[a] = None
<1>1. PICK c \in Client : Write(c) /\ Commits(txn[c])
  BY HeadersChangeByCommits
<1> DEFINE t == txn[c]
<1>2. /\ t # None /\ t \in Txn /\ t.at = "checked" /\ t.kind \in Kinds /\ t.sid \in Session
      /\ header' = Stored(t) /\ txn'[c] = None
  BY <1>1, TxnType DEF Write, Effect, Activities, Requested, Release, IInv, TypeOK
<1>3. CASE t.kind \in Patches
  <2>1. header' = [header EXCEPT ![t.sid] = Patched(t)]
    BY <1>2, <1>3 DEF Stored, Patches
  <2>2. t.sid = a /\ header'[a] = Patched(t)
    BY <1>2, <2>1 DEF IInv, TypeOK
  <2>3. t.row = header[a] /\ header[a] \in Header
    BY <1>2, <1>3, <2>2 DEF IInv, RowsAreCurrent, TypeOK
  <2> QED
    BY <1>1, <1>2, <1>3, <2>2, <2>3
<1>4. CASE t.kind = "create"
  <2>1. header' = [header EXCEPT ![t.sid] = NewHeader] /\ t.sid \notin Live
    BY <1>1, <1>2, <1>4 DEF Stored, Patches, Commits
  <2> QED
    BY <1>2, <2>1 DEF Live, IInv, TypeOK
<1>5. CASE t.kind = "delete"
  BY <1>1, <1>2, <1>5 DEF Stored, Patches
<1>6. CASE t.kind \in {"activity", "reply"}
  BY <1>2, <1>6 DEF Stored, Patches
<1> QED
  BY <1>2, <1>3, <1>4, <1>5, <1>6 DEF Kinds

\* An enrolled tree is written by its valid owner alone, titles apart; its model
\* changes only when nothing is at work.
THEOREM EnrolledTreesAreFenced == Spec => FencedWrites
<1>1. IInv /\ [Next]_vars => FencedStep
  <2> SUFFICES ASSUME IInv, [Next]_vars, NEW a \in Session, fence > 0,
                      header[a] # None, header'[a] # header[a]
               PROVE  FencedStep!(a)
    BY DEF FencedStep
  <2>1. PICK c \in Client :
              /\ txn[c] # None /\ txn'[c] = None /\ txn[c] \in Txn
              /\ Commits(txn[c]) /\ txn[c].at = "checked"
              /\ \/ /\ txn[c].kind \in Patches
                    /\ txn[c].sid = a /\ txn[c].row = header[a] /\ header[a] \in Header
                    /\ header'[a] = Patched(txn[c])
                 \/ txn[c].kind = "delete" /\ header'[a] = None
    BY CommitOfRow
  <2> DEFINE t == txn[c]
  <2>2. t.value \in BOOLEAN /\ t.token \in Nat
    BY <2>1 DEF Txn
  <2>3. CASE t.kind = "title"
    BY <2>1, <2>2, <2>3, PatchType
  <2>4. CASE t.kind = "model"
    <3>1. header'[a] = [header[a] EXCEPT !.model = t.value]
      BY <2>1, <2>4, PatchType
    <3>2. t.row.model # t.value
      BY <2>1, <2>4, <3>1 DEF Header
    <3>3. ~Work
      BY <2>1, <2>2, <2>4, <3>2 DEF IInv, RootsAreKnown, ModelChecksStand
    <3> QED
      BY <2>2, <3>1, <3>3
  <2>5. CASE t.kind \in {"append", "delete"}
    <3>1. Owns(t)
      BY <2>1, <2>5 DEF Commits, Triggers, Undeleted, IInv, RootsAreKnown
    <3>2. header'[a] # None => header'[a].model = header[a].model
      <4>1. CASE t.kind = "append"
        <5>1. header'[a] = [header[a] EXCEPT !.busy = t.value, !.lastSeq = @ + 1]
          BY <2>1, <4>1, PatchType
        <5> QED
          BY <2>1, <4>1, <5>1 DEF Header
      <4>2. CASE t.kind = "delete"
        BY <2>1, <4>2 DEF Patches
      <4> QED
        BY <2>5, <4>1, <4>2
    <3> QED
      BY <2>1, <3>1, <3>2
  <2> QED
    BY <2>1, <2>3, <2>4, <2>5 DEF Patches
<1> QED
  BY <1>1, AlwaysIInv, PTL DEF Spec, FencedWrites

\* A patch or an append changes what it sets and nothing else: no update is lost
\* although the whole header is written back.
THEOREM NoUpdateIsLost == Spec => FieldsAreKept
<1>1. IInv /\ [Next]_vars => FieldsStep
  <2> SUFFICES ASSUME IInv, [Next]_vars, NEW a \in Session, header[a] # None,
                      header'[a] # None, header'[a] # header[a]
               PROVE  FieldsStep!(a)
    BY DEF FieldsStep
  <2>1. PICK c \in Client :
              /\ txn[c] \in Txn /\ txn[c].kind \in Patches
              /\ txn[c].row = header[a] /\ header[a] \in Header
              /\ header'[a] = Patched(txn[c])
    BY CommitOfRow
  <2>2. txn[c].value \in BOOLEAN
    BY <2>1 DEF Txn
  <2>3. header'[a] \in {[header[a] EXCEPT !.title = txn[c].value],
                        [header[a] EXCEPT !.model = txn[c].value],
                        [header[a] EXCEPT !.busy = txn[c].value, !.lastSeq = @ + 1]}
    BY <2>1, PatchType DEF Patches
  <2> QED
    BY <2>2, <2>3
<1> QED
  BY <1>1, AlwaysIInv, PTL DEF Spec, FieldsAreKept

\* Cleanup deletes the tree it selected, unchanged and idle.
THEOREM CleanupDeletesWhatItSelected == Spec => CleanupIsExact
<1>1. IInv /\ [Next]_vars => SelectionStep
  <2> SUFFICES ASSUME IInv, [Next]_vars, NEW c \in Client, txn[c] # None,
                      txn[c].kind = "delete", gone' # gone, txn'[c] = None
               PROVE  SelectionStep!(c)
    BY DEF SelectionStep
  <2>1. PICK d \in Client : Write(d) /\ Commits(txn[d])
    BY HeadersChangeByCommits
  <2>2. d = c
    BY <2>1 DEF Write, Release, IInv, TypeOK
  <2>3. txn[c].at = "checked"
    BY <2>1, <2>2 DEF Write
  <2> QED
    BY <2>3 DEF IInv, DeletionsStand
<1> QED
  BY <1>1, AlwaysIInv, PTL DEF Spec, CleanupIsExact

=============================================================================
