----------------------------- MODULE FencedLog -----------------------------
(***************************************************************************)
(* What root ownership promises to everything that writes a session tree:  *)
(* the commits of one root form a log that is cut into epochs, an epoch    *)
(* has one writer, and once a newer epoch exists nothing of an older one   *)
(* is ever added.  Epoch 0 is the time before the root is enrolled in      *)
(* coordination, when any store client may write.  Lease implements this.  *)
(***************************************************************************)
EXTENDS Naturals, Sequences

CONSTANTS
    Instance,   \* the runtimes that share one database
    NoOne       \* no runtime owns the root

VARIABLES
    log,        \* the commits in commit order, each [by, epoch]
    epoch,      \* the current epoch
    writer      \* who may write in it

logVars == <<log, epoch, writer>>

LogInit ==
    /\ log = <<>>
    /\ epoch = 0
    /\ writer = NoOne

\* The current writer (anybody in epoch 0) adds to the log; it may close the
\* epoch in the same step, which a deletion and a relinquishment do.
Extend ==
    /\ \E i \in Instance :
          /\ epoch = 0 \/ writer = i
          /\ log' = Append(log, [by |-> i, epoch |-> epoch])
    /\ \/ UNCHANGED <<epoch, writer>>
       \/ writer' = NoOne /\ epoch' \in {epoch, epoch + 1}

\* A new epoch starts with a writer of its own.
Grant ==
    /\ \E i \in Instance : writer' = i
    /\ epoch' = epoch + 1
    /\ UNCHANGED log

\* The writer gives its epoch up without writing.
Retire ==
    /\ writer' = NoOne
    /\ UNCHANGED <<log, epoch>>

LogNext == Extend \/ Grant \/ Retire

LogSpec == LogInit /\ [][LogNext]_logVars
=============================================================================
