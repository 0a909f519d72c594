----------------------------- MODULE FileStore -----------------------------
(***************************************************************************)
(* FileSystemStore: one session directory shared by several processes.     *)
(* events.jsonl is the journal, one line per event; session.json is the    *)
(* header, replaced as a whole; .lock is held with flock by every writer.  *)
(* A writer can stop at any point, between any two system calls, and the   *)
(* next one repairs what it left: a partial last line is cut off, and a    *)
(* header that is behind the journal gets the journal's last seq.  A power *)
(* loss also takes the lines and the header versions not yet on disk.      *)
(* Two things go wrong when a writer dies between a line and its fsync, the  *)
(* next one repairs the header, and power is lost before anything is synced: *)
(* a line that enqueue has reported as a duplicate is gone, and a repaired   *)
(* header that reached the disk skips the seqs of the lines that did not.    *)
(***************************************************************************)
EXTENDS Integers, Sequences, FiniteSets, Journal

CONSTANTS
    Proc,        \* the processes
    NoOne,       \* the lock is free
    Batches,     \* what append may be called with: sequences of events
    Commands,    \* the command ids of enqueue
    MaxLines,    \* bound on the length of the journal
    MaxPatches,  \* bound on the header patches
    Faults       \* the scenarios: records of how many crashes and power losses

VARIABLES
    budget,      \* faults left in this behaviour
    dir,         \* "absent", "bare" (no header yet) or "ready"
    file,        \* the complete lines of events.jsonl: [seq, event]
    torn,        \* a partial line follows them
    synced,      \* how many lines the last fsync has made durable
    header,      \* session.json: last_seq and a patched field
    disk,        \* a version of it that would survive a power loss
    lock,        \* the holder of the flock
    proc,        \* process -> its call
    acked,       \* history: the lines reported to a caller as written, less the
                 \* lent ones a power loss took
    lent,        \* history: those reported as duplicates before any fsync
    skipped,     \* history: the seqs a header counts whose lines power loss took
    patched      \* history: the patches that returned, less what a power loss took

vars == <<budget, dir, file, torn, synced, header, disk, lock, proc, acked,
          lent, skipped, patched>>

\* The histories of what a power loss does, and the faults left.
losses == <<budget, lent, skipped, patched>>

NoTitle == 0

\* Of the reduced fields (Journal.reduce_header) no property speaks here.
NewFile == [last |-> 0, title |-> NoTitle]

Resting == [pc |-> "rest", op |-> "none", batch |-> <<>>, local |-> NewFile,
            seq |-> 0]

Init ==
    /\ budget \in Faults
    /\ dir = "absent"
    /\ file = <<>>
    /\ torn = FALSE
    /\ synced = 0
    /\ header = NewFile
    /\ disk = NewFile
    /\ lock = NoOne
    /\ proc = [p \in Proc |-> Resting]
    /\ acked = {}
    /\ lent = {}
    /\ skipped = {}
    /\ patched = NoTitle

At(p, l) == proc[p].pc = l

Step(p, l) == proc' = [proc EXCEPT ![p].pc = l]

-----------------------------------------------------------------------------
(* create: mkdir decides who creates the session, without the lock. *)

CreateDirectory(p) ==
    /\ At(p, "rest") /\ dir = "absent"
    /\ dir' = "bare"
    /\ Step(p, "create")
    /\ UNCHANGED <<losses, file, torn, synced, header, disk, lock, acked>>

CreateHeader(p) ==
    /\ At(p, "create")
    /\ dir' = "ready"
    /\ proc' = [proc EXCEPT ![p] = Resting]
    /\ UNCHANGED <<losses, file, torn, synced, header, disk, lock, acked>>

-----------------------------------------------------------------------------
(* append and enqueue. *)

Begin(p, op, batch) ==
    /\ At(p, "rest") /\ dir = "ready" /\ lock = NoOne
    /\ Len(file) + Len(batch) <= MaxLines
    /\ lock' = p
    /\ proc' = [proc EXCEPT ![p] = [pc |-> "truncate", op |-> op, batch |-> batch,
                                    local |-> header, seq |-> 0]]
    /\ UNCHANGED <<losses, dir, file, torn, synced, header, disk, acked>>

AppendCall(p) == \E b \in Batches : Begin(p, "append", b)

EnqueueCall(p) == \E c \in Commands : Begin(p, "enqueue", <<Queued(c)>>)

\* Mutant: the cut goes back one line too far.
TruncatePastLine(p) ==
    /\ At(p, "truncate")
    /\ torn' = FALSE
    /\ file' = IF torn /\ file # <<>> THEN SubSeq(file, 1, Len(file) - 1) ELSE file
    /\ synced' = IF torn THEN Len(file') ELSE synced
    /\ lent' = IF torn THEN {} ELSE lent
    /\ Step(p, "repair")
    /\ UNCHANGED <<budget, patched, skipped, dir, header, disk, lock, acked>>

\* _truncate_partial_tail: cuts after the last newline, and syncs if it cut.
Truncate(p) ==
    /\ At(p, "truncate")
    /\ torn' = FALSE
    /\ synced' = IF torn THEN Len(file) ELSE synced
    /\ lent' = IF torn THEN {} ELSE lent
    /\ Step(p, "repair")
    /\ UNCHANGED <<budget, patched, skipped, dir, file, header, disk, lock, acked>>

TailSeq == IF file = <<>> THEN 0 ELSE file[Len(file)].seq

\* A replaced header may or may not have reached the disk.
WriteHeader(h) ==
    /\ header' = h
    /\ disk' \in {disk, h}

\* The journal's last seq wins over a header that is behind.
Repair(p) ==
    /\ At(p, "repair")
    /\ IF TailSeq > proc[p].local.last
       THEN /\ proc' = [proc EXCEPT ![p].pc = "scan", ![p].local.last = TailSeq]
            /\ WriteHeader([proc[p].local EXCEPT !.last = TailSeq])
       ELSE /\ Step(p, "scan")
            /\ UNCHANGED <<header, disk>>
    /\ UNCHANGED <<losses, dir, file, torn, synced, lock, acked>>

Same(p) == {n \in DOMAIN file : file[n].event = proc[p].batch[1]}

Known(p) == Same(p)

\* enqueue looks its command up in the whole journal, and reports the line it
\* finds as a duplicate, without a sync; append writes at once.
Scan(p) ==
    /\ At(p, "scan")
    /\ IF proc[p].op = "enqueue" /\ Known(p) # {}
       THEN /\ acked' = acked \cup {file[n] : n \in Known(p)}
            /\ lent' = lent \cup {file[n] : n \in {m \in Known(p) : m > synced}}
            /\ proc' = [proc EXCEPT ![p] = Resting]
            /\ lock' = NoOne
       ELSE /\ proc' = [proc EXCEPT ![p].pc = "write", ![p].seq = proc[p].local.last]
            /\ UNCHANGED <<acked, lent, lock>>
    /\ UNCHANGED <<budget, patched, skipped, dir, file, torn, synced, header, disk>>

Written(p) == proc[p].seq - proc[p].local.last

\* handle.write: a part of a line reaches the file before the whole does.
WritePart(p) ==
    /\ At(p, "write") /\ Written(p) < Len(proc[p].batch) /\ ~torn
    /\ torn' = TRUE
    /\ UNCHANGED <<losses, dir, file, synced, header, disk, lock, proc, acked>>

WriteLine(p) ==
    /\ At(p, "write") /\ Written(p) < Len(proc[p].batch) /\ torn
    /\ torn' = FALSE
    /\ file' = Append(file, [seq |-> proc[p].seq + 1,
                              event |-> proc[p].batch[Written(p) + 1]])
    /\ proc' = [proc EXCEPT ![p].seq = @ + 1]
    /\ UNCHANGED <<losses, dir, synced, header, disk, lock, acked>>

\* os.fsync
Sync(p) ==
    /\ At(p, "write") /\ Written(p) = Len(proc[p].batch)
    /\ synced' = Len(file)
    /\ lent' = {}
    /\ Step(p, "publish")
    /\ UNCHANGED <<budget, patched, skipped, dir, file, torn, header, disk, lock, acked>>

\* The header is replaced by its reduction and the call returns.
Publish(p) ==
    /\ At(p, "publish")
    /\ WriteHeader([proc[p].local EXCEPT !.last = proc[p].seq])
    /\ acked' = acked \cup {file[n] : n \in (Len(file) - Len(proc[p].batch) + 1) .. Len(file)}
    /\ lock' = NoOne
    /\ proc' = [proc EXCEPT ![p] = Resting]
    /\ UNCHANGED <<losses, dir, file, torn, synced>>

-----------------------------------------------------------------------------
(* patch_header and put_header: read, change and replace under the lock. *)

BeginPatch(p) ==
    /\ At(p, "rest") /\ dir = "ready" /\ lock = NoOne /\ header.title < MaxPatches
    /\ lock' = p
    /\ proc' = [proc EXCEPT ![p] = [Resting EXCEPT !.pc = "patch", !.local = header]]
    /\ UNCHANGED <<losses, dir, file, torn, synced, header, disk, acked>>

PatchHeader(p) ==
    /\ At(p, "patch")
    /\ WriteHeader([proc[p].local EXCEPT !.title = @ + 1])
    /\ patched' = patched + 1
    /\ lock' = IF lock = p THEN NoOne ELSE lock
    /\ proc' = [proc EXCEPT ![p] = Resting]
    /\ UNCHANGED <<budget, lent, skipped, dir, file, torn, synced, acked>>

-----------------------------------------------------------------------------
(* Faults. *)

\* The process dies where it is; the system releases its flock.
Crash(p) ==
    /\ budget.crash > 0 /\ ~At(p, "rest")
    /\ budget' = [budget EXCEPT !.crash = @ - 1]
    /\ proc' = [proc EXCEPT ![p] = Resting]
    /\ lock' = IF lock = p THEN NoOne ELSE lock
    /\ UNCHANGED <<patched, lent, skipped, dir, file, torn, synced, header, disk, acked>>

Lines == {file[n] : n \in DOMAIN file}

\* Every process dies; what was not synced may be lost, from the end on.
PowerLoss ==
    /\ budget.power > 0 /\ dir = "ready"
    /\ budget' = [budget EXCEPT !.power = @ - 1]
    /\ proc' = [p \in Proc |-> Resting]
    /\ lock' = NoOne
    /\ \E n \in synced .. Len(file) :
          /\ file' = SubSeq(file, 1, n)
          /\ torn' \in {torn /\ n = Len(file), n < Len(file), FALSE}
          /\ synced' = n
    /\ header' \in {header, disk}
    /\ disk' = header'
    /\ patched' = header'.title
    /\ acked' = acked \ (lent \ Lines')
    /\ lent' = {}
    /\ skipped' = skipped \cup (TailSeq' + 1 .. header'.last)
    /\ UNCHANGED dir

Next ==
    \/ \E p \in Proc :
          \/ CreateDirectory(p) \/ CreateHeader(p)
          \/ AppendCall(p) \/ EnqueueCall(p)
          \/ Truncate(p) \/ Repair(p) \/ Scan(p)
          \/ WritePart(p) \/ WriteLine(p) \/ Sync(p) \/ Publish(p)
          \/ BeginPatch(p) \/ PatchHeader(p)
          \/ Crash(p)
    \/ PowerLoss

Spec == Init /\ [][Next]_vars

-----------------------------------------------------------------------------
(* Properties. *)

\* Every line a caller was told of is still in the journal, after any crash,
\* power loss and repair: the fsync of its call made it durable, or it was
\* reported as a duplicate.  Only a duplicate whose writer died before its fsync,
\* and that no fsync reached since, can be lost with the power.
AcknowledgedLinesAreKept == acked \subseteq Lines

\* The seqs grow with the lines and miss none, but those that a header on disk
\* had counted before a power loss took their lines.
SeqsAreContiguous ==
    /\ \A m, n \in DOMAIN file : m < n => file[m].seq < file[n].seq
    /\ 1 .. TailSeq \subseteq {l.seq : l \in Lines} \cup skipped

\* A command retried after a crash, by the same or by another process, is in
\* the journal once.
CommandsAreQueuedOnce ==
    \A m, n \in DOMAIN file :
        file[m].event = file[n].event /\ file[m].event.kind = "InputQueued" => m = n

\* A patch that returned survives appends and patches of other processes.
PatchesAreKept == header.title >= patched
=============================================================================
