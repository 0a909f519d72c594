--------------------------- MODULE DeltaStream ---------------------------
(***************************************************************************)
(* One attempt of a sample with batched deltas (_stream_events): the       *)
(* provider's stream is read by a task of its own, deltas are collected    *)
(* until a batch is large, full or old enough, and _sample appends every   *)
(* batch before it asks for the next.  Deltas are numbered.                *)
(***************************************************************************)
EXTENDS Naturals, Sequences, SequencesExt

CONSTANTS
    DeltaBytes,     \* the size of each delta; its domain bounds their number
    BatchCount,     \* DELTA_BATCH_COUNT
    BatchBytes      \* DELTA_BATCH_BYTES

VARIABLES
    sent,           \* how many deltas the provider has produced
    stream,         \* "open", or how the provider's stream ended
    pending,        \* the read task: "none", "reading" or what it returned
    buffer,         \* the deltas collected
    late,           \* the deadline of the buffer has passed
    persisted,      \* the batches appended, in order
    sampler         \* "running", or the outcome of the attempt

streamVars == <<sent, stream, pending, buffer, late, persisted, sampler>>

Deltas == DOMAIN DeltaBytes

BytesOf(deltas) == FoldLeft(LAMBDA n, d : n + DeltaBytes[d], 0, deltas)

Init ==
    /\ sent = 0 /\ stream = "open"
    /\ pending = "none"
    /\ buffer = <<>> /\ late = FALSE
    /\ persisted = <<>>
    /\ sampler = "running"

\* The batch is yielded and appended by _sample.
Flush(batch) == persisted' = IF batch = <<>> THEN persisted ELSE Append(persisted, batch)

\* The task that reads the next item is created.
Read ==
    /\ sampler = "running"
    /\ pending = "none"
    /\ ~(buffer # <<>> /\ late)
    /\ pending' = "reading"
    /\ UNCHANGED <<sent, stream, buffer, late, persisted, sampler>>

\* The provider produces a delta, ends its stream with or without a StreamEnd,
\* or fails.
Produce ==
    /\ pending = "reading"
    /\ stream = "open"
    /\ \/ /\ sent + 1 \in Deltas
          /\ sent' = sent + 1 /\ pending' = "delta" /\ UNCHANGED stream
       \/ \E how \in {"end", "exhausted", "error"} :
              stream' = how /\ pending' = how /\ UNCHANGED sent
    /\ UNCHANGED <<buffer, late, persisted, sampler>>

Expire ==
    /\ sampler = "running"
    /\ buffer # <<>> /\ ~late
    /\ late' = TRUE
    /\ UNCHANGED <<sent, stream, pending, buffer, persisted, sampler>>

\* The wait timed out, or the deadline passed while a batch was appended.
FlushLate ==
    /\ sampler = "running"
    /\ buffer # <<>> /\ late
    /\ Flush(buffer)
    /\ buffer' = <<>> /\ late' = FALSE
    /\ UNCHANGED <<sent, stream, pending, sampler>>

\* A delta arrives: the buffer goes first if the delta does not fit, and the
\* batch goes at once if it is full.
Collect ==
    /\ sampler = "running"
    /\ pending = "delta"
    /\ ~(buffer # <<>> /\ late)
    /\ pending' = "none"
    /\ LET over == buffer # <<>> /\ BytesOf(buffer) + DeltaBytes[sent] > BatchBytes
           next == IF over THEN <<sent>> ELSE Append(buffer, sent)
           full == Len(next) >= BatchCount \/ BytesOf(next) >= BatchBytes
           out == (IF over THEN <<buffer>> ELSE <<>>) \o (IF full THEN <<next>> ELSE <<>>)
       IN  /\ persisted' = persisted \o out
           /\ buffer' = IF full THEN <<>> ELSE next
           /\ late' = FALSE
    /\ UNCHANGED <<sent, stream, sampler>>

\* A mutant of Finish that leaves the buffer behind.
FinishUnflushed ==
    /\ sampler = "running"
    /\ pending \in {"end", "exhausted", "error"}
    /\ sampler' = pending
    /\ pending' = "none"
    /\ UNCHANGED <<sent, stream, buffer, late, persisted>>

\* The stream is over: what is left goes before the StreamEnd, before the
\* iterator ends and before the provider's error.
Finish ==
    /\ sampler = "running"
    /\ pending \in {"end", "exhausted", "error"}
    /\ ~(buffer # <<>> /\ late)
    /\ Flush(buffer)
    /\ buffer' = <<>> /\ late' = FALSE
    /\ sampler' = pending
    /\ pending' = "none"
    /\ UNCHANGED <<sent, stream>>

\* The turn is cancelled: the read task is cancelled and what is buffered is
\* lost with the attempt.
Cancel ==
    /\ sampler = "running"
    /\ sampler' = "cancelled"
    /\ pending' = "none" /\ buffer' = <<>> /\ late' = FALSE
    /\ UNCHANGED <<sent, stream, persisted>>

Next == Read \/ Produce \/ Expire \/ FlushLate \/ Collect \/ Finish \/ Cancel

Spec == Init /\ [][Next]_streamVars

----------------------------------------------------------------------------

\* The deltas appended, followed by those on the way, are those the provider
\* produced, in order, and none is missing once the attempt is over.
DeltasAreKept ==
    LET kept == FlattenSeq(persisted) \o buffer \o (IF pending = "delta" THEN <<sent>> ELSE <<>>) IN
    /\ sampler # "cancelled" => kept = [k \in 1..sent |-> k]
    /\ sampler \notin {"running", "cancelled"} => Len(FlattenSeq(persisted)) = sent

\* A batch exceeds neither limit, unless it is one delta that does.
BatchesAreBounded ==
    \A k \in DOMAIN persisted :
        /\ Len(persisted[k]) \in 1..BatchCount
        /\ BytesOf(persisted[k]) <= BatchBytes \/ Len(persisted[k]) = 1
=============================================================================
