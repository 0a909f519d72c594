------------------------------ MODULE Journal ------------------------------
(***************************************************************************)
(* The operational content of one actor's append-only journal and the two  *)
(* reductions every part of the runtime decides by: reduce_journal (what   *)
(* is pending, what is incomplete) and reduce_header (the cached status).  *)
(* Events that no decision reads (samples, tool calls, text) are left out. *)
(* AgentFinished is written by no current code path and is left out too.   *)
(***************************************************************************)
EXTENDS Naturals, Sequences, FiniteSets

Terminal == {"TurnCompleted", "TurnFailed", "TurnCancelled", "TurnInterrupted"}

Queued(c) == [kind |-> "InputQueued", id |-> c]

Started(c) == [kind |-> "TurnStarted", id |-> c]

Ended(kind, c) == [kind |-> kind, id |-> c]

\* CancellationRequested: the turns it cancels are fixed when it is recorded.
Cancellation(k, targets, descendants) ==
    [kind |-> "CancellationRequested", id |-> k, targets |-> targets,
     descendants |-> descendants]

----------------------------------------------------------------------------
(* reduce_journal *)

Ids(j, kinds) == {j[n].id : n \in {m \in DOMAIN j : j[m].kind \in kinds}}

terminal(j) == Ids(j, Terminal)

started(j) == Ids(j, {"TurnStarted"})

\* The elements of a set of positions from the smallest to the largest, and
\* the elements of a sequence at those positions.
InOrder(P) ==
    [k \in 1 .. Cardinality(P) |->
        CHOOSE n \in P : Cardinality({m \in P : m <= n}) = k]

Chosen(s, P) == [k \in 1 .. Cardinality(P) |-> s[InOrder(P)[k]]]

\* The inputs neither started nor ended, in journal order.
PendingAt(j) ==
    {n \in DOMAIN j : j[n].kind = "InputQueued"
                      /\ j[n].id \notin started(j) \cup terminal(j)}

pending(j) == Chosen(j, PendingAt(j))

PendingIds(j) == {j[n].id : n \in PendingAt(j)}

\* The started turns that have not ended; the reduction keeps the last one.
OpenTurns(j) ==
    {n \in DOMAIN j : j[n].kind = "TurnStarted" /\ j[n].id \notin terminal(j)}

\* The incomplete turn's id as a set of at most one element.
incomplete(j) ==
    {j[n].id : n \in {m \in OpenTurns(j) : \A o \in OpenTurns(j) : o <= m}}

Live(j) == PendingIds(j) \cup incomplete(j)

----------------------------------------------------------------------------
(* reduce_header *)

\* status, current_turn_id and last_turn of a new session.
NewHeader(none) == [status |-> "idle", current |-> none, last |-> none]

StatusAfter(kind) ==
    CASE kind = "TurnCompleted" -> "idle"
      [] kind = "TurnFailed" -> "failed"
      [] kind = "TurnCancelled" -> "cancelled"
      [] kind = "TurnInterrupted" -> "interrupted"

\* Mutant: a cancellation does not clear the current turn.
KeepsCancelledTurn(h, e, none) ==
    CASE e.kind = "InputQueued" ->
            IF h.current = none THEN [h EXCEPT !.status = "queued"] ELSE h
      [] e.kind = "TurnStarted" ->
            [h EXCEPT !.status = "running", !.current = e.id]
      [] e.kind \in Terminal \ {"TurnCancelled"} ->
            [status |-> StatusAfter(e.kind), current |-> none, last |-> e.id]
      [] OTHER -> h

reduce_header(h, e, none) ==
    CASE e.kind = "InputQueued" ->
            IF h.current = none THEN [h EXCEPT !.status = "queued"] ELSE h
      [] e.kind = "TurnStarted" ->
            [h EXCEPT !.status = "running", !.current = e.id]
      [] e.kind \in Terminal ->
            [status |-> StatusAfter(e.kind), current |-> none, last |-> e.id]
      [] OTHER -> h
=============================================================================
