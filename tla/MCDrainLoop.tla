---------------------------- MODULE MCDrainLoop ----------------------------
(* DrainLoop for TLC. *)
EXTENDS DrainLoop

CONSTANTS u1, u2, u3, e1, k1, t1, t2, t3

\* Tasks are interchangeable, and so are the inputs a user sends.
Symmetry == Permutations(Task) \cup Permutations(UserInput)

\* The queue of reduce_journal filters the journal in its order: on positions,
\* Chosen is SelectSeq.
ASSUME QueueKeepsOrder ==
    \A n \in 0 .. 5 : \A P \in SUBSET (1 .. n) :
        LET positions == [i \in 1 .. n |-> i]
        IN  Chosen(positions, P) = SelectSeq(positions, LAMBDA i : i \in P)

\* Three calls, and two more where a restart has cut a cancellation short: with
\* them an input sent again wakes the queue, and the cancellation is repeated
\* while a turn runs.
MayCall ==
    \/ calls < 3
    \/ restarts > 0 /\ ~(Ids(journal, {"CancellationRequested"}) \subseteq acknowledged)

\* Next, with the clients held to such calls.
MCNext ==
    \/ MayCall /\ \E c \in UserInput : Send(c)
    \/ MayCall /\ \E c \in EventInput : DeliverInput(c)
    \/ MayCall /\ \E c \in EventInput : ActorSend(c)
    \/ MayCall /\ \E k \in CancelId, d \in BOOLEAN : CancelLocal(k, d)
    \/ MayCall /\ \E k \in CancelId, d \in BOOLEAN : CancelCoordinated(k, d)
    \/ CancelTurn
    \/ CancelStop
    \/ CancelEnd
    \/ CancelEffects
    \/ Close
    \/ CloseActor
    \/ CloseTasks
    \/ Restart
    \/ \E t \in Task : Drain(t)
    \/ \E t \in Task : Raise(t)

MCSpec == Init /\ [][MCNext]_vars
=============================================================================
