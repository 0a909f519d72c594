---------------------------- MODULE MCForwarding ----------------------------
(* Forwarding for TLC: two owners, two connections and three requests (a     *)
(* claim, a command and its retry, or the claim that replaces its writer).   *)
EXTENDS Forwarding, FiniteSets, TLC

CONSTANTS i1, i2, r1, r2, r3, w1, w2, c1

\* Instances, requests and connections are interchangeable, so they are used in
\* one order; it stands for SYMMETRY, which liveness does not allow.  Only asking
\* and acquiring are ordered, and neither is fair.
InOrder ==
    /\ ~Fresh(r2) => ~Fresh(r1)
    /\ ~Fresh(r3) => ~Fresh(r2)
    /\ (\E r \in Request : call[r].from = w2) => \E r \in Request : call[r].from = w1
    /\ generation = 1 => owner # i2

Late == {r \in Request : row[r].late}

\* Two requests meet a takeover, deadlines and two faults; three meet one of them.
DisturbancesAreFew == ~Fresh(r3) => faults + Cardinality(Late) + generation <= 2

MCSpec ==
    /\ Init
    /\ [][Next /\ (InOrder /\ DisturbancesAreFew)']_vars
    /\ \A i \in Instance : WF_vars(Dispatch(i))
=============================================================================
