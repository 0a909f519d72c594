------------------------------ MODULE MCLease ------------------------------
(* Lease for TLC, alone and with two runtimes: what the design says of an    *)
(* expired lease.                                                            *)
EXTENDS Lease

CONSTANTS i1, i2
=============================================================================
