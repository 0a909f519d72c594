----------------------------- MODULE MCTakeover -----------------------------
(* Takeover for TLC, where recovery may fail after it has activated an       *)
(* actor: one input for the child, one failure of recovery, one expiry.      *)
EXTENDS Takeover

MCBudgets ==
    {[parent |-> 0, child |-> 1, fail |-> 0, recovery |-> 1, expire |-> 1,
      crash |-> 0, close |-> 0, cancel |-> 0]}
=============================================================================
