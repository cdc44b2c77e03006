----------------------------- MODULE MCRunRules -----------------------------
(* Values of the constants of RunRules for TLC. *)
EXTENDS RunRules, TLC

CONSTANTS r1, r2

TwoRules == {r1, r2}
Symmetry == Permutations(TwoRules)
=============================================================================
