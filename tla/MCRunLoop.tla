----------------------------- MODULE MCRunLoop -----------------------------
(* Values of the constants of RunLoop for TLC: three subtasks, the first two   *)
(* of one phase, whose cap is two attempts.                                    *)
EXTENDS RunLoop

CONSTANT phase, none

TwoOfThree == [i \in 1 .. 3 |-> IF i < 3 THEN phase ELSE none]
CapTwo == [p \in {phase} |-> 2]
=============================================================================
