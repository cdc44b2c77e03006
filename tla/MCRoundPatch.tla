----------------------------- MODULE MCRoundPatch -----------------------------
(* Two files of code (one of them to be made), a holdout test, a note of the   *)
(* agent and a file git ignores.                                               *)
EXTENDS RoundPatch

MCPlace == [p \in Paths |-> CASE p \in {"code", "more"} -> "product"
                              [] p = "test" -> "feature"
                              [] p = "note" -> "workspace"
                              [] p = "cache" -> "ignored"]
=============================================================================
