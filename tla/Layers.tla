------------------------------- MODULE Layers -------------------------------
(***************************************************************************)
(* Settings as partial functions: one setting, and one layer over another, *)
(* the way the loaders and resolvers of saifctl spread one object over the *)
(* next ({ ...lower, ...upper }).  These are :> and @@ of module TLC, of   *)
(* which TLAPS has no definition.                                          *)
(***************************************************************************)

k ::= v == [x \in {k} |-> v]

f ++ g ==
    LET upper == DOMAIN f
    IN  [x \in upper \union DOMAIN g |-> IF x \in upper THEN f[x] ELSE g[x]]
=============================================================================
