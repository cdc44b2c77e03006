---------------------------- MODULE MCDelivery ----------------------------
(* Values of the constants of Delivery for TLC: a run of two commits, each  *)
(* with an edit and a new file.                                             *)
EXTENDS Delivery

TwoCommits == <<{"edit one", "file one"}, {"edit two", "file two"}>>
=============================================================================
