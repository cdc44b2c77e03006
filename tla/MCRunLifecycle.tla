--------------------------- MODULE MCRunLifecycle ---------------------------
(* RunLifecycle for TLC: two or three interchangeable processes. *)
EXTENDS RunLifecycle, TLC

ProcSymmetry == Permutations(Procs)

=============================================================================
