---------------------------- MODULE MCEdgeRuntime ---------------------------
(* Small instances of EdgeRuntime for TLC. *)
EXTENDS EdgeRuntime, TLC

\* Calls that run at the same time are interchangeable.
Symmetry == Permutations(Op)
=============================================================================
