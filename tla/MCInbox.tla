------------------------------- MODULE MCInbox ------------------------------
(* Small instances of Inbox for TLC. *)
EXTENDS Inbox, TLC

\* Workers, keys, digests and results are interchangeable; a CHOOSE of the
\* module only fills calls that have not begun.
Symmetry == Permutations(Worker) \cup Permutations(Result)
=============================================================================
