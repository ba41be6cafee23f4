---------------------------- MODULE MCThreadPool ----------------------------
(* Small instances of ThreadPool for TLC. *)
EXTENDS ThreadPool, TLC

\* Workers and tasks are interchangeable.
Symmetry == Permutations(Workers) \cup Permutations(Tasks)
=============================================================================
