---------------------------- MODULE MCServerLife ----------------------------
(* Small instances of ServerLife for TLC. *)
EXTENDS ServerLife, TLC

\* Requests and heap blocks are interchangeable.
Symmetry == Permutations(Requests) \cup Permutations(Blocks)
=============================================================================
