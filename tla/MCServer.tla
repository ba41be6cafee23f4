------------------------------ MODULE MCServer ------------------------------
(* Small instances of Server for TLC. *)
EXTENDS Server, TLC

\* Connections and heap cells are interchangeable.
Symmetry == Permutations(Conns) \cup Permutations(Cells)
=============================================================================
