------------------------- MODULE MCUserEventHandler -------------------------
(* Small instances of UserEventHandler for TLC. *)
EXTENDS UserEventHandler, TLC

\* Calls, mobiles and codes are interchangeable.
Symmetry == Permutations(Calls) \cup Permutations(Mobiles) \cup Permutations(Codes)
=============================================================================
