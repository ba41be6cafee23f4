-------------------------- MODULE MCRequestReader ---------------------------
(* A small instance of RequestReader for TLC: three-byte headers, bodies of  *)
(* one to three bytes, length fields that are negative, zero or too large.   *)
EXTENDS RequestReader

LengthFields == {-1, 0, 1, 3, 4}
=============================================================================
