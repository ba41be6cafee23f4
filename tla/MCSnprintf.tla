----------------------------- MODULE MCSnprintf -----------------------------
(* Snprintf with the formats of SnprintfFormats.                           *)
EXTENDS Snprintf, SnprintfFormats
=============================================================================
