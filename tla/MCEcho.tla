------------------------------- MODULE MCEcho -------------------------------
(***************************************************************************)
(* Echo on small instances.                                                *)
(***************************************************************************)
EXTENDS Echo

(* Two lines that fill the buffer, and one that does not.                  *)
TwoLines == {<<2, 1>>}
=============================================================================
