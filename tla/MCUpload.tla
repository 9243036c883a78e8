------------------------------ MODULE MCUpload ------------------------------
(***************************************************************************)
(* Upload on small instances.                                              *)
(***************************************************************************)
EXTENDS Upload

(* Two lines that fit, and one that has to be cut: its first record fills  *)
(* the buffer.                                                             *)
Lines == {<<2, 1, 4>>}
OneOrTwo == {1, 2}
(* Memory with a null byte in it and without.                              *)
TwoMemories == {<<Junk, Null, Junk>>, <<Junk, Junk, Junk>>}
=============================================================================
