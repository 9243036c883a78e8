------------------------------- MODULE MCFifos ------------------------------
(***************************************************************************)
(* Fifos on small instances.                                               *)
(***************************************************************************)
EXTENDS Fifos

(* A line that fits before and after one that fills the buffer or has to   *)
(* be cut.                                                                 *)
ThreeLines == {<<1, 2, 1>>, <<1, 3>>}
=============================================================================
