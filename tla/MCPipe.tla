------------------------------- MODULE MCPipe -------------------------------
(***************************************************************************)
(* Pipe on small instances.                                                *)
(***************************************************************************)
EXTENDS Pipe

(* A line that fits, one that fills the buffer, one that has to be cut.    *)
ThreeLines == {<<1, 2, 3>>, <<3, 1, 1>>}
=============================================================================
