----------------------------- MODULE ByteStream -----------------------------
(***************************************************************************)
(* What a program that passes data on promises, with no process, buffer or *)
(* channel in it: what comes out is what was put in, in that order, each   *)
(* piece once, and nothing else.                                           *)
(***************************************************************************)
EXTENDS Naturals, Sequences, Cuts

VARIABLES in,   \* everything put in so far, in order
          out   \* everything that has come out so far

vars == <<in, out>>

Prefix(s, t) == Len(s) <= Len(t) /\ First(t, Len(s)) = s

Init == in = <<>> /\ out = <<>>

Put == /\ Prefix(in, in') /\ in' # in
       /\ UNCHANGED out

Take == /\ \E k \in Len(out) + 1 .. Len(in) : out' = First(in, k)
        /\ UNCHANGED in

Next == Put \/ Take

Spec == Init /\ [][Next]_vars
=============================================================================
