------------------------------- MODULE Places -------------------------------
(***************************************************************************)
(* The members of a sequence that stand at chosen places, in order: what   *)
(* modules Words and Cuts pick out of a text and of a buffer.              *)
(***************************************************************************)
EXTENDS Naturals, Sequences, FiniteSets

(* The member of a set of numbers that has k - 1 smaller ones.             *)
Kth(places, k) == CHOOSE i \in places : Cardinality({j \in places : j < i}) = k - 1

Picked(s, places) == [k \in 1 .. Cardinality(places) |-> s[Kth(places, k)]]
=============================================================================
