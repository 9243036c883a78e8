------------------------------- MODULE Descent -------------------------------
(***************************************************************************)
(* Work that cannot go on for ever: three natural numbers, of which every  *)
(* step lowers the first, or keeps it and lowers the second, or keeps both *)
(* and lowers the third.                                                   *)
(***************************************************************************)
EXTENDS Integers, FiniteSets, WellFoundedInduction

Tally == [1 .. 3 -> Nat]
Down == LexProductOrdering(OpToRel(<, Nat), Nat, 3)

(* a, b, c come below d, e, f.                                             *)
Lower(a, b, c, d, e, f) == a < d \/ (a = d /\ b < e) \/ (a = d /\ b = e /\ c < f)

(* As many as the ranks from 0 to m, which f gives to the elements of P,   *)
(* are together.                                                           *)
Under(P, m, f) == {x \in P \X (1 .. m) : x[2] <= f[x[1]]}
Total(P, m, f) == Cardinality(Under(P, m, f))
=============================================================================
