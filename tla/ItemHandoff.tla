---------------------------- MODULE ItemHandoff ----------------------------
(***************************************************************************)
(* What a producer/consumer program promises, with no thread, mutex or     *)
(* condition variable in it: the items 0 .. NItems - 1 become available in *)
(* increasing order, each is taken once, in that order, and none is taken  *)
(* before it is available.                                                 *)
(***************************************************************************)
EXTENDS Naturals

CONSTANT NItems     \* the number of items to hand over

VARIABLES stored,   \* items 0 .. stored - 1 are available
          taken     \* items 0 .. taken - 1 have been taken

vars == <<stored, taken>>

Init == stored = 0 /\ taken = 0

Store == /\ stored < NItems
         /\ stored' = stored + 1
         /\ UNCHANGED taken

Take == /\ taken < stored
        /\ taken' = taken + 1
        /\ UNCHANGED stored

Next == Store \/ Take

Spec == Init /\ [][Next]_vars

(* With a scheduler that neither stops a producer nor all the consumers.   *)
FairSpec == Spec /\ WF_vars(Store) /\ WF_vars(Take)
=============================================================================
