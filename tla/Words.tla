-------------------------------- MODULE Words --------------------------------
(***************************************************************************)
(* What a text means as words: the reference that split() of               *)
(* exercise/exercise.c is checked against (module Split), and what a       *)
(* caller of split() makes of its result (module Greeting).                *)
(***************************************************************************)
EXTENDS Integers, Sequences, FiniteSets, Places

(* The places of s where a word begins and where one ends.                 *)
Begins(s, sep) == {i \in DOMAIN s : s[i] # sep /\ (i = 1 \/ s[i - 1] = sep)}
Ends(s, sep) == {i \in DOMAIN s : s[i] # sep /\ (i = Len(s) \/ s[i + 1] = sep)}

(* The k-th word is what lies between the k-th beginning and the k-th end. *)
Words(s, sep) == [k \in 1 .. Cardinality(Begins(s, sep)) |->
                    SubSeq(s, Kth(Begins(s, sep), k), Kth(Ends(s, sep), k))]

(* A separator begins s, or follows another one; or s holds nothing.       *)
HasEmptyWord(s, sep) ==
  \/ s = <<>>
  \/ \E i \in DOMAIN s : s[i] = sep /\ (i = 1 \/ s[i - 1] = sep)
=============================================================================
