------------------------------- MODULE MCSplit -------------------------------
(***************************************************************************)
(* split() for every line of up to seven letters, against module Words.    *)
(***************************************************************************)
EXTENDS Split, SequencesExt

MaxLen == 7             \* bound: letters of a line
Alphabet == {"a", "b", " "}
ShortLines == BoundedSeq(Alphabet, MaxLen)
=============================================================================
