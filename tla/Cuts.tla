-------------------------------- MODULE Cuts --------------------------------
(***************************************************************************)
(* Streams of bytes cut by reads, for the modules of the programs that     *)
(* pass them on.                                                           *)
(***************************************************************************)
EXTENDS Naturals, Sequences, Places

First(s, k) == SubSeq(s, 1, k)
From(s, k) == SubSeq(s, k, Len(s))

(* How much one read() of at most max of s may return, if it returns.      *)
Amounts(s, max) == {k \in 1 .. max : k <= Len(s)}

(* Lines of the given lengths are read from a terminal: a read returns no  *)
(* more than what is left of one line.                                     *)
LineCut(lines, max) == IF Head(lines) <= max THEN Head(lines) ELSE max
CutOff(lines, k) == IF k = Head(lines) THEN Tail(lines)
                                       ELSE <<Head(lines) - k>> \o Tail(lines)

-----------------------------------------------------------------------------
(* A buffer of max bytes that strlen() is then asked about.  Its memory is *)
(* "zero" after memset(), "any"thing before the first one, or "full" of    *)
(* what an earlier read left; over tells whether the byte behind it is not *)
(* a null byte either.  Stray is how many bytes strlen() counts that the   *)
(* read did not bring.                                                     *)
Junk == 0

(* What somebody typed of s.                                               *)
Clean(s) == Picked(s, {i \in DOMAIN s : s[i] > Junk})

Stray(data, max, memory, over) ==
  LET room == max - Len(data)
  IN  CASE room = 0 \/ memory = "full" -> {room + over}
        [] room > 0 /\ memory = "zero" -> {0}
        [] room > 0 /\ memory = "any"  -> 0 .. room - 1 \cup {room + over}

Texts(data, max, memory, over) ==
  {data \o [i \in 1 .. n |-> Junk] : n \in Stray(data, max, memory, over)}
=============================================================================
