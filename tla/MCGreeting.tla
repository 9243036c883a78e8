----------------------------- MODULE MCGreeting -----------------------------
(***************************************************************************)
(* The order of UNIX_TL as ohjeet.txt:6-9 shows it, in various segments.   *)
(***************************************************************************)
EXTENDS Greeting, SequencesExt

Line101 == Line(<<"w", "101", "w", "w", "w", "w", "w", "w", "w", "w", "w">>) \o <<"nl">>
Line106 == Line(<<"w", "106", "w", "w", "w", "w", "w", "w", "w">>)

(* "# 205 Make your own concurrent server (no hello greetings). "          *)
Make == Front(Line(<<"w", "205", "w", "w", "w", "w", "w", "w", "w", "w">>)) \o <<"sp">>
(* "You have 5 seconds time to create your service at port 22074"          *)
YouHave == Line(<<"w", "w", "5", "w", "w", "w", "w", "w", "w", "w", "w", "port">>)

TheOrder == Line101 \o Make \o YouHave \o Line106

(* Where it may be cut: behind each line and between "Make" and "YouHave", *)
(* within a line behind a blank or before one, and before the port.        *)
Borders == LET make == Len(Line101)
               have == make + Len(Make)
               call == have + Len(YouHave)
           IN  {4, make, make + 9, have, call - 2, call}

CutAt(places) ==
  LET ends == places \cup {0, Len(TheOrder)}
  IN  [k \in 1 .. Cardinality(places) + 1 |->
         SubSeq(TheOrder, Kth(ends, k) + 1, Kth(ends, k + 1))]

(* Three segments or more: main has to read the fifth text to be able to   *)
(* serve.  It finds the port where it looks for it when two of them bring  *)
(* what comes before "You have", and the third begins and goes on to the   *)
(* end of the line.                                                        *)
ThreeOrMore == {CutAt(places) : places \in {b \in SUBSET Borders : Cardinality(b) >= 2}}

Starts == -1 .. 5
=============================================================================
