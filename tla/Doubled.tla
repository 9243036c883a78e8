------------------------------ MODULE Doubled ------------------------------
(***************************************************************************)
(* What the programs of weeks 2 and 3 have in common: somebody types       *)
(* lines, a reader passes their text on, and a doubler at the other end    *)
(* writes what it gets two times.  Pipe has what is between them in week2, *)
(* Fifos in week3.                                                         *)
(*                                                                         *)
(* What is typed is numbered; Junk is what strlen() finds in a buffer that *)
(* nobody wrote there.                                                     *)
(***************************************************************************)
EXTENDS Integers, Sequences, Cuts

CONSTANTS Max,        \* maxBuffer, 100
          Inputs      \* what may be typed: the lengths of the lines

ASSUME MaxAssumption == Max \in Nat \ {0}
ASSUME InputsAssumption == Inputs \subseteq Seq(Nat \ {0})

VARIABLES
  lines,            \* the lines that are typed: their lengths
  input,            \* those that are still to be typed
  reader, doubler,  \* where the two programs are
  text, chunk,      \* the text in the buffer of each
  rmem, dmem,       \* what else is in the two buffers
  rover, dover,     \* 1 if the byte behind the buffer is not null
  typed,            \* all that was typed and read
  twice             \* all the doubler has written two times

readerVars == <<input, text, rmem, typed>>
doublerVars == <<chunk, dmem, twice>>
overVars == <<rover, dover, lines>>     \* these never change

NothingDone == /\ lines \in Inputs /\ input = lines
               /\ typed = <<>> /\ twice = <<>>
               /\ text = <<>> /\ chunk = <<>>
               /\ rmem = "any" /\ dmem = "any"
               /\ rover \in 0 .. 1 /\ dover \in 0 .. 1

(* The reader's read() of a line, of a part of one, or of nothing at the   *)
(* end of input, and strlen() of its buffer.                               *)
ReadTyped == LET k == IF input = <<>> THEN 0 ELSE LineCut(input, Max)
                 data == [i \in 1 .. k |-> Len(typed) + i]
             IN  /\ input' = IF input = <<>> THEN input ELSE CutOff(input, k)
                 /\ typed' = typed \o data
                 /\ text' \in Texts(data, Max, rmem, rover)

(* The doubler's read() of all there is, part of a line or several, and    *)
(* strlen() of its buffer.                                                 *)
Portion(channel) == IF Len(channel) <= Max THEN Len(channel) ELSE Max
ReadPortion(channel) ==
  chunk' \in Texts(First(channel, Portion(channel)), Max, dmem, dover)

-----------------------------------------------------------------------------
CommonTypeOK == /\ lines \in Inputs /\ input \in Seq(Nat \ {0})
                /\ text \in Seq(Nat) /\ chunk \in Seq(Nat)
                /\ rover \in 0 .. 1 /\ dover \in 0 .. 1
                /\ typed \in Seq(Nat) /\ twice \in Seq(Nat)

(* The bytes of line k, and those of all lines that are not too long.      *)
LineEnd[k \in 0 .. Len(lines)] == IF k = 0 THEN 0 ELSE LineEnd[k - 1] + lines[k]
BytesOf(k) == LineEnd[k - 1] + 1 .. LineEnd[k]
FittingBytes == UNION {BytesOf(k) : k \in {j \in DOMAIN lines : lines[j] <= Max}}

(* What s holds of the lines that are not too long.  The others are to be  *)
(* ignored (week2/h2.txt:95-96; week3/h3.txt:9), which no property says: a *)
(* read() of maxBuffer bytes never returns more, and they go on in pieces. *)
Fitting(s) == Picked(s, {i \in DOMAIN s : s[i] \in FittingBytes})

(* The typed bytes come out in order, none lost on the way or repeated.    *)
B == INSTANCE ByteStream WITH in <- typed, out <- Clean(twice)
Stream == B!Spec
=============================================================================
