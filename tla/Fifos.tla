-------------------------------- MODULE Fifos -------------------------------
(***************************************************************************)
(* week3: reader (teht1_1.c), converter (teht1_2.c) and doubler            *)
(* (teht1_3.c), three programs started by hand, with a FIFO from the first *)
(* to the second and one from the second to the third.                     *)
(*                                                                         *)
(* What is typed is numbered; a byte keeps its number when it changes      *)
(* between upper and lower case.  A record on the first FIFO is maxBuffer  *)
(* bytes, of which only the text up to the null byte is ever looked at.    *)
(***************************************************************************)
EXTENDS Doubled

CONSTANTS Cap1,       \* records the first FIFO holds
          Cap2        \* bytes the second FIFO holds

ASSUME FifosCapAssumption == Cap1 \in Nat \ {0} /\ Cap2 \in Nat /\ Cap2 > Max

VARIABLES
  fifo1, fifo2,
  converter,            \* where the program in the middle is
  line, cmem, cover,    \* the text in its buffer, and what else is there
  accepted              \* all that the reader has passed on

passedVars == <<readerVars, accepted>>
converterVars == <<line, cmem>>
coverVars == <<overVars, cover>>
fifosVars == <<fifo1, fifo2, reader, converter, doubler,
               passedVars, converterVars, doublerVars, coverVars>>

FifosInit == /\ NothingDone
             /\ fifo1 = <<>> /\ fifo2 = <<>>
             /\ reader = "none" /\ converter = "none" /\ doubler = "none"
             /\ line = <<>> /\ cmem = "any" /\ cover \in 0 .. 1
             /\ accepted = <<>>

dataVars == <<fifo1, fifo2, passedVars, converterVars, doublerVars, coverVars>>

-----------------------------------------------------------------------------
(* Each program is started at some time, in any order, and opens its FIFOs.*)
(* open() waits until somebody opens the other end.                        *)
Start == /\ \/ reader = "none" /\ reader' = "open" /\ UNCHANGED <<converter, doubler>>
            \/ converter = "none" /\ converter' = "open1" /\ UNCHANGED <<reader, doubler>>
            \/ doubler = "none" /\ doubler' = "open" /\ UNCHANGED <<reader, converter>>
         /\ UNCHANGED dataVars

Open1 == /\ reader = "open" /\ converter = "open1"
         /\ reader' = "read" /\ converter' = "open2"
         /\ UNCHANGED <<doubler, dataVars>>

Open2 == /\ converter = "open2" /\ doubler = "open"
         /\ converter' = "read" /\ doubler' = "read"
         /\ UNCHANGED <<reader, dataVars>>

(* A signal: the user's, or SIGPIPE in a program that writes to nobody.    *)
Kill == /\ \/ reader # "ended" /\ reader' = "ended" /\ UNCHANGED <<converter, doubler>>
           \/ converter # "ended" /\ converter' = "ended" /\ UNCHANGED <<reader, doubler>>
           \/ doubler # "ended" /\ doubler' = "ended" /\ UNCHANGED <<reader, converter>>
        /\ UNCHANGED dataVars

-----------------------------------------------------------------------------
(* The reader                                                              *)
(* Mutant: a line that fills the buffer is too long as well.               *)
ReadStdinStrict ==
  /\ reader = "read"
  /\ ReadTyped
  /\ reader' = IF Len(text') < Max THEN "write" ELSE "read"
  /\ rmem' = IF Len(text') <= Max THEN rmem ELSE "full"
  /\ UNCHANGED <<accepted, fifo1, fifo2, converter, doubler,
                 converterVars, doublerVars, coverVars>>

(* Mutant: the length is not tested.                                       *)
ReadStdinUnchecked ==
  /\ reader = "read"
  /\ ReadTyped
  /\ reader' = "write"
  /\ UNCHANGED <<rmem, accepted, fifo1, fifo2, converter, doubler,
                 converterVars, doublerVars, coverVars>>

(* read() of a line, of a part of one, or of nothing at the end of input.  *)
(* A text that is too long is dropped, and the buffer stays as it is.      *)
ReadStdin ==
  /\ reader = "read"
  /\ ReadTyped
  /\ reader' = IF Len(text') <= Max THEN "write" ELSE "read"
  /\ rmem' = IF Len(text') <= Max THEN rmem ELSE "full"
  /\ UNCHANGED <<accepted, fifo1, fifo2, converter, doubler,
                 converterVars, doublerVars, coverVars>>

(* write() of the whole buffer, and memset().                              *)
WriteRecord ==
  /\ reader = "write" /\ converter # "ended" /\ Len(fifo1) < Cap1
  /\ fifo1' = Append(fifo1, text)
  /\ accepted' = accepted \o text
  /\ rmem' = "zero" /\ reader' = "read"
  /\ UNCHANGED <<input, text, typed, fifo2, converter, doubler,
                 converterVars, doublerVars, coverVars>>

(* Mutant: SIGPIPE is ignored, and with it the error.                      *)
IgnoreBroken ==
  /\ reader = "write" /\ converter = "ended"
  /\ UNCHANGED fifosVars

ReaderBroken == /\ reader = "write" /\ converter = "ended"
                /\ reader' = "ended"
                /\ UNCHANGED <<converter, doubler, dataVars>>

-----------------------------------------------------------------------------
(* The converter                                                           *)
(* One record, which has no null byte when the text fills it; or nothing,  *)
(* again and again, when the reader has ended.                             *)
ReadRecord ==
  /\ converter = "read"
  /\ \/ /\ fifo1 # <<>>
        /\ line' \in IF Len(Head(fifo1)) < Max THEN {Head(fifo1)}
                                               ELSE Texts(Head(fifo1), Max, cmem, cover)
        /\ fifo1' = Tail(fifo1)
     \/ /\ fifo1 = <<>> /\ reader = "ended"
        /\ line' \in Texts(<<>>, Max, cmem, cover)
        /\ UNCHANGED fifo1
  /\ converter' = "write"
  /\ UNCHANGED <<cmem, fifo2, reader, doubler, passedVars, doublerVars, coverVars>>

(* A text of no bytes is written even to nobody.                           *)
WriteText ==
  /\ converter = "write"
  /\ line = <<>> \/ (doubler # "ended" /\ Len(fifo2) + Len(line) <= Cap2)
  /\ fifo2' = fifo2 \o line
  /\ cmem' = "zero" /\ converter' = "read"
  /\ UNCHANGED <<line, fifo1, reader, doubler, passedVars, doublerVars, coverVars>>

ConverterBroken == /\ converter = "write" /\ line # <<>> /\ doubler = "ended"
                   /\ converter' = "ended"
                   /\ UNCHANGED <<reader, doubler, dataVars>>

-----------------------------------------------------------------------------
(* The doubler                                                             *)
(* Mutant: what does not go into the buffer is dropped.                    *)
ReadTextAll ==
  /\ doubler = "read"
  /\ fifo2 # <<>> \/ converter = "ended"
  /\ ReadPortion(fifo2) /\ fifo2' = <<>>
  /\ doubler' = "write"
  /\ UNCHANGED <<dmem, twice, fifo1, reader, converter, passedVars, converterVars, coverVars>>

(* All there is, part of a line or several; nothing, again and again, when *)
(* the converter has ended.                                                *)
ReadText ==
  /\ doubler = "read"
  /\ fifo2 # <<>> \/ converter = "ended"
  /\ ReadPortion(fifo2) /\ fifo2' = From(fifo2, Portion(fifo2) + 1)
  /\ doubler' = "write"
  /\ UNCHANGED <<dmem, twice, fifo1, reader, converter, passedVars, converterVars, coverVars>>

(* Mutant: a text is only written when it is a whole buffer.               *)
WriteFull ==
  /\ doubler = "again"
  /\ twice' = IF Len(chunk) < Max THEN twice ELSE twice \o chunk
  /\ dmem' = "zero" /\ doubler' = "read"
  /\ UNCHANGED <<chunk, fifo1, fifo2, reader, converter, passedVars, converterVars, coverVars>>

(* Two write()s of the text, and memset().                                 *)
WriteOnce ==
  /\ doubler = "write" /\ doubler' = "again"
  /\ UNCHANGED <<reader, converter, dataVars>>

WriteAgain ==
  /\ doubler = "again"
  /\ twice' = twice \o chunk
  /\ dmem' = "zero" /\ doubler' = "read"
  /\ UNCHANGED <<chunk, fifo1, fifo2, reader, converter, passedVars, converterVars, coverVars>>

-----------------------------------------------------------------------------
ReaderStep == WriteRecord \/ ReaderBroken
ConverterStep == ReadRecord \/ WriteText \/ ConverterBroken
DoublerStep == ReadText \/ WriteOnce \/ WriteAgain

FifosNext == \/ Start \/ Open1 \/ Open2 \/ Kill \/ ReadStdin
             \/ ReaderStep \/ ConverterStep \/ DoublerStep

FifosSpec == FifosInit /\ [][FifosNext]_fifosVars

(* The kernel runs the programs; nobody has to start, type or kill.        *)
FifosFairSpec == /\ FifosSpec /\ WF_fifosVars(Open1) /\ WF_fifosVars(Open2)
                 /\ WF_fifosVars(ReaderStep) /\ WF_fifosVars(ConverterStep)
                 /\ WF_fifosVars(DoublerStep)

-----------------------------------------------------------------------------
Memory == {"any", "zero", "full"}
FifosTypeOK ==
  /\ CommonTypeOK /\ line \in Seq(Nat) /\ accepted \in Seq(Nat)
  /\ fifo1 \in Seq(Seq(Nat)) /\ fifo2 \in Seq(Nat)
  /\ Len(fifo1) <= Cap1 /\ Len(fifo2) <= Cap2
  /\ \A i \in DOMAIN fifo1 : Len(fifo1[i]) <= Max
  /\ reader \in {"none", "open", "read", "write", "ended"}
  /\ converter \in {"none", "open1", "open2", "read", "write", "ended"}
  /\ doubler \in {"none", "open", "read", "write", "again", "ended"}
  /\ rmem \in Memory /\ cmem \in Memory \ {"full"} /\ dmem \in Memory \ {"full"}
  /\ cover \in 0 .. 1

(* Every byte of a line that is not too long is passed on, until a text of *)
(* maxBuffer bytes meets a byte behind the buffer that is not null; from   *)
(* then on the reader passes on nothing, for good.                         *)
InHand == IF reader = "write" THEN text ELSE <<>>
AcceptsUntilDeaf ==
  /\ [](reader # "ended" /\ rmem # "full" =>
          Fitting(typed) = Fitting(Clean(accepted) \o Clean(InHand)))
  /\ [][rmem = "full" => rmem' = "full" /\ accepted' = accepted]_fifosVars

(* However the programs are started, what was passed on is doubled, unless *)
(* one of them ends.                                                       *)
Somebody == "ended" \in {reader, converter, doubler}
Delivered == \A n \in 1 .. 2 * Max :
  Len(Clean(accepted)) >= n /\ doubler # "none" ~> Len(Clean(twice)) >= n \/ Somebody

(* However full the FIFOs are and whoever ends, a program that writes gets *)
(* on, unless the converter still waits for a doubler to be started; and   *)
(* when the doubler ends the converter does with the next text it gets.    *)
WritersGetOn ==
  /\ reader = "write" ~> reader # "write" \/ converter = "open2"
  /\ converter = "write" ~> converter # "write"
  /\ doubler = "ended" /\ converter \in {"read", "write"} /\ (\E i \in DOMAIN fifo1 : fifo1[i] # <<>>)
       ~> converter = "ended"
=============================================================================
