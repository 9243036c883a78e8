-------------------------------- MODULE Pipe --------------------------------
(***************************************************************************)
(* week2/teht5.c: a reader and a doubler, parent and child, and the pipe   *)
(* between them.                                                           *)
(***************************************************************************)
EXTENDS Doubled

CONSTANT Cap          \* how much the pipe holds

ASSUME PipeCapAssumption == Cap \in Nat /\ Cap >= Max

VARIABLES pipe, rd, wr, \* the pipe, and who holds each end of it
          once          \* all the doubler has written first; twice, again

Ended == {"done", "failed", "killed"}

parentVars == <<reader, readerVars>>
childVars == <<doubler, once, doublerVars>>
pipeVars == <<pipe, rd, wr, parentVars, childVars, overVars>>

(* After fork().                                                           *)
PipeInit == /\ NothingDone
            /\ pipe = <<>> /\ rd = {"reader", "doubler"} /\ wr = {"reader", "doubler"}
            /\ reader = "start" /\ doubler = "start" /\ once = <<>>

-----------------------------------------------------------------------------
(* The reader                                                              *)
CloseRead == /\ reader = "start" /\ reader' = "read"
             /\ rd' = rd \ {"reader"}
             /\ UNCHANGED <<readerVars, pipe, wr, childVars, overVars>>

(* Mutant: the length is not tested.                                       *)
ReadLineUnchecked ==
  /\ reader = "read" /\ input # <<>>
  /\ ReadTyped
  /\ reader' = "write"
  /\ UNCHANGED <<rmem, pipe, rd, wr, childVars, overVars>>

(* A line, or as much of it as goes into the buffer, and the test of its   *)
(* length.                                                                 *)
ReadLine ==
  /\ reader = "read" /\ input # <<>>
  /\ ReadTyped
  /\ reader' = IF Len(text') > Max THEN "reject" ELSE "write"
  /\ UNCHANGED <<rmem, pipe, rd, wr, childVars, overVars>>

(* write() and memset(): the text whole, when there is room for it.        *)
WriteLine == /\ reader = "write" /\ rd # {} /\ Len(pipe) + Len(text) <= Cap
             /\ pipe' = pipe \o text
             /\ rmem' = "zero"
             /\ reader' = "read"
             /\ UNCHANGED <<input, text, typed, rd, wr, childVars, overVars>>

(* Nobody can read the pipe any more: SIGPIPE.                             *)
WriteBroken == /\ reader = "write" /\ rd = {}
               /\ reader' = "killed" /\ wr' = wr \ {"reader"}
               /\ UNCHANGED <<readerVars, pipe, rd, childVars, overVars>>

(* read() returns zero at the end of input, or an error.                   *)
EndOfInput == /\ reader = "read" /\ input = <<>>
              /\ reader' = "close"
              /\ UNCHANGED <<readerVars, pipe, rd, wr, childVars, overVars>>

(* Mutant: the parent does not wait.                                       *)
NotWaited == /\ \/ reader = "wait" /\ reader' = "done"
                \/ reader = "waitFailed" /\ reader' = "failed"
             /\ wr' = wr \ {"reader"}
             /\ UNCHANGED <<readerVars, pipe, rd, childVars, overVars>>

(* close(fd[1]), and on to wait(0).                                        *)
CloseWrite == /\ \/ reader = "close" /\ reader' = "wait"
                 \/ reader = "reject" /\ reader' = "waitFailed"
              /\ wr' = wr \ {"reader"}
              /\ UNCHANGED <<readerVars, pipe, rd, childVars, overVars>>

Waited == /\ doubler \in Ended
          /\ \/ reader = "wait" /\ reader' = "done"
             \/ reader = "waitFailed" /\ reader' = "failed"
          /\ wr' = wr \ {"reader"}
          /\ UNCHANGED <<readerVars, pipe, rd, childVars, overVars>>

ParentStep == CloseRead \/ WriteLine \/ WriteBroken \/ CloseWrite \/ Waited

-----------------------------------------------------------------------------
(* The doubler                                                             *)
(* Mutant: the child keeps its copy of the write end.                      *)
KeepOther == /\ doubler = "start" /\ doubler' = "read"
             /\ UNCHANGED <<doublerVars, once, pipe, rd, wr, parentVars, overVars>>

CloseOther == /\ doubler = "start" /\ doubler' = "read"
              /\ wr' = wr \ {"doubler"}
              /\ UNCHANGED <<doublerVars, once, pipe, rd, parentVars, overVars>>

(* Mutant: what does not go into the buffer is dropped.                    *)
ReadPipeAll ==
  /\ doubler = "read" /\ pipe # <<>>
  /\ ReadPortion(pipe) /\ pipe' = <<>>
  /\ doubler' = IF Len(chunk') > Max THEN "reject" ELSE "first"
  /\ UNCHANGED <<dmem, once, twice, rd, wr, parentVars, overVars>>

(* All there is in the pipe, be it less or more than a line.               *)
ReadPipe ==
  /\ doubler = "read" /\ pipe # <<>>
  /\ ReadPortion(pipe) /\ pipe' = From(pipe, Portion(pipe) + 1)
  /\ doubler' = IF Len(chunk') > Max THEN "reject" ELSE "first"
  /\ UNCHANGED <<dmem, once, twice, rd, wr, parentVars, overVars>>

(* The end of input: the pipe is empty and nobody can write to it.         *)
PipeEnds == /\ doubler = "read" /\ pipe = <<>> /\ wr = {}
            /\ doubler' = "close"
            /\ UNCHANGED <<doublerVars, once, pipe, rd, wr, parentVars, overVars>>

WriteFirst == /\ doubler = "first" /\ doubler' = "second"
              /\ once' = once \o chunk
              /\ UNCHANGED <<chunk, dmem, twice, pipe, rd, wr, parentVars, overVars>>

(* Mutant: the buffer is not cleared.                                      *)
WriteSecondUncleared ==
  /\ doubler = "second" /\ doubler' = "read"
  /\ twice' = twice \o chunk
  /\ UNCHANGED <<chunk, dmem, once, pipe, rd, wr, parentVars, overVars>>

WriteSecond == /\ doubler = "second" /\ doubler' = "read"
               /\ twice' = twice \o chunk
               /\ dmem' = "zero"
               /\ UNCHANGED <<chunk, once, pipe, rd, wr, parentVars, overVars>>

(* close(fd[0]) and exit().                                                *)
DoublerExits == /\ \/ doubler = "close" /\ doubler' = "done"
                   \/ doubler = "reject" /\ doubler' = "failed"
                /\ rd' = rd \ {"doubler"}
                /\ UNCHANGED <<doublerVars, once, pipe, wr, parentVars, overVars>>

ChildStep == CloseOther \/ ReadPipe \/ PipeEnds \/ WriteFirst \/ WriteSecond \/ DoublerExits

-----------------------------------------------------------------------------
KillReader == /\ reader \notin Ended /\ reader' = "killed"
              /\ rd' = rd \ {"reader"} /\ wr' = wr \ {"reader"}
              /\ UNCHANGED <<readerVars, pipe, childVars, overVars>>

KillDoubler == /\ doubler \notin Ended /\ doubler' = "killed"
               /\ rd' = rd \ {"doubler"} /\ wr' = wr \ {"doubler"}
               /\ UNCHANGED <<doublerVars, once, pipe, parentVars, overVars>>

PipeNext == ReadLine \/ EndOfInput \/ ParentStep \/ ChildStep \/ KillReader \/ KillDoubler

PipeSpec == PipeInit /\ [][PipeNext]_pipeVars

(* The kernel runs both; nobody has to type anything or to kill anybody.   *)
PipeFairSpec == PipeSpec /\ WF_pipeVars(ParentStep) /\ WF_pipeVars(ChildStep)

-----------------------------------------------------------------------------
Procs == {"reader", "doubler"}
PipeTypeOK ==
  /\ CommonTypeOK /\ once \in Seq(Nat)
  /\ pipe \in Seq(Nat) /\ Len(pipe) <= Cap /\ rd \subseteq Procs /\ wr \subseteq Procs
  /\ reader \in {"start", "read", "write", "reject", "close", "wait", "waitFailed"} \cup Ended
  /\ doubler \in {"start", "read", "first", "second", "reject", "close"} \cup Ended
  /\ reader = "write" => Len(text) \in 1 .. Max
  /\ doubler \in {"first", "second"} => Len(chunk) \in 1 .. Max
  /\ rmem \in {"any", "zero"} /\ dmem \in {"any", "zero"}

(* The program ends well only after the doubler, and then, unless that was *)
(* killed or has given up, every byte of the lines that are not too long   *)
(* has come out a first and a second time, in order.  (The two are apart   *)
(* by what a read of the doubler returned, be that two lines or half of    *)
(* one: it does not write each line twice, as week2/h2.txt:93 wants.)      *)
AllDoubledAtEnd ==
  reader = "done" =>
    /\ doubler \in Ended
    /\ doubler = "done" => once = twice /\ Fitting(Clean(twice)) = Fitting(typed)

(* Bytes that nobody typed, which strlen() finds in a buffer that was      *)
(* never cleared, come out in the doubler's first portion only.            *)
JunkOnlyAtFirst == \A i \in DOMAIN once : once[i] = Junk => i <= Max

(* A reader that writes gets on, with room in the pipe or because nobody   *)
(* reads it; and once it has given up reading, both processes end.         *)
BothEnd == /\ reader = "write" ~> reader # "write"
           /\ reader \in {"close", "reject"} ~> reader \in Ended /\ doubler \in Ended
=============================================================================
