----------------------------- MODULE PipesProofs ----------------------------
(***************************************************************************)
(* Proofs about the programs that pass on what is typed through pipes, for *)
(* lines, buffers and channels of any size: Pipe (week 2) and Fifos        *)
(* (week 3): the types, the stream of what is typed, that week 2 has an    *)
(* end, and where the programs can stand still.                            *)
(***************************************************************************)
EXTENDS Pipe, Fifos, CommonProofs

-----------------------------------------------------------------------------
(* Week 2.                                                                 *)

Held == IF doubler \in {"first", "second"} THEN chunk ELSE <<>>
Coming == IF reader = "write" THEN text ELSE <<>>

DoublerLost == doubler \in {"reject", "failed", "killed"}
ReaderLost == reader \in {"reject", "waitFailed", "failed", "killed"}

(* What was typed is twice written, held by the doubler, in the pipe and   *)
(* in the reader's buffer, in this order, up to where one of them gave up. *)
Flow ==
  \E a, b, c, d \in 0 .. Len(typed) :
    /\ InOrder(twice, 0, a)
    /\ ~DoublerLost => InOrder(Held, a, b) /\ InOrder(pipe, b, c) /\ InOrder(Coming, c, d)
    /\ ~DoublerLost /\ ~ReaderLost => d = Len(typed)

AllRead == typed = [i \in 1 .. Len(typed) |-> i]

(* The doubler finds the end of the pipe only when nothing can follow, and *)
(* has written the same twice, but for a kill between the two.             *)
EndInv ==
  /\ reader \in {"start", "read", "write", "reject", "close"} => "reader" \in wr
  /\ doubler \in {"close", "done"} => pipe = <<>> /\ wr = {}
  /\ reader = "done" => doubler \in Ended
  /\ doubler # "killed" => once = twice \o (IF doubler = "second" THEN chunk ELSE <<>>)

PipeInv == PipeTypeOK /\ AllRead /\ EndInv /\ Flow

LEMMA PipeStarts ==
  ASSUME PipeInit
  PROVE  PipeInv
<1>1. /\ <<>> \in Seq(Nat) /\ Len(<<>>) = 0 /\ <<>> \o <<>> = <<>>
      /\ <<>> = [i \in 1 .. 0 |-> i]
  BY EmptySeq, ConcatEmptySeq
<1>2. PipeTypeOK
  BY <1>1, InputsAssumption, PipeCapAssumption DEF PipeInit, NothingDone, PipeTypeOK,
     CommonTypeOK, Procs
<1>3. AllRead
  BY <1>1 DEF PipeInit, NothingDone, AllRead
<1>4. EndInv
  BY <1>1 DEF PipeInit, NothingDone, EndInv
<1>5. InOrder(<<>>, 0, 0) /\ 0 \in 0 .. Len(typed)
  BY <1>1, InOrderEmpty DEF PipeInit, NothingDone
<1>6. Flow
  BY <1>5, <1>1 DEF PipeInit, NothingDone, Flow, Held, Coming, DoublerLost, ReaderLost
<1> QED BY <1>2, <1>3, <1>4, <1>6 DEF PipeInv

(* What one read of the reader brings.                                     *)
LEMMA PipeReadLine ==
  ASSUME PipeInv, ReadLine
  PROVE  PipeInv'
<1> DEFINE n == Len(typed)
           k == LineCut(input, Max)
           data == [i \in 1 .. k |-> n + i]
<1> USE DEF PipeInv
<1>1. /\ input \in Seq(Nat \ {0}) /\ input # <<>> /\ Max \in Nat \ {0}
      /\ typed \in Seq(Nat) /\ n \in Nat
  BY LenProperties, MaxAssumption DEF ReadLine, ReadTyped, PipeTypeOK, CommonTypeOK
<1>2. k \in 1 .. Max /\ CutOff(input, k) \in Seq(Nat \ {0})
  <2>1. /\ LineCut(input, Max) \in 1 .. Max
        /\ CutOff(input, LineCut(input, Max)) \in Seq(Nat \ {0})
    BY <1>1, LineFacts
  <2> QED BY <2>1
<1>3. /\ input' = CutOff(input, k) /\ typed' = typed \o data
      /\ text' \in Texts(data, Max, rmem, rover)
      /\ reader' = IF Len(text') > Max THEN "reject" ELSE "write"
      /\ reader = "read"
      /\ UNCHANGED <<rmem, pipe, rd, wr, doubler, chunk, dmem, once, twice, rover, dover, lines>>
  BY DEF ReadLine, ReadTyped, overVars, childVars, doublerVars
<1> HIDE DEF k
<1>4. data \in Seq(Nat) /\ Len(data) = k /\ InOrder(data, n, n + k)
  <2>1. n \in Nat /\ k \in Nat
    BY <1>1, <1>2
  <2> HIDE DEF n
  <2> QED BY <2>1, InOrderNext
<1>5. /\ text' \in Seq(Nat) /\ InOrder(text', n, n + k) /\ Len(text') \in k .. Max + rover
  <2>1. rmem \in {"any", "zero", "full"} /\ rover \in 0 .. 1
    BY DEF PipeTypeOK, CommonTypeOK
  <2>2. /\ n \in Nat /\ n + k \in Nat /\ Max \in Nat /\ Len(data) <= Max
        /\ text' \in Texts(data, Max, rmem, rover)
    BY <1>1, <1>2, <1>3, <1>4
  <2>3. data \in Seq(Nat) /\ InOrder(data, n, n + k) /\ Len(data) = k
    BY <1>4
  <2> HIDE DEF data, n
  <2>4. /\ text' \in Seq(Nat) /\ InOrder(text', n, n + k)
        /\ Len(text') \in Len(data) .. Max + rover
    BY <2>1, <2>2, <2>3, TextOfBuffer
  <2> QED BY <2>3, <2>4
<1>6. typed' \in Seq(Nat) /\ Len(typed') = n + k /\ typed' = [i \in 1 .. n + k |-> i]
  <2>1. typed' \in Seq(Nat) /\ Len(typed') = n + k
    BY <1>1, <1>3, <1>4, ConcatProperties
  <2>2. n <= n + k /\ (n + k) - n = k /\ n + k \in Nat
    BY <1>1, <1>2
  <2>3. [i \in 1 .. n |-> i] \o data = [i \in 1 .. n + k |-> i]
    BY <1>1, <2>2, AllTyped
  <2>4. typed' = [i \in 1 .. n |-> i] \o data
    BY <1>3 DEF AllRead
  <2> QED BY <2>1, <2>3, <2>4
<1> HIDE DEF data
<1>7. PipeTypeOK'
  <2>1. input' \in Seq(Nat \ {0})
    BY <1>2, <1>3
  <2>2. reader' \in {"write", "reject"} /\ (reader' = "write" => Len(text') \in 1 .. Max)
    BY <1>1, <1>2, <1>3, <1>5
  <2>3. text' \in Seq(Nat) /\ typed' \in Seq(Nat)
    BY <1>5, <1>6
  <2> QED BY <1>3, <2>1, <2>2, <2>3 DEF PipeTypeOK, CommonTypeOK
<1>8. AllRead'
  BY <1>6 DEF AllRead
<1>9. EndInv'
  BY <1>3 DEF EndInv, Ended
<1>10. Flow'
  <2>1. PICK a \in 0 .. n, b \in 0 .. n, c \in 0 .. n, d \in 0 .. n :
          /\ InOrder(twice, 0, a)
          /\ ~DoublerLost => InOrder(Held, a, b) /\ InOrder(pipe, b, c) /\ InOrder(<<>>, c, d)
          /\ ~DoublerLost => d = n
    BY <1>3 DEF Flow, Coming, ReaderLost
  <2>2. ~DoublerLost => c = n
    BY <1>1, <2>1, InOrderNil
  <2>3. Held' = Held /\ DoublerLost' = DoublerLost /\ twice' = twice /\ pipe' = pipe
    BY <1>3 DEF Held, DoublerLost
  <2>4. 0 .. n \subseteq 0 .. Len(typed') /\ n + k \in 0 .. Len(typed')
    BY <1>1, <1>2, <1>6
  <2>5. CASE reader' = "write"
    <3>1. Coming' = text'
      BY <2>5 DEF Coming
    <3>2. ~DoublerLost => InOrder(Coming', c, n + k)
      BY <1>5, <2>2, <3>1
    <3> QED BY <1>6, <2>1, <2>3, <2>4, <3>2 DEF Flow
  <2>6. CASE reader' = "reject"
    <3>1. Coming' = <<>> /\ ReaderLost'
      BY <2>6 DEF Coming, ReaderLost
    <3> QED BY <2>1, <2>3, <2>4, <3>1 DEF Flow
  <2> QED BY <1>3, <2>5, <2>6
<1> QED BY <1>7, <1>8, <1>9, <1>10

LEMMA PipeWriteLine ==
  ASSUME PipeInv, WriteLine
  PROVE  PipeInv'
<1> USE DEF PipeInv
<1>1. /\ pipe' = pipe \o text /\ reader = "write" /\ reader' = "read" /\ rmem' = "zero"
      /\ Len(pipe) + Len(text) <= Cap
      /\ UNCHANGED <<input, text, typed, rd, wr, doubler, chunk, dmem, once, twice, rover, dover, lines>>
  BY DEF WriteLine, overVars, childVars, doublerVars
<1>2. /\ pipe \in Seq(Nat) /\ text \in Seq(Nat)
      /\ pipe \o text \in Seq(Nat) /\ Len(pipe \o text) = Len(pipe) + Len(text)
  BY ConcatProperties DEF PipeTypeOK, CommonTypeOK
<1>3. PipeTypeOK'
  BY <1>1, <1>2 DEF PipeTypeOK, CommonTypeOK
<1>4. AllRead'
  BY <1>1 DEF AllRead
<1>5. EndInv'
  BY <1>1 DEF EndInv, Ended
<1>6. Flow'
  <2>1. PICK a, b, c, d \in 0 .. Len(typed) :
          /\ InOrder(twice, 0, a)
          /\ ~DoublerLost => InOrder(Held, a, b) /\ InOrder(pipe, b, c) /\ InOrder(text, c, d)
          /\ ~DoublerLost => d = Len(typed)
    BY <1>1 DEF Flow, Coming, ReaderLost
  <2>2. /\ Held' = Held /\ DoublerLost' = DoublerLost /\ twice' = twice
        /\ typed' = typed /\ Coming' = <<>>
    BY <1>1 DEF Held, DoublerLost, Coming
  <2>3. ~DoublerLost => InOrder(pipe', b, d)
    <3>1. pipe \in Seq(Int) /\ text \in Seq(Int) /\ Len(typed) \in Nat
      BY <1>2, NatsAreInts, LenProperties DEF PipeTypeOK, CommonTypeOK
    <3> QED BY <1>1, <2>1, <3>1, InOrderJoin
  <2>4. InOrder(<<>>, d, d)
    BY InOrderEmpty
  <2> QED BY <2>1, <2>2, <2>3, <2>4 DEF Flow
<1> QED BY <1>3, <1>4, <1>5, <1>6

(* Steps of the reader that move nothing: what is in its buffer is lost,   *)
(* or there is nothing in it.                                              *)
LEMMA PipeReaderOther ==
  ASSUME PipeInv,
         CloseRead \/ WriteBroken \/ EndOfInput \/ CloseWrite \/ Waited \/ KillReader
  PROVE  PipeInv'
<1> USE DEF PipeInv
<1>1. /\ UNCHANGED <<input, text, rmem, typed, pipe, rover, dover, lines, doubler, chunk, dmem, once, twice>>
      /\ rd' \subseteq rd /\ wr' \subseteq wr
  BY DEF CloseRead, WriteBroken, EndOfInput, CloseWrite, Waited, KillReader, overVars, readerVars,
     childVars, doublerVars
<1>2. /\ reader' \in {"read", "close", "wait", "waitFailed"} \cup Ended
      /\ reader' # "write"
      /\ ReaderLost \/ reader = "write" => ReaderLost'
  BY DEF CloseRead, WriteBroken, EndOfInput, CloseWrite, Waited, KillReader, Ended, ReaderLost
<1>3. PipeTypeOK'
  BY <1>1, <1>2 DEF PipeTypeOK, CommonTypeOK
<1>4. AllRead'
  BY <1>1 DEF AllRead
<1>5. EndInv'
  <2>1. reader' \in {"start", "read", "write", "reject", "close"} => "reader" \in wr'
    BY DEF CloseRead, WriteBroken, EndOfInput, CloseWrite, Waited, KillReader, Ended, EndInv
  <2>2. reader' = "done" => doubler' \in Ended
    BY <1>1 DEF CloseRead, WriteBroken, EndOfInput, CloseWrite, Waited, KillReader
  <2> QED BY <1>1, <2>1, <2>2 DEF EndInv
<1>6. Flow'
  <2>1. PICK a, b, c, d \in 0 .. Len(typed) :
          /\ InOrder(twice, 0, a)
          /\ ~DoublerLost => InOrder(Held, a, b) /\ InOrder(pipe, b, c) /\ InOrder(Coming, c, d)
          /\ ~DoublerLost /\ ~ReaderLost => d = Len(typed)
    BY DEF Flow
  <2>2. /\ Held' = Held /\ DoublerLost' = DoublerLost /\ twice' = twice
        /\ typed' = typed /\ pipe' = pipe /\ Coming' = <<>>
    BY <1>1, <1>2 DEF Held, DoublerLost, Coming
  <2>3. c \in Nat /\ d \in Nat /\ Len(typed) \in Nat /\ InOrder(<<>>, c, c)
    BY LenProperties, InOrderEmpty DEF PipeTypeOK, CommonTypeOK
  <2>4. CASE reader = "write" \/ ReaderLost
    BY <1>2, <2>1, <2>2, <2>3, <2>4 DEF Flow
  <2>5. CASE reader # "write" /\ ~ReaderLost
    <3>1. ~DoublerLost => c = d
      BY <2>1, <2>3, <2>5, InOrderNil DEF Coming
    <3> QED BY <2>1, <2>2, <2>3, <2>5, <3>1 DEF Flow
  <2> QED BY <2>4, <2>5
<1> QED BY <1>3, <1>4, <1>5, <1>6

LEMMA PipeReadPipe ==
  ASSUME PipeInv, ReadPipe
  PROVE  PipeInv'
<1> USE DEF PipeInv
<1> DEFINE k == Portion(pipe)
           data == First(pipe, k)
<1>1. /\ pipe \in Seq(Nat) /\ pipe # <<>> /\ Max \in Nat \ {0} /\ Len(pipe) \in Nat \ {0}
      /\ Len(pipe) <= Cap /\ Cap \in Nat
  BY EmptySeq, MaxAssumption, PipeCapAssumption DEF ReadPipe, ReadPortion, PipeTypeOK,
     CommonTypeOK
<1>2. k \in 1 .. Max /\ k \in 0 .. Len(pipe)
  BY <1>1 DEF Portion
<1>3. /\ chunk' \in Texts(data, Max, dmem, dover) /\ pipe' = From(pipe, k + 1)
      /\ doubler' = IF Len(chunk') > Max THEN "reject" ELSE "first"
      /\ doubler = "read"
      /\ UNCHANGED <<dmem, once, twice, rd, wr, input, reader, text, rmem, typed, rover, dover, lines>>
  BY DEF ReadPipe, ReadPortion, overVars, parentVars, readerVars
<1> HIDE DEF k
<1>4. /\ data \in Seq(Nat) /\ Len(data) = k
      /\ pipe' \in Seq(Nat) /\ Len(pipe') = Len(pipe) - k
      /\ data \o pipe' = pipe
  BY <1>1, <1>2, <1>3, CutFacts
<1> HIDE DEF data
<1>5. PICK a, b, c, d \in 0 .. Len(typed) :
        /\ InOrder(twice, 0, a)
        /\ InOrder(<<>>, a, b) /\ InOrder(pipe, b, c) /\ InOrder(Coming, c, d)
        /\ ~ReaderLost => d = Len(typed)
  BY <1>3 DEF Flow, Held, DoublerLost
<1>6. a \in Nat /\ b \in Nat /\ c \in Nat /\ a = b /\ Len(typed) \in Nat /\ c <= Len(typed)
  BY <1>5, InOrderNil, LenProperties DEF PipeTypeOK, CommonTypeOK
<1>7. PICK e \in Nat : InOrder(data, a, e) /\ InOrder(pipe', e, c)
  <2>1. data \in Seq(Int) /\ pipe' \in Seq(Int)
    BY <1>4, NatsAreInts
  <2>2. InOrder(data \o pipe', a, c)
    BY <1>4, <1>5, <1>6
  <2> QED BY <1>6, <2>1, <2>2, InOrderCut
<1>8. e \in 0 .. Len(typed)
  BY <1>6, <1>7 DEF InOrder
<1>9. chunk' \in Seq(Nat) /\ InOrder(chunk', a, e) /\ Len(chunk') \in k .. Max + dover
  <2>1. dmem \in {"any", "zero", "full"} /\ dover \in 0 .. 1 /\ Len(data) <= Max /\ Max \in Nat
    BY <1>1, <1>2, <1>4 DEF PipeTypeOK, CommonTypeOK
  <2>2. data \in Seq(Nat) /\ chunk' \in Texts(data, Max, dmem, dover)
    BY <1>3, <1>4
  <2>3. /\ chunk' \in Seq(Nat) /\ Len(chunk') \in Len(data) .. Max + dover
        /\ \A x, y \in Nat : InOrder(data, x, y) => InOrder(chunk', x, y)
    BY ONLY <2>1, <2>2, TextOfBuffer
  <2> QED BY <1>4, <1>6, <1>7, <2>3
<1>10. PipeTypeOK'
  <2>1. Len(pipe') <= Cap /\ Len(chunk') \in Nat /\ Len(chunk') >= 1
    <3>1. dover \in 0 .. 1 /\ Len(chunk') \in k .. Max + dover /\ k >= 1
      BY <1>2, <1>9 DEF PipeTypeOK, CommonTypeOK
    <3>2. Len(pipe') = Len(pipe) - k
      BY <1>4
    <3>3. /\ k \in Nat /\ Max \in Nat /\ dover \in Nat /\ Cap \in Nat
          /\ Len(pipe) \in Nat /\ Len(pipe) <= Cap
      BY <1>1, <1>2, <3>1
    <3>4. Len(pipe') <= Cap
      BY ONLY <3>1, <3>2, <3>3
    <3>5. Len(chunk') \in Nat /\ Len(chunk') >= 1
      BY ONLY <3>1, <3>3
    <3> QED BY <3>4, <3>5
  <2>2. doubler' \in {"first", "reject"} /\ (doubler' = "first" => Len(chunk') \in 1 .. Max)
    BY <1>1, <1>3, <2>1
  <2> QED BY <1>3, <1>4, <1>9, <2>1, <2>2 DEF PipeTypeOK, CommonTypeOK
<1>11. AllRead'
  BY <1>3 DEF AllRead
<1>12. EndInv'
  BY <1>3 DEF EndInv, Ended
<1>13. Flow'
  <2>1. Coming' = Coming /\ ReaderLost' = ReaderLost /\ twice' = twice /\ typed' = typed
    BY <1>3 DEF Coming, ReaderLost
  <2>2. CASE doubler' = "first"
    <3>1. Held' = chunk' /\ ~DoublerLost'
      BY <2>2 DEF Held, DoublerLost
    <3> QED BY <1>5, <1>7, <1>8, <1>9, <2>1, <3>1 DEF Flow
  <2>3. CASE doubler' = "reject"
    <3>1. DoublerLost'
      BY <2>3 DEF DoublerLost
    <3> QED BY <1>5, <2>1, <3>1 DEF Flow
  <2> QED BY <1>3, <2>2, <2>3
<1> QED BY <1>10, <1>11, <1>12, <1>13

LEMMA PipeWrites ==
  ASSUME PipeInv, WriteFirst \/ WriteSecond
  PROVE  PipeInv'
<1> USE DEF PipeInv
<1>0. /\ once \in Seq(Nat) /\ twice \in Seq(Nat) /\ chunk \in Seq(Nat)
      /\ once \o chunk \in Seq(Nat) /\ twice \o chunk \in Seq(Nat)
      /\ twice \o <<>> = twice /\ (twice \o chunk) \o <<>> = twice \o chunk
  BY ConcatProperties, ConcatEmptySeq DEF PipeTypeOK, CommonTypeOK
<1>1. CASE WriteFirst
  <2>1. /\ doubler = "first" /\ doubler' = "second" /\ once' = once \o chunk
        /\ UNCHANGED <<chunk, dmem, twice, pipe, rd, wr, input, reader, text, rmem, typed,
                       rover, dover, lines>>
    BY <1>1 DEF WriteFirst, overVars, parentVars, readerVars
  <2>2. PipeTypeOK'
    BY <1>0, <2>1 DEF PipeTypeOK, CommonTypeOK
  <2>3. AllRead'
    BY <2>1 DEF AllRead
  <2>4. EndInv'
    BY <1>0, <2>1 DEF EndInv, Ended
  <2>5. Flow'
    BY <2>1 DEF Flow, Held, Coming, DoublerLost, ReaderLost
  <2> QED BY <2>2, <2>3, <2>4, <2>5
<1>2. CASE WriteSecond
  <2>1. /\ doubler = "second" /\ doubler' = "read" /\ twice' = twice \o chunk /\ dmem' = "zero"
        /\ UNCHANGED <<chunk, once, pipe, rd, wr, input, reader, text, rmem, typed, rover, dover, lines>>
    BY <1>2 DEF WriteSecond, overVars, parentVars, readerVars
  <2>2. PipeTypeOK'
    BY <1>0, <2>1 DEF PipeTypeOK, CommonTypeOK
  <2>3. AllRead'
    BY <2>1 DEF AllRead
  <2>4. EndInv'
    BY <1>0, <2>1 DEF EndInv, Ended
  <2>5. Flow'
    <3>1. PICK a, b, c, d \in 0 .. Len(typed) :
            /\ InOrder(twice, 0, a)
            /\ InOrder(chunk, a, b) /\ InOrder(pipe, b, c) /\ InOrder(Coming, c, d)
            /\ ~ReaderLost => d = Len(typed)
      BY <2>1 DEF Flow, Held, DoublerLost
    <3>2. /\ Held' = <<>> /\ Coming' = Coming /\ ReaderLost' = ReaderLost
          /\ typed' = typed /\ pipe' = pipe
      BY <2>1 DEF Held, Coming, ReaderLost
    <3>3. InOrder(twice', 0, b)
      <4>1. twice \in Seq(Int) /\ chunk \in Seq(Int) /\ a \in Nat /\ b \in Nat
        BY <1>0, NatsAreInts
      <4> QED BY <2>1, <3>1, <4>1, InOrderJoin
    <3>4. InOrder(<<>>, b, b)
      BY InOrderEmpty
    <3> QED BY <3>1, <3>2, <3>3, <3>4 DEF Flow
  <2> QED BY <2>2, <2>3, <2>4, <2>5
<1> QED BY <1>1, <1>2

LEMMA PipeDoublerOther ==
  ASSUME PipeInv, CloseOther \/ PipeEnds \/ DoublerExits \/ KillDoubler
  PROVE  PipeInv'
<1> USE DEF PipeInv
<1>1. /\ UNCHANGED <<chunk, dmem, once, twice, pipe, input, reader, text, rmem, typed, rover, dover, lines>>
      /\ rd' \subseteq rd /\ wr' \subseteq wr /\ ("reader" \in wr => "reader" \in wr')
  BY DEF CloseOther, PipeEnds, DoublerExits, KillDoubler, overVars, doublerVars, parentVars,
     readerVars
<1>2. /\ doubler' \in {"read", "close", "done", "failed", "killed"}
      /\ DoublerLost => DoublerLost'
      /\ ~DoublerLost' => doubler \in {"start", "read", "close"}
      /\ doubler' # "killed" => doubler # "killed" /\ doubler # "second"
      /\ doubler' \in {"close", "done"} => pipe' = <<>> /\ wr' = {}
      /\ doubler \in Ended => doubler' \in Ended
  BY DEF CloseOther, PipeEnds, DoublerExits, KillDoubler, Ended, DoublerLost, EndInv, doublerVars,
     parentVars, readerVars
<1>3. PipeTypeOK'
  <2>1. doubler' \notin {"first", "second"} /\ rd' \subseteq Procs /\ wr' \subseteq Procs
    BY <1>1, <1>2 DEF PipeTypeOK, CommonTypeOK
  <2> QED BY <1>1, <1>2, <2>1 DEF PipeTypeOK, CommonTypeOK, Ended
<1>4. AllRead'
  BY <1>1 DEF AllRead
<1>5. EndInv'
  <2>1. reader' \in {"start", "read", "write", "reject", "close"} => "reader" \in wr'
    BY <1>1 DEF EndInv
  <2>2. doubler' \in {"close", "done"} => pipe' = <<>> /\ wr' = {}
    BY <1>2
  <2>3. reader' = "done" => doubler' \in Ended
    BY <1>1, <1>2 DEF EndInv
  <2>4. doubler' # "killed" => once' = twice' \o (IF doubler' = "second" THEN chunk' ELSE <<>>)
    BY <1>1, <1>2 DEF EndInv
  <2> QED BY <2>1, <2>2, <2>3, <2>4 DEF EndInv
<1>6. Flow'
  <2>1. PICK a, b, c, d \in 0 .. Len(typed) :
          /\ InOrder(twice, 0, a)
          /\ ~DoublerLost => InOrder(Held, a, b) /\ InOrder(pipe, b, c) /\ InOrder(Coming, c, d)
          /\ ~DoublerLost /\ ~ReaderLost => d = Len(typed)
    BY DEF Flow
  <2>2. /\ Coming' = Coming /\ ReaderLost' = ReaderLost /\ twice' = twice
        /\ typed' = typed /\ pipe' = pipe /\ (~DoublerLost' => Held' = Held)
    BY <1>1, <1>2 DEF Held, Coming, ReaderLost, Ended
  <2>3. ~DoublerLost' =>
          InOrder(Held', a, b) /\ InOrder(pipe', b, c) /\ InOrder(Coming', c, d)
    BY <1>2, <2>1, <2>2
  <2>4. ~DoublerLost' /\ ~ReaderLost' => d = Len(typed')
    BY <1>2, <2>1, <2>2
  <2> QED BY <2>1, <2>2, <2>3, <2>4 DEF Flow
<1> QED BY <1>3, <1>4, <1>5, <1>6

LEMMA PipeStep ==
  ASSUME PipeInv, [PipeNext]_pipeVars
  PROVE  PipeInv'
<1>1. CASE UNCHANGED pipeVars
  <2>1. UNCHANGED <<pipe, rd, wr, input, reader, text, rmem, typed, doubler, chunk, dmem,
                    once, twice, rover, dover, lines>>
    BY <1>1 DEF pipeVars, parentVars, readerVars, childVars, doublerVars, overVars
  <2>2. PipeTypeOK'
    BY <2>1 DEF PipeInv, PipeTypeOK, CommonTypeOK
  <2>3. AllRead' /\ EndInv'
    BY <2>1 DEF PipeInv, AllRead, EndInv
  <2>4. Flow'
    BY <2>1 DEF PipeInv, Flow, Held, Coming, DoublerLost, ReaderLost
  <2> QED BY <2>2, <2>3, <2>4 DEF PipeInv
<1> QED BY <1>1, PipeReadLine, PipeWriteLine, PipeReaderOther, PipeReadPipe, PipeWrites,
           PipeDoublerOther DEF PipeNext, ParentStep, ChildStep

(* What the properties of Pipe rest on.                                    *)
LEMMA PipeInvariance == PipeSpec => []PipeInv
<1>1. PipeInit => PipeInv
  BY PipeStarts
<1>2. PipeInv /\ [PipeNext]_pipeVars => PipeInv'
  BY PipeStep
<1> QED BY <1>1, <1>2, PTL DEF PipeSpec

(* Buffers and pipe hold no more than they can.                            *)
THEOREM PipeTypeCorrect == PipeSpec => []PipeTypeOK
BY PipeInvariance, PTL DEF PipeInv

LEMMA PipeFlow ==
  ASSUME PipeInv
  PROVE  \E a \in 0 .. Len(typed) :
           /\ Clean(twice) = [i \in 1 .. a |-> i]
           /\ doubler = "done" /\ reader = "done" => a = Len(typed)
<1> USE DEF PipeInv
<1>1. PICK a, b, c, d \in 0 .. Len(typed) :
        /\ InOrder(twice, 0, a)
        /\ ~DoublerLost => InOrder(Held, a, b) /\ InOrder(pipe, b, c) /\ InOrder(Coming, c, d)
        /\ ~DoublerLost /\ ~ReaderLost => d = Len(typed)
  BY DEF Flow
<1>2. a \in Nat /\ b \in Nat /\ c \in Nat /\ d \in Nat
  OBVIOUS
<1>3. Clean(twice) = [i \in 1 .. a |-> i]
  <2>1. twice \in Seq(Int)
    BY NatsAreInts DEF PipeTypeOK, CommonTypeOK
  <2>2. Clean(twice) = [i \in 1 .. a - 0 |-> 0 + i]
    BY <1>1, <1>2, <2>1, InOrderClean
  <2> QED BY <1>2, <2>2
<1>4. doubler = "done" /\ reader = "done" => a = Len(typed)
  <2> SUFFICES ASSUME doubler = "done", reader = "done" PROVE a = Len(typed)
    OBVIOUS
  <2>1. ~DoublerLost /\ ~ReaderLost /\ Held = <<>> /\ pipe = <<>> /\ Coming = <<>>
    BY DEF DoublerLost, ReaderLost, Held, Coming, EndInv
  <2>2. a = b /\ b = c /\ c = d
    BY <1>1, <1>2, <2>1, InOrderNil
  <2> QED BY <1>1, <2>1, <2>2
<1> QED BY <1>3, <1>4

(* The program ends well only after the doubler, and then every byte of    *)
(* the lines that are not too long has come out twice, in order, unless    *)
(* the doubler was killed or has given up.                                 *)
THEOREM PipeAllDoubled == PipeSpec => []AllDoubledAtEnd
<1>1. PipeInv => AllDoubledAtEnd
  <2> SUFFICES ASSUME PipeInv, reader = "done"
               PROVE  /\ doubler \in Ended
                      /\ doubler = "done" =>
                           once = twice /\ Fitting(Clean(twice)) = Fitting(typed)
    BY DEF AllDoubledAtEnd
  <2>1. doubler \in Ended
    BY DEF PipeInv, EndInv
  <2>2. doubler = "done" => once = twice
    BY ConcatEmptySeq DEF PipeInv, EndInv, PipeTypeOK, CommonTypeOK
  <2>3. doubler = "done" => Clean(twice) = typed
    BY PipeFlow DEF PipeInv, AllRead
  <2> QED BY <2>1, <2>2, <2>3
<1> QED BY <1>1, PipeInvariance, PTL

(* Before anything is written both buffers are as they were found; and a   *)
(* byte that nobody typed is in the pipe only before the doubler has read, *)
(* where its first read takes it.                                          *)
NoJunk(s) == \A i \in DOMAIN s : s[i] # Junk

JunkInv ==
  /\ JunkOnlyAtFirst
  /\ rmem = "any" => pipe = <<>> /\ dmem = "any" /\ doubler \notin {"first", "second"}
  /\ rmem = "zero" /\ reader = "write" => NoJunk(text)
  /\ ~NoJunk(pipe) => dmem = "any" /\ doubler \notin {"first", "second"}
  /\ \A i \in DOMAIN pipe : pipe[i] = Junk => i <= Max
  /\ dmem = "any" /\ doubler \in {"start", "read", "first"} => once = <<>>
  /\ dmem = "zero" /\ doubler = "first" => NoJunk(chunk)

(* A buffer that was cleared adds nothing to what is read into it, unless  *)
(* it is full and so given up.                                             *)
LEMMA ClearedText ==
  ASSUME NEW data \in Seq(Nat), NoJunk(data), Len(data) <= Max, NEW over \in 0 .. 1,
         NEW t \in Texts(data, Max, "zero", over), Len(t) <= Max
  PROVE  NoJunk(t)
<1>1. Len(data) \in Nat /\ Max \in Nat
  BY LenProperties, MaxAssumption
<1>2. PICK n \in Stray(data, Max, "zero", over) : t = data \o [i \in 1 .. n |-> Junk]
  BY DEF Texts
<1>3. n \in {0, over}
  <2>1. CASE Max - Len(data) = 0
    BY <1>1, <1>2, <2>1 DEF Stray
  <2>2. CASE Max - Len(data) > 0
    BY <1>1, <1>2, <2>2 DEF Stray
  <2> QED BY <1>1, <2>1, <2>2
<1>4. n = 0
  <2> SUFFICES ASSUME n = 1 PROVE FALSE
    BY <1>3
  <2>1. Max - Len(data) = 0
    BY <1>1, <1>2 DEF Stray
  <2>2. [i \in 1 .. 1 |-> Junk] \in Seq(Nat) /\ Len([i \in 1 .. 1 |-> Junk]) = 1
    BY DEF Junk
  <2>3. Len(data \o [i \in 1 .. 1 |-> Junk]) = Len(data) + 1
    BY <2>2, ConcatProperties
  <2> QED BY <1>1, <1>2, <2>1, <2>3
<1>5. [i \in 1 .. 0 |-> Junk] = <<>> /\ data \o <<>> = data
  BY ConcatEmptySeq
<1> QED BY <1>2, <1>4, <1>5

(* What is read and what is left, byte by byte.                            *)
LEMMA CutElements ==
  ASSUME NEW s \in Seq(Nat), NEW k \in 0 .. Len(s)
  PROVE  /\ \A i \in 1 .. k : First(s, k)[i] = s[i]
         /\ \A i \in 1 .. Len(s) - k : From(s, k + 1)[i] = s[k + i]
<1>1. Len(s) \in Nat /\ k \in Nat /\ k <= Len(s)
  BY LenProperties
<1>2. \A i \in 1 .. k : First(s, k)[i] = s[i]
  <2>1. 1 <= k + 1 /\ 1 \in Nat \ {0}
    BY <1>1
  <2>2. \A i \in 1 .. k - 1 + 1 : SubSeq(s, 1, k)[i] = s[1 + i - 1]
    BY <2>1, PartFacts
  <2> QED BY <1>1, <2>2 DEF First
<1>3. \A i \in 1 .. Len(s) - k : From(s, k + 1)[i] = s[k + i]
  <2>1. k + 1 <= Len(s) + 1 /\ k + 1 \in Nat \ {0} /\ Len(s) \in 0 .. Len(s)
    BY <1>1
  <2>2. \A i \in 1 .. Len(s) - (k + 1) + 1 : SubSeq(s, k + 1, Len(s))[i] = s[(k + 1) + i - 1]
    BY <2>1, PartFacts
  <2> QED BY <1>1, <2>2 DEF From
<1> QED BY <1>2, <1>3

LEMMA JunkReader ==
  ASSUME PipeTypeOK, JunkInv,
         CloseRead \/ ReadLine \/ WriteLine \/ WriteBroken \/ EndOfInput \/ CloseWrite
           \/ Waited \/ KillReader
  PROVE  JunkInv'
<1>1. UNCHANGED <<doubler, once, chunk, dmem>>
  BY DEF CloseRead, ReadLine, WriteLine, WriteBroken, EndOfInput, CloseWrite, Waited, KillReader,
     childVars, doublerVars
<1>2. JunkOnlyAtFirst'
  BY <1>1 DEF JunkInv, JunkOnlyAtFirst
<1>3. CASE WriteLine
  <2>1. /\ reader = "write" /\ reader' = "read" /\ rmem' = "zero" /\ pipe' = pipe \o text
        /\ text \in Seq(Nat) /\ pipe \in Seq(Nat) /\ Len(text) \in 1 .. Max
        /\ rmem \in {"any", "zero"}
    BY <1>3 DEF WriteLine, PipeTypeOK, CommonTypeOK
  <2>2. /\ pipe' \in Seq(Nat) /\ Len(pipe') = Len(pipe) + Len(text)
        /\ Len(pipe) \in Nat /\ DOMAIN pipe = 1 .. Len(pipe) /\ DOMAIN text = 1 .. Len(text)
        /\ DOMAIN pipe' = 1 .. Len(pipe) + Len(text)
        /\ \A i \in 1 .. Len(pipe) + Len(text) :
             pipe'[i] = IF i <= Len(pipe) THEN pipe[i] ELSE text[i - Len(pipe)]
    BY <2>1, ConcatProperties, LenProperties
  <2>3. CASE rmem = "any"
    <3>1. /\ pipe = <<>> /\ dmem = "any" /\ doubler \notin {"first", "second"} /\ Len(pipe) = 0
      BY <2>3 DEF JunkInv
    <3>2. \A i \in DOMAIN pipe' : i <= Max
      BY <2>1, <2>2, <3>1, MaxAssumption
    <3> QED BY <1>1, <1>2, <2>1, <3>1, <3>2 DEF JunkInv
  <2>4. CASE rmem = "zero"
    <3>1. NoJunk(text)
      BY <2>1, <2>4 DEF JunkInv
    <3>2. \A i \in DOMAIN pipe' : pipe'[i] = Junk => i \in DOMAIN pipe /\ pipe[i] = Junk
      <4> SUFFICES ASSUME NEW i \in 1 .. Len(pipe) + Len(text), ~(i <= Len(pipe))
                   PROVE  pipe'[i] # Junk
        BY <2>2
      <4>1. i - Len(pipe) \in 1 .. Len(text)
        BY <2>1, <2>2
      <4> QED BY <2>2, <3>1, <4>1 DEF NoJunk
    <3>3. NoJunk(pipe) => NoJunk(pipe')
      BY <3>2 DEF NoJunk
    <3> QED BY <1>1, <1>2, <2>1, <3>2, <3>3 DEF JunkInv
  <2> QED BY <2>1, <2>3, <2>4
<1>4. CASE ReadLine
  <2> DEFINE k == LineCut(input, Max)
             data == [i \in 1 .. k |-> Len(typed) + i]
  <2>1. /\ UNCHANGED <<rmem, pipe, rover>> /\ rover \in 0 .. 1
        /\ text' \in Texts(data, Max, rmem, rover)
        /\ reader' = "write" => ~(Len(text') > Max)
        /\ input \in Seq(Nat \ {0}) /\ input # <<>> /\ typed \in Seq(Nat)
    BY <1>4 DEF ReadLine, ReadTyped, overVars, PipeTypeOK, CommonTypeOK
  <2>2. k \in 1 .. Max /\ Max \in Nat /\ Len(typed) \in Nat
    BY <2>1, LineFacts, MaxAssumption, LenProperties
  <2> HIDE DEF k
  <2>3. data \in Seq(Nat) /\ Len(data) = k /\ NoJunk(data)
    BY <2>2 DEF NoJunk, Junk
  <2> HIDE DEF data
  <2>4. ASSUME rmem = "zero", reader' = "write" PROVE NoJunk(text')
    <3>1. text' \in Texts(data, Max, "zero", rover) /\ Len(data) <= Max
      BY <2>1, <2>2, <2>3, <2>4
    <3>2. text' \in Seq(Nat)
      BY <2>1, <2>2, <2>3, <3>1, TextOfBuffer
    <3>3. Len(text') <= Max
      BY <2>1, <2>2, <2>4, <3>2, LenProperties
    <3> QED BY <2>1, <2>3, <3>1, <3>3, ClearedText
  <2> QED BY <1>1, <1>2, <2>1, <2>4 DEF JunkInv
<1>5. CASE CloseRead \/ WriteBroken \/ EndOfInput \/ CloseWrite \/ Waited \/ KillReader
  <2>1. UNCHANGED <<rmem, pipe>> /\ reader' # "write"
    BY <1>5 DEF CloseRead, WriteBroken, EndOfInput, CloseWrite, Waited, KillReader, readerVars
  <2> QED BY <1>1, <1>2, <2>1 DEF JunkInv
<1> QED BY <1>3, <1>4, <1>5

LEMMA JunkDoubler ==
  ASSUME PipeTypeOK, JunkInv,
         CloseOther \/ ReadPipe \/ PipeEnds \/ WriteFirst \/ WriteSecond \/ DoublerExits
           \/ KillDoubler
  PROVE  JunkInv'
<1>1. UNCHANGED <<reader, text, rmem>>
  BY DEF CloseOther, ReadPipe, PipeEnds, WriteFirst, WriteSecond, DoublerExits, KillDoubler,
     parentVars, readerVars
<1>2. /\ rmem \in {"any", "zero"} /\ dmem \in {"any", "zero"} /\ Max \in Nat \ {0}
      /\ pipe \in Seq(Nat) /\ chunk \in Seq(Nat) /\ once \in Seq(Nat)
      /\ doubler \in {"first", "second"} => Len(chunk) \in 1 .. Max
  BY MaxAssumption DEF PipeTypeOK, CommonTypeOK
<1>3. CASE ReadPipe
  <2> DEFINE k == Portion(pipe)
             data == First(pipe, k)
  <2>1. /\ UNCHANGED <<dmem, once, dover>> /\ dover \in 0 .. 1
        /\ doubler = "read" /\ pipe # <<>>
        /\ chunk' \in Texts(data, Max, dmem, dover) /\ pipe' = From(pipe, k + 1)
        /\ doubler' = IF Len(chunk') > Max THEN "reject" ELSE "first"
    BY <1>3 DEF ReadPipe, ReadPortion, overVars, PipeTypeOK, CommonTypeOK
  <2>2. Len(pipe) \in Nat /\ DOMAIN pipe = 1 .. Len(pipe)
    BY <1>2, LenProperties
  <2>3. /\ k \in 0 .. Len(pipe) /\ k <= Max /\ (k = Max \/ k = Len(pipe))
        /\ k \in Nat /\ k <= Len(pipe)
    BY <1>2, <2>2 DEF Portion
  <2> HIDE DEF k
  <2>4. /\ pipe' \in Seq(Nat) /\ DOMAIN pipe' = 1 .. Len(pipe) - k
        /\ \A i \in 1 .. Len(pipe) - k : pipe'[i] = pipe[k + i]
        /\ data \in Seq(Nat) /\ Len(data) = k /\ DOMAIN data = 1 .. k
        /\ \A i \in 1 .. k : data[i] = pipe[i]
    <3>1. /\ From(pipe, k + 1) \in Seq(Nat) /\ Len(From(pipe, k + 1)) = Len(pipe) - k
          /\ data \in Seq(Nat) /\ Len(data) = k
      BY <1>2, <2>3, CutFacts
    <3>2. /\ \A i \in 1 .. Len(pipe) - k : From(pipe, k + 1)[i] = pipe[k + i]
          /\ \A i \in 1 .. k : data[i] = pipe[i]
      BY <1>2, <2>3, CutElements
    <3> QED BY <2>1, <3>1, <3>2, LenProperties
  <2> HIDE DEF data
  <2>5. NoJunk(pipe')
    <3> SUFFICES ASSUME NEW i \in 1 .. Len(pipe) - k PROVE pipe[k + i] # Junk
      BY <2>4 DEF NoJunk
    <3>1. k \in Nat /\ Max \in Nat /\ Len(pipe) \in Nat /\ (k = Max \/ k = Len(pipe))
      BY <1>2, <2>2, <2>3
    <3>2. k + i \in 1 .. Len(pipe) /\ ~(k + i <= Max)
      BY ONLY <3>1
    <3> QED BY <2>2, <3>2 DEF JunkInv
  <2>6. ASSUME dmem = "zero", doubler' = "first" PROVE NoJunk(chunk')
    <3>1. NoJunk(pipe)
      BY <2>6 DEF JunkInv
    <3>2. NoJunk(data)
      <4>1. k \in Nat /\ k <= Len(pipe) /\ Len(pipe) \in Nat
        BY <2>3, <1>2, LenProperties
      <4>2. \A i \in 1 .. k : i \in 1 .. Len(pipe)
        BY ONLY <4>1
      <4> QED BY <2>2, <2>4, <3>1, <4>2 DEF NoJunk
    <3>3. chunk' \in Texts(data, Max, "zero", dover) /\ Len(data) <= Max
      BY <2>1, <2>3, <2>4, <2>6
    <3>4. chunk' \in Seq(Nat)
      BY <1>2, <2>1, <2>4, <3>3, TextOfBuffer
    <3>5. Len(chunk') <= Max
      BY <1>2, <2>1, <2>6, <3>4, LenProperties
    <3> QED BY <2>1, <2>4, <3>2, <3>3, <3>5, ClearedText
  <2>7. rmem # "any"
    BY <2>1 DEF JunkInv
  <2>8. JunkOnlyAtFirst' /\ (dmem' = "any" => once' = <<>>)
    BY <2>1 DEF JunkInv, JunkOnlyAtFirst
  <2> QED BY <1>1, <2>1, <2>5, <2>6, <2>7, <2>8 DEF JunkInv, NoJunk
<1>4. CASE WriteFirst
  <2>1. /\ doubler = "first" /\ doubler' = "second" /\ once' = once \o chunk
        /\ UNCHANGED <<chunk, dmem, pipe>>
    BY <1>4 DEF WriteFirst
  <2>2. JunkOnlyAtFirst'
    <3>1. /\ DOMAIN once = 1 .. Len(once) /\ Len(once) \in Nat /\ Len(chunk) \in 1 .. Max
          /\ DOMAIN chunk = 1 .. Len(chunk)
          /\ DOMAIN once' = 1 .. Len(once) + Len(chunk)
          /\ \A i \in 1 .. Len(once) + Len(chunk) :
               once'[i] = IF i <= Len(once) THEN once[i] ELSE chunk[i - Len(once)]
      BY <1>2, <2>1, ConcatProperties, LenProperties
    <3>2. CASE dmem = "any"
      <4>1. Len(once) = 0
        BY <2>1, <3>2 DEF JunkInv
      <4> QED BY <1>2, <3>1, <4>1 DEF JunkOnlyAtFirst
    <3>3. CASE dmem = "zero"
      <4>1. NoJunk(chunk)
        BY <2>1, <3>3 DEF JunkInv
      <4>2. ASSUME NEW i \in 1 .. Len(once) + Len(chunk), once'[i] = Junk PROVE i <= Max
        <5>1. CASE i <= Len(once)
          <6>1. i \in DOMAIN once /\ once[i] = Junk
            BY <3>1, <4>2, <5>1
          <6> QED BY <6>1 DEF JunkInv, JunkOnlyAtFirst
        <5>2. CASE ~(i <= Len(once))
          <6>1. i - Len(once) \in 1 .. Len(chunk)
            BY <3>1, <5>2
          <6> QED BY <3>1, <4>1, <4>2, <5>2, <6>1 DEF NoJunk
        <5> QED BY <5>1, <5>2
      <4> QED BY <3>1, <4>2 DEF JunkOnlyAtFirst
    <3> QED BY <1>2, <3>2, <3>3
  <2> QED BY <1>1, <2>1, <2>2 DEF JunkInv
<1>5. CASE WriteSecond
  <2>1. /\ doubler = "second" /\ doubler' = "read" /\ dmem' = "zero" /\ UNCHANGED <<once, pipe>>
    BY <1>5 DEF WriteSecond
  <2>2. JunkOnlyAtFirst' /\ rmem # "any" /\ NoJunk(pipe)
    BY <2>1 DEF JunkInv, JunkOnlyAtFirst
  <2> QED BY <1>1, <2>1, <2>2 DEF JunkInv, NoJunk
<1>6. CASE CloseOther \/ PipeEnds \/ DoublerExits \/ KillDoubler
  <2>1. /\ UNCHANGED <<once, chunk, dmem, pipe>> /\ doubler' \notin {"start", "first", "second"}
        /\ doubler' = "read" => doubler = "start"
    BY <1>6 DEF CloseOther, PipeEnds, DoublerExits, KillDoubler, doublerVars
  <2>2. JunkOnlyAtFirst'
    BY <2>1 DEF JunkInv, JunkOnlyAtFirst
  <2> QED BY <1>1, <2>1, <2>2 DEF JunkInv, NoJunk
<1> QED BY <1>3, <1>4, <1>5, <1>6

(* Bytes that nobody typed come out in the doubler's first portion at the  *)
(* most: both buffers are cleared in time.                                 *)
THEOREM PipeJunkAtFirst == PipeSpec => []JunkOnlyAtFirst
<1>1. PipeInit => JunkInv
  BY DEF PipeInit, NothingDone, JunkInv, JunkOnlyAtFirst, NoJunk
<1>2. PipeTypeOK /\ JunkInv /\ [PipeNext]_pipeVars => JunkInv'
  <2> SUFFICES ASSUME PipeTypeOK, JunkInv, [PipeNext]_pipeVars PROVE JunkInv'
    OBVIOUS
  <2>1. CASE UNCHANGED pipeVars
    BY <2>1 DEF JunkInv, JunkOnlyAtFirst, NoJunk, pipeVars, parentVars, readerVars, childVars,
       doublerVars
  <2> QED BY <2>1, JunkReader, JunkDoubler DEF PipeNext, ParentStep, ChildStep
<1>3. JunkInv => JunkOnlyAtFirst
  BY DEF JunkInv
<1> QED BY <1>1, <1>2, <1>3, PipeTypeCorrect, PTL DEF PipeSpec

LEMMA PipeStreamInit ==
  ASSUME PipeInit
  PROVE  B!Init
<1>1. InOrder(<<>>, 0, 0) /\ <<>> \in Seq(Int)
  BY InOrderEmpty, EmptySeq
<1>2. Clean(<<>>) = [i \in 1 .. 0 - 0 |-> 0 + i]
  BY <1>1, InOrderClean
<1>3. Clean(<<>>) = <<>>
  BY <1>2
<1> QED BY <1>3 DEF PipeInit, NothingDone, B!Init

(* What the doubler has written twice grows only by what follows it.       *)
LEMMA PipeStreamStep ==
  ASSUME PipeInv, PipeInv', [PipeNext]_pipeVars
  PROVE  [B!Next]_B!vars
<1>1. /\ Len(typed) \in Nat /\ Len(typed') \in Nat
      /\ typed = UpTo(Len(typed)) /\ typed' = UpTo(Len(typed'))
  BY LenProperties DEF PipeInv, PipeTypeOK, CommonTypeOK, AllRead, UpTo
<1>2. PICK a \in 0 .. Len(typed) : Clean(twice) = UpTo(a)
  BY PipeFlow DEF UpTo
<1>3. \E b \in Nat : /\ Clean(twice') = UpTo(b) /\ a <= b /\ b <= Len(typed')
                     /\ Len(typed) <= Len(typed') /\ (Len(typed) = Len(typed') \/ a = b)
  <2>1. CASE ReadLine
    <3>1. twice' = twice /\ Len(typed) <= Len(typed')
      <4> DEFINE k == LineCut(input, Max)
                 data == [i \in 1 .. k |-> Len(typed) + i]
      <4>1. twice' = twice /\ typed' = typed \o data
        BY <2>1 DEF ReadLine, ReadTyped, childVars, doublerVars
      <4>2. typed \in Seq(Nat) /\ k \in Nat
        <5>1. /\ input \in Seq(Nat \ {0}) /\ input # <<>> /\ Max \in Nat \ {0}
              /\ typed \in Seq(Nat)
          BY <2>1, MaxAssumption DEF PipeInv, PipeTypeOK, CommonTypeOK, ReadLine, ReadTyped
        <5>2. LineCut(input, Max) \in 1 .. Max
          BY <5>1, LineFacts
        <5> QED BY <5>1, <5>2
      <4> HIDE DEF k
      <4>3. data \in Seq(Nat) /\ Len(data) = k
        BY <1>1, <4>2, InOrderNext
      <4>4. Len(typed \o data) = Len(typed) + Len(data)
        BY <4>2, <4>3, ConcatProperties
      <4> QED BY <1>1, <4>1, <4>2, <4>3, <4>4
    <3> QED BY <1>1, <1>2, <3>1
  <2>2. CASE WriteSecond
    <3>1. /\ doubler = "second" /\ twice' = twice \o chunk /\ typed' = typed
      BY <2>2 DEF WriteSecond, parentVars, readerVars
    <3>2. \E x, y \in 0 .. Len(typed) : InOrder(twice, 0, x) /\ InOrder(chunk, x, y)
      BY <3>1 DEF PipeInv, Flow, Held, DoublerLost
    <3>3. PICK x \in Nat, y \in Nat :
            InOrder(twice, 0, x) /\ InOrder(chunk, x, y) /\ x <= y /\ y <= Len(typed)
      <4>1. PICK x \in 0 .. Len(typed), y \in 0 .. Len(typed) :
              InOrder(twice, 0, x) /\ InOrder(chunk, x, y)
        BY <3>2
      <4>2. x \in Nat /\ y \in Nat /\ y <= Len(typed)
        BY <1>1
      <4>3. x <= y
        BY <4>1 DEF InOrder
      <4> QED BY <4>1, <4>2, <4>3
    <3>4. twice \in Seq(Int) /\ chunk \in Seq(Int)
      BY NatsAreInts DEF PipeInv, PipeTypeOK, CommonTypeOK
    <3>5. Clean(twice) = UpTo(x)
      <4>1. Clean(twice) = [i \in 1 .. x - 0 |-> 0 + i]
        BY <3>3, <3>4, InOrderClean
      <4> QED BY <4>1 DEF UpTo
    <3>6. Clean(twice') = UpTo(y)
      <4>1. twice' \in Seq(Int) /\ InOrder(twice', 0, y)
        BY <3>1, <3>3, <3>4, InOrderJoin, ConcatProperties
      <4>2. Clean(twice') = [i \in 1 .. y - 0 |-> 0 + i]
        BY <3>3, <4>1, InOrderClean
      <4> QED BY <4>2 DEF UpTo
    <3>7. a = x
      <4>1. Len(UpTo(a)) = a /\ Len(UpTo(x)) = x
        BY <3>3, AllTyped DEF UpTo
      <4> QED BY <1>2, <3>5, <4>1
    <3> QED BY <1>1, <3>1, <3>3, <3>6, <3>7
  <2>3. CASE typed' = typed /\ twice' = twice
    BY <1>1, <1>2, <2>3
  <2>4. ReadLine \/ WriteSecond \/ (typed' = typed /\ twice' = twice)
    BY DEF PipeNext, ParentStep, ChildStep, CloseRead, WriteLine, WriteBroken, EndOfInput,
       CloseWrite, Waited, KillReader, CloseOther, ReadPipe, ReadPortion, PipeEnds, WriteFirst,
       DoublerExits, KillDoubler, pipeVars, parentVars, readerVars, childVars, doublerVars
  <2> QED BY <2>1, <2>2, <2>3, <2>4
<1>4. PICK b \in Nat : /\ Clean(twice') = UpTo(b) /\ a <= b /\ b <= Len(typed')
                       /\ Len(typed) <= Len(typed') /\ (Len(typed) = Len(typed') \/ a = b)
  BY <1>3
<1>5. \/ typed' = typed /\ Clean(twice') = Clean(twice)
      \/ /\ Len(typed) <= Len(typed') /\ First(typed', Len(typed)) = typed
         /\ typed' # typed /\ Clean(twice') = Clean(twice)
      \/ /\ \E k \in Len(Clean(twice)) + 1 .. Len(typed) : Clean(twice') = First(typed, k)
         /\ typed' = typed
  BY <1>1, <1>2, <1>4, StreamGrows
<1> QED BY <1>5 DEF B!Next, B!Put, B!Take, B!Prefix, B!vars, B!First, First

(* The typed bytes come out in order, none lost on the way or repeated.    *)
THEOREM PipeIsAStream == PipeSpec => Stream
<1>1. PipeInit => B!Init
  BY PipeStreamInit
<1>2. PipeInv /\ PipeInv' /\ [PipeNext]_pipeVars => [B!Next]_B!vars
  BY PipeStreamStep
<1> QED BY <1>1, <1>2, PipeInvariance, PTL DEF PipeSpec, Stream, B!Spec

-----------------------------------------------------------------------------
(* The two do not go on for ever, and where they can stand still.          *)

(* What there is to type, first the lines, then the rest of one; with it   *)
(* how far the reader is with its text; and what the doubler has to do     *)
(* with what is in the pipe.                                               *)
ReaderRank == CASE reader = "start" -> 6 [] reader = "write" -> 5 [] reader = "read" -> 4
                [] reader \in {"reject", "close"} -> 3
                [] reader \in {"wait", "waitFailed"} -> 2 [] reader \in Ended -> 0
DoublerRank == CASE doubler = "start" -> 6 [] doubler \in {"first", "reject"} -> 4
                 [] doubler = "second" -> 3 [] doubler = "read" -> 2 [] doubler = "close" -> 1
                 [] doubler \in Ended -> 0
RestOfLine == IF input = <<>> THEN 0 ELSE Head(input)
ToRead == 8 * RestOfLine + ReaderRank
ToDouble == 4 * Len(pipe) + DoublerRank
PipeLeft == <<Len(input), ToRead, ToDouble>>

LessPipe == Lower(Len(input'), ToRead', ToDouble', Len(input), ToRead, ToDouble)
PipeNats == /\ Len(input) \in Nat /\ RestOfLine \in Nat /\ Len(pipe) \in Nat
            /\ ReaderRank \in 0 .. 6 /\ DoublerRank \in 0 .. 6
            /\ ToRead \in Nat /\ ToDouble \in Nat

LEMMA PipeNatsType == PipeTypeOK => PipeNats
<1> SUFFICES ASSUME PipeTypeOK PROVE PipeNats
  OBVIOUS
<1>1. input \in Seq(Nat \ {0}) /\ pipe \in Seq(Nat)
  BY DEF PipeTypeOK, CommonTypeOK
<1>2. Len(input) \in Nat /\ Len(pipe) \in Nat
  BY <1>1, LenProperties
<1>3. RestOfLine \in Nat
  BY <1>1, HeadTailProperties DEF RestOfLine
<1>4. ReaderRank \in 0 .. 6
  BY DEF ReaderRank, PipeTypeOK, Ended
<1>5. DoublerRank \in 0 .. 6
  BY DEF DoublerRank, PipeTypeOK, Ended
<1>6. ToRead \in Nat
  BY ONLY <1>3, <1>4 DEF ToRead
<1>7. ToDouble \in Nat
  BY ONLY <1>2, <1>5 DEF ToDouble
<1> QED BY <1>2, <1>3, <1>4, <1>5, <1>6, <1>7, Zenon DEF PipeNats

(* A read takes a line, or some of one.                                    *)
LEMMA LineGoes ==
  ASSUME NEW todo \in Seq(Nat \ {0}), todo # <<>>, NEW max \in Nat \ {0},
         NEW k, k = LineCut(todo, max), NEW rest, rest = CutOff(todo, k)
  PROVE  \/ Len(rest) < Len(todo)
         \/ Len(rest) = Len(todo) /\ rest # <<>> /\ Head(rest) = Head(todo) - k
<1>1. /\ Head(todo) \in Nat \ {0} /\ Tail(todo) \in Seq(Nat \ {0})
      /\ Len(Tail(todo)) = Len(todo) - 1 /\ Len(todo) \in Nat
  BY HeadTailProperties, LenProperties
<1>2. CASE k = Head(todo)
  <2>1. rest = Tail(todo)
    BY <1>2 DEF CutOff
  <2>2. Len(rest) = Len(todo) - 1 /\ Len(todo) \in Nat
    BY ONLY <1>1, <2>1, Zenon
  <2>3. Len(rest) < Len(todo)
    BY ONLY <2>2
  <2> QED BY <2>3, Zenon
<1>3. CASE k # Head(todo)
  <2> DEFINE h == Head(todo) - k
             s == <<h>> \o Tail(todo)
  <2>1. rest = s
    BY <1>3 DEF CutOff
  <2>2. k \in Nat
    BY <1>1 DEF LineCut
  <2>3. h \in Int
    BY ONLY <1>1, <2>2
  <2> HIDE DEF h
  <2>4. <<h>> \in Seq(Int) /\ Tail(todo) \in Seq(Int) /\ Len(<<h>>) = 1 /\ <<h>>[1] = h
    <3>1. Nat \ {0} \subseteq Int
      OBVIOUS
    <3> QED BY <1>1, <2>3, <3>1
  <2>5. /\ s \in Seq(Int) /\ Len(s) = Len(<<h>>) + Len(Tail(todo))
        /\ \A i \in 1 .. Len(<<h>>) : s[i] = <<h>>[i]
    BY <2>4, ConcatProperties
  <2> HIDE DEF s
  <2>6. Len(s) = Len(todo) /\ s[1] = h
    BY ONLY <1>1, <2>4, <2>5
  <2>7. s # <<>>
    BY <1>1, <2>6
  <2>8. Head(s) = s[1]
    BY <2>5, <2>7, HeadTailProperties
  <2> QED BY <2>1, <2>6, <2>7, <2>8 DEF h
<1> QED BY <1>2, <1>3

LEMMA ReadLowers ==
  ASSUME PipeTypeOK, PipeNats, PipeNats', ReadLine
  PROVE  LessPipe
<1> DEFINE k == LineCut(input, Max)
<1>1. /\ input \in Seq(Nat \ {0}) /\ input # <<>> /\ Max \in Nat \ {0} /\ input' = CutOff(input, k)
  BY MaxAssumption DEF ReadLine, ReadTyped, PipeTypeOK, CommonTypeOK
<1>2. k \in 1 .. Max
  BY <1>1, LineFacts
<1>3. \/ Len(input') < Len(input)
      \/ Len(input') = Len(input) /\ input' # <<>> /\ Head(input') = Head(input) - k
  BY <1>1, LineGoes
<1>4. /\ RestOfLine \in Nat /\ RestOfLine' \in Nat
      /\ ReaderRank \in 0 .. 6 /\ ReaderRank' \in 0 .. 6
  BY DEF PipeNats
<1>5. CASE Len(input') < Len(input)
  BY ONLY <1>5 DEF LessPipe, Lower
<1>6. CASE Len(input') = Len(input) /\ input' # <<>> /\ Head(input') = Head(input) - k
  <2>1. RestOfLine' = RestOfLine - k
    BY <1>1, <1>6 DEF RestOfLine
  <2>2. ToRead' < ToRead
    BY ONLY <1>2, <1>4, <2>1 DEF ToRead
  <2> QED BY ONLY <1>6, <2>2 DEF LessPipe, Lower
<1> QED BY <1>3, <1>5, <1>6

LEMMA PipeLowers ==
  ASSUME PipeTypeOK, PipeNats, PipeNats', PipeNext
  PROVE  LessPipe
<1>0. /\ Len(input) \in Nat /\ RestOfLine \in Nat /\ Len(pipe) \in Nat
      /\ ReaderRank \in 0 .. 6 /\ DoublerRank \in 0 .. 6
  BY DEF PipeNats
<1>1. CASE ParentStep \/ EndOfInput \/ KillReader
  <2>1. input' = input
    BY <1>1 DEF ParentStep, CloseRead, WriteLine, WriteBroken, CloseWrite, Waited, EndOfInput,
       KillReader, readerVars
  <2>2. \/ reader = "start" /\ reader' = "read"
        \/ reader = "write" /\ reader' \in {"read", "killed"}
        \/ reader = "read" /\ reader' = "close"
        \/ reader \in {"close", "reject"} /\ reader' \in {"wait", "waitFailed"}
        \/ reader \in {"wait", "waitFailed"} /\ reader' \in {"done", "failed"}
        \/ reader \notin Ended /\ reader' = "killed"
    BY <1>1 DEF ParentStep, CloseRead, WriteLine, WriteBroken, CloseWrite, Waited, EndOfInput,
       KillReader
  <2>3. reader \in {"start", "read", "write", "reject", "close", "wait", "waitFailed"} \cup Ended
    BY DEF PipeTypeOK
  <2>4. ReaderRank' \in Nat /\ ReaderRank' < ReaderRank
    BY ONLY <2>2, <2>3 DEF ReaderRank, Ended
  <2>5. RestOfLine' = RestOfLine
    BY ONLY <2>1 DEF RestOfLine
  <2>6. ToRead' < ToRead
    <3>1. \A a, b, d \in Nat : b < d => 8 * a + b < 8 * a + d
      OBVIOUS
    <3>2. RestOfLine \in Nat /\ ReaderRank \in Nat /\ ReaderRank' \in Nat
      BY ONLY <1>0, <2>4
    <3>3. 8 * RestOfLine + ReaderRank' < 8 * RestOfLine + ReaderRank
      BY ONLY <2>4, <3>1, <3>2, Zenon
    <3> QED BY ONLY <2>5, <3>3, Zenon DEF ToRead
  <2> QED BY ONLY <2>1, <2>6 DEF LessPipe, Lower
<1>2. CASE ChildStep \/ KillDoubler
  <2>1. input' = input /\ reader' = reader
    BY <1>2 DEF ChildStep, CloseOther, ReadPipe, PipeEnds, WriteFirst, WriteSecond, DoublerExits,
       KillDoubler, parentVars, readerVars
  <2>2. ToRead' = ToRead
    BY ONLY <2>1 DEF ToRead, RestOfLine, ReaderRank
  <2>3. CASE ReadPipe
    <3>1. /\ pipe \in Seq(Nat) /\ pipe # <<>> /\ Max \in Nat \ {0} /\ Len(pipe) \in Nat \ {0}
          /\ pipe' = From(pipe, Portion(pipe) + 1)
      BY <2>3, EmptySeq, MaxAssumption DEF ReadPipe, PipeTypeOK
    <3>2. Portion(pipe) \in 1 .. Len(pipe)
      BY <3>1 DEF Portion
    <3>3. Len(pipe') = Len(pipe) - Portion(pipe)
      <4>1. Portion(pipe) \in 0 .. Len(pipe)
        BY ONLY <3>1, <3>2
      <4>2. Len(From(pipe, Portion(pipe) + 1)) = Len(pipe) - Portion(pipe)
        BY ONLY <3>1, <4>1, CutFacts
      <4> QED BY ONLY <3>1, <4>2, Zenon
    <3>4. doubler = "read" /\ doubler' \in {"first", "reject"}
      BY <2>3 DEF ReadPipe
    <3>5. DoublerRank = 2 /\ DoublerRank' = 4
      BY ONLY <3>4 DEF DoublerRank, Ended
    <3>6. ToDouble' < ToDouble
      BY ONLY <1>0, <3>2, <3>3, <3>5 DEF ToDouble
    <3> QED BY ONLY <2>1, <2>2, <3>6 DEF LessPipe, Lower
  <2>4. CASE ~ReadPipe
    <3>1. pipe' = pipe
      BY <1>2, <2>4 DEF ChildStep, CloseOther, PipeEnds, WriteFirst, WriteSecond, DoublerExits,
         KillDoubler
    <3>2. \/ doubler = "start" /\ doubler' = "read"
          \/ doubler = "read" /\ doubler' = "close"
          \/ doubler = "first" /\ doubler' = "second"
          \/ doubler = "second" /\ doubler' = "read"
          \/ doubler \in {"close", "reject"} /\ doubler' \in {"done", "failed"}
          \/ doubler \notin Ended /\ doubler' = "killed"
      BY <1>2, <2>4 DEF ChildStep, CloseOther, PipeEnds, WriteFirst, WriteSecond, DoublerExits,
         KillDoubler
    <3>3. doubler \in {"start", "read", "first", "second", "reject", "close"} \cup Ended
      BY DEF PipeTypeOK
    <3>4. DoublerRank' \in Nat /\ DoublerRank' < DoublerRank
      BY ONLY <3>2, <3>3 DEF DoublerRank, Ended
    <3>5. ToDouble' < ToDouble
      BY ONLY <1>0, <3>1, <3>4 DEF ToDouble
    <3> QED BY ONLY <2>1, <2>2, <3>5 DEF LessPipe, Lower
  <2> QED BY <2>3, <2>4
<1> QED BY <1>1, <1>2, ReadLowers DEF PipeNext

(* Neither process goes on for ever, whatever is typed and however it is   *)
(* cut: every step leaves less to type, to pass on or to double.  What     *)
(* BothEnd still needs is that they are not stuck.                         *)
THEOREM PipeRunsOut ==
  IsWellFoundedOn(Down, Tally) /\ (PipeSpec => [][(<<PipeLeft', PipeLeft>> \in Down)]_pipeVars)
<1>1. PipeTypeOK /\ PipeNats /\ PipeNats' /\ [PipeNext]_pipeVars
        => [(<<PipeLeft', PipeLeft>> \in Down)]_pipeVars
  <2> SUFFICES ASSUME PipeTypeOK, PipeNats, PipeNats', PipeNext, ~ UNCHANGED pipeVars
               PROVE  <<PipeLeft', PipeLeft>> \in Down
    OBVIOUS
  <2>1. LessPipe
    BY PipeLowers
  <2>2. /\ Len(input) \in Nat /\ ToRead \in Nat /\ ToDouble \in Nat
        /\ Len(input') \in Nat /\ ToRead' \in Nat /\ ToDouble' \in Nat
    BY Zenon DEF PipeNats
  <2>3. << <<Len(input'), ToRead', ToDouble'>>, <<Len(input), ToRead, ToDouble>> >> \in Down
    BY ONLY <2>1, <2>2, GoesDown DEF LessPipe
  <2> QED BY <2>3, Zenon DEF PipeLeft
<1>2. PipeSpec => [][(<<PipeLeft', PipeLeft>> \in Down)]_pipeVars
  BY <1>1, PipeNatsType, PipeTypeCorrect, PTL DEF PipeSpec
<1> QED BY <1>2, DownEnds

(* Each process has closed what it does not use, and who has ended holds   *)
(* no end of the pipe.                                                     *)
ClosedInv ==
  /\ reader # "start" => "reader" \notin rd
  /\ reader \in {"wait", "waitFailed"} \cup Ended => "reader" \notin wr
  /\ doubler # "start" => "doubler" \notin wr
  /\ doubler \in Ended => "doubler" \notin rd

(* What a process cannot go on from unless somebody else does something: a *)
(* terminal or a pipe with nothing in it that may yet come, a full pipe    *)
(* that may yet be read, wait(0) with the child alive.                     *)
ParentBlocked ==
  \/ reader \in Ended \cup {"read"}
  \/ reader = "write" /\ rd # {} /\ Len(pipe) + Len(text) > Cap
  \/ reader \in {"wait", "waitFailed"} /\ doubler \notin Ended
ChildBlocked ==
  \/ doubler \in Ended
  \/ doubler = "read" /\ pipe = <<>> /\ wr # {}

LEMMA ClosedStep == ClosedInv /\ [PipeNext]_pipeVars => ClosedInv'
<1> SUFFICES ASSUME ClosedInv, [PipeNext]_pipeVars PROVE ClosedInv'
  OBVIOUS
<1>1. CASE UNCHANGED pipeVars
  BY <1>1 DEF pipeVars, parentVars, childVars, ClosedInv
<1>2. CASE ReadLine \/ EndOfInput \/ ParentStep \/ KillReader
  <2>1. /\ doubler' = doubler
        /\ rd' = rd \/ rd' = rd \ {"reader"}
        /\ wr' = wr \/ wr' = wr \ {"reader"}
    BY <1>2 DEF ReadLine, EndOfInput, ParentStep, CloseRead, WriteLine, WriteBroken, CloseWrite,
       Waited, KillReader, childVars
  <2>2. reader' # "start" /\ (reader # "start" \/ rd' = rd \ {"reader"})
    BY <1>2 DEF ReadLine, EndOfInput, ParentStep, CloseRead, WriteLine, WriteBroken, CloseWrite,
       Waited, KillReader
  <2>3. reader' \in {"wait", "waitFailed"} \cup Ended => wr' = wr \ {"reader"}
    BY <1>2 DEF ReadLine, EndOfInput, ParentStep, CloseRead, WriteLine, WriteBroken, CloseWrite,
       Waited, KillReader, Ended
  <2> QED BY <2>1, <2>2, <2>3 DEF ClosedInv
<1>3. CASE ChildStep \/ KillDoubler
  <2>1. /\ reader' = reader
        /\ rd' = rd \/ rd' = rd \ {"doubler"}
        /\ wr' = wr \/ wr' = wr \ {"doubler"}
    BY <1>3 DEF ChildStep, CloseOther, ReadPipe, PipeEnds, WriteFirst, WriteSecond, DoublerExits,
       KillDoubler, parentVars
  <2>2. doubler' # "start" /\ (doubler # "start" \/ wr' = wr \ {"doubler"})
    BY <1>3 DEF ChildStep, CloseOther, ReadPipe, PipeEnds, WriteFirst, WriteSecond, DoublerExits,
       KillDoubler
  <2>3. doubler' \in Ended => rd' = rd \ {"doubler"}
    BY <1>3 DEF ChildStep, CloseOther, ReadPipe, PipeEnds, WriteFirst, WriteSecond, DoublerExits,
       KillDoubler, Ended
  <2> QED BY <2>1, <2>2, <2>3 DEF ClosedInv
<1> QED BY <1>1, <1>2, <1>3 DEF PipeNext

(* The two do not wait for each other: when neither can go on both have    *)
(* ended, or the reader waits for a line, and by then all that was typed   *)
(* before has come out twice, or there is no doubler any more.             *)
THEOREM PipeStandsStill ==
  PipeSpec => [](ParentBlocked /\ ChildBlocked =>
                   \/ reader \in Ended /\ doubler \in Ended
                   \/ reader = "read" /\ (doubler \in Ended \/ (once = twice /\ Clean(twice) = typed)))
<1> DEFINE Still == ParentBlocked /\ ChildBlocked =>
                      \/ reader \in Ended /\ doubler \in Ended
                      \/ reader = "read" /\ (doubler \in Ended \/ (once = twice /\ Clean(twice) = typed))
<1>1. PipeInv /\ ClosedInv => Still
  <2> SUFFICES ASSUME PipeInv, ClosedInv, ParentBlocked, ChildBlocked
               PROVE  \/ reader \in Ended /\ doubler \in Ended
                      \/ reader = "read" /\ (doubler \in Ended \/ (once = twice /\ Clean(twice) = typed))
    OBVIOUS
  <2>0. rd \subseteq {"reader", "doubler"} /\ wr \subseteq {"reader", "doubler"}
    BY DEF PipeInv, PipeTypeOK, Procs
  <2>1. CASE reader = "read" /\ doubler = "read" /\ pipe = <<>>
    <3>1. once = twice \o <<>> /\ typed \in Seq(Nat) /\ twice \in Seq(Nat)
      BY <2>1 DEF PipeInv, EndInv, PipeTypeOK, CommonTypeOK
    <3>2. once = twice
      BY <3>1, ConcatEmptySeq
    <3>3. PICK a \in 0 .. Len(typed), b \in 0 .. Len(typed), c \in 0 .. Len(typed),
               d \in 0 .. Len(typed) :
            /\ InOrder(twice, 0, a) /\ InOrder(<<>>, a, b) /\ InOrder(<<>>, b, c)
            /\ InOrder(<<>>, c, d) /\ d = Len(typed)
      BY <2>1 DEF PipeInv, Flow, DoublerLost, ReaderLost, Held, Coming
    <3>4. a \in Nat /\ b \in Nat /\ c \in Nat /\ d \in Nat
      OBVIOUS
    <3>5. a = Len(typed)
      BY <3>3, <3>4, InOrderNil
    <3>6. Clean(twice) = [i \in 1 .. a - 0 |-> 0 + i]
      <4>1. twice \in Seq(Int)
        BY <3>1, NatsAreInts
      <4> QED BY <3>3, <3>4, <4>1, InOrderClean
    <3>7. Clean(twice) = typed
      BY <3>4, <3>5, <3>6 DEF PipeInv, AllRead
    <3> QED BY <2>1, <3>2, <3>7
  <2>2. CASE reader = "read" /\ doubler \in Ended
    BY <2>2
  <2>3. CASE reader \in Ended \cup {"wait", "waitFailed"} /\ doubler = "read" /\ wr # {}
    BY <2>0, <2>3 DEF ClosedInv, Ended
  <2>4. CASE reader \in Ended /\ doubler \in Ended
    BY <2>4
  <2>5. CASE reader = "write" /\ rd # {} /\ Len(pipe) + Len(text) > Cap
    <3>1. doubler \notin Ended
      BY <2>0, <2>5 DEF ClosedInv, Ended
    <3>2. pipe = <<>>
      BY <3>1 DEF ChildBlocked
    <3>3. Len(pipe) = 0 /\ Len(text) \in 1 .. Max
      BY <2>5, <3>2 DEF PipeInv, PipeTypeOK
    <3>4. Max \in Nat /\ Cap \in Nat /\ Cap >= Max
      BY MaxAssumption, PipeCapAssumption
    <3> QED BY ONLY <2>5, <3>3, <3>4
  <2> QED BY <2>1, <2>2, <2>3, <2>4, <2>5 DEF ParentBlocked, ChildBlocked
<1>2. PipeInit => ClosedInv
  BY DEF PipeInit, ClosedInv, Ended
<1> QED BY <1>1, <1>2, ClosedStep, PipeInvariance, PTL DEF PipeSpec

-----------------------------------------------------------------------------
(* Week 3.                                                                 *)

Passing == IF reader = "write" THEN text ELSE <<>>
Converting == IF converter = "write" THEN line ELSE <<>>
Doubles == doubler \in {"write", "again"}
Doubling == IF Doubles THEN chunk ELSE <<>>

(* What was typed is twice written, held by the doubler, in the second     *)
(* FIFO, held by the converter, in the records of the first FIFO and held  *)
(* by the reader, in this order; of a program that has ended, what it held *)
(* and what was to pass through it is lost.                                *)
FlowAt(a, b, c, e, r) ==
  /\ InOrder(twice, 0, a)
  /\ doubler # "ended" => InOrder(Doubling, a, b) /\ InOrder(fifo2, b, c)
  /\ doubler # "ended" /\ converter # "ended" =>
       /\ InOrder(Converting, c, r[1])
       /\ \A i \in 1 .. Len(fifo1) : InOrder(fifo1[i], r[i], r[i + 1])
       /\ reader # "ended" => /\ InOrder(Passing, r[Len(fifo1) + 1], e)
                              /\ rmem # "full" => e = Len(typed)

FifosFlow ==
  \E a, b, c, e \in 0 .. Len(typed), r \in [1 .. Len(fifo1) + 1 -> 0 .. Len(typed)] :
    FlowAt(a, b, c, e, r)

(* What the reader has passed on and what it holds is all that was typed,  *)
(* until it is deaf; then the byte behind its buffer makes every text too  *)
(* long.                                                                   *)
AcceptInv ==
  /\ reader = "write" => Len(text) <= Max
  /\ rmem = "full" => rover = 1 /\ reader # "write"
  /\ reader # "ended" /\ rmem # "full" =>
       \E g \in 0 .. Len(typed) : InOrder(accepted, 0, g) /\ InOrder(Passing, g, Len(typed))

FifosInv == FifosTypeOK /\ AllRead /\ AcceptInv /\ FifosFlow

LEMMA FifosStarts == FifosInit => FifosInv
<1> SUFFICES ASSUME FifosInit PROVE FifosInv
  OBVIOUS
<1>1. /\ <<>> \in Seq(Nat) /\ <<>> \in Seq(Seq(Nat)) /\ Len(<<>>) = 0 /\ DOMAIN <<>> = {}
      /\ <<>> = [i \in 1 .. 0 |-> i]
  BY EmptySeq
<1>2. FifosTypeOK
  BY <1>1, InputsAssumption, FifosCapAssumption, MaxAssumption DEF FifosInit, NothingDone, FifosTypeOK,
     CommonTypeOK, Memory
<1>3. AllRead
  BY <1>1 DEF FifosInit, NothingDone, AllRead
<1>4. InOrder(<<>>, 0, 0) /\ 0 \in 0 .. Len(typed)
  BY <1>1, InOrderEmpty DEF FifosInit, NothingDone
<1>5. AcceptInv
  BY <1>1, <1>4 DEF FifosInit, NothingDone, AcceptInv, Passing
<1>6. FifosFlow
  <2> DEFINE r == [i \in 1 .. 1 |-> 0]
  <2>1. r \in [1 .. Len(fifo1) + 1 -> 0 .. Len(typed)] /\ r[1] = 0 /\ Len(fifo1) + 1 = 1
    BY <1>1 DEF FifosInit, NothingDone
  <2> HIDE DEF r
  <2>2. /\ InOrder(twice, 0, 0) /\ InOrder(Doubling, 0, 0) /\ InOrder(fifo2, 0, 0)
        /\ InOrder(Converting, 0, r[1])
        /\ \A i \in 1 .. Len(fifo1) : InOrder(fifo1[i], r[i], r[i + 1])
        /\ InOrder(Passing, r[Len(fifo1) + 1], 0) /\ 0 = Len(typed)
    BY <1>1, <1>4, <2>1 DEF FifosInit, NothingDone, Doubling, Doubles, Converting, Passing
  <2>3. FlowAt(0, 0, 0, 0, r)
    BY <1>4, <2>2 DEF FlowAt
  <2> QED BY <1>4, <2>1, <2>3 DEF FifosFlow
<1> QED BY <1>2, <1>3, <1>5, <1>6 DEF FifosInv

(* Steps that move nothing: of a program that ends, what it held is lost.  *)
LEMMA FifosQuiet ==
  ASSUME FifosInv, UNCHANGED dataVars,
         reader' \in {"none", "open", "read", "write", "ended"},
         converter' \in {"none", "open1", "open2", "read", "write", "ended"},
         doubler' \in {"none", "open", "read", "write", "again", "ended"},
         reader' = "ended" \/ (reader # "ended" /\ (reader' = "write" <=> reader = "write")),
         converter' = "ended" \/ (converter # "ended" /\ (converter' = "write" <=> converter = "write")),
         doubler' = "ended" \/ (doubler # "ended" /\ (Doubles' <=> Doubles))
  PROVE  FifosInv'
<1> USE DEF FifosInv
<1>1. UNCHANGED <<input, fifo1, fifo2, text, line, chunk, rmem, cmem, dmem, cover, dover, lines, rover,
                  typed, accepted, twice>>
  BY DEF dataVars, passedVars, readerVars, converterVars, doublerVars, coverVars, overVars
<1>2. FifosTypeOK'
  BY <1>1 DEF FifosTypeOK, CommonTypeOK
<1>3. AllRead'
  BY <1>1 DEF AllRead
<1>4. /\ reader' # "ended" => reader # "ended" /\ Passing' = Passing
      /\ converter' # "ended" => converter # "ended" /\ Converting' = Converting
      /\ doubler' # "ended" => doubler # "ended" /\ Doubling' = Doubling
      /\ reader' = "write" => reader = "write"
  BY <1>1 DEF Passing, Converting, Doubling, Doubles
<1>5. AcceptInv'
  BY <1>1, <1>4 DEF AcceptInv
<1>6. FifosFlow'
  <2>1. PICK a, b, c, e \in 0 .. Len(typed), r \in [1 .. Len(fifo1) + 1 -> 0 .. Len(typed)] :
          FlowAt(a, b, c, e, r)
    BY DEF FifosFlow
  <2>2. FlowAt(a, b, c, e, r)'
    BY <1>1, <1>4, <2>1 DEF FlowAt
  <2> QED BY <1>1, <2>2 DEF FifosFlow
<1> QED BY <1>2, <1>3, <1>5, <1>6

LEMMA FifosProcesses ==
  ASSUME FifosInv,
         Start \/ Open1 \/ Open2 \/ Kill \/ ReaderBroken \/ ConverterBroken \/ WriteOnce \/ UNCHANGED fifosVars
  PROVE  FifosInv'
<1>1. UNCHANGED dataVars
  BY DEF Start, Open1, Open2, Kill, ReaderBroken, ConverterBroken, WriteOnce, fifosVars, dataVars
<1>2. /\ reader \in {"none", "open", "read", "write", "ended"}
      /\ converter \in {"none", "open1", "open2", "read", "write", "ended"}
      /\ doubler \in {"none", "open", "read", "write", "again", "ended"}
  BY DEF FifosInv, FifosTypeOK, CommonTypeOK
<1>3. reader' = "ended" \/ reader' = reader \/ (reader' \in {"open", "read"} /\ reader \in {"none", "open"})
  BY DEF Start, Open1, Open2, Kill, ReaderBroken, ConverterBroken, WriteOnce, fifosVars
<1>4. \/ converter' = "ended" \/ converter' = converter
      \/ converter' \in {"open1", "open2", "read"} /\ converter \in {"none", "open1", "open2"}
  BY DEF Start, Open1, Open2, Kill, ReaderBroken, ConverterBroken, WriteOnce, fifosVars
<1>5. \/ doubler' = "ended" \/ doubler' = doubler \/ (doubler = "write" /\ doubler' = "again")
      \/ doubler' \in {"open", "read"} /\ doubler \in {"none", "open"}
  BY DEF Start, Open1, Open2, Kill, ReaderBroken, ConverterBroken, WriteOnce, fifosVars
<1>6. /\ reader' \in {"none", "open", "read", "write", "ended"}
      /\ reader' = "ended" \/ (reader # "ended" /\ (reader' = "write" <=> reader = "write"))
  BY <1>2, <1>3
<1>7. /\ converter' \in {"none", "open1", "open2", "read", "write", "ended"}
      /\ \/ converter' = "ended"
         \/ converter # "ended" /\ (converter' = "write" <=> converter = "write")
  BY <1>2, <1>4
<1>8. /\ doubler' \in {"none", "open", "read", "write", "again", "ended"}
      /\ doubler' = "ended" \/ (doubler # "ended" /\ (Doubles' <=> Doubles))
  BY <1>2, <1>5 DEF Doubles
<1> QED BY <1>1, <1>6, <1>7, <1>8, FifosQuiet

(* Where the bytes end that a program holds, more of them stand for more.  *)
LEMMA PlacesGrow ==
  ASSUME NEW n \in Nat, NEW m \in Nat, n <= m, NEW D
  PROVE  0 .. n \subseteq 0 .. m /\ [D -> 0 .. n] \subseteq [D -> 0 .. m]
<1>1. 0 .. n \subseteq 0 .. m
  OBVIOUS
<1> QED BY <1>1

LEMMA FifosReadStdin ==
  ASSUME FifosInv, ReadStdin
  PROVE  FifosInv'
<1> DEFINE n == Len(typed)
           k == IF input = <<>> THEN 0 ELSE LineCut(input, Max)
           data == [i \in 1 .. k |-> n + i]
<1> USE DEF FifosInv
<1>1. /\ input \in Seq(Nat \ {0}) /\ Max \in Nat \ {0} /\ n \in Nat /\ rover \in 0 .. 1
      /\ rmem \in {"any", "zero", "full"} /\ typed \in Seq(Nat) /\ Len(fifo1) \in Nat
  BY LenProperties, MaxAssumption DEF FifosTypeOK, CommonTypeOK, Memory
<1>2. /\ input' = (IF input = <<>> THEN input ELSE CutOff(input, k))
      /\ typed' = typed \o data /\ text' \in Texts(data, Max, rmem, rover)
      /\ reader' = (IF Len(text') <= Max THEN "write" ELSE "read")
      /\ rmem' = (IF Len(text') <= Max THEN rmem ELSE "full")
      /\ reader = "read"
      /\ UNCHANGED <<accepted, fifo1, fifo2, converter, doubler, line, cmem, chunk, dmem, twice,
                     rover, cover, dover, lines>>
  BY DEF ReadStdin, ReadTyped, converterVars, doublerVars, coverVars, overVars
<1>3. k \in 0 .. Max /\ input' \in Seq(Nat \ {0})
  BY <1>1, <1>2, LineFacts
<1> HIDE DEF k
<1>4. data \in Seq(Nat) /\ Len(data) = k /\ InOrder(data, n, n + k)
  <2>1. n \in Nat /\ k \in Nat
    BY <1>1, <1>3
  <2> HIDE DEF n
  <2> QED BY <2>1, InOrderNext
<1>5. /\ text' \in Seq(Nat) /\ InOrder(text', n, n + k) /\ Len(text') \in k .. Max + rover
      /\ rmem = "full" => Len(text') = Max + rover
  <2>1. n \in Nat /\ n + k \in Nat /\ Max \in Nat /\ Len(data) <= Max
    BY <1>1, <1>3, <1>4
  <2>2. /\ data \in Seq(Nat) /\ text' \in Texts(data, Max, rmem, rover)
        /\ rmem \in {"any", "zero", "full"} /\ rover \in 0 .. 1
    BY <1>1, <1>2, <1>4 DEF FifosTypeOK, CommonTypeOK
  <2> HIDE DEF data, n
  <2>3. /\ text' \in Seq(Nat) /\ Len(text') \in Len(data) .. Max + rover
        /\ \A x, y \in Nat : InOrder(data, x, y) => InOrder(text', x, y)
        /\ rmem = "full" => Len(text') = Max + rover
    BY ONLY <2>1, <2>2, TextOfBuffer
  <2> QED BY <1>4, <2>1, <2>3
<1>6. typed' \in Seq(Nat) /\ Len(typed') = n + k /\ typed' = [i \in 1 .. n + k |-> i]
  <2>1. typed' \in Seq(Nat) /\ Len(typed') = n + k
    BY <1>1, <1>2, <1>4, ConcatProperties
  <2>2. n <= n + k /\ (n + k) - n = k /\ n + k \in Nat
    BY <1>1, <1>3
  <2>3. [i \in 1 .. n |-> i] \o data = [i \in 1 .. n + k |-> i]
    BY <1>1, <2>2, AllTyped
  <2> QED BY <1>2, <2>1, <2>3 DEF AllRead
<1> HIDE DEF data, n
<1>7. /\ Len(text') <= Max => /\ rmem # "full" /\ rmem' = rmem /\ reader' = "write"
                              /\ Passing' = text'
      /\ ~(Len(text') <= Max) => /\ rover = 1 /\ rmem' = "full" /\ reader' = "read"
                                 /\ Passing' = <<>>
  <2>1. Len(text') <= Max => rmem # "full"
    BY <1>1, <1>5 DEF AcceptInv
  <2>2. ~(Len(text') <= Max) => rover = 1
    BY <1>1, <1>3, <1>5
  <2> QED BY <1>2, <2>1, <2>2 DEF Passing
<1>8. FifosTypeOK'
  BY <1>2, <1>3, <1>5, <1>6 DEF FifosTypeOK, CommonTypeOK, Memory
<1>9. AllRead'
  BY <1>6 DEF AllRead
<1>10. AcceptInv'
  <2>1. CASE Len(text') <= Max
    <3>1. PICK g \in 0 .. n : InOrder(accepted, 0, g) /\ InOrder(<<>>, g, n)
      BY <1>2, <1>7, <2>1 DEF AcceptInv, Passing, n
    <3>2. g = n
      BY <1>1, <3>1, InOrderNil
    <3>3. n \in 0 .. Len(typed')
      BY <1>1, <1>3, <1>6
    <3>4. InOrder(accepted', 0, n) /\ InOrder(Passing', n, Len(typed'))
      BY <1>2, <1>5, <1>6, <1>7, <2>1, <3>1, <3>2
    <3> QED BY <1>2, <1>7, <2>1, <3>3, <3>4 DEF AcceptInv
  <2>2. CASE ~(Len(text') <= Max)
    BY <1>2, <1>7, <2>2 DEF AcceptInv
  <2> QED BY <2>1, <2>2
<1>11. FifosFlow'
  <2>1. PICK a, b, c, e \in 0 .. n, r \in [1 .. Len(fifo1) + 1 -> 0 .. n] : FlowAt(a, b, c, e, r)
    BY DEF FifosFlow, n
  <2>2. Doubling' = Doubling /\ Converting' = Converting /\ Passing = <<>>
    BY <1>2 DEF Doubling, Doubles, Converting, Passing
  <2>0. PICK z \in Nat : z = n + k
    BY <1>1, <1>3
  <2>3. /\ {a, b, c, e, z} \subseteq 0 .. Len(typed')
        /\ r \in [1 .. Len(fifo1') + 1 -> 0 .. Len(typed')]
    <3>1. n <= z /\ z \in Nat /\ Len(typed') = z
      BY <1>1, <1>3, <1>6, <2>0
    <3>2. 0 .. n \subseteq 0 .. z /\ z \in 0 .. z
      BY <1>1, <3>1
    <3>3. [1 .. Len(fifo1) + 1 -> 0 .. n] \subseteq [1 .. Len(fifo1) + 1 -> 0 .. z]
      BY <1>1, <3>1, PlacesGrow
    <3> QED BY <1>2, <3>1, <3>2, <3>3
  <2>4. CASE Len(text') <= Max
    <3>1. doubler # "ended" /\ converter # "ended" => r[Len(fifo1) + 1] = n
      <4>1. r[Len(fifo1) + 1] \in Nat /\ e \in Nat
        BY <1>1
      <4>2. doubler # "ended" /\ converter # "ended" => InOrder(<<>>, r[Len(fifo1) + 1], e) /\ e = n
        BY <1>2, <1>7, <2>1, <2>2, <2>4 DEF FlowAt, n
      <4> QED BY <4>1, <4>2, InOrderNil
    <3>2. doubler # "ended" /\ converter # "ended" => InOrder(text', r[Len(fifo1) + 1], z)
      BY <1>5, <2>0, <3>1
    <3>3. z = Len(typed')
      BY <1>6, <2>0
    <3>4. FlowAt(a, b, c, z, r)'
      BY <1>2, <1>7, <2>1, <2>2, <2>4, <3>2, <3>3 DEF FlowAt
    <3> QED BY <2>3, <3>4 DEF FifosFlow
  <2>5. CASE ~(Len(text') <= Max)
    <3>1. FlowAt(a, b, c, e, r)'
      BY <1>2, <1>7, <2>1, <2>2, <2>5 DEF FlowAt
    <3> QED BY <2>3, <3>1 DEF FifosFlow
  <2> QED BY <2>4, <2>5
<1> QED BY <1>8, <1>9, <1>10, <1>11

LEMMA FifosWriteRecord ==
  ASSUME FifosInv, WriteRecord
  PROVE  FifosInv'
<1> DEFINE m == Len(fifo1)
<1> USE DEF FifosInv
<1>1. /\ fifo1' = Append(fifo1, text) /\ accepted' = accepted \o text /\ rmem' = "zero"
      /\ reader = "write" /\ reader' = "read" /\ m < Cap1
      /\ UNCHANGED <<input, text, typed, fifo2, converter, doubler, line, cmem, chunk, dmem, twice,
                     rover, cover, dover, lines>>
  BY DEF WriteRecord, converterVars, doublerVars, coverVars, overVars
<1>2. /\ fifo1 \in Seq(Seq(Nat)) /\ text \in Seq(Nat) /\ accepted \in Seq(Nat) /\ m \in Nat
      /\ Len(typed) \in Nat /\ Cap1 \in Nat /\ Len(text) <= Max /\ rmem # "full"
  BY <1>1, LenProperties, FifosCapAssumption DEF FifosTypeOK, CommonTypeOK, AcceptInv
<1>3. /\ fifo1' \in Seq(Seq(Nat)) /\ Len(fifo1') = m + 1 /\ fifo1'[m + 1] = text
      /\ \A i \in 1 .. m : fifo1'[i] = fifo1[i]
      /\ DOMAIN fifo1' = 1 .. m + 1 /\ DOMAIN fifo1 = 1 .. m
  <2>1. /\ Append(fifo1, text) \in Seq(Seq(Nat)) /\ Len(Append(fifo1, text)) = m + 1
        /\ Append(fifo1, text)[m + 1] = text
        /\ \A i \in 1 .. m : Append(fifo1, text)[i] = fifo1[i]
    BY <1>2, AppendProperties
  <2> QED BY <1>1, <1>2, <2>1, LenProperties
<1> HIDE DEF m
<1>4. accepted' \in Seq(Nat)
  BY <1>1, <1>2, ConcatProperties
<1>5. FifosTypeOK'
  <2>1. \A i \in DOMAIN fifo1' : Len(fifo1'[i]) <= Max
    <3> SUFFICES ASSUME NEW i \in 1 .. m + 1 PROVE Len(fifo1'[i]) <= Max
      BY <1>3
    <3>1. CASE i \in 1 .. m
      BY <1>3, <3>1 DEF FifosTypeOK, CommonTypeOK
    <3>2. CASE i = m + 1
      BY <1>2, <1>3, <3>2
    <3> QED BY <1>2, <3>1, <3>2
  <2>2. Len(fifo1') <= Cap1
    BY <1>1, <1>2, <1>3
  <2> QED BY <1>1, <1>3, <1>4, <2>1, <2>2 DEF FifosTypeOK, CommonTypeOK, Memory
<1>6. AllRead'
  BY <1>1 DEF AllRead
<1>7. AcceptInv'
  <2>1. PICK g \in 0 .. Len(typed) : InOrder(accepted, 0, g) /\ InOrder(text, g, Len(typed))
    BY <1>1, <1>2 DEF AcceptInv, Passing
  <2>2. InOrder(accepted \o text, 0, Len(typed))
    <3>1. accepted \in Seq(Int) /\ text \in Seq(Int) /\ g \in Nat
      BY <1>2, NatsAreInts
    <3> QED BY <1>2, <2>1, <3>1, InOrderJoin
  <2>3. Passing' = <<>> /\ InOrder(<<>>, Len(typed), Len(typed)) /\ Len(typed) \in 0 .. Len(typed)
    BY <1>1, <1>2, InOrderEmpty DEF Passing
  <2> QED BY <1>1, <2>2, <2>3 DEF AcceptInv
<1>8. FifosFlow'
  <2>1. PICK a, b, c, e \in 0 .. Len(typed), r \in [1 .. m + 1 -> 0 .. Len(typed)] :
          FlowAt(a, b, c, e, r)
    BY DEF FifosFlow, m
  <2>2. PICK q \in [1 .. m + 2 -> 0 .. Len(typed)] : q[m + 2] = e /\ \A i \in 1 .. m + 1 : q[i] = r[i]
    <3> DEFINE new == [i \in 1 .. m + 2 |-> IF i <= m + 1 THEN r[i] ELSE e]
    <3>1. /\ new \in [1 .. m + 2 -> 0 .. Len(typed)]
          /\ new[m + 2] = e /\ \A i \in 1 .. m + 1 : new[i] = r[i]
      BY <1>2
    <3> QED BY <3>1
  <2>3. q \in [1 .. Len(fifo1') + 1 -> 0 .. Len(typed')] /\ q[1] = r[1] /\ Len(fifo1') + 1 = m + 2
    BY <1>1, <1>2, <1>3, <2>2
  <2>4. /\ Doubling' = Doubling /\ Converting' = Converting /\ Passing = text /\ Passing' = <<>>
        /\ InOrder(<<>>, e, e)
    BY <1>1, InOrderEmpty DEF Doubling, Doubles, Converting, Passing
  <2>5. doubler # "ended" /\ converter # "ended" /\ reader # "ended" =>
          \A i \in 1 .. Len(fifo1') : InOrder(fifo1'[i], q[i], q[i + 1])
    <3> SUFFICES ASSUME doubler # "ended", converter # "ended", reader # "ended",
                        NEW i \in 1 .. Len(fifo1')
                 PROVE  InOrder(fifo1'[i], q[i], q[i + 1])
      OBVIOUS
    <3>1. /\ \A j \in 1 .. m : InOrder(fifo1[j], r[j], r[j + 1])
          /\ InOrder(text, r[m + 1], e)
      BY <2>1, <2>4 DEF FlowAt, m
    <3>2. CASE i \in 1 .. m
      <4>1. i \in 1 .. m + 1 /\ i + 1 \in 1 .. m + 1
        BY <1>2, <3>2
      <4>2. q[i] = r[i] /\ q[i + 1] = r[i + 1] /\ fifo1'[i] = fifo1[i]
        BY <1>3, <2>2, <3>2, <4>1
      <4> QED BY <3>1, <3>2, <4>2
    <3>3. CASE i = m + 1
      <4>1. q[i] = r[m + 1] /\ q[i + 1] = e /\ fifo1'[i] = text
        <5>1. m + 1 \in 1 .. m + 1 /\ (m + 1) + 1 = m + 2
          BY <1>2
        <5> QED BY <1>3, <2>2, <3>3, <5>1
      <4> QED BY <3>1, <4>1
    <3> QED BY <1>2, <1>3, <3>2, <3>3
  <2>6. doubler # "ended" /\ converter # "ended" /\ reader # "ended" => e = Len(typed)
    BY <1>2, <2>1 DEF FlowAt
  <2>7. FlowAt(a, b, c, e, q)'
    <3>1. InOrder(twice, 0, a)
      BY <2>1 DEF FlowAt
    <3>2. doubler # "ended" => InOrder(Doubling, a, b) /\ InOrder(fifo2, b, c)
      BY <2>1 DEF FlowAt
    <3>3. doubler # "ended" /\ converter # "ended" => InOrder(Converting, c, q[1])
      BY <2>1, <2>3 DEF FlowAt
    <3>4. q[Len(fifo1') + 1] = e
      BY <2>2, <2>3
    <3> QED BY <1>1, <2>4, <2>5, <2>6, <3>1, <3>2, <3>3, <3>4 DEF FlowAt
  <2> QED BY <1>1, <2>3, <2>7 DEF FifosFlow
<1> QED BY <1>5, <1>6, <1>7, <1>8

(* A record is the text it holds, or it fills the converter's buffer.      *)
LEMMA FifosReadRecord ==
  ASSUME FifosInv, ReadRecord
  PROVE  FifosInv'
<1> DEFINE m == Len(fifo1)
<1> USE DEF FifosInv
<1>1. /\ converter = "read" /\ converter' = "write"
      /\ UNCHANGED <<cmem, fifo2, reader, doubler, input, text, rmem, typed, accepted, chunk, dmem,
                     twice, rover, cover, dover, lines>>
  BY DEF ReadRecord, passedVars, readerVars, doublerVars, coverVars, overVars
<1>2. /\ fifo1 \in Seq(Seq(Nat)) /\ m \in Nat /\ DOMAIN fifo1 = 1 .. m /\ Max \in Nat
      /\ cmem \in {"any", "zero", "full"} /\ cover \in 0 .. 1 /\ Len(typed) \in Nat
      /\ \A i \in 1 .. m : fifo1[i] \in Seq(Nat) /\ Len(fifo1[i]) <= Max
  BY MaxAssumption, LenProperties, ElementOfSeq DEF FifosTypeOK, CommonTypeOK, Memory
<1>3. PICK a, b, c, e \in 0 .. Len(typed), r \in [1 .. m + 1 -> 0 .. Len(typed)] :
        FlowAt(a, b, c, e, r)
  BY DEF FifosFlow
<1>4. doubler # "ended" => c = r[1]
  <2>1. doubler # "ended" => InOrder(<<>>, c, r[1])
    BY <1>1, <1>3 DEF FlowAt, Converting
  <2>2. c \in Nat /\ r[1] \in Nat
    <3>1. 1 \in 1 .. m + 1
      BY <1>2
    <3> QED BY <1>2, <3>1
  <2> QED BY <2>1, <2>2, InOrderNil
<1>5. /\ Doubling' = Doubling /\ Passing' = Passing /\ Converting' = line'
  BY <1>1 DEF Doubling, Doubles, Passing, Converting
<1>6. AllRead' /\ AcceptInv'
  BY <1>1, <1>5 DEF AllRead, AcceptInv
<1>7. CASE /\ fifo1 # <<>> /\ fifo1' = Tail(fifo1)
           /\ line' \in IF Len(Head(fifo1)) < Max THEN {Head(fifo1)}
                        ELSE Texts(Head(fifo1), Max, cmem, cover)
  <2>1. /\ m \in Nat \ {0} /\ Head(fifo1) = fifo1[1] /\ fifo1' \in Seq(Seq(Nat))
        /\ Len(fifo1') = m - 1 /\ DOMAIN fifo1' = 1 .. m - 1
        /\ \A i \in 1 .. m - 1 : fifo1'[i] = fifo1[i + 1]
    <3>1. m # 0
      BY <1>2, <1>7, EmptySeq
    <3>2. /\ Tail(fifo1) \in Seq(Seq(Nat)) /\ Len(Tail(fifo1)) = m - 1
          /\ \A i \in 1 .. m - 1 : Tail(fifo1)[i] = fifo1[i + 1]
      BY <1>2, <1>7, HeadTailProperties
    <3>3. Head(fifo1) = fifo1[1]
      BY <1>2, <1>7
    <3>4. DOMAIN Tail(fifo1) = 1 .. m - 1
      BY <3>2, LenProperties
    <3> QED BY <1>2, <1>7, <3>1, <3>2, <3>3, <3>4
  <2> HIDE DEF m
  <2>2. /\ line' \in Seq(Nat)
        /\ \A x, y \in Nat : InOrder(fifo1[1], x, y) => InOrder(line', x, y)
    <3>1. fifo1[1] \in Seq(Nat) /\ Len(fifo1[1]) <= Max
      BY <1>2, <2>1
    <3>2. CASE line' = fifo1[1]
      BY <3>1, <3>2
    <3>3. CASE line' \in Texts(fifo1[1], Max, cmem, cover)
      BY <1>2, <3>1, <3>3, TextOfBuffer
    <3> QED BY <1>7, <2>1, <3>2, <3>3
  <2>3. FifosTypeOK'
    <3>1. Len(fifo1') <= Cap1
      <4>1. Cap1 \in Nat /\ m <= Cap1
        BY FifosCapAssumption DEF FifosTypeOK, CommonTypeOK, m
      <4> QED BY <2>1, <4>1
    <3>2. \A i \in DOMAIN fifo1' : Len(fifo1'[i]) <= Max
      <4> SUFFICES ASSUME NEW i \in 1 .. m - 1 PROVE Len(fifo1'[i]) <= Max
        BY <2>1
      <4>1. i + 1 \in 1 .. m
        BY <2>1
      <4> QED BY <1>2, <2>1, <4>1
    <3> QED BY <1>1, <2>1, <2>2, <3>1, <3>2 DEF FifosTypeOK, CommonTypeOK
  <2>4. PICK q \in [1 .. m -> 0 .. Len(typed)] : \A i \in 1 .. m : q[i] = r[i + 1]
    <3> DEFINE new == [i \in 1 .. m |-> r[i + 1]]
    <3>1. \A i \in 1 .. m : i + 1 \in 1 .. m + 1
      BY <2>1
    <3>2. new \in [1 .. m -> 0 .. Len(typed)] /\ \A i \in 1 .. m : new[i] = r[i + 1]
      BY <3>1
    <3> QED BY <3>2
  <2>5. /\ q[1] = r[2] /\ q[m] = r[m + 1] /\ Len(fifo1') + 1 = m
        /\ r[1] \in Nat /\ r[2] \in Nat /\ 1 \in 1 .. m
    <3>1. 1 \in 1 .. m /\ m \in 1 .. m /\ 1 \in 1 .. m + 1 /\ 2 \in 1 .. m + 1 /\ 1 + 1 = 2
      BY <2>1
    <3>2. r[1] \in Nat /\ r[2] \in Nat
      BY <1>2, <3>1
    <3>3. q[1] = r[2] /\ q[m] = r[m + 1]
      BY <2>4, <3>1
    <3> QED BY <2>1, <3>1, <3>2, <3>3
  <2>6. FlowAt(a, b, c, e, q)'
    <3>1. InOrder(twice, 0, a) /\ (doubler # "ended" => InOrder(Doubling, a, b) /\ InOrder(fifo2, b, c))
      BY <1>3 DEF FlowAt
    <3>2. doubler # "ended" =>
            /\ \A i \in 1 .. m : InOrder(fifo1[i], r[i], r[i + 1])
            /\ reader # "ended" => /\ InOrder(Passing, r[m + 1], e)
                                   /\ rmem # "full" => e = Len(typed)
      BY <1>1, <1>3 DEF FlowAt, m
    <3>3. doubler # "ended" => InOrder(line', c, q[1])
      <4>1. doubler # "ended" => InOrder(fifo1[1], r[1], r[2])
        BY <2>5, <3>2
      <4> QED BY <1>4, <2>2, <2>5, <4>1
    <3>4. doubler # "ended" => \A i \in 1 .. Len(fifo1') : InOrder(fifo1'[i], q[i], q[i + 1])
      <4> SUFFICES ASSUME doubler # "ended", NEW i \in 1 .. m - 1
                   PROVE  InOrder(fifo1'[i], q[i], q[i + 1])
        BY <2>1
      <4>1. i \in 1 .. m /\ i + 1 \in 1 .. m
        BY <2>1
      <4>2. /\ fifo1'[i] = fifo1[i + 1] /\ q[i] = r[i + 1] /\ q[i + 1] = r[(i + 1) + 1]
        BY <2>1, <2>4, <4>1
      <4> QED BY <3>2, <4>1, <4>2
    <3> QED BY <1>1, <1>5, <2>5, <3>1, <3>2, <3>3, <3>4 DEF FlowAt
  <2>7. FifosFlow'
    <3>1. q \in [1 .. Len(fifo1') + 1 -> 0 .. Len(typed')]
      BY <1>1, <2>5
    <3> QED BY <1>1, <2>6, <3>1 DEF FifosFlow
  <2> QED BY <1>6, <2>3, <2>7
<1>8. CASE fifo1 = <<>> /\ fifo1' = fifo1 /\ line' \in Texts(<<>>, Max, cmem, cover)
  <2>1. <<>> \in Seq(Nat) /\ Len(<<>>) <= Max
    BY <1>2, EmptySeq
  <2>2. /\ line' \in Seq(Nat)
        /\ \A x, y \in Nat : InOrder(<<>>, x, y) => InOrder(line', x, y)
    BY <1>2, <1>8, <2>1, TextOfBuffer
  <2>3. FifosTypeOK'
    BY <1>1, <1>8, <2>2 DEF FifosTypeOK, CommonTypeOK
  <2>4. InOrder(line', c, c)
    BY <1>2, <2>2, InOrderEmpty
  <2>5. FlowAt(a, b, c, e, r)'
    BY <1>1, <1>3, <1>4, <1>5, <1>8, <2>4 DEF FlowAt
  <2> QED BY <1>1, <1>6, <1>8, <2>3, <2>5 DEF FifosFlow
<1> QED BY <1>7, <1>8 DEF ReadRecord

LEMMA FifosWriteLine ==
  ASSUME FifosInv, WriteText
  PROVE  FifosInv'
<1> USE DEF FifosInv
<1>1. /\ converter = "write" /\ converter' = "read" /\ cmem' = "zero" /\ fifo2' = fifo2 \o line
      /\ line = <<>> \/ (doubler # "ended" /\ Len(fifo2) + Len(line) <= Cap2)
      /\ UNCHANGED <<line, fifo1, reader, doubler, input, text, rmem, typed, accepted, chunk, dmem,
                     twice, rover, cover, dover, lines>>
  BY DEF WriteText, passedVars, readerVars, doublerVars, coverVars, overVars
<1>2. /\ fifo2 \in Seq(Nat) /\ line \in Seq(Nat) /\ Len(typed) \in Nat
      /\ fifo2 \o line \in Seq(Nat) /\ Len(fifo2 \o line) = Len(fifo2) + Len(line)
      /\ fifo2 \o <<>> = fifo2
  BY ConcatProperties, ConcatEmptySeq, LenProperties DEF FifosTypeOK, CommonTypeOK
<1>3. FifosTypeOK'
  <2>1. Len(fifo2') <= Cap2
    BY <1>1, <1>2 DEF FifosTypeOK, CommonTypeOK
  <2> QED BY <1>1, <1>2, <2>1 DEF FifosTypeOK, CommonTypeOK, Memory
<1>4. Doubling' = Doubling /\ Passing' = Passing /\ Converting = line /\ Converting' = <<>>
  BY <1>1 DEF Doubling, Doubles, Passing, Converting
<1>5. AllRead' /\ AcceptInv'
  BY <1>1, <1>4 DEF AllRead, AcceptInv
<1>6. PICK a, b, c, e \in 0 .. Len(typed), r \in [1 .. Len(fifo1) + 1 -> 0 .. Len(typed)] :
        FlowAt(a, b, c, e, r)
  BY DEF FifosFlow
<1>7. PICK d \in 0 .. Len(typed) : d = r[1]
  <2>1. 1 \in 1 .. Len(fifo1) + 1
    BY LenProperties DEF FifosTypeOK, CommonTypeOK
  <2> QED BY <1>6, <2>1
<1>8. doubler # "ended" => InOrder(fifo2', b, d)
  <2>1. fifo2 \in Seq(Int) /\ line \in Seq(Int) /\ b \in Nat /\ c \in Nat /\ d \in Nat
    BY <1>2, NatsAreInts
  <2>2. doubler # "ended" => InOrder(fifo2, b, c) /\ InOrder(line, c, d)
    BY <1>1, <1>4, <1>6, <1>7 DEF FlowAt
  <2> QED BY <1>1, <2>1, <2>2, InOrderJoin
<1>9. FlowAt(a, b, d, e, r)'
  <2>1. InOrder(<<>>, d, d)
    BY <1>2, InOrderEmpty
  <2> QED BY <1>1, <1>4, <1>6, <1>7, <1>8, <2>1 DEF FlowAt
<1>10. FifosFlow'
  BY <1>1, <1>9 DEF FifosFlow
<1> QED BY <1>3, <1>5, <1>10

LEMMA FifosReadText ==
  ASSUME FifosInv, ReadText
  PROVE  FifosInv'
<1> DEFINE k == Portion(fifo2)
           data == First(fifo2, k)
<1> USE DEF FifosInv
<1>1. /\ doubler = "read" /\ doubler' = "write"
      /\ chunk' \in Texts(data, Max, dmem, dover) /\ fifo2' = From(fifo2, k + 1)
      /\ UNCHANGED <<dmem, twice, fifo1, reader, converter, input, text, rmem, typed, accepted,
                     line, cmem, rover, cover, dover, lines>>
  BY DEF ReadText, ReadPortion, passedVars, readerVars, converterVars, coverVars, overVars
<1>2. /\ fifo2 \in Seq(Nat) /\ Len(fifo2) \in Nat /\ Max \in Nat \ {0} /\ Len(typed) \in Nat
      /\ dmem \in {"any", "zero", "full"} /\ dover \in 0 .. 1 /\ Cap2 \in Nat
      /\ Len(fifo2) <= Cap2
  BY MaxAssumption, FifosCapAssumption, LenProperties DEF FifosTypeOK, CommonTypeOK, Memory
<1>3. k \in 0 .. Max /\ k \in 0 .. Len(fifo2)
  BY <1>2 DEF Portion
<1> HIDE DEF k
<1>4. /\ data \in Seq(Nat) /\ Len(data) = k
      /\ fifo2' \in Seq(Nat) /\ Len(fifo2') = Len(fifo2) - k
      /\ data \o fifo2' = fifo2
  BY <1>1, <1>2, <1>3, CutFacts
<1> HIDE DEF data
<1>5. chunk' \in Seq(Nat) /\ \A x, y \in Nat : InOrder(data, x, y) => InOrder(chunk', x, y)
  <2>1. Len(data) <= Max /\ Max \in Nat
    BY <1>2, <1>3, <1>4
  <2> QED BY <1>1, <1>2, <1>4, <2>1, TextOfBuffer
<1>6. FifosTypeOK'
  <2>1. Len(fifo2') <= Cap2
    BY <1>2, <1>3, <1>4
  <2> QED BY <1>1, <1>4, <1>5, <2>1 DEF FifosTypeOK, CommonTypeOK
<1>7. Converting' = Converting /\ Passing' = Passing /\ Doubling = <<>> /\ Doubling' = chunk'
  BY <1>1 DEF Doubling, Doubles, Passing, Converting
<1>8. AllRead' /\ AcceptInv'
  BY <1>1, <1>7 DEF AllRead, AcceptInv
<1>9. PICK a, b, c, e \in 0 .. Len(typed), r \in [1 .. Len(fifo1) + 1 -> 0 .. Len(typed)] :
        FlowAt(a, b, c, e, r)
  BY DEF FifosFlow
<1>10. InOrder(twice, 0, a) /\ InOrder(fifo2, a, c) /\ a \in Nat /\ c \in Nat
  <2>1. InOrder(twice, 0, a) /\ InOrder(<<>>, a, b) /\ InOrder(fifo2, b, c)
    BY <1>1, <1>7, <1>9 DEF FlowAt
  <2>2. a \in Nat /\ b \in Nat /\ c \in Nat
    BY <1>2
  <2> QED BY <2>1, <2>2, InOrderNil
<1>11. PICK d \in Nat : InOrder(data, a, d) /\ InOrder(fifo2', d, c)
  <2>1. data \in Seq(Int) /\ fifo2' \in Seq(Int)
    BY <1>4, NatsAreInts
  <2> QED BY <1>4, <1>10, <2>1, InOrderCut
<1>12. d \in 0 .. Len(typed) /\ InOrder(chunk', a, d)
  <2>1. d <= c
    BY <1>11 DEF InOrder
  <2> QED BY <1>2, <1>5, <1>10, <1>11, <2>1
<1>13. FlowAt(a, d, c, e, r)'
  BY <1>1, <1>7, <1>9, <1>10, <1>11, <1>12 DEF FlowAt
<1>14. FifosFlow'
  BY <1>1, <1>12, <1>13 DEF FifosFlow
<1> QED BY <1>6, <1>8, <1>14

(* The second of the two write()s.                                         *)
LEMMA FifosWriteAgain ==
  ASSUME FifosInv, WriteAgain
  PROVE  /\ FifosInv'
         /\ \E a, b \in 0 .. Len(typed) : /\ a <= b /\ typed' = typed
                                         /\ InOrder(twice, 0, a) /\ InOrder(twice', 0, b)
<1> USE DEF FifosInv
<1>1. /\ doubler = "again" /\ doubler' = "read" /\ twice' = twice \o chunk /\ dmem' = "zero"
      /\ UNCHANGED <<chunk, fifo1, fifo2, reader, converter, input, text, rmem, typed, accepted,
                     line, cmem, rover, cover, dover, lines>>
  BY DEF WriteAgain, passedVars, readerVars, converterVars, coverVars, overVars
<1>2. twice \in Seq(Nat) /\ chunk \in Seq(Nat) /\ twice' \in Seq(Nat) /\ Len(typed) \in Nat
  BY <1>1, ConcatProperties, LenProperties DEF FifosTypeOK, CommonTypeOK
<1>3. FifosTypeOK'
  BY <1>1, <1>2 DEF FifosTypeOK, CommonTypeOK, Memory
<1>4. Converting' = Converting /\ Passing' = Passing /\ Doubling = chunk /\ Doubling' = <<>>
  BY <1>1 DEF Doubling, Doubles, Passing, Converting
<1>5. AllRead' /\ AcceptInv'
  BY <1>1, <1>4 DEF AllRead, AcceptInv
<1>6. PICK a, b, c, e \in 0 .. Len(typed), r \in [1 .. Len(fifo1) + 1 -> 0 .. Len(typed)] :
        FlowAt(a, b, c, e, r)
  BY DEF FifosFlow
<1>7. /\ InOrder(twice, 0, a) /\ InOrder(chunk, a, b) /\ InOrder(fifo2, b, c)
  BY <1>1, <1>4, <1>6 DEF FlowAt
<1>8. InOrder(twice', 0, b) /\ a <= b
  <2>1. twice \in Seq(Int) /\ chunk \in Seq(Int) /\ a \in Nat /\ b \in Nat
    BY <1>2, NatsAreInts
  <2>2. a <= b
    BY <1>7 DEF InOrder
  <2> QED BY <1>1, <1>7, <2>1, <2>2, InOrderJoin
<1>9. FlowAt(b, b, c, e, r)'
  <2>1. InOrder(<<>>, b, b)
    BY <1>2, InOrderEmpty
  <2> QED BY <1>1, <1>4, <1>6, <1>7, <1>8, <2>1 DEF FlowAt
<1>10. FifosFlow'
  BY <1>1, <1>9 DEF FifosFlow
<1> QED BY <1>1, <1>3, <1>5, <1>7, <1>8, <1>10

LEMMA FifosStep ==
  ASSUME FifosInv, [FifosNext]_fifosVars
  PROVE  FifosInv'
BY FifosProcesses, FifosReadStdin, FifosWriteRecord, FifosReadRecord, FifosWriteLine,
   FifosReadText, FifosWriteAgain DEF FifosNext, ReaderStep, ConverterStep, DoublerStep

(* What the properties of Fifos rest on.                                   *)
LEMMA FifosInvariance == FifosSpec => []FifosInv
<1>1. FifosInv /\ [FifosNext]_fifosVars => FifosInv'
  BY FifosStep
<1> QED BY FifosStarts, <1>1, PTL DEF FifosSpec

(* FIFOs and buffers hold no more than they can.                           *)
THEOREM FifosTypeCorrect == FifosSpec => []FifosTypeOK
BY FifosInvariance, PTL DEF FifosInv

(* What was read is passed on or in the hands of the reader.               *)
LEMMA FifosAllPassed ==
  ASSUME FifosInv, reader # "ended", rmem # "full"
  PROVE  typed = Clean(accepted) \o Clean(InHand)
<1>1. PICK g \in 0 .. Len(typed) :
        InOrder(accepted, 0, g) /\ InOrder(Passing, g, Len(typed))
  BY DEF FifosInv, AcceptInv
<1>2. /\ accepted \in Seq(Int) /\ Passing \in Seq(Int) /\ Len(typed) \in Nat
      /\ g \in Nat /\ g <= Len(typed)
  <2>1. accepted \in Seq(Nat) /\ Passing \in Seq(Nat) /\ Len(typed) \in Nat
    BY EmptySeq, LenProperties DEF FifosInv, FifosTypeOK, CommonTypeOK, Passing
  <2> QED BY <2>1, NatsAreInts
<1>3. Clean(accepted) = [i \in 1 .. g - 0 |-> 0 + i]
  BY <1>1, <1>2, InOrderClean
<1>4. Clean(Passing) = [i \in 1 .. Len(typed) - g |-> g + i]
  BY <1>1, <1>2, InOrderClean
<1>5. Clean(accepted) = [i \in 1 .. g |-> i]
  BY <1>2, <1>3
<1>6. [i \in 1 .. g |-> i] \o [i \in 1 .. Len(typed) - g |-> g + i] = [i \in 1 .. Len(typed) |-> i]
  BY <1>2, AllTyped
<1>7. Passing = InHand
  BY DEF Passing, InHand
<1> QED BY <1>4, <1>5, <1>6, <1>7 DEF FifosInv, AllRead

(* The text of a buffer that was filled, never cleared, and has a byte     *)
(* behind it that is not null, is longer than the buffer: the reader is    *)
(* deaf.                                                                   *)
LEMMA FifosDeafStep ==
  ASSUME FifosInv, [FifosNext]_fifosVars, rmem = "full"
  PROVE  rmem' = "full" /\ accepted' = accepted
<1>1. rover = 1 /\ reader # "write"
  BY DEF FifosInv, AcceptInv
<1>2. CASE ReadStdin
  <2> DEFINE k == IF input = <<>> THEN 0 ELSE LineCut(input, Max)
             data == [i \in 1 .. k |-> Len(typed) + i]
  <2>1. text' \in Texts(data, Max, rmem, rover) /\ accepted' = accepted
        /\ rmem' = IF Len(text') <= Max THEN rmem ELSE "full"
    BY <1>2 DEF ReadStdin, ReadTyped
  <2> QED BY <2>1
<1>3. CASE ~ReadStdin
  BY <1>1, <1>3 DEF FifosNext, ReaderStep, ConverterStep, DoublerStep, Start, Open1, Open2, Kill,
     WriteRecord, ReaderBroken, ReadRecord, WriteText, ConverterBroken, ReadText, WriteOnce,
     WriteAgain, fifosVars, dataVars, passedVars, readerVars
<1> QED BY <1>2, <1>3

(* Every line that is not too long is passed on until a text of maxBuffer  *)
(* bytes meets a byte behind the buffer that is not null; then none is.    *)
THEOREM FifosAccepts == FifosSpec => AcceptsUntilDeaf
<1>1. FifosInv => (reader # "ended" /\ rmem # "full" =>
                     Fitting(typed) = Fitting(Clean(accepted) \o Clean(InHand)))
  BY FifosAllPassed
<1>2. FifosInv /\ [FifosNext]_fifosVars =>
        [rmem = "full" => rmem' = "full" /\ accepted' = accepted]_fifosVars
  BY FifosDeafStep
<1> QED BY <1>1, <1>2, FifosInvariance, PTL DEF FifosSpec, AcceptsUntilDeaf

LEMMA FifosWritten ==
  ASSUME FifosInv, NEW a \in Nat, InOrder(twice, 0, a)
  PROVE  Clean(twice) = UpTo(a)
<1>1. twice \in Seq(Int)
  BY NatsAreInts DEF FifosInv, FifosTypeOK, CommonTypeOK
<1>2. Clean(twice) = [i \in 1 .. a - 0 |-> 0 + i]
  BY <1>1, InOrderClean
<1> QED BY <1>2 DEF UpTo

LEMMA FifosStreamStep ==
  ASSUME FifosInv, FifosInv', [FifosNext]_fifosVars
  PROVE  [B!Next]_B!vars
<1>1. /\ Len(typed) \in Nat /\ Len(typed') \in Nat
      /\ typed = UpTo(Len(typed)) /\ typed' = UpTo(Len(typed'))
  BY LenProperties DEF FifosInv, FifosTypeOK, CommonTypeOK, AllRead, UpTo
<1>2. PICK a \in Nat : Clean(twice) = UpTo(a) /\ a <= Len(typed)
  <2>1. PICK x \in 0 .. Len(typed) : InOrder(twice, 0, x)
    BY DEF FifosInv, FifosFlow, FlowAt
  <2> QED BY <1>1, <2>1, FifosWritten
<1>3. \E b \in Nat : /\ Clean(twice') = UpTo(b) /\ a <= b /\ b <= Len(typed')
                    /\ Len(typed) <= Len(typed') /\ (Len(typed) = Len(typed') \/ a = b)
  <2>1. CASE ReadStdin
    <3> DEFINE k == IF input = <<>> THEN 0 ELSE LineCut(input, Max)
               data == [i \in 1 .. k |-> Len(typed) + i]
    <3>1. twice' = twice /\ typed' = typed \o data
      BY <2>1 DEF ReadStdin, ReadTyped, doublerVars
    <3>2. typed \in Seq(Nat) /\ k \in Nat
      <4>1. input \in Seq(Nat \ {0}) /\ Max \in Nat \ {0} /\ typed \in Seq(Nat)
        BY MaxAssumption DEF FifosInv, FifosTypeOK, CommonTypeOK
      <4>2. input # <<>> => LineCut(input, Max) \in 1 .. Max
        BY <4>1, LineFacts
      <4> QED BY <4>1, <4>2
    <3> HIDE DEF k
    <3>3. data \in Seq(Nat) /\ Len(data) = k
      BY <1>1, <3>2, InOrderNext
    <3>4. Len(typed \o data) = Len(typed) + Len(data)
      BY <3>2, <3>3, ConcatProperties
    <3> QED BY <1>1, <1>2, <3>1, <3>2, <3>3, <3>4
  <2>2. CASE WriteAgain
    <3>1. PICK x \in 0 .. Len(typed), y \in 0 .. Len(typed) :
            /\ x <= y /\ typed' = typed /\ InOrder(twice, 0, x) /\ InOrder(twice', 0, y)
      BY <2>2, FifosWriteAgain
    <3>2. Clean(twice) = UpTo(x)
      BY <1>1, <3>1, FifosWritten
    <3>3. Clean(twice') = UpTo(y)
      <4>1. twice' \in Seq(Int)
        <5>1. twice' \in Seq(Nat)
          BY DEF FifosInv, FifosTypeOK, CommonTypeOK
        <5> QED BY ONLY <5>1, NatsAreInts
      <4>2. Clean(twice') = [i \in 1 .. y - 0 |-> 0 + i]
        BY <1>1, <3>1, <4>1, InOrderClean
      <4> QED BY <1>1, <4>2 DEF UpTo
    <3>4. a = x
      <4>1. Len(UpTo(a)) = a /\ Len(UpTo(x)) = x
        BY <1>1, <1>2, AllTyped DEF UpTo
      <4> QED BY <1>2, <3>2, <4>1
    <3> QED BY <1>1, <3>1, <3>3, <3>4
  <2>3. CASE typed' = typed /\ twice' = twice
    BY <1>1, <1>2, <2>3
  <2>4. ReadStdin \/ WriteAgain \/ (typed' = typed /\ twice' = twice)
    BY DEF FifosNext, ReaderStep, ConverterStep, DoublerStep, Start, Open1, Open2, Kill,
       WriteRecord, ReaderBroken, ReadRecord, WriteText, ConverterBroken, ReadText, ReadPortion,
       WriteOnce, fifosVars, dataVars, passedVars, readerVars, doublerVars
  <2> QED BY <2>1, <2>2, <2>3, <2>4
<1>4. PICK b \in Nat : /\ Clean(twice') = UpTo(b) /\ a <= b /\ b <= Len(typed')
                       /\ Len(typed) <= Len(typed') /\ (Len(typed) = Len(typed') \/ a = b)
  BY <1>3
<1>5. \/ typed' = typed /\ Clean(twice') = Clean(twice)
      \/ /\ Len(typed) <= Len(typed') /\ First(typed', Len(typed)) = typed
         /\ typed' # typed /\ Clean(twice') = Clean(twice)
      \/ /\ \E k \in Len(Clean(twice)) + 1 .. Len(typed) : Clean(twice') = First(typed, k)
         /\ typed' = typed
  BY <1>1, <1>2, <1>4, StreamGrows
<1> QED BY <1>5 DEF B!Next, B!Put, B!Take, B!Prefix, B!vars, B!First, First

(* The typed bytes come out in order, none lost on the way or repeated.    *)
THEOREM FifosIsAStream == FifosSpec => Stream
<1>1. FifosInit => B!Init
  <2> SUFFICES ASSUME FifosInit PROVE B!Init
    OBVIOUS
  <2>1. InOrder(<<>>, 0, 0) /\ <<>> \in Seq(Int)
    BY InOrderEmpty, EmptySeq
  <2>2. Clean(<<>>) = [i \in 1 .. 0 - 0 |-> 0 + i]
    BY <2>1, InOrderClean
  <2>3. Clean(<<>>) = <<>>
    BY <2>2
  <2> QED BY <2>3 DEF FifosInit, NothingDone, B!Init
<1>2. FifosInv /\ FifosInv' /\ [FifosNext]_fifosVars => [B!Next]_B!vars
  BY FifosStreamStep
<1> QED BY <1>1, <1>2, FifosInvariance, PTL DEF FifosSpec, Stream, B!Spec

-----------------------------------------------------------------------------
(* Where the three programs can stand still.                               *)

(* Who has opened a FIFO has done so with the program at its other end;    *)
(* and what the converter passes on fits into an empty FIFO.               *)
OpenInv ==
  /\ converter \in {"none", "open1"} => reader \in {"none", "open", "ended"}
  /\ reader \in {"none", "open"} => converter \in {"none", "open1", "ended"}
  /\ converter \in {"none", "open1", "open2"} => doubler \in {"none", "open", "ended"}
  /\ doubler \in {"none", "open"} => converter \notin {"read", "write"}
LineInv == converter = "write" => Len(line) <= Max + 1

(* What a program cannot go on from unless somebody else does something:   *)
(* it is not started; an open() without its partner, a FIFO that is empty  *)
(* or full and whose other end is not closed; or the terminal.             *)
ReaderBlocked ==
  \/ reader \in {"none", "read", "ended"}
  \/ reader = "open" /\ converter # "open1"
  \/ reader = "write" /\ converter # "ended" /\ Len(fifo1) >= Cap1
ConverterBlocked ==
  \/ converter \in {"none", "ended"}
  \/ converter = "open1" /\ reader # "open"
  \/ converter = "open2" /\ doubler # "open"
  \/ converter = "read" /\ fifo1 = <<>> /\ reader # "ended"
  \/ converter = "write" /\ line # <<>> /\ doubler # "ended" /\ Len(fifo2) + Len(line) > Cap2
DoublerBlocked ==
  \/ doubler \in {"none", "ended"}
  \/ doubler = "open" /\ converter # "open2"
  \/ doubler = "read" /\ fifo2 = <<>> /\ converter # "ended"
Running == {reader, converter, doubler} \cap {"none", "ended"} = {}

LEMMA OpenStep == FifosTypeOK /\ OpenInv /\ [FifosNext]_fifosVars => OpenInv'
<1> SUFFICES ASSUME FifosTypeOK, OpenInv, [FifosNext]_fifosVars PROVE OpenInv'
  OBVIOUS
<1>1. CASE Start
  BY <1>1 DEF Start, OpenInv
<1>2. CASE Open1 \/ Open2
  BY <1>2 DEF Open1, Open2, OpenInv
<1>3. CASE Kill \/ ReaderBroken \/ ConverterBroken
  BY <1>3 DEF Kill, ReaderBroken, ConverterBroken, OpenInv
<1>4. CASE ReadStdin \/ WriteRecord
  <2>1. reader \in {"read", "write"} /\ reader' \in {"read", "write"} /\ UNCHANGED <<converter, doubler>>
    BY <1>4 DEF ReadStdin, WriteRecord
  <2> QED BY <2>1 DEF OpenInv
<1>5. CASE ReadRecord \/ WriteText
  <2>1. /\ converter \in {"read", "write"} /\ converter' \in {"read", "write"}
        /\ UNCHANGED <<reader, doubler>>
    BY <1>5 DEF ReadRecord, WriteText
  <2> QED BY <2>1 DEF OpenInv
<1>6. CASE DoublerStep
  <2>1. /\ doubler \in {"read", "write", "again"} /\ doubler' \in {"read", "write", "again"}
        /\ UNCHANGED <<reader, converter>>
    BY <1>6 DEF DoublerStep, ReadText, WriteOnce, WriteAgain, dataVars
  <2> QED BY <2>1 DEF OpenInv
<1>7. CASE UNCHANGED fifosVars
  BY <1>7 DEF fifosVars, OpenInv
<1> QED BY <1>1, <1>2, <1>3, <1>4, <1>5, <1>6, <1>7 DEF FifosNext, ReaderStep, ConverterStep

LEMMA LineStep == FifosTypeOK /\ LineInv /\ [FifosNext]_fifosVars => LineInv'
<1> SUFFICES ASSUME FifosTypeOK, LineInv, [FifosNext]_fifosVars PROVE LineInv'
  OBVIOUS
<1>1. CASE ReadRecord
  <2>0. /\ Max \in Nat /\ cover \in 0 .. 1 /\ cmem \in {"any", "zero", "full"}
        /\ fifo1 \in Seq(Seq(Nat)) /\ \A i \in DOMAIN fifo1 : Len(fifo1[i]) <= Max
    BY MaxAssumption DEF FifosTypeOK, Memory
  <2>1. CASE fifo1 # <<>> /\ Len(Head(fifo1)) < Max /\ line' = Head(fifo1)
    BY ONLY <2>0, <2>1 DEF LineInv
  <2>2. CASE fifo1 # <<>> /\ line' \in Texts(Head(fifo1), Max, cmem, cover)
    <3>1. Head(fifo1) = fifo1[1] /\ 1 \in DOMAIN fifo1 /\ Head(fifo1) \in Seq(Nat)
      BY <2>0, <2>2, HeadTailProperties, LenProperties, EmptySeq
    <3>2. Len(line') \in Len(Head(fifo1)) .. Max + cover /\ Len(Head(fifo1)) \in Nat
      BY <2>0, <2>2, <3>1, TextOfBuffer, LenProperties
    <3> QED BY ONLY <2>0, <3>2 DEF LineInv
  <2>3. CASE line' \in Texts(<<>>, Max, cmem, cover)
    <3>1. <<>> \in Seq(Nat) /\ Len(<<>>) = 0
      BY EmptySeq
    <3>2. Max \in Nat /\ Len(<<>>) <= Max
      BY ONLY <2>0, <3>1
    <3>3. Len(line') \in Len(<<>>) .. Max + cover
      BY ONLY <2>0, <2>3, <3>1, <3>2, TextOfBuffer
    <3> QED BY ONLY <2>0, <3>1, <3>3 DEF LineInv
  <2> QED BY <1>1, <2>1, <2>2, <2>3 DEF ReadRecord
<1>2. CASE WriteText \/ ConverterBroken \/ Open1 \/ Open2
  <2>1. converter' # "write"
    BY <1>2 DEF WriteText, ConverterBroken, Open1, Open2
  <2> QED BY <2>1 DEF LineInv
<1>3. CASE Start \/ Kill \/ ReadStdin \/ ReaderStep \/ DoublerStep \/ UNCHANGED fifosVars
  <2>1. line' = line
    BY <1>3 DEF Start, Kill, ReadStdin, ReaderStep, WriteRecord, ReaderBroken, DoublerStep, ReadText,
       WriteOnce, WriteAgain, dataVars, converterVars, fifosVars
  <2>2. converter' = converter \/ converter' \in {"open1", "ended"}
    BY <1>3 DEF Start, Kill, ReadStdin, ReaderStep, WriteRecord, ReaderBroken, DoublerStep, ReadText,
       WriteOnce, WriteAgain, fifosVars
  <2> QED BY <2>1, <2>2 DEF LineInv
<1> QED BY <1>1, <1>2, <1>3 DEF FifosNext, ConverterStep

(* However the programs are started, they do not lock each other, neither  *)
(* in open() nor on a FIFO: when all are there and none can go on, the     *)
(* reader waits for a line, and what was typed before has come out twice,  *)
(* unless a text that was too long has made the reader deaf.               *)
THEOREM FifosStandStill ==
  FifosSpec => [](Running /\ ReaderBlocked /\ ConverterBlocked /\ DoublerBlocked =>
                    reader = "read" /\ (rmem # "full" => Clean(twice) = typed))
<1> DEFINE Still == Running /\ ReaderBlocked /\ ConverterBlocked /\ DoublerBlocked =>
                      reader = "read" /\ (rmem # "full" => Clean(twice) = typed)
<1>1. FifosInv /\ OpenInv /\ LineInv => Still
  <2> SUFFICES ASSUME FifosInv, OpenInv, LineInv, Running, ReaderBlocked, ConverterBlocked,
                      DoublerBlocked
               PROVE  reader = "read" /\ (rmem # "full" => Clean(twice) = typed)
    OBVIOUS
  <2>1. /\ reader \in {"open", "read", "write"} /\ converter \in {"open1", "open2", "read", "write"}
        /\ doubler \in {"open", "read", "write", "again"}
    BY DEF FifosInv, FifosTypeOK, Running
  <2>2. reader # "open"
    BY <2>1 DEF OpenInv, ReaderBlocked
  <2>3. converter \in {"read", "write"}
    BY <2>1, <2>2 DEF OpenInv, ConverterBlocked
  <2>4. doubler = "read" /\ fifo2 = <<>>
    BY <2>1, <2>3 DEF OpenInv, DoublerBlocked
  <2>5. converter = "read" /\ fifo1 = <<>>
    <3>1. Max \in Nat /\ Cap2 \in Nat /\ Cap2 > Max
      BY MaxAssumption, FifosCapAssumption
    <3>2. ASSUME converter = "write" PROVE FALSE
      <4>1. Len(fifo2) + Len(line) > Cap2 /\ Len(fifo2) = 0
        BY <2>4, <3>2 DEF ConverterBlocked
      <4>2. Len(line) <= Max + 1 /\ Len(line) \in Nat
        BY <3>2, LenProperties DEF LineInv, FifosInv, FifosTypeOK
      <4> QED BY ONLY <3>1, <4>1, <4>2
    <3> QED BY <2>3, <3>2 DEF ConverterBlocked
  <2>6. reader = "read"
    <3>1. Cap1 \in Nat \ {0} /\ Len(fifo1) = 0
      BY <2>5, FifosCapAssumption
    <3>2. ~(Len(fifo1) >= Cap1)
      BY ONLY <3>1
    <3> QED BY <2>1, <2>2, <3>2 DEF ReaderBlocked
  <2>7. ASSUME rmem # "full" PROVE Clean(twice) = typed
    <3>0. Len(fifo1) = 0
      BY <2>5
    <3>1. PICK a \in 0 .. Len(typed), b \in 0 .. Len(typed), c \in 0 .. Len(typed),
               e \in 0 .. Len(typed), r \in [1 .. Len(fifo1) + 1 -> 0 .. Len(typed)] :
            FlowAt(a, b, c, e, r)
      BY DEF FifosInv, FifosFlow
    <3>2. /\ InOrder(twice, 0, a) /\ InOrder(<<>>, a, b) /\ InOrder(<<>>, b, c)
          /\ InOrder(<<>>, c, r[1]) /\ InOrder(<<>>, r[1], e) /\ e = Len(typed)
      <4>1. Doubling = <<>> /\ Converting = <<>> /\ Passing = <<>>
        BY <2>4, <2>5, <2>6 DEF Doubling, Doubles, Converting, Passing
      <4>2. r[Len(fifo1) + 1] = r[1]
        BY <3>0
      <4> QED BY <2>4, <2>5, <2>6, <2>7, <3>1, <4>1, <4>2 DEF FlowAt
    <3>3. a \in Nat /\ b \in Nat /\ c \in Nat /\ e \in Nat /\ r[1] \in Nat
      BY <3>0
    <3>4. a = Len(typed)
      BY <3>2, <3>3, InOrderNil
    <3>5. Clean(twice) = [i \in 1 .. a - 0 |-> 0 + i]
      <4>1. twice \in Seq(Int)
        BY NatsAreInts DEF FifosInv, FifosTypeOK, CommonTypeOK
      <4> QED BY <3>2, <3>3, <4>1, InOrderClean
    <3> QED BY <3>3, <3>4, <3>5 DEF FifosInv, AllRead
  <2> QED BY <2>6, <2>7
<1>2. FifosInit => OpenInv /\ LineInv
  BY DEF FifosInit, OpenInv, LineInv
<1>3. FifosInv /\ OpenInv /\ LineInv /\ [FifosNext]_fifosVars => (OpenInv /\ LineInv)'
  BY OpenStep, LineStep DEF FifosInv
<1> QED BY <1>1, <1>2, <1>3, FifosInvariance, PTL DEF FifosSpec
=============================================================================
