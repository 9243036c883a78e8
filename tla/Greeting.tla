------------------------------ MODULE Greeting ------------------------------
(***************************************************************************)
(* exercise/exercise.c, the loop of main(): the first talk with UNIX_TL,   *)
(* which ends with the port at which the program is to serve.  The loop    *)
(* takes the k-th read for the k-th thing UNIX_TL has to say, and looks    *)
(* for the port at a fixed word of the fifth.                              *)
(*                                                                         *)
(* A text is a sequence of words, "sp" and "nl"; a word that is no number  *)
(* and not looked at is "w".  One read returns one segment of it.          *)
(***************************************************************************)
EXTENDS Integers, Sequences, Words

CONSTANTS Orders,   \* the segments in which the order may arrive
          NStart    \* what n, never initialised, may hold at first

Numbers == {"101", "205", "5", "port", "106", "310", "209"}
Word == Numbers \cup {"w", "sp", "nl"}

ASSUME OrdersAssumption == Orders \subseteq Seq(Seq(Word) \ {<<>>})
ASSUME NStartAssumption == NStart \subseteq Int

(* "HELLO this is UNIX_TL server", "Please, send your exact login name"    *)
Line(words) == [i \in 1 .. 2 * Len(words) |->
                  IF i % 2 = 1 THEN words[(i + 1) \div 2]
                  ELSE IF i = 2 * Len(words) THEN "nl" ELSE "sp"]
Hello == Line(<<"w", "w", "w", "w", "w">>)
Please == Line(<<"w", "w", "w", "w", "w", "w">>)
Complaint == <<Line(<<"w", "310", "w", "w", "w", "w", "w", "w", "w", "w">>),
               Line(<<"w", "209", "w", "w", "w", "w", "w">>)>>

VARIABLES peer,         \* UNIX_TL: what it is doing
          order,        \* UNIX_TL: the order, in segments
          stream,       \* segments sent to main and not read
          said, heard,  \* the replies of main, and how many UNIX_TL has read
          start, reads, \* n at first, and the rounds of the loop since
          main, server, \* where main and its server are
          port          \* what main read for the port

peerVars == <<peer, order, heard>>
serverVars == <<server, port>>
vars == <<peerVars, stream, said, start, reads, main, serverVars>>

n == start + reads

Init == /\ peer = "new" /\ order \in Orders /\ stream = <<>>
        /\ said = <<>> /\ heard = 0
        /\ start \in NStart /\ reads = 0
        /\ main = "read" /\ server = "none" /\ port = "unset"

-----------------------------------------------------------------------------
(* UNIX_TL                                                                 *)
Waiting == {"waitHello", "waitLogin", "waitService"}
Expected == IF peer = "waitHello" THEN "HELLO" ELSE "login"

Greet == /\ peer = "new" /\ peer' = "waitHello"
         /\ stream' = Append(stream, Hello)
         /\ UNCHANGED <<order, heard, said, start, reads, main, serverVars>>

HearRight == /\ peer \in {"waitHello", "waitLogin"}
             /\ heard < Len(said) /\ said[heard + 1] = Expected
             /\ heard' = heard + 1
             /\ \/ /\ peer = "waitHello" /\ peer' = "waitLogin"
                   /\ stream' = Append(stream, Please)
                \/ /\ peer = "waitLogin" /\ peer' = "waitService"
                   /\ stream' = stream \o order
             /\ UNCHANGED <<order, said, start, reads, main, serverVars>>

(* A wrong answer, or none in time.                                        *)
Complain == /\ peer \in Waiting
            /\ peer' = "closing" /\ stream' = stream \o Complaint
            /\ heard' = IF heard < Len(said) THEN heard + 1 ELSE heard
            /\ UNCHANGED <<order, said, start, reads, main, serverVars>>

CallService == /\ peer = "waitService" /\ server = "listening" /\ port = "port"
               /\ peer' = "called"
               /\ UNCHANGED <<order, heard, stream, said, start, reads, main, serverVars>>

Close == /\ peer \in {"called", "closing"} /\ peer' = "closed"
         /\ UNCHANGED <<order, heard, stream, said, start, reads, main, serverVars>>

PeerStep == Greet \/ HearRight \/ Complain \/ CallService \/ Close

-----------------------------------------------------------------------------
(* main                                                                    *)

(* One read that finds n to be "round", and the end of the loop's body.    *)
Read(round) == /\ main = "read" /\ stream # <<>> /\ round
               /\ stream' = Tail(stream) /\ reads' = reads + 1
               /\ UNCHANGED <<peerVars, start>>

(* write(sockfd, m); SIGPIPE when UNIX_TL has closed and said so.          *)
Reply(m) == \/ said' = Append(said, m) /\ UNCHANGED main
            \/ peer = "closed" /\ main' = "ended" /\ UNCHANGED said

(* Mutant: the answers in the wrong order.                                 *)
SayLoginFirst == Read(n = 0) /\ Reply("login") /\ UNCHANGED serverVars

SayHello == Read(n = 0) /\ Reply("HELLO") /\ UNCHANGED serverVars

(* Mutant: the answer is only printed.                                     *)
PrintLogin == Read(n = 1) /\ UNCHANGED <<said, main, serverVars>>

SayLogin == Read(n = 1) /\ Reply("login") /\ UNCHANGED serverVars

(* atol(): white space is skipped, and what is no number counts as zero.   *)
Atol(word) == LET digits == SelectSeq(word, LAMBDA x : x # "nl")
              IN  IF digits # <<>> /\ digits[1] \in Numbers THEN digits[1] ELSE "0"

(* Mutant: words are counted from one.                                     *)
PortsInByOne(text) ==
  LET result == Words(text, "sp")
  IN  IF Len(result) > 10 THEN {Atol(result[11])} ELSE {"none"}

(* What result[11] of split() gives; "none" if the program does not        *)
(* survive, as split() aborts or result[11] is its null pointer.  Behind   *)
(* that, and in a buffer not cleared yet, is what memory holds.            *)
PortsIn(text) ==
  LET result == Words(text, "sp")
  IN  CASE reads = 0 -> {"none", "junk"}
        [] reads > 0 /\ HasEmptyWord(text, "sp") -> {"none"}
        [] reads > 0 /\ ~HasEmptyWord(text, "sp") ->
             IF Len(result) > 11 THEN {Atol(result[12])}
             ELSE IF Len(result) = 11 THEN {"none"} ELSE {"none", "junk"}

(* n = 4: fork the server.  split() may abort and fork() may fail.         *)
StartServer == /\ Read(n = 4) /\ UNCHANGED said
               /\ \/ \E p \in PortsIn(stream[1]) \ {"none"} :
                       port' = p /\ server' = "starting" /\ UNCHANGED main
                  \/ main' = "ended" /\ UNCHANGED serverVars

ReadOn == Read(n \notin {0, 1, 4}) /\ UNCHANGED <<said, main, serverVars>>

(* Mutant: the loop goes on after a read of nothing.                       *)
LeaveLoopNever == main = "read" /\ peer = "closed" /\ UNCHANGED vars

(* No more to read, or the connection was reset before it was all read.    *)
LeaveLoop == /\ main = "read" /\ peer = "closed"
             /\ stream = <<>> \/ heard < Len(said)
             /\ main' = "wait"
             /\ UNCHANGED <<peerVars, stream, said, start, reads, serverVars>>

(* childServer(): bind() may fail, for a port taken or not allowed.        *)
Listen == /\ server = "starting"
          /\ server' \in {"listening", "failed"}
          /\ UNCHANGED <<peerVars, stream, said, start, reads, main, port>>

MainStep == SayHello \/ SayLogin \/ StartServer \/ ReadOn \/ LeaveLoop

Over == main # "read" /\ peer = "closed" /\ server # "starting" /\ UNCHANGED vars

Next == PeerStep \/ MainStep \/ Listen \/ Over

Spec == Init /\ [][Next]_vars

(* The kernel runs both processes; UNIX_TL goes on and has a timer.        *)
FairSpec == Spec /\ WF_vars(PeerStep) /\ WF_vars(MainStep) /\ WF_vars(Listen)

-----------------------------------------------------------------------------
TypeOK == /\ peer \in Waiting \cup {"new", "called", "closing", "closed"}
          /\ order \in Orders /\ stream \in Seq(Seq(Word) \ {<<>>})
          /\ said \in Seq({"HELLO", "login"}) /\ heard \in 0 .. Len(said)
          /\ start \in NStart /\ reads \in Nat
          /\ main \in {"read", "wait", "ended"}
          /\ server \in {"none", "starting", "listening", "failed"}
          /\ port \in Numbers \cup {"unset", "0", "junk"}
          /\ port = "unset" <=> server = "none"

(* If n happens to be zero, the reply UNIX_TL reads is the one it asked    *)
(* for.                                                                    *)
AnswerRight == start = 0 /\ peer \in {"waitHello", "waitLogin"} /\ heard < Len(said)
                 => said[heard + 1] = Expected

(* If n happens to be zero, UNIX_TL and main do not wait for each other:   *)
(* one of them, the server or a failure of fork() or bind() goes on.       *)
NoMutualWait == start = 0 /\ peer \in Waiting /\ heard = Len(said)
                  /\ main = "read" /\ stream = <<>>
                => server # "none"

(* If n is zero at first, the server is made for what stands at the        *)
(* twelfth place of the third text after the login: of the order, however  *)
(* it was cut, or of the complaint behind it.  If n is anything else, main *)
(* never reads the order, and serves what memory holds or nothing.  (It is *)
(* the port of ohjeet.txt:8 only if that text begins at "You have".)       *)
Twelfth(text) == LET result == Words(text, "sp")
                 IN  IF Len(result) > 11 THEN Atol(result[12]) ELSE "junk"
ServesFifthText ==
  server # "none" =>
    \/ /\ start = 0 /\ port = Twelfth((order \o Complaint)[3])
       /\ peer \notin {"new", "waitHello", "waitLogin"}
    \/ start \in 2 .. 4 /\ port = "junk"

(* The loop ends.                                                          *)
LoopEnds == <>(main # "read")
=============================================================================
