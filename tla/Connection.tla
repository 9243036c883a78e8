----------------------------- MODULE Connection -----------------------------
(***************************************************************************)
(* exercise/exercise.c: the process childServer() forks for one connection *)
(* of UNIX_TL, that is newConnection() and the functions it calls          *)
(* (echoer, getsrcfldr, filetransfer), and UNIX_TL at the other end.       *)
(*                                                                         *)
(* UNIX_TL sends lines; TCP delivers bytes.  A line is the sequence of the *)
(* pieces TCP may deliver apart, and a piece is named by what the handler  *)
(* can see of it: its first letter, which is all newConnection() looks at, *)
(* and "209" for the comment that says goodbye.                            *)
(***************************************************************************)
EXTENDS Integers, Sequences

CONSTANTS Scripts,      \* for each framing, what UNIX_TL may have in mind to send
          Files         \* kinds of files that may be asked for

Letters == {"E", "C", "F", "A", "Q", "#", "209", "text"}
Line == Seq(Letters) \ {<<>>}

(* The framing the comments at lines 295 and 370-373 expect: every line    *)
(* comes in one read, but an E line in two.  With "any" one read may       *)
(* return several pieces, of one line or of more.                          *)
Framings == {"expected", "any"}
ExpectedLine == {<<l>> : l \in Letters \ {"E", "text"}} \cup {<<"E", "text">>}

ASSUME ScriptsAssumption ==
  /\ DOMAIN Scripts \subseteq Framings
  /\ \A f \in DOMAIN Scripts : Scripts[f] \subseteq Seq(Line)
  /\ "expected" \in DOMAIN Scripts =>
       \A s \in Scripts["expected"] : \A i \in DOMAIN s : s[i] \in ExpectedLine
ASSUME FilesAssumption == Files \subseteq {"regular", "missing", "empty", "endsInFF"}

VARIABLES
  framing,            \* how the network cuts and joins the lines
  rest, last, lineNo, \* UNIX_TL: the lines to send, the last one sent, its number
  lookalike,          \* a line it sent may be cut in front of an A or a 209
  peer,               \* UNIX_TL: what it is doing
  stream,             \* the pieces sent to the handler and not read
  said, heard,        \* every reply the handler wrote, and how many were read
  broken,             \* the connection was reset: UNIX_TL closed too early
  conn,               \* the file transfer connection
  h,                  \* where the handler is
  file,               \* the file it has open
  ebuf,               \* ebuffer[0 .. esize - 1]; esize is its length
  garbage,            \* bytes of buffer[] no read has written spell "209"
  signalled,          \* SIGTERM was sent to the parent
  leaked              \* transfer descriptors left open for good

sentVars == <<last, lineNo, lookalike>>
peerVars == <<rest, sentVars, peer>>
replyVars == <<said, broken>>
fileVars == <<conn, file, leaked>>
vars == <<framing, peerVars, stream, heard, replyVars, fileVars, h, ebuf, garbage, signalled>>

Init == /\ framing \in DOMAIN Scripts
        /\ rest \in Scripts[framing]
        /\ last = <<"#">> /\ lineNo = 0 /\ lookalike = FALSE
        /\ peer = "talking"
        /\ stream = <<>> /\ said = <<>> /\ heard = 0
        /\ broken = FALSE
        /\ conn = "none" /\ file = "none" /\ leaked = 0
        /\ h = "read" /\ ebuf = <<>>
        /\ garbage \in BOOLEAN
        /\ signalled = FALSE

-----------------------------------------------------------------------------
(* Replies.                                                                *)
Echo(body, padded) == [kind |-> "echo", body |-> body, padded |-> padded]
SrcPath == [kind |-> "path"]
FileSize == [kind |-> "size"]

(* write(sockfd, m), then on to "to".  Once it is known that the           *)
(* connection was reset the write fails, which is reported and no more, or *)
(* raises SIGPIPE, whose handler has no child to wait for and exits.       *)
Write(m, to) ==
  \/ /\ broken
     /\ h' \in {"read", "ended"}
     /\ UNCHANGED replyVars
  \/ /\ said' = Append(said, m)
     /\ broken' = (peer = "closed")
     /\ h' = to

-----------------------------------------------------------------------------
(* UNIX_TL, as the instructions it sends describe it.                      *)

(* The line l, number n, in the pieces TCP may deliver apart.              *)
Pieces(n, l) ==
  [k \in 1 .. Len(l) |-> [line |-> n, part |-> k, letter |-> l[k], more |-> k < Len(l)]]

Piece == [line : Nat, part : Nat, letter : Letters, more : BOOLEAN]

Complaint == << <<"#">>, <<"209">> >>    \* what is left to say after an error

Answer == CASE Head(last) = "E" -> Echo(Pieces(lineNo, last), FALSE)
            [] Head(last) = "C" -> SrcPath
            [] Head(last) = "F" -> FileSize

(* What the handler takes for an order to stop, and a line that does not   *)
(* look like one where it may be cut.                                      *)
Stops == {"A", "209"}
SafeLine(l) == \A k \in DOMAIN l : k # 1 => l[k] \notin Stops

SendLine == /\ peer = "talking" /\ rest # <<>>
            /\ last' = Head(rest) /\ rest' = Tail(rest) /\ lineNo' = lineNo + 1
            /\ lookalike' = (lookalike \/ ~SafeLine(Head(rest)))
            /\ stream' = stream \o Pieces(lineNo + 1, last')
            /\ peer' = CASE Head(last') \in {"E", "C", "F"} -> "waiting"
                         [] Head(last') \in {"A", "Q", "209"} -> "closing"
                         [] OTHER -> "talking"
            /\ UNCHANGED <<heard, replyVars, fileVars, h, ebuf, garbage, signalled>>

(* A reply it waits for is accepted or complained about, another ignored.  *)
ReadReply ==
  /\ peer # "closed" /\ heard < Len(said)
  /\ heard' = heard + 1
  /\ \/ /\ peer = "waiting" /\ said[heard + 1] = Answer
        /\ peer' = IF Head(last) = "F" THEN "waitFile" ELSE "talking"
        /\ UNCHANGED rest
     \/ /\ peer = "waiting" /\ said[heard + 1] # Answer
        /\ peer' = "talking" /\ rest' = Complaint
     \/ /\ peer # "waiting"
        /\ UNCHANGED <<peer, rest>>
  /\ UNCHANGED <<sentVars, stream, replyVars, fileVars, h, ebuf, garbage, signalled>>

GetFile == /\ peer = "waitFile" /\ conn = "done"
           /\ peer' = "talking"
           /\ UNCHANGED <<rest, sentVars, stream, heard, replyVars, fileVars,
                          h, ebuf, garbage, signalled>>

Timeout == /\ peer \in {"waiting", "waitFile"}
           /\ peer' = "talking" /\ rest' = Complaint
           /\ UNCHANGED <<sentVars, stream, heard, replyVars, fileVars,
                          h, ebuf, garbage, signalled>>

(* Closing a connection with replies unread resets it.                     *)
Close == /\ peer # "closed"
         /\ peer = "closing" \/ h = "ended"
         /\ peer' = "closed"
         /\ broken' = (heard < Len(said))
         /\ UNCHANGED <<rest, sentVars, stream, heard, said, fileVars,
                        h, ebuf, garbage, signalled>>

(* "Before creating the file transfer connection you should send the size" *)
(* (ohjeet.txt:29-30): with the size UNIX_TL listens, without it it may.   *)
Listening == Head(last) = "F" /\ peer \in {"waiting", "waitFile"}
ListeningForSure == Head(last) = "F" /\ peer = "waitFile"

PeerStep == /\ SendLine \/ ReadReply \/ GetFile \/ Timeout \/ Close
            /\ UNCHANGED framing

-----------------------------------------------------------------------------
(* newConnection(): one read, then one branch of the if chain.             *)

(* What one read may return.                                               *)
Reads == {SubSeq(stream, 1, k) :
            k \in {n \in 1 .. Len(stream) : framing = "expected" => n = 1}}

(* A read that returns r, whose first letter is one of "first"; when the   *)
(* branch goes on, memset clears buffer[] at its end.                      *)
Got(r, first) == /\ h = "read" /\ r[1].letter \in first
                 /\ stream' = SubSeq(stream, Len(r) + 1, Len(stream))
                 /\ UNCHANGED <<peerVars, heard>>

(* E: echo the pending E line, with as many bytes more as this read has    *)
(* returned, and keep this one.                                            *)
HandleE(r) == /\ Got(r, {"E"})
              /\ IF ebuf = <<>> THEN UNCHANGED <<replyVars, h>>
                                ELSE Write(Echo(ebuf, TRUE), "read")
              /\ ebuf' = r /\ garbage' = FALSE
              /\ UNCHANGED <<fileVars, signalled>>

(* strstr(buffer, "209") looks at everything in buffer[].                  *)
SaysGoodbye(r) == garbage \/ \E i \in DOMAIN r : r[i].letter = "209"

(* Mutant: the parent is told for every comment.                           *)
HandleCommentAlways(r) == /\ Got(r, {"#", "209"})
                          /\ signalled' = TRUE /\ h' = "ended"
                          /\ UNCHANGED <<garbage, replyVars, fileVars, ebuf>>

(* Mutant: goodbye is a comment like any other.                            *)
HandleCommentNever(r) == /\ Got(r, {"#", "209"})
                         /\ garbage' = FALSE
                         /\ UNCHANGED <<signalled, h, replyVars, fileVars, ebuf>>

(* #: nothing, unless it says goodbye: then tell the parent and return.    *)
HandleComment(r) ==
  /\ Got(r, {"#", "209"})
  /\ \/ SaysGoodbye(r) /\ signalled' = TRUE /\ h' = "ended" /\ UNCHANGED garbage
     \/ ~SaysGoodbye(r) /\ garbage' = FALSE /\ UNCHANGED <<signalled, h>>
  /\ UNCHANGED <<replyVars, fileVars, ebuf>>

HandleC(r) == /\ Got(r, {"C"})
              /\ Write(SrcPath, "read")
              /\ garbage' = FALSE
              /\ UNCHANGED <<fileVars, ebuf, signalled>>

(* A: shutdown() gets its arguments in the wrong order and does nothing.   *)
HandleA(r) == /\ Got(r, {"A"})
              /\ signalled' = TRUE /\ h' = "ended"
              /\ UNCHANGED <<replyVars, fileVars, ebuf, garbage>>

HandleQ(r) == /\ Got(r, {"Q"})
              /\ h' = "ended"
              /\ UNCHANGED <<replyVars, fileVars, ebuf, garbage, signalled>>

(* Mutant: esize is not reset, so the line stays pending.                  *)
HandleOtherKeeps(r) == /\ Got(r, {"text"})
                       /\ IF ebuf = <<>> THEN UNCHANGED <<replyVars, h>>
                                         ELSE Write(Echo(ebuf \o r, FALSE), "read")
                       /\ garbage' = FALSE
                       /\ UNCHANGED <<fileVars, signalled, ebuf>>

(* Anything else completes the pending E line, which is echoed.            *)
HandleOther(r) == /\ Got(r, {"text"})
                  /\ IF ebuf = <<>> THEN UNCHANGED <<replyVars, h>>
                                    ELSE Write(Echo(ebuf \o r, FALSE), "read")
                  /\ ebuf' = <<>> /\ garbage' = FALSE
                  /\ UNCHANGED <<fileVars, signalled>>

-----------------------------------------------------------------------------
(* filetransfer()                                                          *)

(* The beginning of a line, and a whole one with nothing behind it.        *)
Begins(r) == r[1].part = 1
Whole(r) == Begins(r) /\ \A i \in DOMAIN r : r[i].more <=> i < Len(r)

(* F: parse.  The path and the port of a whole line are found; of one that *)
(* is cut they are if no more than its end is missing, and of one joined   *)
(* to the next if that has no empty word for the assertion in split().     *)
(* Otherwise a path or a port is null, or the port is a wrong one that     *)
(* nobody listens at, and the process does not survive it.                 *)
HandleF(r) == /\ Got(r, {"F"})
              /\ \/ Begins(r) /\ h' = "connect"
                 \/ ~Whole(r) /\ h' = "ended"
              /\ garbage' = FALSE
              /\ UNCHANGED <<replyVars, fileVars, ebuf, signalled>>

StayInRead == UNCHANGED <<peerVars, stream, heard, ebuf, garbage, signalled>>

(* connect() comes first; a refusal is exit(EXIT_FAILURE).                 *)
Connect == /\ h = "connect"
           /\ \/ Listening /\ conn' = "open" /\ h' = "open"
              \/ ~ListeningForSure /\ h' = "ended" /\ UNCHANGED conn
           /\ StayInRead /\ UNCHANGED <<file, leaked, replyVars>>

(* No such file: back to newConnection, the transfer socket left open.     *)
FileNotFound == /\ h = "open" /\ "missing" \in Files
                /\ leaked' = leaked + 1 /\ h' = "read"
                /\ StayInRead /\ UNCHANGED <<conn, file, replyVars>>

(* fopen, fseek, ftell, and the size as a reply.  When write() fails, back *)
(* to newConnection with the socket and the file left open.                *)
SendSize == /\ h = "open"
            /\ Write(FileSize, "copy")
            /\ \E f \in Files \ {"missing"} :
                 IF h' = "read" THEN leaked' = leaked + 2 /\ UNCHANGED file
                               ELSE file' = f /\ UNCHANGED leaked
            /\ StayInRead /\ UNCHANGED conn

(* Mutant: the transfer connection is never closed.                        *)
CopyFileUnclosed == /\ h = "copy"
                    /\ h' = "read" /\ UNCHANGED conn
                    /\ file' = "none"
                    /\ StayInRead /\ UNCHANGED <<leaked, replyVars>>

(* The loop copies the file and sends it.  It goes on while ch == EOF, so  *)
(* past a last byte 0xFF, and for an empty file if the uninitialised ch    *)
(* says so; it then never ends well.  Sending to a UNIX_TL that has given  *)
(* up may raise SIGPIPE.                                                   *)
CopyFile == /\ h = "copy"
            /\ \/ file # "endsInFF" /\ conn' = "done" /\ h' = "read"
               \/ file # "endsInFF" /\ peer # "waitFile" /\ h' = "ended" /\ UNCHANGED conn
               \/ file # "regular" /\ h' = "ended" /\ UNCHANGED conn
            /\ file' = "none"
            /\ StayInRead /\ UNCHANGED <<leaked, replyVars>>

-----------------------------------------------------------------------------
EndReading == /\ h' = "ended"
              /\ UNCHANGED <<peerVars, stream, heard, replyVars, fileVars,
                             ebuf, garbage, signalled>>

(* Mutant: the loop's test lets read() return zero.                        *)
EofReadAgain == h = "read" /\ stream = <<>> /\ peer = "closed" /\ UNCHANGED vars

Eof == h = "read" /\ stream = <<>> /\ peer = "closed" /\ EndReading

ReadError == h = "read" /\ broken /\ EndReading

HandlerStep == /\ \/ \E r \in Reads : \/ HandleE(r) \/ HandleComment(r) \/ HandleC(r)
                                      \/ HandleF(r) \/ HandleA(r) \/ HandleQ(r)
                                      \/ HandleOther(r)
                  \/ Connect \/ FileNotFound \/ SendSize \/ CopyFile
                  \/ Eof \/ ReadError
               /\ UNCHANGED framing

Terminated == h = "ended" /\ peer = "closed" /\ UNCHANGED vars

Next == PeerStep \/ HandlerStep \/ Terminated

Spec == Init /\ [][Next]_vars

(* The kernel runs the process; UNIX_TL goes on and has timers of its own. *)
FairSpec == Spec /\ WF_vars(HandlerStep) /\ WF_vars(PeerStep)

-----------------------------------------------------------------------------
Reply == [kind : {"echo"}, body : Seq(Piece), padded : BOOLEAN]
           \cup {SrcPath, FileSize}

TypeOK == /\ framing \in Framings
          /\ peer \in {"talking", "waiting", "waitFile", "closing", "closed"}
          /\ h \in {"read", "connect", "open", "copy", "ended"}
          /\ conn \in {"none", "open", "done"}
          /\ file \in {"none", "regular", "empty", "endsInFF"}
          /\ said \in Seq(Reply) /\ heard \in 0 .. Len(said) /\ leaked \in Nat
          /\ {broken, garbage, signalled, lookalike} \subseteq BOOLEAN
          /\ rest \in Seq(Line) /\ last \in Line /\ lineNo \in Nat
          /\ stream \in Seq(Piece) /\ ebuf \in Seq(Piece)

(* With the expected framing, the next reply UNIX_TL will read while it    *)
(* waits answers the line it sent last, an echo being that whole line and  *)
(* nothing more.                                                           *)
AnswerRight ==
  framing = "expected" /\ peer = "waiting" /\ heard < Len(said) =>
    said[heard + 1] = Answer

(* UNIX_TL waits for a reply and the handler for a line, with nothing on   *)
(* its way between them.                                                   *)
WaitForEachOther == /\ peer \in {"waiting", "waitFile"} /\ heard = Len(said)
                    /\ peer = "waitFile" => conn # "done"
                    /\ h = "read" /\ stream = <<>>

(* With the expected framing, that only happens for an F line whose file   *)
(* cannot be opened.                                                       *)
NoMutualWait ==
  framing = "expected" /\ WaitForEachOther => Head(last) = "F" /\ leaked > 0

(* With the expected framing, the answer UNIX_TL waits for, and the answer *)
(* the handler still has to give: to the line whose first piece it keeps,  *)
(* or has not read.                                                        *)
Nothing == [kind |-> "nothing"]
Asked == IF framing = "expected" /\ peer = "waiting" THEN Answer ELSE Nothing

Questions == {i \in DOMAIN stream : stream[i].letter \in {"E", "C", "F"}}
AnswerTo(p) == CASE p.letter = "E" -> Echo(Pieces(p.line, <<"E", "text">>), FALSE)
                 [] p.letter = "C" -> SrcPath
                 [] p.letter = "F" -> FileSize
Owed ==
  CASE framing = "expected" /\ h \in {"connect", "open"} -> FileSize
    [] framing = "expected" /\ h = "read" /\ ebuf # <<>> -> AnswerTo(ebuf[1])
    [] framing = "expected" /\ h = "read" /\ ebuf = <<>> /\ Questions # {} ->
         AnswerTo(stream[CHOOSE i \in Questions : TRUE])
    [] OTHER -> Nothing

(* With the expected framing every request is answered at most once, with  *)
(* its own answer, and UNIX_TL never reads the answer to something else.   *)
R == INSTANCE Requests WITH
       Answers <- Reply, asked <- Asked, owed <- Owed,
       given <- IF framing = "expected" THEN said ELSE <<>>,
       heard <- IF framing = "expected" THEN heard ELSE 0
Serves == R!Spec

(* "E echo - send this line back in uppercase" (ohjeet.txt:21): no E line  *)
(* is left unanswered until UNIX_TL gives up.                              *)
EchoAnswered == ~(WaitForEachOther /\ Head(last) = "E")

(* However TCP cuts and joins the lines, the parent is told to stop only   *)
(* if UNIX_TL said so, in an A line or a goodbye, or if a line it sent may *)
(* be cut in front of an A or a 209, or if the first read found a 209 in a *)
(* buffer nobody had written.                                              *)
StopOnlyWhenTold == signalled => Head(last) \in Stops \/ lookalike \/ garbage

(* However TCP cuts and joins the lines, a piece is echoed at most once    *)
(* and never ahead of an earlier one.                                      *)
Echoes == {i \in DOMAIN said : said[i].kind = "echo"}
Before(p, q) == p.line < q.line \/ (p.line = q.line /\ p.part < q.part)
EchoesInOrder ==
  /\ \A i \in Echoes : \A k, m \in DOMAIN said[i].body :
       k < m => Before(said[i].body[k], said[i].body[m])
  /\ \A i, j \in Echoes : i < j => Before(said[i].body[Len(said[i].body)],
                                          said[j].body[1])

(* "Close program if comment is goodbye" (line 327), and if UNIX_TL        *)
(* accepts: with the expected framing, a handler that has read all it was  *)
(* sent has told the parent.  (When a goodbye is joined to another line it *)
(* has not: only the first byte of a read is looked at.)                   *)
GoodbyeHeeded ==
  framing = "expected" /\ h = "ended" /\ stream = <<>> /\ Head(last) \in Stops => signalled

(* The process ends.                                                       *)
Ends == <>(h = "ended")
=============================================================================
