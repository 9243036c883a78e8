-------------------------- MODULE ConnectionProofs --------------------------
(***************************************************************************)
(* Proofs about Connection.  However TCP joins and cuts what UNIX_TL sends *)
(* the echoes keep their order, and the program is stopped only by a line  *)
(* that says so or looks like it where it is cut.  With the framing the    *)
(* code expects answers are right, an order to stop is heeded and nobody   *)
(* waits for the other, but for a file that cannot be opened; the two are  *)
(* then what module Requests describes.  At the end: with any framing the  *)
(* two do not go on for ever, and do not wait for each other for ever.     *)
(***************************************************************************)
EXTENDS Connection, CommonProofs

(* UNIX_TL has sent an order to stop, and sends nothing more.              *)
Told == Head(last) \in Stops /\ peer \in {"closing", "closed"}

(* The strengthening of StopOnlyWhenTold: what looks like an order to stop *)
(* is found in the stream only if one was sent, or a line with such a      *)
(* piece, and a process that stopped stays stopped, so nothing clears      *)
(* garbage afterwards.                                                     *)
StopInv ==
  /\ \A i \in DOMAIN stream : stream[i].letter \in Stops => Told \/ lookalike
  /\ signalled => h = "ended" /\ (Told \/ lookalike \/ garbage)

-----------------------------------------------------------------------------
(* The pieces of a line are pieces, and only the first may say stop.       *)
LEMMA PiecesFacts ==
  ASSUME NEW n \in Nat, NEW l \in Line
  PROVE  /\ Pieces(n, l) \in Seq(Piece)
         /\ Len(Pieces(n, l)) = Len(l) /\ Len(l) \in Nat \ {0}
         /\ \A k \in 1 .. Len(l) : Pieces(n, l)[k].letter = l[k]
<1>1. l \in Seq(Letters) /\ Len(l) \in Nat \ {0} /\ DOMAIN l = 1 .. Len(l)
  BY LenProperties, EmptySeq DEF Line
<1>2. \A k \in 1 .. Len(l) : l[k] \in Letters
  BY <1>1, ElementOfSeq
<1>3. \A k \in 1 .. Len(l) :
        [line |-> n, part |-> k, letter |-> l[k], more |-> k < Len(l)] \in Piece
  BY <1>1, <1>2 DEF Piece
<1>4. Pieces(n, l) \in [1 .. Len(l) -> Piece]
  BY <1>3 DEF Pieces
<1>5. Pieces(n, l) \in Seq(Piece) /\ Len(Pieces(n, l)) = Len(l)
  BY <1>1, <1>4, SeqDef
<1> QED BY <1>1, <1>5 DEF Pieces

(* A sequence split after its k-th element.                                *)
LEMMA Split ==
  ASSUME NEW S, NEW s \in Seq(S), NEW k \in 1 .. Len(s)
  PROVE  /\ SubSeq(s, 1, k) \in Seq(S) /\ Len(SubSeq(s, 1, k)) = k
         /\ \A i \in 1 .. k : SubSeq(s, 1, k)[i] = s[i]
         /\ SubSeq(s, k + 1, Len(s)) \in Seq(S)
         /\ \A i \in DOMAIN SubSeq(s, k + 1, Len(s)) :
              \E j \in 1 .. Len(s) : SubSeq(s, k + 1, Len(s))[i] = s[j]
<1> DEFINE n == Len(s)
<1>1. n \in Nat /\ \A i \in 1 .. n : s[i] \in S
  BY LenProperties, ElementOfSeq
<1>2. k \in Int /\ k + 1 \in Int /\ 1 <= k /\ k <= n
  BY <1>1
<1> HIDE DEF n
<1>3. /\ SubSeq(s, 1, k) \in Seq(S) /\ Len(SubSeq(s, 1, k)) = k
      /\ \A i \in 1 .. k : SubSeq(s, 1, k)[i] = s[i]
  <2>1. \A i \in 1 .. k : s[i] \in S
    BY <1>1, <1>2
  <2>2. /\ SubSeq(s, 1, k) \in Seq(S)
        /\ Len(SubSeq(s, 1, k)) = IF 1 <= k THEN k - 1 + 1 ELSE 0
        /\ \A i \in 1 .. k - 1 + 1 : SubSeq(s, 1, k)[i] = s[1 + i - 1]
    BY <1>2, <2>1, SubSeqProperties
  <2>3. k - 1 + 1 = k /\ \A i \in 1 .. k : 1 + i - 1 = i
    BY <1>2
  <2> QED BY <1>2, <2>2, <2>3
<1> DEFINE t == SubSeq(s, k + 1, n)
<1>4. /\ t \in Seq(S)
      /\ Len(t) = IF k + 1 <= n THEN n - (k + 1) + 1 ELSE 0
      /\ \A i \in 1 .. n - (k + 1) + 1 : t[i] = s[k + 1 + i - 1]
  <2>1. \A i \in k + 1 .. n : s[i] \in S
    BY <1>1, <1>2
  <2> QED BY <1>1, <1>2, <2>1, SubSeqProperties
<1>5. DOMAIN t = 1 .. Len(t)
  BY <1>4, LenProperties
<1> HIDE DEF t
<1>6. ASSUME NEW i \in DOMAIN t PROVE \E j \in 1 .. n : t[i] = s[j]
  <2>1. i \in 1 .. n - (k + 1) + 1 /\ k + 1 + i - 1 \in 1 .. n
    BY <1>1, <1>2, <1>4, <1>5
  <2> QED BY <1>4, <2>1
<1> QED BY <1>3, <1>4, <1>6 DEF t, n

(* What one read returns, and what it leaves, comes from the stream.       *)
LEMMA ReadFacts ==
  ASSUME stream \in Seq(Piece), NEW r \in Reads
  PROVE  /\ r \in Seq(Piece) /\ Len(r) \in Nat \ {0} /\ DOMAIN r = 1 .. Len(r)
         /\ \A i \in DOMAIN r : \E j \in DOMAIN stream : r[i] = stream[j]
         /\ SubSeq(stream, Len(r) + 1, Len(stream)) \in Seq(Piece)
         /\ \A i \in DOMAIN SubSeq(stream, Len(r) + 1, Len(stream)) :
              \E j \in DOMAIN stream :
                SubSeq(stream, Len(r) + 1, Len(stream))[i] = stream[j]
<1>1. Len(stream) \in Nat /\ DOMAIN stream = 1 .. Len(stream)
  BY LenProperties
<1>2. PICK k \in 1 .. Len(stream) : r = SubSeq(stream, 1, k)
  BY <1>1 DEF Reads
<1>3. /\ r \in Seq(Piece) /\ Len(r) = k
      /\ \A i \in 1 .. k : r[i] = stream[i]
  BY <1>2, Split
<1>4. DOMAIN r = 1 .. Len(r)
  BY <1>3, LenProperties
<1>5. \A i \in DOMAIN r : \E j \in DOMAIN stream : r[i] = stream[j]
  BY <1>1, <1>3, <1>4
<1>6. /\ SubSeq(stream, k + 1, Len(stream)) \in Seq(Piece)
      /\ \A i \in DOMAIN SubSeq(stream, k + 1, Len(stream)) :
           \E j \in 1 .. Len(stream) : SubSeq(stream, k + 1, Len(stream))[i] = stream[j]
  BY Split
<1>7. Len(r) \in Nat \ {0}
  BY ONLY <1>1, <1>3, k \in 1 .. Len(stream)
<1>8. Len(r) + 1 = k + 1
  BY ONLY <1>3
<1>9. \A i \in DOMAIN SubSeq(stream, Len(r) + 1, Len(stream)) :
        \E j \in DOMAIN stream :
          SubSeq(stream, Len(r) + 1, Len(stream))[i] = stream[j]
  BY <1>1, <1>6, <1>8, Zenon
<1> QED BY <1>3, <1>4, <1>5, <1>6, <1>7, <1>8, <1>9, Zenon

-----------------------------------------------------------------------------
(* Type correctness, for every set of scripts.                             *)

LEMMA WriteFacts ==
  ASSUME TypeOK, NEW m \in Reply, NEW to, Write(m, to)
  PROVE  /\ said' \in Seq(Reply) /\ broken' \in BOOLEAN
         /\ heard \in 0 .. Len(said')
         /\ h' \in {to, "read", "ended"}
<1>1. Len(said) \in Nat /\ heard \in 0 .. Len(said) /\ said \in Seq(Reply)
  BY LenProperties DEF TypeOK
<1>2. Append(said, m) \in Seq(Reply) /\ Len(Append(said, m)) = Len(said) + 1
  BY <1>1
<1>3. heard \in 0 .. Len(said) + 1
  BY <1>1
<1>4. broken \in BOOLEAN /\ (peer = "closed") \in BOOLEAN
  BY DEF TypeOK
<1> QED BY <1>1, <1>2, <1>3, <1>4 DEF Write, replyVars

LEMMA TypeInit == Init => TypeOK
<1> SUFFICES ASSUME Init PROVE TypeOK
  OBVIOUS
<1>1. rest \in Seq(Line) /\ framing \in Framings
  BY ScriptsAssumption DEF Init
<1>2. <<"#">> \in Line
  BY DEF Line, Letters
<1>3. <<>> \in Seq(Reply) /\ Len(<<>>) = 0 /\ <<>> \in Seq(Piece)
  BY EmptySeq
<1>4. {broken, garbage, signalled, lookalike} \subseteq BOOLEAN
  BY DEF Init
<1>5. said \in Seq(Reply) /\ heard \in 0 .. Len(said)
  BY <1>3 DEF Init
<1>6. stream \in Seq(Piece) /\ ebuf \in Seq(Piece) /\ last \in Line
  BY <1>2, <1>3 DEF Init
<1> QED BY <1>1, <1>4, <1>5, <1>6 DEF Init, TypeOK

LEMMA TypePeer ==
  ASSUME TypeOK, PeerStep
  PROVE  TypeOK'
<1> USE DEF TypeOK, sentVars, replyVars, fileVars
<1>9. framing' = framing
  BY DEF PeerStep
<1>0. Complaint \in Seq(Line)
  BY DEF Complaint, Line, Letters
<1>1. CASE SendLine
  <2>1. Head(rest) \in Line /\ Tail(rest) \in Seq(Line)
    BY <1>1, HeadTailProperties DEF SendLine
  <2>2. Pieces(lineNo + 1, Head(rest)) \in Seq(Piece)
    BY <2>1, PiecesFacts
  <2>3. stream' \in Seq(Piece)
    BY <1>1, <2>1, <2>2, ConcatProperties DEF SendLine
  <2>4. peer' \in {"talking", "waiting", "closing"}
    BY <1>1 DEF SendLine
  <2> QED BY <1>1, <1>9, <2>1, <2>3, <2>4 DEF SendLine
<1>2. CASE ReadReply
  <2>1. Len(said) \in Nat
    BY LenProperties
  <2>2. heard' \in 0 .. Len(said)
    BY <1>2, <2>1 DEF ReadReply
  <2>3. rest' \in Seq(Line) /\ peer' \in {"talking", "waitFile", peer}
    BY <1>0, <1>2 DEF ReadReply
  <2> QED BY <1>2, <1>9, <2>2, <2>3 DEF ReadReply
<1>3. CASE GetFile
  BY <1>3, <1>9 DEF GetFile
<1>4. CASE Timeout
  BY <1>0, <1>4, <1>9 DEF Timeout
<1>5. CASE Close
  <2>1. broken' \in BOOLEAN
    BY <1>5 DEF Close
  <2> QED BY <1>5, <1>9, <2>1 DEF Close
<1> QED BY <1>1, <1>2, <1>3, <1>4, <1>5 DEF PeerStep

LEMMA TypeRead ==
  ASSUME TypeOK, NEW r \in Reads,
         \/ HandleE(r) \/ HandleComment(r) \/ HandleC(r) \/ HandleF(r)
         \/ HandleA(r) \/ HandleQ(r) \/ HandleOther(r),
         UNCHANGED framing
  PROVE  TypeOK'
<1>1. /\ r \in Seq(Piece)
      /\ SubSeq(stream, Len(r) + 1, Len(stream)) \in Seq(Piece)
  BY ReadFacts DEF TypeOK
<1>2. /\ Echo(ebuf, TRUE) \in Reply /\ SrcPath \in Reply
      /\ Echo(ebuf \o r, FALSE) \in Reply
  <2>1. ebuf \o r \in Seq(Piece)
    BY <1>1, ConcatProperties DEF TypeOK
  <2> QED BY <2>1 DEF Reply, Echo, SrcPath, TypeOK
<1>3. stream' \in Seq(Piece) /\ UNCHANGED <<peerVars, heard>> /\ h = "read"
  BY <1>1 DEF HandleE, HandleComment, HandleC, HandleF, HandleA, HandleQ, HandleOther, Got
<1>4. UNCHANGED fileVars
  BY DEF HandleE, HandleComment, HandleC, HandleF, HandleA, HandleQ, HandleOther
<1>5. /\ ebuf' \in Seq(Piece) /\ garbage' \in BOOLEAN /\ signalled' \in BOOLEAN
  BY <1>1, EmptySeq DEF HandleE, HandleComment, HandleC, HandleF, HandleA, HandleQ, HandleOther, TypeOK
<1>6. \/ UNCHANGED replyVars /\ h' \in {"read", "connect", "ended"}
      \/ \E m \in Reply : Write(m, "read")
  BY <1>2, <1>3 DEF HandleE, HandleComment, HandleC, HandleF, HandleA, HandleQ, HandleOther
<1>7. /\ said' \in Seq(Reply) /\ broken' \in BOOLEAN
      /\ heard \in 0 .. Len(said') /\ h' \in {"read", "connect", "ended"}
  <2>1. CASE UNCHANGED replyVars /\ h' \in {"read", "connect", "ended"}
    BY <2>1 DEF TypeOK, replyVars
  <2>2. CASE \E m \in Reply : Write(m, "read")
    BY <2>2, WriteFacts
  <2> QED BY <1>6, <2>1, <2>2
<1> QED BY <1>3, <1>4, <1>5, <1>7 DEF TypeOK, peerVars, sentVars, fileVars

LEMMA TypeStep ==
  ASSUME TypeOK, [Next]_vars
  PROVE  TypeOK'
<1>0. framing' = framing
  BY DEF Next, PeerStep, HandlerStep, Terminated, vars
<1>1. CASE PeerStep
  BY <1>1, TypePeer
<1>2. ASSUME NEW r \in Reads,
             \/ HandleE(r) \/ HandleComment(r) \/ HandleC(r) \/ HandleF(r)
             \/ HandleA(r) \/ HandleQ(r) \/ HandleOther(r)
      PROVE  TypeOK'
  BY <1>0, <1>2, TypeRead
<1>3. CASE Connect \/ FileNotFound \/ CopyFile \/ Eof \/ ReadError
  BY <1>0, <1>3 DEF Connect, FileNotFound, CopyFile, Eof, ReadError, EndReading, StayInRead,
     TypeOK, peerVars, sentVars, replyVars, fileVars
<1>4. CASE SendSize
  <2>1. FileSize \in Reply
    BY DEF Reply
  <2>2. /\ said' \in Seq(Reply) /\ broken' \in BOOLEAN
        /\ heard \in 0 .. Len(said') /\ h' \in {"copy", "read", "ended"}
    BY <1>4, <2>1, WriteFacts DEF SendSize
  <2>3. /\ file' \in {"none", "regular", "empty", "endsInFF"}
        /\ leaked' \in Nat
    <3>1. PICK f \in Files \ {"missing"} :
            \/ leaked' = leaked + 2 /\ file' = file
            \/ file' = f /\ leaked' = leaked
      BY <1>4, Zenon DEF SendSize
    <3>2. f \in {"regular", "empty", "endsInFF"}
      BY FilesAssumption
    <3> QED BY <3>1, <3>2 DEF TypeOK
  <2> QED BY <1>0, <1>4, <2>2, <2>3 DEF SendSize, StayInRead, TypeOK, peerVars, sentVars
<1>5. CASE UNCHANGED vars
  BY <1>5 DEF vars, TypeOK, peerVars, sentVars, replyVars, fileVars
<1> QED BY <1>1, <1>2, <1>3, <1>4, <1>5 DEF Next, HandlerStep, Terminated

(* Every variable keeps its type, whatever UNIX_TL sends.                  *)
THEOREM TypeCorrect == Spec => []TypeOK
<1> QED BY TypeInit, TypeStep, PTL DEF Spec

-----------------------------------------------------------------------------
(* The order to stop.                                                      *)

LEMMA StopInit == Init => StopInv
<1>1. DOMAIN <<>> = {}
  OBVIOUS
<1> QED BY ONLY <1>1, Zenon DEF Init, StopInv

LEMMA StopPeer ==
  ASSUME TypeOK, StopInv, PeerStep
  PROVE  StopInv'
<1>1. CASE SendLine
  <2>1. ~Told
    BY <1>1 DEF SendLine, Told
  <2>2. rest \in Seq(Line) /\ rest # <<>> /\ stream \in Seq(Piece) /\ lineNo + 1 \in Nat
    BY <1>1 DEF SendLine, TypeOK
  <2> DEFINE l == Head(rest)
             new == Pieces(lineNo + 1, l)
  <2>3. l \in Line
    BY <2>2, HeadTailProperties
  <2>4. /\ new \in Seq(Piece) /\ Len(new) = Len(l) /\ Len(l) \in Nat \ {0}
        /\ \A k \in 1 .. Len(l) : new[k].letter = l[k]
        /\ DOMAIN l = 1 .. Len(l)
    <3>1. l \in Seq(Letters)
      BY <2>3 DEF Line
    <3> QED BY <2>2, <2>3, <3>1, PiecesFacts, LenProperties
  <2>5. ASSUME NEW k \in 1 .. Len(new), new[k].letter \in Stops
        PROVE  Told' \/ lookalike'
    <3>1. l[k] \in Stops /\ k \in DOMAIN l
      BY <2>4, <2>5
    <3>2. CASE k = 1
      <4>1. last' = l /\ Head(l) = l[1]
        BY <1>1, <2>3, <2>4 DEF SendLine, Line
      <4>2. Head(last') \in {"A", "209"}
        BY <3>1, <3>2, <4>1 DEF Stops
      <4>3. peer' = "closing"
        BY <1>1, <4>2 DEF SendLine
      <4> QED BY <4>2, <4>3 DEF Told, Stops
    <3>3. CASE k # 1
      <4>1. ~SafeLine(l)
        BY <3>1, <3>3, Zenon DEF SafeLine
      <4> QED BY <1>1, <4>1 DEF SendLine
    <3> QED BY <3>2, <3>3
  <2>6. \A i \in DOMAIN stream : stream[i].letter \in Stops => lookalike'
    BY <1>1, <2>1, Zenon DEF StopInv, SendLine
  <2>7. \A i \in DOMAIN stream' : stream'[i].letter \in Stops => Told' \/ lookalike'
    <3>1. stream' = stream \o new
      BY <1>1 DEF SendLine
    <3> HIDE DEF new, l
    <3>2. /\ Len(stream) \in Nat /\ DOMAIN stream = 1 .. Len(stream)
          /\ stream \o new \in Seq(Piece)
          /\ Len(stream \o new) = Len(stream) + Len(new)
          /\ \A i \in 1 .. Len(stream) + Len(new) :
               (stream \o new)[i] = IF i <= Len(stream) THEN stream[i]
                                                      ELSE new[i - Len(stream)]
      BY <2>2, <2>4, ConcatProperties, LenProperties
    <3>3. DOMAIN (stream \o new) = 1 .. Len(stream) + Len(new)
      BY <3>2, LenProperties
    <3> SUFFICES ASSUME NEW i \in 1 .. Len(stream) + Len(new),
                        (stream \o new)[i].letter \in Stops
                 PROVE  Told' \/ lookalike'
      BY <3>1, <3>3
    <3>4. CASE i <= Len(stream)
      BY <2>6, <3>2, <3>4
    <3>5. CASE ~(i <= Len(stream))
      <4>1. i - Len(stream) \in 1 .. Len(new) /\ new[i - Len(stream)].letter \in Stops
        BY <2>4, <3>2, <3>5
      <4> QED BY <2>5, <4>1
    <3> QED BY <3>4, <3>5
  <2>8. signalled' => h' = "ended" /\ (Told' \/ lookalike' \/ garbage')
    BY <1>1, <2>1 DEF SendLine, StopInv
  <2> QED BY <2>7, <2>8, Zenon DEF StopInv
<1>2. CASE ReadReply \/ GetFile \/ Timeout \/ Close
  <2>1. /\ UNCHANGED <<sentVars, stream, h, garbage, signalled>>
        /\ Told => Told'
    BY <1>2 DEF ReadReply, GetFile, Timeout, Close, Told, sentVars
  <2> QED BY <2>1 DEF StopInv, sentVars
<1> QED BY <1>1, <1>2 DEF PeerStep

LEMMA StopRead ==
  ASSUME TypeOK, StopInv, NEW r \in Reads,
         \/ HandleE(r) \/ HandleComment(r) \/ HandleC(r) \/ HandleF(r)
         \/ HandleA(r) \/ HandleQ(r) \/ HandleOther(r)
  PROVE  StopInv'
<1>1. /\ Len(r) \in Nat \ {0} /\ DOMAIN r = 1 .. Len(r)
      /\ \A i \in DOMAIN r : \E j \in DOMAIN stream : r[i] = stream[j]
      /\ \A i \in DOMAIN SubSeq(stream, Len(r) + 1, Len(stream)) :
           \E j \in DOMAIN stream : SubSeq(stream, Len(r) + 1, Len(stream))[i] = stream[j]
  BY ReadFacts DEF TypeOK
<1>2. /\ h = "read" /\ UNCHANGED peerVars
      /\ stream' = SubSeq(stream, Len(r) + 1, Len(stream))
  BY DEF HandleE, HandleComment, HandleC, HandleF, HandleA, HandleQ, HandleOther, Got
<1>3. ~signalled
  BY <1>2 DEF StopInv
<1>4. (Told' <=> Told) /\ lookalike' = lookalike
  BY <1>2 DEF peerVars, sentVars, Told
<1>5. \A i \in DOMAIN r : r[i].letter \in Stops => Told \/ lookalike
  BY <1>1 DEF StopInv
<1>6. \A i \in DOMAIN stream' : stream'[i].letter \in Stops => Told' \/ lookalike'
  BY <1>1, <1>2, <1>4 DEF StopInv
<1>7. signalled' => h' = "ended" /\ (Told' \/ lookalike' \/ garbage')
  <2>1. CASE HandleComment(r)
    <3>1. SaysGoodbye(r) => Told \/ lookalike \/ garbage
      BY <1>5 DEF SaysGoodbye, Stops
    <3>2. \/ SaysGoodbye(r) /\ h' = "ended" /\ garbage' = garbage
          \/ signalled' = signalled
      BY <2>1, Zenon DEF HandleComment
    <3>3. CASE SaysGoodbye(r) /\ h' = "ended" /\ garbage' = garbage
      BY <1>4, <3>1, <3>3, Zenon
    <3>4. CASE signalled' = signalled
      BY <1>3, <3>4, Zenon
    <3> QED BY <3>2, <3>3, <3>4, Zenon
  <2>2. CASE HandleA(r)
    <3>1. r[1].letter \in Stops /\ 1 \in DOMAIN r
      BY <1>1, <2>2 DEF HandleA, Got, Stops
    <3> QED BY <1>4, <1>5, <2>2, <3>1 DEF HandleA
  <2>3. CASE HandleE(r) \/ HandleC(r) \/ HandleF(r) \/ HandleQ(r) \/ HandleOther(r)
    BY <1>3, <2>3 DEF HandleE, HandleC, HandleF, HandleQ, HandleOther
  <2> QED BY <2>1, <2>2, <2>3
<1> QED BY <1>2, <1>6, <1>7 DEF StopInv, peerVars, sentVars

LEMMA StopStep ==
  ASSUME TypeOK, StopInv, [Next]_vars
  PROVE  StopInv'
<1>1. CASE PeerStep
  BY <1>1, StopPeer
<1>2. ASSUME NEW r \in Reads,
             \/ HandleE(r) \/ HandleComment(r) \/ HandleC(r) \/ HandleF(r)
             \/ HandleA(r) \/ HandleQ(r) \/ HandleOther(r)
      PROVE  StopInv'
  BY <1>2, StopRead
<1>3. CASE Connect \/ FileNotFound \/ SendSize \/ CopyFile \/ Eof \/ ReadError
  <2>1. /\ UNCHANGED <<peerVars, stream, garbage, signalled>>
        /\ h # "ended"
    BY <1>3 DEF Connect, FileNotFound, SendSize, CopyFile, Eof, ReadError, EndReading,
       StayInRead
  <2>2. ~signalled
    BY <2>1 DEF StopInv
  <2> QED BY <2>1, <2>2 DEF StopInv, Told, peerVars, sentVars
<1>4. CASE UNCHANGED vars
  BY <1>4 DEF vars, peerVars, sentVars, StopInv, Told
<1> QED BY <1>1, <1>2, <1>3, <1>4 DEF Next, HandlerStep, Terminated

(* However TCP cuts and joins the lines, only an A line or a goodbye, a    *)
(* line that looks like one where it is cut, or what an unwritten buffer   *)
(* held makes the handler stop its parent.                                 *)
THEOREM StopsOnlyWhenTold == Spec => []StopOnlyWhenTold
<1>1. Init => TypeOK /\ StopInv
  BY TypeInit, StopInit
<1>2. TypeOK /\ StopInv /\ [Next]_vars => (TypeOK /\ StopInv)'
  BY TypeStep, StopStep
<1>3. StopInv => StopOnlyWhenTold
  BY DEF StopInv, Told, Stops, StopOnlyWhenTold
<1> QED BY <1>1, <1>2, <1>3, PTL DEF Spec

-----------------------------------------------------------------------------
(* The order of the echoes.                                                *)

Sorted(s) == \A k, m \in 1 .. Len(s) : k < m => Before(s[k], s[m])
Ahead(s, t) == \A k \in 1 .. Len(s), m \in 1 .. Len(t) : Before(s[k], t[m])
NoLater(s, no) == \A k \in 1 .. Len(s) : s[k].line <= no

(* The pieces pass from the stream to ebuf and from there to an echo, and  *)
(* never overtake each other.                                              *)
StreamInv == Sorted(stream) /\ NoLater(stream, lineNo)
PendingInv == Sorted(ebuf) /\ NoLater(ebuf, lineNo) /\ Ahead(ebuf, stream)
EchoInv ==
  /\ \A i \in Echoes : /\ said[i].body \in Seq(Piece) /\ said[i].body # <<>>
                        /\ Sorted(said[i].body) /\ NoLater(said[i].body, lineNo)
                        /\ Ahead(said[i].body, ebuf) /\ Ahead(said[i].body, stream)
  /\ \A i, j \in Echoes : i < j => Ahead(said[i].body, said[j].body)
OrderInv == StreamInv /\ PendingInv /\ EchoInv

LEMMA JoinElements ==
  ASSUME NEW s \in Seq(Piece), NEW t \in Seq(Piece)
  PROVE  /\ s \o t \in Seq(Piece) /\ Len(s) \in Nat /\ Len(t) \in Nat
         /\ Len(s \o t) = Len(s) + Len(t)
         /\ \A i \in 1 .. Len(s) : (s \o t)[i] = s[i]
         /\ \A i \in Len(s) + 1 .. Len(s) + Len(t) :
              i - Len(s) \in 1 .. Len(t) /\ (s \o t)[i] = t[i - Len(s)]
<1>1. /\ s \o t \in Seq(Piece) /\ Len(s) \in Nat /\ Len(t) \in Nat
      /\ Len(s \o t) = Len(s) + Len(t)
      /\ \A i \in 1 .. Len(s) + Len(t) :
           (s \o t)[i] = IF i <= Len(s) THEN s[i] ELSE t[i - Len(s)]
  BY ConcatProperties, LenProperties
<1> QED BY <1>1

LEMMA JoinOrder ==
  ASSUME NEW s \in Seq(Piece), NEW t \in Seq(Piece)
  PROVE  /\ Sorted(s) /\ Sorted(t) /\ Ahead(s, t) => Sorted(s \o t)
         /\ \A no : NoLater(s, no) /\ NoLater(t, no) => NoLater(s \o t, no)
         /\ \A u \in Seq(Piece) : Ahead(s, u) /\ Ahead(t, u) => Ahead(s \o t, u)
         /\ \A u \in Seq(Piece) : Ahead(u, s) /\ Ahead(u, t) => Ahead(u, s \o t)
<1> DEFINE w == s \o t
<1>1. /\ Len(s) \in Nat /\ Len(t) \in Nat /\ Len(w) = Len(s) + Len(t)
      /\ \A i \in 1 .. Len(s) : w[i] = s[i]
      /\ \A i \in Len(s) + 1 .. Len(s) + Len(t) :
           i - Len(s) \in 1 .. Len(t) /\ w[i] = t[i - Len(s)]
  BY JoinElements
<1> HIDE DEF w
<1>2. ASSUME Sorted(s), Sorted(t), Ahead(s, t), NEW k \in 1 .. Len(w), NEW m \in 1 .. Len(w),
             k < m
      PROVE  Before(w[k], w[m])
  <2>1. CASE m <= Len(s)
    BY <1>1, <1>2, <2>1 DEF Sorted
  <2>2. CASE k <= Len(s) /\ m > Len(s)
    <3>1. w[k] = s[k] /\ w[m] = t[m - Len(s)] /\ m - Len(s) \in 1 .. Len(t)
      BY <1>1, <2>2
    <3> QED BY <1>1, <1>2, <2>2, <3>1 DEF Ahead
  <2>3. CASE k > Len(s)
    <3>1. /\ Len(s) \in Nat /\ Len(t) \in Nat /\ Len(w) = Len(s) + Len(t)
          /\ k \in 1 .. Len(w) /\ m \in 1 .. Len(w) /\ k < m /\ k > Len(s)
      BY <1>1, <1>2, <2>3, Zenon
    <3>2. /\ k \in Len(s) + 1 .. Len(s) + Len(t)
          /\ m \in Len(s) + 1 .. Len(s) + Len(t)
          /\ k - Len(s) < m - Len(s)
      BY ONLY <3>1
    <3>3. /\ w[k] = t[k - Len(s)] /\ k - Len(s) \in 1 .. Len(t)
          /\ w[m] = t[m - Len(s)] /\ m - Len(s) \in 1 .. Len(t)
      BY <1>1, <3>2, Zenon
    <3> QED BY <1>2, <3>2, <3>3 DEF Sorted
  <2> QED BY <1>1, <2>1, <2>2, <2>3
<1>3. \A i \in 1 .. Len(w) :
        \/ i \in 1 .. Len(s) /\ w[i] = s[i]
        \/ i - Len(s) \in 1 .. Len(t) /\ w[i] = t[i - Len(s)]
  BY <1>1
<1>4. \A no : NoLater(s, no) /\ NoLater(t, no) => NoLater(w, no)
  BY <1>3 DEF NoLater
<1>5. \A u \in Seq(Piece) : /\ Ahead(s, u) /\ Ahead(t, u) => Ahead(w, u)
                            /\ Ahead(u, s) /\ Ahead(u, t) => Ahead(u, w)
  BY <1>3 DEF Ahead
<1> QED BY <1>2, <1>4, <1>5 DEF Sorted, w

(* A read keeps the order: it returns the front of the stream.             *)
LEMMA ReadOrder ==
  ASSUME TypeOK, NEW r \in Reads
  PROVE  LET left == SubSeq(stream, Len(r) + 1, Len(stream))
         IN  /\ r \in Seq(Piece) /\ r # <<>> /\ left \in Seq(Piece)
             /\ StreamInv => /\ Sorted(r) /\ NoLater(r, lineNo) /\ Sorted(left) /\ NoLater(left, lineNo)
                             /\ Ahead(r, left)
             /\ \A s \in Seq(Piece) : Ahead(s, stream) => Ahead(s, r) /\ Ahead(s, left)
<1> DEFINE left == SubSeq(stream, Len(r) + 1, Len(stream))
<1>1. Len(stream) \in Nat /\ stream \in Seq(Piece) /\ \A i \in 1 .. Len(stream) : stream[i] \in Piece
  BY LenProperties, ElementOfSeq DEF TypeOK
<1>2. PICK k \in 1 .. Len(stream) : r = SubSeq(stream, 1, k)
  BY <1>1 DEF Reads
<1>3. /\ r \in Seq(Piece) /\ Len(r) = k /\ k \in Int
      /\ \A i \in 1 .. k : r[i] = stream[i]
  BY <1>1, <1>2, Split
<1>4. /\ left \in Seq(Piece) /\ Len(left) = Len(stream) - k
      /\ \A i \in 1 .. Len(stream) - k : left[i] = stream[k + i]
  <2>1. /\ SubSeq(stream, k + 1, Len(stream)) \in Seq(Piece)
        /\ Len(SubSeq(stream, k + 1, Len(stream))) =
             IF k + 1 <= Len(stream) THEN Len(stream) - (k + 1) + 1 ELSE 0
        /\ \A i \in 1 .. Len(stream) - (k + 1) + 1 :
             SubSeq(stream, k + 1, Len(stream))[i] = stream[k + 1 + i - 1]
    <3>1. \A i \in k + 1 .. Len(stream) : stream[i] \in Piece
      BY <1>1, <1>3
    <3>2. k + 1 \in Int /\ Len(stream) \in Int
      BY <1>1, <1>3
    <3> QED BY <3>1, <3>2, SubSeqProperties
  <2>2. left = SubSeq(stream, k + 1, Len(stream))
    BY <1>3
  <2>3. Len(left) = Len(stream) - k
    BY <1>1, <1>3, <2>1, <2>2
  <2>4. \A i \in 1 .. Len(stream) - k :
          i \in 1 .. Len(stream) - (k + 1) + 1 /\ k + 1 + i - 1 = k + i
    BY <1>1, <1>3
  <2> QED BY <2>1, <2>2, <2>3, <2>4
<1> HIDE DEF left
<1>5. r # <<>>
  BY <1>3, EmptySeq
<1>6. /\ \A i \in 1 .. Len(r) : i \in 1 .. Len(stream) /\ i <= k /\ r[i] = stream[i]
      /\ \A i \in 1 .. Len(left) : k + i \in 1 .. Len(stream) /\ k + i > k
                                  /\ left[i] = stream[k + i]
  BY <1>1, <1>3, <1>4
<1>7. StreamInv => Sorted(r) /\ NoLater(r, lineNo) /\ NoLater(left, lineNo)
  BY <1>6 DEF StreamInv, Sorted, NoLater
<1>8. StreamInv => Ahead(r, left)
  <2> SUFFICES ASSUME StreamInv, NEW i \in 1 .. Len(r), NEW j \in 1 .. Len(left)
               PROVE  Before(r[i], left[j])
    BY DEF Ahead
  <2>1. i < k + j
    BY <1>3, <1>6
  <2> QED BY <1>6, <2>1 DEF StreamInv, Sorted
<1>9. StreamInv => Sorted(left)
  <2> SUFFICES ASSUME StreamInv, NEW i \in 1 .. Len(left), NEW j \in 1 .. Len(left), i < j
               PROVE  Before(left[i], left[j])
    BY DEF Sorted
  <2>1. k + i < k + j
    BY <1>3
  <2> QED BY <1>6, <2>1 DEF StreamInv, Sorted
<1>10. \A s \in Seq(Piece) : Ahead(s, stream) => Ahead(s, r) /\ Ahead(s, left)
  BY <1>6 DEF Ahead
<1> QED BY <1>3, <1>4, <1>5, <1>7, <1>8, <1>9, <1>10 DEF left

(* A reply that is no echo, or none, as the pieces move on.                *)
LEMMA NoEcho ==
  ASSUME TypeOK, EchoInv, lineNo' = lineNo,
         said' = said \/ (\E m \in Reply : m.kind # "echo" /\ said' = Append(said, m)),
         \A i \in Echoes : Ahead(said[i].body, ebuf') /\ Ahead(said[i].body, stream')
  PROVE  EchoInv'
<1>1. /\ Len(said) \in Nat /\ DOMAIN said = 1 .. Len(said) /\ said \in Seq(Reply)
  BY LenProperties DEF TypeOK
<1>2. Echoes' = Echoes /\ \A i \in Echoes : said'[i] = said[i]
  <2>1. CASE said' = said
    BY <2>1 DEF Echoes
  <2>2. CASE \E m \in Reply : m.kind # "echo" /\ said' = Append(said, m)
    <3>1. PICK m \in Reply : m.kind # "echo" /\ said' = Append(said, m)
      BY <2>2
    <3>2. /\ DOMAIN said' = 1 .. Len(said) + 1 /\ said'[Len(said) + 1] = m
          /\ \A i \in 1 .. Len(said) : said'[i] = said[i]
      <4>1. said' \in Seq(Reply) /\ Len(said') = Len(said) + 1
        BY <1>1, <3>1, AppendProperties
      <4>2. DOMAIN said' = 1 .. Len(said')
        BY <4>1, LenProperties
      <4>3. \A i \in 1 .. Len(said) : Append(said, m)[i] = said[i]
        BY <1>1, AppendProperties
      <4>4. Append(said, m)[Len(said) + 1] = m
        BY <1>1, AppendProperties
      <4> QED BY <3>1, <4>1, <4>2, <4>3, <4>4
    <3>3. \A i \in DOMAIN said' : i \in DOMAIN said \/ i = Len(said) + 1
      BY <1>1, <3>2
    <3>4. ASSUME NEW i \in DOMAIN said'
          PROVE  said'[i].kind = "echo" <=> i \in DOMAIN said /\ said[i].kind = "echo"
      BY <1>1, <3>1, <3>2, <3>3
    <3>5. DOMAIN said \subseteq DOMAIN said'
      BY <1>1, <3>2
    <3> QED BY <1>1, <3>2, <3>4, <3>5 DEF Echoes
  <2> QED BY <2>1, <2>2
<1> QED BY <1>2 DEF EchoInv, Sorted, Ahead, NoLater

(* One echo more.                                                          *)
LEMMA OneEcho ==
  ASSUME TypeOK, EchoInv, lineNo' = lineNo,
         NEW b \in Seq(Piece), NEW pad \in BOOLEAN, b # <<>>,
         said' = Append(said, Echo(b, pad)),
         Sorted(b), NoLater(b, lineNo), Ahead(b, ebuf'), Ahead(b, stream'),
         \A i \in Echoes : /\ Ahead(said[i].body, ebuf') /\ Ahead(said[i].body, stream')
                           /\ Ahead(said[i].body, b)
  PROVE  EchoInv'
<1>1. /\ Len(said) \in Nat /\ DOMAIN said = 1 .. Len(said) /\ said \in Seq(Reply)
  BY LenProperties DEF TypeOK
<1> DEFINE new == Len(said) + 1
<1>2. Echo(b, pad) \in Reply /\ Echo(b, pad).kind = "echo" /\ Echo(b, pad).body = b
  BY DEF Reply, Echo
<1>3. /\ DOMAIN said' = 1 .. new /\ said'[new] = Echo(b, pad)
      /\ \A i \in 1 .. Len(said) : said'[i] = said[i]
  BY <1>1, <1>2, AppendProperties, LenProperties
<1>4. /\ Echoes' = Echoes \cup {new} /\ \A i \in Echoes : said'[i] = said[i] /\ i < new
      /\ said'[new].body = b
  BY <1>1, <1>2, <1>3 DEF Echoes
<1> HIDE DEF new
<1>5. ASSUME NEW i \in Echoes'
      PROVE  /\ said'[i].body \in Seq(Piece) /\ said'[i].body # <<>>
             /\ Sorted(said'[i].body) /\ NoLater(said'[i].body, lineNo')
             /\ Ahead(said'[i].body, ebuf') /\ Ahead(said'[i].body, stream')
  BY <1>4 DEF EchoInv, NoLater
<1>6. ASSUME NEW i \in Echoes', NEW j \in Echoes', i < j
      PROVE  Ahead(said'[i].body, said'[j].body)
  <2>1. i \in Echoes
    BY <1>1, <1>4, <1>6 DEF Echoes, new
  <2>2. CASE j \in Echoes
    BY <1>4, <1>6, <2>1, <2>2 DEF EchoInv
  <2>3. CASE j = new
    BY <1>4, <2>1, <2>3
  <2> QED BY <1>4, <2>2, <2>3
<1> QED BY <1>5, <1>6 DEF EchoInv, Sorted, Ahead, NoLater

LEMMA OrderInit == Init => OrderInv
<1>1. Len(<<>>) = 0 /\ DOMAIN <<>> = {}
  BY EmptySeq
<1> QED BY <1>1 DEF Init, OrderInv, StreamInv, PendingInv, EchoInv, Echoes, Sorted, Ahead, NoLater

LEMMA OrderPeer ==
  ASSUME TypeOK, OrderInv, PeerStep
  PROVE  OrderInv'
<1>1. CASE SendLine
  <2> DEFINE new == Pieces(lineNo + 1, Head(rest))
  <2>1. /\ rest \in Seq(Line) /\ rest # <<>> /\ stream \in Seq(Piece) /\ ebuf \in Seq(Piece)
        /\ lineNo \in Nat
    BY <1>1 DEF SendLine, TypeOK
  <2>2. Head(rest) \in Line
    BY <2>1, HeadTailProperties
  <2>3. new \in Seq(Piece) /\ Len(new) \in Nat
    <3>1. lineNo + 1 \in Nat
      BY <2>1
    <3> QED BY <2>2, <3>1, PiecesFacts, LenProperties
  <2>4. \A i \in 1 .. Len(new) : new[i].line = lineNo + 1 /\ new[i].part = i
    <3>1. lineNo + 1 \in Nat
      BY <2>1
    <3>2. Len(new) = Len(Head(rest))
      BY <2>2, <3>1, PiecesFacts
    <3> QED BY <3>2 DEF Pieces
  <2>5. stream' = stream \o new /\ lineNo' = lineNo + 1 /\ UNCHANGED <<said, ebuf>>
    BY <1>1 DEF SendLine, replyVars
  <2> HIDE DEF new
  <2>6. Sorted(new) /\ NoLater(new, lineNo')
    <3>1. NoLater(new, lineNo')
      BY <2>1, <2>4, <2>5 DEF NoLater
    <3>2. \A i, j \in 1 .. Len(new) : i < j => Before(new[i], new[j])
      BY ONLY <2>4 DEF Before
    <3> QED BY ONLY <3>1, <3>2 DEF Sorted
  <2>7. \A s \in Seq(Piece) : NoLater(s, lineNo) => Ahead(s, new) /\ NoLater(s, lineNo')
    <3> SUFFICES ASSUME NEW s \in Seq(Piece), NoLater(s, lineNo) PROVE Ahead(s, new) /\ NoLater(s, lineNo')
      OBVIOUS
    <3>1. \A i \in 1 .. Len(s) : s[i].line \in Nat /\ s[i].line <= lineNo
      <4>1. \A i \in 1 .. Len(s) : s[i] \in Piece
        BY ElementOfSeq
      <4> QED BY <4>1 DEF Piece, NoLater
    <3>2. \A i \in 1 .. Len(s) : s[i].line < lineNo + 1 /\ s[i].line <= lineNo + 1
      BY <2>1, <3>1
    <3> QED BY <2>4, <2>5, <3>2 DEF Ahead, NoLater, Before
  <2>8. NoLater(stream, lineNo)
    BY DEF OrderInv, StreamInv
  <2>9. StreamInv'
    <3>1. Sorted(stream \o new)
      BY <2>1, <2>3, <2>6, <2>7, <2>8, JoinOrder DEF OrderInv, StreamInv
    <3>2. NoLater(stream \o new, lineNo')
      BY <2>1, <2>3, <2>6, <2>7, <2>8, JoinOrder
    <3> QED BY <2>5, <3>1, <3>2 DEF StreamInv
  <2>10. PendingInv'
    <3>1. Ahead(ebuf, stream \o new)
      BY <2>1, <2>3, <2>7, JoinOrder DEF OrderInv, PendingInv
    <3>2. NoLater(ebuf, lineNo')
      BY <2>1, <2>7 DEF OrderInv, PendingInv
    <3> QED BY <2>5, <3>1, <3>2 DEF OrderInv, PendingInv
  <2>11. EchoInv'
    <3>1. Echoes' = Echoes
      BY <2>5 DEF Echoes
    <3>2. ASSUME NEW i \in Echoes
          PROVE  Ahead(said[i].body, stream \o new) /\ NoLater(said[i].body, lineNo')
      <4>1. /\ said[i].body \in Seq(Piece) /\ NoLater(said[i].body, lineNo)
            /\ Ahead(said[i].body, stream)
        BY DEF OrderInv, EchoInv
      <4> QED BY <2>1, <2>3, <2>7, <4>1, JoinOrder
    <3> QED BY <2>5, <3>1, <3>2 DEF OrderInv, EchoInv
  <2> QED BY <2>9, <2>10, <2>11 DEF OrderInv
<1>2. CASE ReadReply \/ GetFile \/ Timeout \/ Close
  <2>1. UNCHANGED <<stream, said, ebuf, lineNo>>
    BY <1>2 DEF ReadReply, GetFile, Timeout, Close, sentVars, replyVars
  <2>2. StreamInv' /\ PendingInv'
    BY <2>1 DEF OrderInv, StreamInv, PendingInv
  <2>3. EchoInv'
    <3>1. Echoes' = Echoes
      BY <2>1 DEF Echoes
    <3> QED BY <2>1, <3>1 DEF OrderInv, EchoInv
  <2> QED BY <2>2, <2>3 DEF OrderInv
<1> QED BY <1>1, <1>2 DEF PeerStep

LEMMA OrderRead ==
  ASSUME TypeOK, OrderInv, NEW r \in Reads,
         \/ HandleE(r) \/ HandleComment(r) \/ HandleC(r) \/ HandleF(r)
         \/ HandleA(r) \/ HandleQ(r) \/ HandleOther(r)
  PROVE  OrderInv'
<1> DEFINE left == SubSeq(stream, Len(r) + 1, Len(stream))
<1>1. /\ r \in Seq(Piece) /\ r # <<>> /\ left \in Seq(Piece)
      /\ Sorted(r) /\ NoLater(r, lineNo) /\ Sorted(left) /\ NoLater(left, lineNo) /\ Ahead(r, left)
      /\ \A s \in Seq(Piece) : Ahead(s, stream) => Ahead(s, r) /\ Ahead(s, left)
  BY ReadOrder DEF OrderInv
<1>2. stream' = left /\ lineNo' = lineNo
  BY DEF HandleE, HandleComment, HandleC, HandleF, HandleA, HandleQ, HandleOther, Got,
     peerVars, sentVars
<1> HIDE DEF left
<1>3. /\ ebuf \in Seq(Piece) /\ Sorted(ebuf) /\ NoLater(ebuf, lineNo) /\ Ahead(ebuf, stream)
      /\ Ahead(ebuf, r) /\ Ahead(ebuf, left)
  BY <1>1 DEF OrderInv, PendingInv, TypeOK
<1>4. \A i \in Echoes : /\ Ahead(said[i].body, ebuf) /\ Ahead(said[i].body, r)
                        /\ Ahead(said[i].body, left) /\ said[i].body \in Seq(Piece)
  BY <1>1 DEF OrderInv, EchoInv
<1>5. StreamInv'
  BY <1>1, <1>2 DEF StreamInv, Sorted, NoLater
<1>6. Len(<<>>) = 0 /\ SrcPath \in Reply /\ SrcPath.kind # "echo"
  BY DEF Reply, SrcPath
<1>7. CASE HandleE(r)
  <2>1. ebuf' = r
    BY <1>7 DEF HandleE
  <2>2. PendingInv'
    BY <1>1, <1>2, <2>1 DEF PendingInv, Sorted, Ahead, NoLater
  <2>3. said' = said \/ (ebuf # <<>> /\ said' = Append(said, Echo(ebuf, TRUE)))
    BY <1>7 DEF HandleE, Write, replyVars
  <2>4. EchoInv'
    <3>1. CASE said' = said
      BY <1>2, <1>4, <2>1, <3>1, NoEcho DEF OrderInv
    <3>2. CASE ebuf # <<>> /\ said' = Append(said, Echo(ebuf, TRUE))
      BY <1>2, <1>3, <1>4, <2>1, <3>2, OneEcho DEF OrderInv
    <3> QED BY <2>3, <3>1, <3>2
  <2> QED BY <1>5, <2>2, <2>4 DEF OrderInv
<1>8. CASE HandleOther(r)
  <2>1. ebuf' = <<>>
    BY <1>8 DEF HandleOther
  <2>2. PendingInv'
    BY <1>6, <2>1 DEF PendingInv, Sorted, Ahead, NoLater
  <2>3. \A s \in Seq(Piece) : Ahead(s, ebuf')
    BY <1>6, <2>1 DEF Ahead
  <2>4. /\ ebuf \o r \in Seq(Piece) /\ Sorted(ebuf \o r) /\ NoLater(ebuf \o r, lineNo)
        /\ Ahead(ebuf \o r, left)
        /\ \A i \in Echoes : Ahead(said[i].body, ebuf \o r)
    BY <1>1, <1>3, <1>4, JoinOrder, ConcatProperties
  <2>5. ebuf \o r # <<>>
    BY <1>1, <1>3, ConcatProperties, EmptySeq, LenProperties
  <2>6. said' = said \/ said' = Append(said, Echo(ebuf \o r, FALSE))
    BY <1>8 DEF HandleOther, Write, replyVars
  <2>7. EchoInv'
    <3>1. CASE said' = said
      BY <1>2, <1>4, <2>3, <3>1, NoEcho DEF OrderInv
    <3>2. CASE said' = Append(said, Echo(ebuf \o r, FALSE))
      BY <1>2, <1>4, <2>3, <2>4, <2>5, <3>2, OneEcho DEF OrderInv
    <3> QED BY <2>6, <3>1, <3>2
  <2> QED BY <1>5, <2>2, <2>7 DEF OrderInv
<1>9. CASE HandleComment(r) \/ HandleC(r) \/ HandleF(r) \/ HandleA(r) \/ HandleQ(r)
  <2>1. ebuf' = ebuf
    BY <1>9 DEF HandleComment, HandleC, HandleF, HandleA, HandleQ
  <2>2. PendingInv'
    BY <1>2, <1>3, <2>1 DEF PendingInv, Sorted, Ahead, NoLater
  <2>3. said' = said \/ said' = Append(said, SrcPath)
    BY <1>9 DEF HandleComment, HandleC, HandleF, HandleA, HandleQ, Write, replyVars
  <2>4. EchoInv'
    BY <1>2, <1>4, <1>6, <2>1, <2>3, NoEcho DEF OrderInv
  <2> QED BY <1>5, <2>2, <2>4 DEF OrderInv
<1> QED BY <1>7, <1>8, <1>9

LEMMA OrderStep ==
  ASSUME TypeOK, OrderInv, [Next]_vars
  PROVE  OrderInv'
<1>1. CASE PeerStep
  BY <1>1, OrderPeer
<1>2. ASSUME NEW r \in Reads,
             \/ HandleE(r) \/ HandleComment(r) \/ HandleC(r) \/ HandleF(r)
             \/ HandleA(r) \/ HandleQ(r) \/ HandleOther(r)
      PROVE  OrderInv'
  BY <1>2, OrderRead
<1>3. CASE SendSize
  <2>1. FileSize \in Reply /\ FileSize.kind # "echo"
    BY DEF Reply, FileSize
  <2>2. /\ UNCHANGED <<stream, ebuf, lineNo>>
        /\ said' = said \/ said' = Append(said, FileSize)
    BY <1>3 DEF SendSize, StayInRead, Write, replyVars, peerVars, sentVars
  <2>3. EchoInv'
    BY <2>1, <2>2, NoEcho DEF OrderInv, EchoInv
  <2> QED BY <2>2, <2>3 DEF OrderInv, StreamInv, PendingInv, Sorted, Ahead, NoLater
<1>4. CASE Connect \/ FileNotFound \/ CopyFile \/ Eof \/ ReadError \/ UNCHANGED vars
  <2>1. UNCHANGED <<stream, said, ebuf, lineNo>>
    BY <1>4 DEF Connect, FileNotFound, CopyFile, Eof, ReadError, EndReading, StayInRead,
       vars, peerVars, sentVars, replyVars
  <2> QED BY <2>1 DEF OrderInv, StreamInv, PendingInv, EchoInv, Echoes, Sorted, Ahead, NoLater
<1> QED BY <1>1, <1>2, <1>3, <1>4 DEF Next, HandlerStep, Terminated

(* Whatever UNIX_TL sends, and however TCP cuts and joins it, no piece is  *)
(* echoed twice or ahead of an earlier one.                                *)
THEOREM EchoesNeverOvertake == Spec => []EchoesInOrder
<1>1. Init => TypeOK /\ OrderInv
  BY TypeInit, OrderInit
<1>2. TypeOK /\ OrderInv /\ [Next]_vars => (TypeOK /\ OrderInv)'
  BY TypeStep, OrderStep
<1>3. OrderInv => EchoesInOrder
  <2> SUFFICES ASSUME OrderInv PROVE EchoesInOrder
    OBVIOUS
  <2>1. \A i \in Echoes : /\ Len(said[i].body) \in Nat \ {0}
                          /\ DOMAIN said[i].body = 1 .. Len(said[i].body)
    BY LenProperties, EmptySeq DEF OrderInv, EchoInv
  <2>2. ASSUME NEW i \in Echoes, NEW k \in DOMAIN said[i].body,
               NEW m \in DOMAIN said[i].body, k < m
        PROVE  Before(said[i].body[k], said[i].body[m])
    <3>1. Sorted(said[i].body)
      BY DEF OrderInv, EchoInv
    <3> QED BY <2>1, <2>2, <3>1 DEF Sorted
  <2>3. ASSUME NEW i \in Echoes, NEW j \in Echoes, i < j
        PROVE  Before(said[i].body[Len(said[i].body)], said[j].body[1])
    <3>1. Ahead(said[i].body, said[j].body)
      BY <2>3 DEF OrderInv, EchoInv
    <3>2. /\ Len(said[i].body) \in 1 .. Len(said[i].body)
          /\ 1 \in 1 .. Len(said[j].body)
      BY <2>1
    <3> QED BY <3>1, <3>2 DEF Ahead
  <2> QED BY <2>2, <2>3 DEF EchoesInOrder
<1> QED BY <1>1, <1>2, <1>3, PTL DEF Spec

-----------------------------------------------------------------------------
(* Goodbye.                                                                *)

(* With the expected framing an order to stop is the last piece of the     *)
(* stream until the handler has heeded it.                                 *)
GoodbyeInv ==
  framing = "expected" =>
    /\ \A i \in DOMAIN rest : rest[i] \in ExpectedLine
    /\ Head(last) \in Stops /\ ~signalled =>
         stream # <<>> /\ stream[Len(stream)].letter = Head(last)

LEMMA GoodbyeInit == Init => GoodbyeInv
BY ScriptsAssumption DEF Init, GoodbyeInv, Stops

LEMMA GoodbyePeer ==
  ASSUME TypeOK, GoodbyeInv, PeerStep
  PROVE  GoodbyeInv'
<1>0. SUFFICES ASSUME framing = "expected", framing' = "expected" PROVE GoodbyeInv'
  BY DEF GoodbyeInv, PeerStep
<1>1. \A i \in DOMAIN Complaint : Complaint[i] \in ExpectedLine
  BY DEF Complaint, ExpectedLine, Letters
<1>2. CASE SendLine
  <2>1. rest \in Seq(Line) /\ rest # <<>> /\ stream \in Seq(Piece) /\ lineNo + 1 \in Nat
    BY <1>2 DEF SendLine, TypeOK
  <2>2. /\ Head(rest) \in Line /\ Head(rest) \in ExpectedLine
        /\ \A i \in DOMAIN Tail(rest) : Tail(rest)[i] \in ExpectedLine
    <3>1. /\ Head(rest) \in Line /\ Tail(rest) \in Seq(Line)
          /\ Len(Tail(rest)) = Len(rest) - 1 /\ Len(rest) \in Nat \ {0}
          /\ \A i \in 1 .. Len(Tail(rest)) : Tail(rest)[i] = rest[i + 1]
          /\ DOMAIN rest = 1 .. Len(rest) /\ DOMAIN Tail(rest) = 1 .. Len(Tail(rest))
      BY <2>1, HeadTailProperties, LenProperties, EmptySeq
    <3>2. Head(rest) = rest[1] /\ 1 \in DOMAIN rest
      BY <2>1, <3>1
    <3>3. \A i \in DOMAIN Tail(rest) : i + 1 \in DOMAIN rest
      BY <3>1
    <3> QED BY <1>0, <3>1, <3>2, <3>3 DEF GoodbyeInv
  <2> DEFINE l == Head(rest)
             new == Pieces(lineNo + 1, l)
  <2>3. /\ new \in Seq(Piece) /\ Len(new) = Len(l) /\ Len(l) \in Nat \ {0}
        /\ \A k \in 1 .. Len(l) : new[k].letter = l[k]
    BY <2>1, <2>2, PiecesFacts
  <2>4. Head(l) \in Stops => Len(l) = 1 /\ l[1] = Head(l)
    BY <2>2 DEF ExpectedLine, Stops
  <2>5. stream' = stream \o new /\ last' = l /\ rest' = Tail(rest)
    BY <1>2 DEF SendLine
  <2> HIDE DEF new, l
  <2>6. Head(l) \in Stops =>
          stream \o new # <<>> /\ (stream \o new)[Len(stream \o new)].letter = Head(l)
    <3> SUFFICES ASSUME Head(l) \in Stops
                 PROVE  stream \o new # <<>>
                        /\ (stream \o new)[Len(stream \o new)].letter = Head(l)
      OBVIOUS
    <3>1. Len(new) = 1 /\ new[1].letter = Head(l)
      BY <2>3, <2>4
    <3>2. /\ Len(stream) \in Nat /\ stream \o new \in Seq(Piece)
          /\ Len(stream \o new) = Len(stream) + Len(new)
          /\ \A i \in 1 .. Len(stream) + Len(new) :
               (stream \o new)[i] = IF i <= Len(stream) THEN stream[i]
                                                     ELSE new[i - Len(stream)]
      BY <2>1, <2>3, ConcatProperties, LenProperties
    <3>3. /\ Len(stream \o new) = Len(stream) + 1 /\ Len(stream \o new) # 0
          /\ Len(stream) + 1 \in 1 .. Len(stream) + Len(new)
          /\ ~(Len(stream) + 1 <= Len(stream)) /\ Len(stream) + 1 - Len(stream) = 1
      BY <3>1, <3>2
    <3> QED BY <3>1, <3>2, <3>3, EmptySeq
  <2> QED BY <2>2, <2>5, <2>6 DEF GoodbyeInv
<1>3. CASE ReadReply \/ GetFile \/ Timeout \/ Close
  <2>1. /\ UNCHANGED <<stream, last, signalled>>
        /\ rest' = rest \/ rest' = Complaint
    BY <1>3 DEF ReadReply, GetFile, Timeout, Close, sentVars
  <2> QED BY <1>0, <1>1, <2>1 DEF GoodbyeInv
<1> QED BY <1>2, <1>3 DEF PeerStep

(* With the expected framing a read returns one piece.                     *)
LEMMA OneRead ==
  ASSUME TypeOK, framing = "expected", NEW r \in Reads
  PROVE  /\ stream \in Seq(Piece) /\ Len(stream) \in Nat \ {0}
         /\ r = SubSeq(stream, 1, 1) /\ r \in Seq(Piece) /\ Len(r) = 1
         /\ r[1] = stream[1]
         /\ LET t == SubSeq(stream, Len(r) + 1, Len(stream))
            IN  /\ t \in Seq(Piece) /\ Len(t) = Len(stream) - 1
                /\ \A i \in 1 .. Len(t) : t[i] = stream[i + 1]
<1>1. stream \in Seq(Piece) /\ Len(stream) \in Nat
  BY LenProperties DEF TypeOK
<1>2. 1 \in 1 .. Len(stream) /\ r = SubSeq(stream, 1, 1)
  BY <1>1 DEF Reads
<1>3. /\ SubSeq(stream, 1, 1) \in Seq(Piece) /\ Len(SubSeq(stream, 1, 1)) = 1
      /\ \A i \in 1 .. 1 : SubSeq(stream, 1, 1)[i] = stream[i]
  BY <1>1, <1>2, Split
<1>4. \A i \in 1 .. Len(stream) : stream[i] \in Piece
  BY <1>1, ElementOfSeq
<1> DEFINE t == SubSeq(stream, 2, Len(stream))
<1>5. /\ t \in Seq(Piece)
      /\ Len(t) = IF 2 <= Len(stream) THEN Len(stream) - 2 + 1 ELSE 0
      /\ \A i \in 1 .. Len(stream) - 2 + 1 : t[i] = stream[2 + i - 1]
  <2>1. 2 \in Int /\ Len(stream) \in Int /\ \A i \in 2 .. Len(stream) : stream[i] \in Piece
    BY <1>1, <1>4
  <2> QED BY <2>1, SubSeqProperties
<1> HIDE DEF t
<1>6. Len(t) = Len(stream) - 1
  BY <1>1, <1>2, <1>5
<1>7. ASSUME NEW i \in 1 .. Len(t) PROVE t[i] = stream[i + 1]
  <2>1. i \in 1 .. Len(stream) - 2 + 1 /\ 2 + i - 1 = i + 1
    BY <1>1, <1>6
  <2> QED BY <1>5, <2>1
<1>8. Len(r) = 1 /\ t = SubSeq(stream, Len(r) + 1, Len(stream))
  BY <1>2, <1>3 DEF t
<1> QED BY <1>1, <1>2, <1>3, <1>5, <1>6, <1>7, <1>8

LEMMA GoodbyeRead ==
  ASSUME TypeOK, GoodbyeInv, UNCHANGED framing, NEW r \in Reads,
         \/ HandleE(r) \/ HandleComment(r) \/ HandleC(r) \/ HandleF(r)
         \/ HandleA(r) \/ HandleQ(r) \/ HandleOther(r)
  PROVE  GoodbyeInv'
<1>0. SUFFICES ASSUME framing = "expected" PROVE GoodbyeInv'
  BY DEF GoodbyeInv
<1>1. /\ stream \in Seq(Piece) /\ Len(stream) \in Nat \ {0}
      /\ r[1] = stream[1] /\ Len(r) = 1 /\ r \in Seq(Piece)
  BY <1>0, OneRead
<1>2. DOMAIN r = {1}
  <2>1. DOMAIN r = 1 .. Len(r)
    BY <1>1, LenProperties
  <2> QED BY <1>1, <2>1
<1>3. UNCHANGED peerVars /\ stream' = SubSeq(stream, Len(r) + 1, Len(stream))
  BY DEF HandleE, HandleComment, HandleC, HandleF, HandleA, HandleQ, HandleOther, Got
<1>4. /\ stream' \in Seq(Piece) /\ Len(stream') = Len(stream) - 1
      /\ \A i \in 1 .. Len(stream') : stream'[i] = stream[i + 1]
  BY <1>0, <1>3, OneRead
<1>5. CASE Len(stream) > 1
  <2>1. Len(stream') \in 1 .. Len(stream') /\ stream'[Len(stream')] = stream[Len(stream)]
    <3>1. Len(stream') \in 1 .. Len(stream') /\ Len(stream') + 1 = Len(stream)
      BY <1>1, <1>4, <1>5
    <3> QED BY <1>4, <3>1
  <2>2. stream' # <<>> /\ stream # <<>>
    BY <1>1, <1>4, <2>1, EmptySeq
  <2>3. signalled => signalled'
    BY DEF HandleE, HandleComment, HandleC, HandleF, HandleA, HandleQ, HandleOther
  <2> QED BY <1>0, <1>3, <2>1, <2>2, <2>3 DEF GoodbyeInv, peerVars, sentVars
<1>6. CASE Len(stream) = 1
  <2>1. Head(last) \in Stops /\ ~signalled => r[1].letter = Head(last)
    BY <1>0, <1>1, <1>6 DEF GoodbyeInv
  <2>2. r[1].letter \in Stops => signalled'
    <3>1. CASE HandleA(r)
      BY <3>1 DEF HandleA
    <3>2. CASE HandleComment(r)
      BY <1>2, <3>2 DEF HandleComment, Got, SaysGoodbye, Stops
    <3>3. CASE HandleE(r) \/ HandleC(r) \/ HandleF(r) \/ HandleQ(r) \/ HandleOther(r)
      BY <3>3 DEF HandleE, HandleC, HandleF, HandleQ, HandleOther, Got, Stops
    <3> QED BY <3>1, <3>2, <3>3
  <2>3. signalled => signalled'
    BY DEF HandleE, HandleComment, HandleC, HandleF, HandleA, HandleQ, HandleOther
  <2> QED BY <1>0, <1>3, <2>1, <2>2, <2>3 DEF GoodbyeInv, peerVars, sentVars
<1> QED BY <1>1, <1>5, <1>6

LEMMA GoodbyeStep ==
  ASSUME TypeOK, GoodbyeInv, [Next]_vars
  PROVE  GoodbyeInv'
<1>0. framing' = framing
  BY DEF Next, PeerStep, HandlerStep, Terminated, vars
<1>1. CASE PeerStep
  BY <1>1, GoodbyePeer
<1>2. ASSUME NEW r \in Reads,
             \/ HandleE(r) \/ HandleComment(r) \/ HandleC(r) \/ HandleF(r)
             \/ HandleA(r) \/ HandleQ(r) \/ HandleOther(r)
      PROVE  GoodbyeInv'
  BY <1>0, <1>2, GoodbyeRead
<1>3. CASE Connect \/ FileNotFound \/ SendSize \/ CopyFile \/ Eof \/ ReadError
           \/ UNCHANGED vars
  <2>1. UNCHANGED <<framing, peerVars, stream, signalled>>
    BY <1>0, <1>3 DEF Connect, FileNotFound, SendSize, CopyFile, Eof, ReadError,
       EndReading, StayInRead, vars
  <2> QED BY <2>1 DEF GoodbyeInv, peerVars, sentVars
<1> QED BY <1>1, <1>2, <1>3 DEF Next, HandlerStep, Terminated

(* With the expected framing, a handler that has read all it was sent has  *)
(* heeded an order to stop.                                                *)
THEOREM HeedsGoodbye == Spec => []GoodbyeHeeded
<1>1. Init => TypeOK /\ GoodbyeInv
  BY TypeInit, GoodbyeInit
<1>2. TypeOK /\ GoodbyeInv /\ [Next]_vars => (TypeOK /\ GoodbyeInv)'
  BY TypeStep, GoodbyeStep
<1>3. TypeOK /\ GoodbyeInv => GoodbyeHeeded
  BY DEF GoodbyeInv, GoodbyeHeeded, TypeOK
<1> QED BY <1>1, <1>2, <1>3, PTL DEF Spec
-----------------------------------------------------------------------------
(* Answers.                                                                *)

Asks(l) == Head(l) \in {"E", "C", "F"}

(* s is the end of st, and nothing but comments comes before it.           *)
Coming(st, s) ==
  /\ Len(s) <= Len(st)
  /\ \A i \in 1 .. Len(st) - Len(s) : st[i].letter = "#"
  /\ \A i \in 1 .. Len(s) : st[Len(st) - Len(s) + i] = s[i]

Heard == heard = Len(said)
Answered == Len(said) = heard + 1 /\ said[heard + 1] = Answer

(* How far the handler is with the line UNIX_TL waits for.                 *)
Unread == h = "read" /\ ebuf = <<>> /\ Heard /\ Coming(stream, Pieces(lineNo, last))
Half == /\ h = "read" /\ Head(last) = "E" /\ Heard
        /\ Len(ebuf) = 1 /\ Len(stream) = 1 /\ ebuf \o stream = Pieces(lineNo, last)
Fetching == /\ Head(last) = "F" /\ Heard /\ stream = <<>> /\ ebuf = <<>>
            /\ \/ h = "connect"
               \/ h = "open" /\ conn = "open"
               \/ h = "read" /\ leaked > 0
Done == /\ stream = <<>> /\ ebuf = <<>>
        /\ \/ h = "read" /\ (Head(last) = "F" => conn = "done")
           \/ h = "copy" /\ conn = "open" /\ Head(last) = "F"

Talking == peer = "talking" /\ Heard
           /\ (h = "ended" \/ (h = "read" /\ ebuf = <<>> /\ Coming(stream, <<>>)))
Waiting == /\ peer = "waiting" /\ last \in ExpectedLine /\ Asks(last)
           /\ \/ h = "ended" /\ (Heard \/ Answered)
              \/ Unread \/ Half \/ Fetching
              \/ Answered /\ Done
WaitingFile == peer = "waitFile" /\ Head(last) = "F" /\ Heard /\ (h = "ended" \/ Done)

(* Once UNIX_TL has complained or is closing it asks for nothing.          *)
GivenUp == \/ peer \in {"closing", "closed"}
           \/ peer = "talking" /\ \A i \in DOMAIN rest : ~Asks(rest[i])

(* The strengthening of AnswerRight and NoMutualWait.                      *)
AnswerInv == framing = "expected" => GivenUp \/ Talking \/ Waiting \/ WaitingFile

LEMMA AnswerInit == Init => AnswerInv
<1> SUFFICES ASSUME Init PROVE Talking
  BY DEF AnswerInv
<1>1. Len(<<>>) = 0
  BY EmptySeq
<1> QED BY <1>1 DEF Init, Talking, Heard, Coming

(* Where comments end, a line is coming; after a comment, a comment.       *)
LEMMA ComingAppend ==
  ASSUME NEW st \in Seq(Piece), NEW s \in Seq(Piece), Coming(st, <<>>)
  PROVE  /\ Coming(st \o s, s)
         /\ (\A i \in 1 .. Len(s) : s[i].letter = "#") => Coming(st \o s, <<>>)
<1>1. /\ Len(st) \in Nat /\ Len(s) \in Nat /\ Len(<<>>) = 0
      /\ Len(st \o s) = Len(st) + Len(s)
      /\ \A i \in 1 .. Len(st) : (st \o s)[i] = st[i]
      /\ \A i \in Len(st) + 1 .. Len(st) + Len(s) :
           i - Len(st) \in 1 .. Len(s) /\ (st \o s)[i] = s[i - Len(st)]
  BY JoinElements, EmptySeq
<1>2. \A i \in 1 .. Len(st) : st[i].letter = "#"
  BY <1>1 DEF Coming
<1>3. Coming(st \o s, s)
  <2>1. \A i \in 1 .. Len(s) : (st \o s)[Len(st \o s) - Len(s) + i] = s[i]
    <3> SUFFICES ASSUME NEW i \in 1 .. Len(s)
                 PROVE  (st \o s)[Len(st \o s) - Len(s) + i] = s[i]
      OBVIOUS
    <3>1. /\ Len(st \o s) - Len(s) + i = Len(st) + i
          /\ Len(st) + i \in Len(st) + 1 .. Len(st) + Len(s)
          /\ Len(st) + i - Len(st) = i
      BY <1>1
    <3> QED BY <1>1, <3>1
  <2>2. \A i \in 1 .. Len(st \o s) - Len(s) : (st \o s)[i].letter = "#"
    BY <1>1, <1>2
  <2> QED BY <1>1, <2>1, <2>2 DEF Coming
<1>4. ASSUME \A i \in 1 .. Len(s) : s[i].letter = "#"
      PROVE  Coming(st \o s, <<>>)
  <2>1. ASSUME NEW i \in 1 .. Len(st) + Len(s) PROVE (st \o s)[i].letter = "#"
    <3>1. CASE i \in 1 .. Len(st)
      BY <1>1, <1>2, <3>1
    <3>2. CASE i \in Len(st) + 1 .. Len(st) + Len(s)
      BY <1>1, <1>4, <3>2
    <3> QED BY <1>1, <3>1, <3>2
  <2> QED BY <1>1, <2>1 DEF Coming
<1> QED BY <1>3, <1>4

(* Reading one piece: a comment, if more than the line itself is there.    *)
LEMMA ComingRead ==
  ASSUME NEW st \in Seq(Piece), NEW t \in Seq(Piece), NEW s \in Seq(Piece),
         Coming(st, s), Len(st) > 0, Len(t) = Len(st) - 1,
         \A i \in 1 .. Len(t) : t[i] = st[i + 1]
  PROVE  /\ Len(st) > Len(s) => st[1].letter = "#" /\ Coming(t, s)
         /\ Len(st) = Len(s) => \A i \in 1 .. Len(s) : st[i] = s[i]
<1>1. Len(st) \in Nat \ {0} /\ Len(s) \in Nat /\ Len(s) <= Len(st)
  BY LenProperties DEF Coming
<1>2. ASSUME Len(st) > Len(s) PROVE st[1].letter = "#" /\ Coming(t, s)
  <2>1. \A i \in 1 .. Len(st) - Len(s) : st[i].letter = "#"
    BY DEF Coming
  <2>2. st[1].letter = "#"
    BY <1>1, <1>2, <2>1
  <2>3. \A i \in 1 .. Len(t) - Len(s) : t[i].letter = "#"
    <3> SUFFICES ASSUME NEW i \in 1 .. Len(t) - Len(s) PROVE t[i].letter = "#"
      OBVIOUS
    <3>1. i \in 1 .. Len(t) /\ i + 1 \in 1 .. Len(st) - Len(s)
      BY <1>1
    <3> QED BY <2>1, <3>1
  <2>4. \A i \in 1 .. Len(s) : t[Len(t) - Len(s) + i] = s[i]
    <3> SUFFICES ASSUME NEW i \in 1 .. Len(s) PROVE t[Len(t) - Len(s) + i] = s[i]
      OBVIOUS
    <3>1. /\ Len(t) - Len(s) + i \in 1 .. Len(t)
          /\ Len(t) - Len(s) + i + 1 = Len(st) - Len(s) + i
      BY <1>1, <1>2
    <3>2. st[Len(st) - Len(s) + i] = s[i]
      BY DEF Coming
    <3> QED BY <3>1, <3>2
  <2> QED BY <1>1, <1>2, <2>2, <2>3, <2>4 DEF Coming
<1>3. ASSUME Len(st) = Len(s) PROVE \A i \in 1 .. Len(s) : st[i] = s[i]
  <2> SUFFICES ASSUME NEW i \in 1 .. Len(s) PROVE st[i] = s[i]
    OBVIOUS
  <2>1. Len(st) - Len(s) + i = i /\ st[Len(st) - Len(s) + i] = s[i]
    BY <1>1, <1>3 DEF Coming
  <2> QED BY <2>1
<1> QED BY <1>2, <1>3

(* The connection is reset only by UNIX_TL's closing it.                   *)
ResetInv == broken => peer = "closed"

LEMMA ResetStep ==
  ASSUME ResetInv, [Next]_vars
  PROVE  ResetInv'
<1>1. CASE SendLine
  BY <1>1 DEF SendLine, replyVars, ResetInv
<1>2. CASE ReadReply
  BY <1>2 DEF ReadReply, replyVars, ResetInv
<1>3. CASE GetFile \/ Timeout \/ Close
  BY <1>3 DEF GetFile, Timeout, Close, replyVars, ResetInv
<1>4. ASSUME NEW r \in Reads,
             \/ HandleE(r) \/ HandleComment(r) \/ HandleC(r) \/ HandleF(r)
             \/ HandleA(r) \/ HandleQ(r) \/ HandleOther(r)
      PROVE  ResetInv'
  <2>1. peer' = peer
    BY <1>4 DEF HandleE, HandleComment, HandleC, HandleF, HandleA, HandleQ, HandleOther,
       Got, peerVars
  <2>2. \/ UNCHANGED replyVars
        \/ \E m, to : Write(m, to)
    BY <1>4 DEF HandleE, HandleComment, HandleC, HandleF, HandleA, HandleQ, HandleOther
  <2> QED BY <2>1, <2>2 DEF Write, replyVars, ResetInv
<1>5. CASE Connect \/ FileNotFound \/ CopyFile \/ Eof \/ ReadError
  BY <1>5 DEF Connect, FileNotFound, CopyFile, Eof, ReadError, EndReading, StayInRead,
     peerVars, replyVars, fileVars, ResetInv
<1>6. CASE SendSize
  BY <1>6 DEF SendSize, StayInRead, peerVars, Write, replyVars, ResetInv
<1>7. CASE UNCHANGED vars
  BY <1>7 DEF vars, peerVars, replyVars, ResetInv
<1> QED BY <1>1, <1>2, <1>3, <1>4, <1>5, <1>6, <1>7 DEF Next, PeerStep, HandlerStep, Terminated

(* A line that asks for a reply: a letter, or an E and its text.           *)
LEMMA AskingLine ==
  ASSUME NEW n \in Nat, NEW l \in Line, l \in ExpectedLine
  PROVE  /\ Pieces(n, l) \in Seq(Piece)
         /\ Head(l) = "E" => /\ Len(Pieces(n, l)) = 2
                             /\ Pieces(n, l)[1].letter = "E"
                             /\ Pieces(n, l)[2].letter = "text"
         /\ Head(l) # "E" => /\ Len(Pieces(n, l)) = 1
                             /\ Pieces(n, l)[1].letter = Head(l)
         /\ Head(l) \in {"E", "C", "F", "A", "Q", "#", "209"}
<1>1. /\ Pieces(n, l) \in Seq(Piece) /\ Len(Pieces(n, l)) = Len(l)
      /\ \A k \in 1 .. Len(l) : Pieces(n, l)[k].letter = l[k]
  BY PiecesFacts
<1>2. \/ l = <<"E", "text">>
      \/ \E x \in {"C", "F", "A", "Q", "#", "209"} : l = <<x>>
  BY DEF ExpectedLine, Letters
<1>3. CASE l = <<"E", "text">>
  <2>1. Len(l) = 2 /\ l[1] = "E" /\ l[2] = "text" /\ Head(l) = "E"
    BY <1>3
  <2> QED BY <1>1, <2>1
<1>4. ASSUME NEW x \in {"C", "F", "A", "Q", "#", "209"}, l = <<x>>
      PROVE  /\ Len(Pieces(n, l)) = 1 /\ Pieces(n, l)[1].letter = Head(l)
             /\ Head(l) = x /\ Head(l) # "E"
  <2>1. Len(l) = 1 /\ l[1] = x /\ Head(l) = x
    BY <1>4
  <2> QED BY <1>1, <2>1
<1> QED BY <1>1, <1>2, <1>3, <1>4

LEMMA AnswerSend ==
  ASSUME TypeOK, GoodbyeInv, framing = "expected", Talking, SendLine
  PROVE  (GivenUp \/ Talking \/ Waiting)'
<1>1. rest \in Seq(Line) /\ rest # <<>> /\ stream \in Seq(Piece) /\ lineNo + 1 \in Nat
  BY DEF SendLine, TypeOK
<1>2. Head(rest) \in Line /\ Head(rest) \in ExpectedLine
  <2>1. Head(rest) \in Line /\ Head(rest) = rest[1] /\ 1 \in DOMAIN rest
    BY <1>1, HeadTailProperties, LenProperties, EmptySeq
  <2> QED BY <2>1 DEF GoodbyeInv
<1> DEFINE l == Head(rest)
           new == Pieces(lineNo + 1, l)
<1>3. /\ stream' = stream \o new /\ last' = l /\ lineNo' = lineNo + 1
      /\ UNCHANGED <<heard, said, h, ebuf>>
      /\ peer' = CASE Head(l) \in {"E", "C", "F"} -> "waiting"
                   [] Head(l) \in {"A", "Q", "209"} -> "closing"
                   [] OTHER -> "talking"
  BY DEF SendLine, replyVars
<1>4. /\ new \in Seq(Piece)
      /\ Head(l) = "#" => Len(new) = 1 /\ new[1].letter = "#"
      /\ Head(l) \in {"E", "C", "F", "A", "Q", "#", "209"}
  BY <1>1, <1>2, AskingLine
<1>5. Heard' /\ Pieces(lineNo', last') = new
  BY <1>3 DEF Talking, Heard
<1> HIDE DEF new
<1>6. ASSUME Head(l) \in {"E", "C", "F"} PROVE Waiting'
  <2>1. peer' = "waiting" /\ last' \in ExpectedLine /\ Asks(last')
    BY <1>2, <1>3, <1>6 DEF Asks
  <2>2. CASE h = "ended"
    BY <1>3, <1>5, <2>1, <2>2 DEF Waiting
  <2>3. CASE h = "read" /\ ebuf = <<>> /\ Coming(stream, <<>>)
    <3>1. Coming(stream', Pieces(lineNo', last'))
      BY <1>1, <1>3, <1>4, <1>5, <2>3, ComingAppend
    <3>2. Unread'
      BY <1>3, <1>5, <2>3, <3>1 DEF Unread
    <3> QED BY <2>1, <3>2 DEF Waiting
  <2> QED BY <2>2, <2>3 DEF Talking
<1>7. ASSUME Head(l) \in {"A", "Q", "209"} PROVE GivenUp'
  BY <1>3, <1>7 DEF GivenUp
<1>8. ASSUME Head(l) = "#" PROVE Talking'
  <2>1. peer' = "talking"
    BY <1>3, <1>8
  <2>2. ASSUME Coming(stream, <<>>) PROVE Coming(stream', <<>>)
    <3>1. \A i \in 1 .. Len(new) : new[i].letter = "#"
      BY <1>4, <1>8
    <3>2. Coming(stream \o new, <<>>)
      BY <1>1, <1>4, <2>2, <3>1, ComingAppend
    <3> QED BY <1>3, <3>2
  <2> QED BY <1>3, <1>5, <2>1, <2>2 DEF Talking
<1> QED BY <1>4, <1>6, <1>7, <1>8

LEMMA AnswerPeer ==
  ASSUME TypeOK, GoodbyeInv, AnswerInv, PeerStep
  PROVE  AnswerInv'
<1> SUFFICES ASSUME framing = "expected"
             PROVE  (GivenUp \/ Talking \/ Waiting \/ WaitingFile)'
  BY DEF AnswerInv, PeerStep
<1>1. \A i \in DOMAIN Complaint : ~Asks(Complaint[i])
  BY DEF Complaint, Asks
<1>2. heard \in Nat /\ Len(said) \in Nat
  BY LenProperties DEF TypeOK
<1>3. CASE SendLine
  <2>1. CASE Talking
    BY <1>3, <2>1, AnswerSend
  <2>2. CASE GivenUp
    <3>1. rest \in Seq(Line) /\ rest # <<>>
      BY <1>3 DEF SendLine, TypeOK
    <3>2. /\ Tail(rest) \in Seq(Line) /\ Len(rest) \in Nat \ {0}
          /\ Len(Tail(rest)) = Len(rest) - 1
          /\ \A i \in 1 .. Len(Tail(rest)) : Tail(rest)[i] = rest[i + 1]
          /\ DOMAIN rest = 1 .. Len(rest) /\ DOMAIN Tail(rest) = 1 .. Len(Tail(rest))
          /\ Head(rest) = rest[1]
      BY <3>1, HeadTailProperties, LenProperties, EmptySeq
    <3>3. /\ ~Asks(Head(rest)) /\ \A i \in DOMAIN Tail(rest) : ~Asks(Tail(rest)[i])
      <4>1. \A i \in DOMAIN rest : ~Asks(rest[i])
        BY <1>3, <2>2 DEF GivenUp, SendLine
      <4>2. 1 \in DOMAIN rest /\ \A i \in DOMAIN Tail(rest) : i + 1 \in DOMAIN rest
        BY <3>2
      <4> QED BY <3>2, <4>1, <4>2
    <3>4. peer' \in {"closing", "talking"} /\ rest' = Tail(rest)
      BY <1>3, <3>3 DEF SendLine, Asks
    <3> QED BY <3>3, <3>4 DEF GivenUp
  <2> QED BY <1>3, <2>1, <2>2 DEF AnswerInv, SendLine, Waiting, WaitingFile
<1>4. CASE ReadReply
  <2>1. ~Heard
    BY <1>2, <1>4 DEF ReadReply, Heard
  <2>2. CASE GivenUp
    BY <1>4, <2>2 DEF ReadReply, GivenUp
  <2>3. CASE Waiting
    <3>1. Answered /\ (h = "ended" \/ Done) /\ Asks(last)
      BY <2>1, <2>3 DEF Waiting, Unread, Half, Fetching
    <3>2. said[heard + 1] = Answer
      BY <3>1 DEF Answered
    <3>3. /\ heard' = heard + 1 /\ UNCHANGED <<last, said, h, ebuf, stream, conn>>
          /\ peer' = IF Head(last) = "F" THEN "waitFile" ELSE "talking"
      BY <1>4, <2>3, <3>2 DEF ReadReply, Waiting, sentVars, replyVars, fileVars
    <3>4. Heard'
      BY <1>2, <3>1, <3>3 DEF Heard, Answered
    <3>5. Done => Done'
      BY <3>3 DEF Done
    <3>6. CASE Head(last) = "F"
      BY <3>1, <3>3, <3>4, <3>5, <3>6 DEF WaitingFile
    <3>7. CASE Head(last) # "F"
      <4>1. Coming(<<>>, <<>>)
        BY EmptySeq DEF Coming
      <4>2. Done => h = "read" /\ ebuf = <<>> /\ Coming(stream, <<>>)
        BY <3>7, <4>1 DEF Done
      <4> QED BY <3>1, <3>3, <3>4, <3>7, <4>2 DEF Talking
    <3> QED BY <3>6, <3>7
  <2> QED BY <2>1, <2>2, <2>3 DEF AnswerInv, Talking, WaitingFile
<1>5. CASE GetFile
  <2>1. WaitingFile /\ conn = "done"
    BY <1>5 DEF AnswerInv, GetFile, GivenUp, Talking, Waiting
  <2>2. h = "ended" \/ (h = "read" /\ ebuf = <<>> /\ stream = <<>>)
    BY <2>1 DEF WaitingFile, Done
  <2>3. Coming(<<>>, <<>>)
    BY EmptySeq DEF Coming
  <2>4. peer' = "talking" /\ UNCHANGED <<heard, said, h, ebuf, stream>>
    BY <1>5 DEF GetFile, replyVars
  <2>5. Talking'
    BY <2>1, <2>2, <2>3, <2>4 DEF Talking, WaitingFile, Heard
  <2> QED BY <2>5
<1>6. CASE Timeout \/ Close
  BY <1>1, <1>6 DEF Timeout, Close, GivenUp
<1> QED BY <1>3, <1>4, <1>5, <1>6 DEF PeerStep

(* What the process does with a comment.                                   *)
LEMMA CommentRead ==
  ASSUME NEW r, r[1].letter = "#",
         \/ HandleE(r) \/ HandleComment(r) \/ HandleC(r) \/ HandleF(r)
         \/ HandleA(r) \/ HandleQ(r) \/ HandleOther(r)
  PROVE  UNCHANGED <<replyVars, ebuf>> /\ (h' = "ended" \/ h' = "read")
BY DEF HandleE, HandleComment, HandleC, HandleF, HandleA, HandleQ, HandleOther, Got

LEMMA AnswerRead ==
  ASSUME TypeOK, ResetInv, AnswerInv, UNCHANGED framing, NEW r \in Reads,
         \/ HandleE(r) \/ HandleComment(r) \/ HandleC(r) \/ HandleF(r)
         \/ HandleA(r) \/ HandleQ(r) \/ HandleOther(r)
  PROVE  AnswerInv'
<1> SUFFICES ASSUME framing = "expected"
             PROVE  (GivenUp \/ Talking \/ Waiting \/ WaitingFile)'
  BY DEF AnswerInv
<1>1. /\ stream \in Seq(Piece) /\ Len(stream) \in Nat \ {0}
      /\ r = SubSeq(stream, 1, 1) /\ r \in Seq(Piece) /\ Len(r) = 1 /\ r[1] = stream[1]
  BY OneRead
<1>2. /\ h = "read" /\ UNCHANGED <<peerVars, heard>>
      /\ stream' = SubSeq(stream, Len(r) + 1, Len(stream))
  BY DEF HandleE, HandleComment, HandleC, HandleF, HandleA, HandleQ, HandleOther, Got
<1>3. /\ stream' \in Seq(Piece) /\ Len(stream') = Len(stream) - 1
      /\ \A i \in 1 .. Len(stream') : stream'[i] = stream[i + 1]
  BY <1>2, OneRead
<1>4. stream # <<>>
  BY <1>1, EmptySeq
<1>5. UNCHANGED <<rest, last, lineNo, peer>>
  BY <1>2 DEF peerVars, sentVars
<1>6. ASSUME r[1].letter = "#"
      PROVE  UNCHANGED <<said, ebuf>> /\ h' \in {"ended", "read"} /\ (Heard => Heard')
  BY <1>2, <1>6, CommentRead DEF replyVars, Heard
<1>7. CASE GivenUp
  BY <1>5, <1>7 DEF GivenUp
<1>8. CASE Talking
  <2>1. ebuf = <<>> /\ Coming(stream, <<>>) /\ <<>> \in Seq(Piece) /\ Len(<<>>) = 0
    BY <1>2, <1>8, EmptySeq DEF Talking
  <2>2. Len(stream) > 0 /\ Len(stream) > Len(<<>>)
    BY <1>1, <2>1
  <2>3. stream[1].letter = "#" /\ Coming(stream', <<>>)
    BY <1>1, <1>3, <2>1, <2>2, ComingRead
  <2> QED BY <1>1, <1>5, <1>6, <1>8, <2>1, <2>3 DEF Talking
<1>9. CASE Waiting
  <2> DEFINE p == Pieces(lineNo, last)
  <2>1. /\ p \in Seq(Piece)
        /\ Head(last) = "E" => /\ Len(p) = 2 /\ p[1].letter = "E" /\ p[2].letter = "text"
        /\ Head(last) # "E" => Len(p) = 1 /\ p[1].letter = Head(last)
    BY <1>9, AskingLine DEF TypeOK, Waiting
  <2>2. Head(last) \in {"E", "C", "F"} /\ last \in ExpectedLine
    BY <1>9 DEF Waiting, Asks
  <2>3. p' = p
    BY <1>5
  <2>4. Answer = CASE Head(last) = "E" -> Echo(p, FALSE)
                   [] Head(last) = "C" -> SrcPath
                   [] Head(last) = "F" -> FileSize
    BY DEF Answer
  <2>5. Answer' = Answer
    BY <1>5 DEF Answer
  <2> HIDE DEF p
  <2>6. Unread \/ Half
    BY <1>2, <1>4, <1>9 DEF Waiting, Fetching, Done
  <2>7. SUFFICES ASSUME TRUE
                 PROVE  (\/ h = "ended" /\ (Heard \/ Answered)
                         \/ Unread \/ Half \/ Fetching
                         \/ Answered /\ Done)'
    BY <1>5, <1>9 DEF Waiting, Asks
  <2>8. ASSUME NEW m, Answer = m, Heard, Write(m, "read")
        PROVE  \/ h' = "ended" /\ Heard'
               \/ h' = "read" /\ Answered'
    <3>1. ~broken
      BY <1>9 DEF ResetInv, Waiting
    <3>2. said' = Append(said, m) /\ h' = "read"
      BY <2>8, <3>1 DEF Write
    <3>3. /\ Len(Append(said, m)) = Len(said) + 1
          /\ Append(said, m)[Len(said) + 1] = m
      BY DEF TypeOK
    <3> QED BY <1>2, <2>5, <2>8, <3>2, <3>3 DEF Heard, Answered
  <2>9. ASSUME Len(stream) = 1 PROVE stream' = <<>>
    BY <1>3, <2>9, EmptySeq
  <2>10. CASE Unread /\ Len(stream) > Len(p)
    <3>0. Coming(stream, p) /\ Len(stream) > 0
      BY <1>1, <2>10 DEF Unread, p
    <3>1. stream[1].letter = "#" /\ Coming(stream', p)
      BY <1>1, <1>3, <2>1, <2>10, <3>0, ComingRead
    <3>2. \/ h' = "ended" /\ Heard'
          \/ h' = "read" /\ ebuf' = <<>> /\ Heard' /\ Coming(stream', p')
      BY <1>1, <1>6, <2>3, <2>10, <3>1 DEF Unread
    <3> QED BY <3>2 DEF Unread, p
  <2>11. CASE Unread /\ Len(stream) = Len(p)
    <3>0. Coming(stream, p) /\ Len(stream) > 0 /\ Heard /\ ebuf = <<>>
      BY <1>1, <2>11 DEF Unread, p
    <3>1. Heard /\ ebuf = <<>> /\ \A i \in 1 .. Len(p) : stream[i] = p[i]
      BY <1>1, <1>3, <2>1, <2>11, <3>0, ComingRead
    <3>2. r[1].letter = Head(last)
      <4>1. 1 \in 1 .. Len(p) /\ p[1].letter = Head(last)
        BY <2>1, <2>2
      <4> QED BY <1>1, <3>1, <4>1
    <3>3. CASE Head(last) = "C"
      <4>1. HandleC(r)
        BY <3>2, <3>3 DEF HandleE, HandleComment, HandleC, HandleF, HandleA, HandleQ,
           HandleOther, Got
      <4>2. Write(SrcPath, "read") /\ ebuf' = <<>>
        BY <3>1, <4>1 DEF HandleC
      <4>3. Answer = SrcPath /\ stream' = <<>>
        BY <2>1, <2>4, <2>9, <2>11, <3>3
      <4>4. (h' = "ended" /\ Heard') \/ (h' = "read" /\ Answered')
        BY <2>8, <3>1, <4>2, <4>3
      <4> QED BY <1>5, <3>3, <4>2, <4>3, <4>4 DEF Done
    <3>4. CASE Head(last) = "F"
      <4>1. HandleF(r)
        BY <3>2, <3>4 DEF HandleE, HandleComment, HandleC, HandleF, HandleA, HandleQ,
           HandleOther, Got
      <4>2. UNCHANGED <<said, ebuf>> /\ h' \in {"connect", "ended"}
        BY <4>1 DEF HandleF, replyVars
      <4>3. Heard' /\ stream' = <<>>
        BY <1>2, <2>1, <2>9, <2>11, <3>1, <3>4, <4>2 DEF Heard
      <4> QED BY <1>5, <3>1, <3>4, <4>2, <4>3 DEF Fetching
    <3>5. CASE Head(last) = "E"
      <4>1. HandleE(r)
        BY <3>2, <3>5 DEF HandleE, HandleComment, HandleC, HandleF, HandleA, HandleQ,
           HandleOther, Got
      <4>2. UNCHANGED <<said, h>> /\ ebuf' = r /\ Heard'
        BY <1>2, <3>1, <4>1 DEF HandleE, replyVars, Heard
      <4>3. Len(stream') = 1 /\ Len(p) = 2 /\ stream'[1] = p[2] /\ r[1] = p[1]
        <5>1. Len(p) = 2 /\ Len(stream) = 2
          BY <2>1, <2>11, <3>5
        <5>2. stream[1] = p[1] /\ stream[2] = p[2]
          BY <3>1, <5>1
        <5>3. stream'[1] = stream[2]
          BY <1>3, <5>1
        <5> QED BY <1>1, <1>3, <5>1, <5>2, <5>3
      <4>4. r \o stream' = p
        <5>1. /\ r \o stream' \in Seq(Piece) /\ Len(r \o stream') = 1 + 1
              /\ \A i \in 1 .. 1 : (r \o stream')[i] = r[i]
              /\ \A i \in 1 + 1 .. 1 + 1 : (r \o stream')[i] = stream'[i - 1]
          <6>1. r \in Seq(Piece) /\ stream' \in Seq(Piece) /\ Len(r) = 1 /\ Len(stream') = 1
            BY <1>1, <1>3, <4>3
          <6>2. /\ r \o stream' \in Seq(Piece) /\ Len(r \o stream') = Len(r) + Len(stream')
                /\ \A i \in 1 .. Len(r) : (r \o stream')[i] = r[i]
                /\ \A i \in Len(r) + 1 .. Len(r) + Len(stream') :
                     (r \o stream')[i] = stream'[i - Len(r)]
            BY ONLY <6>1, JoinElements
          <6> QED BY ONLY <6>1, <6>2
        <5> DEFINE q == r \o stream'
        <5>2. q[1] = p[1] /\ q[2] = p[2] /\ q \in Seq(Piece) /\ Len(q) = 2
          BY <4>3, <5>1
        <5> HIDE DEF q
        <5>3. ASSUME NEW i \in 1 .. Len(q) PROVE q[i] = p[i]
          <6>1. i = 1 \/ i = 2
            BY <5>2
          <6> QED BY <5>2, <6>1
        <5>4. q = p
          BY <2>1, <4>3, <5>2, <5>3, SeqEqual
        <5> QED BY <5>4 DEF q
      <4>5. Half'
        BY <1>1, <1>2, <1>5, <2>3, <3>5, <4>2, <4>3, <4>4 DEF Half, p
      <4> QED BY <4>5
    <3> QED BY <2>2, <3>3, <3>4, <3>5
  <2>12. CASE Half
    <3>1. /\ Head(last) = "E" /\ Heard /\ Len(ebuf) = 1 /\ Len(stream) = 1
          /\ ebuf \o stream = p /\ ebuf \in Seq(Piece)
      BY <2>12 DEF Half, p, TypeOK
    <3>2. r = stream
      <4>1. \A i \in 1 .. 1 : r[i] = stream[i]
        BY <1>1
      <4> QED BY <1>1, <3>1, <4>1, SeqEqual
    <3>3. r[1].letter = "text"
      <4>1. (ebuf \o stream)[2] = stream[1]
        <5>1. \A i \in Len(ebuf) + 1 .. Len(ebuf) + Len(stream) :
                (ebuf \o stream)[i] = stream[i - Len(ebuf)]
          <6>1. ebuf \in Seq(Piece) /\ stream \in Seq(Piece)
            BY <1>1, <3>1
          <6> QED BY ONLY <6>1, JoinElements
        <5>2. Len(ebuf) = 1 /\ Len(stream) = 1
          BY <3>1
        <5> QED BY ONLY <5>1, <5>2
      <4> QED BY <1>1, <2>1, <3>1, <4>1
    <3>4. HandleOther(r)
      BY <3>3 DEF HandleE, HandleComment, HandleC, HandleF, HandleA, HandleQ, HandleOther, Got
    <3>5. ebuf # <<>>
      <4>1. Len(ebuf) = 1 /\ Len(<<>>) = 0
        BY <3>1, EmptySeq
      <4> QED BY <4>1
    <3>6. Write(Echo(p, FALSE), "read") /\ ebuf' = <<>>
      BY <3>1, <3>2, <3>4, <3>5 DEF HandleOther
    <3>7. Answer = Echo(p, FALSE) /\ stream' = <<>>
      BY <2>4, <2>9, <3>1
    <3>8. (h' = "ended" /\ Heard') \/ (h' = "read" /\ Answered')
      BY <2>8, <3>1, <3>6, <3>7
    <3> QED BY <1>5, <3>1, <3>6, <3>7, <3>8 DEF Done
  <2>13. Unread => Len(p) <= Len(stream)
    BY DEF Unread, Coming, p
  <2>14. Len(p) \in Nat /\ Len(stream) \in Nat
    BY <1>1, <2>1, LenProperties
  <2> QED BY <2>6, <2>10, <2>11, <2>12, <2>13, <2>14
<1>10. CASE WaitingFile
  BY <1>2, <1>4, <1>10 DEF WaitingFile, Done
<1> QED BY <1>7, <1>8, <1>9, <1>10 DEF AnswerInv

LEMMA AnswerStep ==
  ASSUME TypeOK, ResetInv, GoodbyeInv, AnswerInv, [Next]_vars
  PROVE  AnswerInv'
<1>0. framing' = framing
  BY DEF Next, PeerStep, HandlerStep, Terminated, vars
<1>1. CASE PeerStep
  BY <1>1, AnswerPeer
<1>2. ASSUME NEW r \in Reads,
             \/ HandleE(r) \/ HandleComment(r) \/ HandleC(r) \/ HandleF(r)
             \/ HandleA(r) \/ HandleQ(r) \/ HandleOther(r)
      PROVE  AnswerInv'
  BY <1>0, <1>2, AnswerRead
<1>3. ASSUME UNCHANGED <<peerVars, stream, ebuf, heard>>, framing = "expected"
      PROVE  /\ GivenUp => GivenUp'
             /\ Answer' = Answer
             /\ UNCHANGED <<peer, last, lineNo, stream, ebuf, heard>>
  BY <1>3 DEF GivenUp, Answer, peerVars, sentVars
<1>4. CASE Connect \/ FileNotFound
  <2>1. /\ UNCHANGED <<peerVars, stream, ebuf, heard, said>>
        /\ \/ h = "connect" /\ h' = "open" /\ conn' = "open"
           \/ h = "connect" /\ h' = "ended"
           \/ h = "open" /\ h' = "read" /\ leaked' = leaked + 1
    BY <1>4 DEF Connect, FileNotFound, StayInRead, replyVars
  <2>2. leaked + 1 > 0
    BY DEF TypeOK
  <2> SUFFICES ASSUME framing = "expected"
               PROVE  (GivenUp \/ Talking \/ Waiting \/ WaitingFile)'
    BY <1>0 DEF AnswerInv
  <2>3. Waiting => Waiting'
    <3>1. Waiting => Fetching
      BY <2>1 DEF Waiting, Unread, Half, Done
    <3>2. Fetching => Fetching' \/ (h' = "ended" /\ Heard')
      BY <2>1, <2>2, <1>3 DEF Fetching, Heard
    <3> QED BY <1>3, <2>1, <3>1, <3>2 DEF Waiting
  <2>4. ~Talking /\ ~WaitingFile
    BY <2>1 DEF Talking, WaitingFile, Done
  <2> QED BY <1>0, <1>3, <2>1, <2>3, <2>4 DEF AnswerInv
<1>5. CASE SendSize
  <2>1. UNCHANGED <<peerVars, stream, ebuf, heard, conn>> /\ h = "open"
    BY <1>5 DEF SendSize, StayInRead
  <2>2. \/ h' = "copy" /\ said' = Append(said, FileSize)
        \/ peer = "closed"
    BY <1>5 DEF SendSize, Write, ResetInv
  <2> SUFFICES ASSUME framing = "expected"
               PROVE  (GivenUp \/ Talking \/ Waiting \/ WaitingFile)'
    BY <1>0 DEF AnswerInv
  <2>3. Waiting => Waiting'
    <3> SUFFICES ASSUME Waiting PROVE Waiting'
      OBVIOUS
    <3>1. Fetching /\ conn = "open"
      BY <2>1 DEF Waiting, Unread, Half, Done, Fetching
    <3>2. Len(said) + 1 = heard + 1 /\ Answer = FileSize
      BY <3>1 DEF Fetching, Heard, Answer
    <3>3. /\ Len(Append(said, FileSize)) = Len(said) + 1
          /\ Append(said, FileSize)[Len(said) + 1] = FileSize
      BY DEF TypeOK
    <3>4. Answered' /\ Done'
      <4>1. h' = "copy" /\ said' = Append(said, FileSize)
        BY <2>2 DEF Waiting
      <4>2. Answered'
        BY <1>3, <2>1, <3>2, <3>3, <4>1 DEF Answered
      <4>3. Done'
        BY <1>3, <2>1, <3>1, <4>1 DEF Done, Fetching
      <4> QED BY <4>2, <4>3
    <3> QED BY <1>3, <2>1, <3>4 DEF Waiting
  <2>4. ~Talking /\ ~WaitingFile
    BY <2>1 DEF Talking, WaitingFile, Done
  <2> QED BY <1>0, <1>3, <2>1, <2>3, <2>4 DEF AnswerInv
<1>6. CASE CopyFile
  <2>1. /\ UNCHANGED <<peerVars, stream, ebuf, heard, said>> /\ h = "copy"
        /\ h' = "ended" \/ (h' = "read" /\ conn' = "done")
    BY <1>6 DEF CopyFile, StayInRead, replyVars
  <2> SUFFICES ASSUME framing = "expected"
               PROVE  (GivenUp \/ Talking \/ Waiting \/ WaitingFile)'
    BY <1>0 DEF AnswerInv
  <2>2. Done => h' = "ended" \/ Done'
    BY <1>3, <2>1 DEF Done
  <2>3. (Heard => Heard') /\ (Answered => Answered')
    BY <1>3, <2>1 DEF Heard, Answered
  <2>4. (Waiting => Waiting') /\ (WaitingFile => WaitingFile')
    <3>1. Waiting => Answered /\ Done
      BY <2>1 DEF Waiting, Unread, Half, Fetching
    <3> QED BY <1>3, <2>1, <2>2, <2>3, <3>1 DEF Waiting, WaitingFile
  <2>5. ~Talking
    BY <2>1 DEF Talking
  <2> QED BY <1>0, <1>3, <2>1, <2>4, <2>5 DEF AnswerInv
<1>7. CASE Eof \/ ReadError
  <2>1. UNCHANGED <<peerVars, stream, ebuf, heard, said>> /\ h' = "ended"
    BY <1>7 DEF Eof, ReadError, EndReading, replyVars
  <2> SUFFICES ASSUME framing = "expected"
               PROVE  (GivenUp \/ Talking \/ Waiting \/ WaitingFile)'
    BY <1>0 DEF AnswerInv
  <2>2. (Heard => Heard') /\ (Answered => Answered')
    BY <1>3, <2>1 DEF Heard, Answered
  <2>3. (Talking => Talking') /\ (WaitingFile => WaitingFile')
    BY <1>3, <2>1, <2>2 DEF Talking, WaitingFile
  <2>4. Waiting => Waiting'
    <3>1. Waiting => Heard \/ Answered
      BY DEF Waiting, Unread, Half, Fetching
    <3> QED BY <1>3, <2>1, <2>2, <3>1 DEF Waiting
  <2> QED BY <1>0, <1>3, <2>1, <2>3, <2>4 DEF AnswerInv
<1>8. CASE UNCHANGED vars
  BY <1>8 DEF vars, peerVars, sentVars, replyVars, fileVars, AnswerInv, GivenUp, Talking, Waiting,
     WaitingFile, Heard, Answered, Answer, Unread, Half, Fetching, Done
<1> QED BY <1>1, <1>2, <1>4, <1>5, <1>6, <1>7, <1>8 DEF Next, HandlerStep, Terminated

LEMMA AnswerInvariant == Spec => [](TypeOK /\ ResetInv /\ GoodbyeInv /\ AnswerInv)
<1>1. Init => TypeOK /\ ResetInv /\ GoodbyeInv /\ AnswerInv
  BY TypeInit, GoodbyeInit, AnswerInit DEF Init, ResetInv
<1>2. TypeOK /\ ResetInv /\ GoodbyeInv /\ AnswerInv /\ [Next]_vars
        => (TypeOK /\ ResetInv /\ GoodbyeInv /\ AnswerInv)'
  BY TypeStep, ResetStep, GoodbyeStep, AnswerStep
<1> QED BY <1>1, <1>2, PTL DEF Spec

(* With the expected framing UNIX_TL never reads a wrong or a late answer. *)
THEOREM AnswersRight == Spec => []AnswerRight
<1>1. TypeOK /\ AnswerInv => AnswerRight
  <2> SUFFICES ASSUME TypeOK, AnswerInv, framing = "expected", peer = "waiting",
                      heard < Len(said)
               PROVE  said[heard + 1] = Answer
    BY DEF AnswerRight
  <2>1. Waiting /\ ~Heard
    <3>1. heard \in Nat /\ Len(said) \in Nat
      BY LenProperties DEF TypeOK
    <3>2. Waiting
      BY DEF AnswerInv, GivenUp, Talking, WaitingFile
    <3> QED BY <3>1, <3>2 DEF Heard
  <2> QED BY <2>1 DEF Waiting, Unread, Half, Fetching, Answered
<1> QED BY <1>1, AnswerInvariant, PTL

(* With the expected framing UNIX_TL and the handler never wait for each   *)
(* other, unless a file cannot be opened.                                  *)
THEOREM NobodyWaits == Spec => []NoMutualWait
<1>1. TypeOK /\ AnswerInv => NoMutualWait
  <2> SUFFICES ASSUME TypeOK, AnswerInv, framing = "expected", WaitForEachOther
               PROVE  Head(last) = "F" /\ leaked > 0
    BY DEF NoMutualWait
  <2>1. h = "read" /\ stream = <<>> /\ peer \in {"waiting", "waitFile"} /\ Heard
        /\ (peer = "waitFile" => conn # "done")
    BY DEF WaitForEachOther, Heard
  <2>2. ~WaitingFile
    BY <2>1 DEF WaitingFile, Done
  <2>3. Waiting
    BY <2>1, <2>2 DEF AnswerInv, GivenUp, Talking
  <2>4. ~Answered
    BY <2>1, LenProperties DEF Heard, Answered, TypeOK
  <2>5. ~Half
    BY <2>1, EmptySeq DEF Half
  <2>6. ~Unread
    <3>1. /\ Pieces(lineNo, last) \in Seq(Piece)
          /\ Len(Pieces(lineNo, last)) \in {1, 2} /\ Len(<<>>) = 0
      <4>1. lineNo \in Nat /\ last \in Line /\ last \in ExpectedLine
        BY <2>3 DEF Waiting, TypeOK
      <4> QED BY ONLY <4>1, AskingLine, EmptySeq
    <3>2. Unread => Len(Pieces(lineNo, last)) <= Len(stream)
      BY DEF Unread, Coming
    <3> QED BY <2>1, <3>1, <3>2
  <2> QED BY <2>1, <2>3, <2>4, <2>5, <2>6 DEF Waiting, Fetching
<1> QED BY <1>1, AnswerInvariant, PTL

-----------------------------------------------------------------------------
(* Requests.  With the expected framing at most one request is on its way  *)
(* to the handler or in its hands, also after UNIX_TL has given up; the    *)
(* other pieces are comments and orders to stop.                           *)

CalmPiece(p) == p.letter \notin {"E", "C", "F", "text"}
Calm(st) == \A i \in 1 .. Len(st) : CalmPiece(st[i])

EchoLine(p, t) == /\ p.letter = "E" /\ t.letter = "text"
                  /\ <<p, t>> = Pieces(p.line, <<"E", "text">>)

(* The only request in st starts with its q-th piece.                      *)
OneAt(st, q) ==
  /\ \A i \in 1 .. Len(st) : i < q => CalmPiece(st[i])
  /\ \/ /\ st[q].letter \in {"C", "F"}
        /\ \A i \in 1 .. Len(st) : i > q => CalmPiece(st[i])
     \/ /\ q + 1 <= Len(st) /\ EchoLine(st[q], st[q + 1])
        /\ \A i \in 1 .. Len(st) : i > q + 1 => CalmPiece(st[i])

(* The handler keeps the E of the only request.                            *)
Kept(eb, st) == /\ Len(eb) = 1 /\ Len(st) > 0 /\ EchoLine(eb[1], st[1])
                /\ \A i \in 1 .. Len(st) : i > 1 => CalmPiece(st[i])

Idle == ebuf = <<>> /\ Calm(stream)
Request(a) == \E q \in 1 .. Len(stream) : OneAt(stream, q) /\ a = AnswerTo(stream[q])

(* The handler has to give the answer a.                                   *)
Duty(a) == \/ h = "ended" /\ a = Nothing
           \/ h \in {"read", "copy"} /\ Idle /\ a = Nothing
           \/ h \in {"connect", "open"} /\ Idle /\ a = FileSize
           \/ h = "read" /\ ebuf = <<>> /\ Request(a)
           \/ h = "read" /\ Kept(ebuf, stream) /\ a = AnswerTo(ebuf[1])

DutyInv == framing = "expected" => \E a : Duty(a)

LEMMA DutyOwed ==
  ASSUME TypeOK, framing = "expected", NEW a, Duty(a)
  PROVE  Owed = a
<1>1. DOMAIN stream = 1 .. Len(stream) /\ Len(stream) \in Nat /\ Len(<<>>) = 0
  BY LenProperties, EmptySeq DEF TypeOK
<1>2. CASE h \in {"ended", "copy", "connect", "open"}
  BY <1>2 DEF Duty, Owed
<1>3. CASE h = "read" /\ Idle /\ a = Nothing
  <2>1. Questions = {}
    BY <1>1, <1>3 DEF Idle, Calm, CalmPiece, Questions
  <2> QED BY <1>3, <2>1 DEF Owed, Idle
<1>4. CASE h = "read" /\ ebuf = <<>> /\ Request(a)
  <2>1. PICK q \in 1 .. Len(stream) : OneAt(stream, q) /\ a = AnswerTo(stream[q])
    BY <1>4 DEF Request
  <2>2. stream[q].letter \in {"E", "C", "F"}
    BY <2>1 DEF OneAt, EchoLine
  <2>3. ASSUME NEW i \in 1 .. Len(stream), i # q PROVE stream[i].letter \notin {"E", "C", "F"}
    <3>1. CASE i < q
      BY <2>1, <3>1 DEF OneAt, CalmPiece
    <3>2. CASE i > q
      <4>1. i = q + 1 \/ i > q + 1
        BY <3>2
      <4> QED BY <2>1, <3>2, <4>1 DEF OneAt, CalmPiece, EchoLine
    <3> QED BY <2>3, <3>1, <3>2
  <2>4. Questions = {q}
    BY <1>1, <2>2, <2>3 DEF Questions
  <2>5. Questions # {} /\ (CHOOSE i \in Questions : TRUE) = q
    BY <2>4
  <2> QED BY <1>4, <2>1, <2>5 DEF Owed
<1>5. CASE h = "read" /\ Kept(ebuf, stream) /\ a = AnswerTo(ebuf[1])
  <2>1. ebuf # <<>>
    BY <1>1, <1>5 DEF Kept
  <2> QED BY <1>5, <2>1 DEF Owed
<1> QED BY <1>2, <1>3, <1>4, <1>5 DEF Duty

OwedIsDuty == TypeOK /\ framing = "expected" => \A a : Duty(a) => Owed = a

LEMMA OwedNow == OwedIsDuty
BY DutyOwed DEF OwedIsDuty

(* What a read leaves of a stream.                                         *)
LEMMA TailCalm ==
  ASSUME NEW st \in Seq(Piece), NEW t \in Seq(Piece), Len(st) > 0, Len(t) = Len(st) - 1,
         \A i \in 1 .. Len(t) : t[i] = st[i + 1], Calm(st)
  PROVE  CalmPiece(st[1]) /\ Calm(t)
<1>1. Len(st) \in Nat
  BY LenProperties
<1>2. ASSUME NEW i \in 1 .. Len(t) PROVE CalmPiece(t[i])
  <2>1. i + 1 \in 1 .. Len(st) /\ t[i] = st[i + 1]
    BY <1>1
  <2> QED BY <2>1 DEF Calm
<1>3. 1 \in 1 .. Len(st)
  BY <1>1
<1> QED BY <1>2, <1>3 DEF Calm

LEMMA TailOne ==
  ASSUME NEW st \in Seq(Piece), NEW t \in Seq(Piece), Len(st) > 0, Len(t) = Len(st) - 1,
         \A i \in 1 .. Len(t) : t[i] = st[i + 1], NEW q \in 1 .. Len(st), OneAt(st, q)
  PROVE  \/ q = 1 /\ st[1].letter \in {"C", "F"} /\ Calm(t)
         \/ /\ q = 1 /\ Len(t) > 0 /\ EchoLine(st[1], t[1])
            /\ \A i \in 1 .. Len(t) : i > 1 => CalmPiece(t[i])
         \/ /\ CalmPiece(st[1])
            /\ \E k \in 1 .. Len(t) : OneAt(t, k) /\ t[k] = st[q]
<1>1. Len(st) \in Nat /\ Len(t) \in Nat /\ Len(t) = Len(st) - 1 /\ q \in Nat /\ q <= Len(st)
  BY LenProperties
<1>2. ASSUME NEW i \in 1 .. Len(t) PROVE i + 1 \in 1 .. Len(st) /\ t[i] = st[i + 1]
  BY <1>1
<1>3. CASE q = 1 /\ st[1].letter \in {"C", "F"}
  <2>1. ASSUME NEW i \in 1 .. Len(t) PROVE CalmPiece(t[i])
    <3>1. i + 1 \in 1 .. Len(st) /\ t[i] = st[i + 1] /\ i + 1 > q
      BY <1>2, <1>3
    <3>2. st[q].letter # "E"
      BY <1>3
    <3> QED BY <3>1, <3>2 DEF OneAt, EchoLine
  <2> QED BY <1>3, <2>1 DEF Calm
<1>4. CASE q = 1 /\ st[1].letter \notin {"C", "F"}
  <2>1. /\ 2 <= Len(st) /\ EchoLine(st[1], st[2])
        /\ \A i \in 1 .. Len(st) : i > 2 => CalmPiece(st[i])
    <3>1. q + 1 = 2
      BY <1>4
    <3> QED BY <1>4, <3>1 DEF OneAt
  <2>2. Len(t) > 0 /\ 1 \in 1 .. Len(t) /\ t[1] = st[2]
    <3>1. 1 \in 1 .. Len(t) /\ 1 + 1 = 2
      BY <1>1, <2>1
    <3> QED BY <1>1, <1>2, <3>1
  <2>3. ASSUME NEW i \in 1 .. Len(t), i > 1 PROVE CalmPiece(t[i])
    <3>1. i + 1 \in 1 .. Len(st) /\ t[i] = st[i + 1] /\ i + 1 > 2
      BY <1>2, <2>3
    <3> QED BY <2>1, <3>1
  <2> QED BY <1>4, <2>1, <2>2, <2>3
<1>5. CASE q # 1
  <2> DEFINE k == q - 1
  <2>1. k \in 1 .. Len(t) /\ k + 1 = q /\ k \in Nat /\ 1 < q /\ 1 \in 1 .. Len(st)
    BY <1>1, <1>5
  <2> HIDE DEF k
  <2>2. CalmPiece(st[1]) /\ t[k] = st[q]
    BY <1>2, <2>1 DEF OneAt
  <2>3. ASSUME NEW i \in 1 .. Len(t), i < k PROVE CalmPiece(t[i])
    <3>1. i + 1 \in 1 .. Len(st) /\ t[i] = st[i + 1] /\ i + 1 < q
      BY <1>2, <2>1, <2>3
    <3> QED BY <3>1 DEF OneAt
  <2>4. CASE st[q].letter \in {"C", "F"} /\ \A i \in 1 .. Len(st) : i > q => CalmPiece(st[i])
    <3>1. ASSUME NEW i \in 1 .. Len(t), i > k PROVE CalmPiece(t[i])
      <4>1. i + 1 \in 1 .. Len(st) /\ t[i] = st[i + 1] /\ i + 1 > q
        BY <1>2, <2>1, <3>1
      <4> QED BY <2>4, <4>1
    <3>2. OneAt(t, k)
      BY <2>2, <2>3, <2>4, <3>1 DEF OneAt
    <3> QED BY <2>1, <2>2, <3>2
  <2>5. CASE /\ q + 1 <= Len(st) /\ EchoLine(st[q], st[q + 1])
             /\ \A i \in 1 .. Len(st) : i > q + 1 => CalmPiece(st[i])
    <3>1. k + 1 <= Len(t) /\ t[k + 1] = st[q + 1]
      <4>1. k + 1 \in 1 .. Len(t) /\ (k + 1) + 1 = q + 1
        BY <1>1, <2>1, <2>5
      <4> QED BY <1>2, <4>1
    <3>2. ASSUME NEW i \in 1 .. Len(t), i > k + 1 PROVE CalmPiece(t[i])
      <4>1. i + 1 \in 1 .. Len(st) /\ t[i] = st[i + 1] /\ i + 1 > q + 1
        BY <1>2, <2>1, <3>2
      <4> QED BY <2>5, <4>1
    <3>3. OneAt(t, k)
      BY <2>2, <2>3, <2>5, <3>1, <3>2 DEF OneAt
    <3> QED BY <2>1, <2>2, <3>3
  <2> QED BY <2>4, <2>5 DEF OneAt
<1> QED BY <1>3, <1>4, <1>5

(* What a new line does to a stream.                                       *)
LEMMA AddCalm ==
  ASSUME NEW st \in Seq(Piece), NEW s \in Seq(Piece), Calm(s)
  PROVE  /\ Calm(st) => Calm(st \o s)
         /\ \A q \in 1 .. Len(st) : OneAt(st, q) => /\ OneAt(st \o s, q) /\ q \in 1 .. Len(st \o s)
                                                    /\ (st \o s)[q] = st[q]
         /\ \A eb : Kept(eb, st) => Kept(eb, st \o s)
<1> DEFINE u == st \o s
<1>1. /\ Len(st) \in Nat /\ Len(s) \in Nat /\ Len(u) = Len(st) + Len(s)
      /\ \A i \in 1 .. Len(st) : u[i] = st[i]
      /\ \A i \in Len(st) + 1 .. Len(st) + Len(s) :
           i - Len(st) \in 1 .. Len(s) /\ u[i] = s[i - Len(st)]
  BY JoinElements
<1> HIDE DEF u
<1>2. ASSUME NEW i \in 1 .. Len(u)
      PROVE  \/ i \in 1 .. Len(st) /\ u[i] = st[i]
             \/ i \notin 1 .. Len(st) /\ CalmPiece(u[i])
  <2>1. CASE i \in 1 .. Len(st)
    BY <1>1, <2>1
  <2>2. CASE i \in Len(st) + 1 .. Len(st) + Len(s)
    <3>1. i \notin 1 .. Len(st)
      BY <1>1, <2>2
    <3> QED BY <1>1, <2>2, <3>1 DEF Calm
  <2> QED BY <1>1, <2>1, <2>2
<1>3. ASSUME NEW i \in 1 .. Len(st) PROVE i \in 1 .. Len(u) /\ u[i] = st[i]
  BY <1>1
<1>4. Calm(st) => Calm(u)
  BY <1>2 DEF Calm
<1>5. ASSUME NEW q \in 1 .. Len(st), OneAt(st, q) PROVE OneAt(u, q)
  <2>1. u[q] = st[q] /\ \A i \in 1 .. Len(u) : i < q => CalmPiece(u[i])
    BY <1>2, <1>3, <1>5 DEF OneAt
  <2>2. CASE /\ st[q].letter \in {"C", "F"}
             /\ \A i \in 1 .. Len(st) : i > q => CalmPiece(st[i])
    <3>1. \A i \in 1 .. Len(u) : i > q => CalmPiece(u[i])
      BY <1>2, <2>2
    <3> QED BY <2>1, <2>2, <3>1 DEF OneAt
  <2>3. CASE /\ q + 1 <= Len(st) /\ EchoLine(st[q], st[q + 1])
             /\ \A i \in 1 .. Len(st) : i > q + 1 => CalmPiece(st[i])
    <3>1. \A i \in 1 .. Len(u) : i > q + 1 => CalmPiece(u[i])
      BY <1>2, <2>3
    <3>2. q + 1 \in 1 .. Len(st) /\ q + 1 <= Len(u)
      BY <1>1, <2>3
    <3>3. u[q + 1] = st[q + 1]
      BY <1>3, <3>2
    <3> QED BY <2>1, <2>3, <3>1, <3>2, <3>3 DEF OneAt
  <2> QED BY <1>5, <2>2, <2>3 DEF OneAt
<1>6. ASSUME NEW eb, Kept(eb, st) PROVE Kept(eb, u)
  <2>1. 1 \in 1 .. Len(st) /\ Len(u) > 0
    BY <1>1, <1>6 DEF Kept
  <2>2. u[1] = st[1]
    BY <1>3, <2>1
  <2>3. \A i \in 1 .. Len(u) : i > 1 => CalmPiece(u[i])
    BY <1>2, <1>6 DEF Kept
  <2> QED BY <1>6, <2>1, <2>2, <2>3 DEF Kept
<1> QED BY <1>3, <1>4, <1>5, <1>6 DEF u

LEMMA AddOne ==
  ASSUME NEW st \in Seq(Piece), NEW s \in Seq(Piece), Calm(st), Len(s) > 0, OneAt(s, 1)
  PROVE  \E q \in 1 .. Len(st \o s) : OneAt(st \o s, q) /\ (st \o s)[q] = s[1]
<1> DEFINE u == st \o s
           n == Len(st)
           q == n + 1
<1>1. /\ n \in Nat /\ Len(s) \in Nat /\ Len(u) = n + Len(s)
      /\ \A i \in 1 .. n : u[i] = st[i]
      /\ \A i \in n + 1 .. n + Len(s) : i - n \in 1 .. Len(s) /\ u[i] = s[i - n]
  BY JoinElements
<1> HIDE DEF u
<1>2. q \in 1 .. Len(u) /\ q \in n + 1 .. n + Len(s) /\ q - n = 1
  BY <1>1
<1>3. u[q] = s[1]
  BY <1>1, <1>2
<1>4. ASSUME NEW i \in 1 .. Len(u), i < q PROVE CalmPiece(u[i])
  <2>1. i \in 1 .. n
    BY <1>1, <1>4
  <2> QED BY <1>1, <2>1 DEF Calm
<1>5. ASSUME NEW i \in 1 .. Len(u), i > q
      PROVE  i - n \in 1 .. Len(s) /\ u[i] = s[i - n] /\ i - n > 1
  <2>1. i \in n + 1 .. n + Len(s) /\ i - n > 1
    BY <1>1, <1>5
  <2> QED BY <1>1, <2>1
<1>6. CASE s[1].letter \in {"C", "F"} /\ \A i \in 1 .. Len(s) : i > 1 => CalmPiece(s[i])
  <2>1. \A i \in 1 .. Len(u) : i > q => CalmPiece(u[i])
    BY <1>5, <1>6
  <2>2. OneAt(u, q)
    BY <1>3, <1>4, <1>6, <2>1 DEF OneAt
  <2> QED BY <1>2, <1>3, <2>2 DEF u
<1>7. CASE /\ 1 + 1 <= Len(s) /\ EchoLine(s[1], s[1 + 1])
           /\ \A i \in 1 .. Len(s) : i > 1 + 1 => CalmPiece(s[i])
  <2>1. q + 1 \in 1 .. Len(u) /\ q + 1 > q /\ (q + 1) - n = 1 + 1 /\ q + 1 <= Len(u)
    BY <1>1, <1>7
  <2>2. u[q + 1] = s[1 + 1]
    BY <1>5, <2>1
  <2>3. ASSUME NEW i \in 1 .. Len(u), i > q + 1 PROVE CalmPiece(u[i])
    <3>1. i > q /\ i - n > 1 + 1
      BY <1>1, <2>3
    <3> QED BY <1>5, <1>7, <3>1
  <2>4. OneAt(u, q)
    BY <1>3, <1>4, <1>7, <2>1, <2>2, <2>3 DEF OneAt
  <2> QED BY <1>2, <1>3, <2>4 DEF u
<1> QED BY <1>6, <1>7 DEF OneAt

(* Two pieces in a row.                                                    *)
LEMMA TwoPieces ==
  ASSUME NEW s \in Seq(Piece), Len(s) = 2
  PROVE  s = <<s[1], s[2]>>
<1>1. s[1] \in Piece /\ s[2] \in Piece
  <2>1. 1 \in 1 .. Len(s) /\ 2 \in 1 .. Len(s)
    OBVIOUS
  <2> QED BY <2>1, ElementOfSeq
<1>2. <<s[1], s[2]>> \in Seq(Piece) /\ Len(<<s[1], s[2]>>) = 2
  BY <1>1
<1>3. ASSUME NEW i \in 1 .. 2 PROVE s[i] = <<s[1], s[2]>>[i]
  <2>1. i = 1 \/ i = 2
    OBVIOUS
  <2> QED BY <2>1
<1> QED BY <1>2, <1>3, SeqEqual

LEMMA JoinedPieces ==
  ASSUME NEW s \in Seq(Piece), NEW t \in Seq(Piece), Len(s) = 1, Len(t) = 1
  PROVE  s \o t = <<s[1], t[1]>>
<1> DEFINE u == s \o t
<1>1. /\ u \in Seq(Piece) /\ Len(u) = Len(s) + Len(t)
      /\ \A i \in 1 .. Len(s) : u[i] = s[i]
      /\ \A i \in Len(s) + 1 .. Len(s) + Len(t) : u[i] = t[i - Len(s)]
  BY JoinElements, Zenon
<1> HIDE DEF u
<1>2. u \in Seq(Piece) /\ Len(u) = 2 /\ u[1] = s[1] /\ u[2] = t[1]
  <2>1. /\ 1 \in 1 .. Len(s) /\ 2 \in Len(s) + 1 .. Len(s) + Len(t)
        /\ 2 - Len(s) = 1 /\ Len(s) + Len(t) = 2
    OBVIOUS
  <2> QED BY <1>1, <2>1, Zenon
<1>3. u = <<u[1], u[2]>>
  BY <1>2, TwoPieces
<1> QED BY <1>2, <1>3 DEF u

(* A line is a request, which its answer answers, or calm.                 *)
LEMMA LineDuty ==
  ASSUME NEW n \in Nat, NEW l \in Line, l \in ExpectedLine, NEW new, new = Pieces(n, l)
  PROVE  /\ new \in Seq(Piece) /\ Len(new) > 0
         /\ ~Asks(l) => Calm(new)
         /\ Asks(l) => OneAt(new, 1)
         /\ Head(l) = "E" => AnswerTo(new[1]) = Echo(new, FALSE)
         /\ Head(l) = "C" => AnswerTo(new[1]) = SrcPath
         /\ Head(l) = "F" => AnswerTo(new[1]) = FileSize
<1>1. /\ new \in Seq(Piece)
      /\ Head(l) = "E" => Len(new) = 2 /\ new[1].letter = "E" /\ new[2].letter = "text"
      /\ Head(l) # "E" => Len(new) = 1 /\ new[1].letter = Head(l)
      /\ Head(l) \in {"E", "C", "F", "A", "Q", "#", "209"}
  BY AskingLine
<1>2. Head(l) = "E" => l = <<"E", "text">>
  BY DEF ExpectedLine
<1>3. ASSUME Head(l) = "E"
      PROVE  EchoLine(new[1], new[2]) /\ AnswerTo(new[1]) = Echo(new, FALSE)
  <2>1. new[1].line = n
    <3>1. 1 \in 1 .. Len(l)
      BY <1>2, <1>3
    <3> QED BY <3>1 DEF Pieces
  <2>2. new[1] \in Piece /\ new[2] \in Piece /\ Len(new) = 2
    <3>1. Len(new) = 2 /\ 1 \in 1 .. Len(new) /\ 2 \in 1 .. Len(new)
      BY <1>1, <1>3
    <3> QED BY <1>1, <3>1, ElementOfSeq
  <2>3. <<new[1], new[2]>> = new
    BY <1>1, <2>2, TwoPieces
  <2>4. new[1].letter = "E" /\ new[2].letter = "text"
    BY <1>1, <1>3
  <2>5. Pieces(new[1].line, <<"E", "text">>) = new
    BY <1>2, <1>3, <2>1
  <2> QED BY <2>3, <2>4, <2>5 DEF EchoLine, AnswerTo
<1>4. ~Asks(l) => Calm(new)
  <2> SUFFICES ASSUME ~Asks(l), NEW i \in 1 .. Len(new) PROVE CalmPiece(new[i])
    BY DEF Calm
  <2>1. i \in 1 .. Len(new) /\ ~Asks(l)
    OBVIOUS
  <2> QED BY ONLY <1>1, <2>1 DEF Asks, CalmPiece
<1>5. CASE Head(l) = "E"
  <2>1. OneAt(new, 1)
    <3>1. Len(new) = 2 /\ 1 + 1 = 2
      BY <1>1, <1>5
    <3>2. ASSUME NEW i \in 1 .. 2 PROVE i < 1 <=> FALSE
      OBVIOUS
    <3>3. ASSUME NEW i \in 1 .. 2 PROVE i > 1 + 1 <=> FALSE
      OBVIOUS
    <3>4. EchoLine(new[1], new[1 + 1])
      BY <1>3, <1>5, <3>1
    <3> QED BY ONLY <3>1, <3>2, <3>3, <3>4 DEF OneAt
  <2>2. Asks(l) /\ Len(new) > 0
    BY <1>1, <1>5 DEF Asks
  <2> QED BY <1>1, <1>3, <1>5, <2>1, <2>2
<1>6. CASE Head(l) \in {"C", "F"}
  <2>1. Len(new) = 1 /\ new[1].letter = Head(l)
    BY <1>1, <1>6
  <2>2. OneAt(new, 1)
    BY <1>6, <2>1 DEF OneAt
  <2>3. /\ Head(l) = "C" => AnswerTo(new[1]) = SrcPath
        /\ Head(l) = "F" => AnswerTo(new[1]) = FileSize
    BY <1>6, <2>1 DEF AnswerTo
  <2>4. Asks(l) /\ Head(l) # "E"
    BY <1>6 DEF Asks
  <2>5. Len(new) > 0
    BY ONLY <2>1
  <2> QED BY <1>1, <2>2, <2>3, <2>4, <2>5, Zenon
<1>7. CASE ~Asks(l)
  <2>1. Head(l) # "E" /\ Head(l) # "C" /\ Head(l) # "F"
    BY <1>7 DEF Asks
  <2>2. Len(new) > 0
    BY ONLY <1>1, <2>1
  <2> QED BY <1>1, <1>4, <1>7, <2>1, <2>2, Zenon
<1> QED BY <1>5, <1>6, <1>7 DEF Asks

(* What a step of the handler does about the answer a it has to give: it   *)
(* still has to, will not give it, or has given it.                        *)
Moved(a) == \/ Duty(a)' /\ said' = said
            \/ Duty(Nothing)' /\ said' = said
            \/ Duty(Nothing)' /\ said' = Append(said, a) /\ a # Nothing

LEMMA EndedDuty == ASSUME h' = "ended" PROVE Duty(Nothing)'
BY DEF Duty

LEMMA Answering ==
  ASSUME NEW a, a # Nothing, NEW to, to \in {"read", "copy"}, Write(a, to), Idle'
  PROVE  Moved(a)
<1>1. CASE said' = said /\ h' \in {"read", "ended"}
  <2>1. Duty(Nothing)'
    BY <1>1 DEF Duty
  <2> QED BY <1>1, <2>1 DEF Moved
<1>2. CASE said' = Append(said, a) /\ h' = to
  <2>1. Duty(Nothing)'
    BY <1>2 DEF Duty
  <2> QED BY <1>2, <2>1 DEF Moved
<1> QED BY <1>1, <1>2 DEF Write, replyVars

LEMMA AnswersDiffer ==
  /\ SrcPath # Nothing /\ FileSize # Nothing
  /\ \A b : Echo(b, FALSE) # Nothing
<1>1. Nothing.kind = "nothing" /\ SrcPath.kind = "path" /\ FileSize.kind = "size"
  BY DEF Nothing, SrcPath, FileSize
<1>2. \A b : Echo(b, FALSE).kind = "echo"
  BY DEF Echo
<1> QED BY <1>1, <1>2

LEMMA DutyRead ==
  ASSUME TypeOK, framing = "expected", NEW r \in Reads,
         \/ HandleE(r) \/ HandleComment(r) \/ HandleC(r) \/ HandleF(r)
         \/ HandleA(r) \/ HandleQ(r) \/ HandleOther(r),
         NEW a, Duty(a)
  PROVE  Moved(a)
<1>1. /\ stream \in Seq(Piece) /\ Len(stream) \in Nat \ {0}
      /\ r = SubSeq(stream, 1, 1) /\ r \in Seq(Piece) /\ Len(r) = 1 /\ r[1] = stream[1]
  BY OneRead
<1>2. h = "read" /\ stream' = SubSeq(stream, Len(r) + 1, Len(stream))
  BY DEF HandleE, HandleComment, HandleC, HandleF, HandleA, HandleQ, HandleOther, Got
<1>3. /\ stream' \in Seq(Piece) /\ Len(stream') = Len(stream) - 1
      /\ \A i \in 1 .. Len(stream') : stream'[i] = stream[i + 1]
  BY <1>2, OneRead
<1>4. Len(stream) > 0
  BY <1>1
<1>5. ASSUME CalmPiece(r[1])
      PROVE  said' = said /\ ebuf' = ebuf /\ (h' = "ended" \/ h' = "read")
  BY <1>2, <1>5 DEF HandleE, HandleComment, HandleC, HandleF, HandleA, HandleQ, HandleOther,
     Got, CalmPiece, replyVars
<1>6. CASE Idle /\ a = Nothing
  <2>1. CalmPiece(stream[1]) /\ Calm(stream')
    BY <1>1, <1>3, <1>4, <1>6, TailCalm DEF Idle
  <2>2. said' = said /\ Idle' /\ (h' = "ended" \/ h' = "read")
    BY <1>1, <1>5, <1>6, <2>1 DEF Idle
  <2>3. Duty(Nothing)'
    BY <2>2, EndedDuty DEF Duty
  <2> QED BY <2>2, <2>3 DEF Moved
<1>7. CASE ebuf = <<>> /\ Request(a)
  <2>1. PICK q \in 1 .. Len(stream) : OneAt(stream, q) /\ a = AnswerTo(stream[q])
    BY <1>7 DEF Request
  <2>2. CASE q = 1 /\ stream[1].letter \in {"C", "F"} /\ Calm(stream')
    <3>1. CASE stream[1].letter = "C"
      <4>1. HandleC(r)
        BY <1>1, <3>1 DEF HandleE, HandleComment, HandleC, HandleF, HandleA, HandleQ,
           HandleOther, Got
      <4>2. Write(SrcPath, "read") /\ ebuf' = ebuf
        BY <4>1 DEF HandleC
      <4>3. a = SrcPath /\ Idle'
        BY <1>7, <2>1, <2>2, <3>1, <4>2 DEF AnswerTo, Idle
      <4> QED BY <4>2, <4>3, Answering, AnswersDiffer
    <3>2. CASE stream[1].letter = "F"
      <4>1. HandleF(r)
        BY <1>1, <3>2 DEF HandleE, HandleComment, HandleC, HandleF, HandleA, HandleQ,
           HandleOther, Got
      <4>2. (h' = "connect" \/ h' = "ended") /\ ebuf' = ebuf /\ said' = said
        BY <4>1 DEF HandleF, replyVars
      <4>3. a = FileSize /\ Idle'
        BY <1>7, <2>1, <2>2, <3>2, <4>2 DEF AnswerTo, Idle
      <4>4. Duty(a)' \/ Duty(Nothing)'
        BY <4>2, <4>3, EndedDuty DEF Duty
      <4> QED BY <4>2, <4>4 DEF Moved
    <3> QED BY <2>2, <3>1, <3>2
  <2>3. CASE /\ q = 1 /\ Len(stream') > 0 /\ EchoLine(stream[1], stream'[1])
             /\ \A i \in 1 .. Len(stream') : i > 1 => CalmPiece(stream'[i])
    <3>1. HandleE(r)
      BY <1>1, <2>3 DEF HandleE, HandleComment, HandleC, HandleF, HandleA, HandleQ,
         HandleOther, Got, EchoLine
    <3>2. ebuf' = r /\ said' = said /\ h' = "read"
      BY <1>2, <1>7, <3>1 DEF HandleE, replyVars
    <3>3. Kept(r, stream') /\ a = AnswerTo(r[1])
      BY <1>1, <2>1, <2>3 DEF Kept
    <3>4. Duty(a)'
      BY <3>2, <3>3 DEF Duty
    <3> QED BY <3>2, <3>4 DEF Moved
  <2>4. CASE /\ CalmPiece(stream[1])
             /\ \E k \in 1 .. Len(stream') : OneAt(stream', k) /\ stream'[k] = stream[q]
    <3>1. said' = said /\ ebuf' = <<>> /\ (h' = "ended" \/ h' = "read")
      BY <1>1, <1>5, <1>7, <2>4
    <3>2. Request(a)'
      BY <2>1, <2>4 DEF Request
    <3>3. Duty(a)' \/ Duty(Nothing)'
      BY <3>1, <3>2, EndedDuty DEF Duty
    <3> QED BY <3>1, <3>3 DEF Moved
  <2>5. \/ q = 1 /\ stream[1].letter \in {"C", "F"} /\ Calm(stream')
        \/ /\ q = 1 /\ Len(stream') > 0 /\ EchoLine(stream[1], stream'[1])
           /\ \A i \in 1 .. Len(stream') : i > 1 => CalmPiece(stream'[i])
        \/ /\ CalmPiece(stream[1])
           /\ \E k \in 1 .. Len(stream') : OneAt(stream', k) /\ stream'[k] = stream[q]
    BY <1>1, <1>3, <1>4, <2>1, TailOne, Zenon
  <2> QED BY <2>2, <2>3, <2>4, <2>5, Zenon
<1>8. CASE Kept(ebuf, stream) /\ a = AnswerTo(ebuf[1])
  <2>1. /\ Len(ebuf) = 1 /\ EchoLine(ebuf[1], stream[1]) /\ ebuf \in Seq(Piece)
        /\ \A i \in 1 .. Len(stream) : i > 1 => CalmPiece(stream[i])
    BY <1>8 DEF Kept, TypeOK
  <2>2. HandleOther(r)
    BY <1>1, <2>1 DEF HandleE, HandleComment, HandleC, HandleF, HandleA, HandleQ,
       HandleOther, Got, EchoLine
  <2>3. ebuf # <<>>
    <3>1. Len(<<>>) # 1
      BY EmptySeq
    <3> QED BY <2>1, <3>1, Zenon
  <2>4. Write(Echo(ebuf \o r, FALSE), "read") /\ ebuf' = <<>>
    BY <2>2, <2>3 DEF HandleOther
  <2>5. ebuf \o r = <<ebuf[1], stream[1]>>
    BY <1>1, <2>1, JoinedPieces
  <2>6. a = Echo(ebuf \o r, FALSE)
    BY <1>8, <2>1, <2>5 DEF EchoLine, AnswerTo
  <2>7. Idle'
    <3>1. ASSUME NEW i \in 1 .. Len(stream') PROVE CalmPiece(stream'[i])
      <4>1. i + 1 \in 1 .. Len(stream) /\ i + 1 > 1 /\ stream'[i] = stream[i + 1]
        BY <1>1, <1>3
      <4> QED BY <2>1, <4>1
    <3> QED BY <2>4, <3>1 DEF Idle, Calm
  <2> QED BY <2>4, <2>6, <2>7, Answering, AnswersDiffer
<1> QED BY <1>2, <1>6, <1>7, <1>8 DEF Duty

(* A new line of UNIX_TL: another request only when there is none.         *)
LEMMA DutySend ==
  ASSUME TypeOK, GoodbyeInv, AnswerInv, framing = "expected", SendLine, NEW a, Duty(a)
  PROVE  /\ ~Asks(last') => Duty(a)'
         /\ Asks(last') => /\ a = Nothing /\ Heard
                           /\ Duty(Nothing)' \/ \E b : b = Answer' /\ Duty(b)'
<1>1. rest \in Seq(Line) /\ rest # <<>> /\ stream \in Seq(Piece) /\ lineNo + 1 \in Nat
  BY DEF SendLine, TypeOK
<1>2. /\ Head(rest) \in Line /\ Head(rest) \in ExpectedLine
      /\ \E i \in DOMAIN rest : Head(rest) = rest[i]
  <2>1. Head(rest) \in Line /\ Head(rest) = rest[1] /\ 1 \in DOMAIN rest
    BY <1>1, HeadTailProperties, LenProperties, EmptySeq
  <2> QED BY <2>1 DEF GoodbyeInv
<1> DEFINE l == Head(rest)
           new == Pieces(lineNo + 1, l)
<1>3. /\ stream' = stream \o new /\ last' = l /\ lineNo' = lineNo + 1
      /\ UNCHANGED <<h, ebuf>> /\ peer = "talking"
  BY DEF SendLine
<1>4. /\ new \in Seq(Piece) /\ Len(new) > 0
      /\ ~Asks(l) => Calm(new)
      /\ Asks(l) => OneAt(new, 1)
      /\ Head(l) = "E" => AnswerTo(new[1]) = Echo(new, FALSE)
      /\ Head(l) = "C" => AnswerTo(new[1]) = SrcPath
      /\ Head(l) = "F" => AnswerTo(new[1]) = FileSize
  BY <1>1, <1>2, LineDuty
<1>5. Asks(l) => AnswerTo(new[1]) = Answer'
  <2>1. /\ Head(l) = "E" => Answer' = Echo(new, FALSE)
        /\ Head(l) = "C" => Answer' = SrcPath
        /\ Head(l) = "F" => Answer' = FileSize
    BY <1>3 DEF Answer
  <2> QED BY <1>4, <2>1 DEF Asks
<1> HIDE DEF new, l
<1>6. ASSUME ~Asks(l) PROVE Duty(a)'
  <2>1. /\ Calm(stream) => Calm(stream')
        /\ \A q \in 1 .. Len(stream) :
             OneAt(stream, q) => /\ OneAt(stream', q) /\ q \in 1 .. Len(stream')
                                 /\ stream'[q] = stream[q]
        /\ \A eb : Kept(eb, stream) => Kept(eb, stream')
    BY <1>1, <1>3, <1>4, <1>6, AddCalm
  <2>2. Request(a) => Request(a)'
    BY <2>1 DEF Request
  <2>3. Idle => Idle'
    BY <1>3, <2>1 DEF Idle
  <2> QED BY <1>3, <2>1, <2>2, <2>3 DEF Duty
<1>7. ASSUME Asks(l)
      PROVE  a = Nothing /\ Heard /\ (Duty(Nothing)' \/ \E b : b = Answer' /\ Duty(b)')
  <2>1. ~GivenUp
    <3>1. ASSUME GivenUp PROVE ~Asks(l)
      BY <1>2, <1>3, <3>1 DEF GivenUp, l
    <3> QED BY <1>7, <3>1
  <2>2. Talking
    BY <1>3, <2>1 DEF AnswerInv, Waiting, WaitingFile
  <2>3. CASE h = "ended"
    <3>1. Duty(Nothing)' /\ a = Nothing
      BY <1>3, <2>3 DEF Duty
    <3> QED BY <2>2, <3>1 DEF Talking
  <2>4. CASE h = "read" /\ ebuf = <<>> /\ Coming(stream, <<>>)
    <3>1. Calm(stream)
      <4>1. Len(<<>>) = 0 /\ Len(stream) \in Nat
        BY <1>1, EmptySeq, LenProperties
      <4>2. Len(stream) - Len(<<>>) = Len(stream)
        BY <4>1
      <4> QED BY <2>4, <4>2 DEF Coming, Calm, CalmPiece
    <3>2. Duty(Nothing)
      BY <2>4, <3>1 DEF Duty, Idle
    <3>3. a = Nothing
      BY <3>2, DutyOwed
    <3>4. PICK q \in 1 .. Len(stream') : OneAt(stream', q) /\ stream'[q] = new[1]
      BY <1>1, <1>3, <1>4, <1>7, <3>1, AddOne
    <3>5. ASSUME NEW b, b = Answer' PROVE Duty(b)'
      <4>1. Request(b)'
        BY <1>5, <1>7, <3>4, <3>5 DEF Request
      <4> QED BY <1>3, <2>4, <4>1 DEF Duty
    <3> QED BY <2>2, <3>3, <3>5 DEF Talking
  <2> QED BY <2>2, <2>3, <2>4 DEF Talking
<1> QED BY <1>3, <1>6, <1>7

(* Every step of the handler.                                              *)
LEMMA DutyHandler ==
  ASSUME TypeOK, framing = "expected", HandlerStep, NEW a, Duty(a)
  PROVE  Moved(a) /\ UNCHANGED <<peerVars, heard>>
<1>1. ASSUME NEW r \in Reads,
             \/ HandleE(r) \/ HandleComment(r) \/ HandleC(r) \/ HandleF(r)
             \/ HandleA(r) \/ HandleQ(r) \/ HandleOther(r)
      PROVE  Moved(a) /\ UNCHANGED <<peerVars, heard>>
  <2>1. UNCHANGED <<peerVars, heard>>
    BY <1>1 DEF HandleE, HandleComment, HandleC, HandleF, HandleA, HandleQ, HandleOther, Got
  <2> QED BY <1>1, <2>1, DutyRead
<1>2. CASE Connect \/ FileNotFound
  <2>1. /\ UNCHANGED <<peerVars, heard, stream, ebuf, said>>
        /\ \/ h = "connect" /\ (h' = "open" \/ h' = "ended")
           \/ h = "open" /\ h' = "read"
    BY <1>2 DEF Connect, FileNotFound, StayInRead, replyVars
  <2>2. Idle' /\ a = FileSize
    BY <2>1 DEF Duty, Idle
  <2>3. Duty(a)' \/ Duty(Nothing)'
    BY <2>1, <2>2 DEF Duty
  <2> QED BY <2>1, <2>3 DEF Moved
<1>3. CASE SendSize
  <2>1. /\ UNCHANGED <<peerVars, heard, stream, ebuf>> /\ h = "open"
        /\ Write(FileSize, "copy")
    BY <1>3 DEF SendSize, StayInRead
  <2>2. Idle' /\ a = FileSize
    BY <2>1 DEF Duty, Idle
  <2> QED BY <2>1, <2>2, Answering, AnswersDiffer
<1>4. CASE CopyFile
  <2>1. /\ UNCHANGED <<peerVars, heard, stream, ebuf, said>> /\ h = "copy"
        /\ h' = "ended" \/ h' = "read"
    BY <1>4 DEF CopyFile, StayInRead, replyVars
  <2>2. Duty(Nothing)'
    BY <2>1 DEF Duty, Idle
  <2> QED BY <2>1, <2>2 DEF Moved
<1>5. CASE Eof \/ ReadError
  <2>1. UNCHANGED <<peerVars, heard, said>> /\ h' = "ended"
    BY <1>5 DEF Eof, ReadError, EndReading, replyVars
  <2> QED BY <2>1, EndedDuty DEF Moved
<1> QED BY <1>1, <1>2, <1>3, <1>4, <1>5 DEF HandlerStep

LEMMA DutyStep ==
  ASSUME TypeOK, ResetInv, GoodbyeInv, AnswerInv, DutyInv, [Next]_vars
  PROVE  DutyInv'
<1> SUFFICES ASSUME framing' = "expected" PROVE \E a : Duty(a)'
  BY DEF DutyInv
<1>1. framing = "expected"
  BY DEF Next, PeerStep, HandlerStep, Terminated, vars
<1>2. PICK a : Duty(a)
  BY <1>1 DEF DutyInv
<1>3. CASE SendLine
  BY <1>1, <1>2, <1>3, DutySend
<1>4. CASE HandlerStep
  BY <1>1, <1>2, <1>4, DutyHandler DEF Moved
<1>5. CASE ReadReply \/ GetFile \/ Timeout \/ Close \/ UNCHANGED vars
  <2>1. UNCHANGED <<h, ebuf, stream>>
    BY <1>5 DEF ReadReply, GetFile, Timeout, Close, vars
  <2>2. Duty(a)'
    BY <1>2, <2>1 DEF Duty, Idle, Request
  <2> QED BY <2>2
<1> QED BY <1>3, <1>4, <1>5 DEF Next, PeerStep, Terminated

LEMMA ServesStep ==
  ASSUME TypeOK, TypeOK', ResetInv, GoodbyeInv, AnswerInv, DutyInv, [Next]_vars
  PROVE  [R!Next]_R!vars
<1>0. framing' = framing
  BY DEF Next, PeerStep, HandlerStep, Terminated, vars
<1>1. CASE framing # "expected"
  <2>1. Asked = Nothing /\ Asked' = Nothing /\ Owed = Nothing /\ Owed' = Nothing
    BY <1>0, <1>1 DEF Asked, Owed
  <2> QED BY <1>0, <1>1, <2>1 DEF R!vars
<1>2. CASE framing = "expected"
  <2> DEFINE Given == IF framing = "expected" THEN said ELSE <<>>
             Read == IF framing = "expected" THEN heard ELSE 0
  <2>1. Given = said /\ Given' = said' /\ Read = heard /\ Read' = heard'
    BY <1>0, <1>2
  <2>2. PICK a : Duty(a)
    BY <1>2 DEF DutyInv
  <2>3. Owed = a
    BY <1>2, <2>2, DutyOwed
  <2>4. ASSUME NEW b, Duty(b)' PROVE Owed' = b
    <3>1. OwedIsDuty'
      BY OwedNow, PTL
    <3> QED BY <1>0, <1>2, <2>4, <3>1 DEF OwedIsDuty
  <2>5. /\ Asked = IF peer = "waiting" THEN Answer ELSE Nothing
        /\ Asked' = IF peer' = "waiting" THEN Answer' ELSE Nothing
    BY <1>0, <1>2 DEF Asked
  <2>6. peer = "waiting" => Waiting /\ Asked # Nothing
    <3>1. peer = "waiting" => Waiting
      BY <1>2 DEF AnswerInv, GivenUp, Talking, WaitingFile
    <3>2. Asks(last) => Answer # Nothing
      BY AnswersDiffer DEF Asks, Answer
    <3> QED BY <2>5, <3>1, <3>2 DEF Waiting
  <2>7. UNCHANGED <<h, ebuf, stream>> => Owed' = Owed
    <3>1. UNCHANGED <<h, ebuf, stream>> => Duty(a)'
      BY <2>2 DEF Duty, Idle, Request
    <3> QED BY <2>3, <2>4, <3>1
  <2>8. heard \in Nat /\ Len(said) \in Nat /\ heard <= Len(said)
    BY LenProperties DEF TypeOK
  <2> HIDE DEF Given, Read
  <2> DEFINE Ask == /\ Asked = Nothing /\ Owed = Nothing /\ Read = Len(Given)
                    /\ Asked' \in Reply /\ Owed' \in {Asked', Nothing}
                    /\ Given' = Given /\ Read' = Read
             Give == /\ Owed # Nothing /\ Given' = Append(Given, Owed) /\ Owed' = Nothing
                     /\ Asked' = Asked /\ Read' = Read
             Refuse == /\ Owed # Nothing /\ Owed' = Nothing
                       /\ Asked' = Asked /\ Given' = Given /\ Read' = Read
             Hear == /\ Read < Len(Given) /\ (Asked # Nothing => Given[Read + 1] = Asked)
                     /\ Read' = Read + 1 /\ Asked' = Nothing
                     /\ Owed' = Owed /\ Given' = Given
             GiveUp == /\ Asked # Nothing /\ Asked' = Nothing
                       /\ Owed' = Owed /\ Given' = Given /\ Read' = Read
             Stay == Asked' = Asked /\ Owed' = Owed /\ Given' = Given /\ Read' = Read
  <2>9. SUFFICES Ask \/ Give \/ Refuse \/ Hear \/ GiveUp \/ Stay
    BY DEF R!Next, R!vars, R!Ask, R!Answer, R!Refuse, R!Hear, R!GiveUp, Given, Read
  <2>10. CASE SendLine
    <3>1. /\ peer = "talking" /\ UNCHANGED <<said, heard>>
          /\ peer' = "waiting" <=> Asks(last')
      BY <2>10 DEF SendLine, replyVars, Asks
    <3>2. /\ ~Asks(last') => Duty(a)'
          /\ Asks(last') => /\ a = Nothing /\ Heard
                            /\ Duty(Nothing)' \/ \E b : b = Answer' /\ Duty(b)'
      BY <1>2, <2>2, <2>10, DutySend
    <3>3. CASE ~Asks(last')
      <4>1. Stay
        BY <2>1, <2>3, <2>4, <2>5, <3>1, <3>2, <3>3
      <4> QED BY <4>1
    <3>4. CASE Asks(last')
      <4>1. Owed' = Nothing \/ Owed' = Answer'
        BY <2>4, <3>2, <3>4
      <4>2. Answer' \in Reply
        <5>1. Pieces(lineNo', last') \in Seq(Piece)
          BY PiecesFacts DEF TypeOK
        <5> QED BY <3>4, <5>1 DEF Asks, Answer, Reply, Echo
      <4>3. Ask
        BY <2>1, <2>3, <2>5, <3>1, <3>2, <3>4, <4>1, <4>2 DEF Heard
      <4> QED BY <4>3
    <3> QED BY <3>3, <3>4
  <2>11. CASE ReadReply
    <3>1. /\ heard < Len(said) /\ heard' = heard + 1
          /\ UNCHANGED <<last, said, h, ebuf, stream>>
      BY <2>11 DEF ReadReply, sentVars, replyVars
    <3>2. peer = "waiting" => Asked = said[heard + 1]
      <4>1. Waiting => Answered
        BY <2>8, <3>1 DEF Waiting, Heard, Answered, Unread, Half, Fetching
      <4> QED BY <2>5, <2>6, <4>1 DEF Answered
    <3>3. peer' # "waiting"
      BY <2>11 DEF ReadReply
    <3>4. Hear
      BY <2>1, <2>5, <2>7, <3>1, <3>2, <3>3
    <3> QED BY <3>4
  <2>12. CASE GetFile \/ Timeout \/ Close
    <3>1. UNCHANGED <<said, heard, h, ebuf, stream>> /\ peer' # "waiting"
      BY <2>12 DEF GetFile, Timeout, Close, replyVars
    <3>2. GiveUp \/ Stay
      BY <2>1, <2>5, <2>6, <2>7, <3>1
    <3> QED BY <3>2
  <2>13. CASE HandlerStep
    <3>1. Moved(a) /\ UNCHANGED <<peerVars, heard>>
      BY <1>2, <2>2, <2>13, DutyHandler
    <3>2. Asked' = Asked
      <4>1. UNCHANGED <<peer, last, lineNo>>
        BY <3>1 DEF peerVars, sentVars
      <4> QED BY <2>5, <4>1 DEF Answer
    <3>3. CASE Duty(a)' /\ said' = said
      <4>1. Stay
        BY <2>1, <2>3, <2>4, <3>1, <3>2, <3>3
      <4> QED BY <4>1
    <3>4. CASE Duty(Nothing)' /\ said' = said
      <4>1. Refuse \/ Stay
        BY <2>1, <2>3, <2>4, <3>1, <3>2, <3>4
      <4> QED BY <4>1
    <3>5. CASE Duty(Nothing)' /\ said' = Append(said, a) /\ a # Nothing
      <4>1. Give
        BY <2>1, <2>3, <2>4, <3>1, <3>2, <3>5
      <4> QED BY <4>1
    <3> QED BY <3>1, <3>3, <3>4, <3>5 DEF Moved
  <2>14. CASE UNCHANGED vars
    <3>1. UNCHANGED <<said, heard, h, ebuf, stream, peer, last, lineNo>>
      BY <2>14 DEF vars, peerVars, sentVars, replyVars
    <3>2. Stay
      BY <2>1, <2>5, <2>7, <3>1 DEF Answer
    <3> QED BY <3>2
  <2> QED BY <2>10, <2>11, <2>12, <2>13, <2>14 DEF Next, PeerStep, Terminated
<1> QED BY <1>1, <1>2

(* With the expected framing the handler and UNIX_TL behave as module      *)
(* Requests says: every request is answered at most once, by its own       *)
(* answer, and UNIX_TL never takes the answer to something else.           *)
THEOREM ServesRequests == Spec => Serves
<1>1. Init => R!Init /\ DutyInv
  <2> SUFFICES ASSUME Init PROVE R!Init /\ DutyInv
    OBVIOUS
  <2>1. Len(<<>>) = 0 /\ DOMAIN <<>> = {}
    BY EmptySeq
  <2>2. Duty(Nothing)
    BY <2>1 DEF Init, Duty, Idle, Calm
  <2>3. Asked = Nothing
    BY DEF Init, Asked
  <2>4. Owed = Nothing
    BY <2>1 DEF Init, Owed, Questions
  <2>5. R!Init
    BY <2>3, <2>4 DEF Init, R!Init
  <2> QED BY <2>2, <2>5 DEF DutyInv
<1>2. TypeOK /\ ResetInv /\ GoodbyeInv /\ AnswerInv /\ DutyInv /\ [Next]_vars => DutyInv'
  BY DutyStep
<1>3. TypeOK /\ TypeOK' /\ ResetInv /\ GoodbyeInv /\ AnswerInv /\ DutyInv /\ [Next]_vars
        => [R!Next]_R!vars
  BY ServesStep
<1> QED BY <1>1, <1>2, <1>3, AnswerInvariant, PTL DEF Spec, Serves, R!Spec

-----------------------------------------------------------------------------
(* The conversation comes to an end: what is left of it.                   *)

(* UNIX_TL may still ask for something, and then complain of the answer.   *)
MayAsk == \/ peer \in {"waiting", "waitFile"}
          \/ \E i \in DOMAIN rest : Head(rest[i]) \in {"E", "C", "F"}

(* Lines UNIX_TL may send: those it has in mind, and more than a complaint *)
(* has if it may still make one.                                           *)
ToSay == Len(rest) + (IF MayAsk THEN 3 ELSE 0)

(* The handler's steps, of which the last piece it reads takes the most.   *)
Stage == CASE h = "connect" -> 4 [] h = "open" -> 3 [] h = "copy" -> 2
           [] h = "read" -> 1 [] h = "ended" -> 0
ToHandle == 4 * Len(stream) + Stage

(* UNIX_TL's own steps while it sends nothing.                             *)
Patience == CASE peer = "waiting" -> 4 [] peer = "waitFile" -> 3
              [] peer = "talking" -> 2 [] peer = "closing" -> 1 [] peer = "closed" -> 0
ToHear == Len(said) - heard + Patience

Left == <<ToSay, ToHandle, ToHear>>

LessLeft == Lower(ToSay', ToHandle', ToHear', ToSay, ToHandle, ToHear)

(* What is left is three numbers.                                          *)
LEMMA LeftParts ==
  ASSUME TypeOK
  PROVE  /\ Len(rest) \in Nat /\ Len(stream) \in Nat /\ Len(said) \in Nat
         /\ heard \in Nat /\ heard <= Len(said)
         /\ Stage \in 0 .. 4 /\ Patience \in 0 .. 4
<1>1. Len(rest) \in Nat /\ Len(stream) \in Nat /\ Len(said) \in Nat
  BY LenProperties DEF TypeOK
<1>2. heard \in Nat /\ heard <= Len(said)
  <2>1. heard \in 0 .. Len(said)
    BY DEF TypeOK
  <2> QED BY ONLY <1>1, <2>1
<1>3. Stage \in 0 .. 4
  <2>1. h \in {"read", "connect", "open", "copy", "ended"}
    BY DEF TypeOK
  <2> QED BY ONLY <2>1 DEF Stage
<1>4. Patience \in 0 .. 4
  <2>1. peer \in {"talking", "waiting", "waitFile", "closing", "closed"}
    BY DEF TypeOK
  <2> QED BY ONLY <2>1 DEF Patience
<1> QED BY ONLY <1>1, <1>2, <1>3, <1>4

LeftNats == ToSay \in Nat /\ ToHandle \in Nat /\ ToHear \in Nat

LEMMA LeftType == TypeOK => LeftNats
<1> SUFFICES ASSUME TypeOK PROVE LeftNats
  OBVIOUS
<1>1. /\ Len(rest) \in Nat /\ Len(stream) \in Nat /\ Len(said) \in Nat
      /\ heard \in Nat /\ heard <= Len(said)
      /\ Stage \in 0 .. 4 /\ Patience \in 0 .. 4
  BY LeftParts
<1>2. ToSay \in Nat
  BY ONLY <1>1 DEF ToSay
<1>3. ToHandle \in Nat
  BY ONLY <1>1 DEF ToHandle
<1>4. ToHear \in Nat
  BY ONLY <1>1 DEF ToHear
<1> QED BY ONLY <1>2, <1>3, <1>4 DEF LeftNats

(* How a step can leave less.                                              *)
LEMMA LessToSay ==
  ASSUME LeftNats, LeftNats', ToSay' < ToSay
  PROVE  LessLeft
BY DEF LessLeft, Lower

LEMMA LessToHandle ==
  ASSUME LeftNats, LeftNats', UNCHANGED peerVars, ToHandle' < ToHandle
  PROVE  LessLeft
<1>1. ToSay' = ToSay
  BY DEF peerVars, sentVars, ToSay, MayAsk
<1> QED BY <1>1 DEF LessLeft, Lower, LeftNats

LEMMA LessToHear ==
  ASSUME TypeOK, LeftNats, LeftNats', UNCHANGED <<rest, stream, h>>,
         peer' \in {"waiting", "waitFile"} => peer \in {"waiting", "waitFile"},
         ToHear' < ToHear
  PROVE  LessLeft
<1>1. ToHandle' = ToHandle
  BY DEF ToHandle, Stage
<1>2. MayAsk' => MayAsk
  BY DEF MayAsk
<1>3. Len(rest) \in Nat /\ rest' = rest
  BY LeftParts
<1>4. ToSay' <= ToSay
  BY ONLY <1>2, <1>3 DEF ToSay
<1> QED BY ONLY LeftNats, LeftNats', ToHear' < ToHear, <1>1, <1>4
        DEF LessLeft, Lower, LeftNats

(* A line sent is a line less to send.                                     *)
LEMMA SendLowers ==
  ASSUME TypeOK, SendLine
  PROVE  ToSay' < ToSay
<1>1. /\ rest \in Seq(Line) /\ rest # <<>> /\ rest' = Tail(rest) /\ last' = Head(rest)
      /\ peer' \in {"waiting", "waitFile"} => Head(last') \in {"E", "C", "F"}
  BY DEF SendLine, TypeOK
<1>2. /\ Tail(rest) \in Seq(Line) /\ Len(Tail(rest)) = Len(rest) - 1
      /\ Len(rest) \in Nat /\ Len(rest) # 0
      /\ \A i \in 1 .. Len(Tail(rest)) : Tail(rest)[i] = rest[i + 1]
  BY <1>1, HeadTailProperties, EmptySeq, LenProperties
<1>3. /\ DOMAIN rest = 1 .. Len(rest) /\ DOMAIN Tail(rest) = 1 .. Len(Tail(rest))
      /\ Head(rest) = rest[1]
  BY <1>1, <1>2, LenProperties, HeadTailProperties
<1>4. ASSUME MayAsk' PROVE MayAsk
  <2>1. CASE peer' \in {"waiting", "waitFile"}
    <3>1. Head(rest[1]) \in {"E", "C", "F"}
      BY <1>1, <1>3, <2>1
    <3>2. 1 \in DOMAIN rest
      BY ONLY <1>2, <1>3
    <3> QED BY <3>1, <3>2 DEF MayAsk
  <2>2. CASE \E i \in DOMAIN rest' : Head(rest'[i]) \in {"E", "C", "F"}
    <3>1. PICK i \in DOMAIN Tail(rest) : Head(Tail(rest)[i]) \in {"E", "C", "F"}
      BY <1>1, <2>2
    <3>2. i \in 1 .. Len(Tail(rest)) /\ i + 1 \in 1 .. Len(rest)
      BY ONLY <1>2, <1>3, i \in DOMAIN Tail(rest)
    <3>3. Tail(rest)[i] = rest[i + 1]
      BY <1>2, <3>2, Zenon
    <3> QED BY <1>3, <3>1, <3>2, <3>3, Zenon DEF MayAsk
  <2> QED BY <1>4, <2>1, <2>2, Zenon DEF MayAsk
<1>5. Len(rest') = Len(rest) - 1
  BY <1>1, <1>2
<1> QED BY ONLY <1>2, <1>4, <1>5 DEF ToSay

(* So is a complaint, after which nothing is asked; every other step of    *)
(* UNIX_TL hears something or ends its waiting.                            *)
LEMMA PeerLowers ==
  ASSUME TypeOK, LeftNats, LeftNats', PeerStep
  PROVE  LessLeft
<1>1. CASE SendLine
  BY <1>1, SendLowers, LessToSay
<1>2. ASSUME peer \in {"waiting", "waitFile"}, peer' = "talking", rest' = Complaint
      PROVE  LessLeft
  <2>1. Len(Complaint) = 2 /\ DOMAIN Complaint = {1, 2}
    BY DEF Complaint
  <2>2. \A i \in {1, 2} : Head(Complaint[i]) \in {"#", "209"}
    BY DEF Complaint
  <2>3. ~MayAsk'
    BY ONLY <1>2, <2>1, <2>2 DEF MayAsk
  <2>4. ToSay' = 2
    BY ONLY <1>2, <2>1, <2>3 DEF ToSay
  <2>5. Len(rest) \in Nat /\ ToSay = Len(rest) + 3
    BY <1>2, LeftParts DEF ToSay, MayAsk
  <2>6. ToSay' < ToSay
    BY ONLY <2>4, <2>5
  <2> QED BY <2>6, LessToSay
<1>3. Len(said) \in Nat /\ heard \in Nat /\ Patience \in 0 .. 4
  BY LeftParts
<1>4. CASE ReadReply
  <2>1. said' = said /\ heard' = heard + 1 /\ UNCHANGED <<stream, h>>
    BY <1>4 DEF ReadReply, replyVars
  <2>2. \/ peer = "waiting" /\ peer' = "talking" /\ rest' = Complaint
        \/ /\ UNCHANGED rest
           /\ \/ peer' = peer
              \/ peer = "waiting" /\ peer' \in {"waitFile", "talking"}
    BY <1>4 DEF ReadReply
  <2>3. CASE /\ UNCHANGED rest
             /\ \/ peer' = peer
                \/ peer = "waiting" /\ peer' \in {"waitFile", "talking"}
    <3>1. Patience' \in 0 .. 4 /\ Patience' <= Patience
      <4>1. CASE peer' = peer
        <5>1. Patience' = Patience
          BY ONLY <4>1, Zenon DEF Patience
        <5> QED BY ONLY <1>3, <5>1
      <4>2. CASE peer = "waiting" /\ peer' \in {"waitFile", "talking"}
        BY ONLY <4>2 DEF Patience
      <4> QED BY <2>3, <4>1, <4>2
    <3>2. ToHear' < ToHear
      BY ONLY <1>3, <2>1, <3>1 DEF ToHear
    <3>3. peer' \in {"waiting", "waitFile"} => peer \in {"waiting", "waitFile"}
      BY <2>3
    <3> QED BY <2>1, <2>3, <3>2, <3>3, LessToHear
  <2> QED BY <1>2, <2>2, <2>3
<1>5. CASE GetFile
  <2>1. peer = "waitFile" /\ peer' = "talking" /\ UNCHANGED <<said, heard, rest, stream, h>>
    BY <1>5 DEF GetFile, replyVars
  <2>2. Patience = 3 /\ Patience' = 2
    BY ONLY <2>1 DEF Patience
  <2>3. ToHear' < ToHear
    BY ONLY <1>3, <2>1, <2>2 DEF ToHear
  <2> QED BY <2>1, <2>3, LessToHear
<1>6. CASE Timeout
  BY <1>2, <1>6 DEF Timeout
<1>7. CASE Close
  <2>1. peer # "closed" /\ peer' = "closed" /\ UNCHANGED <<said, heard, rest, stream, h>>
    BY <1>7 DEF Close
  <2>2. peer \in {"talking", "waiting", "waitFile", "closing"}
    BY <2>1 DEF TypeOK
  <2>3. Patience' = 0 /\ Patience \in 1 .. 4
    BY ONLY <2>1, <2>2 DEF Patience
  <2>4. ToHear' < ToHear
    BY ONLY <1>3, <2>1, <2>3 DEF ToHear
  <2> QED BY <2>1, <2>4, LessToHear
<1> QED BY <1>1, <1>4, <1>5, <1>6, <1>7 DEF PeerStep

(* A step of the handler reads, or brings it nearer its end or next read.  *)
LEMMA HandlerLowers ==
  ASSUME TypeOK, LeftNats, LeftNats', HandlerStep
  PROVE  LessLeft
<1>1. Len(stream) \in Nat /\ stream \in Seq(Piece) /\ Stage \in 0 .. 4
  BY LeftParts DEF TypeOK
<1>2. ASSUME NEW r \in Reads,
             \/ HandleE(r) \/ HandleComment(r) \/ HandleC(r) \/ HandleF(r)
             \/ HandleA(r) \/ HandleQ(r) \/ HandleOther(r)
      PROVE  LessLeft
  <2>1. h = "read" /\ stream' = SubSeq(stream, Len(r) + 1, Len(stream)) /\ UNCHANGED peerVars
    BY <1>2 DEF HandleE, HandleComment, HandleC, HandleF, HandleA, HandleQ, HandleOther, Got
  <2>2. PICK k \in 1 .. Len(stream) : r = SubSeq(stream, 1, k)
    BY <1>1 DEF Reads
  <2>3. Len(r) = k
    BY <1>1, <2>2, Split
  <2>4. /\ k + 1 \in Nat \ {0} /\ k + 1 <= Len(stream) + 1 /\ k >= 1 /\ k \in Nat
        /\ Len(stream) \in 0 .. Len(stream)
    BY ONLY <1>1, k \in 1 .. Len(stream)
  <2>5. Len(SubSeq(stream, k + 1, Len(stream))) = Len(stream) - (k + 1) + 1
    BY <1>1, <2>4, PartFacts
  <2>6. Len(stream') = Len(stream) - k
    BY <1>1, <2>1, <2>3, <2>4, <2>5
  <2>7. \/ UNCHANGED h
        \/ h' \in {"read", "connect", "ended"}
    BY <1>2 DEF HandleE, HandleComment, HandleC, HandleF, HandleA, HandleQ, HandleOther, Write
  <2>8. Stage = 1 /\ Stage' \in 0 .. 4
    BY ONLY <2>1, <2>7 DEF Stage
  <2>9. ToHandle' < ToHandle
    BY ONLY <1>1, <2>4, <2>6, <2>8 DEF ToHandle
  <2> QED BY <2>1, <2>9, LessToHandle
<1>3. CASE Connect \/ FileNotFound \/ SendSize \/ CopyFile \/ Eof \/ ReadError
  <2>1. UNCHANGED <<peerVars, stream>>
    BY <1>3 DEF Connect, FileNotFound, SendSize, CopyFile, Eof, ReadError, EndReading,
       StayInRead, peerVars, sentVars
  <2>2. \/ h = "connect" /\ h' \in {"open", "ended"}
        \/ h = "open" /\ h' \in {"read", "copy", "ended"}
        \/ h = "copy" /\ h' \in {"read", "ended"}
        \/ h = "read" /\ h' = "ended"
    BY <1>3 DEF Connect, FileNotFound, SendSize, Write, CopyFile, Eof, ReadError, EndReading
  <2>3. Stage \in 0 .. 4 /\ Stage' \in 0 .. 4 /\ Stage' < Stage
    BY ONLY <2>2 DEF Stage
  <2>4. ToHandle' < ToHandle
    BY ONLY <1>1, <2>1, <2>3 DEF ToHandle
  <2> QED BY <2>1, <2>4, LessToHandle
<1> QED BY <1>2, <1>3 DEF HandlerStep

(* The handler and UNIX_TL do not go on for ever, whatever UNIX_TL sends,  *)
(* however it is cut and whatever fails: every step leaves less to say, to *)
(* handle or to hear, and that cannot go on without end.  So nothing keeps *)
(* newConnection() in its loop: what Ends still needs is that UNIX_TL and  *)
(* the handler take the steps they can.                                    *)
THEOREM ConversationRunsOut ==
  IsWellFoundedOn(Down, Tally) /\ (Spec => [][(<<Left', Left>> \in Down)]_vars)
<1>1. TypeOK /\ LeftNats /\ LeftNats' /\ [Next]_vars => [(<<Left', Left>> \in Down)]_vars
  <2> SUFFICES ASSUME TypeOK, LeftNats, LeftNats', Next, vars' # vars
               PROVE  <<Left', Left>> \in Down
    OBVIOUS
  <2>1. PeerStep \/ HandlerStep
    BY DEF Next, Terminated
  <2>2. LessLeft
    BY <2>1, PeerLowers, HandlerLowers
  <2>3. /\ ToSay \in Nat /\ ToHandle \in Nat /\ ToHear \in Nat
        /\ ToSay' \in Nat /\ ToHandle' \in Nat /\ ToHear' \in Nat
    BY Zenon DEF LeftNats
  <2>4. << <<ToSay', ToHandle', ToHear'>>, <<ToSay, ToHandle, ToHear>> >> \in Down
    BY ONLY <2>2, <2>3, GoesDown DEF LessLeft
  <2> QED BY <2>4, Zenon DEF Left
<1>2. Spec => [][(<<Left', Left>> \in Down)]_vars
  BY <1>1, LeftType, TypeCorrect, PTL DEF Spec
<1> QED BY <1>2, DownEnds

-----------------------------------------------------------------------------
(* Where the two can stand still.                                          *)

(* The last line UNIX_TL has in mind closes the program or the connection. *)
Endings == {"A", "Q", "209"}
EndsIn(lines) == lines # <<>> /\ Head(lines[Len(lines)]) \in Endings
SaidToTheEnd == \A f \in DOMAIN Scripts : \A s \in Scripts[f] : EndsIn(s)

(* Until it has sent that line it has it still to send.                    *)
PlanInv == peer \in {"talking", "waiting", "waitFile"} => EndsIn(rest)

(* What neither can go on from unless the other does something: nothing    *)
(* left to say and nothing to hear, a read of a connection that is open    *)
(* and empty.                                                              *)
PeerBlocked ==
  \/ peer = "closed"
  \/ peer = "talking" /\ rest = <<>> /\ heard = Len(said) /\ h # "ended"
HandlerBlocked ==
  \/ h = "ended"
  \/ h = "read" /\ stream = <<>> /\ peer # "closed" /\ ~broken
  \/ h = "open" /\ Files = {}

LEMMA PlanStep == TypeOK /\ PlanInv /\ [Next]_vars => PlanInv'
<1> SUFFICES ASSUME TypeOK, PlanInv, [Next]_vars PROVE PlanInv'
  OBVIOUS
<1>1. CASE SendLine
  <2>1. /\ rest \in Seq(Line) /\ rest # <<>> /\ rest' = Tail(rest) /\ last' = Head(rest)
        /\ peer = "talking" /\ (Head(last') \in Endings => peer' = "closing")
    BY <1>1 DEF SendLine, TypeOK, Endings
  <2>2. /\ Tail(rest) \in Seq(Line) /\ Len(Tail(rest)) = Len(rest) - 1
        /\ Len(rest) \in Nat /\ Len(rest) # 0
        /\ \A i \in 1 .. Len(Tail(rest)) : Tail(rest)[i] = rest[i + 1]
    BY <2>1, HeadTailProperties, EmptySeq, LenProperties
  <2>3. Head(rest) = rest[1]
    BY <2>1
  <2>4. Head(rest[Len(rest)]) \in Endings
    BY <2>1 DEF PlanInv, EndsIn
  <2>5. CASE Len(rest) = 1
    <3>1. Head(last') \in Endings
      BY <2>1, <2>3, <2>4, <2>5
    <3> QED BY <2>1, <3>1 DEF PlanInv
  <2>6. CASE Len(rest) # 1
    <3>1. /\ Len(Tail(rest)) \in 1 .. Len(Tail(rest)) /\ Len(Tail(rest)) + 1 = Len(rest)
          /\ Len(Tail(rest)) # 0
      BY ONLY <2>2, <2>6
    <3>2. Tail(rest)[Len(Tail(rest))] = rest[Len(rest)]
      BY <2>2, <3>1
    <3>3. Tail(rest) # <<>>
      BY <2>2, <3>1, EmptySeq
    <3>4. EndsIn(Tail(rest))
      BY <2>4, <3>2, <3>3 DEF EndsIn
    <3> QED BY <2>1, <3>4 DEF PlanInv
  <2> QED BY <2>5, <2>6
<1>2. CASE ReadReply \/ GetFile \/ Timeout \/ Close
  <2>1. \/ rest' = Complaint
        \/ /\ rest' = rest
           /\ peer' \in {"talking", "waiting", "waitFile"} =>
                peer \in {"talking", "waiting", "waitFile"}
    BY <1>2 DEF ReadReply, GetFile, Timeout, Close
  <2>2. EndsIn(Complaint)
    BY DEF Complaint, EndsIn, Endings
  <2> QED BY <2>1, <2>2 DEF PlanInv
<1>3. CASE HandlerStep \/ UNCHANGED vars
  <2>1. UNCHANGED <<peer, rest>>
    <3>1. CASE UNCHANGED vars
      BY <3>1 DEF vars, peerVars, sentVars
    <3>2. CASE \/ Connect \/ FileNotFound \/ SendSize \/ CopyFile \/ Eof \/ ReadError
      BY <3>2 DEF Connect, FileNotFound, SendSize, CopyFile, Eof, ReadError, EndReading,
         StayInRead, peerVars, sentVars
    <3>3. ASSUME NEW r \in Reads,
                 \/ HandleE(r) \/ HandleComment(r) \/ HandleC(r) \/ HandleF(r)
                 \/ HandleA(r) \/ HandleQ(r) \/ HandleOther(r)
          PROVE  UNCHANGED <<peer, rest>>
      BY <3>3 DEF HandleE, HandleComment, HandleC, HandleF, HandleA, HandleQ, HandleOther,
         Got, peerVars, sentVars
    <3> QED BY <1>3, <3>1, <3>2, <3>3 DEF HandlerStep
  <2> QED BY <2>1 DEF PlanInv
<1> QED BY <1>1, <1>2, <1>3 DEF Next, PeerStep, Terminated

(* However the lines are cut and whatever files there are, the handler and *)
(* UNIX_TL do not wait for each other for ever: when neither can go on,    *)
(* the process has ended and the connection is closed.  UNIX_TL's timer    *)
(* and its last line see to that: one that stopped talking and closed      *)
(* nothing would keep newConnection() in read().                           *)
THEOREM StandsStillOnlyAtEnd ==
  SaidToTheEnd /\ Files # {}
    => (Spec => [](PeerBlocked /\ HandlerBlocked => h = "ended" /\ peer = "closed"))
<1> SUFFICES ASSUME SaidToTheEnd, Files # {}
             PROVE  Spec => [](PeerBlocked /\ HandlerBlocked => h = "ended" /\ peer = "closed")
  OBVIOUS
<1>1. Init => PlanInv
  BY DEF Init, PlanInv, SaidToTheEnd
<1>2. PlanInv => (PeerBlocked /\ HandlerBlocked => h = "ended" /\ peer = "closed")
  <2> SUFFICES ASSUME PlanInv, PeerBlocked, HandlerBlocked PROVE h = "ended" /\ peer = "closed"
    OBVIOUS
  <2>1. peer = "closed"
    BY DEF PlanInv, PeerBlocked, EndsIn
  <2> QED BY <2>1 DEF HandlerBlocked
<1> QED BY <1>1, <1>2, PlanStep, TypeCorrect, PTL DEF Spec
=============================================================================
