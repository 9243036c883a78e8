---------------------------- MODULE UploadProofs ----------------------------
(***************************************************************************)
(* Proofs about Upload, for any clients, lines and sizes: the types; that  *)
(* the server leaves no client before its end; that what is typed is       *)
(* printed once and in order; where bytes nobody typed are printed; and    *)
(* where all can stand still.                                              *)
(***************************************************************************)
EXTENDS Upload, CommonProofs

(* What NoneAbandoned rests on: between two clients the server serves      *)
(* nobody, and a client that has not started has no connection.            *)
TurnInv ==
  /\ server = "accept" => current = NoClient
  /\ \A c \in Clients : client[c] = "none" => link[c] = "none"
  /\ NoneAbandoned

-----------------------------------------------------------------------------
(* Buffers.                                                                *)

LEMMA BufferFacts ==
  ASSUME NEW mem \in Buffer
  PROVE  mem \in Seq(Byte) /\ Len(mem) = Max
<1>1. Max \in Nat
  BY MaxAssumption
<1> QED BY <1>1, SeqDef, LenProperties DEF Buffer

LEMMA BlankFacts == Blank \in Buffer
BY DEF Blank, Buffer, Byte

LEMMA FilledFacts ==
  ASSUME NEW data \in Seq(Byte), NEW mem \in Buffer
  PROVE  Filled(data, mem) \in Buffer
<1>1. /\ Len(data) \in Nat /\ Max \in Nat
      /\ \A i \in 1 .. Len(data) : data[i] \in Byte
  BY LenProperties, ElementOfSeq, MaxAssumption
<1>2. \A i \in 1 .. Max : (IF i <= Len(data) THEN data[i] ELSE mem[i]) \in Byte
  BY <1>1 DEF Buffer
<1> QED BY <1>2 DEF Filled, Buffer

(* What strlen() walks over.                                               *)
LEMMA WalkFacts ==
  ASSUME NEW mem \in Buffer, over \in 0 .. 1
  PROVE  /\ Walk(mem) \in Seq(Byte) /\ Len(Walk(mem)) = Max + over + 1
         /\ \A i \in 1 .. Max : Walk(mem)[i] = mem[i]
         /\ \A i \in Max + 1 .. Max + over : Walk(mem)[i] = Junk
<1>1. mem \in Seq(Byte) /\ Len(mem) = Max /\ Max \in Nat
  BY BufferFacts, MaxAssumption
<1> DEFINE more == [i \in 1 .. over |-> Junk]
<1>2. more \in Seq(Byte) /\ Len(more) = over /\ \A i \in 1 .. over : more[i] = Junk
  <2>1. more \in [1 .. over -> Byte] /\ over \in Nat
    BY DEF Byte, Junk
  <2> QED BY <2>1, SeqDef, LenProperties
<1>3. <<Null>> \in Seq(Byte) /\ Len(<<Null>>) = 1
  BY DEF Byte
<1> HIDE DEF more
<1>4. /\ mem \o more \in Seq(Byte) /\ Len(mem \o more) = Max + over
      /\ \A i \in 1 .. Max : (mem \o more)[i] = mem[i]
      /\ \A i \in Max + 1 .. Max + over : (mem \o more)[i] = Junk
  <2>1. /\ mem \o more \in Seq(Byte) /\ Len(mem \o more) = Max + over
        /\ \A i \in 1 .. Max + over :
             (mem \o more)[i] = IF i <= Max THEN mem[i] ELSE more[i - Max]
    BY <1>1, <1>2, ConcatProperties
  <2>2. \A i \in Max + 1 .. Max + over : i \in 1 .. Max + over /\ ~(i <= Max) /\ i - Max \in 1 .. over
    BY <1>1
  <2>3. \A i \in 1 .. Max : i \in 1 .. Max + over /\ i <= Max
    BY <1>1
  <2> QED BY <1>2, <2>1, <2>2, <2>3
<1> DEFINE w == mem \o more
<1> HIDE DEF w
<1>5. /\ w \in Seq(Byte) /\ Len(w) = Max + over /\ Max + over \in Nat
      /\ \A i \in 1 .. Max : w[i] = mem[i]
      /\ \A i \in Max + 1 .. Max + over : w[i] = Junk
  BY <1>1, <1>4 DEF w
<1>6. /\ w \o <<Null>> \in Seq(Byte) /\ Len(w \o <<Null>>) = Max + over + 1
      /\ \A i \in 1 .. Max + over : (w \o <<Null>>)[i] = w[i]
  BY <1>3, <1>5, ConcatProperties
<1>7. /\ \A i \in 1 .. Max : i \in 1 .. Max + over
      /\ \A i \in Max + 1 .. Max + over : i \in 1 .. Max + over
  BY <1>1
<1>8. Walk(mem) = w \o <<Null>>
  BY DEF Walk, w, more
<1> QED BY <1>5, <1>6, <1>7, <1>8

(* What is printed holds no null byte.                                     *)
LEMMA TextFacts ==
  ASSUME NEW mem \in Buffer, over \in 0 .. 1, NEW n \in 0 .. Max + over, StrLen(mem, n)
  PROVE  /\ First(Walk(mem), n) \in Seq(Nat) /\ Len(First(Walk(mem), n)) = n
         /\ \A i \in 1 .. n : First(Walk(mem), n)[i] = Walk(mem)[i]
<1>1. Walk(mem) \in Seq(Byte) /\ Len(Walk(mem)) = Max + over + 1 /\ Max \in Nat
  BY WalkFacts, MaxAssumption
<1>2. n \in 0 .. Len(Walk(mem)) /\ n \in Nat
  BY <1>1
<1>3. \A i \in 1 .. n : Walk(mem)[i] \in Byte /\ Walk(mem)[i] # Null
  <2>1. \A i \in 1 .. Len(Walk(mem)) : Walk(mem)[i] \in Byte
    BY <1>1, ElementOfSeq
  <2>2. \A i \in 1 .. n : i \in 1 .. Len(Walk(mem))
    BY <1>1, <1>2
  <2> QED BY <2>1, <2>2 DEF StrLen
<1>4. \A i \in 1 .. n : Walk(mem)[i] \in Nat
  BY <1>3 DEF Byte
<1>5. /\ First(Walk(mem), n) \in Seq(Byte) /\ Len(First(Walk(mem), n)) = n
      /\ \A i \in 1 .. n : First(Walk(mem), n)[i] = Walk(mem)[i]
  BY <1>1, <1>2, PartFacts DEF First
<1>6. First(Walk(mem), n) = [i \in 1 .. n |-> Walk(mem)[i]]
  <2>1. First(Walk(mem), n) \in [1 .. n -> Byte]
    BY <1>5, LenProperties
  <2> QED BY <1>5, <2>1
<1>7. First(Walk(mem), n) \in [1 .. n -> Nat]
  BY <1>4, <1>6
<1> QED BY <1>2, <1>5, <1>7, SeqDef

-----------------------------------------------------------------------------
(* Type correctness.                                                       *)

LEMMA TypeInit == Init => TypeOK
<1> SUFFICES ASSUME Init PROVE TypeOK
  OBVIOUS
<1>1. input \in [Clients -> Seq(Nat \ {0})]
  BY InputsAssumption DEF Init
<1>2. \A memory \in Memories : memory \in Buffer
  BY MemoriesAssumption DEF Buffer, Byte, Junk
<1>3. record \in [Clients -> Buffer] /\ buffer \in Buffer
  BY <1>2 DEF Init
<1>4. /\ <<>> \in Seq(Byte) /\ <<>> \in Seq(Nat) /\ <<>> \in Seq(Clients)
      /\ Len(<<>>) = 0 /\ 0 <= Room
  BY EmptySeq, RoomAssumption
<1>5. /\ way \in [Clients -> Seq(Byte)] /\ shown \in [Clients -> Seq(Nat)]
      /\ \A c \in Clients : Len(way[c]) <= Room
  BY <1>4 DEF Init
<1> QED BY <1>1, <1>3, <1>4, <1>5, LimitsAssumption DEF Init, TypeOK

LEMMA TypeReadInput ==
  ASSUME TypeOK, NEW c \in Clients, ReadInput(c)
  PROVE  TypeOK'
<1> DEFINE k == LineCut(input[c], Max)
           data == [i \in 1 .. k |-> typed[c] + i]
<1>1. /\ input[c] \in Seq(Nat \ {0}) /\ input[c] # <<>> /\ typed[c] \in Nat
      /\ Max \in Nat \ {0}
  BY MaxAssumption DEF TypeOK, ReadInput
<1>2. Head(input[c]) \in Nat \ {0} /\ Tail(input[c]) \in Seq(Nat \ {0})
  BY <1>1, HeadTailProperties
<1>3. k \in Nat \ {0} /\ k <= Head(input[c])
  BY <1>1, <1>2 DEF LineCut
<1>4. CutOff(input[c], k) \in Seq(Nat \ {0})
  <2> HIDE DEF k
  <2>1. CASE k = Head(input[c])
    BY <1>2, <2>1 DEF CutOff
  <2>2. CASE k # Head(input[c])
    <3>1. <<Head(input[c]) - k>> \in Seq(Nat \ {0})
      <4> DEFINE hd == Head(input[c])
      <4>1. hd \in Nat /\ k \in Nat /\ k <= hd /\ k # hd
        BY <1>2, <1>3, <2>2
      <4> HIDE DEF hd
      <4>2. hd - k \in Nat \ {0}
        BY ONLY <4>1
      <4>3. <<hd - k>> \in Seq(Nat \ {0})
        BY ONLY <4>2
      <4> QED BY ONLY <4>3 DEF hd
    <3>2. <<Head(input[c]) - k>> \o Tail(input[c]) \in Seq(Nat \ {0})
      BY <1>2, <3>1, ConcatProperties
    <3> QED BY <2>2, <3>2 DEF CutOff
  <2> QED BY <2>1, <2>2
<1>5. data \in Seq(Byte)
  <2> HIDE DEF k
  <2>1. \A i \in 1 .. k : typed[c] + i \in Byte
    BY <1>1, <1>3 DEF Byte
  <2>2. data \in [1 .. k -> Byte] /\ k \in Nat
    BY <1>3, <2>1
  <2> QED BY <2>2, SeqDef
<1>6. Filled(data, record[c]) \in Buffer
  <2> HIDE DEF data
  <2> QED BY <1>5, FilledFacts DEF TypeOK
<1>7. /\ record' = [record EXCEPT ![c] = Filled(data, record[c])]
      /\ typed' = [typed EXCEPT ![c] = typed[c] + k]
      /\ input' = [input EXCEPT ![c] = CutOff(input[c], k)]
  BY DEF ReadInput
<1> HIDE DEF k, data
<1>8. /\ record' \in [Clients -> Buffer] /\ typed' \in [Clients -> Nat]
      /\ input' \in [Clients -> Seq(Nat \ {0})]
  <2>1. typed[c] + k \in Nat
    BY <1>1, <1>3
  <2> QED BY <1>4, <1>6, <1>7, <2>1 DEF TypeOK
<1>9. client' \in [Clients -> {"none", "read", "write", "ended"}]
  BY DEF ReadInput, TypeOK
<1> QED BY <1>8, <1>9 DEF ReadInput, netVars, serverVars, TypeOK

LEMMA TypeClient ==
  ASSUME TypeOK, NEW c \in Clients,
         \/ Connect(c) \/ ConnectFails(c) \/ ClientStep(c) \/ Ends(c) \/ Reset(c)
  PROVE  TypeOK'
<1> USE DEF TypeOK, clientVars, netVars, serverVars
<1>1. CASE Connect(c)
  <2>1. Append(pending, c) \in Seq(Clients)
    <3>1. pending \in Seq(Clients)
      OBVIOUS
    <3> QED BY <3>1, AppendProperties
  <2> QED BY <1>1, <2>1 DEF Connect
<1>2. CASE Write(c)
  <2>1. /\ way[c] \in Seq(Byte) /\ record[c] \in Seq(Byte) /\ Len(record[c]) = Max
        /\ Len(way[c]) + Max <= Room
    BY <1>2, BufferFacts DEF Write
  <2>2. way[c] \o record[c] \in Seq(Byte) /\ Len(way[c] \o record[c]) <= Room
    <3> HIDE DEF TypeOK
    <3>1. /\ way[c] \o record[c] \in Seq(Byte)
          /\ Len(way[c] \o record[c]) = Len(way[c]) + Len(record[c])
      BY <2>1, ConcatProperties
    <3> QED BY <2>1, <3>1
  <2>3. way' = [way EXCEPT ![c] = way[c] \o record[c]]
    BY <1>2 DEF Write
  <2>4. way' \in [Clients -> Seq(Byte)] /\ \A d \in Clients : Len(way'[d]) <= Room
    BY <2>2, <2>3
  <2>5. /\ record' \in [Clients -> Buffer]
        /\ client' \in [Clients -> {"none", "read", "write", "ended"}]
    BY <1>2, BlankFacts DEF Write
  <2> QED BY <1>2, <2>4, <2>5 DEF Write
<1>3. CASE ConnectFails(c)
  BY <1>3 DEF ConnectFails
<1>4. CASE WriteFails(c)
  BY <1>4 DEF WriteFails
<1>5. CASE Ends(c)
  BY <1>5 DEF Ends
<1>6. CASE Reset(c)
  BY <1>6 DEF Reset
<1> QED BY <1>1, <1>2, <1>3, <1>4, <1>5, <1>6 DEF ClientStep

LEMMA TypePrint ==
  ASSUME TypeOK, PrintText
  PROVE  TypeOK'
<1>1. PICK k \in Amounts(way[current], Max), n \in 0 .. Max + over :
        LET mem == Filled(First(way[current], k), buffer)
        IN  /\ StrLen(mem, n)
            /\ shown' = [shown EXCEPT ![current] = @ \o First(Walk(mem), n)]
            /\ way' = [way EXCEPT ![current] = From(@, k + 1)]
            /\ whole' = IF k = Max THEN whole ELSE whole \ {current}
  BY DEF PrintText
<1> DEFINE mem == Filled(First(way[current], k), buffer)
<1>2. current \in Clients /\ way[current] \in Seq(Byte) /\ Len(way[current]) <= Room
  BY DEF PrintText, TypeOK
<1>3. k \in 0 .. Len(way[current])
  BY <1>2, LenProperties, MaxAssumption DEF Amounts
<1>4. /\ First(way[current], k) \in Seq(Byte)
      /\ From(way[current], k + 1) \in Seq(Byte)
      /\ Len(From(way[current], k + 1)) <= Room
  <2>1. Room \in Nat /\ Len(way[current]) \in Nat
    BY <1>2, RoomAssumption, LenProperties
  <2>2. /\ First(way[current], k) \in Seq(Byte)
        /\ From(way[current], k + 1) \in Seq(Byte)
        /\ Len(From(way[current], k + 1)) = Len(way[current]) - k
    BY <1>2, <1>3, CutFacts
  <2> QED BY <1>2, <1>3, <2>1, <2>2
<1>5. mem \in Buffer
  BY <1>4, FilledFacts DEF TypeOK
<1>6. /\ StrLen(mem, n)
      /\ shown' = [shown EXCEPT ![current] = shown[current] \o First(Walk(mem), n)]
      /\ way' = [way EXCEPT ![current] = From(way[current], k + 1)]
      /\ whole' = IF k = Max THEN whole ELSE whole \ {current}
  BY <1>1
<1> HIDE DEF mem
<1>7. First(Walk(mem), n) \in Seq(Nat)
  BY <1>5, <1>6, TextFacts DEF TypeOK
<1>8. shown' \in [Clients -> Seq(Nat)]
  <2>1. shown[current] \o First(Walk(mem), n) \in Seq(Nat)
    BY <1>2, <1>7, ConcatProperties DEF TypeOK
  <2> QED BY <1>6, <2>1 DEF TypeOK
<1>9. way' \in [Clients -> Seq(Byte)] /\ \A c \in Clients : Len(way'[c]) <= Room
  BY <1>4, <1>6 DEF TypeOK
<1>10. whole' \in SUBSET Clients
  BY <1>6 DEF TypeOK
<1>11. buffer' \in Buffer
  BY BlankFacts DEF PrintText
<1> QED BY <1>8, <1>9, <1>10, <1>11 DEF PrintText, TypeOK, clientVars

LEMMA TypeServer ==
  ASSUME TypeOK, Accept \/ AcceptFails \/ NextClient \/ ServerKilled
  PROVE  TypeOK'
<1> USE DEF TypeOK, clientVars, netVars, serverVars
<1>1. CASE Accept
  <2>1. Head(pending) \in Clients /\ Tail(pending) \in Seq(Clients)
    BY <1>1, HeadTailProperties DEF Accept
  <2>2. buffer' \in Buffer
    BY <1>1 DEF Accept, Buffer, Byte, Junk
  <2>3. left' \in Nat
    BY <1>1 DEF Accept
  <2> QED BY <1>1, <2>1, <2>2, <2>3 DEF Accept
<1>2. CASE AcceptFails
  BY <1>2 DEF AcceptFails
<1>3. CASE NextClient
  BY <1>3 DEF NextClient
<1>4. CASE ServerKilled
  BY <1>4 DEF ServerKilled
<1> QED BY <1>1, <1>2, <1>3, <1>4

LEMMA TypeStep ==
  ASSUME TypeOK, [Next]_vars
  PROVE  TypeOK'
<1>1. CASE Next
  BY <1>1, TypeReadInput, TypeClient, TypePrint, TypeServer DEF Next, ServerStep
<1>2. CASE UNCHANGED vars
  BY <1>2 DEF vars, clientVars, netVars, serverVars, TypeOK
<1> QED BY <1>1, <1>2

(* Buffers keep their size, what is printed holds no null byte, and the    *)
(* way to the server holds no more than it has room for.                   *)
THEOREM TypeCorrect == Spec => []TypeOK
<1> QED BY TypeInit, TypeStep, PTL DEF Spec

-----------------------------------------------------------------------------
(* Nobody is left before the end.                                          *)

LEMMA TurnInit == Init => TurnInv
BY DEF Init, TurnInv, NoneAbandoned

LEMMA TurnClient ==
  ASSUME TypeOK, TurnInv, NEW c \in Clients,
         \/ ConnectFails(c) \/ ReadInput(c) \/ ClientStep(c) \/ Ends(c) \/ Reset(c)
  PROVE  TurnInv'
<1>0. Waiting' = Waiting
  <2>1. pending' = pending
    BY DEF ConnectFails, ReadInput, ClientStep, Write, WriteFails, Ends, Reset, netVars
  <2> QED BY <2>1 DEF Waiting
<1> USE DEF TurnInv, NoneAbandoned, clientVars, netVars, serverVars, TypeOK
<1>1. CASE ConnectFails(c)
  BY <1>0, <1>1 DEF ConnectFails
<1>2. CASE ReadInput(c)
  BY <1>0, <1>2 DEF ReadInput
<1>3. CASE Write(c)
  BY <1>0, <1>3 DEF Write
<1>4. CASE WriteFails(c)
  BY <1>0, <1>4 DEF WriteFails
<1>5. CASE Ends(c)
  BY <1>0, <1>5 DEF Ends
<1>6. CASE Reset(c)
  BY <1>0, <1>6 DEF Reset
<1> QED BY <1>1, <1>2, <1>3, <1>4, <1>5, <1>6 DEF ClientStep

LEMMA TurnConnect ==
  ASSUME TypeOK, TurnInv, NEW c \in Clients, Connect(c)
  PROVE  TurnInv'
<1> USE DEF clientVars, netVars, serverVars
<1>1. Waiting' = Waiting \cup {c}
  <2>1. pending \in Seq(Clients) /\ pending' = Append(pending, c)
    BY DEF TypeOK, Connect
  <2>2. /\ Len(pending) \in Nat /\ DOMAIN pending = 1 .. Len(pending)
        /\ DOMAIN pending' = 1 .. Len(pending) + 1
        /\ \A i \in 1 .. Len(pending) : pending'[i] = pending[i]
        /\ pending'[Len(pending) + 1] = c
    BY <2>1, AppendProperties, LenProperties
  <2> QED BY <2>2 DEF Waiting
<1> QED BY <1>1 DEF Connect, TurnInv, NoneAbandoned, TypeOK

LEMMA TurnServer ==
  ASSUME TypeOK, TurnInv, ServerStep \/ ServerKilled
  PROVE  TurnInv'
<1> USE DEF clientVars, netVars, serverVars
<1>1. CASE Accept
  <2>1. Waiting \subseteq Waiting' \cup {Head(pending)}
    <3>1. pending \in Seq(Clients) /\ pending # <<>> /\ pending' = Tail(pending)
      BY <1>1 DEF Accept, TypeOK
    <3>2. /\ Len(pending) \in Nat /\ DOMAIN pending = 1 .. Len(pending)
          /\ DOMAIN pending' = 1 .. Len(pending) - 1
          /\ \A i \in 1 .. Len(pending) - 1 : pending'[i] = pending[i + 1]
          /\ Head(pending) = pending[1]
      BY <3>1, HeadTailProperties, LenProperties
    <3>3. ASSUME NEW i \in DOMAIN pending
          PROVE  pending[i] \in Waiting' \cup {Head(pending)}
      <4>1. CASE i = 1
        BY <3>2, <4>1
      <4>2. CASE i # 1
        <5>1. i - 1 \in DOMAIN pending' /\ pending'[i - 1] = pending[i]
          BY <3>2, <4>2
        <5> QED BY <5>1 DEF Waiting
      <4> QED BY <4>1, <4>2
    <3> QED BY <3>3 DEF Waiting
  <2>2. current = NoClient /\ current' = Head(pending) /\ server' = "serve"
    BY <1>1 DEF Accept, TurnInv
  <2>3. UNCHANGED <<client, link, way>>
    BY <1>1 DEF Accept
  <2> QED BY <2>1, <2>2, <2>3, ClientsAssumption DEF TurnInv, NoneAbandoned
<1>2. CASE PrintText
  <2>1. /\ UNCHANGED <<client, link, pending, current, server>>
        /\ \A c \in Clients : c # current => way'[c] = way[c]
    BY <1>2 DEF PrintText, TypeOK
  <2>2. Waiting' = Waiting
    BY <2>1 DEF Waiting
  <2> QED BY <2>1, <2>2 DEF TurnInv, NoneAbandoned
<1>3. CASE AcceptFails \/ NextClient \/ ServerKilled
  <2>1. Waiting' = Waiting
    BY <1>3 DEF AcceptFails, NextClient, ServerKilled, Waiting
  <2> QED BY <1>3, <2>1 DEF AcceptFails, NextClient, ServerKilled, TurnInv, NoneAbandoned
<1> QED BY <1>1, <1>2, <1>3 DEF ServerStep

LEMMA TurnStep ==
  ASSUME TypeOK, TurnInv, [Next]_vars
  PROVE  TurnInv'
<1>1. CASE Next
  BY <1>1, TurnClient, TurnConnect, TurnServer DEF Next
<1>2. CASE UNCHANGED vars
  BY <1>2 DEF vars, clientVars, netVars, serverVars, TurnInv, NoneAbandoned, Waiting
<1> QED BY <1>1, <1>2

(* However many clients there are, and however the network cuts what they  *)
(* send, the server turns to the next one when the last one has ended and  *)
(* everything it sent has been read.                                       *)
THEOREM ServedToTheEnd == Spec => []NoneAbandoned
<1>1. Init => TypeOK /\ TurnInv
  BY TypeInit, TurnInit
<1>2. TypeOK /\ TurnInv /\ [Next]_vars => (TypeOK /\ TurnInv)'
  BY TypeStep, TurnStep
<1>3. TurnInv => NoneAbandoned
  BY DEF TurnInv
<1> QED BY <1>1, <1>2, <1>3, PTL DEF Spec

-----------------------------------------------------------------------------
(* Where the programs can stand still.                                     *)

(* Who is connected has started, and a client that runs is connected.      *)
StartedInv ==
  /\ \A c \in Clients : client[c] \in {"read", "write"} => link[c] # "none"
  /\ \A i \in DOMAIN pending : client[pending[i]] # "none"
  /\ server = "serve" => client[current] # "none"

(* What the server and a client cannot go on from unless somebody else     *)
(* does something: accept() or read() with nothing there, write() with no  *)
(* room; the last, unless it is reset.                                     *)
ServerBlocked ==
  \/ server = "ended"
  \/ server = "accept" /\ left > 0 /\ pending = <<>>
  \/ server = "serve" /\ way[current] = <<>> /\ client[current] # "ended"
ClientBlocked(c) ==
  /\ client[c] = "write" => link[c] # "reset" /\ Len(way[c]) + Max > Room
  /\ server = "ended" /\ link[c] = "up" => way[c] = <<>> /\ c \notin Waiting
AllBlocked == ServerBlocked /\ \A c \in Clients : ClientBlocked(c)

(* The server waits for a client that has nothing to write.                *)
Idle == server = "serve" /\ client[current] = "read"

LEMMA StartedInit == Init => StartedInv
BY DEF Init, StartedInv

LEMMA StartedClient ==
  ASSUME TypeOK, StartedInv, NEW c \in Clients,
         ConnectFails(c) \/ ReadInput(c) \/ ClientStep(c) \/ Ends(c) \/ Reset(c)
  PROVE  StartedInv'
<1>1. /\ UNCHANGED <<pending, server, current>>
      /\ client' = client \/ \E x \in {"read", "write", "ended"} : client' = [client EXCEPT ![c] = x]
      /\ link' = link \/ link' = [link EXCEPT ![c] = "reset"]
      /\ client'[c] \in {"read", "write"} => link'[c] # "none"
  BY DEF ConnectFails, ReadInput, ClientStep, Write, WriteFails, Ends, Reset, clientVars, netVars,
     serverVars, TypeOK, StartedInv
<1>2. /\ client \in [Clients -> {"none", "read", "write", "ended"}]
      /\ link \in [Clients -> {"none", "up", "reset"}]
      /\ server = "serve" => current \in Clients
      /\ \A i \in DOMAIN pending : pending[i] \in Clients
  BY LenProperties, ElementOfSeq DEF TypeOK
<1>3. \A d \in Clients : /\ client[d] # "none" => client'[d] # "none"
                         /\ d # c => client'[d] = client[d] /\ link'[d] = link[d]
  BY <1>1, <1>2
<1> QED BY <1>1, <1>2, <1>3 DEF StartedInv

LEMMA StartedConnect ==
  ASSUME TypeOK, StartedInv, NEW c \in Clients, Connect(c)
  PROVE  StartedInv'
<1>1. /\ UNCHANGED <<server, current>> /\ pending' = Append(pending, c)
      /\ client' = [client EXCEPT ![c] = "read"] /\ link' = [link EXCEPT ![c] = "up"]
  BY DEF Connect, serverVars
<1>2. /\ client \in [Clients -> {"none", "read", "write", "ended"}]
      /\ link \in [Clients -> {"none", "up", "reset"}]
      /\ server = "serve" => current \in Clients
      /\ pending \in Seq(Clients)
  BY DEF TypeOK
<1>3. /\ Len(pending) \in Nat /\ DOMAIN pending = 1 .. Len(pending)
      /\ DOMAIN pending' = 1 .. Len(pending) + 1
      /\ \A i \in 1 .. Len(pending) : pending'[i] = pending[i] /\ pending[i] \in Clients
      /\ pending'[Len(pending) + 1] = c
  BY <1>1, <1>2, AppendProperties, LenProperties, ElementOfSeq
<1>4. \A d \in Clients : /\ client[d] # "none" => client'[d] # "none"
                         /\ client'[d] \in {"read", "write"} => link'[d] # "none"
  BY <1>1, <1>2 DEF StartedInv
<1>5. \A i \in DOMAIN pending' : client'[pending'[i]] # "none"
  <2>1. ASSUME NEW i \in DOMAIN pending' PROVE client'[pending'[i]] # "none"
    <3>1. CASE i = Len(pending) + 1
      BY <1>1, <1>2, <1>3, <3>1
    <3>2. CASE i \in 1 .. Len(pending)
      BY <1>3, <1>4, <3>2 DEF StartedInv
    <3> QED BY <1>3, <3>1, <3>2
  <2> QED BY <2>1
<1> QED BY <1>1, <1>2, <1>4, <1>5 DEF StartedInv

LEMMA StartedServer ==
  ASSUME TypeOK, StartedInv, ServerStep \/ ServerKilled
  PROVE  StartedInv'
<1>1. UNCHANGED <<client, link>>
  BY DEF ServerStep, ServerKilled, Accept, AcceptFails, PrintText, NextClient, clientVars, netVars
<1>2. CASE Accept
  <2>1. /\ pending \in Seq(Clients) /\ pending # <<>> /\ pending' = Tail(pending)
        /\ current' = Head(pending)
    BY <1>2 DEF Accept, TypeOK
  <2>2. /\ Len(pending) \in Nat \ {0} /\ DOMAIN pending = 1 .. Len(pending)
        /\ DOMAIN pending' = 1 .. Len(pending) - 1
        /\ \A i \in 1 .. Len(pending) - 1 : pending'[i] = pending[i + 1]
        /\ Head(pending) = pending[1]
    BY <2>1, HeadTailProperties, LenProperties, EmptySeq
  <2>3. \A i \in 1 .. Len(pending) - 1 : i + 1 \in DOMAIN pending
    BY ONLY <2>2
  <2>4. 1 \in DOMAIN pending
    BY ONLY <2>2
  <2> QED BY <1>1, <2>1, <2>2, <2>3, <2>4 DEF StartedInv
<1>3. CASE PrintText
  BY <1>1, <1>3 DEF PrintText, StartedInv
<1>4. CASE AcceptFails \/ NextClient \/ ServerKilled
  <2>1. pending' = pending /\ server' \in {"accept", "ended"}
    BY <1>4 DEF AcceptFails, NextClient, ServerKilled, netVars
  <2> QED BY <1>1, <2>1 DEF StartedInv
<1> QED BY <1>2, <1>3, <1>4 DEF ServerStep

LEMMA StartedStep == TypeOK /\ StartedInv /\ [Next]_vars => StartedInv'
<1> SUFFICES ASSUME TypeOK, StartedInv, [Next]_vars PROVE StartedInv'
  OBVIOUS
<1>1. CASE UNCHANGED vars
  BY <1>1 DEF vars, clientVars, netVars, serverVars, StartedInv
<1> QED BY <1>1, StartedClient, StartedConnect, StartedServer DEF Next

(* No two programs wait for each other: when nobody can go on, a client    *)
(* that writes is one that has not been accepted, and the server is busy   *)
(* with a client that has nothing to write; nobody waits to be accepted    *)
(* but for that reason, or because the server has ended.                   *)
THEOREM StandsStillOnlyForIdle ==
  Spec => [](AllBlocked => /\ \A c \in Clients : client[c] = "write" => Idle /\ c \in Waiting
                           /\ Waiting # {} => Idle \/ server = "ended")
<1> DEFINE Still == AllBlocked => /\ \A c \in Clients : client[c] = "write" => Idle /\ c \in Waiting
                                  /\ Waiting # {} => Idle \/ server = "ended"
<1>1. TypeOK /\ TurnInv /\ StartedInv => Still
  <2> SUFFICES ASSUME TypeOK, TurnInv, StartedInv, AllBlocked
               PROVE  /\ \A c \in Clients : client[c] = "write" => Idle /\ c \in Waiting
                      /\ Waiting # {} => Idle \/ server = "ended"
    OBVIOUS
  <2>1. ServerBlocked /\ \A c \in Clients : ClientBlocked(c)
    BY DEF AllBlocked
  <2>2. \A c \in Clients : client[c] = "write" => link[c] # "reset" /\ way[c] # <<>>
    <3>1. Max \in Nat /\ Room \in Nat /\ Room >= Max
      BY MaxAssumption, RoomAssumption
    <3>2. \A c \in Clients : client[c] = "write" => link[c] # "reset" /\ Len(way[c]) + Max > Room
      BY <2>1 DEF ClientBlocked
    <3>3. \A c \in Clients : way[c] = <<>> => Len(way[c]) = 0
      OBVIOUS
    <3> QED BY <3>1, <3>2, <3>3
  <2>3. CASE server = "ended"
    <3>1. ASSUME NEW c \in Clients, client[c] = "write" PROVE FALSE
      <4>1. link[c] \in {"none", "up", "reset"} /\ link[c] # "none"
        BY <3>1 DEF TypeOK, StartedInv
      <4>2. link[c] = "up" => way[c] = <<>>
        BY <2>1, <2>3 DEF ClientBlocked
      <4> QED BY <2>2, <3>1, <4>1, <4>2
    <3> QED BY <2>3, <3>1
  <2>4. CASE server = "accept"
    <3>1. Waiting = {}
      BY <2>1, <2>4 DEF ServerBlocked, Waiting
    <3>2. ASSUME NEW c \in Clients, client[c] = "write" PROVE FALSE
      <4>1. current = NoClient /\ c # current
        BY <2>4, ClientsAssumption DEF TurnInv
      <4>2. link[c] # "none"
        BY <3>2 DEF StartedInv
      <4> QED BY <3>1, <3>2, <4>1, <4>2 DEF TurnInv, NoneAbandoned
    <3> QED BY <3>1, <3>2
  <2>5. CASE server = "serve"
    <3>1. /\ current \in Clients /\ client[current] \in {"none", "read", "write", "ended"}
          /\ way[current] = <<>> /\ client[current] # "ended"
      BY <2>1, <2>5 DEF ServerBlocked, TypeOK
    <3>2. client[current] # "none" /\ client[current] # "write"
      BY <2>2, <2>5, <3>1 DEF StartedInv
    <3>3. Idle
      BY <2>5, <3>1, <3>2 DEF Idle
    <3>4. ASSUME NEW c \in Clients, client[c] = "write" PROVE c \in Waiting
      <4>1. c # current /\ link[c] # "none"
        BY <3>2, <3>4 DEF StartedInv
      <4> QED BY <3>4, <4>1 DEF TurnInv, NoneAbandoned
    <3> QED BY <3>3, <3>4
  <2> QED BY <2>3, <2>4, <2>5 DEF TypeOK
<1>2. Init => TypeOK /\ TurnInv /\ StartedInv
  BY TypeInit, TurnInit, StartedInit
<1>3. TypeOK /\ TurnInv /\ StartedInv /\ [Next]_vars => (TypeOK /\ TurnInv /\ StartedInv)'
  BY TypeStep, TurnStep, StartedStep
<1> QED BY <1>1, <1>2, <1>3, PTL DEF Spec

-----------------------------------------------------------------------------
(* What becomes of the bytes typed at a client.  Of one client, s is what  *)
(* the server has printed, w what is on the way to it, r the client's      *)
(* buffer, n how many bytes it has read, and place where it is.            *)

Below(s, t) == \A i \in Typed(s), j \in Typed(t) : s[i] < t[j]
Within(s, n) == \A i \in Typed(s) : s[i] <= n

(* However reads cut it, the three hold rising numbers, one after the      *)
(* other, and a buffer that is read into next holds none.                  *)
Ordered(s, w, r, n, place) ==
  /\ Rising(s) /\ Rising(w) /\ Below(s, w)
  /\ place # "ended" => Rising(r) /\ Below(s, r) /\ Below(w, r)
  /\ Within(s, n) /\ Within(w, n) /\ Within(r, n)
  /\ place \in {"none", "read"} => Typed(r) = {}

OrderInv == /\ Typed(buffer) = {}
            /\ \A c \in Clients : Ordered(shown[c], way[c], record[c], typed[c], client[c])

(* One step as the bytes of client c see it.                               *)
Rests(c) == /\ shown'[c] = shown[c] /\ way'[c] = way[c] /\ record'[c] = record[c]
            /\ typed'[c] = typed[c]
            /\ \/ client'[c] = client[c] \/ client'[c] = "ended"
               \/ client[c] = "none" /\ client'[c] = "read"

Fills(f, r, n, k) == f = Filled([i \in 1 .. k |-> n + i], r)
Reads(c) == \E k \in 1 .. Max :
              /\ client[c] = "read" /\ client'[c] = "write"
              /\ Fills(record'[c], record[c], typed[c], k)
              /\ typed'[c] = typed[c] + k
              /\ shown'[c] = shown[c] /\ way'[c] = way[c]

Writes(c) == /\ client[c] = "write" /\ client'[c] = "read"
             /\ way'[c] = way[c] \o record[c] /\ record'[c] = Blank
             /\ shown'[c] = shown[c] /\ typed'[c] = typed[c]

PrintsOf(c, k, n) ==
  LET mem == Filled(First(way[c], k), buffer)
  IN  /\ StrLen(mem, n)
      /\ shown'[c] = shown[c] \o First(Walk(mem), n)
      /\ way'[c] = From(way[c], k + 1)
      /\ c \in whole' => k = Max
      /\ record'[c] = record[c] /\ typed'[c] = typed[c] /\ client'[c] = client[c]

Prints(c) == \E k \in Amounts(way[c], Max), n \in 0 .. Max + over : PrintsOf(c, k, n)

LEMMA EachMoves ==
  ASSUME TypeOK, [Next]_vars, NEW c \in Clients
  PROVE  /\ Rests(c) \/ Reads(c) \/ Writes(c) \/ Prints(c)
         /\ whole' \subseteq whole /\ over' = over
<1> USE DEF clientVars, netVars, serverVars
<1>1. CASE UNCHANGED vars
  BY <1>1 DEF vars, Rests
<1>2. CASE ServerKilled \/ Accept \/ AcceptFails \/ NextClient
  BY <1>2 DEF ServerKilled, Accept, AcceptFails, NextClient, Rests
<1>3. CASE PrintText
  <2>1. PICK k \in Amounts(way[current], Max), n \in 0 .. Max + over :
          LET mem == Filled(First(way[current], k), buffer)
          IN  /\ StrLen(mem, n)
              /\ shown' = [shown EXCEPT ![current] = @ \o First(Walk(mem), n)]
              /\ way' = [way EXCEPT ![current] = From(@, k + 1)]
              /\ whole' = IF k = Max THEN whole ELSE whole \ {current}
    BY <1>3 DEF PrintText
  <2>2. UNCHANGED <<record, typed, client, over>>
    BY <1>3 DEF PrintText
  <2>3. whole' \subseteq whole
    BY <2>1
  <2>4. CASE c = current
    <3>1. PrintsOf(c, k, n)
      BY <2>1, <2>2, <2>4 DEF PrintsOf, TypeOK
    <3> QED BY <2>1, <2>2, <2>3, <2>4, <3>1 DEF Prints
  <2>5. CASE c # current
    BY <2>1, <2>2, <2>3, <2>5 DEF TypeOK, Rests
  <2> QED BY <2>4, <2>5
<1>4. ASSUME NEW d \in Clients, ReadInput(d)
      PROVE  (Rests(c) \/ Reads(c)) /\ whole' = whole /\ over' = over
  <2>1. input[d] \in Seq(Nat \ {0}) /\ input[d] # <<>> /\ Max \in Nat \ {0}
    BY <1>4, MaxAssumption DEF ReadInput, TypeOK
  <2>2. LineCut(input[d], Max) \in 1 .. Max
    BY <2>1, LineFacts
  <2>3. UNCHANGED <<shown, way, whole, over>>
    BY <1>4 DEF ReadInput
  <2>4. CASE c = d
    BY <1>4, <2>2, <2>3, <2>4 DEF ReadInput, Reads, Fills, TypeOK
  <2>5. CASE c # d
    BY <1>4, <2>3, <2>5 DEF ReadInput, Rests, TypeOK
  <2> QED BY <2>3, <2>4, <2>5
<1>5. ASSUME NEW d \in Clients, Write(d)
      PROVE  (Rests(c) \/ Writes(c)) /\ whole' = whole /\ over' = over
  <2>1. UNCHANGED <<shown, typed, whole, over>>
    BY <1>5 DEF Write
  <2>2. CASE c = d
    BY <1>5, <2>1, <2>2 DEF Write, Writes, TypeOK
  <2>3. CASE c # d
    BY <1>5, <2>1, <2>3 DEF Write, Rests, TypeOK
  <2> QED BY <2>1, <2>2, <2>3
<1>6. ASSUME NEW d \in Clients,
             Connect(d) \/ ConnectFails(d) \/ WriteFails(d) \/ Ends(d) \/ Reset(d)
      PROVE  Rests(c) /\ whole' = whole /\ over' = over
  <2>1. UNCHANGED <<shown, way, record, typed, whole, over>>
    BY <1>6 DEF Connect, ConnectFails, WriteFails, Ends, Reset
  <2>2. \/ client'[c] = client[c] \/ client'[c] = "ended"
        \/ client[c] = "none" /\ client'[c] = "read"
    BY <1>6 DEF Connect, ConnectFails, WriteFails, Ends, Reset, TypeOK
  <2> QED BY <2>1, <2>2 DEF Rests
<1> QED BY <1>1, <1>2, <1>3, <1>4, <1>5, <1>6 DEF Next, ServerStep, ClientStep

(* What a client has read into a buffer that held nothing typed.           *)
LEMMA FilledInput ==
  ASSUME NEW r \in Buffer, Typed(r) = {}, NEW n \in Nat, NEW k \in 1 .. Max,
         NEW f, Fills(f, r, n, k)
  PROVE  /\ f \in Buffer /\ Typed(f) = 1 .. k
         /\ \A i \in 1 .. k : f[i] = n + i
         /\ \A i \in 1 .. Max : i > k => f[i] = r[i]
<1> DEFINE data == [i \in 1 .. k |-> n + i]
<1>1. k \in Nat /\ Max \in Nat /\ k <= Max
  BY MaxAssumption
<1>2. data \in [1 .. k -> Nat]
  BY <1>1
<1>3. data \in Seq(Byte) /\ Len(data) = k /\ \A i \in 1 .. k : data[i] = n + i
  <2>1. data \in [1 .. k -> Byte]
    BY <1>2 DEF Byte
  <2>2. \A i \in 1 .. k : data[i] = n + i
    OBVIOUS
  <2> HIDE DEF data
  <2>3. data \in Seq(Byte)
    BY <1>1, <2>1, SeqDef
  <2>4. Len(data) = k
    BY <1>1, <2>1, <2>3, LenProperties
  <2> QED BY <2>2, <2>3, <2>4
<1>4. f = Filled(data, r)
  BY DEF Fills
<1> HIDE DEF data
<1>5. f \in Buffer
  BY <1>3, <1>4, FilledFacts
<1>6. /\ \A i \in 1 .. k : f[i] = n + i
      /\ \A i \in 1 .. Max : i > k => f[i] = r[i]
  BY <1>1, <1>3, <1>4 DEF Filled
<1>7. Len(f) = Max /\ Len(r) = Max
  BY <1>5, BufferFacts
<1>8. \A i \in 1 .. Max : ~(r[i] > Junk)
  BY <1>7 DEF Typed
<1>9. \A i \in 1 .. Max : i <= k \/ i > k
  BY <1>1
<1>10. \A i \in 1 .. Max : f[i] > Junk <=> i <= k
  <2> SUFFICES ASSUME NEW i \in 1 .. Max PROVE f[i] > Junk <=> i <= k
    OBVIOUS
  <2>1. CASE i <= k
    <3>1. i \in 1 .. k /\ f[i] = n + i
      BY <1>1, <1>6, <2>1
    <3> QED BY <2>1, <3>1 DEF Junk
  <2>2. CASE i > k
    BY <1>1, <1>6, <1>8, <2>2
  <2> QED BY <1>9, <2>1, <2>2
<1>11. Typed(f) = 1 .. k
  BY <1>1, <1>7, <1>10 DEF Typed
<1> QED BY <1>5, <1>6, <1>11

LEMMA TypedNone == Typed(Blank) = {} /\ Typed(<<>>) = {}
<1>1. Len(Blank) = Max /\ \A i \in 1 .. Max : Blank[i] = Null
  BY BlankFacts, BufferFacts DEF Blank
<1>2. Typed(Blank) = {}
  BY <1>1 DEF Typed, Null, Junk
<1>3. Typed(<<>>) = {}
  BY EmptySeq DEF Typed
<1> QED BY <1>2, <1>3

LEMMA TypedFacts ==
  ASSUME NEW s \in Seq(Int)
  PROVE  Len(s) \in Nat /\ \A i \in Typed(s) : i \in Nat /\ i \in 1 .. Len(s) /\ s[i] \in Int
BY LenProperties, ElementOfSeq DEF Typed

LEMMA JoinRises ==
  ASSUME NEW s \in Seq(Int), NEW t \in Seq(Int)
  PROVE  /\ Rising(s) /\ Rising(t) /\ Below(s, t) => Rising(s \o t)
         /\ \A u : Below(s, u) /\ Below(t, u) => Below(s \o t, u)
         /\ \A u : Below(u, s) /\ Below(u, t) => Below(u, s \o t)
         /\ \A n : Within(s, n) /\ Within(t, n) => Within(s \o t, n)
<1> DEFINE w == s \o t
<1>1. /\ Typed(w) = Typed(s) \cup {Len(s) + i : i \in Typed(t)}
      /\ Len(s) \in Nat /\ Typed(s) \subseteq 1 .. Len(s) /\ Typed(t) \subseteq Nat \ {0}
      /\ \A i \in Typed(s) : w[i] = s[i] /\ s[i] \in Int
      /\ \A i \in Typed(t) : w[Len(s) + i] = t[i] /\ t[i] \in Int
  BY TypedJoin
<1> HIDE DEF w
<1>2. ASSUME Rising(s), Rising(t), Below(s, t) PROVE Rising(w)
  <2> SUFFICES ASSUME NEW i \in Typed(w), NEW j \in Typed(w), i < j PROVE w[i] < w[j]
    BY DEF Rising
  <2>1. CASE i \in Typed(s) /\ j \in Typed(s)
    BY <1>1, <1>2, <2>1 DEF Rising
  <2>2. CASE i \in Typed(s) /\ j \notin Typed(s)
    BY <1>1, <1>2, <2>2 DEF Below
  <2>3. CASE i \notin Typed(s)
    <3>1. PICK x \in Typed(t) : i = Len(s) + x
      BY <1>1, <2>3
    <3>2. j \notin Typed(s)
      BY <1>1, <3>1
    <3>3. PICK y \in Typed(t) : j = Len(s) + y
      BY <1>1, <3>2
    <3>4. x < y
      BY <1>1, <3>1, <3>3
    <3> QED BY <1>1, <1>2, <3>1, <3>3, <3>4 DEF Rising
  <2> QED BY <2>1, <2>2, <2>3
<1>3. \A u : Below(s, u) /\ Below(t, u) => Below(w, u)
  BY <1>1 DEF Below
<1>4. \A u : Below(u, s) /\ Below(u, t) => Below(u, w)
  BY <1>1 DEF Below
<1>5. \A n : Within(s, n) /\ Within(t, n) => Within(w, n)
  BY <1>1 DEF Within
<1> QED BY <1>2, <1>3, <1>4, <1>5 DEF w

(* What a read leaves on the way.                                          *)
RestOf(rest, w, k) == \A i \in Typed(rest) : /\ i \in Nat /\ 0 < i
                                             /\ k + i \in Typed(w) /\ rest[i] = w[k + i]
TailOf(rest, w, k) == \A i \in 1 .. Len(rest) : rest[i] = w[k + i]

LEMMA RestTyped ==
  ASSUME NEW w \in Seq(Int), NEW k \in 0 .. Len(w), NEW rest, rest = From(w, k + 1)
  PROVE  /\ rest \in Seq(Int) /\ Len(rest) = Len(w) - k /\ Len(w) \in Nat
         /\ TailOf(rest, w, k) /\ RestOf(rest, w, k)
<1>1. Len(w) \in Nat /\ k \in Nat /\ k + 1 \in Nat \ {0} /\ Len(w) \in 0 .. Len(w)
      /\ k + 1 <= Len(w) + 1
  BY LenProperties
<1>2. /\ SubSeq(w, k + 1, Len(w)) \in Seq(Int)
      /\ Len(SubSeq(w, k + 1, Len(w))) = Len(w) - (k + 1) + 1
      /\ \A i \in 1 .. Len(w) - (k + 1) + 1 : SubSeq(w, k + 1, Len(w))[i] = w[(k + 1) + i - 1]
  BY <1>1, PartFacts
<1>3. Len(w) - (k + 1) + 1 = Len(w) - k /\ \A i \in Nat : (k + 1) + i - 1 = k + i
  BY <1>1
<1>4. /\ rest \in Seq(Int) /\ Len(rest) = Len(w) - k
      /\ \A i \in 1 .. Len(rest) : rest[i] = w[k + i]
  <2>1. rest = SubSeq(w, k + 1, Len(w))
    BY DEF From
  <2>2. Len(rest) \in Nat
    BY <1>2, <2>1, LenProperties
  <2>3. \A i \in 1 .. Len(rest) : i \in Nat /\ rest[i] = w[(k + 1) + i - 1]
    BY <1>2, <2>1, <2>2
  <2> QED BY <1>2, <1>3, <2>1, <2>3
<1>5. \A i \in 1 .. Len(rest) : i \in Nat /\ 0 < i /\ k + i \in 1 .. Len(w)
  BY <1>1, <1>4
<1>6. RestOf(rest, w, k)
  BY <1>4, <1>5 DEF Typed, RestOf
<1> QED BY <1>1, <1>4, <1>6 DEF TailOf

(* What one read prints of what was on the way.                            *)
FrontOf(t, w, k) == \A i \in Typed(t) : i \in Typed(w) /\ i <= k /\ t[i] = w[i]

LEMMA PrintedText ==
  ASSUME buffer \in Buffer, over \in 0 .. 1, Typed(buffer) = {},
         NEW w \in Seq(Byte), NEW k \in Amounts(w, Max), NEW n \in 0 .. Max + over,
         NEW mem, mem = Filled(First(w, k), buffer), StrLen(mem, n),
         NEW t, t = First(Walk(mem), n)
  PROVE  /\ t \in Seq(Nat) /\ Len(t) = n /\ k \in 1 .. Max /\ k \in 0 .. Len(w)
         /\ mem \in Buffer /\ \A i \in 1 .. k : mem[i] = w[i]
         /\ FrontOf(t, w, k)
<1>1. /\ k \in 1 .. Max /\ k \in 0 .. Len(w) /\ Len(w) \in Nat
      /\ k \in Nat /\ Max \in Nat /\ k <= Max
  BY LenProperties, MaxAssumption DEF Amounts
<1> DEFINE data == First(w, k)
<1>2. data \in Seq(Byte) /\ Len(data) = k /\ \A i \in 1 .. k : data[i] = w[i]
  <2>1. /\ 1 \in Nat \ {0} /\ 1 <= k + 1 /\ k - 1 + 1 = k /\ \A i \in Nat : 1 + i - 1 = i
    BY <1>1
  <2>2. /\ SubSeq(w, 1, k) \in Seq(Byte) /\ Len(SubSeq(w, 1, k)) = k - 1 + 1
        /\ \A i \in 1 .. k - 1 + 1 : SubSeq(w, 1, k)[i] = w[1 + i - 1]
    BY <1>1, <2>1, PartFacts
  <2>3. \A i \in 1 .. k : i \in Nat
    BY <1>1
  <2> QED BY <2>1, <2>2, <2>3 DEF First
<1>3. mem = Filled(data, buffer)
  OBVIOUS
<1> HIDE DEF data
<1>4. mem \in Buffer
  BY <1>2, <1>3, FilledFacts
<1>5. /\ \A i \in 1 .. k : mem[i] = w[i]
      /\ \A i \in 1 .. Max : i > k => mem[i] = buffer[i]
  <2>1. mem = [i \in 1 .. Max |-> IF i <= k THEN data[i] ELSE buffer[i]]
    BY <1>2, <1>3 DEF Filled
  <2>2. \A i \in 1 .. k : i \in 1 .. Max /\ i <= k
    BY <1>1
  <2>3. \A i \in 1 .. Max : i > k => ~(i <= k)
    BY <1>1
  <2> QED BY <1>2, <2>1, <2>2, <2>3
<1>6. \A i \in 1 .. Max : ~(buffer[i] > Junk)
  <2>1. Len(buffer) = Max
    BY BufferFacts
  <2> QED BY <2>1 DEF Typed
<1>7. t \in Seq(Nat) /\ Len(t) = n /\ \A i \in 1 .. n : t[i] = Walk(mem)[i]
  BY <1>4, TextFacts
<1>8. ASSUME NEW i \in Typed(t) PROVE i \in Typed(w) /\ i <= k /\ t[i] = w[i]
  <2>1. i \in 1 .. n /\ t[i] > Junk /\ t[i] = Walk(mem)[i] /\ n \in Nat /\ n <= Max + over
    BY <1>1, <1>7 DEF Typed
  <2>2. i <= Max
    <3>1. i > Max => i \in Max + 1 .. Max + over
      BY <1>1, <2>1
    <3>2. i > Max => t[i] = Junk
      BY <1>4, <2>1, <3>1, WalkFacts
    <3>3. ~(Junk > Junk)
      BY DEF Junk
    <3> QED BY <1>1, <2>1, <3>2, <3>3
  <2>3. i \in 1 .. Max /\ t[i] = mem[i]
    BY <1>1, <1>4, <2>1, <2>2, WalkFacts
  <2>4. i <= k
    BY <1>1, <1>5, <1>6, <2>1, <2>3
  <2>5. i \in 1 .. k /\ i \in 1 .. Len(w)
    BY <1>1, <2>1, <2>4
  <2> QED BY <1>5, <2>1, <2>3, <2>4, <2>5 DEF Typed
<1> QED BY <1>1, <1>4, <1>5, <1>7, <1>8 DEF FrontOf

LEMMA OrderedReads ==
  ASSUME NEW s \in Seq(Int), NEW w \in Seq(Int), NEW r \in Buffer, NEW n \in Nat,
         Ordered(s, w, r, n, "read"), NEW k \in 1 .. Max,
         NEW f, Fills(f, r, n, k)
  PROVE  Ordered(s, w, f, n + k, "write")
<1>1. Typed(r) = {}
  BY DEF Ordered
<1>2. Typed(f) = 1 .. k /\ \A i \in 1 .. k : f[i] = n + i
  BY <1>1, FilledInput
<1>3. /\ Within(s, n) /\ Within(w, n) /\ Rising(s) /\ Rising(w) /\ Below(s, w)
      /\ \A i \in Typed(s) : s[i] \in Int
      /\ \A i \in Typed(w) : w[i] \in Int
  BY TypedFacts DEF Ordered
<1>0. k \in Nat /\ \A i \in 1 .. k : i \in Nat /\ 0 < i /\ i <= k
  BY MaxAssumption
<1>4. Within(s, n + k) /\ Within(w, n + k) /\ Within(f, n + k)
  BY <1>0, <1>2, <1>3 DEF Within
<1>5. Rising(f)
  <2> SUFFICES ASSUME NEW i \in 1 .. k, NEW j \in 1 .. k, i < j PROVE f[i] < f[j]
    BY <1>2 DEF Rising
  <2> QED BY <1>0, <1>2
<1>6. Below(s, f) /\ Below(w, f)
  <2> SUFFICES ASSUME NEW j \in 1 .. k
               PROVE  /\ \A i \in Typed(s) : s[i] < f[j]
                      /\ \A i \in Typed(w) : w[i] < f[j]
    BY <1>2 DEF Below
  <2>1. f[j] = n + j /\ 0 < j /\ j \in Nat
    BY <1>0, <1>2
  <2> QED BY <1>3, <2>1 DEF Within
<1> QED BY <1>3, <1>4, <1>5, <1>6 DEF Ordered

LEMMA OrderedWrites ==
  ASSUME NEW s \in Seq(Int), NEW w \in Seq(Int), NEW r \in Seq(Int), NEW n \in Nat,
         Ordered(s, w, r, n, "write")
  PROVE  Ordered(s, w \o r, Blank, n, "read")
<1>1. /\ Rising(s) /\ Rising(w) /\ Below(s, w) /\ Rising(r) /\ Below(s, r) /\ Below(w, r)
      /\ Within(s, n) /\ Within(w, n) /\ Within(r, n)
  BY DEF Ordered
<1>2. Rising(w \o r) /\ Below(s, w \o r) /\ Within(w \o r, n)
  BY <1>1, JoinRises
<1>3. /\ Typed(Blank) = {} /\ Rising(Blank) /\ Within(Blank, n)
      /\ Below(s, Blank) /\ Below(w \o r, Blank)
  BY TypedNone DEF Rising, Within, Below
<1> QED BY <1>1, <1>2, <1>3 DEF Ordered

LEMMA OrderedPrints ==
  ASSUME NEW s \in Seq(Int), NEW w \in Seq(Int), NEW r, NEW n \in Nat, NEW place,
         Ordered(s, w, r, n, place), NEW k \in 0 .. Len(w), NEW t \in Seq(Int),
         FrontOf(t, w, k),
         NEW rest, rest = From(w, k + 1)
  PROVE  Ordered(s \o t, rest, r, n, place)
<1>1. /\ Rising(s) /\ Rising(w) /\ Below(s, w) /\ Within(s, n) /\ Within(w, n) /\ Within(r, n)
      /\ place # "ended" => Rising(r) /\ Below(s, r) /\ Below(w, r)
      /\ place \in {"none", "read"} => Typed(r) = {}
  BY DEF Ordered
<1>2. /\ rest \in Seq(Int) /\ Len(w) \in Nat /\ k \in Nat
      /\ \A i \in Typed(rest) : /\ i \in Nat /\ 0 < i
                                /\ k + i \in Typed(w) /\ rest[i] = w[k + i]
  <2>1. rest \in Seq(Int) /\ Len(w) \in Nat /\ RestOf(rest, w, k)
    BY RestTyped
  <2> QED BY <2>1 DEF RestOf
<1>3. \A i \in Typed(t) : i \in Nat
  BY TypedFacts
<1>0. \A i \in Typed(t) : i \in Typed(w) /\ i <= k /\ t[i] = w[i]
  BY DEF FrontOf
<1>4. Rising(t) /\ Within(t, n) /\ Below(s, t) /\ (place # "ended" => Below(t, r))
  BY <1>0, <1>1 DEF Rising, Within, Below
<1>5. Below(t, rest)
  <2> SUFFICES ASSUME NEW i \in Typed(t), NEW j \in Typed(rest) PROVE t[i] < rest[j]
    BY DEF Below
  <2>1. i < k + j /\ i \in Typed(w) /\ k + j \in Typed(w)
    BY <1>0, <1>2, <1>3
  <2> QED BY <1>0, <1>1, <1>2, <2>1 DEF Rising
<1>6. Rising(rest)
  <2> SUFFICES ASSUME NEW i \in Typed(rest), NEW j \in Typed(rest), i < j
               PROVE  rest[i] < rest[j]
    BY DEF Rising
  <2>1. k + i < k + j
    BY <1>2
  <2> QED BY <1>1, <1>2, <2>1 DEF Rising
<1>7. Within(rest, n) /\ Below(s, rest) /\ (place # "ended" => Below(rest, r))
  BY <1>1, <1>2 DEF Within, Below
<1>8. /\ Rising(s \o t) /\ Below(s \o t, rest) /\ Within(s \o t, n)
      /\ place # "ended" => Below(s \o t, r)
  BY <1>1, <1>4, <1>5, <1>7, JoinRises
<1> QED BY <1>1, <1>6, <1>7, <1>8 DEF Ordered

LEMMA OrderInit == Init => TypeOK /\ OrderInv
<1> SUFFICES ASSUME Init PROVE TypeOK /\ OrderInv
  OBVIOUS
<1>1. TypeOK
  BY TypeInit
<1>2. ASSUME NEW mem \in Memories PROVE Typed(mem) = {}
  <2>1. mem \in [1 .. Max -> {Null, Junk}] /\ mem \in Buffer
    BY MemoriesAssumption DEF Buffer, Byte, Junk
  <2>2. Len(mem) = Max
    BY <2>1, BufferFacts
  <2> QED BY <2>1, <2>2 DEF Typed, Null, Junk
<1>3. Typed(buffer) = {} /\ \A c \in Clients : Typed(record[c]) = {}
  BY <1>2 DEF Init
<1>4. ASSUME NEW c \in Clients PROVE Ordered(shown[c], way[c], record[c], typed[c], client[c])
  <2>1. shown[c] = <<>> /\ way[c] = <<>>
    BY DEF Init
  <2> QED BY <1>3, <2>1, TypedNone DEF Ordered, Rising, Below, Within
<1> QED BY <1>1, <1>3, <1>4 DEF OrderInv

(* What the types say of one client.                                       *)
LEMMA ClientTypes ==
  ASSUME TypeOK, NEW c \in Clients
  PROVE  /\ shown[c] \in Seq(Nat) /\ shown[c] \in Seq(Int)
         /\ way[c] \in Seq(Byte) /\ way[c] \in Seq(Int)
         /\ record[c] \in Buffer /\ record[c] \in Seq(Int) /\ Len(record[c]) = Max
         /\ typed[c] \in Nat /\ buffer \in Buffer /\ over \in 0 .. 1 /\ Max \in Nat \ {0}
<1>1. /\ shown[c] \in Seq(Nat) /\ way[c] \in Seq(Byte) /\ record[c] \in Buffer
      /\ typed[c] \in Nat /\ buffer \in Buffer /\ over \in 0 .. 1 /\ Max \in Nat \ {0}
  BY MaxAssumption DEF TypeOK
<1>2. record[c] \in Seq(Byte) /\ Len(record[c]) = Max
  BY <1>1, BufferFacts
<1>3. Byte \subseteq Int /\ Nat \subseteq Int
  BY DEF Byte, Null
<1>4. shown[c] \in Seq(Int) /\ way[c] \in Seq(Int) /\ record[c] \in Seq(Int)
  BY <1>1, <1>2, <1>3, SeqMonotonic
<1> QED BY <1>1, <1>2, <1>4

LEMMA OrderBuffer ==
  ASSUME TypeOK, OrderInv, [Next]_vars
  PROVE  Typed(buffer)' = {}
<1>1. CASE buffer' = buffer
  BY <1>1 DEF OrderInv, Typed
<1>2. CASE PrintText
  BY <1>2, TypedNone DEF PrintText, Typed
<1>3. CASE Accept
  <2>1. buffer \in Buffer /\ Len(buffer) = Max /\ Max \in Nat
    BY BufferFacts, MaxAssumption DEF TypeOK
  <2>2. buffer' = [i \in 1 .. Max |-> IF i <= Address THEN Junk
                                     ELSE IF i = Address + 1 THEN Null ELSE buffer[i]]
    BY <1>3 DEF Accept
  <2>3. Len(buffer') = Max
    BY <2>1, <2>2, LenProperties
  <2>4. \A i \in 1 .. Max : ~(buffer[i] > Junk)
    BY <2>1 DEF OrderInv, Typed
  <2>5. \A i \in 1 .. Max : ~(buffer'[i] > Junk)
    BY <2>2, <2>4 DEF Junk, Null
  <2> QED BY <2>3, <2>5 DEF Typed
<1>4. Accept \/ PrintText \/ buffer' = buffer
  BY DEF Next, ServerStep, ClientStep, Accept, PrintText, AcceptFails, NextClient, ServerKilled,
         Connect, ConnectFails, ReadInput, Write, WriteFails, Ends, Reset, vars, serverVars
<1> QED BY <1>1, <1>2, <1>3, <1>4

LEMMA OrderStep ==
  ASSUME TypeOK, OrderInv, [Next]_vars
  PROVE  OrderInv'
<1>1. ASSUME NEW c \in Clients
      PROVE  Ordered(shown'[c], way'[c], record'[c], typed'[c], client'[c])
  <2> DEFINE s == shown[c]
             w == way[c]
             r == record[c]
             n == typed[c]
  <2>1. /\ s \in Seq(Int) /\ w \in Seq(Byte) /\ w \in Seq(Int) /\ r \in Buffer /\ r \in Seq(Int)
        /\ n \in Nat /\ buffer \in Buffer /\ over \in 0 .. 1
    BY ClientTypes
  <2>2. Ordered(s, w, r, n, client[c]) /\ Typed(buffer) = {}
    BY DEF OrderInv
  <2> HIDE DEF s, w, r, n
  <2>3. CASE Rests(c)
    <3>1. /\ shown'[c] = s /\ way'[c] = w /\ record'[c] = r /\ typed'[c] = n
          /\ \/ client'[c] = client[c] \/ client'[c] = "ended"
             \/ client[c] = "none" /\ client'[c] = "read"
      BY <2>3 DEF Rests, s, w, r, n
    <3> QED BY <2>2, <3>1 DEF Ordered
  <2>4. CASE Reads(c)
    <3>1. PICK k \in 1 .. Max :
            /\ client[c] = "read" /\ client'[c] = "write"
            /\ Fills(record'[c], r, n, k) /\ typed'[c] = n + k
            /\ shown'[c] = s /\ way'[c] = w
      BY <2>4 DEF Reads, s, w, r, n
    <3>2. Ordered(s, w, record'[c], n + k, "write")
      BY <2>1, <2>2, <3>1, OrderedReads
    <3> QED BY <3>1, <3>2
  <2>5. CASE Writes(c)
    <3>1. /\ client[c] = "write" /\ client'[c] = "read" /\ way'[c] = w \o r
          /\ record'[c] = Blank /\ shown'[c] = s /\ typed'[c] = n
      BY <2>5 DEF Writes, s, w, r, n
    <3>2. Ordered(s, w \o r, Blank, n, "read")
      BY <2>1, <2>2, <3>1, OrderedWrites
    <3> QED BY <3>1, <3>2
  <2>6. CASE Prints(c)
    <3>1. PICK k \in Amounts(w, Max), m \in 0 .. Max + over : PrintsOf(c, k, m)
      BY <2>6 DEF Prints, w
    <3> DEFINE mem == Filled(First(w, k), buffer)
               t == First(Walk(mem), m)
    <3>2. /\ StrLen(mem, m) /\ shown'[c] = s \o t /\ way'[c] = From(w, k + 1)
          /\ record'[c] = r /\ typed'[c] = n /\ client'[c] = client[c]
      BY <3>1 DEF PrintsOf, s, w, r, n
    <3>3. t \in Seq(Nat) /\ k \in 0 .. Len(w) /\ FrontOf(t, w, k)
      BY <2>1, <2>2, <3>2, PrintedText
    <3> HIDE DEF mem, t
    <3>4. t \in Seq(Int)
      BY <3>3, SeqMonotonic
    <3>5. Ordered(s \o t, From(w, k + 1), r, n, client[c])
      BY <2>1, <2>2, <3>3, <3>4, OrderedPrints
    <3> QED BY <3>2, <3>5
  <2> QED BY <2>3, <2>4, <2>5, <2>6, EachMoves
<1> QED BY <1>1, OrderBuffer DEF OrderInv

-----------------------------------------------------------------------------
(* Clients of which every record is read whole.                            *)

(* A record begins with what was typed, and holds nothing typed after      *)
(* what was not.                                                           *)
Solid(s, x) == /\ s[x + 1] > Junk
               /\ \A i \in 1 .. Max : s[x + i] > Junk => \A j \in 1 .. i : s[x + j] > Junk

(* What is on the way is made of records.                                  *)
Records(w, borders) ==
  /\ 0 \in borders /\ Len(w) \in borders
  /\ \A x \in borders : x # Len(w) => x + Max \in borders /\ Solid(w, x)

Entire(s, w, r, n, place) ==
  /\ \E a, b \in 0 .. n : /\ InOrder(s, 0, a) /\ InOrder(w, a, b)
                          /\ place # "ended" => InOrder(r, b, n)
  /\ \E borders \in SUBSET (0 .. Len(w)) : Records(w, borders)
  /\ place = "write" => Solid(r, 0)

EntireInv == \A c \in whole : Entire(shown[c], way[c], record[c], typed[c], client[c])

LEMMA NothingTyped ==
  ASSUME NEW s, Typed(s) = {}
  PROVE  /\ \A a \in Nat : InOrder(s, a, a)
         /\ \A a, b \in Nat : InOrder(s, a, b) => a = b
<1>1. \A a \in Nat : InOrder(s, a, a)
  BY DEF InOrder
<1>2. ASSUME NEW a \in Nat, NEW b \in Nat, InOrder(s, a, b) PROVE a = b
  <2>1. a <= b /\ (a < b => b \in a + 1 .. b)
    BY <1>2 DEF InOrder
  <2> QED BY <1>2, <2>1 DEF InOrder
<1> QED BY <1>1, <1>2

LEMMA EntireReads ==
  ASSUME NEW s, NEW w, NEW r \in Buffer, NEW n \in Nat, Typed(r) = {},
         Entire(s, w, r, n, "read"), NEW k \in 1 .. Max, NEW f, Fills(f, r, n, k)
  PROVE  Entire(s, w, f, n + k, "write")
<1>1. /\ f \in Buffer /\ Typed(f) = 1 .. k /\ \A i \in 1 .. k : f[i] = n + i
  BY FilledInput
<1>2. k \in Nat /\ 1 <= k /\ k <= Max /\ Max \in Nat /\ Len(f) = Max
  BY <1>1, BufferFacts, MaxAssumption
<1>3. InOrder(f, n, n + k)
  <2>1. \A v \in n + 1 .. n + k : v - n \in 1 .. k /\ f[v - n] = v
    BY <1>1, <1>2
  <2>2. n <= n + k /\ \A i \in 1 .. k : f[i] \in n + 1 .. n + k
    BY <1>1, <1>2
  <2>3. \A i, j \in 1 .. k : i < j => f[i] < f[j]
    BY <1>1, <1>2
  <2> QED BY <1>1, <2>1, <2>2, <2>3 DEF InOrder
<1>4. Solid(f, 0)
  <2>1. f[0 + 1] > Junk
    BY <1>1, <1>2 DEF Junk
  <2>2. ASSUME NEW i \in 1 .. Max, f[0 + i] > Junk, NEW j \in 1 .. i PROVE f[0 + j] > Junk
    <3>1. i \in Typed(f)
      BY <1>2, <2>2 DEF Typed
    <3>2. j \in 1 .. k /\ 0 + j = j
      BY <1>1, <1>2, <3>1
    <3> QED BY <1>1, <3>2 DEF Junk
  <2> QED BY <2>1, <2>2 DEF Solid
<1>5. PICK a \in 0 .. n, b \in 0 .. n : InOrder(s, 0, a) /\ InOrder(w, a, b) /\ InOrder(r, b, n)
  BY DEF Entire
<1>6. b = n
  BY <1>5, NothingTyped
<1>7. a \in 0 .. n + k /\ b \in 0 .. n + k
  BY <1>2
<1>8. \E borders \in SUBSET (0 .. Len(w)) : Records(w, borders)
  BY DEF Entire
<1> QED BY <1>3, <1>4, <1>5, <1>6, <1>7, <1>8 DEF Entire

LEMMA EntireWrites ==
  ASSUME NEW s, NEW w \in Seq(Int), NEW r \in Seq(Int), Len(r) = Max, NEW n \in Nat,
         Entire(s, w, r, n, "write")
  PROVE  Entire(s, w \o r, Blank, n, "read")
<1> DEFINE v == w \o r
<1>1. /\ v \in Seq(Int) /\ Len(v) = Len(w) + Max /\ Len(w) \in Nat /\ Max \in Nat \ {0}
      /\ \A i \in 1 .. Len(w) : v[i] = w[i]
      /\ \A i \in 1 .. Max : v[Len(w) + i] = r[i]
  <2>1. Len(w) \in Nat /\ Max \in Nat \ {0}
    BY LenProperties, MaxAssumption
  <2>2. /\ v \in Seq(Int) /\ Len(v) = Len(w) + Max
        /\ \A i \in 1 .. Len(w) + Max : v[i] = IF i <= Len(w) THEN w[i] ELSE r[i - Len(w)]
    BY <2>1, ConcatProperties
  <2> HIDE DEF v
  <2>3. \A i \in 1 .. Len(w) : i \in 1 .. Len(w) + Max /\ i <= Len(w)
    BY <2>1
  <2>4. \A i \in 1 .. Max : /\ Len(w) + i \in 1 .. Len(w) + Max /\ ~(Len(w) + i <= Len(w))
                            /\ (Len(w) + i) - Len(w) = i
    BY <2>1
  <2> QED BY <2>1, <2>2, <2>3, <2>4
<1>2. PICK a \in 0 .. n, b \in 0 .. n : InOrder(s, 0, a) /\ InOrder(w, a, b) /\ InOrder(r, b, n)
  BY DEF Entire
<1>3. InOrder(v, a, n)
  BY <1>2, InOrderJoin
<1>4. InOrder(Blank, n, n)
  BY NothingTyped, TypedNone
<1> HIDE DEF v
<1>5. PICK R \in SUBSET (0 .. Len(w)) : Records(w, R)
  BY DEF Entire
<1> DEFINE S == R \cup {Len(w) + Max}
<1>6. S \in SUBSET (0 .. Len(v))
  <2>1. \A x \in 0 .. Len(w) : x \in 0 .. Len(v)
    BY <1>1
  <2>2. Len(w) + Max \in 0 .. Len(v)
    BY <1>1
  <2> QED BY <2>1, <2>2
<1>7. Records(v, S)
  <2>1. 0 \in S /\ Len(v) \in S
    BY <1>1, <1>5 DEF Records
  <2>2. ASSUME NEW x \in S, x # Len(v) PROVE x + Max \in S /\ Solid(v, x)
    <3>1. x \in R
      BY <1>1, <2>2
    <3>2. CASE x = Len(w)
      <4>1. /\ r[1] > Junk
            /\ \A i \in 1 .. Max : r[i] > Junk => \A j \in 1 .. i : r[j] > Junk
        BY DEF Entire, Solid
      <4>2. 1 \in 1 .. Max /\ \A i \in 1 .. Max : \A j \in 1 .. i : j \in 1 .. Max
        BY <1>1
      <4>3. Solid(v, x)
        BY <1>1, <3>2, <4>1, <4>2 DEF Solid
      <4> QED BY <3>2, <4>3
    <3>3. CASE x # Len(w)
      <4>1. x + Max \in R /\ Solid(w, x) /\ x \in Nat /\ x + Max <= Len(w)
        BY <1>1, <1>5, <3>1, <3>3 DEF Records
      <4>2. \A i \in 1 .. Max : i \in Nat /\ v[x + i] = w[x + i]
        <5>1. \A i \in 1 .. Max : i \in Nat /\ x + i \in 1 .. Len(w)
          BY <1>1, <4>1
        <5> QED BY <1>1, <5>1
      <4>3. 1 \in 1 .. Max /\ \A i \in 1 .. Max : \A j \in 1 .. i : j \in 1 .. Max
        BY <1>1
      <4>4. Solid(v, x)
        BY <4>1, <4>2, <4>3 DEF Solid
      <4> QED BY <4>1, <4>4
    <3> QED BY <3>2, <3>3
  <2> HIDE DEF S
  <2> QED BY <2>1, <2>2 DEF Records
<1>8. a \in 0 .. n /\ n \in 0 .. n
  OBVIOUS
<1>9. \E borders \in SUBSET (0 .. Len(v)) : Records(v, borders)
  BY <1>6, <1>7
<1>10. Entire(s, v, Blank, n, "read")
  BY <1>2, <1>3, <1>4, <1>8, <1>9 DEF Entire
<1> QED BY <1>10 DEF v

(* strlen() of a whole record finds all that was typed in it.              *)
AllOf(t, w, k) == \A i \in Typed(w) : i <= k => i \in Typed(t)

LEMMA WholeText ==
  ASSUME buffer \in Buffer, over \in 0 .. 1, Typed(buffer) = {},
         NEW w \in Seq(Byte), NEW k \in Amounts(w, Max), k = Max, NEW n \in 0 .. Max + over,
         NEW mem, mem = Filled(First(w, k), buffer), StrLen(mem, n),
         NEW t, t = First(Walk(mem), n), Solid(w, 0)
  PROVE  t # <<>> /\ AllOf(t, w, Max)
<1>1. /\ t \in Seq(Nat) /\ Len(t) = n /\ k \in 0 .. Len(w) /\ mem \in Buffer
      /\ \A i \in 1 .. k : mem[i] = w[i]
  BY PrintedText
<1>2. Max \in Nat \ {0} /\ n \in Nat /\ Len(w) \in Nat
  BY MaxAssumption, LenProperties
<1>3. /\ \A i \in 1 .. Max : Walk(mem)[i] = w[i]
      /\ Walk(mem)[n + 1] = Null
      /\ \A i \in 1 .. n : t[i] = Walk(mem)[i]
  BY <1>1, WalkFacts, TextFacts DEF StrLen
<1>4. /\ w[1] > Junk
      /\ \A i \in 1 .. Max : w[i] > Junk => \A j \in 1 .. i : w[j] > Junk
  <2>1. \A i \in 1 .. Max : 0 + i = i /\ \A j \in 1 .. i : 0 + j = j
    BY <1>2
  <2> QED BY <2>1 DEF Solid
<1>5. n # 0
  <2>1. n = 0 => w[1] = Null
    <3>1. 1 \in 1 .. Max /\ 0 + 1 = 1
      BY <1>2
    <3> QED BY <1>3, <3>1
  <2> QED BY <1>4, <2>1 DEF Null, Junk
<1>6. ASSUME NEW i \in Typed(w), i <= Max PROVE i \in Typed(t)
  <2>1. i \in Nat /\ i \in 1 .. Max /\ w[i] > Junk
    BY <1>2, <1>6 DEF Typed
  <2>2. i <= n
    <3>1. i > n => n + 1 \in 1 .. i /\ n + 1 \in 1 .. Max
      BY <1>2, <2>1
    <3>2. i > n => w[n + 1] > Junk /\ w[n + 1] = Null
      BY <1>3, <1>4, <2>1, <3>1
    <3> QED BY <1>2, <2>1, <3>2 DEF Null, Junk
  <2>3. i \in 1 .. n /\ t[i] = w[i]
    BY <1>3, <2>1, <2>2
  <2> QED BY <1>1, <2>1, <2>3 DEF Typed
<1>7. t # <<>>
  BY <1>1, <1>5, EmptySeq
<1> QED BY <1>6, <1>7 DEF AllOf

LEMMA EntirePrints ==
  ASSUME NEW s \in Seq(Int), NEW w \in Seq(Int), NEW r, NEW n \in Nat, NEW place,
         Entire(s, w, r, n, place), Max \in 0 .. Len(w), NEW t \in Seq(Int),
         FrontOf(t, w, Max), AllOf(t, w, Max), NEW rest, rest = From(w, Max + 1)
  PROVE  Entire(s \o t, rest, r, n, place)
<1> DEFINE front == First(w, Max)
<1>1. Max \in Nat \ {0} /\ Len(w) \in Nat /\ Max <= Len(w)
  BY MaxAssumption, LenProperties
<1>2. /\ front \in Seq(Int) /\ Len(front) = Max /\ rest \in Seq(Int)
      /\ Len(rest) = Len(w) - Max /\ front \o rest = w
  BY CutFacts
<1>3. \A i \in 1 .. Max : front[i] = w[i]
  <2>1. \A i \in 1 .. Max : (front \o rest)[i] = front[i]
    <3> HIDE DEF front
    <3>1. \A i \in 1 .. Len(front) + Len(rest) :
            (front \o rest)[i] = IF i <= Len(front) THEN front[i] ELSE rest[i - Len(front)]
      <4>1. front \in Seq(Int) /\ rest \in Seq(Int)
        BY <1>2
      <4> QED BY ONLY <4>1, ConcatProperties
    <3>2. \A i \in 1 .. Max : i \in 1 .. Len(front) + Len(rest) /\ i <= Len(front)
      BY <1>1, <1>2
    <3> QED BY <3>1, <3>2
  <2> QED BY <1>2, <2>1
<1>4. \A i \in 1 .. Len(rest) : rest[i] = w[Max + i]
  <2>1. TailOf(rest, w, Max)
    BY RestTyped
  <2> QED BY ONLY <2>1 DEF TailOf
<1> HIDE DEF front
<1>5. PICK a \in Nat, b \in Nat : /\ a \in 0 .. n /\ b \in 0 .. n
                                  /\ InOrder(s, 0, a) /\ InOrder(w, a, b)
                                  /\ place # "ended" => InOrder(r, b, n)
  BY DEF Entire
<1>6. PICK e \in Nat : InOrder(front, a, e) /\ InOrder(rest, e, b)
  BY <1>2, <1>5, InOrderCut
<1>7. InOrder(t, a, e)
  <2>1. \A i \in Typed(t) : i \in Typed(front) /\ t[i] = front[i]
    <3> SUFFICES ASSUME NEW i \in Typed(t) PROVE i \in Typed(front) /\ t[i] = front[i]
      OBVIOUS
    <3>1. i \in Typed(w) /\ i <= Max /\ t[i] = w[i]
      BY DEF FrontOf
    <3>2. i \in 1 .. Max
      BY <1>1, <3>1 DEF Typed
    <3> QED BY <1>2, <1>3, <3>1, <3>2 DEF Typed
  <2>2. \A i \in Typed(front) : i \in Typed(t)
    <3> SUFFICES ASSUME NEW i \in Typed(front) PROVE i \in Typed(t)
      OBVIOUS
    <3>1. i \in 1 .. Max /\ front[i] > Junk
      BY <1>2 DEF Typed
    <3>2. i \in Typed(w) /\ i <= Max
      BY <1>1, <1>3, <3>1 DEF Typed
    <3> QED BY <3>2 DEF AllOf
  <2> QED BY <1>6, <2>1, <2>2 DEF InOrder
<1>8. e \in 0 .. n
  <2>1. e <= b
    BY <1>6 DEF InOrder
  <2> QED BY <1>5, <2>1
<1>9. InOrder(s \o t, 0, e)
  BY <1>5, <1>7, InOrderJoin
<1>10. PICK R \in SUBSET (0 .. Len(w)) : Records(w, R)
  BY DEF Entire
<1> DEFINE S == {x \in 0 .. Len(rest) : x + Max \in R}
<1>11. Records(rest, S)
  <2>1. Len(rest) \in Nat /\ Len(rest) + Max = Len(w) /\ 0 # Len(w)
    BY <1>1, <1>2
  <2>2. 0 + Max \in R /\ Len(w) \in R
    BY <1>10, <2>1 DEF Records
  <2>3. 0 \in S /\ Len(rest) \in S
    <3>1. 0 \in 0 .. Len(rest) /\ Len(rest) \in 0 .. Len(rest)
      BY <2>1
    <3>2. Len(rest) + Max \in R
      BY <2>1, <2>2
    <3> QED BY <2>2, <3>1, <3>2, Zenon
  <2>4. ASSUME NEW x \in S, x # Len(rest) PROVE x + Max \in S /\ Solid(rest, x)
    <3>1. x \in Nat /\ x + Max \in R /\ x + Max # Len(w)
      BY <1>1, <2>1, <2>4
    <3>2. (x + Max) + Max \in R /\ Solid(w, x + Max)
      BY <1>10, <3>1 DEF Records
    <3>3. (x + Max) + Max <= Len(w)
      BY <3>2
    <3>4. x + Max \in S
      BY <1>1, <2>1, <3>1, <3>2, <3>3
    <3>5. \A i \in 1 .. Max : /\ i \in Nat /\ x + i \in 1 .. Len(rest)
                              /\ Max + (x + i) = (x + Max) + i
      BY <1>1, <2>1, <3>1, <3>3
    <3>6. \A i \in 1 .. Max : rest[x + i] = w[(x + Max) + i]
      BY <1>4, <3>5
    <3>7. 1 \in 1 .. Max /\ \A i \in 1 .. Max : \A j \in 1 .. i : j \in 1 .. Max
      BY <1>1
    <3>8. Solid(rest, x)
      BY <3>2, <3>6, <3>7 DEF Solid
    <3> QED BY <3>4, <3>8
  <2> HIDE DEF S
  <2> QED BY <2>3, <2>4 DEF Records
<1>12. S \in SUBSET (0 .. Len(rest))
  OBVIOUS
<1> HIDE DEF S
<1>13. \E borders \in SUBSET (0 .. Len(rest)) : Records(rest, borders)
  BY <1>11, <1>12
<1>14. place = "write" => Solid(r, 0)
  BY DEF Entire
<1> QED BY <1>5, <1>6, <1>8, <1>9, <1>13, <1>14 DEF Entire

(* What memory held is in the client's first record only, and so are the   *)
(* bytes that are printed of it.                                           *)
Strays(s, w, r, place) ==
  /\ \A i \in 1 .. Len(s) : s[i] = Junk => i <= Max
  /\ \A i \in 1 .. Len(w) : w[i] = Junk => s = <<>> /\ i <= Max
  /\ \A i \in 1 .. Max : r[i] = Junk => place = "ended" \/ (s = <<>> /\ w = <<>>)

StrayInv == over = 0 => \A c \in whole : Strays(shown[c], way[c], record[c], client[c])

LEMMA StraysRead ==
  ASSUME NEW s, NEW w, NEW r \in Buffer, NEW n \in Nat, Typed(r) = {}, Strays(s, w, r, "read"),
         NEW k \in 1 .. Max, NEW f, Fills(f, r, n, k)
  PROVE  Strays(s, w, f, "write")
<1>1. /\ \A i \in 1 .. k : f[i] = n + i
      /\ \A i \in 1 .. Max : i > k => f[i] = r[i]
  BY FilledInput
<1>2. k \in Nat /\ Max \in Nat
  BY MaxAssumption
<1>3. \A i \in 1 .. Max : f[i] = Junk => r[i] = Junk
  <2> SUFFICES ASSUME NEW i \in 1 .. Max, f[i] = Junk PROVE r[i] = Junk
    OBVIOUS
  <2>1. i \in 1 .. k => f[i] = n + i /\ i > 0
    BY <1>1, <1>2
  <2>2. i \notin 1 .. k
    BY <2>1 DEF Junk
  <2>3. i > k
    BY <1>2, <2>2
  <2> QED BY <1>1, <2>3
<1> QED BY <1>3 DEF Strays

LEMMA StraysWrite ==
  ASSUME NEW s, NEW w \in Seq(Int), NEW r \in Seq(Int), Len(r) = Max, Strays(s, w, r, "write")
  PROVE  Strays(s, w \o r, Blank, "read")
<1> DEFINE v == w \o r
<1>1. Len(w) \in Nat /\ Max \in Nat
  BY LenProperties, MaxAssumption
<1>2. /\ Len(v) = Len(w) + Max
      /\ \A i \in 1 .. Len(w) + Max : v[i] = IF i <= Len(w) THEN w[i] ELSE r[i - Len(w)]
  BY <1>1, ConcatProperties
<1> HIDE DEF v
<1>3. ASSUME NEW i \in 1 .. Len(v), v[i] = Junk PROVE s = <<>> /\ i <= Max
  <2>1. i \in 1 .. Len(w) + Max
    BY <1>2
  <2>2. CASE i <= Len(w)
    <3>1. i \in 1 .. Len(w) /\ w[i] = Junk
      BY <1>1, <1>2, <1>3, <2>1, <2>2
    <3> QED BY <3>1 DEF Strays
  <2>3. CASE ~(i <= Len(w))
    <3>1. i - Len(w) \in 1 .. Max /\ r[i - Len(w)] = Junk
      BY <1>1, <1>2, <1>3, <2>1, <2>3
    <3>2. s = <<>> /\ w = <<>>
      BY <3>1 DEF Strays
    <3>3. Len(w) = 0
      BY <3>2, EmptySeq
    <3> QED BY <1>1, <3>1, <3>2, <3>3
  <2> QED BY <2>2, <2>3
<1>4. \A i \in 1 .. Max : Blank[i] # Junk
  BY DEF Blank, Null, Junk
<1>5. Strays(s, v, Blank, "read")
  BY <1>3, <1>4 DEF Strays
<1> QED BY <1>5 DEF v

LEMMA StraysPrint ==
  ASSUME NEW s \in Seq(Int), NEW w \in Seq(Int), NEW r, NEW place, Strays(s, w, r, place),
         Max \in 0 .. Len(w), NEW t \in Seq(Int), t # <<>>, Len(t) <= Max,
         \A i \in 1 .. Len(t) : t[i] = w[i],
         NEW rest, rest = From(w, Max + 1)
  PROVE  Strays(s \o t, rest, r, place)
<1>1. Max \in Nat \ {0} /\ Len(w) \in Nat /\ Len(s) \in Nat /\ Len(t) \in Nat /\ w # <<>>
  <2>1. Max \in Nat \ {0} /\ Len(w) \in Nat /\ Len(s) \in Nat /\ Len(t) \in Nat
    BY MaxAssumption, LenProperties
  <2>2. Len(w) # 0
    BY <2>1
  <2> QED BY <2>1, <2>2, EmptySeq
<1>2. /\ Len(s \o t) = Len(s) + Len(t)
      /\ \A i \in 1 .. Len(s) + Len(t) :
           (s \o t)[i] = IF i <= Len(s) THEN s[i] ELSE t[i - Len(s)]
  <2>1. s \in Seq(Int) /\ t \in Seq(Int)
    OBVIOUS
  <2> QED BY ONLY <2>1, ConcatProperties
<1>3. /\ Len(rest) = Len(w) - Max
      /\ \A i \in 1 .. Len(rest) : rest[i] = w[Max + i]
  <2>1. w \in Seq(Int) /\ Max \in 0 .. Len(w) /\ rest = From(w, Max + 1)
    OBVIOUS
  <2>2. Len(rest) = Len(w) - Max /\ TailOf(rest, w, Max)
    BY ONLY <2>1, RestTyped
  <2> QED BY ONLY <2>2 DEF TailOf
<1>4. ASSUME NEW i \in 1 .. Len(s \o t), (s \o t)[i] = Junk PROVE i <= Max
  <2>1. i \in 1 .. Len(s) + Len(t)
    BY <1>2
  <2>2. CASE i <= Len(s)
    <3>1. i \in 1 .. Len(s) /\ s[i] = Junk
      BY <1>1, <1>2, <1>4, <2>1, <2>2
    <3> QED BY <3>1 DEF Strays
  <2>3. CASE ~(i <= Len(s))
    <3>1. PICK j \in Nat : j = i - Len(s) /\ 1 <= j /\ j <= Len(t) /\ t[j] = Junk
      <4>0. i \in Nat /\ i <= Len(s) + Len(t) /\ i > Len(s)
        <5>1. i \in Nat
          BY <1>1, <2>1
        <5> QED BY ONLY <1>1, <2>1, <2>3, <5>1
      <4>1. i - Len(s) \in Nat /\ 1 <= i - Len(s) /\ i - Len(s) <= Len(t)
        BY ONLY <1>1, <4>0
      <4>2. t[i - Len(s)] = Junk
        BY <1>2, <1>4, <2>1, <2>3
      <4> QED BY <4>1, <4>2
    <3>2. j \in 1 .. Len(t) /\ j <= Max /\ j \in 1 .. Len(w)
      <4>1. Len(t) <= Max /\ Max <= Len(w)
        BY <1>1
      <4> QED BY ONLY <1>1, <3>1, <4>1
    <3>3. w[j] = Junk
      BY <3>1, <3>2
    <3>4. s = <<>>
      BY <3>2, <3>3 DEF Strays
    <3>5. Len(s) = 0
      BY <3>4, EmptySeq
    <3> QED BY <1>1, <3>1, <3>2, <3>5
  <2> QED BY <2>2, <2>3
<1>5. ASSUME NEW i \in 1 .. Len(rest) PROVE rest[i] # Junk
  <2>1. Max + i \in 1 .. Len(w) /\ ~(Max + i <= Max)
    BY <1>1, <1>3
  <2> QED BY <1>3, <2>1 DEF Strays
<1>6. \A i \in 1 .. Max : r[i] = Junk => place = "ended"
  BY <1>1 DEF Strays
<1> QED BY <1>4, <1>5, <1>6 DEF Strays

LEMMA EntireInit == Init => EntireInv /\ StrayInv
<1> SUFFICES ASSUME Init PROVE EntireInv /\ StrayInv
  OBVIOUS
<1>1. TypeOK /\ OrderInv
  BY OrderInit
<1>2. ASSUME NEW c \in Clients
      PROVE  /\ Entire(shown[c], way[c], record[c], typed[c], client[c])
             /\ Strays(shown[c], way[c], record[c], client[c])
  <2>1. shown[c] = <<>> /\ way[c] = <<>> /\ typed[c] = 0 /\ client[c] = "none"
    BY DEF Init
  <2>2. Typed(record[c]) = {}
    BY <1>1, <2>1 DEF OrderInv, Ordered
  <2>3. InOrder(<<>>, 0, 0) /\ InOrder(record[c], 0, 0)
    BY <2>2, NothingTyped, TypedNone
  <2>4. Len(<<>>) = 0 /\ Records(<<>>, {0}) /\ {0} \in SUBSET (0 .. 0)
    BY EmptySeq DEF Records
  <2>5. Entire(<<>>, <<>>, record[c], 0, "none")
    <3>1. 0 \in 0 .. 0 /\ \E borders \in SUBSET (0 .. Len(<<>>)) : Records(<<>>, borders)
      BY <2>4
    <3> QED BY <2>3, <3>1 DEF Entire
  <2>6. Strays(<<>>, <<>>, record[c], "none")
    BY <2>4 DEF Strays
  <2> QED BY <2>1, <2>5, <2>6
<1>3. whole \subseteq Clients
  BY <1>1 DEF TypeOK
<1> QED BY <1>2, <1>3 DEF EntireInv, StrayInv

LEMMA WholeShrinks ==
  ASSUME TypeOK, [Next]_vars
  PROVE  over' = over /\ whole' \subseteq whole
<1>1. CASE UNCHANGED vars
  BY <1>1 DEF vars, serverVars
<1>2. CASE \E c \in Clients : TRUE
  BY <1>2, EachMoves
<1>3. CASE ~\E c \in Clients : TRUE
  <2>1. whole = {} /\ Clients = {}
    BY <1>3 DEF TypeOK
  <2> QED BY <1>1, <2>1, TypeStep DEF TypeOK, Next, ServerStep, Accept, AcceptFails, PrintText,
            NextClient, ServerKilled, clientVars, netVars
<1> QED BY <1>2, <1>3

LEMMA EntireStep ==
  ASSUME TypeOK, OrderInv, EntireInv, [Next]_vars
  PROVE  /\ EntireInv'
         /\ StrayInv => StrayInv'
<1>1. ASSUME NEW c \in whole'
      PROVE  /\ Entire(shown'[c], way'[c], record'[c], typed'[c], client'[c])
             /\ over = 0 /\ Strays(shown[c], way[c], record[c], client[c]) =>
                  Strays(shown'[c], way'[c], record'[c], client'[c])
  <2> DEFINE s == shown[c]
             w == way[c]
             r == record[c]
             n == typed[c]
  <2>1. c \in Clients /\ c \in whole
    BY WholeShrinks DEF TypeOK
  <2>2. /\ s \in Seq(Int) /\ w \in Seq(Byte) /\ w \in Seq(Int) /\ r \in Buffer /\ r \in Seq(Int)
        /\ Len(r) = Max /\ n \in Nat /\ buffer \in Buffer /\ over \in 0 .. 1
        /\ Max \in Nat \ {0}
    BY <2>1, ClientTypes
  <2>3. /\ Entire(s, w, r, n, client[c]) /\ Typed(buffer) = {}
        /\ client[c] \in {"none", "read"} => Typed(r) = {}
    BY <2>1 DEF OrderInv, Ordered, EntireInv
  <2> HIDE DEF s, w, r, n
  <2>4. CASE Rests(c)
    <3>1. /\ shown'[c] = s /\ way'[c] = w /\ record'[c] = r /\ typed'[c] = n
          /\ \/ client'[c] = client[c] \/ client'[c] = "ended"
             \/ client[c] = "none" /\ client'[c] = "read"
      BY <2>4 DEF Rests, s, w, r, n
    <3>2. Entire(s, w, r, n, client'[c])
      BY <2>3, <3>1 DEF Entire
    <3>3. Strays(s, w, r, client[c]) => Strays(s, w, r, client'[c])
      BY <3>1 DEF Strays
    <3> QED BY <3>1, <3>2, <3>3 DEF s, w, r
  <2>5. CASE Reads(c)
    <3>1. PICK k \in 1 .. Max :
            /\ client[c] = "read" /\ client'[c] = "write"
            /\ Fills(record'[c], r, n, k) /\ typed'[c] = n + k
            /\ shown'[c] = s /\ way'[c] = w
      BY <2>5 DEF Reads, s, w, r, n
    <3>2. Entire(s, w, record'[c], n + k, "write")
      BY <2>2, <2>3, <3>1, EntireReads
    <3>3. Strays(s, w, r, "read") => Strays(s, w, record'[c], "write")
      BY <2>2, <2>3, <3>1, StraysRead
    <3> QED BY <3>1, <3>2, <3>3 DEF s, w, r
  <2>6. CASE Writes(c)
    <3>1. /\ client[c] = "write" /\ client'[c] = "read" /\ way'[c] = w \o r
          /\ record'[c] = Blank /\ shown'[c] = s /\ typed'[c] = n
      BY <2>6 DEF Writes, s, w, r, n
    <3>2. Entire(s, w \o r, Blank, n, "read")
      BY <2>2, <2>3, <3>1, EntireWrites
    <3>3. Strays(s, w, r, "write") => Strays(s, w \o r, Blank, "read")
      BY <2>2, StraysWrite
    <3> QED BY <3>1, <3>2, <3>3 DEF s, w, r
  <2>7. CASE Prints(c)
    <3>1. PICK k \in Amounts(w, Max), m \in 0 .. Max + over : PrintsOf(c, k, m)
      BY <2>7 DEF Prints, w
    <3> DEFINE mem == Filled(First(w, k), buffer)
               t == First(Walk(mem), m)
    <3>2. /\ StrLen(mem, m) /\ shown'[c] = s \o t /\ way'[c] = From(w, k + 1) /\ k = Max
          /\ record'[c] = r /\ typed'[c] = n /\ client'[c] = client[c]
      BY <3>1 DEF PrintsOf, s, w, r, n
    <3>3. /\ t \in Seq(Nat) /\ Len(t) = m /\ k \in 0 .. Len(w) /\ FrontOf(t, w, k)
          /\ mem \in Buffer /\ \A i \in 1 .. k : mem[i] = w[i]
      BY <2>2, <2>3, <3>2, PrintedText
    <3>4. Max \in 0 .. Len(w) /\ 0 # Len(w) /\ FrontOf(t, w, Max)
      BY <2>2, <3>2, <3>3
    <3>5. Solid(w, 0)
      BY <2>3, <3>4 DEF Entire, Records
    <3>6. t # <<>> /\ AllOf(t, w, Max)
      BY <2>2, <2>3, <3>2, <3>5, WholeText
    <3>7. ASSUME over = 0 PROVE Len(t) <= Max /\ \A i \in 1 .. Len(t) : t[i] = w[i]
      <4>1. m \in 0 .. Max /\ m <= Max
        BY <2>2, <3>7
      <4>2. \A i \in 1 .. m : i \in 1 .. Max /\ i \in 1 .. k
        BY <2>2, <3>2, <4>1
      <4>3. \A i \in 1 .. m : t[i] = Walk(mem)[i]
        BY <2>2, <3>2, <3>3, TextFacts
      <4>4. \A i \in 1 .. Max : Walk(mem)[i] = mem[i]
        BY <2>2, <3>3, WalkFacts
      <4> HIDE DEF t, mem
      <4> QED BY <3>3, <4>1, <4>2, <4>3, <4>4
    <3> HIDE DEF mem, t
    <3>8. t \in Seq(Int)
      BY <3>3, SeqMonotonic
    <3>9. Entire(s \o t, From(w, Max + 1), r, n, client[c])
      BY <2>2, <2>3, <3>4, <3>6, <3>8, EntirePrints
    <3>10. over = 0 /\ Strays(s, w, r, client[c]) =>
             Strays(s \o t, From(w, Max + 1), r, client[c])
      BY <2>2, <3>4, <3>6, <3>7, <3>8, StraysPrint
    <3> QED BY <3>2, <3>9, <3>10 DEF s, w, r
  <2> QED BY <2>1, <2>4, <2>5, <2>6, <2>7, EachMoves
<1>2. over' = over /\ whole' \subseteq whole
  BY WholeShrinks
<1>3. EntireInv'
  BY <1>1 DEF EntireInv
<1>4. StrayInv => StrayInv'
  BY <1>1, <1>2 DEF StrayInv
<1> QED BY <1>3, <1>4

LEMMA OrderedPrinted ==
  ASSUME TypeOK, OrderInv, EntireInv
  PROVE  PrintedInOrder
<1> SUFFICES ASSUME NEW c \in Clients
             PROVE  /\ \A i \in 1 .. Len(Clean(shown[c])) - 1 :
                         Clean(shown[c])[i] < Clean(shown[c])[i + 1]
                    /\ c \in whole /\ client[c] # "ended" =>
                         Clean(shown[c] \o way[c] \o record[c]) = [i \in 1 .. typed[c] |-> i]
  BY DEF PrintedInOrder
<1>1. /\ shown[c] \in Seq(Int) /\ way[c] \in Seq(Int) /\ record[c] \in Seq(Int)
      /\ typed[c] \in Nat
  BY ClientTypes
<1>2. Rising(shown[c])
  BY DEF OrderInv, Ordered
<1>3. ASSUME c \in whole, client[c] # "ended"
      PROVE  Clean(shown[c] \o way[c] \o record[c]) = [i \in 1 .. typed[c] |-> i]
  <2>1. PICK a \in 0 .. typed[c], b \in 0 .. typed[c] :
          InOrder(shown[c], 0, a) /\ InOrder(way[c], a, b) /\ InOrder(record[c], b, typed[c])
    BY <1>3 DEF EntireInv, Entire
  <2>2. a \in Nat /\ b \in Nat
    BY <1>1
  <2>3. shown[c] \o way[c] \in Seq(Int) /\ InOrder(shown[c] \o way[c], 0, b)
    BY <1>1, <2>1, <2>2, InOrderJoin, ConcatProperties
  <2> DEFINE all == (shown[c] \o way[c]) \o record[c]
  <2>4. all \in Seq(Int) /\ InOrder(all, 0, typed[c])
    BY <1>1, <2>1, <2>2, <2>3, InOrderJoin, ConcatProperties
  <2> HIDE DEF all
  <2>5. Clean(all) = [i \in 1 .. typed[c] - 0 |-> 0 + i]
    BY <1>1, <2>4, InOrderClean
  <2>6. typed[c] - 0 = typed[c] /\ \A i \in 1 .. typed[c] : 0 + i = i
    BY <1>1
  <2>7. Clean(all) = [i \in 1 .. typed[c] |-> i]
    BY <2>5, <2>6
  <2> QED BY <2>7 DEF all
<1> QED BY <1>1, <1>2, <1>3, RisingClean

(* teht3_client.c, teht3_server.c: what a client has typed is printed once *)
(* and in order, however reads cut its records; and of a client of which   *)
(* every record is read whole nothing is lost.                             *)
THEOREM PrintedOnceInOrder == Spec => []PrintedInOrder
<1>1. Init => TypeOK /\ OrderInv /\ EntireInv
  BY OrderInit, EntireInit
<1>2. TypeOK /\ OrderInv /\ EntireInv /\ [Next]_vars => (TypeOK /\ OrderInv /\ EntireInv)'
  BY TypeStep, OrderStep, EntireStep
<1>3. TypeOK /\ OrderInv /\ EntireInv => PrintedInOrder
  BY OrderedPrinted
<1> QED BY <1>1, <1>2, <1>3, PTL DEF Spec

(* teht3_server.c: what memory held at first is printed with the first     *)
(* record at most, where records are read whole and memory has a null byte *)
(* behind the server's buffer.                                             *)
THEOREM StrayAtFirst == Spec => []StrayOnlyAtFirst
<1>1. Init => TypeOK /\ OrderInv /\ EntireInv /\ StrayInv
  BY OrderInit, EntireInit
<1>2. TypeOK /\ OrderInv /\ EntireInv /\ StrayInv /\ [Next]_vars =>
        (TypeOK /\ OrderInv /\ EntireInv /\ StrayInv)'
  BY TypeStep, OrderStep, EntireStep
<1>3. TypeOK /\ StrayInv => StrayOnlyAtFirst
  <2> SUFFICES ASSUME TypeOK, StrayInv, over = 0, NEW c \in whole, NEW i \in DOMAIN shown[c],
                      shown[c][i] = Junk
               PROVE  i <= Max
    BY DEF StrayOnlyAtFirst
  <2>1. Strays(shown[c], way[c], record[c], client[c]) /\ c \in Clients
    BY DEF StrayInv, TypeOK
  <2>2. shown[c] \in Seq(Int) /\ DOMAIN shown[c] = 1 .. Len(shown[c])
    BY <2>1, ClientTypes, LenProperties
  <2> QED BY <2>1, <2>2 DEF Strays
<1> QED BY <1>1, <1>2, <1>3, PTL DEF Spec
=============================================================================
