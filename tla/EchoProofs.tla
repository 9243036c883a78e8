----------------------------- MODULE EchoProofs -----------------------------
(***************************************************************************)
(* Proofs about Echo for any number of clients, any lines and any buffer:  *)
(* the types, the sockets, the streams, and where all can stand still.     *)
(***************************************************************************)
EXTENDS Echo, CommonProofs

Serving == {"start", "read", "write"}

(* Who holds a connection: the kernel alone until it is accepted, its      *)
(* child for as long as it runs, nobody once it is closed.                 *)
ConnInv(c) ==
  /\ client[c] = "new" => holders[c] = {} /\ fate[c] = "open" /\ child[c] = "none"
  /\ Kernel \in holders[c] => holders[c] = {Kernel} /\ child[c] = "none"
  /\ child[c] \in Serving => c \in holders[c]
  /\ fate[c] # "open" => holders[c] = {}

MasterInv ==
  /\ master \in {"fork", "close"} => cur \in Clients
  /\ master = "fork" => child[cur] = "none" /\ Master \in holders[cur]

SockInv == MasterInv /\ \A c \in Clients : ConnInv(c)

(* What has come back, and what will, is the first part of what was sent.  *)
Whole(c) == fate[c] = "open" => sent[c] = ((got[c] \o down[c]) \o chunk[c]) \o up[c]
Part(c) == \E t \in Seq(Nat) : sent[c] = (got[c] \o down[c]) \o t
Written(c) == child[c] \in {"none", "start", "read"} => chunk[c] = <<>>

DataInv == \A c \in Clients : Whole(c) /\ Part(c) /\ Written(c)

IInv == TypeOK /\ SockInv /\ DataInv

-----------------------------------------------------------------------------
LEMMA Facts == /\ Clients \subseteq Nat \ {0} /\ Master \notin Clients
               /\ Kernel \notin Procs /\ Master \in Procs /\ Clients \subseteq Procs
BY NClientsAssumption DEF Clients, Master, Kernel, Procs

LEMMA EmptyFacts == /\ <<>> \in Seq(Nat) /\ Len(<<>>) = 0
                    /\ \A s \in Seq(Nat) : s \o <<>> = s /\ <<>> \o s = s
BY EmptySeq, ConcatEmptySeq

LEMMA JoinType == \A s, t \in Seq(Nat) : s \o t \in Seq(Nat)
BY ConcatProperties

LEMMA JoinAssoc == \A s, t, u \in Seq(Nat) : (s \o t) \o u = s \o (t \o u)
<1>1. ASSUME NEW s \in Seq(Nat), NEW t \in Seq(Nat), NEW u \in Seq(Nat)
      PROVE  (s \o t) \o u = s \o (t \o u)
  BY ConcatAssociative, SMTT(30)
<1> QED BY <1>1

LEMMA NextLineFacts ==
  ASSUME TypeOK, NEW c \in Clients
  PROVE  NextLine(c) \in Seq(Nat)
<1>1. Len(sent[c]) \in Nat
  BY LenProperties DEF TypeOK
<1>2. CASE rest[c] = <<>>
  BY <1>1, <1>2 DEF NextLine
<1>3. CASE rest[c] # <<>>
  <2>1. rest[c] \in Seq(1 .. BufSize) /\ Head(rest[c]) \in 1 .. BufSize
    BY <1>3, HeadTailProperties DEF TypeOK
  <2>2. Head(rest[c]) \in Nat
    BY <2>1, BufSizeAssumption
  <2> QED BY <1>1, <1>3, <2>2 DEF NextLine
<1> QED BY <1>2, <1>3

LEMMA AmountFacts ==
  ASSUME NEW s \in Seq(Nat), NEW k \in Amounts(s, BufSize)
  PROVE  k \in 0 .. Len(s) /\ First(s, k) \in Seq(Nat) /\ From(s, k + 1) \in Seq(Nat)
<1>1. k \in 0 .. Len(s)
  BY LenProperties, BufSizeAssumption DEF Amounts
<1> QED BY <1>1, CutFacts

(* What a change of hands does.                                            *)
LEMMA HoldFacts ==
  ASSUME TypeOK, NEW h \in [Clients -> SUBSET (Procs \cup {Kernel})],
         NEW l \in SUBSET Procs, Hold(h, l)
  PROVE  /\ holders' \in [Clients -> SUBSET (Procs \cup {Kernel})]
         /\ fate' \in [Clients -> {"open", "fin", "reset"}]
         /\ listeners' = l
         /\ \A c \in Clients :
              /\ holders'[c] \subseteq h[c] /\ h[c] \ {Kernel} \subseteq holders'[c]
              /\ fate'[c] # fate[c] => holders'[c] = {} /\ holders[c] # {}
BY DEF Hold, TypeOK

-----------------------------------------------------------------------------
(* Types, one lemma for each part of the program.                          *)
LEMMA ClientTypes ==
  ASSUME TypeOK, NEW c \in Clients,
         Connect(c) \/ Refused(c) \/ Send(c) \/ Reads(c) \/ Quit(c)
  PROVE  TypeOK'
<1>1. CASE Connect(c)
  <2> DEFINE h == [holders EXCEPT ![c] = {Kernel}]
  <2>1. /\ h \in [Clients -> SUBSET (Procs \cup {Kernel})] /\ listeners \in SUBSET Procs
        /\ Hold(h, listeners)
    BY <1>1 DEF Connect, TypeOK
  <2> HIDE DEF h
  <2>2. /\ holders' \in [Clients -> SUBSET (Procs \cup {Kernel})]
        /\ fate' \in [Clients -> {"open", "fin", "reset"}] /\ listeners' \in SUBSET Procs
    BY <2>1, HoldFacts
  <2> QED BY <1>1, <2>2 DEF Connect, Become, TypeOK, wireVars, masterVars, childVars
<1>2. CASE Refused(c)
  BY <1>2 DEF Refused, Become, TypeOK, wireVars, masterVars, childVars, socketVars
<1>3. CASE Send(c)
  <2>1. /\ NextLine(c) \in Seq(Nat) /\ sent[c] \o NextLine(c) \in Seq(Nat)
        /\ up[c] \o NextLine(c) \in Seq(Nat)
    BY NextLineFacts, ConcatProperties DEF TypeOK
  <2>2. From(rest[c], 2) \in Seq(1 .. BufSize)
    BY FromType DEF TypeOK
  <2>3. /\ sent' \in [Clients -> Seq(Nat)] /\ buffer' \in [Clients -> Seq(Nat)]
        /\ up' \in [Clients -> Seq(Nat)] /\ late' \in [Clients -> BOOLEAN]
        /\ rest' \in [Clients -> Seq(1 .. BufSize)]
    <3>1. /\ sent \in [Clients -> Seq(Nat)] /\ buffer \in [Clients -> Seq(Nat)]
          /\ up \in [Clients -> Seq(Nat)] /\ late \in [Clients -> BOOLEAN]
          /\ rest \in [Clients -> Seq(1 .. BufSize)]
      BY DEF TypeOK
    <3>2. /\ rest' = [rest EXCEPT ![c] = From(rest[c], 2)]
          /\ buffer' = [buffer EXCEPT ![c] = NextLine(c)]
          /\ sent' = [sent EXCEPT ![c] = sent[c] \o NextLine(c)]
          /\ late' = [late EXCEPT ![c] = late[c] \/ got[c] # sent[c]]
          /\ up' = [up EXCEPT ![c] = up[c] \o NextLine(c)] \/ up' = up
      BY <1>3 DEF Send
    <3>3. sent' \in [Clients -> Seq(Nat)] /\ buffer' \in [Clients -> Seq(Nat)]
      BY ONLY <2>1, <3>1, <3>2
    <3>4. up' \in [Clients -> Seq(Nat)]
      BY ONLY <2>1, <3>1, <3>2
    <3>5. late' \in [Clients -> BOOLEAN]
      BY ONLY <3>1, <3>2
    <3>6. rest' \in [Clients -> Seq(1 .. BufSize)]
      BY ONLY <2>2, <3>1, <3>2
    <3> QED BY <3>3, <3>4, <3>5, <3>6
  <2>4. /\ client' \in [Clients -> {"new", "send", "read", "ended"}]
        /\ fate' \in [Clients -> {"open", "fin", "reset"}]
    BY <1>3 DEF Send, Become, TypeOK
  <2> QED BY <1>3, <2>3, <2>4 DEF Send, TypeOK, masterVars, childVars
<1>4. CASE ReadReply(c)
  <2> PICK k \in Amounts(down[c], BufSize) :
        /\ got' = [got EXCEPT ![c] = @ \o First(down[c], k)]
        /\ buffer' = [buffer EXCEPT ![c] = First(down[c], k) \o From(@, k + 1)]
        /\ down' = [down EXCEPT ![c] = From(@, k + 1)]
    BY <1>4 DEF ReadReply
  <2>1. k \in Nat /\ First(down[c], k) \in Seq(Nat) /\ From(down[c], k + 1) \in Seq(Nat)
    BY AmountFacts, LenProperties DEF TypeOK
  <2>2. got[c] \o First(down[c], k) \in Seq(Nat)
    BY <2>1, ConcatProperties DEF TypeOK
  <2>3. From(buffer[c], k + 1) \in Seq(Nat)
    BY <2>1, FromType DEF TypeOK
  <2>4. First(down[c], k) \o From(buffer[c], k + 1) \in Seq(Nat)
    BY <2>1, <2>3, ConcatProperties
  <2> QED BY <1>4, <2>1, <2>2, <2>4
          DEF ReadReply, Become, TypeOK, socketVars, masterVars, childVars
<1>5. CASE ReadNothing(c) \/ Fail(c) \/ Quit(c)
  BY <1>5 DEF ReadNothing, Fail, Quit, Become, TypeOK, wireVars, masterVars, childVars, socketVars
<1> QED BY <1>1, <1>2, <1>3, <1>4, <1>5 DEF Reads

(* Every step of the server that changes who holds what.                   *)
LEMMA HandTypes ==
  ASSUME TypeOK, UNCHANGED <<client, rest, buffer, sent, got, late, up, down, chunk>>,
         master' \in {"accept", "fork", "close", "ended"}, cur' \in Procs,
         child' \in [Clients -> {"none", "start", "read", "write", "ended"}],
         NEW h \in [Clients -> SUBSET (Procs \cup {Kernel})],
         NEW l \in SUBSET Procs, Hold(h, l)
  PROVE  TypeOK'
<1>1. /\ holders' \in [Clients -> SUBSET (Procs \cup {Kernel})]
      /\ fate' \in [Clients -> {"open", "fin", "reset"}] /\ listeners' \in SUBSET Procs
  BY HoldFacts
<1> QED BY <1>1 DEF TypeOK

LEMMA MasterTypes ==
  ASSUME TypeOK, MasterStep \/ MasterEnds
  PROVE  TypeOK'
<1> USE Facts
<1>1. CASE Accept
  <2> PICK c \in Clients : cur' = c /\ Hold([holders EXCEPT ![c] = {Master}], listeners)
    BY <1>1 DEF Accept
  <2>1. /\ [holders EXCEPT ![c] = {Master}] \in [Clients -> SUBSET (Procs \cup {Kernel})]
        /\ listeners \in SUBSET Procs /\ cur' \in Procs /\ master' = "fork"
        /\ UNCHANGED <<client, rest, buffer, sent, got, late, up, down, child, chunk>>
    BY <1>1 DEF Accept, TypeOK, clientVars, wireVars, childVars
  <2> QED BY <2>1, HandTypes DEF TypeOK
<1>2. CASE MasterEnds
  <2> DEFINE h == [c \in Clients |-> holders[c] \ {Master}]
  <2>1. /\ h \in [Clients -> SUBSET (Procs \cup {Kernel})] /\ Hold(h, listeners \ {Master})
        /\ listeners \ {Master} \in SUBSET Procs /\ cur' \in Procs /\ master' = "ended"
        /\ UNCHANGED <<client, rest, buffer, sent, got, late, up, down, child, chunk>>
    BY <1>2 DEF MasterEnds, ReleaseAll, TypeOK, clientVars, wireVars, childVars
  <2> QED BY <2>1, HandTypes DEF TypeOK
<1>3. CASE Fork
  <2> DEFINE h == [c \in Clients |-> IF Master \in holders[c] THEN holders[c] \cup {cur}
                                                              ELSE holders[c]]
  <2>1. /\ h \in [Clients -> SUBSET (Procs \cup {Kernel})] /\ Hold(h, listeners \cup {cur})
        /\ listeners \cup {cur} \in SUBSET Procs /\ cur' \in Procs /\ master' = "close"
        /\ child' \in [Clients -> {"none", "start", "read", "write", "ended"}]
        /\ UNCHANGED <<client, rest, buffer, sent, got, late, up, down, chunk>>
    BY <1>3 DEF Fork, TypeOK, clientVars, wireVars
  <2> QED BY <2>1, HandTypes
<1>4. CASE ForkFails
  BY <1>4 DEF ForkFails, TypeOK, clientVars, wireVars, socketVars, childVars
<1>5. CASE CloseCopy
  <2> DEFINE h == [holders EXCEPT ![cur] = @ \ {Master}]
  <2>1. /\ h \in [Clients -> SUBSET (Procs \cup {Kernel})] /\ Hold(h, listeners)
        /\ listeners \in SUBSET Procs /\ cur' \in Procs /\ master' = "accept"
        /\ UNCHANGED <<client, rest, buffer, sent, got, late, up, down, child, chunk>>
    BY <1>5 DEF CloseCopy, TypeOK, clientVars, wireVars, childVars
  <2> QED BY <2>1, HandTypes DEF TypeOK
<1> QED BY <1>1, <1>2, <1>3, <1>4, <1>5 DEF MasterStep

LEMMA ChildTypes ==
  ASSUME TypeOK, NEW c \in Clients, ChildStep(c) \/ KillChild(c)
  PROVE  TypeOK'
<1> USE Facts
<1>1. CASE CloseListen(c)
  <2>1. /\ Hold(holders, listeners \ {c}) /\ listeners \ {c} \in SUBSET Procs
        /\ child' \in [Clients -> {"none", "start", "read", "write", "ended"}]
        /\ UNCHANGED <<client, rest, buffer, sent, got, late, up, down, chunk, master, cur>>
    BY <1>1 DEF CloseListen, TypeOK, clientVars, wireVars, masterVars
  <2>2. /\ holders \in [Clients -> SUBSET (Procs \cup {Kernel})]
        /\ master' \in {"accept", "fork", "close", "ended"} /\ cur' \in Procs
    BY <2>1 DEF TypeOK
  <2> QED BY <2>1, <2>2, HandTypes
<1>2. CASE ChildGone(c)
  <2> DEFINE h == [d \in Clients |-> holders[d] \ {c}]
  <2>1. /\ Hold(h, listeners \ {c}) /\ listeners \ {c} \in SUBSET Procs
        /\ child' \in [Clients -> {"none", "start", "read", "write", "ended"}]
        /\ UNCHANGED <<client, rest, buffer, sent, got, late, up, down, chunk, master, cur>>
        /\ h \in [Clients -> SUBSET (Procs \cup {Kernel})]
    BY <1>2 DEF ChildGone, ReleaseAll, TypeOK, clientVars, wireVars, masterVars
  <2>2. master' \in {"accept", "fork", "close", "ended"} /\ cur' \in Procs
    BY <2>1 DEF TypeOK
  <2> QED BY <2>1, <2>2, HandTypes
<1>3. CASE ChildRead(c)
  <2> PICK k \in Amounts(up[c], BufSize) :
        /\ chunk' = [chunk EXCEPT ![c] = First(up[c], k)]
        /\ up' = [up EXCEPT ![c] = From(@, k + 1)]
    BY <1>3 DEF ChildRead
  <2>1. First(up[c], k) \in Seq(Nat) /\ From(up[c], k + 1) \in Seq(Nat)
    BY AmountFacts DEF TypeOK
  <2> QED BY <1>3, <2>1 DEF ChildRead, TypeOK, clientVars, socketVars, masterVars
<1>4. CASE ChildWrite(c)
  <2>1. down[c] \o chunk[c] \in Seq(Nat) /\ <<>> \in Seq(Nat)
    BY ConcatProperties, EmptyFacts DEF TypeOK
  <2> QED BY <1>4, <2>1 DEF ChildWrite, TypeOK, clientVars, socketVars, masterVars
<1> QED BY <1>1, <1>2, <1>3, <1>4 DEF ChildStep, ChildEnds, KillChild

LEMMA TypeStep == TypeOK /\ [Next]_vars => TypeOK'
<1> SUFFICES ASSUME TypeOK, [Next]_vars PROVE TypeOK'
  OBVIOUS
<1>1. CASE UNCHANGED vars
  BY <1>1 DEF TypeOK, vars, clientVars, wireVars, socketVars, masterVars, childVars
<1> QED BY <1>1, ClientTypes, MasterTypes, ChildTypes DEF Next

LEMMA InitTypes == Init => TypeOK
<1> SUFFICES ASSUME Init PROVE TypeOK
  OBVIOUS
<1>1. rest \in [Clients -> Seq(1 .. BufSize)]
  BY InputsAssumption DEF Init
<1> QED BY <1>1, EmptyFacts, Facts DEF Init, TypeOK

(* No client, child or socket is ever in a state the programs do not know. *)
THEOREM TypeCorrect == Spec => []TypeOK
BY InitTypes, TypeStep, PTL DEF Spec

-----------------------------------------------------------------------------
(* Process p lets go of a connection; nobody else's hold on it changes.    *)
LEMMA LetGo ==
  ASSUME TypeOK, NEW d \in Clients, ConnInv(d), NEW p \in Procs,
         holders'[d] \subseteq holders[d], holders[d] \ {p, Kernel} \subseteq holders'[d],
         fate'[d] # fate[d] => holders'[d] = {} /\ holders[d] # {},
         client'[d] = client[d], child[d] = "none" => child'[d] = "none",
         child'[d] \in Serving => child[d] \in Serving /\ p # d
  PROVE  ConnInv(d)'
<1>1. d # Kernel /\ d \in Procs
  BY Facts
<1>2. client'[d] = "new" => holders'[d] = {} /\ fate'[d] = "open" /\ child'[d] = "none"
  BY DEF ConnInv
<1>3. Kernel \in holders'[d] => holders'[d] = {Kernel} /\ child'[d] = "none"
  BY DEF ConnInv
<1>4. child'[d] \in Serving => d \in holders'[d]
  BY <1>1 DEF ConnInv
<1>5. fate'[d] # "open" => holders'[d] = {}
  BY DEF ConnInv
<1> QED BY <1>2, <1>3, <1>4, <1>5 DEF ConnInv

(* What is done to the sockets when h and l are what everybody holds.      *)
LEMMA LetGoFacts ==
  ASSUME TypeOK, NEW h, NEW l, Hold(h, l), \A d \in Clients : h[d] \subseteq holders[d]
  PROVE  \A d \in Clients :
           /\ holders'[d] \subseteq h[d] /\ h[d] \ {Kernel} \subseteq holders'[d]
           /\ fate'[d] # fate[d] => holders'[d] = {} /\ holders[d] # {}
BY DEF Hold, TypeOK

(* Who holds what, step by step.                                           *)
LEMMA ClientSock ==
  ASSUME TypeOK, SockInv, NEW c \in Clients,
         Connect(c) \/ Refused(c) \/ Send(c) \/ Reads(c) \/ Quit(c)
  PROVE  SockInv'
<1>1. CASE Connect(c)
  <2>1. /\ client[c] = "new" /\ client' = [client EXCEPT ![c] = "send"]
        /\ UNCHANGED <<child, master, cur>> /\ listeners # {}
        /\ Hold([holders EXCEPT ![c] = {Kernel}], listeners)
    BY <1>1 DEF Connect, Become, masterVars, childVars
  <2>2. \A d \in Clients :
          /\ holders'[d] = IF d = c THEN {Kernel} ELSE holders[d]
          /\ fate'[d] = fate[d]
    BY <2>1 DEF Hold, TypeOK
  <2>3. ConnInv(c)'
    BY <2>1, <2>2, Facts DEF SockInv, ConnInv, TypeOK, Serving
  <2>4. \A d \in Clients \ {c} : ConnInv(d)'
    BY <2>1, <2>2 DEF SockInv, ConnInv, TypeOK
  <2>5. MasterInv'
    BY <2>1, <2>2, Facts DEF SockInv, MasterInv, ConnInv, TypeOK
  <2> QED BY <2>3, <2>4, <2>5 DEF SockInv
<1>2. CASE Send(c)
  <2>1. /\ client[c] = "send" /\ client' = [client EXCEPT ![c] = "read"]
        /\ UNCHANGED <<holders, child, master, cur>>
        /\ fate' \in {fate, [fate EXCEPT ![c] = "reset"]} /\ (fate' = fate \/ fate[c] = "fin")
    BY <1>2 DEF Send, Become, masterVars, childVars
  <2> QED BY <2>1 DEF SockInv, ConnInv, MasterInv, TypeOK
<1>3. CASE Refused(c) \/ Reads(c) \/ Quit(c)
  BY <1>3 DEF SockInv, ConnInv, MasterInv, TypeOK, Refused, Reads, ReadReply, ReadNothing,
              Fail, Quit, Become, socketVars, masterVars, childVars
<1> QED BY <1>1, <1>2, <1>3

LEMMA MasterSock ==
  ASSUME TypeOK, SockInv, MasterStep \/ MasterEnds
  PROVE  SockInv'
<1>1. CASE Accept
  <2> PICK c \in Clients : /\ holders[c] = {Kernel} /\ cur' = c
                           /\ Hold([holders EXCEPT ![c] = {Master}], listeners)
    BY <1>1 DEF Accept
  <2>1. UNCHANGED <<client, child>> /\ master' = "fork"
    BY <1>1 DEF Accept, clientVars, childVars
  <2>2. child[c] = "none" /\ fate[c] = "open" /\ client[c] # "new"
    BY DEF SockInv, ConnInv
  <2>3. holders'[c] = {Master} /\ fate'[c] = "open"
    BY <2>2, Facts DEF Hold, TypeOK
  <2>4. \A d \in Clients \ {c} :
          /\ holders'[d] \subseteq holders[d] /\ holders[d] \ {Kernel} \subseteq holders'[d]
          /\ fate'[d] # fate[d] => holders'[d] = {} /\ holders[d] # {}
    BY DEF Hold, TypeOK
  <2>5. \A d \in Clients \ {c} : ConnInv(d)'
    BY <2>1, <2>4, LetGo, Facts DEF SockInv
  <2>6. ConnInv(c)'
    BY <2>1, <2>2, <2>3, Facts DEF ConnInv, Serving
  <2>7. MasterInv'
    BY <2>1, <2>2, <2>3 DEF MasterInv
  <2> QED BY <2>5, <2>6, <2>7 DEF SockInv
<1>2. CASE MasterEnds
  <2> DEFINE h == [c \in Clients |-> holders[c] \ {Master}]
  <2>1. /\ UNCHANGED <<client, child, cur>> /\ master' = "ended" /\ Hold(h, listeners \ {Master})
        /\ \A d \in Clients : h[d] = holders[d] \ {Master}
    BY <1>2 DEF MasterEnds, ReleaseAll, clientVars, childVars
  <2> HIDE DEF h
  <2>2. \A d \in Clients :
          /\ holders'[d] \subseteq holders[d] /\ holders[d] \ {Master, Kernel} \subseteq holders'[d]
          /\ fate'[d] # fate[d] => holders'[d] = {} /\ holders[d] # {}
    BY <2>1, LetGoFacts
  <2>3. \A d \in Clients : ConnInv(d)'
    BY <2>1, <2>2, LetGo, Facts DEF SockInv
  <2> QED BY <2>1, <2>3 DEF SockInv, MasterInv
<1>3. CASE Fork
  <2>1. cur \in Clients /\ child[cur] = "none" /\ Master \in holders[cur]
    BY <1>3 DEF Fork, SockInv, MasterInv
  <2>2. \A d \in Clients :
          /\ holders'[d] = IF Master \in holders[d] THEN holders[d] \cup {cur} ELSE holders[d]
          /\ fate'[d] = fate[d]
    BY <1>3, <2>1 DEF Fork, Hold, TypeOK
  <2>3. /\ UNCHANGED <<client, cur>> /\ master' = "close"
        /\ child' = [child EXCEPT ![cur] = "start"]
    BY <1>3 DEF Fork, clientVars
  <2>4. Kernel \notin holders[cur] /\ client[cur] # "new" /\ fate[cur] = "open"
    BY <2>1, Facts DEF SockInv, ConnInv
  <2>5. ASSUME NEW d \in Clients, d = cur PROVE ConnInv(d)'
    <3>1. /\ child'[d] = "start" /\ client'[d] # "new" /\ fate'[d] = "open"
          /\ d \in holders'[d] /\ Kernel \notin holders'[d]
      BY <2>1, <2>2, <2>3, <2>4, <2>5, Facts DEF TypeOK
    <3> QED BY <3>1 DEF ConnInv
  <2>6. ASSUME NEW d \in Clients \ {cur} PROVE ConnInv(d)'
    <3>1. child'[d] = child[d] /\ client'[d] = client[d] /\ fate'[d] = fate[d]
      BY <2>1, <2>2, <2>3 DEF TypeOK
    <3>2. holders'[d] = holders[d] \/ (Master \in holders[d] /\ holders'[d] = holders[d] \cup {cur})
      BY <2>2
    <3>3. ConnInv(d)
      BY DEF SockInv
    <3> QED BY <2>1, <3>1, <3>2, <3>3, Facts DEF ConnInv
  <2>7. MasterInv'
    BY <2>1, <2>3 DEF MasterInv
  <2> QED BY <2>5, <2>6, <2>7 DEF SockInv
<1>4. CASE ForkFails
  BY <1>4 DEF ForkFails, SockInv, ConnInv, MasterInv, clientVars, socketVars, childVars
<1>5. CASE CloseCopy
  <2> DEFINE h == [holders EXCEPT ![cur] = @ \ {Master}]
  <2>1. /\ UNCHANGED <<client, child, cur>> /\ master' = "accept" /\ Hold(h, listeners)
        /\ \A d \in Clients : holders[d] \ {Master} \subseteq h[d] /\ h[d] \subseteq holders[d]
    BY <1>5 DEF CloseCopy, clientVars, childVars, TypeOK
  <2> HIDE DEF h
  <2>2. \A d \in Clients :
          /\ holders'[d] \subseteq holders[d] /\ holders[d] \ {Master, Kernel} \subseteq holders'[d]
          /\ fate'[d] # fate[d] => holders'[d] = {} /\ holders[d] # {}
    BY <2>1, LetGoFacts
  <2>3. \A d \in Clients : ConnInv(d)'
    BY <2>1, <2>2, LetGo, Facts DEF SockInv
  <2> QED BY <2>1, <2>3 DEF SockInv, MasterInv
<1> QED BY <1>1, <1>2, <1>3, <1>4, <1>5 DEF MasterStep

LEMMA ChildSock ==
  ASSUME TypeOK, SockInv, NEW c \in Clients, ChildStep(c) \/ KillChild(c)
  PROVE  SockInv'
<1>1. CASE CloseListen(c)
  <2>1. /\ UNCHANGED <<client, cur, master>> /\ child[c] = "start"
        /\ child' = [child EXCEPT ![c] = "read"] /\ Hold(holders, listeners \ {c})
    BY <1>1 DEF CloseListen, clientVars, masterVars
  <2>2. \A d \in Clients :
          /\ holders'[d] \subseteq holders[d] /\ holders[d] \ {Master, Kernel} \subseteq holders'[d]
          /\ holders[d] \ {Kernel} \subseteq holders'[d]
          /\ fate'[d] # fate[d] => holders'[d] = {} /\ holders[d] # {}
    BY <2>1, LetGoFacts
  <2>3. \A d \in Clients : /\ child[d] = "none" => child'[d] = "none"
                           /\ child'[d] \in Serving => child[d] \in Serving
    BY <2>1 DEF TypeOK, Serving
  <2>4. \A d \in Clients : ConnInv(d)'
    BY <2>1, <2>2, <2>3, LetGo, Facts DEF SockInv
  <2>5. MasterInv'
    BY <2>1, <2>2, <2>3, Facts DEF SockInv, MasterInv
  <2> QED BY <2>4, <2>5 DEF SockInv
<1>2. CASE ChildRead(c) \/ ChildWrite(c)
  <2>1. /\ UNCHANGED <<client, fate, holders, cur, master>> /\ child[c] \in Serving
        /\ child' \in {[child EXCEPT ![c] = "write"], [child EXCEPT ![c] = "read"]}
    BY <1>2 DEF ChildRead, ChildWrite, clientVars, socketVars, masterVars, Serving
  <2>2. \A d \in Clients : /\ child[d] = "none" <=> child'[d] = "none"
                           /\ child'[d] \in Serving => child[d] \in Serving
    BY <2>1 DEF TypeOK, Serving
  <2> QED BY <2>1, <2>2 DEF SockInv, ConnInv, MasterInv
<1>3. CASE ChildEnds(c) \/ KillChild(c)
  <2> DEFINE h == [d \in Clients |-> holders[d] \ {c}]
  <2>1. /\ UNCHANGED <<client, cur, master>> /\ child[c] \in Serving
        /\ child' = [child EXCEPT ![c] = "ended"] /\ Hold(h, listeners \ {c})
        /\ \A d \in Clients : h[d] = holders[d] \ {c}
    BY <1>3 DEF ChildEnds, KillChild, ChildGone, ReleaseAll, clientVars, masterVars, Serving
  <2> HIDE DEF h
  <2>2. \A d \in Clients :
          /\ holders'[d] \subseteq holders[d] /\ holders[d] \ {c, Kernel} \subseteq holders'[d]
          /\ fate'[d] # fate[d] => holders'[d] = {} /\ holders[d] # {}
    BY <2>1, LetGoFacts
  <2>3. \A d \in Clients : /\ child[d] = "none" => child'[d] = "none"
                           /\ child'[d] \in Serving => child[d] \in Serving /\ c # d
    BY <2>1 DEF TypeOK, Serving
  <2>4. \A d \in Clients : ConnInv(d)'
    BY <2>1, <2>2, <2>3, LetGo, Facts DEF SockInv
  <2>5. MasterInv'
    <3>1. MasterInv /\ c # Master /\ Master # Kernel
      BY Facts DEF SockInv
    <3>2. master = "fork" => child[cur] = "none" /\ cur \in Clients /\ Master \in holders[cur]
      BY <3>1 DEF MasterInv
    <3> QED BY <2>1, <2>2, <2>3, <3>1, <3>2 DEF MasterInv
  <2> QED BY <2>4, <2>5 DEF SockInv
<1> QED BY <1>1, <1>2, <1>3 DEF ChildStep

LEMMA SockStep == TypeOK /\ SockInv /\ [Next]_vars => SockInv'
<1> SUFFICES ASSUME TypeOK, SockInv, [Next]_vars PROVE SockInv'
  OBVIOUS
<1>1. CASE UNCHANGED vars
  BY <1>1 DEF SockInv, ConnInv, MasterInv, vars, clientVars, socketVars, masterVars, childVars
<1> QED BY <1>1, ClientSock, MasterSock, ChildSock DEF Next

LEMMA SockInit == Init => SockInv
BY Facts DEF Init, SockInv, ConnInv, MasterInv, Serving

(* No close() of the parent, end of another process or failed fork() ever  *)
(* ends a connection under the child that serves it.                       *)
THEOREM StaysOpen == Spec => []OpenWhileServed
<1>1. SockInv => OpenWhileServed
  BY DEF SockInv, ConnInv, OpenWhileServed, Serving
<1>2. Init => TypeOK /\ SockInv
  <2>1. Init => TypeOK
    BY InitTypes
  <2> QED BY <2>1, SockInit
<1>3. TypeOK /\ SockInv /\ [Next]_vars => (TypeOK /\ SockInv)'
  BY TypeStep, SockStep
<1> QED BY <1>1, <1>2, <1>3, PTL DEF Spec

-----------------------------------------------------------------------------
(* What is sent and what comes back, step by step.                         *)
dataVars == <<sent, got, up, down, chunk>>

(* A step that moves no data.                                              *)
LEMMA QuietStep ==
  ASSUME NEW d \in Clients, Whole(d), Part(d), UNCHANGED dataVars,
         fate'[d] = "open" => fate[d] = "open"
  PROVE  Whole(d)' /\ Part(d)'
BY DEF Whole, Part, dataVars

LEMMA HoldFate ==
  ASSUME NEW h, NEW l, Hold(h, l), NEW d \in Clients, fate'[d] = "open"
  PROVE  fate[d] = "open"
BY DEF Hold

LEMMA SendData ==
  ASSUME TypeOK, DataInv, NEW c \in Clients, Send(c)
  PROVE  DataInv'
<1> DEFINE text == NextLine(c)
<1>1. /\ client[c] = "send" /\ client' = [client EXCEPT ![c] = "read"]
      /\ buffer' = [buffer EXCEPT ![c] = text] /\ sent' = [sent EXCEPT ![c] = @ \o text]
      /\ late' = [late EXCEPT ![c] = @ \/ got[c] # sent[c]]
      /\ UNCHANGED <<got, down, child, chunk>>
      /\ \/ /\ fate[c] = "open" /\ UNCHANGED fate
            /\ up' = [up EXCEPT ![c] = @ \o text]
         \/ /\ fate[c] # "open" /\ UNCHANGED up
            /\ fate' \in {fate, [fate EXCEPT ![c] = "reset"]}
  BY DEF Send, Become, childVars
<1>2. text \in Seq(Nat) /\ Whole(c) /\ Part(c) /\ Written(c)
  BY NextLineFacts DEF DataInv
<1> HIDE DEF text
<1>3. Whole(c)'
  <2>1. CASE fate[c] = "open"
    <3> DEFINE w == (got[c] \o down[c]) \o chunk[c]
    <3>1. w \in Seq(Nat) /\ up[c] \in Seq(Nat)
      <4>1. /\ got[c] \in Seq(Nat) /\ down[c] \in Seq(Nat) /\ chunk[c] \in Seq(Nat)
            /\ up[c] \in Seq(Nat)
        BY DEF TypeOK
      <4>2. got[c] \o down[c] \in Seq(Nat)
        BY <4>1, JoinType, Zenon
      <4> QED BY <4>1, <4>2, JoinType, Zenon
    <3>2. sent[c] = w \o up[c]
      BY <1>2, <2>1 DEF Whole
    <3>3. sent'[c] = sent[c] \o text /\ up'[c] = up[c] \o text
      BY <1>1, <2>1 DEF TypeOK
    <3>4. Whole(c)' <=> (fate'[c] = "open" => sent'[c] = w \o up'[c])
      BY <1>1 DEF Whole
    <3> HIDE DEF w
    <3>5. (w \o up[c]) \o text = w \o (up[c] \o text)
      BY ONLY <1>2, <3>1, JoinAssoc, Zenon
    <3> QED BY ONLY <3>2, <3>3, <3>4, <3>5
  <2>2. CASE fate[c] # "open"
    BY <1>1, <2>2 DEF Whole, TypeOK
  <2> QED BY <2>1, <2>2
<1>4. Part(c)'
  <2> PICK u \in Seq(Nat) : sent[c] = (got[c] \o down[c]) \o u
    BY <1>2 DEF Part
  <2>1. got[c] \o down[c] \in Seq(Nat) /\ u \o text \in Seq(Nat)
    BY <1>2, JoinType, JoinAssoc DEF TypeOK
  <2> DEFINE w == got[c] \o down[c]
  <2>2. sent[c] \o text = (got[c] \o down[c]) \o (u \o text)
    <3> HIDE DEF w
    <3>1. (w \o u) \o text = w \o (u \o text)
      BY <1>2, <2>1, JoinAssoc DEF w
    <3> QED BY <3>1 DEF w
  <2>3. sent'[c] = sent[c] \o text /\ got'[c] = got[c] /\ down'[c] = down[c]
    BY <1>1 DEF TypeOK
  <2> QED BY <2>1, <2>2, <2>3 DEF Part
<1>5. Written(c)'
  BY <1>1, <1>2 DEF Written, TypeOK
<1>6. ASSUME NEW d \in Clients \ {c} PROVE Whole(d)' /\ Part(d)' /\ Written(d)'
  <2>1. Whole(d) /\ Part(d) /\ Written(d)
    BY DEF DataInv
  <2>2. /\ buffer'[d] = buffer[d] /\ sent'[d] = sent[d] /\ late'[d] = late[d]
        /\ client'[d] = client[d] /\ fate'[d] = fate[d] /\ up'[d] = up[d]
        /\ UNCHANGED <<got, down, child, chunk>>
    BY <1>1 DEF TypeOK
  <2> QED BY <2>1, <2>2 DEF Whole, Part, Written
<1> QED BY <1>3, <1>4, <1>5, <1>6 DEF DataInv

LEMMA ReadData ==
  ASSUME TypeOK, DataInv, NEW c \in Clients, ReadReply(c)
  PROVE  DataInv'
<1> PICK k \in Amounts(down[c], BufSize) :
      /\ got' = [got EXCEPT ![c] = @ \o First(down[c], k)]
      /\ buffer' = [buffer EXCEPT ![c] = First(down[c], k) \o From(@, k + 1)]
      /\ down' = [down EXCEPT ![c] = From(@, k + 1)]
  BY DEF ReadReply
<1> DEFINE a == First(down[c], k)
           b == From(down[c], k + 1)
<1>1. /\ client[c] = "read" /\ client' = [client EXCEPT ![c] = "send"]
      /\ UNCHANGED <<sent, late, up, fate, child, chunk>>
  BY DEF ReadReply, Become, socketVars, childVars
<1>2. /\ got'[c] = got[c] \o a /\ down'[c] = b /\ buffer'[c] = a \o From(buffer[c], k + 1)
      /\ got[c] \in Seq(Nat) /\ down[c] \in Seq(Nat) /\ buffer[c] \in Seq(Nat)
  BY DEF TypeOK
<1>3. a \in Seq(Nat) /\ b \in Seq(Nat) /\ k \in 0 .. Len(down[c]) /\ a \o b = down[c]
  <2>1. k \in 0 .. Len(down[c])
    BY <1>2, AmountFacts
  <2> QED BY ONLY <1>2, <2>1, CutFacts
<1>4. Whole(c) /\ Part(c) /\ Written(c)
  BY DEF DataInv
<1> HIDE DEF a, b
<1>5. got'[c] \o down'[c] = got[c] \o down[c]
  <2>1. (got[c] \o a) \o b = got[c] \o (a \o b)
    <3> DEFINE g == got[c]
    <3>1. g \in Seq(Nat)
      BY <1>2
    <3> HIDE DEF g
    <3>2. (g \o a) \o b = g \o (a \o b)
      BY ONLY <1>3, <3>1, JoinAssoc, Zenon
    <3> QED BY ONLY <3>2 DEF g
  <2> QED BY ONLY <1>2, <1>3, <2>1
<1>6. Whole(c)' /\ Part(c)' /\ Written(c)'
  BY <1>1, <1>4, <1>5 DEF Whole, Part, Written
<1>7. ASSUME NEW d \in Clients \ {c} PROVE Whole(d)' /\ Part(d)' /\ Written(d)'
  <2>1. Whole(d) /\ Part(d) /\ Written(d)
    BY DEF DataInv
  <2>2. /\ buffer'[d] = buffer[d] /\ got'[d] = got[d] /\ down'[d] = down[d]
        /\ client'[d] = client[d] /\ UNCHANGED <<sent, late, up, fate, child, chunk>>
    BY <1>1 DEF TypeOK
  <2> QED BY <2>1, <2>2 DEF Whole, Part, Written
<1> QED BY <1>6, <1>7 DEF DataInv

LEMMA ChildData ==
  ASSUME TypeOK, SockInv, DataInv, NEW c \in Clients, ChildRead(c) \/ ChildWrite(c)
  PROVE  DataInv'
<1> DEFINE G == got[c] \o down[c]
<1>1. /\ Whole(c) /\ Part(c) /\ Written(c)
      /\ got[c] \in Seq(Nat) /\ down[c] \in Seq(Nat) /\ chunk[c] \in Seq(Nat)
      /\ up[c] \in Seq(Nat) /\ G \in Seq(Nat)
  BY JoinType, JoinAssoc DEF DataInv, TypeOK
<1>2. /\ child[c] \in Serving /\ UNCHANGED <<client, rest, buffer, sent, got, late, fate>>
  BY DEF ChildRead, ChildWrite, clientVars, socketVars, Serving
<1>3. fate[c] = "open"
  BY <1>2 DEF SockInv, ConnInv, Serving
<1>4. sent[c] = (G \o chunk[c]) \o up[c]
  BY <1>1, <1>3 DEF Whole
<1>5. ASSUME NEW d \in Clients \ {c} PROVE Whole(d)' /\ Part(d)' /\ Written(d)'
  <2>1. Whole(d) /\ Part(d) /\ Written(d)
    BY DEF DataInv
  <2>2. /\ up'[d] = up[d] /\ down'[d] = down[d] /\ chunk'[d] = chunk[d] /\ child'[d] = child[d]
    BY DEF ChildRead, ChildWrite, TypeOK
  <2> QED BY <1>2, <2>1, <2>2 DEF Whole, Part, Written
<1>6. CASE ChildRead(c)
  <2> PICK k \in Amounts(up[c], BufSize) :
        /\ chunk' = [chunk EXCEPT ![c] = First(up[c], k)]
        /\ up' = [up EXCEPT ![c] = From(@, k + 1)]
    BY <1>6 DEF ChildRead
  <2> DEFINE a == First(up[c], k)
             b == From(up[c], k + 1)
  <2>1. /\ a \in Seq(Nat) /\ b \in Seq(Nat) /\ k \in 0 .. Len(up[c]) /\ a \o b = up[c]
    BY <1>1, AmountFacts, CutFacts
  <2>2. /\ chunk'[c] = a /\ up'[c] = b /\ down' = down /\ child[c] = "read"
        /\ child' = [child EXCEPT ![c] = "write"]
    BY <1>6 DEF ChildRead, TypeOK
  <2> HIDE DEF a, b
  <2>3. chunk[c] = <<>> /\ G \o chunk[c] = G
    BY <1>1, <2>2, EmptyFacts DEF Written
  <2>4. (G \o a) \o b = G \o up[c]
    <3> HIDE DEF G
    <3>1. (G \o a) \o b = G \o (a \o b)
      BY <1>1, <2>1, JoinAssoc
    <3> QED BY <2>1, <3>1
  <2>5. Whole(c)'
    <3>1. sent[c] = G \o up[c]
      BY <1>4, <2>3
    <3>2. sent'[c] = sent[c] /\ got' = got
      BY <1>2
    <3>3. sent'[c] = ((got'[c] \o down'[c]) \o chunk'[c]) \o up'[c]
      BY <2>2, <2>4, <3>1, <3>2
    <3> QED BY <3>3 DEF Whole
  <2>6. Part(c)'
    BY <1>1, <1>2, <2>2 DEF Part
  <2>7. Written(c)'
    BY <2>2 DEF Written, TypeOK
  <2> QED BY <1>5, <2>5, <2>6, <2>7 DEF DataInv
<1>7. CASE ChildWrite(c)
  <2>1. /\ down'[c] = down[c] \o chunk[c] /\ chunk'[c] = <<>> /\ up' = up
    BY <1>7 DEF ChildWrite, TypeOK
  <2>2. got[c] \o down'[c] = G \o chunk[c] /\ got[c] \o down'[c] \in Seq(Nat)
    <3>1. (got[c] \o down[c]) \o chunk[c] = got[c] \o (down[c] \o chunk[c])
      <4> DEFINE g == got[c]
                 d == down[c]
                 x == chunk[c]
      <4>1. g \in Seq(Nat) /\ d \in Seq(Nat) /\ x \in Seq(Nat)
        BY <1>1
      <4> HIDE DEF g, d, x
      <4>2. (g \o d) \o x = g \o (d \o x)
        BY ONLY <4>1, JoinAssoc, Zenon
      <4> QED BY ONLY <4>2 DEF g, d, x
    <3>2. got[c] \o (down[c] \o chunk[c]) \in Seq(Nat)
      BY <1>1, JoinType
    <3> QED BY <2>1, <3>1, <3>2
  <2>3. (got[c] \o down'[c]) \o chunk'[c] = got[c] \o down'[c]
    BY <2>1, <2>2, EmptyFacts
  <2>4. Whole(c)'
    BY <1>2, <1>4, <2>1, <2>2, <2>3 DEF Whole
  <2>5. Part(c)'
    BY <1>1, <1>2, <1>4, <2>2 DEF Part
  <2>6. Written(c)'
    BY <2>1 DEF Written
  <2> QED BY <1>5, <2>4, <2>5, <2>6 DEF DataInv
<1> QED BY <1>6, <1>7

LEMMA DataStep == TypeOK /\ SockInv /\ DataInv /\ [Next]_vars => DataInv'
<1> SUFFICES ASSUME TypeOK, SockInv, DataInv, [Next]_vars PROVE DataInv'
  OBVIOUS
<1>1. ASSUME NEW c \in Clients, Send(c) \/ ReadReply(c) \/ ChildRead(c) \/ ChildWrite(c)
      PROVE  DataInv'
  BY <1>1, SendData, ReadData, ChildData
<1>2. ASSUME UNCHANGED dataVars,
             \A d \in Clients : /\ fate'[d] = "open" => fate[d] = "open"
                                /\ child'[d] \in {"none", "start", "read"} =>
                                     child[d] \in {"none", "start", "read"}
      PROVE  DataInv'
  <2> SUFFICES ASSUME NEW d \in Clients PROVE Whole(d)' /\ Part(d)' /\ Written(d)'
    BY DEF DataInv
  <2>1. Whole(d) /\ Part(d) /\ Written(d)
    BY DEF DataInv
  <2>2. Written(d)'
    BY <1>2, <2>1 DEF Written, dataVars
  <2> QED BY <1>2, <2>1, <2>2, QuietStep
<1>3. ASSUME NEW c \in Clients,
             Connect(c) \/ Refused(c) \/ ReadNothing(c) \/ Fail(c) \/ Quit(c)
      PROVE  DataInv'
  <2>1. UNCHANGED dataVars /\ UNCHANGED child
    BY <1>3 DEF Connect, Refused, ReadNothing, Fail, Quit, dataVars, wireVars, childVars
  <2>2. \A d \in Clients : fate'[d] = "open" => fate[d] = "open"
    BY <1>3, HoldFate DEF Connect, Refused, ReadNothing, Fail, Quit, socketVars
  <2> QED BY <1>2, <2>1, <2>2
<1>4. CASE MasterStep \/ MasterEnds
  <2>1. UNCHANGED dataVars /\ UNCHANGED client
    BY <1>4 DEF MasterStep, MasterEnds, Accept, Fork, ForkFails, CloseCopy,
                dataVars, clientVars, wireVars, childVars
  <2>2. \A d \in Clients : fate'[d] = "open" => fate[d] = "open"
    BY <1>4, HoldFate DEF MasterStep, MasterEnds, Accept, Fork, ForkFails, CloseCopy,
                          ReleaseAll, socketVars
  <2>3. child' = child \/ (child' = [child EXCEPT ![cur] = "start"] /\ child[cur] = "none")
    BY <1>4 DEF MasterStep, MasterEnds, Accept, Fork, ForkFails, CloseCopy, childVars,
                SockInv, MasterInv
  <2> QED BY <1>2, <2>1, <2>2, <2>3 DEF TypeOK
<1>5. ASSUME NEW c \in Clients, CloseListen(c) \/ ChildEnds(c) \/ KillChild(c)
      PROVE  DataInv'
  <2>1. UNCHANGED dataVars /\ UNCHANGED client
    BY <1>5 DEF CloseListen, ChildEnds, KillChild, ChildGone, dataVars, clientVars, wireVars
  <2>2. \A d \in Clients : fate'[d] = "open" => fate[d] = "open"
    BY <1>5, HoldFate DEF CloseListen, ChildEnds, KillChild, ChildGone, ReleaseAll
  <2>3. \/ child' = [child EXCEPT ![c] = "read"] /\ child[c] = "start"
        \/ child' = [child EXCEPT ![c] = "ended"]
    BY <1>5 DEF CloseListen, ChildEnds, KillChild, ChildGone
  <2> QED BY <1>2, <2>1, <2>2, <2>3 DEF TypeOK
<1>6. CASE UNCHANGED vars
  BY <1>2, <1>6 DEF vars, dataVars, clientVars, wireVars, socketVars, childVars, TypeOK
<1> QED BY <1>1, <1>3, <1>4, <1>5, <1>6 DEF Next, Reads, ChildStep

LEMMA DataInit == Init => DataInv
BY EmptyFacts DEF Init, DataInv, Whole, Part, Written

LEMMA Inductive == Spec => []IInv
<1>1. Init => IInv
  BY InitTypes, SockInit, DataInit DEF IInv
<1>2. IInv /\ [Next]_vars => IInv'
  BY TypeStep, SockStep, DataStep DEF IInv
<1> QED BY <1>1, <1>2, PTL DEF Spec

(* However often a line is cut on its way, nothing of it is lost, doubled  *)
(* or moved between client, network and child.                             *)
THEOREM NothingLost == Spec => []StreamIntact
<1>1. IInv => StreamIntact
  BY DEF IInv, DataInv, Whole, StreamIntact
<1> QED BY <1>1, Inductive, PTL

(* For each client server and network are a stream: every step puts in,    *)
(* takes out what comes next, or is none of the stream's.                  *)
THEOREM IsAStream == Spec => Streams
<1>1. Init => \A c \in Clients : B(c)!Init
  BY DEF Init, B!Init
<1>2. IInv /\ IInv' /\ [Next]_vars =>
        [\A c \in Clients : [B(c)!Next]_(B(c)!vars)]_<<sent, got>>
  <2> SUFFICES ASSUME IInv, IInv', [Next]_vars, NEW c \in Clients
               PROVE  B(c)!Next \/ UNCHANGED <<sent[c], got[c]>>
    BY DEF B!vars
  <2>1. /\ sent[c] \in Seq(Nat) /\ got[c] \in Seq(Nat)
        /\ sent'[c] \in Seq(Nat) /\ got'[c] \in Seq(Nat) /\ down'[c] \in Seq(Nat)
    BY DEF IInv, TypeOK
  <2>2. CASE sent'[c] # sent[c] /\ got'[c] = got[c] /\ sent'[c] = sent[c] \o NextLine(c)
    <3>1. NextLine(c) \in Seq(Nat)
      BY NextLineFacts DEF IInv
    <3>2. B(c)!Prefix(sent[c], sent'[c])
      <4>1. /\ Len(sent'[c]) = Len(sent[c]) + Len(NextLine(c)) /\ Len(sent[c]) \in Nat
            /\ Len(NextLine(c)) \in Nat /\ First(sent'[c], Len(sent[c])) = sent[c]
        BY <2>1, <2>2, <3>1, JoinFacts
      <4> QED BY <4>1 DEF B!Prefix, B!First, First
    <3> QED BY <2>2, <3>2 DEF B!Next, B!Put
  <2>3. CASE sent'[c] = sent[c] /\ Len(got'[c]) > Len(got[c])
    <3>0. PICK u \in Seq(Nat) : sent'[c] = (got'[c] \o down'[c]) \o u
      BY DEF IInv, DataInv, Part
    <3>1. down'[c] \o u \in Seq(Nat)
      BY <2>1, JoinType, Zenon
    <3>2. sent'[c] = got'[c] \o (down'[c] \o u)
      <4>1. (got'[c] \o down'[c]) \o u = got'[c] \o (down'[c] \o u)
        <5> DEFINE g == got'[c]
                   d == down'[c]
        <5>1. g \in Seq(Nat) /\ d \in Seq(Nat) /\ u \in Seq(Nat)
          BY <2>1
        <5> HIDE DEF g, d
        <5>2. (g \o d) \o u = g \o (d \o u)
          BY ONLY <5>1, JoinAssoc, Zenon
        <5> QED BY ONLY <5>2 DEF g, d
      <4> QED BY ONLY <3>0, <4>1
    <3>3. /\ First(sent'[c], Len(got'[c])) = got'[c]
          /\ Len(got'[c]) <= Len(sent'[c])
          /\ Len(got'[c]) \in Nat /\ Len(got[c]) \in Nat /\ Len(sent'[c]) \in Nat
      <4> DEFINE x == got'[c]
                 y == down'[c] \o u
      <4>1. x \in Seq(Nat) /\ y \in Seq(Nat) /\ sent'[c] = x \o y
        BY <2>1, <3>1, <3>2
      <4> HIDE DEF x, y
      <4>2. /\ First(sent'[c], Len(x)) = x /\ Len(sent'[c]) = Len(x) + Len(y)
            /\ Len(x) \in Nat /\ Len(y) \in Nat
        BY <4>1, JoinFacts
      <4>3. Len(x) <= Len(sent'[c]) /\ Len(sent'[c]) \in Nat /\ Len(got[c]) \in Nat
        BY <2>1, <4>2, LenProperties
      <4> QED BY <4>2, <4>3 DEF x
    <3>4. Len(got'[c]) \in Len(got[c]) + 1 .. Len(sent[c])
      BY <2>3, <3>3
    <3>5. got'[c] = First(sent[c], Len(got'[c])) /\ sent'[c] = sent[c]
      BY <2>3, <3>3
    <3> QED BY <3>4, <3>5 DEF B!Next, B!Take, B!First, First
  <2>4. ASSUME NEW d \in Clients, Send(d) PROVE B(c)!Next \/ UNCHANGED <<sent[c], got[c]>>
    <3>1. got' = got /\ sent' = [sent EXCEPT ![d] = @ \o NextLine(d)]
      BY <2>4 DEF Send
    <3> QED BY <2>2, <3>1 DEF IInv, TypeOK
  <2>5. ASSUME NEW d \in Clients, ReadReply(d) PROVE B(c)!Next \/ UNCHANGED <<sent[c], got[c]>>
    <3> PICK k \in Amounts(down[d], BufSize) : got' = [got EXCEPT ![d] = @ \o First(down[d], k)]
      BY <2>5 DEF ReadReply
    <3>1. /\ k \in 0 .. Len(down[d]) /\ k > 0 /\ First(down[d], k) \in Seq(Nat)
          /\ down[d] \in Seq(Nat)
      BY AmountFacts DEF IInv, TypeOK, Amounts
    <3>2. Len(First(down[d], k)) = k
      BY <3>1, CutFacts
    <3>3. /\ Len(got[c] \o First(down[d], k)) = Len(got[c]) + k
          /\ Len(got[c]) \in Nat
      <4> DEFINE g == got[c]
                 f == First(down[d], k)
      <4>1. g \in Seq(Nat) /\ f \in Seq(Nat) /\ Len(f) = k
        BY <2>1, <3>1, <3>2
      <4> HIDE DEF g, f
      <4>2. Len(g \o f) = Len(g) + k /\ Len(g) \in Nat
        BY ONLY <4>1, JoinFacts
      <4> QED BY ONLY <4>2 DEF g, f
    <3>4. sent' = sent /\ (c # d => got'[c] = got[c]) /\ (c = d => got'[c] = got[c] \o First(down[d], k))
      BY <2>5 DEF ReadReply, IInv, TypeOK
    <3>5. c = d => Len(got'[c]) > Len(got[c])
      <4>1. k \in Nat /\ k > 0
        BY <3>1, LenProperties
      <4>2. c = d => Len(got'[c]) = Len(got[c]) + k
        BY <3>3, <3>4, Zenon
      <4> DEFINE m == Len(got'[c])
                 n == Len(got[c])
      <4>3. n \in Nat /\ (c = d => m = n + k)
        BY <3>3, <4>2
      <4> HIDE DEF m, n
      <4>4. c = d => m > n
        BY <4>1, <4>3
      <4> QED BY <4>4 DEF m, n
    <3> QED BY <2>3, <3>4, <3>5
  <2>6. ASSUME UNCHANGED <<sent, got>> PROVE B(c)!Next \/ UNCHANGED <<sent[c], got[c]>>
    BY <2>6
  <2> QED BY <2>4, <2>5, <2>6
          DEF Next, Reads, ChildStep, MasterStep, vars, clientVars, Connect, Refused, Quit, Fail,
              ReadNothing, CloseListen, ChildRead, ChildWrite, ChildEnds, ChildGone, KillChild,
              Accept, Fork, ForkFails, CloseCopy, MasterEnds
<1> QED BY <1>1, <1>2, Inductive, PTL DEF Spec, Streams
-----------------------------------------------------------------------------
(* Where clients and server can stand still.                               *)

(* Who holds a connection of the child that serves it, and what happens to *)
(* one that nobody has accepted.                                           *)
Kept(c) ==
  /\ Kernel \in holders[c] => listeners # {}
  /\ holders[c] = {} => fate[c] # "open" \/ client[c] \in {"new", "ended"}
  /\ child[c] \in Serving \cup {"ended"} =>
       /\ holders[c] \subseteq {Master, c}
       /\ Master \in holders[c] => master = "close" /\ cur = c
  /\ child[c] = "ended" => c \notin holders[c]
  /\ c \in listeners => child[c] = "start"

HoldInv == /\ Master \in listeners => master # "ended"
           /\ master = "fork" => holders[cur] = {Master}
           /\ \A c \in Clients : Kept(c)

(* Who waits for an echo has not read all that it sent.                    *)
ReadingInv == \A c \in Clients :
  client[c] = "read" /\ buffer[c] # <<>> => Len(got[c]) < Len(sent[c])

(* What a client cannot go on from unless somebody else does something:    *)
(* its user, or the server that has the connection open; and the master    *)
(* and a child unless a client connects, sends or ends.                    *)
ClientBlocked(c) ==
  \/ client[c] \in {"new", "ended"}
  \/ client[c] = "send" /\ fate[c] # "reset"
  \/ client[c] = "read" /\ down[c] = <<>> /\ fate[c] = "open"
MasterBlocked == \/ master = "ended"
                 \/ master = "accept" /\ \A c \in Clients : holders[c] # {Kernel}
ChildBlocked(c) == \/ child[c] \in {"none", "ended"}
                   \/ child[c] = "read" /\ up[c] = <<>> /\ client[c] # "ended"

(* A change of hands by which no connection gets a new holder.             *)
LEMMA LetGoKept ==
  ASSUME TypeOK, NEW d \in Clients, Kept(d), NEW h, NEW l, Hold(h, l),
         h[d] \subseteq holders[d], l \subseteq listeners, client'[d] = client[d],
         child'[d] \in Serving \cup {"ended"} => child[d] \in Serving \cup {"ended"},
         child'[d] = "ended" => d \notin h[d],
         d \in l => child'[d] = "start",
         child'[d] \in Serving \cup {"ended"} /\ Master \in h[d] => master' = "close" /\ cur' = d
  PROVE  Kept(d)'
<1>1. /\ listeners' = l /\ holders'[d] \subseteq h[d]
      /\ Kernel \in holders'[d] => l # {}
      /\ holders'[d] = {} /\ holders[d] # {} => fate'[d] # "open"
      /\ holders[d] = {} => fate'[d] = fate[d]
  BY DEF Hold, TypeOK
<1>2. Kernel \in holders'[d] => listeners' # {}
  BY <1>1
<1>3. holders'[d] = {} => fate'[d] # "open" \/ client'[d] \in {"new", "ended"}
  BY <1>1 DEF Kept
<1>4. child'[d] \in Serving \cup {"ended"} =>
        /\ holders'[d] \subseteq {Master, d}
        /\ Master \in holders'[d] => master' = "close" /\ cur' = d
  BY <1>1 DEF Kept
<1>5. child'[d] = "ended" => d \notin holders'[d]
  BY <1>1
<1>6. d \in listeners' => child'[d] = "start"
  BY <1>1
<1> QED BY <1>2, <1>3, <1>4, <1>5, <1>6, Zenon DEF Kept

LEMMA ClientHold ==
  ASSUME TypeOK, SockInv, HoldInv, NEW c \in Clients,
         Connect(c) \/ Refused(c) \/ Send(c) \/ Reads(c) \/ Quit(c)
  PROVE  HoldInv'
<1>1. UNCHANGED <<child, master, cur>>
  BY DEF Connect, Refused, Send, Reads, ReadReply, ReadNothing, Fail, Quit, masterVars, childVars
<1>2. CASE Connect(c)
  <2>1. /\ client[c] = "new" /\ client' = [client EXCEPT ![c] = "send"] /\ listeners # {}
        /\ Hold([holders EXCEPT ![c] = {Kernel}], listeners)
    BY <1>2 DEF Connect, Become
  <2>2. /\ listeners' = listeners
        /\ \A d \in Clients : /\ holders'[d] = IF d = c THEN {Kernel} ELSE holders[d]
                              /\ fate'[d] = fate[d]
    BY <2>1 DEF Hold, TypeOK
  <2>3. child[c] = "none"
    BY <2>1 DEF SockInv, ConnInv
  <2>4. Kept(c)'
    <3>1. holders'[c] = {Kernel} /\ child'[c] = "none" /\ listeners' # {}
      BY <1>1, <2>1, <2>2, <2>3
    <3>2. c \notin listeners'
      BY <2>2, <2>3 DEF HoldInv, Kept
    <3> QED BY <3>1, <3>2 DEF Kept, Serving
  <2>5. \A d \in Clients \ {c} : Kept(d)'
    BY <1>1, <2>1, <2>2 DEF HoldInv, Kept, TypeOK
  <2>6. master' = "fork" => holders'[cur'] = {Master}
    <3>1. master = "fork" => cur \in Clients /\ Master \in holders[cur]
      BY DEF SockInv, MasterInv
    <3>2. holders[c] = {}
      BY <2>1 DEF SockInv, ConnInv
    <3> QED BY <1>1, <2>2, <3>1, <3>2 DEF HoldInv
  <2> QED BY <1>1, <2>2, <2>4, <2>5, <2>6 DEF HoldInv
<1>3. CASE ~Connect(c)
  <2>1. /\ UNCHANGED <<holders, listeners>>
        /\ \A d \in Clients : /\ fate'[d] = "open" => fate[d] = "open"
                              /\ client[d] \in {"new", "ended"} => client'[d] \in {"new", "ended"}
    <3>1. CASE Send(c)
      <4>1. /\ client[c] = "send" /\ client' = [client EXCEPT ![c] = "read"]
            /\ UNCHANGED <<holders, listeners>>
            /\ \/ fate' = fate
               \/ fate' = [fate EXCEPT ![c] = "reset"]
        BY <3>1 DEF Send, Become
      <4> QED BY <4>1 DEF TypeOK
    <3>2. CASE Refused(c) \/ Reads(c) \/ Quit(c)
      <4>1. /\ UNCHANGED <<holders, listeners, fate>>
            /\ \/ client' = [client EXCEPT ![c] = "ended"]
               \/ client' = [client EXCEPT ![c] = "send"] /\ client[c] = "read"
        BY <3>2 DEF Refused, Reads, ReadReply, ReadNothing, Fail, Quit, Become, socketVars
      <4> QED BY <4>1 DEF TypeOK
    <3> QED BY <1>3, <3>1, <3>2
  <2>2. ASSUME NEW d \in Clients PROVE Kept(d)'
    <3>1. Kept(d)
      BY DEF HoldInv
    <3> QED BY <1>1, <2>1, <3>1 DEF Kept
  <2> QED BY <1>1, <2>1, <2>2 DEF HoldInv
<1> QED BY <1>2, <1>3

LEMMA MasterHold ==
  ASSUME TypeOK, SockInv, HoldInv, MasterStep \/ MasterEnds
  PROVE  HoldInv'
<1>1. CASE Accept
  <2> PICK c \in Clients : /\ holders[c] = {Kernel} /\ cur' = c
                           /\ Hold([holders EXCEPT ![c] = {Master}], listeners)
    BY <1>1 DEF Accept
  <2>1. UNCHANGED <<client, child>> /\ master = "accept" /\ master' = "fork"
    BY <1>1 DEF Accept, clientVars, childVars
  <2>2. child[c] = "none"
    BY DEF SockInv, ConnInv
  <2>3. /\ holders'[c] = {Master} /\ listeners' = listeners
        /\ \A d \in Clients \ {c} : /\ holders'[d] = holders[d] \/ listeners = {}
                                    /\ [holders EXCEPT ![c] = {Master}][d] = holders[d]
    BY Facts DEF Hold, TypeOK
  <2>4. Kept(c)'
    <3>1. c \notin listeners
      BY <2>2 DEF HoldInv, Kept
    <3>2. child'[c] = "none"
      BY <2>1, <2>2
    <3> QED BY <2>3, <3>1, <3>2, Facts DEF Kept, Serving
  <2>5. ASSUME NEW d \in Clients \ {c} PROVE Kept(d)'
    <3>1. /\ Kept(d) /\ [holders EXCEPT ![c] = {Master}][d] = holders[d]
          /\ client'[d] = client[d] /\ child'[d] = child[d]
      BY <2>1, <2>3 DEF HoldInv
    <3>2. child[d] \in Serving \cup {"ended"} => Master \notin holders[d]
      BY <2>1, <3>1 DEF Kept
    <3>3. /\ child[d] = "ended" => d \notin holders[d]
          /\ d \in listeners => child[d] = "start"
      BY <3>1 DEF Kept
    <3> QED BY <3>1, <3>2, <3>3, LetGoKept
  <2>6. listeners' = listeners /\ holders'[cur'] = {Master} /\ master' # "ended"
    BY <2>1, <2>3
  <2> QED BY <2>4, <2>5, <2>6 DEF HoldInv
<1>2. CASE MasterEnds
  <2> DEFINE h == [c \in Clients |-> holders[c] \ {Master}]
             l == listeners \ {Master}
  <2>1. /\ UNCHANGED <<client, child, cur>> /\ master' = "ended" /\ Hold(h, l)
        /\ \A d \in Clients : h[d] = holders[d] \ {Master}
        /\ Master \notin l /\ l \subseteq listeners
    BY <1>2 DEF MasterEnds, ReleaseAll, clientVars, childVars
  <2> HIDE DEF h, l
  <2>2. listeners' = l
    BY <2>1 DEF Hold
  <2>3. ASSUME NEW d \in Clients PROVE Kept(d)'
    <3>1. /\ Kept(d) /\ client'[d] = client[d] /\ child'[d] = child[d]
          /\ h[d] \subseteq holders[d] /\ Master \notin h[d]
      BY <2>1 DEF HoldInv
    <3>2. /\ child[d] = "ended" => d \notin holders[d]
          /\ d \in listeners => child[d] = "start"
      BY <3>1 DEF Kept
    <3> QED BY <2>1, <3>1, <3>2, LetGoKept
  <2> QED BY <2>1, <2>2, <2>3 DEF HoldInv
<1>3. CASE Fork
  <2>1. /\ cur \in Clients /\ child[cur] = "none" /\ holders[cur] = {Master} /\ master = "fork"
        /\ Kernel \notin holders[cur] /\ Master # Kernel /\ cur # Kernel
    BY <1>3, Facts DEF Fork, SockInv, MasterInv, HoldInv
  <2>2. /\ UNCHANGED <<client, cur>> /\ master' = "close"
        /\ child' = [child EXCEPT ![cur] = "start"] /\ listeners' = listeners \cup {cur}
    BY <1>3 DEF Fork, clientVars, Hold
  <2>3. \A d \in Clients :
          /\ holders'[d] = IF Master \in holders[d] THEN holders[d] \cup {cur} ELSE holders[d]
          /\ fate'[d] = fate[d]
    BY <1>3, <2>1 DEF Fork, Hold, TypeOK
  <2>4. Kept(cur)'
    <3>1. holders'[cur] = {Master, cur} /\ child'[cur] = "start"
      BY <2>1, <2>2, <2>3 DEF TypeOK
    <3> QED BY <2>1, <2>2, <3>1 DEF Kept
  <2>5. ASSUME NEW d \in Clients \ {cur} PROVE Kept(d)'
    <3>1. /\ Kept(d) /\ client'[d] = client[d] /\ child'[d] = child[d] /\ fate'[d] = fate[d]
      BY <2>2, <2>3 DEF HoldInv, TypeOK
    <3>2. child[d] \in Serving \cup {"ended"} => Master \notin holders[d]
      BY <2>1, <3>1 DEF Kept
    <3>3. CASE Master \in holders[d]
      <4>1. child'[d] \notin Serving \cup {"ended"} /\ holders'[d] # {} /\ listeners' # {}
        BY <2>2, <2>3, <3>1, <3>2, <3>3
      <4>2. d \in listeners' => child'[d] = "start"
        BY <2>2, <3>1 DEF Kept
      <4> QED BY <4>1, <4>2 DEF Kept
    <3>4. CASE Master \notin holders[d]
      <4>1. holders'[d] = holders[d] /\ listeners' # {} /\ (d \in listeners' => d \in listeners)
        BY <2>2, <2>3, <3>4
      <4> QED BY <3>1, <3>4, <4>1 DEF Kept
    <3> QED BY <3>3, <3>4
  <2> QED BY <2>2, <2>4, <2>5 DEF HoldInv
<1>4. CASE ForkFails
  <2>1. /\ UNCHANGED <<client, child, cur, holders, listeners, fate>>
        /\ master = "fork" /\ master' = "accept"
    BY <1>4 DEF ForkFails, clientVars, socketVars, childVars
  <2>2. ASSUME NEW d \in Clients PROVE Kept(d)'
    <3>1. Kept(d)
      BY DEF HoldInv
    <3> QED BY <2>1, <3>1 DEF Kept
  <2> QED BY <2>1, <2>2 DEF HoldInv
<1>5. CASE CloseCopy
  <2> DEFINE h == [holders EXCEPT ![cur] = @ \ {Master}]
  <2>1. /\ UNCHANGED <<client, child, cur>> /\ master = "close" /\ master' = "accept"
        /\ Hold(h, listeners)
        /\ \A d \in Clients : h[d] \subseteq holders[d] /\ (d = cur => Master \notin h[d])
    BY <1>5 DEF CloseCopy, clientVars, childVars, TypeOK
  <2> HIDE DEF h
  <2>2. listeners' = listeners
    BY <2>1 DEF Hold
  <2>3. ASSUME NEW d \in Clients PROVE Kept(d)'
    <3>1. /\ Kept(d) /\ client'[d] = client[d] /\ child'[d] = child[d]
          /\ h[d] \subseteq holders[d]
      BY <2>1 DEF HoldInv
    <3>2. /\ child[d] = "ended" => d \notin holders[d]
          /\ d \in listeners => child[d] = "start"
          /\ child[d] \in Serving \cup {"ended"} => Master \notin h[d]
      BY <2>1, <3>1 DEF Kept
    <3> QED BY <2>1, <3>1, <3>2, LetGoKept
  <2> QED BY <2>1, <2>2, <2>3 DEF HoldInv
<1> QED BY <1>1, <1>2, <1>3, <1>4, <1>5 DEF MasterStep

LEMMA ChildHold ==
  ASSUME TypeOK, SockInv, HoldInv, NEW c \in Clients, ChildStep(c) \/ KillChild(c)
  PROVE  HoldInv'
<1>0. UNCHANGED <<client, master, cur>>
  BY DEF ChildStep, KillChild, CloseListen, ChildRead, ChildWrite, ChildEnds, ChildGone,
         clientVars, masterVars
<1>1. CASE CloseListen(c)
  <2>1. /\ child[c] = "start" /\ child' = [child EXCEPT ![c] = "read"]
        /\ Hold(holders, listeners \ {c})
    BY <1>1 DEF CloseListen
  <2>2. ASSUME NEW d \in Clients PROVE Kept(d)'
    <3>1. Kept(d) /\ client'[d] = client[d]
      BY <1>0 DEF HoldInv
    <3>2. /\ child'[d] \in Serving \cup {"ended"} => child[d] \in Serving \cup {"ended"}
          /\ child'[d] = "ended" => child[d] = "ended"
          /\ d # c => child'[d] = child[d]
      BY <2>1 DEF TypeOK, Serving
    <3>3. /\ child'[d] = "ended" => d \notin holders[d]
          /\ d \in listeners \ {c} => child'[d] = "start"
          /\ child'[d] \in Serving \cup {"ended"} /\ Master \in holders[d] =>
               master' = "close" /\ cur' = d
      BY <1>0, <3>1, <3>2 DEF Kept
    <3> QED BY <2>1, <3>1, <3>2, <3>3, LetGoKept
  <2>3. listeners' \subseteq listeners /\ (master = "fork" => holders'[cur] = {Master})
    <3>1. master = "fork" => cur \in Clients /\ holders[cur] = {Master}
      BY DEF HoldInv, SockInv, MasterInv
    <3> QED BY <2>1, <3>1, Facts DEF Hold, TypeOK
  <2> QED BY <1>0, <2>2, <2>3 DEF HoldInv
<1>2. CASE ChildRead(c) \/ ChildWrite(c)
  <2>1. /\ UNCHANGED <<holders, listeners, fate>> /\ child[c] \in {"read", "write"}
        /\ child' \in {[child EXCEPT ![c] = "write"], [child EXCEPT ![c] = "read"]}
    BY <1>2 DEF ChildRead, ChildWrite, socketVars
  <2>2. ASSUME NEW d \in Clients PROVE Kept(d)'
    <3>1. Kept(d)
      BY DEF HoldInv
    <3>2. /\ child'[d] \in Serving \cup {"ended"} => child[d] \in Serving \cup {"ended"}
          /\ child'[d] = "ended" => child[d] = "ended"
          /\ child[d] = "start" => child'[d] = "start"
      BY <2>1 DEF TypeOK, Serving
    <3> QED BY <1>0, <2>1, <3>1, <3>2 DEF Kept
  <2> QED BY <1>0, <2>1, <2>2 DEF HoldInv
<1>3. CASE ChildEnds(c) \/ KillChild(c)
  <2> DEFINE h == [d \in Clients |-> holders[d] \ {c}]
             l == listeners \ {c}
  <2>1. /\ child[c] \in Serving /\ child' = [child EXCEPT ![c] = "ended"] /\ Hold(h, l)
        /\ \A d \in Clients : h[d] = holders[d] \ {c}
        /\ l \subseteq listeners /\ c \notin l
    BY <1>3 DEF ChildEnds, KillChild, ChildGone, ReleaseAll, Serving
  <2> HIDE DEF h, l
  <2>2. ASSUME NEW d \in Clients PROVE Kept(d)'
    <3>1. Kept(d) /\ client'[d] = client[d] /\ h[d] \subseteq holders[d]
      BY <1>0, <2>1 DEF HoldInv
    <3>2. /\ child'[d] \in Serving \cup {"ended"} => child[d] \in Serving \cup {"ended"}
          /\ d # c => child'[d] = child[d]
          /\ d = c => d \notin h[d] /\ d \notin l
      BY <2>1 DEF TypeOK, Serving
    <3>3. /\ child'[d] = "ended" => d \notin h[d]
          /\ d \in l => child'[d] = "start"
          /\ child'[d] \in Serving \cup {"ended"} /\ Master \in h[d] =>
               master' = "close" /\ cur' = d
      BY <1>0, <2>1, <3>1, <3>2 DEF Kept
    <3> QED BY <2>1, <3>1, <3>2, <3>3, LetGoKept
  <2>3. listeners' = l /\ (master = "fork" => holders'[cur] = {Master})
    <3>1. master = "fork" => cur \in Clients /\ holders[cur] = {Master}
      BY DEF HoldInv, SockInv, MasterInv
    <3>2. c # Master /\ Kernel # Master
      BY Facts
    <3> QED BY <2>1, <3>1, <3>2 DEF Hold, TypeOK
  <2> QED BY <1>0, <2>1, <2>2, <2>3 DEF HoldInv
<1> QED BY <1>1, <1>2, <1>3 DEF ChildStep

LEMMA HoldStep == TypeOK /\ SockInv /\ HoldInv /\ [Next]_vars => HoldInv'
<1> SUFFICES ASSUME TypeOK, SockInv, HoldInv, [Next]_vars PROVE HoldInv'
  OBVIOUS
<1>1. CASE UNCHANGED vars
  <2>1. UNCHANGED <<client, fate, holders, listeners, master, cur, child>>
    BY <1>1 DEF vars, clientVars, socketVars, masterVars, childVars
  <2> QED BY <2>1 DEF HoldInv, Kept
<1> QED BY <1>1, ClientHold, MasterHold, ChildHold DEF Next

LEMMA ReadingStep == TypeOK /\ DataInv /\ ReadingInv /\ [Next]_vars => ReadingInv'
<1> SUFFICES ASSUME TypeOK, DataInv, ReadingInv, [Next]_vars, NEW d \in Clients,
                    client'[d] = "read", buffer'[d] # <<>>
             PROVE  Len(got'[d]) < Len(sent'[d])
  BY DEF ReadingInv
<1>1. CASE Send(d)
  <2> DEFINE text == NextLine(d)
             w == got[d] \o down[d]
  <2>1. text \in Seq(Nat) /\ text # <<>> /\ sent'[d] = sent[d] \o text /\ got' = got
    BY <1>1, NextLineFacts DEF Send, TypeOK
  <2> PICK u \in Seq(Nat) : sent[d] = w \o u
    BY DEF DataInv, Part
  <2>2. got[d] \in Seq(Nat) /\ down[d] \in Seq(Nat) /\ sent[d] \in Seq(Nat)
    BY DEF TypeOK
  <2>3. /\ Len(w) = Len(got[d]) + Len(down[d]) /\ w \in Seq(Nat)
        /\ Len(got[d]) \in Nat /\ Len(down[d]) \in Nat
    BY ONLY <2>2, JoinFacts
  <2> HIDE DEF w, text
  <2>4. Len(w \o u) = Len(w) + Len(u) /\ Len(u) \in Nat
    BY ONLY <2>3, JoinFacts
  <2>5. Len(sent[d] \o text) = Len(sent[d]) + Len(text) /\ Len(text) \in Nat
    BY ONLY <2>1, <2>2, JoinFacts
  <2>6. Len(text) # 0
    BY ONLY <2>1, EmptySeq
  <2>7. Len(sent[d]) = Len(w) + Len(u)
    BY <2>4, Zenon
  <2>8. Len(sent'[d]) = Len(sent[d]) + Len(text) /\ Len(got'[d]) = Len(got[d])
    BY ONLY <2>1, <2>5, Zenon
  <2>9. Len(got[d]) < Len(sent[d]) + Len(text)
    <3> DEFINE g == Len(got[d])
               n == Len(down[d])
               m == Len(u)
               t == Len(text)
    <3>1. g \in Nat /\ n \in Nat /\ m \in Nat /\ t \in Nat /\ t # 0
      BY ONLY <2>3, <2>4, <2>5, <2>6, Zenon
    <3>2. Len(sent[d]) = (g + n) + m
      BY ONLY <2>3, <2>7, Zenon
    <3> HIDE DEF g, n, m, t
    <3>3. g < ((g + n) + m) + t
      BY ONLY <3>1
    <3> QED BY ONLY <3>2, <3>3, Zenon DEF t, g
  <2> QED BY ONLY <2>8, <2>9, Zenon
<1>2. CASE ~Send(d)
  <2>1. client[d] = "read" /\ UNCHANGED <<buffer[d], sent[d], got[d]>>
    <3>1. ASSUME NEW c \in Clients, Connect(c) \/ Refused(c) \/ Send(c) \/ Reads(c) \/ Quit(c)
          PROVE  client[d] = "read" /\ UNCHANGED <<buffer[d], sent[d], got[d]>>
      <4>1. CASE Send(c)
        <5>1. /\ c # d /\ client' = [client EXCEPT ![c] = "read"]
              /\ buffer' = [buffer EXCEPT ![c] = NextLine(c)]
              /\ sent' = [sent EXCEPT ![c] = @ \o NextLine(c)] /\ got' = got
          BY <1>2, <4>1 DEF Send, Become
        <5> QED BY <5>1 DEF TypeOK
      <4>2. CASE ReadReply(c)
        <5>1. client' = [client EXCEPT ![c] = "send"] /\ sent' = sent
          BY <4>2 DEF ReadReply, Become
        <5>2. c # d
          BY <5>1 DEF TypeOK
        <5>3. \E x, y : buffer' = [buffer EXCEPT ![c] = x] /\ got' = [got EXCEPT ![c] = y]
          BY <4>2 DEF ReadReply
        <5> QED BY <5>1, <5>2, <5>3 DEF TypeOK
      <4>3. CASE Connect(c) \/ Refused(c) \/ ReadNothing(c) \/ Fail(c) \/ Quit(c)
        <5>1. /\ UNCHANGED <<buffer, sent, got>>
              /\ \/ client' = [client EXCEPT ![c] = "send"]
                 \/ client' = [client EXCEPT ![c] = "ended"]
          BY <4>3 DEF Connect, Refused, ReadNothing, Fail, Quit, Become
        <5> QED BY <5>1 DEF TypeOK
      <4> QED BY <3>1, <4>1, <4>2, <4>3 DEF Reads
    <3>2. CASE UNCHANGED clientVars
      BY <3>2 DEF clientVars
    <3>3. ASSUME NEW c \in Clients, ChildStep(c) \/ KillChild(c) PROVE UNCHANGED clientVars
      BY <3>3 DEF ChildStep, KillChild, CloseListen, ChildRead, ChildWrite, ChildEnds, ChildGone
    <3>4. ASSUME MasterStep \/ MasterEnds PROVE UNCHANGED clientVars
      BY <3>4 DEF MasterStep, MasterEnds, Accept, Fork, ForkFails, CloseCopy
    <3>5. ASSUME UNCHANGED vars PROVE UNCHANGED clientVars
      BY <3>5 DEF vars
    <3> QED BY <3>1, <3>2, <3>3, <3>4, <3>5 DEF Next
  <2> QED BY <2>1 DEF ReadingInv
<1> QED BY <1>1, <1>2

(* When nobody can go on but by what a user does, no client waits for an   *)
(* echo, whoever was killed and however the processes interleaved, unless  *)
(* fork() failed for it.                                                   *)
THEOREM StandsStillOnlyAbandoned ==
  Spec => [](MasterBlocked /\ (\A c \in Clients : ClientBlocked(c) /\ ChildBlocked(c)) =>
               \A c \in Clients : client[c] = "read" /\ buffer[c] # <<>> => Abandoned(c))
<1> DEFINE Still ==
      MasterBlocked /\ (\A c \in Clients : ClientBlocked(c) /\ ChildBlocked(c)) =>
        \A c \in Clients : client[c] = "read" /\ buffer[c] # <<>> => Abandoned(c)
<1>1. IInv /\ HoldInv /\ ReadingInv => Still
  <2> SUFFICES ASSUME IInv, HoldInv, ReadingInv, MasterBlocked,
                      \A c \in Clients : ClientBlocked(c) /\ ChildBlocked(c),
                      NEW c \in Clients, client[c] = "read", buffer[c] # <<>>, ~Abandoned(c)
               PROVE  FALSE
    OBVIOUS
  <2>1. /\ ClientBlocked(c) /\ ChildBlocked(c) /\ Whole(c) /\ Written(c) /\ Kept(c)
        /\ ConnInv(c) /\ MasterInv
    BY DEF IInv, DataInv, HoldInv, SockInv
  <2>2. down[c] = <<>> /\ fate[c] = "open"
    BY <2>1 DEF ClientBlocked
  <2>3. holders[c] # {}
    BY <2>1, <2>2 DEF Kept
  <2>4. master \in {"accept", "ended"}
    BY DEF MasterBlocked
  <2>5. CASE child[c] = "read"
    <3>1. up[c] = <<>> /\ chunk[c] = <<>>
      BY <2>1, <2>5 DEF ChildBlocked, Written
    <3>2. sent[c] = ((got[c] \o <<>>) \o <<>>) \o <<>> /\ got[c] \in Seq(Nat)
      BY <2>1, <2>2, <3>1 DEF Whole, IInv, TypeOK
    <3>3. sent[c] = got[c]
      BY ONLY <3>2, EmptyFacts, Zenon
    <3>4. Len(got[c]) < Len(sent[c]) /\ Len(got[c]) \in Nat
      BY <3>2, LenProperties DEF ReadingInv
    <3>5. Len(got[c]) < Len(got[c])
      BY ONLY <3>3, <3>4, Zenon
    <3> QED BY ONLY <3>4, <3>5
  <2>6. CASE child[c] = "ended"
    BY <2>1, <2>3, <2>4, <2>6 DEF Kept
  <2>7. CASE child[c] = "none"
    <3>1. holders[c] \cap Procs = {}
      BY <2>4, <2>7 DEF Abandoned
    <3>2. holders[c] = {Kernel}
      BY <2>3, <3>1 DEF IInv, TypeOK
    <3>3. PICK p \in listeners : TRUE
      BY <2>1, <3>2 DEF Kept
    <3>4. CASE p = Master
      BY <2>4, <3>2, <3>3, <3>4 DEF HoldInv, MasterBlocked
    <3>5. CASE p # Master
      <4>1. p \in Clients
        BY <3>3, <3>5 DEF IInv, TypeOK, Procs
      <4>2. child[p] = "start" /\ ChildBlocked(p)
        BY <3>3, <4>1 DEF HoldInv, Kept
      <4> QED BY <4>2 DEF ChildBlocked
    <3> QED BY <3>4, <3>5
  <2> QED BY <2>1, <2>5, <2>6, <2>7 DEF ChildBlocked
<1>2. Init => HoldInv /\ ReadingInv
  <2> SUFFICES ASSUME Init PROVE HoldInv /\ ReadingInv
    OBVIOUS
  <2>1. \A c \in Clients : /\ client[c] = "new" /\ holders[c] = {} /\ child[c] = "none"
                           /\ c \notin listeners
    BY Facts DEF Init
  <2>2. \A c \in Clients : Kept(c)
    BY <2>1 DEF Kept, Serving
  <2>3. HoldInv
    BY <2>2 DEF HoldInv, Init
  <2>4. ReadingInv
    BY <2>1 DEF ReadingInv
  <2> QED BY <2>3, <2>4
<1>3. IInv /\ HoldInv /\ ReadingInv /\ [Next]_vars => HoldInv' /\ ReadingInv'
  BY HoldStep, ReadingStep DEF IInv
<1> QED BY <1>1, <1>2, <1>3, Inductive, PTL DEF Spec
=============================================================================
