------------------------------- MODULE Upload -------------------------------
(***************************************************************************)
(* week5: a client (teht3_client.c) that sends what is typed in records of *)
(* maxBuffer bytes, and a server (teht3_server.c) that prints the text of  *)
(* what it reads, one connection at a time, and closes none of them.       *)
(*                                                                         *)
(* The bytes typed at a client are numbered.  Beside them there are null   *)
(* bytes, and bytes nobody typed (Junk).  Every client connects to its own *)
(* host, so that all addresses the server prints are of one length.        *)
(***************************************************************************)
EXTENDS Integers, Sequences, FiniteSets, Cuts

CONSTANTS Clients,
          NoClient,     \* not a client
          Max,          \* maxBuffer, 1024
          Address,      \* the length of the text of the clients' address
          Inputs,       \* what may be typed: the lengths of the lines
          Memories,     \* what may be in a buffer at first
          Limits,       \* how many connections the server may have open
          Room          \* bytes that may be on their way to the server

Null == -1

ASSUME ClientsAssumption == NoClient \notin Clients
ASSUME MaxAssumption == Max \in Nat \ {0} /\ Address \in 1 .. Max - 1
ASSUME InputsAssumption == Inputs \subseteq Seq(Nat \ {0})
ASSUME MemoriesAssumption == Memories \subseteq [1 .. Max -> {Null, Junk}]
ASSUME LimitsAssumption == Limits \subseteq Nat
ASSUME RoomAssumption == Room \in Nat /\ Room >= Max

Byte == Nat \cup {Null}
Buffer == [1 .. Max -> Byte]
Blank == [i \in 1 .. Max |-> Null]

VARIABLES
  client,     \* of each client: where it is,
  input,      \*   the lines that are still to be typed,
  typed,      \*   how many bytes it has read,
  record,     \*   its buffer,
  link,       \*   its connection,
  way,        \*   what is on the way to the server,
  shown,      \*   and what the server has printed of it
  server, current,        \* where the server is, and whom it serves
  pending,                \* the connections it has not accepted
  left,                   \* the descriptors it has left
  buffer,                 \* its buffer,
  over,                   \*   and 1 if the byte behind it is not null
  whole                   \* the clients of which no record was cut in two

clientVars == <<client, input, typed, record>>
netVars == <<link, way, pending>>
serverVars == <<server, current, left, buffer, shown, whole>>
vars == <<clientVars, netVars, serverVars, over>>

Init ==
  /\ client = [c \in Clients |-> "none"] /\ input \in [Clients -> Inputs]
  /\ typed = [c \in Clients |-> 0]
  /\ link = [c \in Clients |-> "none"]
  /\ \E memory \in Memories : record = [c \in Clients |-> memory]
  /\ way = [c \in Clients |-> <<>>] /\ shown = [c \in Clients |-> <<>>]
  /\ server = "accept" /\ current = NoClient /\ pending = <<>>
  /\ left \in Limits
  /\ buffer \in Memories /\ over \in 0 .. 1
  /\ whole = Clients

(* What a read of data leaves in a buffer.                                 *)
Filled(data, mem) == [i \in 1 .. Max |-> IF i <= Len(data) THEN data[i] ELSE mem[i]]

(* What strlen() walks over: the buffer, what is behind it, and a null     *)
(* byte.  It finds n bytes.                                                *)
Walk(mem) == mem \o [i \in 1 .. over |-> Junk] \o <<Null>>
StrLen(mem, n) == /\ Walk(mem)[n + 1] = Null
                  /\ \A i \in 1 .. n : Walk(mem)[i] # Null

-----------------------------------------------------------------------------
(* A client                                                                *)
Connect(c) == /\ client[c] = "none" /\ server # "ended"
              /\ client' = [client EXCEPT ![c] = "read"]
              /\ link' = [link EXCEPT ![c] = "up"]
              /\ pending' = Append(pending, c)
              /\ UNCHANGED <<input, typed, record, way, serverVars, over>>

ConnectFails(c) == /\ client[c] = "none" /\ server = "ended"
                   /\ client' = [client EXCEPT ![c] = "ended"]
                   /\ UNCHANGED <<input, typed, record, netVars, serverVars, over>>

(* read() of a line or of a part of one.                                   *)
ReadInput(c) ==
  /\ client[c] = "read" /\ input[c] # <<>>
  /\ LET k == LineCut(input[c], Max)
     IN  /\ record' = [record EXCEPT ![c] = Filled([i \in 1 .. k |-> typed[c] + i], @)]
         /\ typed' = [typed EXCEPT ![c] = @ + k]
         /\ input' = [input EXCEPT ![c] = CutOff(@, k)]
  /\ client' = [client EXCEPT ![c] = "write"]
  /\ UNCHANGED <<netVars, serverVars, over>>

(* The end of input or a signal; the kernel closes the connection.         *)
Ends(c) == /\ client[c] # "ended" /\ client[c] # "none"
           /\ client' = [client EXCEPT ![c] = "ended"]
           /\ UNCHANGED <<input, typed, record, netVars, serverVars, over>>

(* Mutant: the buffer is not cleared.                                      *)
WriteKeep(c) ==
  /\ client[c] = "write" /\ link[c] # "reset" /\ Len(way[c]) + Max <= Room
  /\ way' = [way EXCEPT ![c] = @ \o record[c]]
  /\ client' = [client EXCEPT ![c] = "read"]
  /\ UNCHANGED <<record, input, typed, link, pending, serverVars, over>>

(* write() of the whole buffer, and memset().                              *)
Write(c) ==
  /\ client[c] = "write" /\ link[c] # "reset" /\ Len(way[c]) + Max <= Room
  /\ way' = [way EXCEPT ![c] = @ \o record[c]]
  /\ record' = [record EXCEPT ![c] = Blank]
  /\ client' = [client EXCEPT ![c] = "read"]
  /\ UNCHANGED <<input, typed, link, pending, serverVars, over>>

(* Mutant: the client tries again.                                         *)
WriteAgain(c) == /\ client[c] = "write" /\ link[c] = "reset"
                 /\ UNCHANGED vars

(* An error, or SIGPIPE and its handler.                                   *)
WriteFails(c) == /\ client[c] = "write" /\ link[c] = "reset"
                 /\ client' = [client EXCEPT ![c] = "ended"]
                 /\ UNCHANGED <<input, typed, record, netVars, serverVars, over>>

(* The answer of the server's host to bytes nobody will read.              *)
Reset(c) == /\ link[c] = "up" /\ server = "ended"
            /\ way[c] # <<>> \/ \E i \in DOMAIN pending : pending[i] = c
            /\ link' = [link EXCEPT ![c] = "reset"]
            /\ UNCHANGED <<way, pending, clientVars, serverVars, over>>

-----------------------------------------------------------------------------
(* The server                                                              *)
(* accept(); the buffer is used to print the address of the client.        *)
Accept ==
  /\ server = "accept" /\ left > 0 /\ pending # <<>>
  /\ server' = "serve" /\ current' = Head(pending) /\ pending' = Tail(pending)
  /\ left' = left - 1
  /\ buffer' = [i \in 1 .. Max |-> IF i <= Address THEN Junk
                                   ELSE IF i = Address + 1 THEN Null ELSE buffer[i]]
  /\ UNCHANGED <<shown, whole, link, way, clientVars, over>>

(* With no descriptor left, accept() does not even wait.                   *)
AcceptFails == /\ server = "accept" /\ left = 0
               /\ server' = "ended"
               /\ UNCHANGED <<current, left, buffer, shown, whole, netVars, clientVars, over>>

(* read() of any part of what has come, write() of its text, memset().     *)
PrintText ==
  /\ server = "serve" /\ way[current] # <<>>
  /\ \E k \in Amounts(way[current], Max), n \in 0 .. Max + over :
       LET mem == Filled(First(way[current], k), buffer)
       IN  /\ StrLen(mem, n)
           /\ shown' = [shown EXCEPT ![current] = @ \o First(Walk(mem), n)]
           /\ way' = [way EXCEPT ![current] = From(@, k + 1)]
           /\ whole' = IF k = Max THEN whole ELSE whole \ {current}
  /\ buffer' = Blank
  /\ UNCHANGED <<server, current, left, link, pending, clientVars, over>>

(* Mutant: the loop ends when there is nothing to read for the moment.     *)
NextIdle == /\ server = "serve" /\ way[current] = <<>>
            /\ server' = "accept" /\ current' = NoClient
            /\ UNCHANGED <<left, buffer, shown, whole, netVars, clientVars, over>>

(* Mutant: the loop goes on as long as read() is not an error.             *)
NextNever == /\ server = "serve" /\ way[current] = <<>> /\ client[current] = "ended"
             /\ UNCHANGED vars

(* The client has ended and everything it sent has been read.              *)
NextClient == /\ server = "serve" /\ way[current] = <<>> /\ client[current] = "ended"
              /\ server' = "accept" /\ current' = NoClient
              /\ UNCHANGED <<left, buffer, shown, whole, netVars, clientVars, over>>

ServerKilled == /\ server # "ended" /\ server' = "ended"
                /\ UNCHANGED <<current, left, buffer, shown, whole, netVars, clientVars, over>>

-----------------------------------------------------------------------------
ServerStep == Accept \/ AcceptFails \/ PrintText \/ NextClient
ClientStep(c) == Write(c) \/ WriteFails(c)

Next == \/ ServerStep \/ ServerKilled
        \/ \E c \in Clients : \/ Connect(c) \/ ConnectFails(c) \/ ReadInput(c)
                              \/ ClientStep(c) \/ Ends(c) \/ Reset(c)

Spec == Init /\ [][Next]_vars

(* The kernels run the programs; nobody has to type, or to start or end    *)
(* anything.                                                               *)
FairSpec == /\ Spec /\ WF_vars(ServerStep)
            /\ \A c \in Clients : WF_vars(ClientStep(c)) /\ WF_vars(Reset(c))

-----------------------------------------------------------------------------
TypeOK ==
  /\ client \in [Clients -> {"none", "read", "write", "ended"}]
  /\ input \in [Clients -> Seq(Nat \ {0})] /\ typed \in [Clients -> Nat]
  /\ record \in [Clients -> Buffer] /\ buffer \in Buffer
  /\ link \in [Clients -> {"none", "up", "reset"}]
  /\ way \in [Clients -> Seq(Byte)] /\ shown \in [Clients -> Seq(Nat)]
  /\ \A c \in Clients : Len(way[c]) <= Room
  /\ server \in {"accept", "serve", "ended"} /\ current \in Clients \cup {NoClient}
  /\ server = "serve" => current \in Clients
  /\ pending \in Seq(Clients) /\ left \in Nat /\ over \in 0 .. 1
  /\ whole \in SUBSET Clients

Waiting == {pending[i] : i \in DOMAIN pending}

(* What a client has typed is printed once and in order, however the       *)
(* records are cut; and nothing is lost of a client of which every record  *)
(* is read whole: it is printed, on the way or in the buffer.              *)
PrintedInOrder ==
  \A c \in Clients :
    /\ LET s == Clean(shown[c])
       IN  \A i \in 1 .. Len(s) - 1 : s[i] < s[i + 1]
    /\ c \in whole /\ client[c] # "ended" =>
         Clean(shown[c] \o way[c] \o record[c]) = [i \in 1 .. typed[c] |-> i]

(* What nobody typed is printed with the first record at most, where       *)
(* records are read whole and memory ends the buffer with a null byte.     *)
StrayOnlyAtFirst ==
  over = 0 => \A c \in whole : \A i \in DOMAIN shown[c] : shown[c][i] = Junk => i <= Max

(* The server turns to the next client when the last one has ended, and    *)
(* everything it sent has been read.                                       *)
NoneAbandoned ==
  \A c \in Clients : link[c] # "none" /\ c \notin Waiting /\ c # current =>
    client[c] = "ended" /\ way[c] = <<>>

(* If every client ends some day, each one that waits is accepted, or the  *)
(* server ends.                                                            *)
AllServed ==
  (\A c \in Clients : <>[](client[c] \in {"none", "ended"})) =>
    \A c \in Clients : c \in Waiting ~> c \notin Waiting \/ server = "ended"

(* The client that is served writes, and no client goes on writing to a    *)
(* server that has ended.                                                  *)
NoStuckWriter ==
  \A c \in Clients :
    client[c] = "write" /\ (c = current \/ server = "ended") ~> client[c] # "write"
=============================================================================
