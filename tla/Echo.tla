-------------------------------- MODULE Echo --------------------------------
(***************************************************************************)
(* week4: the concurrent echo server (teht6_server.c) and the clients that *)
(* talk to it (teht6_client.c, and teht2.c, which differs in how it ends   *)
(* when a write fails).                                                    *)
(*                                                                         *)
(* What a client is typed is numbered, so a piece of a line is its place   *)
(* in all that the client sends.  TCP keeps the order and nothing else: a  *)
(* read returns any part of what has arrived.                              *)
(***************************************************************************)
EXTENDS Integers, Sequences, Cuts

CONSTANTS NClients,     \* clients
          Inputs,       \* what a client may be typed: the lengths of the lines
          BufSize       \* 255: what fgets() and read() take at a time

ASSUME NClientsAssumption == NClients \in Nat
ASSUME BufSizeAssumption == BufSize \in Nat \ {0}
ASSUME InputsAssumption == Inputs \subseteq Seq(1 .. BufSize)

Clients == 1 .. NClients
Master == 0             \* child c of the server is process c
Kernel == -1            \* who holds a connection nobody has accepted yet

VARIABLES
  client,           \* where each client is
  rest,             \* the lines it has still to send
  buffer,           \* its buffer[], up to the null byte
  sent, got,        \* all it has sent, and all it has read back
  late,             \* it sent a line while an earlier one was not all back
  up, down,         \* what is on its way to the server, and back
  fate,             \* "open"; or how the server's end was closed: "fin", "reset"
  holders,          \* who holds the server's end of each connection
  listeners,        \* who holds the listening socket
  master, cur,      \* where the master is, and the connection it has accepted
  child, chunk      \* where each child is, and what it has read

clientVars == <<client, rest, buffer, sent, got, late>>
wireVars == <<up, down>>
socketVars == <<fate, holders, listeners>>
masterVars == <<master, cur>>
childVars == <<child, chunk>>
vars == <<clientVars, wireVars, socketVars, masterVars, childVars>>

Init == /\ client = [c \in Clients |-> "new"]
        /\ rest \in [Clients -> Inputs]
        /\ buffer = [c \in Clients |-> <<>>]
        /\ sent = [c \in Clients |-> <<>>] /\ got = [c \in Clients |-> <<>>]
        /\ late = [c \in Clients |-> FALSE]
        /\ up = [c \in Clients |-> <<>>] /\ down = [c \in Clients |-> <<>>]
        /\ fate = [c \in Clients |-> "open"]
        /\ holders = [c \in Clients |-> {}]
        /\ listeners = {Master}
        /\ master = "accept" /\ cur = Master
        /\ child = [c \in Clients |-> "none"]
        /\ chunk = [c \in Clients |-> <<>>]

-----------------------------------------------------------------------------
(* The kernel: descriptors change hands.  A connection whose server end    *)
(* nobody holds any more is closed, with a reset if data was left unread;  *)
(* one that waits to be accepted is reset with the listening socket.       *)
Hold(newHolders, newListeners) ==
  LET h == [c \in Clients |-> IF newListeners = {} THEN newHolders[c] \ {Kernel}
                                                   ELSE newHolders[c]]
  IN  /\ holders' = h /\ listeners' = newListeners
      /\ fate' = [c \in Clients |->
                    IF holders[c] # {} /\ h[c] = {}
                    THEN IF up[c] = <<>> /\ Kernel \notin holders[c]
                         THEN "fin" ELSE "reset"
                    ELSE fate[c]]

(* Process p ends and lets go of all it holds.                             *)
ReleaseAll(p) == Hold([c \in Clients |-> holders[c] \ {p}], listeners \ {p})

-----------------------------------------------------------------------------
(* The client                                                              *)
Become(c, state) == client' = [client EXCEPT ![c] = state]

Connect(c) == /\ client[c] = "new" /\ listeners # {}
              /\ Become(c, "send")
              /\ Hold([holders EXCEPT ![c] = {Kernel}], listeners)
              /\ UNCHANGED <<rest, buffer, sent, got, late, wireVars, masterVars, childVars>>

Refused(c) == /\ client[c] = "new" /\ listeners = {}
              /\ Become(c, "ended")
              /\ UNCHANGED <<rest, buffer, sent, got, late, wireVars, socketVars,
                             masterVars, childVars>>

(* What fgets() leaves in the cleared buffer: a line, nothing at the end.  *)
NextLine(c) == [i \in 1 .. IF rest[c] = <<>> THEN 0 ELSE Head(rest[c]) |-> Len(sent[c]) + i]

(* fgets() and send().  What is sent to an end that was closed is answered *)
(* with a reset, which may arrive at any time.                             *)
Send(c) == LET text == NextLine(c)
           IN  /\ client[c] = "send" /\ fate[c] # "reset"
               /\ Become(c, "read")
               /\ buffer' = [buffer EXCEPT ![c] = text]
               /\ sent' = [sent EXCEPT ![c] = @ \o text]
               /\ late' = [late EXCEPT ![c] = @ \/ got[c] # sent[c]]
               /\ rest' = [rest EXCEPT ![c] = From(@, 2)]
               /\ \/ /\ fate[c] = "open"
                     /\ up' = [up EXCEPT ![c] = @ \o text]
                     /\ UNCHANGED fate
                  \/ /\ fate[c] = "fin"
                     /\ fate' \in {fate} \cup IF text = <<>> THEN {}
                                              ELSE {[fate EXCEPT ![c] = "reset"]}
                     /\ UNCHANGED up
               /\ UNCHANGED <<got, down, holders, listeners, masterVars, childVars>>

(* The connection was reset: perror() and exit(), SIGPIPE in teht2.c.      *)
Fail(c) == /\ client[c] \in {"send", "read"} /\ fate[c] = "reset"
           /\ Become(c, "ended")
           /\ UNCHANGED <<rest, buffer, sent, got, late, wireVars, socketVars,
                          masterVars, childVars>>

(* One read() over the line that was sent, and printf() of the result.     *)
ReadReply(c) ==
  /\ client[c] = "read"
  /\ \E k \in Amounts(down[c], BufSize) :
       /\ got' = [got EXCEPT ![c] = @ \o First(down[c], k)]
       /\ buffer' = [buffer EXCEPT ![c] = First(down[c], k) \o From(@, k + 1)]
       /\ down' = [down EXCEPT ![c] = From(@, k + 1)]
  /\ Become(c, "send")
  /\ UNCHANGED <<rest, sent, late, up, socketVars, masterVars, childVars>>

(* The server has closed: read() returns zero, which is not noticed.       *)
ReadNothing(c) == /\ client[c] = "read" /\ fate[c] = "fin" /\ down[c] = <<>>
                  /\ Become(c, "send")
                  /\ UNCHANGED <<rest, buffer, sent, got, late, wireVars, socketVars,
                                 masterVars, childVars>>

(* The only way a client ends by itself: its user's SIGINT.                *)
Quit(c) == /\ client[c] \in {"send", "read"}
           /\ Become(c, "ended")
           /\ UNCHANGED <<rest, buffer, sent, got, late, wireVars, socketVars,
                          masterVars, childVars>>

-----------------------------------------------------------------------------
(* The master                                                              *)
Accept == /\ master = "accept"
          /\ \E c \in Clients : /\ holders[c] = {Kernel}
                                /\ cur' = c
                                /\ Hold([holders EXCEPT ![c] = {Master}], listeners)
          /\ master' = "fork"
          /\ UNCHANGED <<clientVars, wireVars, childVars>>

(* An error that is not retried; or the master is killed.                  *)
MasterEnds == /\ master # "ended" /\ master' = "ended"
              /\ ReleaseAll(Master)
              /\ UNCHANGED <<clientVars, wireVars, cur, childVars>>

(* The child inherits everything the master has open.                      *)
Fork == /\ master = "fork"
        /\ child' = [child EXCEPT ![cur] = "start"]
        /\ Hold([c \in Clients |-> IF Master \in holders[c] THEN holders[c] \cup {cur}
                                                            ELSE holders[c]],
                listeners \cup {cur})
        /\ master' = "close"
        /\ UNCHANGED <<clientVars, wireVars, cur, chunk>>

(* A message, and back to accept() with the connection open.  Children are *)
(* never waited for, so this is how it ends when zombies fill the table.   *)
ForkFails == /\ master = "fork"
             /\ master' = "accept"
             /\ UNCHANGED <<clientVars, wireVars, socketVars, cur, childVars>>

(* Mutant: the parent forgets close(sockfd).                               *)
KeepCopy == /\ master = "close" /\ master' = "accept"
            /\ UNCHANGED <<clientVars, wireVars, socketVars, cur, childVars>>

(* Mutant: shutdown() instead of close().                                  *)
ShutDown == /\ master = "close" /\ master' = "accept"
            /\ Hold([holders EXCEPT ![cur] = {}], listeners)
            /\ UNCHANGED <<clientVars, wireVars, cur, childVars>>

(* The parent's close(sockfd).                                             *)
CloseCopy == /\ master = "close" /\ master' = "accept"
             /\ Hold([holders EXCEPT ![cur] = @ \ {Master}], listeners)
             /\ UNCHANGED <<clientVars, wireVars, cur, childVars>>

MasterStep == Accept \/ Fork \/ ForkFails \/ CloseCopy

-----------------------------------------------------------------------------
(* A child: close(listenfd), then echoer().                                *)
CloseListen(c) == /\ child[c] = "start"
                  /\ child' = [child EXCEPT ![c] = "read"]
                  /\ Hold(holders, listeners \ {c})
                  /\ UNCHANGED <<clientVars, wireVars, masterVars, chunk>>

(* Mutant: what is read stays to be read again.                            *)
ChildPeek(c) == /\ child[c] = "read"
                /\ \E k \in Amounts(up[c], BufSize) :
                     chunk' = [chunk EXCEPT ![c] = First(up[c], k)]
                /\ child' = [child EXCEPT ![c] = "write"]
                /\ UNCHANGED <<clientVars, wireVars, socketVars, masterVars>>

ChildRead(c) == /\ child[c] = "read"
                /\ \E k \in Amounts(up[c], BufSize) :
                     /\ chunk' = [chunk EXCEPT ![c] = First(up[c], k)]
                     /\ up' = [up EXCEPT ![c] = From(@, k + 1)]
                /\ child' = [child EXCEPT ![c] = "write"]
                /\ UNCHANGED <<clientVars, down, socketVars, masterVars>>

(* To a client that has ended it may also raise SIGPIPE (ChildEnds).       *)
ChildWrite(c) == /\ child[c] = "write"
                 /\ down' = [down EXCEPT ![c] = @ \o chunk[c]]
                 /\ chunk' = [chunk EXCEPT ![c] = <<>>]
                 /\ child' = [child EXCEPT ![c] = "read"]
                 /\ UNCHANGED <<clientVars, up, socketVars, masterVars>>

ChildGone(c) == /\ child' = [child EXCEPT ![c] = "ended"]
                /\ ReleaseAll(c)
                /\ UNCHANGED <<clientVars, wireVars, masterVars, chunk>>

(* The client has closed: end of input, an error or SIGPIPE.               *)
ChildEnds(c) == /\ client[c] = "ended"
                /\ \/ child[c] = "read" /\ (up[c] = <<>> \/ down[c] # <<>>)
                   \/ child[c] = "write"
                /\ ChildGone(c)

(* The child is killed.                                                    *)
KillChild(c) == child[c] \in {"start", "read", "write"} /\ ChildGone(c)

ChildStep(c) == CloseListen(c) \/ ChildRead(c) \/ ChildWrite(c) \/ ChildEnds(c)

-----------------------------------------------------------------------------
Reads(c) == ReadReply(c) \/ ReadNothing(c) \/ Fail(c)

Next == \/ MasterStep \/ MasterEnds
        \/ \E c \in Clients : \/ Connect(c) \/ Refused(c) \/ Send(c) \/ Reads(c)
                              \/ Quit(c) \/ ChildStep(c) \/ KillChild(c)

Spec == Init /\ [][Next]_vars

(* The kernel runs every process.  Nobody has to type a line, start or end *)
(* a client, or kill a server.                                             *)
FairSpec == /\ Spec /\ WF_vars(MasterStep)
            /\ \A c \in Clients : WF_vars(Reads(c)) /\ WF_vars(ChildStep(c))

-----------------------------------------------------------------------------
Procs == {Master} \cup Clients
TypeOK == /\ client \in [Clients -> {"new", "send", "read", "ended"}]
          /\ rest \in [Clients -> Seq(1 .. BufSize)]
          /\ buffer \in [Clients -> Seq(Nat)] /\ chunk \in [Clients -> Seq(Nat)]
          /\ sent \in [Clients -> Seq(Nat)] /\ got \in [Clients -> Seq(Nat)]
          /\ up \in [Clients -> Seq(Nat)] /\ down \in [Clients -> Seq(Nat)]
          /\ late \in [Clients -> BOOLEAN]
          /\ fate \in [Clients -> {"open", "fin", "reset"}]
          /\ holders \in [Clients -> SUBSET (Procs \cup {Kernel})]
          /\ listeners \subseteq Procs
          /\ master \in {"accept", "fork", "close", "ended"} /\ cur \in Procs
          /\ child \in [Clients -> {"none", "start", "read", "write", "ended"}]

(* Through two streams and a child that cut it anywhere, what a client has *)
(* read back and what is still on its way are what it has sent, in order.  *)
StreamIntact == \A c \in Clients :
  fate[c] = "open" => sent[c] = ((got[c] \o down[c]) \o chunk[c]) \o up[c]

(* "reads the next line from standard input only once the previous line    *)
(* has been entirely received and printed" (h4.txt:15-17).  The client     *)
(* does one read() for each line, whatever that returns, and does not keep *)
(* to it even while the connection is open; no run checks this.  Behind a  *)
(* piece of a reply it then prints the rest of its own line, which is      *)
(* still in buffer[].                                                      *)
NeverBehind == \A c \in Clients : fate[c] = "open" => ~late[c]

(* A connection is closed under its child only by the child's own end.     *)
OpenWhileServed == \A c \in Clients :
  child[c] \in {"start", "read", "write"} => fate[c] = "open"

(* fork() failed, and somebody still holds the connection nobody serves.   *)
Abandoned(c) == /\ child[c] = "none" /\ holders[c] \cap Procs # {}
                /\ ~(cur = c /\ master = "fork")

(* A client that waits for the reply to a line gets on, whoever is killed, *)
(* unless fork() failed for it.                                            *)
Answered == \A c \in Clients :
  client[c] = "read" /\ buffer[c] # <<>> ~> client[c] # "read" \/ Abandoned(c)

(* For each client the server and the network are a stream back to it.     *)
B(c) == INSTANCE ByteStream WITH in <- sent[c], out <- got[c]
Streams == /\ \A c \in Clients : B(c)!Init
           /\ [][\A c \in Clients : [B(c)!Next]_(B(c)!vars)]_<<sent, got>>
=============================================================================
