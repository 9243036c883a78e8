------------------------- MODULE ProcessTreeProofs -------------------------
(***************************************************************************)
(* Proofs about ProcessTree for any number of connections and any limits:  *)
(* main never leaves a living server behind, an order to stop never misses *)
(* a living server, and there is an end to what the processes do.          *)
(***************************************************************************)
EXTENDS ProcessTree, CommonProofs

MainPcs == {"greet", "read", "wait", "handler", "reaped"}
ServerPcs == {"unborn", "setup", "accept", "fork", "handler", "zombie", "reaped"}
ConnPcs == {"unborn", "serve", "kill", "told", "handler", "zombie", "reaped"}

(* Each process runs its own part of the program.                          *)
PlaceInv ==
  /\ pc[Main] \in MainPcs /\ pc[Server] \in ServerPcs
  /\ \A c \in Conns : pc[c] \in ConnPcs
  /\ pc[Server] = "fork" => leaked < FdLimit

(* Who is whose child.  A parent is only ever replaced by init, and only   *)
(* when it dies; main forks once.                                          *)
TreeInv ==
  /\ parent[Main] = InitProc
  /\ pc[Main] = "greet" => pc[Server] = "unborn"
  /\ pc[Server] \notin {"unborn", "reaped"} /\ pc[Main] # "reaped" => parent[Server] = Main
  /\ pc[Server] = "unborn" => \A c \in Conns : pc[c] = "unborn"
  /\ \A c \in Conns :
       /\ parent[c] # Main
       /\ pc[c] \notin {"unborn", "reaped"} /\ Server \in Alive => parent[c] = Server

IInv == /\ TypeOK /\ PlaceInv /\ TreeInv
        /\ NoServerLeftBehind /\ StopReachesServer

-----------------------------------------------------------------------------
LEMMA ProcFacts ==
  /\ MaxConns \in Nat /\ FdLimit \in Nat
  /\ Procs = {Main, Server} \cup Conns
  /\ Main \notin Conns /\ Server \notin Conns /\ Main # Server
  /\ InitProc \notin Procs
BY MaxConnsAssumption, LimitsAssumption
   DEF Procs, Conns, Main, Server, InitProc

(* What the end of one process does to the others.                         *)
LEMMA DieFacts ==
  ASSUME TypeOK, NEW p \in Procs, NEW q \in Procs, NEW next, Die(p, q, next)
  PROVE  /\ pc'[p] = IF parent[p] = InitProc THEN "reaped" ELSE "zombie"
         /\ q # p => pc'[q] = next
         /\ \A r \in Procs \ {p, q} :
              pc'[r] = pc[r] \/ (pc[r] = "zombie" /\ pc'[r] = "reaped")
         /\ \A r \in Procs : parent'[r] = IF parent[r] = p THEN InitProc ELSE parent[r]
         /\ sigint' = sigint \ {p}
         /\ DOMAIN pc' = Procs /\ pc' = [r \in Procs |-> pc'[r]]
         /\ parent' \in [Procs -> {InitProc, Main, Server}]
BY DEF Die, TypeOK

LEMMA InitIInv == Init => IInv
<1> SUFFICES ASSUME Init PROVE IInv
  OBVIOUS
<1> USE ProcFacts DEF Init
<1>1. TypeOK
  BY DEF TypeOK
<1>2. PlaceInv
  BY DEF PlaceInv, MainPcs, ServerPcs, ConnPcs
<1>3. TreeInv
  BY DEF TreeInv, InitProc, Main
<1>4. NoServerLeftBehind /\ StopReachesServer
  BY DEF NoServerLeftBehind, StopReachesServer, Alive, InTable
<1> QED BY <1>1, <1>2, <1>3, <1>4 DEF IInv

(* A living process goes on somewhere else in its part of the program.     *)
LEMMA MoveStep ==
  ASSUME IInv, NEW p \in Procs, NEW to, p \in Alive,
         pc' = [pc EXCEPT ![p] = to], UNCHANGED parent, sigint' \subseteq sigint,
         p = Main => to \in {"read", "wait", "handler"},
         p = Server => to \in {"accept", "fork", "handler"},
         p \in Conns => to \in {"kill", "told", "handler"},
         target' \in [Conns -> {InitProc, Server}],
         \A c \in Conns : pc'[c] = "kill" /\ Server \in Alive => target'[c] = Server,
         leaked' \in 0 .. FdLimit, pc'[Server] = "fork" => leaked' < FdLimit,
         UNCHANGED interrupted
  PROVE  IInv'
<1> USE ProcFacts DEF IInv
<1>1. pc[p] \notin {"unborn", "zombie", "reaped"} /\ to \notin {"unborn", "zombie", "reaped", "greet"}
  BY DEF Alive, InTable
<1>2. /\ pc'[p] = to /\ \A r \in Procs \ {p} : pc'[r] = pc[r]
      /\ to \in {"read", "wait", "handler", "accept", "fork", "kill", "told"}
  BY DEF TypeOK
<1>3. Alive' = Alive
  BY <1>1, <1>2 DEF Alive, InTable
<1>4. TypeOK'
  BY <1>2, <1>3 DEF TypeOK
<1>5. PlaceInv'
  BY <1>2 DEF PlaceInv, MainPcs, ServerPcs, ConnPcs
<1>6. TreeInv'
  BY <1>1, <1>2, <1>3 DEF TreeInv
<1>7. NoServerLeftBehind' /\ StopReachesServer'
  BY <1>3 DEF NoServerLeftBehind, StopReachesServer
<1> QED BY <1>4, <1>5, <1>6, <1>7

(* As MoveStep, for a step that only moves p and takes a signal.           *)
LEMMA OtherMoves ==
  ASSUME IInv, NEW p \in Procs, NEW to, p \in Alive,
         pc' = [pc EXCEPT ![p] = to], UNCHANGED parent, sigint' \subseteq sigint,
         p = Main => to \in {"read", "wait", "handler"},
         p = Server => to \in {"accept", "fork", "handler"},
         p \in Conns => to \in {"told", "handler"},
         p = Server /\ to = "fork" => leaked < FdLimit,
         UNCHANGED <<target, leaked, interrupted>>
  PROVE  IInv'
<1> USE ProcFacts DEF IInv
<1>1. /\ pc'[Server] = IF p = Server THEN to ELSE pc[Server]
      /\ \A c \in Conns : pc'[c] = IF p = c THEN to ELSE pc[c]
  BY DEF TypeOK
<1>2. \A c \in Conns : pc'[c] = "kill" /\ Server \in Alive => target'[c] = Server
  BY <1>1 DEF StopReachesServer
<1>3. leaked' \in 0 .. FdLimit /\ (pc'[Server] = "fork" => leaked' < FdLimit)
  BY <1>1 DEF TypeOK, PlaceInv
<1>4. target' \in [Conns -> {InitProc, Server}]
  BY DEF TypeOK
<1>5. p \in Conns => to \in {"kill", "told", "handler"}
  OBVIOUS
<1> QED BY <1>2, <1>3, <1>4, <1>5, MoveStep

(* A process ends, by itself or, the server, by an order to stop.          *)
LEMMA EndStep ==
  ASSUME IInv, NEW p \in Procs, NEW q \in Procs, NEW next, p \in Alive,
         Die(p, q, next), UNCHANGED <<target, leaked, interrupted>>,
         q = p \/ (p = Server /\ q \in Conns /\ pc[q] = "kill" /\ next = "told"),
         p = Main => Server \notin Alive
  PROVE  IInv'
<1> USE ProcFacts DEF IInv
<1>1. /\ pc'[p] \in {"zombie", "reaped"} /\ (p = Main => pc'[p] = "reaped")
      /\ \A r \in Procs : r # p =>
           \/ pc'[r] = pc[r]
           \/ pc[r] = "zombie" /\ pc'[r] = "reaped"
           \/ r \in Conns /\ pc[r] = "kill" /\ pc'[r] = "told"
      /\ \A r \in Procs : parent'[r] = IF parent[r] = p THEN InitProc ELSE parent[r]
      /\ pc' = [r \in Procs |-> pc'[r]]
  <2>1. /\ pc'[p] = IF parent[p] = InitProc THEN "reaped" ELSE "zombie"
        /\ q # p => pc'[q] = next
        /\ \A r \in Procs \ {p, q} :
             pc'[r] = pc[r] \/ (pc[r] = "zombie" /\ pc'[r] = "reaped")
        /\ \A r \in Procs : parent'[r] = IF parent[r] = p THEN InitProc ELSE parent[r]
        /\ pc' = [r \in Procs |-> pc'[r]]
    BY DieFacts
  <2>2. pc'[p] \in {"zombie", "reaped"} /\ (p = Main => pc'[p] = "reaped")
    BY <2>1 DEF TreeInv
  <2>3. ASSUME NEW r \in Procs, r # p
        PROVE  \/ pc'[r] = pc[r]
               \/ pc[r] = "zombie" /\ pc'[r] = "reaped"
               \/ r \in Conns /\ pc[r] = "kill" /\ pc'[r] = "told"
    BY <2>1, <2>3
  <2> QED BY <2>1, <2>2, <2>3
<1>2. pc[p] \notin {"unborn", "zombie", "reaped"}
  BY DEF Alive, InTable
<1>3. Alive' = Alive \ {p}
  BY <1>1, <1>2 DEF Alive, InTable
<1>4. TypeOK'
  <2>1. sigint' \subseteq Alive'
    BY <1>3, DieFacts DEF TypeOK
  <2>2. pc' \in [Procs -> {"unborn", "greet", "read", "wait", "setup", "accept", "fork",
                         "serve", "kill", "told", "handler", "zombie", "reaped"}]
    BY <1>1 DEF TypeOK
  <2> QED BY <2>1, <2>2, DieFacts DEF TypeOK
<1>5. PlaceInv'
  BY <1>1 DEF PlaceInv, MainPcs, ServerPcs, ConnPcs
<1>6. TreeInv'
  <2>1. pc'[Main] = "greet" => pc'[Server] = "unborn"
    BY <1>1, <1>2 DEF TreeInv
  <2>2. pc'[Server] \notin {"unborn", "reaped"} /\ pc'[Main] # "reaped" => parent'[Server] = Main
    BY <1>1, <1>2 DEF TreeInv
  <2>3. pc'[Server] = "unborn" => \A c \in Conns : pc'[c] = "unborn"
    BY <1>1, <1>2 DEF TreeInv
  <2>4. ASSUME NEW c \in Conns
        PROVE  /\ parent'[c] # Main
               /\ pc'[c] \notin {"unborn", "reaped"} /\ Server \in Alive' => parent'[c] = Server
    BY <1>1, <1>2, <1>3 DEF TreeInv
  <2>5. parent'[Main] = InitProc
    BY <1>1 DEF TreeInv
  <2> QED BY <2>1, <2>2, <2>3, <2>4, <2>5 DEF TreeInv
<1>7. NoServerLeftBehind' /\ StopReachesServer'
  <2>1. NoServerLeftBehind'
    BY <1>3 DEF NoServerLeftBehind
  <2>2. StopReachesServer'
    BY <1>1, <1>3 DEF StopReachesServer
  <2> QED BY <2>1, <2>2
<1> QED BY <1>4, <1>5, <1>6, <1>7

(* A process forks: main its server, or the server a new connection.       *)
LEMMA ForkStep ==
  ASSUME IInv, NEW p \in {Main, Server}, NEW child \in Procs, NEW start, NEW next,
         Fork(p, child, start, next), UNCHANGED leaked, pc[child] = "unborn",
         \/ /\ p = Main /\ child = Server /\ start = "setup"
            /\ pc[Main] = "greet" /\ next = "read"
         \/ /\ p = Server /\ child \in Conns /\ start = "serve"
            /\ pc[Server] = "fork" /\ next = "accept"
  PROVE  IInv'
<1> USE ProcFacts DEF IInv
<1>1. /\ pc'[p] = next /\ pc'[child] = start
      /\ \A r \in Procs \ {p, child} : pc'[r] = pc[r]
      /\ parent'[child] = p /\ \A r \in Procs \ {child} : parent'[r] = parent[r]
  BY DEF Fork, TypeOK
<1>2. Alive' = Alive \cup {child}
  BY <1>1 DEF Alive, InTable
<1>3. TypeOK'
  BY <1>2 DEF TypeOK, Fork
<1>4. PlaceInv'
  BY <1>1 DEF PlaceInv, MainPcs, ServerPcs, ConnPcs
<1>5. TreeInv'
  <2>1. pc'[Server] \notin {"unborn", "reaped"} /\ pc'[Main] # "reaped" => parent'[Server] = Main
    BY <1>1 DEF TreeInv
  <2>2. ASSUME NEW c \in Conns
        PROVE  /\ parent'[c] # Main
               /\ pc'[c] \notin {"unborn", "reaped"} /\ Server \in Alive' => parent'[c] = Server
    BY <1>1, <1>2 DEF TreeInv
  <2>3. /\ pc'[Main] = "greet" => pc'[Server] = "unborn"
        /\ pc'[Server] # "unborn" /\ parent'[Main] = InitProc
    BY <1>1 DEF TreeInv
  <2> QED BY <2>1, <2>2, <2>3 DEF TreeInv
<1>6. NoServerLeftBehind'
  BY <1>1, <1>2 DEF NoServerLeftBehind, Alive, InTable
<1>7. StopReachesServer'
  BY <1>1, <1>2 DEF StopReachesServer, Fork, Alive, InTable, TreeInv
<1> QED BY <1>3, <1>4, <1>5, <1>6, <1>7

(* wait(0) keeps main until its server is dead.                            *)
LEMMA MainWaits ==
  ASSUME IInv, Main \in Alive, pc[Main] = "greet" \/ WaitReturns(Main)
  PROVE  Server \notin Alive
<1> USE ProcFacts DEF IInv
<1> SUFFICES ASSUME Server \in Alive PROVE FALSE
  OBVIOUS
<1>1. parent[Server] = Main /\ pc[Main] # "greet"
  BY DEF TreeInv, Alive, InTable
<1>2. Children(Main) = {Server}
  BY <1>1 DEF Children, TreeInv, Alive, InTable, InitProc, Main
<1> QED BY <1>1, <1>2 DEF WaitReturns

-----------------------------------------------------------------------------
LEMMA MainKeeps == ASSUME IInv, MainStep \/ MainPipe \/ MainDies PROVE IInv'
<1> USE ProcFacts DEF IInv
<1>1. CASE MainForks
  <2>1. pc[Main] = "greet" /\ pc[Server] = "unborn" /\ Main \in {Main, Server}
    BY <1>1 DEF MainForks, TreeInv
  <2> QED BY <1>1, <2>1, ForkStep DEF MainForks
<1>2. CASE MainDies \/ MainExits \/ HandlerExits(Main)
  <2>1. Main \in Alive /\ Exit(Main) /\ (pc[Main] = "greet" \/ WaitReturns(Main))
    BY <1>2 DEF MainDies, MainExits, HandlerExits, Alive, InTable
  <2>2. Server \notin Alive
    BY <2>1, MainWaits
  <2> QED BY <2>1, <2>2, EndStep DEF Exit
<1>3. CASE MainPipe \/ MainEof \/ TakeSignal(Main)
  <2>1. PICK to \in {"wait", "handler"} : pc' = [pc EXCEPT ![Main] = to]
    BY <1>3 DEF MainPipe, MainEof, TakeSignal, Goto
  <2>2. Main \in Alive /\ UNCHANGED <<parent, target, leaked, interrupted>> /\ sigint' \subseteq sigint
    BY <1>3 DEF MainPipe, MainEof, TakeSignal, Goto, Alive, InTable, TypeOK
  <2> QED BY <2>1, <2>2, OtherMoves
<1> QED BY <1>1, <1>2, <1>3 DEF MainStep

LEMMA ServerKeeps ==
  ASSUME IInv, ServerStep \/ SetupFails \/ Accept \/ AcceptFails
  PROVE  IInv'
<1> USE ProcFacts DEF IInv
<1>1. CASE ForkConn
  <2>1. Server \in {Main, Server}
    OBVIOUS
  <2> QED BY <1>1, <2>1, ForkStep DEF ForkConn
<1>2. CASE SetupFails \/ AcceptFails \/ HandlerExits(Server)
  <2>1. Server \in Alive /\ Exit(Server)
    BY <1>2 DEF SetupFails, AcceptFails, HandlerExits, Alive, InTable
  <2> QED BY <2>1, EndStep DEF Exit
<1>3. CASE Setup \/ Accept \/ TakeSignal(Server)
  <2>1. PICK to \in {"accept", "fork", "handler"} :
          pc' = [pc EXCEPT ![Server] = to] /\ (to = "fork" => leaked < FdLimit)
    BY <1>3 DEF Setup, Accept, TakeSignal, Goto
  <2>2. Server \in Alive /\ UNCHANGED <<parent, target, leaked, interrupted>> /\ sigint' \subseteq sigint
    BY <1>3 DEF Setup, Accept, TakeSignal, Goto, Alive, InTable, TypeOK
  <2> QED BY <2>1, <2>2, OtherMoves
<1>4. CASE ForkFails
  <2>1. /\ Server \in Alive /\ UNCHANGED <<parent, sigint, target, interrupted>>
        /\ pc' = [pc EXCEPT ![Server] = "accept"] /\ pc'[Server] = "accept"
        /\ \A c \in Conns : pc'[c] = pc[c]
    BY <1>4 DEF ForkFails, Goto, Alive, InTable, TypeOK
  <2>2. leaked' \in 0 .. FdLimit
    BY <1>4 DEF ForkFails, Goto, PlaceInv, TypeOK
  <2>3. \A c \in Conns : pc'[c] = "kill" /\ Server \in Alive => target'[c] = Server
    BY <2>1 DEF StopReachesServer
  <2>4. target' \in [Conns -> {InitProc, Server}]
    BY <2>1 DEF TypeOK
  <2> QED BY <2>1, <2>2, <2>3, <2>4, MoveStep
<1> QED BY <1>1, <1>2, <1>3, <1>4 DEF ServerStep

LEMMA ConnKeeps ==
  ASSUME IInv, NEW c \in Conns, ConnStep(c) \/ Getppid(c)
  PROVE  IInv'
<1> USE ProcFacts DEF IInv
<1>1. CASE Finish(c) \/ HandlerExits(c)
  <2>1. c \in Alive /\ Exit(c)
    BY <1>1 DEF Finish, HandlerExits, Alive, InTable
  <2> QED BY <2>1, EndStep DEF Exit
<1>2. CASE TakeSignal(c)
  <2>1. /\ pc' = [pc EXCEPT ![c] = "handler"] /\ c \in Alive /\ sigint' \subseteq sigint
        /\ UNCHANGED <<parent, target, leaked, interrupted>>
    BY <1>2 DEF TakeSignal, Goto, TypeOK
  <2> QED BY <2>1, OtherMoves
<1>3. CASE Kill(c) /\ target[c] \in Alive /\ Die(target[c], c, "told")
  <2>1. target[c] = Server /\ pc[c] = "kill"
    BY <1>3 DEF Kill, TypeOK, Alive, InTable
  <2>2. Die(Server, c, "told") /\ UNCHANGED <<target, leaked, interrupted>>
    BY <1>3, <2>1 DEF Kill
  <2> QED BY <1>3, <2>1, <2>2, EndStep
<1>4. CASE /\ Kill(c) /\ pc' = [pc EXCEPT ![c] = "told"]
           /\ UNCHANGED <<parent, sigint>>
  <2>1. /\ pc' = [pc EXCEPT ![c] = "told"] /\ c \in Alive /\ sigint' = sigint
        /\ UNCHANGED <<parent, target, leaked, interrupted>>
    BY <1>4 DEF Kill, Alive, InTable
  <2> QED BY <2>1, OtherMoves
<1>5. CASE Getppid(c)
  <2>1. /\ pc' = [pc EXCEPT ![c] = "kill"] /\ c \in Alive /\ sigint' = sigint
        /\ UNCHANGED <<parent, leaked, interrupted>>
        /\ target' = [target EXCEPT ![c] = parent[c]]
        /\ pc[c] = "serve" /\ pc'[Server] = pc[Server]
        /\ \A d \in Conns : d # c => pc'[d] = pc[d]
    BY <1>5 DEF Getppid, Goto, Alive, InTable, TypeOK
  <2>2. parent[c] \in {InitProc, Server}
    BY DEF TypeOK, TreeInv
  <2>3. target' \in [Conns -> {InitProc, Server}] /\ target'[c] = parent[c]
    BY <2>1, <2>2 DEF TypeOK
  <2>4. Server \in Alive => parent[c] = Server
    BY <2>1 DEF TreeInv
  <2>5. \A d \in Conns : pc'[d] = "kill" /\ Server \in Alive => target'[d] = Server
    BY <2>1, <2>3, <2>4 DEF StopReachesServer, TypeOK
  <2>6. leaked' \in 0 .. FdLimit /\ (pc'[Server] = "fork" => leaked' < FdLimit)
    BY <2>1 DEF TypeOK, PlaceInv
  <2> QED BY <2>1, <2>3, <2>5, <2>6, MoveStep
<1> QED BY <1>1, <1>2, <1>3, <1>4, <1>5 DEF ConnStep, Kill

LEMMA RestKeeps ==
  ASSUME IInv, (\E whom \in Interrupts : Interrupt(whom)) \/ UNCHANGED vars
  PROVE  IInv'
<1> USE ProcFacts DEF IInv
<1>1. UNCHANGED <<pc, parent, target, leaked>> /\ Alive' = Alive /\ InTable' = InTable
  BY DEF Interrupt, vars, Alive, InTable
<1>2. sigint' \subseteq Alive /\ interrupted' \in {"no"} \cup Interrupts
  BY DEF Interrupt, vars, TypeOK
<1>3. TypeOK'
  BY <1>1, <1>2 DEF TypeOK
<1> QED BY <1>1, <1>3 DEF PlaceInv, TreeInv, NoServerLeftBehind, StopReachesServer

-----------------------------------------------------------------------------
THEOREM Invariance == Spec => []IInv
<1>1. IInv /\ [Next]_vars => IInv'
  BY MainKeeps, ServerKeeps, ConnKeeps, RestKeeps DEF Next
<1> QED BY InitIInv, <1>1, PTL DEF Spec

(* The processes' states, parents and signals keep their types; the        *)
(* connections left open never exceed what childServer() may hold.         *)
THEOREM TypeCorrect == Spec => []TypeOK
BY Invariance, PTL DEF IInv

(* Whichever exit main takes (a failed fork, end of input, its handler),   *)
(* wait(0) has seen to it that the server is dead.                         *)
THEOREM ServerNeverLeftBehind == Spec => []NoServerLeftBehind
BY Invariance, PTL DEF IInv

(* However late kill() follows getppid(), an order to stop is sent to the  *)
(* server if the server is alive.                                          *)
THEOREM StopNeverMissesServer == Spec => []StopReachesServer
BY Invariance, PTL DEF IInv

-----------------------------------------------------------------------------
(* The processes come to an end: what is left of their work.               *)

(* The connections childServer() may still take, or fail to serve.         *)
Unborn == {c \in Conns : pc[c] = "unborn"}
ToAccept == Cardinality(Unborn) + (FdLimit - leaked)

(* The steps of each process, between two connections.                     *)
Rank(place) == CASE place = "unborn" -> 6
                 [] place \in {"greet", "setup", "serve"} -> 5
                 [] place \in {"read", "accept", "kill"} -> 4
                 [] place \in {"wait", "fork", "told"} -> 3
                 [] place = "handler" -> 2
                 [] place = "zombie" -> 1
                 [] place = "reaped" -> 0
Ranks == [p \in Procs |-> Rank(pc[p])]
ToRun == Total(Procs, 6, Ranks)

ToInterrupt == IF interrupted = "no" THEN 1 ELSE 0

Left == <<ToAccept, ToRun, ToInterrupt>>
LeftNats == ToAccept \in Nat /\ ToRun \in Nat /\ ToInterrupt \in Nat
LessLeft == Lower(ToAccept', ToRun', ToInterrupt', ToAccept, ToRun, ToInterrupt)

Places == {"unborn", "greet", "read", "wait", "setup", "accept", "fork",
           "serve", "kill", "told", "handler", "zombie", "reaped"}

LEMMA RankFacts ==
  /\ Rank("unborn") = 6
  /\ Rank("greet") = 5 /\ Rank("setup") = 5 /\ Rank("serve") = 5
  /\ Rank("read") = 4 /\ Rank("accept") = 4 /\ Rank("kill") = 4
  /\ Rank("wait") = 3 /\ Rank("fork") = 3 /\ Rank("told") = 3
  /\ Rank("handler") = 2 /\ Rank("zombie") = 1 /\ Rank("reaped") = 0
BY DEF Rank

LEMMA PlaceFacts ==
  ASSUME NEW x \in Places
  PROVE  /\ Rank(x) \in 0 .. 6 /\ Rank(x) <= 6
         /\ Rank(x) = 6 => x = "unborn"
         /\ x \notin {"unborn", "zombie", "reaped"} => Rank(x) \in 2 .. 5
<1>1. CASE x = "unborn"
  BY <1>1, RankFacts
<1>2. CASE x \in {"greet", "setup", "serve"}
  BY <1>2, RankFacts
<1>3. CASE x \in {"read", "accept", "kill"}
  BY <1>3, RankFacts
<1>4. CASE x \in {"wait", "fork", "told"}
  BY <1>4, RankFacts
<1>5. CASE x \in {"handler", "zombie", "reaped"}
  BY <1>5, RankFacts
<1> QED BY <1>1, <1>2, <1>3, <1>4, <1>5, Zenon DEF Places

LEMMA ConnsFinite ==
  /\ IsFiniteSet(Conns) /\ IsFiniteSet(Procs)
  /\ IsFiniteSet(Unborn) /\ Cardinality(Unborn) \in Nat
<1>1. MaxConns + 1 \in Int
  BY MaxConnsAssumption
<1>2. IsFiniteSet(Conns) /\ IsFiniteSet(Procs)
  BY <1>1, FS_Interval DEF Conns, Procs
<1>3. Unborn \subseteq Conns
  BY DEF Unborn
<1> QED BY <1>2, <1>3, FewerFacts

LEMMA LeftType == TypeOK => LeftNats
<1> SUFFICES ASSUME TypeOK PROVE LeftNats
  OBVIOUS
<1>1. FdLimit \in Nat /\ leaked \in 0 .. FdLimit
  BY LimitsAssumption DEF TypeOK
<1>2. Cardinality(Unborn) \in Nat
  BY ConnsFinite
<1>3. ToAccept \in Nat
  BY ONLY <1>1, <1>2 DEF ToAccept
<1>4. ToRun \in Nat
  BY ConnsFinite, TotalFacts DEF ToRun
<1>5. ToInterrupt \in Nat
  BY DEF ToInterrupt
<1> QED BY <1>3, <1>4, <1>5 DEF LeftNats

(* The places of the processes, in the two states of a step.               *)
Placed == pc \in [Procs -> Places] /\ leaked \in 0 .. FdLimit

LEMMA PlacedType == TypeOK => Placed
BY DEF TypeOK, Placed, Places

(* A step in which no process gets nearer its beginning.                   *)
LEMMA RunLowers ==
  ASSUME Placed, Placed', LeftNats, LeftNats', UNCHANGED leaked,
         \A p \in Procs : Rank(pc'[p]) <= Rank(pc[p]),
         NEW q \in Procs, Rank(pc'[q]) < Rank(pc[q])
  PROVE  LessLeft
<1>1. \A p \in Procs : pc[p] \in Places /\ pc'[p] \in Places
  BY DEF Placed
<1>2. \A p \in Procs : Rank(pc[p]) \in 0 .. 6 /\ Rank(pc'[p]) \in 0 .. 6
  BY <1>1, PlaceFacts
<1>3. ToRun' < ToRun
  <2> DEFINE f == [p \in Procs |-> Rank(pc[p])]
             g == [p \in Procs |-> Rank(pc'[p])]
  <2>1. f \in [Procs -> 0 .. 6] /\ g \in [Procs -> 0 .. 6]
    BY <1>2
  <2>2. (\A p \in Procs : g[p] <= f[p]) /\ g[q] < f[q]
    OBVIOUS
  <2>3. Ranks = f /\ Ranks' = g
    BY DEF Ranks
  <2> HIDE DEF f, g
  <2>4. Total(Procs, 6, g) < Total(Procs, 6, f)
    BY <2>1, <2>2, ConnsFinite, TotalFalls
  <2> QED BY <2>3, <2>4 DEF ToRun
<1>4. Unborn' \subseteq Unborn
  <2>1. ASSUME NEW c \in Conns, pc'[c] = "unborn" PROVE pc[c] = "unborn"
    <3>1. c \in Procs
      BY ProcFacts
    <3>2. Rank(pc'[c]) = 6 /\ Rank(pc'[c]) <= Rank(pc[c]) /\ Rank(pc[c]) \in 0 .. 6
      BY <1>2, <2>1, <3>1, RankFacts
    <3>3. Rank(pc[c]) = 6
      BY ONLY <3>2
    <3> QED BY <1>1, <3>1, <3>3, PlaceFacts
  <2> QED BY <2>1 DEF Unborn
<1>5. /\ Cardinality(Unborn') <= Cardinality(Unborn)
      /\ Cardinality(Unborn) \in Nat /\ Cardinality(Unborn') \in Nat
  BY <1>4, ConnsFinite, FewerFacts
<1>6. FdLimit \in Nat /\ leaked \in 0 .. FdLimit /\ leaked' = leaked
  BY LimitsAssumption DEF Placed
<1>7. ToAccept' <= ToAccept
  BY ONLY <1>5, <1>6 DEF ToAccept
<1> QED BY ONLY LeftNats, LeftNats', <1>3, <1>7 DEF LeftNats, LessLeft, Lower

LEMMA GotoLowers ==
  ASSUME Placed, Placed', LeftNats, LeftNats', UNCHANGED leaked,
         NEW p \in Procs, NEW to, pc' = [pc EXCEPT ![p] = to], Rank(to) < Rank(pc[p])
  PROVE  LessLeft
<1>1. \A r \in Procs : r # p => pc'[r] = pc[r]
  BY DEF Placed
<1>2. pc'[p] = to
  BY DEF Placed
<1>3. \A r \in Procs : Rank(pc[r]) \in 0 .. 6 /\ Rank(pc'[r]) \in 0 .. 6
  BY PlaceFacts DEF Placed
<1>4. \A r \in Procs : r # p => Rank(pc'[r]) <= Rank(pc[r])
  <2> SUFFICES ASSUME NEW r \in Procs, r # p PROVE Rank(pc'[r]) <= Rank(pc[r])
    OBVIOUS
  <2>1. Rank(pc'[r]) = Rank(pc[r])
    BY <1>1
  <2> QED BY ONLY <1>3, <2>1, r \in Procs
<1>5. Rank(pc'[p]) < Rank(pc[p])
  BY <1>2
<1>6. Rank(pc'[p]) <= Rank(pc[p])
  BY ONLY <1>3, <1>5, p \in Procs
<1>7. \A r \in Procs : Rank(pc'[r]) <= Rank(pc[r])
  BY <1>4, <1>6, Zenon
<1> QED BY <1>5, <1>7, RunLowers

LEMMA DieLowers ==
  ASSUME TypeOK, Placed, Placed', LeftNats, LeftNats', UNCHANGED leaked,
         NEW p \in Procs, NEW q \in Procs, NEW next, p \in Alive, Die(p, q, next),
         q = p \/ (pc[q] = "kill" /\ next = "told")
  PROVE  LessLeft
<1>1. \A r \in Procs : pc[r] \in Places /\ Rank(pc[r]) \in 0 .. 6
  BY PlaceFacts DEF Placed
<1>2. /\ pc'[p] = IF parent[p] = InitProc THEN "reaped" ELSE "zombie"
      /\ q # p => pc'[q] = next
      /\ \A r \in Procs \ {p, q} :
           pc'[r] = pc[r] \/ (pc[r] = "zombie" /\ pc'[r] = "reaped")
  BY DieFacts
<1>3. Rank(pc[p]) \in 2 .. 5
  BY <1>1, PlaceFacts DEF Alive, InTable
<1>4. Rank(pc'[p]) \in 0 .. 1
  <2>1. pc'[p] = "reaped" \/ pc'[p] = "zombie"
    BY <1>2
  <2> QED BY <2>1, RankFacts
<1>5. Rank(pc'[p]) < Rank(pc[p]) /\ Rank(pc'[p]) <= Rank(pc[p])
  BY ONLY <1>3, <1>4
<1>6. ASSUME NEW r \in Procs, r # p PROVE Rank(pc'[r]) <= Rank(pc[r])
  <2>1. CASE pc'[r] = pc[r]
    <3>1. Rank(pc'[r]) = Rank(pc[r]) /\ Rank(pc[r]) \in 0 .. 6
      BY <1>1, <2>1
    <3> QED BY ONLY <3>1
  <2>2. CASE pc[r] = "zombie" /\ pc'[r] = "reaped"
    BY ONLY <2>2, RankFacts
  <2>3. CASE pc[r] = "kill" /\ pc'[r] = "told"
    BY ONLY <2>3, RankFacts
  <2> QED BY <1>2, <1>6, <2>1, <2>2, <2>3
<1>7. \A r \in Procs : Rank(pc'[r]) <= Rank(pc[r])
  BY <1>5, <1>6, Zenon
<1> QED BY <1>5, <1>7, RunLowers

(* A connection more is one less to come, and so is one nobody serves.     *)
LEMMA AcceptLowers ==
  ASSUME Placed, Placed', LeftNats, LeftNats', ForkConn \/ ForkFails
  PROVE  LessLeft
<1>1. Cardinality(Unborn) \in Nat /\ IsFiniteSet(Unborn)
  BY ConnsFinite
<1>2. FdLimit \in Nat /\ leaked \in 0 .. FdLimit /\ leaked' \in 0 .. FdLimit
  BY LimitsAssumption DEF Placed
<1>3. CASE ForkConn
  <2>1. PICK c \in Conns : pc[c] = "unborn" /\ Fork(Server, c, "serve", "accept")
    BY <1>3 DEF ForkConn
  <2>2. leaked' = leaked /\ pc' = [pc EXCEPT ![Server] = "accept", ![c] = "serve"]
    BY <1>3, <2>1 DEF ForkConn, Fork
  <2>3. /\ pc'[c] = "serve"
        /\ \A d \in Conns : d # c => pc'[d] = pc[d]
    BY <2>2, ProcFacts DEF Placed
  <2>4. Unborn' \subseteq Unborn /\ c \in Unborn /\ c \notin Unborn'
    BY <2>1, <2>3 DEF Unborn
  <2>5. /\ Cardinality(Unborn') < Cardinality(Unborn)
        /\ Cardinality(Unborn') \in Nat
    BY <1>1, <2>4, FewerFacts
  <2>6. ToAccept' < ToAccept
    BY ONLY <1>1, <1>2, <2>2, <2>5 DEF ToAccept
  <2> QED BY <2>6 DEF LessLeft, Lower
<1>4. CASE ForkFails
  <2>1. leaked' = leaked + 1 /\ pc' = [pc EXCEPT ![Server] = "accept"]
    BY <1>4 DEF ForkFails, Goto
  <2>2. \A c \in Conns : pc'[c] = pc[c]
    BY <2>1, ProcFacts DEF Placed
  <2>3. Unborn' = Unborn
    BY <2>2 DEF Unborn
  <2>4. ToAccept' < ToAccept
    BY ONLY <1>1, <1>2, <2>1, <2>3 DEF ToAccept
  <2> QED BY <2>4 DEF LessLeft, Lower
<1> QED BY <1>3, <1>4

LEMMA InterruptLowers ==
  ASSUME LeftNats, LeftNats', NEW whom \in Interrupts, Interrupt(whom)
  PROVE  LessLeft
<1>1. UNCHANGED <<pc, leaked>> /\ interrupted = "no" /\ interrupted' = whom /\ whom # "no"
  BY InterruptsAssumption DEF Interrupt
<1>2. ToAccept' = ToAccept
  BY <1>1 DEF ToAccept, Unborn
<1>3. ToRun' = ToRun
  BY <1>1 DEF ToRun, Ranks
<1>4. ToInterrupt = 1 /\ ToInterrupt' = 0
  BY <1>1 DEF ToInterrupt
<1> QED BY <1>2, <1>3, <1>4 DEF LessLeft, Lower

(* A signal is taken by a process that has something else to do.           *)
LEMMA SignalLowers ==
  ASSUME TypeOK, Placed, Placed', LeftNats, LeftNats', NEW p \in Procs, TakeSignal(p)
  PROVE  LessLeft
<1>1. /\ pc' = [pc EXCEPT ![p] = "handler"] /\ UNCHANGED leaked
      /\ pc[p] # "handler" /\ p \in Alive
  BY DEF TakeSignal, Goto, TypeOK
<1>2. pc[p] \in {"greet", "setup", "serve", "read", "accept", "kill", "wait", "fork", "told"}
  BY <1>1 DEF Alive, InTable, Placed, Places
<1>3. Rank("handler") < Rank(pc[p])
  BY ONLY <1>2, RankFacts
<1> QED BY <1>1, <1>3, GotoLowers

LEMMA ExitLowers ==
  ASSUME TypeOK, Placed, Placed', LeftNats, LeftNats', NEW p \in Procs, Exit(p),
         pc[p] \notin {"unborn", "zombie", "reaped"}
  PROVE  LessLeft
BY DieLowers DEF Exit, Alive, InTable

LEMMA MainLowers ==
  ASSUME TypeOK, TreeInv, Placed, Placed', LeftNats, LeftNats',
         MainStep \/ MainPipe \/ MainDies
  PROVE  LessLeft
<1>0. Main \in Procs /\ Server \in Procs /\ Main # Server
  BY ProcFacts
<1>1. CASE MainForks
  <2>1. /\ pc[Main] = "greet" /\ pc[Server] = "unborn" /\ UNCHANGED leaked
        /\ pc' = [pc EXCEPT ![Main] = "read", ![Server] = "setup"]
    BY <1>1 DEF MainForks, Fork, TreeInv
  <2>2. /\ pc'[Main] = "read" /\ pc'[Server] = "setup"
        /\ \A r \in Procs \ {Main, Server} : pc'[r] = pc[r]
    BY <1>0, <2>1 DEF Placed
  <2>3. Rank(pc'[Main]) < Rank(pc[Main])
    BY ONLY <2>1, <2>2, RankFacts
  <2>4. ASSUME NEW r \in Procs PROVE Rank(pc'[r]) <= Rank(pc[r])
    <3>1. CASE r \in {Main, Server}
      BY ONLY <2>1, <2>2, <3>1, RankFacts
    <3>2. CASE r \notin {Main, Server}
      <4>1. Rank(pc'[r]) = Rank(pc[r])
        BY <2>2, <3>2
      <4>2. Rank(pc[r]) \in 0 .. 6
        BY PlaceFacts DEF Placed
      <4> QED BY ONLY <4>1, <4>2
    <3> QED BY <3>1, <3>2
  <2> QED BY <1>0, <2>1, <2>3, <2>4, RunLowers
<1>2. CASE MainPipe \/ MainEof
  <2>1. PICK to \in {"wait", "handler"} :
          pc' = [pc EXCEPT ![Main] = to] /\ pc[Main] \in {"greet", "read"}
    BY <1>2 DEF MainPipe, MainEof, Goto
  <2>2. Rank(to) < Rank(pc[Main])
    BY ONLY to \in {"wait", "handler"}, <2>1, RankFacts
  <2>3. UNCHANGED leaked
    BY <1>2 DEF MainPipe, MainEof
  <2> QED BY <1>0, <2>1, <2>2, <2>3, GotoLowers
<1>3. CASE MainDies \/ MainExits \/ HandlerExits(Main)
  BY <1>0, <1>3, ExitLowers DEF MainDies, MainExits, HandlerExits
<1>4. CASE TakeSignal(Main)
  BY <1>0, <1>4, SignalLowers
<1> QED BY <1>1, <1>2, <1>3, <1>4 DEF MainStep

LEMMA ServerLowers ==
  ASSUME TypeOK, Placed, Placed', LeftNats, LeftNats',
         ServerStep \/ SetupFails \/ Accept \/ AcceptFails
  PROVE  LessLeft
<1>0. Server \in Procs
  BY ProcFacts
<1>1. CASE Setup
  <2>1. pc[Server] = "setup" /\ pc' = [pc EXCEPT ![Server] = "accept"] /\ UNCHANGED leaked
    BY <1>1 DEF Setup, Goto
  <2>2. Rank("accept") < Rank(pc[Server])
    BY ONLY <2>1, RankFacts
  <2> QED BY <1>0, <2>1, <2>2, GotoLowers
<1>2. CASE Accept
  <2>1. pc[Server] = "accept" /\ pc' = [pc EXCEPT ![Server] = "fork"] /\ UNCHANGED leaked
    BY <1>2 DEF Accept, Goto
  <2>2. Rank("fork") < Rank(pc[Server])
    BY ONLY <2>1, RankFacts
  <2> QED BY <1>0, <2>1, <2>2, GotoLowers
<1>3. CASE ForkConn \/ ForkFails
  BY <1>3, AcceptLowers
<1>4. CASE SetupFails \/ AcceptFails \/ HandlerExits(Server)
  BY <1>0, <1>4, ExitLowers DEF SetupFails, AcceptFails, HandlerExits
<1>5. CASE TakeSignal(Server)
  BY <1>0, <1>5, SignalLowers
<1> QED BY <1>1, <1>2, <1>3, <1>4, <1>5 DEF ServerStep

LEMMA ConnLowers ==
  ASSUME TypeOK, Placed, Placed', LeftNats, LeftNats',
         NEW c \in Conns, ConnStep(c) \/ Getppid(c)
  PROVE  LessLeft
<1>0. c \in Procs
  BY ProcFacts
<1>1. CASE Finish(c) \/ HandlerExits(c)
  BY <1>0, <1>1, ExitLowers DEF Finish, HandlerExits
<1>2. CASE TakeSignal(c)
  BY <1>0, <1>2, SignalLowers
<1>3. CASE Getppid(c)
  <2>1. pc[c] = "serve" /\ pc' = [pc EXCEPT ![c] = "kill"] /\ UNCHANGED leaked
    BY <1>3 DEF Getppid, Goto
  <2>2. Rank("kill") < Rank(pc[c])
    BY ONLY <2>1, RankFacts
  <2> QED BY <1>0, <2>1, <2>2, GotoLowers
<1>4. CASE Kill(c)
  <2>1. pc[c] = "kill" /\ UNCHANGED leaked
    BY <1>4 DEF Kill
  <2>2. CASE target[c] \in Alive /\ Die(target[c], c, "told")
    <3>1. target[c] \in Procs
      BY <2>2 DEF Alive, InTable
    <3> QED BY <1>0, <2>1, <2>2, <3>1, DieLowers
  <2>3. CASE pc' = [pc EXCEPT ![c] = "told"]
    <3>1. Rank("told") < Rank(pc[c])
      BY ONLY <2>1, RankFacts
    <3> QED BY <1>0, <2>1, <2>3, <3>1, GotoLowers
  <2> QED BY <1>4, <2>2, <2>3 DEF Kill
<1> QED BY <1>1, <1>2, <1>3, <1>4 DEF ConnStep

(* However connections, failures, orders to stop and an interrupt fall     *)
(* together, the processes do not keep each other going: for as many       *)
(* connections as UNIX_TL may make, every step of theirs leaves fewer to   *)
(* accept or less to run, which cannot go on without end.  What            *)
(* InterruptEndsAll still needs is StandsStillOnlyInAccept, below, and     *)
(* that a process which can take a step takes it.                          *)
THEOREM ProcessesRunOut ==
  IsWellFoundedOn(Down, Tally) /\ (Spec => [][(<<Left', Left>> \in Down)]_vars)
<1>1. IInv /\ Placed /\ Placed' /\ LeftNats /\ LeftNats' /\ [Next]_vars
        => [(<<Left', Left>> \in Down)]_vars
  <2> SUFFICES ASSUME TypeOK, TreeInv, Placed, Placed', LeftNats, LeftNats', Next
               PROVE  <<Left', Left>> \in Down
    BY DEF IInv
  <2>1. LessLeft
    <3>1. CASE MainStep \/ MainPipe \/ MainDies
      BY <3>1, MainLowers
    <3>2. CASE ServerStep \/ SetupFails \/ Accept \/ AcceptFails
      BY <3>2, ServerLowers
    <3>3. CASE \E c \in Conns : ConnStep(c) \/ Getppid(c)
      BY <3>3, ConnLowers
    <3>4. CASE \E whom \in Interrupts : Interrupt(whom)
      BY <3>4, InterruptLowers
    <3> QED BY <3>1, <3>2, <3>3, <3>4 DEF Next
  <2>2. /\ ToAccept \in Nat /\ ToRun \in Nat /\ ToInterrupt \in Nat
        /\ ToAccept' \in Nat /\ ToRun' \in Nat /\ ToInterrupt' \in Nat
    BY Zenon DEF LeftNats
  <2>3. << <<ToAccept', ToRun', ToInterrupt'>>, <<ToAccept, ToRun, ToInterrupt>> >> \in Down
    BY ONLY <2>1, <2>2, GoesDown DEF LessLeft
  <2> QED BY <2>3, Zenon DEF Left
<1>2. IInv => Placed /\ LeftNats
  BY PlacedType, LeftType DEF IInv
<1>3. Spec => [][(<<Left', Left>> \in Down)]_vars
  BY <1>1, <1>2, Invariance, PTL DEF Spec
<1> QED BY <1>3, DownEnds

-----------------------------------------------------------------------------
(* Where the processes can stand still.                                    *)

(* A SIGINT from the terminal finds every process alive in its handler, or *)
(* on its way there: none is forked behind its back.                       *)
HeldInv == interrupted = "group" => \A p \in Alive : p \in sigint \/ pc[p] = "handler"

(* childServer() forks only for a connection it has accepted.              *)
RoomInv == pc[Server] = "fork" => \E c \in Conns : pc[c] = "unborn"

(* What a process cannot go on from unless another does something: wait(0) *)
(* with no child dead, and accept() with no SIGINT pending.                *)
ProcBlocked(p) ==
  \/ p \notin Alive
  \/ pc[p] = "handler" /\ ~WaitReturns(p)
  \/ /\ p \notin sigint
     /\ \/ pc[p] = "wait" /\ ~WaitReturns(p)
        \/ pc[p] = "accept"
        \/ pc[p] = "fork" /\ ~TableFull /\ \A c \in Conns : pc[c] # "unborn"
AllBlocked == \A p \in Procs : ProcBlocked(p)

LEMMA MoveRests ==
  ASSUME TypeOK, HeldInv, RoomInv, NEW p \in Procs, p \in Alive, NEW to,
         pc' = [pc EXCEPT ![p] = to], UNCHANGED interrupted,
         to = "handler" \/ pc[p] # "handler",
         sigint' = sigint \/ (to = "handler" /\ sigint' = sigint \ {p}),
         p = Server /\ to = "fork" => \E c \in Conns : pc[c] = "unborn",
         to \notin {"unborn", "zombie", "reaped"}
  PROVE  HeldInv' /\ RoomInv'
<1>1. /\ pc'[p] = to /\ \A r \in Procs \ {p} : pc'[r] = pc[r]
      /\ pc[p] \notin {"unborn", "zombie", "reaped"}
  BY DEF TypeOK, Alive, InTable
<1>2. Alive' = Alive
  BY <1>1 DEF Alive, InTable
<1>3. HeldInv'
  <2> SUFFICES ASSUME interrupted = "group", NEW r \in Alive
               PROVE  r \in sigint' \/ pc'[r] = "handler"
    BY <1>2 DEF HeldInv
  <2>1. r \in sigint \/ pc[r] = "handler"
    BY DEF HeldInv
  <2>2. CASE r = p
    BY <1>1, <2>1, <2>2
  <2>3. CASE r # p
    <3>1. pc'[r] = pc[r]
      BY <1>1, <2>3 DEF Alive, InTable
    <3> QED BY <2>1, <2>3, <3>1
  <2> QED BY <2>2, <2>3
<1>4. RoomInv'
  <2> SUFFICES ASSUME pc'[Server] = "fork" PROVE \E c \in Conns : pc'[c] = "unborn"
    BY DEF RoomInv
  <2>1. PICK c \in Conns : pc[c] = "unborn"
    <3>1. CASE p = Server
      BY <1>1, <3>1
    <3>2. CASE p # Server
      BY <1>1, <3>2, ProcFacts DEF RoomInv
    <3> QED BY <3>1, <3>2
  <2>2. pc'[c] = "unborn"
    BY <1>1, <2>1, ProcFacts
  <2> QED BY <2>2
<1> QED BY <1>3, <1>4

LEMMA EndRests ==
  ASSUME TypeOK, HeldInv, RoomInv, NEW p \in Procs, p \in Alive, NEW q \in Procs, q \in Alive,
         NEW next, Die(p, q, next), q = p \/ (q \in Conns /\ pc[q] # "handler" /\ next = "told"),
         UNCHANGED interrupted
  PROVE  HeldInv' /\ RoomInv'
<1>1. /\ pc'[p] \in {"zombie", "reaped"} /\ (q # p => pc'[q] = next)
      /\ \A r \in Procs \ {p, q} : pc'[r] = pc[r] \/ (pc[r] = "zombie" /\ pc'[r] = "reaped")
      /\ sigint' = sigint \ {p}
  BY DieFacts
<1>2. /\ pc[p] \notin {"unborn", "zombie", "reaped"} /\ pc[q] \notin {"unborn", "zombie", "reaped"}
  BY DEF Alive, InTable
<1>3. HeldInv'
  <2> SUFFICES ASSUME interrupted = "group", NEW r \in Alive'
               PROVE  r \in sigint' \/ pc'[r] = "handler"
    BY DEF HeldInv
  <2>1. r \in Procs /\ pc'[r] \notin {"unborn", "zombie", "reaped"} /\ r # p
    BY <1>1 DEF Alive, InTable
  <2>2. CASE r = q
    BY <1>1, <2>1, <2>2 DEF HeldInv
  <2>3. CASE r # q
    <3>1. pc'[r] = pc[r] /\ r \in Alive
      BY <1>1, <2>1, <2>3 DEF Alive, InTable
    <3>2. r \in sigint \/ pc[r] = "handler"
      BY <3>1 DEF HeldInv
    <3> QED BY <1>1, <2>1, <3>1, <3>2
  <2> QED BY <2>2, <2>3
<1>4. RoomInv'
  <2> SUFFICES ASSUME pc'[Server] = "fork" PROVE \E c \in Conns : pc'[c] = "unborn"
    BY DEF RoomInv
  <2>1. Server \in Procs /\ Server \notin Conns /\ Conns \subseteq Procs
    BY ProcFacts
  <2>2. Server # p /\ Server # q
    BY <1>1, <2>1
  <2>3. pc[Server] = "fork"
    BY <1>1, <2>1, <2>2
  <2>4. PICK c \in Conns : pc[c] = "unborn"
    BY <2>3 DEF RoomInv
  <2>5. pc'[c] = "unborn"
    BY <1>1, <1>2, <2>1, <2>4
  <2> QED BY <2>5
<1> QED BY <1>3, <1>4

LEMMA ForkRests ==
  ASSUME TypeOK, HeldInv, NEW p \in {Main, Server}, p \in Alive, pc[p] # "handler",
         NEW child \in Procs, child # p, NEW start, NEW next, Fork(p, child, start, next),
         start # "fork", next # "fork", child = Server \/ p = Server
  PROVE  HeldInv' /\ RoomInv'
<1>1. interrupted' = interrupted /\ interrupted # "group"
  BY DEF HeldInv, Fork
<1>2. pc'[Server] # "fork"
  BY ProcFacts DEF Fork, TypeOK
<1> QED BY <1>1, <1>2 DEF HeldInv, RoomInv

LEMMA RestStep == IInv /\ HeldInv /\ RoomInv /\ [Next]_vars => HeldInv' /\ RoomInv'
<1> SUFFICES ASSUME TypeOK, TreeInv, HeldInv, RoomInv, [Next]_vars PROVE HeldInv' /\ RoomInv'
  BY DEF IInv
<1>0. /\ Main \in Procs /\ Server \in Procs /\ Main # Server
      /\ Conns \subseteq Procs /\ Main \notin Conns /\ Server \notin Conns
  BY ProcFacts
<1>1. CASE UNCHANGED vars \/ \E whom \in Interrupts : Interrupt(whom)
  <2>1. pc' = pc /\ Alive' = Alive
    BY <1>1 DEF Interrupt, vars, Alive, InTable
  <2>2. RoomInv'
    BY <2>1 DEF RoomInv
  <2>3. CASE UNCHANGED vars
    BY <2>1, <2>2, <2>3 DEF vars, HeldInv
  <2>4. ASSUME NEW whom \in Interrupts, Interrupt(whom) PROVE HeldInv'
    BY <2>1, <2>4 DEF Interrupt, HeldInv
  <2> QED BY <1>1, <2>2, <2>3, <2>4
<1>2. CASE MainForks
  <2>1. Main \in Alive /\ pc[Main] # "handler" /\ Fork(Main, Server, "setup", "read")
    BY <1>0, <1>2 DEF MainForks, Alive, InTable
  <2>2. Main \in {Main, Server} /\ "setup" # "fork" /\ "read" # "fork"
    OBVIOUS
  <2> QED BY ONLY TypeOK, HeldInv, <1>0, <2>1, <2>2, ForkRests
<1>3. CASE ForkConn
  <2>1. PICK c \in Conns : Fork(Server, c, "serve", "accept")
    BY <1>3 DEF ForkConn
  <2>2. /\ Server \in Alive /\ pc[Server] # "handler"
        /\ c \in Procs /\ c # Server
    BY <1>0, <1>3 DEF ForkConn, Alive, InTable
  <2>3. Server \in {Main, Server} /\ "serve" # "fork" /\ "accept" # "fork"
    OBVIOUS
  <2> QED BY ONLY TypeOK, HeldInv, <1>0, <2>1, <2>2, <2>3, ForkRests
<1>4. ASSUME NEW p \in Procs, p \in Alive, Exit(p) PROVE HeldInv' /\ RoomInv'
  BY <1>4, EndRests DEF Exit
<1>5. ASSUME NEW p \in Procs, TakeSignal(p) PROVE HeldInv' /\ RoomInv'
  <2>1. /\ p \in Alive /\ pc' = [pc EXCEPT ![p] = "handler"]
        /\ sigint' = sigint \ {p} /\ UNCHANGED interrupted
    BY <1>5 DEF TakeSignal, Goto, TypeOK
  <2> QED BY <2>1, MoveRests
<1>6. CASE MainPipe \/ MainEof
  <2>1. PICK to \in {"wait", "handler"} : pc' = [pc EXCEPT ![Main] = to]
    BY <1>6 DEF MainPipe, MainEof, Goto
  <2>2. /\ Main \in Alive /\ pc[Main] # "handler" /\ UNCHANGED <<interrupted, sigint>>
    BY <1>0, <1>6 DEF MainPipe, MainEof, Goto, Alive, InTable
  <2>3. to \notin {"unborn", "zombie", "reaped"}
    OBVIOUS
  <2> QED BY <1>0, <2>1, <2>2, <2>3, MoveRests
<1>7. CASE Setup \/ ForkFails
  <2>1. pc' = [pc EXCEPT ![Server] = "accept"]
    BY <1>7 DEF Setup, ForkFails, Goto
  <2>2. /\ Server \in Alive /\ pc[Server] # "handler" /\ UNCHANGED <<interrupted, sigint>>
    BY <1>0, <1>7 DEF Setup, ForkFails, Goto, Alive, InTable
  <2> QED BY <1>0, <2>1, <2>2, MoveRests
<1>8. CASE Accept
  <2>1. pc' = [pc EXCEPT ![Server] = "fork"] /\ \E c \in Conns : pc[c] = "unborn"
    BY <1>8 DEF Accept, Goto
  <2>2. /\ Server \in Alive /\ pc[Server] # "handler" /\ UNCHANGED <<interrupted, sigint>>
    BY <1>0, <1>8 DEF Accept, Goto, Alive, InTable
  <2> QED BY <1>0, <2>1, <2>2, MoveRests
<1>9. ASSUME NEW c \in Conns, Getppid(c) PROVE HeldInv' /\ RoomInv'
  <2>1. /\ c \in Procs /\ c # Server /\ c \in Alive /\ pc[c] # "handler"
        /\ pc' = [pc EXCEPT ![c] = "kill"] /\ UNCHANGED <<interrupted, sigint>>
    BY <1>0, <1>9 DEF Getppid, Goto, Alive, InTable
  <2> QED BY <2>1, MoveRests
<1>10. ASSUME NEW c \in Conns, Kill(c) PROVE HeldInv' /\ RoomInv'
  <2>1. c \in Procs /\ c # Server /\ c \in Alive /\ pc[c] # "handler" /\ UNCHANGED interrupted
    BY <1>0, <1>10 DEF Kill, Alive, InTable
  <2>2. CASE target[c] \in Alive /\ Die(target[c], c, "told")
    <3>1. target[c] \in Procs
      BY <2>2 DEF Alive, InTable
    <3> QED BY <2>1, <2>2, <3>1, EndRests
  <2>3. CASE pc' = [pc EXCEPT ![c] = "told"] /\ UNCHANGED sigint
    BY <2>1, <2>3, MoveRests
  <2> QED BY <1>10, <2>2, <2>3 DEF Kill
<1>11. CASE MainDies \/ MainExits \/ HandlerExits(Main)
  <2>1. Main \in Alive /\ Exit(Main)
    BY <1>0, <1>11 DEF MainDies, MainExits, HandlerExits, Alive, InTable
  <2> QED BY <1>0, <1>4, <2>1
<1>12. CASE SetupFails \/ AcceptFails \/ HandlerExits(Server)
  <2>1. Server \in Alive /\ Exit(Server)
    BY <1>0, <1>12 DEF SetupFails, AcceptFails, HandlerExits, Alive, InTable
  <2> QED BY <1>0, <1>4, <2>1
<1>13. ASSUME NEW c \in Conns, Finish(c) \/ HandlerExits(c) PROVE HeldInv' /\ RoomInv'
  <2>1. c \in Alive /\ Exit(c) /\ c \in Procs
    BY <1>0, <1>13 DEF Finish, HandlerExits, Alive, InTable
  <2> QED BY <1>4, <2>1
<1>14. CASE MainStep \/ MainPipe \/ MainDies
  BY <1>0, <1>2, <1>5, <1>6, <1>11, <1>14 DEF MainStep
<1>15. CASE ServerStep \/ SetupFails \/ Accept \/ AcceptFails
  BY <1>0, <1>3, <1>5, <1>7, <1>8, <1>12, <1>15 DEF ServerStep
<1>16. ASSUME NEW c \in Conns, ConnStep(c) \/ Getppid(c) PROVE HeldInv' /\ RoomInv'
  BY <1>0, <1>5, <1>9, <1>10, <1>13, <1>16 DEF ConnStep
<1> QED BY <1>1, <1>14, <1>15, <1>16 DEF Next

(* The processes do not keep each other waiting: when none can go on, all  *)
(* are gone, or childServer() stands in accept() with no connection left   *)
(* to serve, and then no SIGINT has come from the terminal.                *)
THEOREM StandsStillOnlyInAccept ==
  Spec => [](AllBlocked => Alive = {} \/ (pc[Server] = "accept" /\ interrupted # "group"))
<1> DEFINE Still == AllBlocked => Alive = {} \/ (pc[Server] = "accept" /\ interrupted # "group")
<1>1. IInv /\ HeldInv /\ RoomInv => Still
  <2> SUFFICES ASSUME IInv, HeldInv, RoomInv, AllBlocked,
                      ~ (pc[Server] = "accept" /\ interrupted # "group")
               PROVE  Alive = {}
    OBVIOUS
  <2>0. /\ Procs = {Main, Server} \cup Conns
        /\ Main \notin Conns /\ Server \notin Conns /\ Main # Server /\ InitProc \notin Procs
    BY ProcFacts
  <2>1. \A p \in Procs : ProcBlocked(p)
    BY DEF AllBlocked
  <2>2. ASSUME NEW c \in Conns, c \in Alive PROVE FALSE
    <3>1. pc[c] \in {"serve", "kill", "told", "handler"}
      BY <2>2 DEF IInv, PlaceInv, ConnPcs, Alive, InTable
    <3>2. pc[c] = "handler" /\ ~WaitReturns(c)
      BY <2>0, <2>1, <2>2, <3>1 DEF ProcBlocked
    <3>3. Children(c) = {}
      BY <2>0, <2>2 DEF IInv, TypeOK, Children, InTable
    <3> QED BY <3>2, <3>3 DEF WaitReturns
  <2>3. Server \notin Alive
    <3> SUFFICES ASSUME Server \in Alive PROVE FALSE
      OBVIOUS
    <3>1. pc[Server] \in {"setup", "accept", "fork", "handler"}
      BY DEF IInv, PlaceInv, ServerPcs, Alive, InTable
    <3>2. pc[Server] = "accept" => interrupted = "group"
      OBVIOUS
    <3>3. pc[Server] = "accept" => Server \in sigint
      BY <3>2 DEF HeldInv
    <3>4. pc[Server] # "accept"
      BY <2>0, <2>1, <3>3 DEF ProcBlocked
    <3>5. pc[Server] # "fork"
      BY <2>0, <2>1 DEF ProcBlocked, RoomInv
    <3>6. pc[Server] = "handler" /\ ~WaitReturns(Server)
      BY <2>0, <2>1, <3>1, <3>4, <3>5 DEF ProcBlocked
    <3>7. Children(Server) \subseteq Alive /\ Children(Server) # {}
      BY <3>6 DEF WaitReturns
    <3>8. Main \in Alive
      BY DEF IInv, NoServerLeftBehind
    <3>9. parent[Server] # Server /\ parent[Main] # Server
      BY <2>0, <3>1, <3>8 DEF IInv, TreeInv, Alive, InTable
    <3>10. Children(Server) \subseteq Conns
      BY <2>0, <3>9 DEF Children, InTable
    <3> QED BY <2>2, <3>7, <3>10
  <2>4. Main \notin Alive
    <3> SUFFICES ASSUME Main \in Alive PROVE FALSE
      OBVIOUS
    <3>1. pc[Main] \in {"greet", "read", "wait", "handler"}
      BY DEF IInv, PlaceInv, MainPcs, Alive, InTable
    <3>2. ~WaitReturns(Main)
      BY <2>0, <2>1, <3>1 DEF ProcBlocked
    <3>3. Children(Main) \subseteq Alive /\ Children(Main) # {}
      BY <3>2 DEF WaitReturns
    <3>4. parent[Main] # Main /\ \A c \in Conns : parent[c] # Main
      BY <2>0 DEF IInv, TreeInv
    <3>5. Children(Main) \subseteq {Server}
      BY <2>0, <3>4 DEF Children, InTable
    <3> QED BY <2>3, <3>3, <3>5
  <2>5. Alive \subseteq Procs
    BY DEF Alive, InTable
  <2> QED BY <2>0, <2>2, <2>3, <2>4, <2>5
<1>2. Init => HeldInv /\ RoomInv
  BY ProcFacts DEF Init, HeldInv, RoomInv
<1> QED BY <1>1, <1>2, RestStep, Invariance, PTL DEF Spec
=============================================================================
