----------------------------- MODULE ProcessTree -----------------------------
(***************************************************************************)
(* exercise/exercise.c: the processes of the program.  main talks to       *)
(* UNIX_TL and forks childServer(), which forks one process for each       *)
(* connection; handle_signals() is installed before any fork, so every     *)
(* process has it.  What a connection process does until it ends or stops  *)
(* the program is module Connection.                                       *)
(*                                                                         *)
(* The kernel's part: a dead process is a zombie until its parent waits    *)
(* for it; the children of a dead process become children of init, which   *)
(* waits for them at once; a process that has SIGINT pending handles it    *)
(* before it forks.                                                        *)
(***************************************************************************)
EXTENDS Integers, FiniteSets

CONSTANTS MaxConns,     \* bound: connections UNIX_TL makes
          ProcLimit,    \* processes, zombies included, the program may have
          FdLimit,      \* connections childServer() may hold open
          Interrupts    \* whom a SIGINT may be sent to: "group", "main"

ASSUME MaxConnsAssumption == MaxConns \in Nat
ASSUME LimitsAssumption == ProcLimit \in Nat /\ FdLimit \in Nat
ASSUME InterruptsAssumption == Interrupts \subseteq {"group", "main"}

InitProc == -1
Main == 0
Server == 1
Conns == 2 .. MaxConns + 1
Procs == 0 .. MaxConns + 1

VARIABLES pc,           \* where each process is
          parent,       \* getppid() of each process
          sigint,       \* the processes with SIGINT pending
          target,       \* what getppid() returned to kill()'s caller
          leaked,       \* connections childServer() keeps open for nobody
          interrupted   \* "no", or whom SIGINT was sent to

vars == <<pc, parent, sigint, target, leaked, interrupted>>

Init == /\ pc = [p \in Procs |-> IF p = Main THEN "greet" ELSE "unborn"]
        /\ parent = [p \in Procs |-> InitProc]
        /\ sigint = {}
        /\ target = [c \in Conns |-> InitProc]
        /\ leaked = 0
        /\ interrupted = "no"

InTable == {p \in Procs : pc[p] \notin {"unborn", "reaped"}}
Alive == {p \in InTable : pc[p] # "zombie"}
Children(p) == {q \in InTable : parent[q] = p}

Goto(p, from, to) == pc[p] \in from /\ pc' = [pc EXCEPT ![p] = to]

(* Process p ends, while process q goes on at "next" (q = p: only p ends). *)
Die(p, q, next) ==
  /\ pc' = [r \in Procs |->
              IF r = p THEN IF parent[p] = InitProc THEN "reaped" ELSE "zombie"
              ELSE IF r = q THEN next
              ELSE IF pc[r] = "zombie" /\ parent[r] = p THEN "reaped"
              ELSE pc[r]]
  /\ parent' = [r \in Procs |-> IF parent[r] = p THEN InitProc ELSE parent[r]]
  /\ sigint' = sigint \ {p}
Exit(p) == Die(p, p, "") /\ UNCHANGED <<target, leaked, interrupted>>

(* wait(0) by p returns: p has no child, or one that is dead.              *)
WaitReturns(p) == Children(p) \subseteq Alive => Children(p) = {}

Fork(p, child, start, next) ==
  /\ p \notin sigint
  /\ pc' = [pc EXCEPT ![p] = next, ![child] = start]
  /\ parent' = [parent EXCEPT ![child] = p]
  /\ UNCHANGED <<sigint, target, interrupted>>

TableFull == Cardinality(InTable) >= ProcLimit

-----------------------------------------------------------------------------
(* main                                                                    *)
MainForks == /\ pc[Main] = "greet" /\ ~TableFull
             /\ Fork(Main, Server, "setup", "read") /\ UNCHANGED leaked

(* fork() fails; or an assertion of split() does, or it found fewer tokens *)
(* than result[11] needs.                                                  *)
MainDies == pc[Main] = "greet" /\ Exit(Main)

(* A write to a connection UNIX_TL has closed: SIGPIPE.                    *)
MainPipe == /\ Goto(Main, {"greet"}, "handler")
            /\ UNCHANGED <<parent, sigint, target, leaked, interrupted>>

MainEof == /\ Goto(Main, {"greet", "read"}, "wait")
           /\ UNCHANGED <<parent, sigint, target, leaked, interrupted>>

MainExits == pc[Main] = "wait" /\ WaitReturns(Main) /\ Exit(Main)

-----------------------------------------------------------------------------
(* childServer()                                                           *)
Setup == /\ Goto(Server, {"setup"}, "accept")
         /\ UNCHANGED <<parent, sigint, target, leaked, interrupted>>

SetupFails == pc[Server] = "setup" /\ Exit(Server)

Accept == /\ Goto(Server, {"accept"}, "fork")
          /\ leaked < FdLimit /\ \E c \in Conns : pc[c] = "unborn"
          /\ UNCHANGED <<parent, sigint, target, leaked, interrupted>>

(* An error that is not retried, no descriptor being left among them.      *)
AcceptFails == pc[Server] = "accept" /\ Exit(Server)

ForkConn == /\ pc[Server] = "fork" /\ ~TableFull
            /\ \E c \in Conns : /\ pc[c] = "unborn"
                                /\ Fork(Server, c, "serve", "accept")
            /\ UNCHANGED leaked

(* For a full table or any other reason: a message and back to accept(),   *)
(* the connection left open.                                               *)
ForkFails == /\ Goto(Server, {"fork"}, "accept")
             /\ leaked' = leaked + 1
             /\ UNCHANGED <<parent, sigint, target, interrupted>>

-----------------------------------------------------------------------------
(* A connection process.                                                   *)

(* newConnection() returns and the process exits; or SIGPIPE ends it.      *)
Finish(c) == pc[c] \in {"serve", "told"} /\ Exit(c)

(* Mutant: the parent of the server is meant.                              *)
GetppidTwice(c) == /\ Goto(c, {"serve"}, "kill")
                   /\ target' = [target EXCEPT ![c] = parent[Server]]
                   /\ UNCHANGED <<parent, sigint, leaked, interrupted>>

(* kill(getppid(), SIGTERM), on A and on goodbye: first getppid().         *)
Getppid(c) == /\ Goto(c, {"serve"}, "kill")
              /\ target' = [target EXCEPT ![c] = parent[c]]
              /\ UNCHANGED <<parent, sigint, leaked, interrupted>>

(* Mutant: the signal goes nowhere.                                        *)
KillNobody(c) == /\ pc[c] = "kill"
                 /\ pc' = [pc EXCEPT ![c] = "told"]
                 /\ UNCHANGED <<parent, sigint, target, leaked, interrupted>>

(* Then kill(): it ends a living server, and does nothing to a dead one    *)
(* and to init.  main never sets act.sa_mask: whether the handler blocks   *)
(* SIGTERM is open, so a server in its handler may stay there.             *)
Kill(c) == /\ pc[c] = "kill"
           /\ \/ target[c] \in Alive /\ Die(target[c], c, "told")
              \/ /\ target[c] \notin {p \in Alive : pc[p] # "handler"}
                 /\ pc' = [pc EXCEPT ![c] = "told"]
                 /\ UNCHANGED <<parent, sigint>>
           /\ UNCHANGED <<target, leaked, interrupted>>

-----------------------------------------------------------------------------
(* SIGINT, from the terminal to every process or from kill(1) to main.     *)
Interrupt(whom) == /\ interrupted = "no" /\ interrupted' = whom
                   /\ sigint' = IF whom = "group" THEN Alive ELSE {Main} \cap Alive
                   /\ UNCHANGED <<pc, parent, target, leaked>>

TakeSignal(p) == /\ p \in sigint /\ pc[p] # "handler"
                 /\ Goto(p, {pc[p]}, "handler")
                 /\ sigint' = sigint \ {p}
                 /\ UNCHANGED <<parent, target, leaked, interrupted>>

(* Mutant: the handler waits for nobody.                                   *)
HandlerExitsAtOnce(p) == pc[p] = "handler" /\ Exit(p)

(* Mutant: the handler waits until no child is left, dead or alive.        *)
HandlerNeverReaps(p) == pc[p] = "handler" /\ Children(p) = {} /\ Exit(p)

(* handle_signals(): a message, wait(0) once, exit.                        *)
HandlerExits(p) == pc[p] = "handler" /\ WaitReturns(p) /\ Exit(p)

-----------------------------------------------------------------------------
MainStep == \/ MainForks \/ MainEof \/ MainExits
            \/ TakeSignal(Main) \/ HandlerExits(Main)
ServerStep == \/ Setup \/ ForkConn \/ ForkFails
              \/ TakeSignal(Server) \/ HandlerExits(Server)
ConnStep(c) == \/ Finish(c) \/ Kill(c)
               \/ TakeSignal(c) \/ HandlerExits(c)

Next == \/ MainStep \/ MainPipe \/ MainDies
        \/ ServerStep \/ SetupFails \/ Accept \/ AcceptFails
        \/ \E c \in Conns : ConnStep(c) \/ Getppid(c)
        \/ \E whom \in Interrupts : Interrupt(whom)

Spec == Init /\ [][Next]_vars

(* The kernel runs every process and delivers every signal; UNIX_TL closes *)
(* every connection it has (module Connection: Ends).  Nobody owes a new   *)
(* connection, an error, an order to stop or an interrupt.                 *)
FairSpec == /\ Spec
            /\ WF_vars(MainStep) /\ WF_vars(ServerStep)
            /\ \A c \in Conns : WF_vars(ConnStep(c))

-----------------------------------------------------------------------------
TypeOK ==
  /\ pc \in [Procs -> {"unborn", "greet", "read", "wait", "setup", "accept", "fork",
                       "serve", "kill", "told", "handler", "zombie", "reaped"}]
  /\ parent \in [Procs -> {InitProc, Main, Server}]
  /\ sigint \subseteq Alive
  /\ target \in [Conns -> {InitProc, Server}]
  /\ leaked \in 0 .. FdLimit
  /\ interrupted \in {"no"} \cup Interrupts

(* Whichever of its exits main takes, it does not leave a server behind.   *)
NoServerLeftBehind == Main \notin Alive => Server \notin Alive

(* An order to stop does not miss a living server, however long ago        *)
(* getppid() was asked.                                                    *)
StopReachesServer ==
  \A c \in Conns : pc[c] = "kill" /\ Server \in Alive => target[c] = Server

(* An order to stop ends the server and then main.                         *)
StopEndsMain == (\E c \in Conns : pc[c] = "kill" /\ target[c] = Server)
                  ~> Main \notin Alive

(* A SIGINT from the terminal ends every process.                          *)
InterruptEndsAll == interrupted = "group" ~> Alive = {}

(* "Signal handler just for closing all child processes in case of SIGINT  *)
(* or SIGPIPE" (line 30): once main has taken the signal its children end. *)
HandlerClosesChildren == pc[Main] = "handler" ~> Children(Main) \cap Alive = {}
=============================================================================
