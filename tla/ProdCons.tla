------------------------------ MODULE ProdCons ------------------------------
(***************************************************************************)
(* week6/unpv22e/mutex/prodcons6.c: the book's producer/consumer program   *)
(* as rewritten for several consumers.  main creates NThreads producers    *)
(* and NThreads consumers and joins them in the order it created them.     *)
(* The producers fill buff[] under put.mutex and announce each item under  *)
(* nready.mutex; the consumers wait on nready.cond for an announcement.    *)
(*                                                                         *)
(* A step is what a thread does between two points where another thread    *)
(* can see the difference: taking a mutex, each access to data another     *)
(* thread reads or writes, and releasing a mutex together with the last    *)
(* access it protects.                                                     *)
(***************************************************************************)
EXTENDS Integers, FiniteSets

CONSTANTS NThreads,     \* nthreads: so many producers, and so many consumers
          NItems,       \* nitems
          MaxSpurious   \* bound: spurious wakeups pthread_cond_wait may make

ASSUME NThreadsAssumption == NThreads \in Nat
ASSUME NItemsAssumption == NItems \in Nat
ASSUME MaxSpuriousAssumption == MaxSpurious \in Nat

Slots == 0 .. NThreads - 1                   \* indices of count[], tid_*[]
Producers == Slots
Consumers == NThreads .. 2 * NThreads - 1
Threads == 0 .. 2 * NThreads - 1
Consumer(i) == NThreads + i                  \* the thread tid_consume[i]

(* The slot of count[] a thread was handed: main passes &count[i] to       *)
(* producer i and to consumer i alike.                                     *)
Slot(t) == IF t < NThreads THEN t ELSE t - NThreads

Free == -1                                   \* the holder of a free mutex

VARIABLES
  mainPc, mainI,      \* where main is, and its loop index i
  pc,                 \* where each thread is
  putMutex, readyMutex,      \* put.mutex, nready.mutex: the holder, or Free
  nput, nval, nget,   \* put.nput, put.nval, put.nget
  nready,             \* nready.nready
  buff,               \* buff[]
  idx,                \* each consumer's local i
  count,              \* main's count[]
  reg,                \* the value a thread has loaded from count[]
  spurious            \* spurious wakeups so far

mainVars == <<mainPc, mainI>>
putVars == <<putMutex, nput, nval, buff>>
readyVars == <<readyMutex, nready, nget>>
countVars == <<count, reg>>
vars == <<mainVars, pc, putVars, readyVars, idx, countVars, spurious>>

-----------------------------------------------------------------------------
Init == /\ mainPc = "createProducer" /\ mainI = 0
        /\ pc = [t \in Threads |-> "unborn"]
        /\ putMutex = Free /\ readyMutex = Free
        /\ nput = 0 /\ nval = 0 /\ nget = 0 /\ nready = 0
        /\ buff = [k \in 0 .. NItems - 1 |-> 0]
        /\ idx = [c \in Consumers |-> 0]
        /\ count = [i \in Slots |-> 0]
        /\ reg = [t \in Threads |-> 0]
        /\ spurious = 0

Goto(t, from, to) == pc[t] = from /\ pc' = [pc EXCEPT ![t] = to]

Waiting == {c \in Consumers : pc[c] = "wait"}

(* pthread_cond_signal(&nready.cond) by thread t, which goes on at "to":   *)
(* one waiter, if there is any, leaves the wait and must relock the mutex. *)
SignalAndGoto(t, from, to) ==
  \/ Waiting = {} /\ Goto(t, from, to)
  \/ /\ pc[t] = from
     /\ \E w \in Waiting : pc' = [pc EXCEPT ![t] = to, ![w] = "relock"]

-----------------------------------------------------------------------------
(* main: the creation loop, then the loop that joins producer i and        *)
(* consumer i in turn, then exit(0).                                       *)

CreateProducer == /\ mainPc = "createProducer" /\ mainI < NThreads
                  /\ count' = [count EXCEPT ![mainI] = 0]
                  /\ Goto(mainI, "unborn", "lockPut")
                  /\ mainPc' = "createConsumer"
                  /\ UNCHANGED <<mainI, putVars, readyVars, idx, reg, spurious>>

CreateConsumer == /\ mainPc = "createConsumer"
                  /\ Goto(Consumer(mainI), "unborn", "loop")
                  /\ mainPc' = "createProducer" /\ mainI' = mainI + 1
                  /\ UNCHANGED <<putVars, readyVars, idx, countVars, spurious>>

AllCreated == /\ mainPc = "createProducer" /\ mainI = NThreads
              /\ mainPc' = "joinProducer" /\ mainI' = 0
              /\ UNCHANGED <<pc, putVars, readyVars, idx, countVars, spurious>>

JoinProducer == /\ mainPc = "joinProducer" /\ mainI < NThreads
                /\ pc[mainI] = "done"
                /\ mainPc' = "joinConsumer"
                /\ UNCHANGED <<mainI, pc, putVars, readyVars, idx, countVars,
                               spurious>>

JoinConsumer == /\ mainPc = "joinConsumer"
                /\ pc[Consumer(mainI)] = "done"
                /\ mainPc' = "joinProducer" /\ mainI' = mainI + 1
                /\ UNCHANGED <<pc, putVars, readyVars, idx, countVars, spurious>>

Exit == /\ mainPc = "joinProducer" /\ mainI = NThreads
        /\ mainPc' = "exited"
        /\ UNCHANGED <<mainI, pc, putVars, readyVars, idx, countVars, spurious>>

MainStep == \/ CreateProducer \/ CreateConsumer \/ AllCreated
            \/ JoinProducer \/ JoinConsumer \/ Exit

-----------------------------------------------------------------------------
(* produce()                                                               *)

(* Mutant: the store is not protected by put.mutex.                        *)
LockPutUnlocked(p) == /\ Goto(p, "lockPut", "store")
                      /\ putMutex' = p
                      /\ UNCHANGED <<mainVars, nput, nval, buff, readyVars, idx,
                                     countVars, spurious>>

LockPut(p) == /\ Goto(p, "lockPut", "store")
              /\ putMutex = Free /\ putMutex' = p
              /\ UNCHANGED <<mainVars, nput, nval, buff, readyVars, idx,
                             countVars, spurious>>

(* The array is full: unlock and return.                                   *)
Full(p) == /\ Goto(p, "store", "done")
           /\ nput >= NItems
           /\ putMutex' = Free
           /\ UNCHANGED <<mainVars, nput, nval, buff, readyVars, idx,
                          countVars, spurious>>

Store(p) == /\ Goto(p, "store", "bump")
            /\ nput < NItems
            /\ buff' = [buff EXCEPT ![nput] = nval]
            /\ UNCHANGED <<mainVars, putMutex, nput, nval, readyVars, idx,
                           countVars, spurious>>

Bump(p) == /\ Goto(p, "bump", "lockReady")
           /\ nput' = nput + 1 /\ nval' = nval + 1
           /\ putMutex' = Free
           /\ UNCHANGED <<mainVars, buff, readyVars, idx, countVars, spurious>>

(* Both kinds of thread lock nready.mutex.                                 *)
LockReady(t, from, to) ==
  /\ Goto(t, from, to)
  /\ readyMutex = Free /\ readyMutex' = t
  /\ UNCHANGED <<mainVars, putVars, nready, nget, idx, countVars, spurious>>

(* Mutant: the test of nready made after the increment, so never true.     *)
AnnounceTestedLate(p) ==
  /\ Goto(p, "announce", "loadCount")
  /\ nready' = nready + 1
  /\ readyMutex' = Free
  /\ UNCHANGED <<mainVars, putVars, nget, idx, countVars, spurious>>

(* Signal only if nready is zero, count the item, unlock.                  *)
Announce(p) ==
  /\ IF nready = 0 THEN SignalAndGoto(p, "announce", "loadCount")
                   ELSE Goto(p, "announce", "loadCount")
  /\ nready' = nready + 1
  /\ readyMutex' = Free
  /\ UNCHANGED <<mainVars, putVars, nget, idx, countVars, spurious>>

(* One item more or one item less on an int main owns and two threads      *)
(* share with no lock: a load and a store.                                 *)
LoadCount(t) == /\ Goto(t, "loadCount", "storeCount")
                /\ reg' = [reg EXCEPT ![t] = count[Slot(t)]]
                /\ UNCHANGED <<mainVars, putVars, readyVars, idx, count, spurious>>

(* Mutant: the consumer counts up like the producer.                       *)
StoreCountUp(t, delta, to) ==
  /\ Goto(t, "storeCount", to)
  /\ count' = [count EXCEPT ![Slot(t)] = reg[t] + 1]
  /\ UNCHANGED <<mainVars, putVars, readyVars, idx, reg, spurious>>

StoreCount(t, delta, to) ==
  /\ Goto(t, "storeCount", to)
  /\ count' = [count EXCEPT ![Slot(t)] = reg[t] + delta]
  /\ UNCHANGED <<mainVars, putVars, readyVars, idx, reg, spurious>>

ProducerStep(p) == \/ LockPut(p) \/ Full(p) \/ Store(p) \/ Bump(p)
                   \/ LockReady(p, "lockReady", "announce") \/ Announce(p)
                   \/ LoadCount(p) \/ StoreCount(p, 1, "lockPut")

-----------------------------------------------------------------------------
(* consume()                                                               *)

(* The for-loop's test; leaving the loop leads to the decrement.           *)
LoopTest(c) == /\ Goto(c, "loop", IF idx[c] < NItems THEN "lockReady"
                                                     ELSE "loadCount")
               /\ UNCHANGED <<mainVars, putVars, readyVars, idx, countVars,
                              spurious>>

MustWait == nready = 0 /\ nget < NItems

(* pthread_cond_wait: unlock and block, as one step.                       *)
CondWait(c) == /\ MustWait
               /\ Goto(c, "test", "wait")
               /\ readyMutex' = Free
               /\ UNCHANGED <<mainVars, putVars, nready, nget, idx, countVars,
                              spurious>>

(* pthread_cond_wait may return with no signal.                            *)
SpuriousWakeup(c) == /\ spurious < MaxSpurious
                     /\ Goto(c, "wait", "relock")
                     /\ spurious' = spurious + 1
                     /\ UNCHANGED <<mainVars, putVars, readyVars, idx, countVars>>

(* Mutant: a consumer that gives up wakes nobody.                          *)
GiveUpSilently(c) == /\ nget >= NItems
                     /\ Goto(c, "test", "done")
                     /\ readyMutex' = Free
                     /\ UNCHANGED <<mainVars, putVars, nready, nget, idx,
                                    countVars, spurious>>

(* Every item is taken: pass the signal on, unlock, return.                *)
GiveUp(c) == /\ nget >= NItems
             /\ SignalAndGoto(c, "test", "done")
             /\ readyMutex' = Free
             /\ UNCHANGED <<mainVars, putVars, nready, nget, idx, countVars,
                            spurious>>

(* Mutant: nready is not decremented.                                      *)
TakeUncounted(c) == /\ ~MustWait /\ nget < NItems
                    /\ Goto(c, "test", "check")
                    /\ nget' = nget + 1
                    /\ readyMutex' = Free
                    /\ UNCHANGED <<mainVars, putVars, nready, idx, countVars,
                                   spurious>>

(* nready--, j = put.nget++, unlock.  j is never used again.               *)
Take(c) == /\ ~MustWait /\ nget < NItems
           /\ Goto(c, "test", "check")
           /\ nready' = nready - 1 /\ nget' = nget + 1
           /\ readyMutex' = Free
           /\ UNCHANGED <<mainVars, putVars, idx, countVars, spurious>>

(* The read of buff[i], no lock held, i being the loop index and not the   *)
(* index j the thread was given; then i++.                                 *)
Check(c) == /\ Goto(c, "check", "loop")
            /\ idx' = [idx EXCEPT ![c] = @ + 1]
            /\ UNCHANGED <<mainVars, putVars, readyVars, countVars, spurious>>

ConsumerStep(c) == \/ LoopTest(c)
                   \/ LockReady(c, "lockReady", "test")
                   \/ LockReady(c, "relock", "test")
                   \/ CondWait(c) \/ GiveUp(c) \/ Take(c) \/ Check(c)
                   \/ LoadCount(c) \/ StoreCount(c, -1, "done")

-----------------------------------------------------------------------------
Terminated == mainPc = "exited" /\ UNCHANGED vars

Next == \/ MainStep
        \/ \E p \in Producers : ProducerStep(p)
        \/ \E c \in Consumers : ConsumerStep(c) \/ SpuriousWakeup(c)
        \/ Terminated

Spec == Init /\ [][Next]_vars

(* The kernel runs every thread that can run; it owes nobody a spurious    *)
(* wakeup.                                                                 *)
FairSpec == /\ Spec
            /\ WF_vars(MainStep)
            /\ \A p \in Producers : WF_vars(ProducerStep(p))
            /\ \A c \in Consumers : WF_vars(ConsumerStep(c))

-----------------------------------------------------------------------------
ProducerPcs == {"unborn", "lockPut", "store", "bump", "lockReady", "announce",
                "loadCount", "storeCount", "done"}
ConsumerPcs == {"unborn", "loop", "lockReady", "test", "wait", "relock", "check",
                "loadCount", "storeCount", "done"}

(* The shape of the state: nready, in particular, never goes below zero,   *)
(* which is what the consumers' test before nready-- is for.               *)
TypeOK ==
  /\ mainPc \in {"createProducer", "createConsumer", "joinProducer",
                 "joinConsumer", "exited"}
  /\ mainI \in 0 .. NThreads
  /\ pc \in [Threads -> ProducerPcs \cup ConsumerPcs]
  /\ putMutex \in Producers \cup {Free}
  /\ readyMutex \in Threads \cup {Free}
  /\ nput \in 0 .. NItems /\ nval \in 0 .. NItems /\ nget \in 0 .. NItems
  /\ nready \in 0 .. NItems
  /\ buff \in [0 .. NItems - 1 -> Nat]
  /\ idx \in [Consumers -> 0 .. NItems]
  /\ count \in [Slots -> Int]
  /\ reg \in [Threads -> Int]
  /\ spurious \in 0 .. MaxSpurious

(* The message "buff[%d] = %d" is never printed: whenever a consumer reads *)
(* buff[i], which it does with no lock and with its own loop index instead *)
(* of the index it was given, item i has been stored there.                *)
ItemInPlace == \A c \in Consumers : pc[c] = "check" => buff[idx[c]] = idx[c]

(* Producers that have stored an item they have not announced yet.         *)
Unannounced == {p \in Producers : pc[p] \in {"lockReady", "announce"}}

(* No item is lost between the two mutexes, and none is counted twice:     *)
(* every item stored under put.mutex has been taken, is counted in nready, *)
(* or is in the hands of a producer about to announce it.                  *)
Accounting == nput = nget + nready + Cardinality(Unannounced)

(* A consumer returns only when there is nothing left for any consumer,    *)
(* through either of its two exits.                                        *)
DoneMeansDrained ==
  (\E c \in Consumers : pc[c] = "done") => nget = NItems /\ nready = 0

(* When the last item has been taken nobody signals for a new one, so a    *)
(* blocked consumer depends on another that is still to reach GiveUp; the  *)
(* only way for it to have none is that some consumer left the loop by its *)
(* counter, having gone round NItems times.                                *)
WaitersHaveRescuer ==
  nget = NItems => \/ Waiting = {}
                   \/ \E c \in Consumers : pc[c] \notin {"wait", "done"}
                   \/ \E c \in Consumers : idx[c] = NItems

(* The counters main prints never overstate the work done: however the     *)
(* unlocked += 1 of a producer and -= 1 of a consumer on the same int      *)
(* interleave, the items the counters claim together, those below zero not *)
(* making up for others, are at most as many as have been announced.       *)
Claimed == UNION {{i} \X (1 .. count[i]) : i \in Slots}
CountsNeverOverstate == Cardinality(Claimed) <= nget + nready

(* The threads hand the items over as ItemHandoff says.                    *)
H == INSTANCE ItemHandoff WITH stored <- nput, taken <- nget
Handoff == H!Spec

(* A signal only when nready is zero is enough: every item is stored, and  *)
(* every stored item is taken, as ItemHandoff's fairness demands.          *)
FairHandoff == H!FairSpec

(* "wait for all producers and the consumer" (line 49): main joins every   *)
(* thread and exits.                                                       *)
MainReturns == <>(mainPc = "exited")

(* What holds of it with several consumers: main exits, unless a single    *)
(* consumer has gone round its loop for every item.                        *)
MainReturnsUnlessOneTookAll ==
  <>(mainPc = "exited" \/ \E c \in Consumers : idx[c] = NItems)
=============================================================================
