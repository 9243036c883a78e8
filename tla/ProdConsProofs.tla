--------------------------- MODULE ProdConsProofs ---------------------------
(***************************************************************************)
(* Proofs about ProdCons for every number of threads and of items.         *)
(*                                                                         *)
(* The inductive invariant IInv adds to TypeOK and Accounting what the two *)
(* mutexes and the loops' own tests guarantee: who is where while holding  *)
(* put.mutex, what buff[] already holds, and how far each consumer's loop  *)
(* index can be.                                                           *)
(* CountInv is about the counters no mutex protects.  At the end: nobody   *)
(* goes on for ever, and where all can stand still.                        *)
(***************************************************************************)
EXTENDS ProdCons, CommonProofs

(* Each kind of thread is somewhere in its own function, and main is       *)
(* inside a loop body only for an index the loop's test has let through.   *)
PlaceInv ==
  /\ \A p \in Producers : pc[p] \in ProducerPcs
  /\ \A c \in Consumers : pc[c] \in ConsumerPcs
  /\ mainPc \in {"createConsumer", "joinConsumer"} => mainI < NThreads

(* put.mutex protects nput, nval and the slot being filled.                *)
PutInv ==
  /\ \A p \in Producers : pc[p] \in {"store", "bump"} => putMutex = p
  /\ nval = nput
  /\ \A k \in 0 .. nput - 1 : buff[k] = k
  /\ \A p \in Producers :
       pc[p] = "bump" => nput < NItems /\ buff[nput] = nput

(* A consumer's loop index never runs ahead of the items taken by all.     *)
TakeInv ==
  \A c \in Consumers :
    /\ idx[c] <= nget
    /\ pc[c] = "check" => idx[c] < nget
    /\ pc[c] \in {"loadCount", "storeCount"} => idx[c] = NItems
    /\ pc[c] = "done" => nget = NItems

IInv == TypeOK /\ PlaceInv /\ PutInv /\ TakeInv /\ Accounting

-----------------------------------------------------------------------------
(* Facts about the thread numbers that every step uses.                    *)
LEMMA ThreadFacts ==
  /\ NThreads \in Nat /\ NItems \in Nat /\ MaxSpurious \in Nat
  /\ Producers \subseteq Threads /\ Consumers \subseteq Threads
  /\ Producers \subseteq Nat /\ Consumers \subseteq Nat
  /\ \A p \in Producers, c \in Consumers : p # c
  /\ \A t \in Threads : t \in Producers \/ t \in Consumers
  /\ \A t \in Threads : Slot(t) \in Slots
  /\ \A i \in Slots : i \in Producers /\ Consumer(i) \in Consumers
  /\ Producers \cap Consumers = {}
BY NThreadsAssumption, NItemsAssumption, MaxSpuriousAssumption
   DEF Producers, Consumers, Threads, Slots, Slot, Consumer

(* Unannounced is a finite set of thread numbers, so its cardinality moves *)
(* by one when one producer enters or leaves it.                           *)
LEMMA UnannouncedFinite == IsFiniteSet(Unannounced)
<1>1. IsFiniteSet(Producers)
  BY FS_Interval, NThreadsAssumption DEF Producers, Slots
<1>2. Unannounced \subseteq Producers
  BY DEF Unannounced
<1> QED BY <1>1, <1>2, FS_Subset

LEMMA InitIInv == Init => IInv
<1> SUFFICES ASSUME Init PROVE IInv
  OBVIOUS
<1> USE ThreadFacts
<1>1. TypeOK
  BY DEF Init, TypeOK, ProducerPcs, ConsumerPcs, Free
<1>2. PlaceInv
  BY DEF Init, PlaceInv, ProducerPcs, ConsumerPcs
<1>3. PutInv
  BY DEF Init, PutInv
<1>4. TakeInv
  BY DEF Init, TakeInv
<1>5. Accounting
  <2>1. Unannounced = {}
    BY DEF Init, Unannounced
  <2> QED BY <2>1, FS_EmptySet DEF Init, Accounting
<1> QED BY <1>1, <1>2, <1>3, <1>4, <1>5 DEF IInv

(* What Accounting says of the numbers, without the cardinality.           *)
LEMMA Headroom ==
  ASSUME IInv
  PROVE  /\ nget + nready <= nput
         /\ (\E p \in Producers : pc[p] = "announce") => nget + nready < nput
<1>1. Cardinality(Unannounced) \in Nat
  BY UnannouncedFinite, FS_CardinalityType
<1>2. ASSUME NEW p \in Producers, pc[p] = "announce"
      PROVE  Cardinality(Unannounced) # 0
  BY <1>2, UnannouncedFinite, FS_EmptySet DEF Unannounced
<1> QED BY <1>1, <1>2 DEF IInv, TypeOK, Accounting

-----------------------------------------------------------------------------
(* What each of the three kinds of thread leaves alone.                    *)

LEMMA MainFrame ==
  ASSUME IInv, MainStep
  PROVE  /\ UNCHANGED <<putVars, readyVars, idx, reg, spurious>>
         /\ \A p \in Producers : pc'[p] = pc[p] \/ (pc[p] = "unborn" /\ pc'[p] = "lockPut")
         /\ \A c \in Consumers : pc'[c] = pc[c] \/ (pc[c] = "unborn" /\ pc'[c] = "loop")
         /\ pc' \in [Threads -> ProducerPcs \cup ConsumerPcs]
<1> USE ThreadFacts DEF IInv, TypeOK, PlaceInv, putVars, readyVars, countVars, Goto,
                        ProducerPcs, ConsumerPcs
<1>1. CASE CreateProducer
  <2>1. mainI \in Producers
    BY <1>1 DEF CreateProducer, Producers, Slots
  <2> QED BY <1>1, <2>1 DEF CreateProducer
<1>2. CASE CreateConsumer
  <2>1. Consumer(mainI) \in Consumers
    BY <1>2 DEF CreateConsumer, Consumer, Consumers
  <2> QED BY <1>2, <2>1 DEF CreateConsumer
<1>3. CASE AllCreated
  BY <1>3 DEF AllCreated
<1>4. CASE JoinProducer
  BY <1>4 DEF JoinProducer
<1>5. CASE JoinConsumer
  BY <1>5 DEF JoinConsumer
<1>6. CASE Exit
  BY <1>6 DEF Exit
<1> QED BY <1>1, <1>2, <1>3, <1>4, <1>5, <1>6 DEF MainStep

LEMMA ConsumerFrame ==
  ASSUME IInv, NEW c \in Consumers, ConsumerStep(c) \/ SpuriousWakeup(c)
  PROVE  /\ UNCHANGED <<putVars, mainVars>>
         /\ \A p \in Producers : pc'[p] = pc[p]
         /\ pc' \in [Threads -> ProducerPcs \cup ConsumerPcs]
         /\ \A d \in Consumers \ {c} :
              pc'[d] = pc[d] \/ (pc[d] = "wait" /\ pc'[d] = "relock")
<1> USE ThreadFacts DEF IInv, TypeOK, putVars, readyVars, countVars, mainVars, Goto,
                        ProducerPcs, ConsumerPcs, Waiting
<1>1. CASE LoopTest(c)
  BY <1>1 DEF LoopTest
<1>2. CASE LockReady(c, "lockReady", "test")
  BY <1>2 DEF LockReady
<1>3. CASE LockReady(c, "relock", "test")
  BY <1>3 DEF LockReady
<1>4. CASE CondWait(c)
  BY <1>4 DEF CondWait
<1>5. CASE GiveUp(c)
  BY <1>5 DEF GiveUp, SignalAndGoto
<1>6. CASE Take(c)
  BY <1>6 DEF Take
<1>7. CASE Check(c)
  BY <1>7 DEF Check
<1>8. CASE LoadCount(c)
  BY <1>8 DEF LoadCount
<1>9. CASE StoreCount(c, -1, "done")
  BY <1>9 DEF StoreCount
<1>10. CASE SpuriousWakeup(c)
  BY <1>10 DEF SpuriousWakeup
<1> QED BY <1>1, <1>2, <1>3, <1>4, <1>5, <1>6, <1>7, <1>8, <1>9, <1>10 DEF ConsumerStep

LEMMA ProducerFrame ==
  ASSUME IInv, NEW p \in Producers, ProducerStep(p)
  PROVE  /\ UNCHANGED <<mainVars, nget, idx, spurious>>
         /\ \A q \in Producers \ {p} : pc'[q] = pc[q]
         /\ pc' \in [Threads -> ProducerPcs \cup ConsumerPcs]
         /\ \A c \in Consumers :
              pc'[c] = pc[c] \/ (pc[c] = "wait" /\ pc'[c] = "relock")
<1> USE ThreadFacts DEF IInv, TypeOK, putVars, readyVars, countVars, mainVars, Goto,
                        ProducerPcs, ConsumerPcs, Waiting
<1>1. CASE LockPut(p)
  BY <1>1 DEF LockPut
<1>2. CASE Full(p)
  BY <1>2 DEF Full
<1>3. CASE Store(p)
  BY <1>3 DEF Store
<1>4. CASE Bump(p)
  BY <1>4 DEF Bump
<1>5. CASE LockReady(p, "lockReady", "announce")
  BY <1>5 DEF LockReady
<1>6. CASE Announce(p)
  BY <1>6 DEF Announce, SignalAndGoto
<1>7. CASE LoadCount(p)
  BY <1>7 DEF LoadCount
<1>8. CASE StoreCount(p, 1, "lockPut")
  BY <1>8 DEF StoreCount
<1> QED BY <1>1, <1>2, <1>3, <1>4, <1>5, <1>6, <1>7, <1>8 DEF ProducerStep

-----------------------------------------------------------------------------
(* Each conjunct of IInv is preserved.                                     *)

(* The counters stay integers through a load and a store of either thread. *)
LEMMA CountTypes ==
  ASSUME TypeOK, NEW t \in Threads, NEW to, NEW delta \in Int,
         LoadCount(t) \/ StoreCount(t, delta, to)
  PROVE  count' \in [Slots -> Int] /\ reg' \in [Threads -> Int]
<1>1. Slot(t) \in Slots
  BY NThreadsAssumption DEF Threads, Slots, Slot
<1>2. CASE LoadCount(t)
  BY <1>1, <1>2 DEF LoadCount, TypeOK
<1>3. CASE StoreCount(t, delta, to)
  <2>1. reg[t] + delta \in Int
    BY DEF TypeOK
  <2> QED BY <1>1, <1>3, <2>1 DEF StoreCount, TypeOK
<1> QED BY <1>2, <1>3

LEMMA TypeStep == IInv /\ [Next]_vars => TypeOK' /\ PlaceInv'
<1> SUFFICES ASSUME IInv, [Next]_vars PROVE TypeOK' /\ PlaceInv'
  OBVIOUS
<1> USE ThreadFacts
<1>1. CASE MainStep
  <2>1. PlaceInv'
    BY <1>1, MainFrame DEF IInv, PlaceInv, TypeOK, ProducerPcs, ConsumerPcs, MainStep,
       CreateProducer, CreateConsumer, AllCreated, JoinProducer, JoinConsumer, Exit
  <2>2. /\ mainPc' \in {"createProducer", "createConsumer", "joinProducer",
                        "joinConsumer", "exited"}
        /\ mainI' \in 0 .. NThreads
    BY <1>1 DEF IInv, PlaceInv, TypeOK, MainStep,
       CreateProducer, CreateConsumer, AllCreated, JoinProducer, JoinConsumer, Exit
  <2>3. count' \in [Slots -> Int]
    <3>1. CASE CreateProducer
      <4>1. count \in [Slots -> Int] /\ mainI \in Slots
        BY <3>1 DEF IInv, TypeOK, CreateProducer, Slots
      <4>2. count' = [count EXCEPT ![mainI] = 0]
        BY <3>1 DEF CreateProducer
      <4> QED BY <4>1, <4>2
    <3>2. CASE ~CreateProducer
      BY <1>1, <3>2 DEF MainStep, CreateConsumer, AllCreated, JoinProducer, JoinConsumer,
         Exit, countVars, IInv, TypeOK
    <3> QED BY <3>1, <3>2
  <2> QED BY <1>1, <2>1, <2>2, <2>3, MainFrame DEF IInv, TypeOK, putVars, readyVars
<1>2. ASSUME NEW p \in Producers, ProducerStep(p)
      PROVE  TypeOK' /\ PlaceInv'
  <2> USE <1>2 DEF IInv, TypeOK, putVars, readyVars, countVars, mainVars
  <2>1. PlaceInv'
    <3>1. pc'[p] \in ProducerPcs
      BY DEF ProducerStep, LockPut, Full, Store, Bump, LockReady, Announce, LoadCount,
         StoreCount, Goto, SignalAndGoto, ProducerPcs, Waiting
    <3>2. \A q \in Producers : pc'[q] \in ProducerPcs
      BY <3>1, ProducerFrame DEF PlaceInv
    <3>3. \A c \in Consumers : pc'[c] \in ConsumerPcs
      BY ProducerFrame DEF PlaceInv, ConsumerPcs
    <3>4. (mainPc \in {"createConsumer", "joinConsumer"} => mainI < NThreads)'
      BY ProducerFrame DEF PlaceInv
    <3> QED BY ONLY <3>2, <3>3, <3>4 DEF PlaceInv
  <2>2. /\ putMutex' \in Producers \cup {Free}
        /\ readyMutex' \in Threads \cup {Free}
    BY DEF ProducerStep, LockPut, Full, Store, Bump, LockReady, Announce, LoadCount,
       StoreCount
  <2>3. nput' \in 0 .. NItems /\ nval' \in 0 .. NItems
    <3>1. CASE Bump(p)
      <4>1. nput < NItems /\ nval = nput
        BY <3>1 DEF Bump, Goto, PutInv
      <4> QED BY <3>1, <4>1 DEF Bump
    <3>2. CASE ~Bump(p)
      <4>1. UNCHANGED <<nput, nval>>
        BY <3>2 DEF ProducerStep, LockPut, Full, Store, LockReady, Announce, LoadCount,
           StoreCount
      <4> QED BY <4>1
    <3> QED BY <3>1, <3>2
  <2>4. nready' \in 0 .. NItems
    <3>1. CASE Announce(p)
      <4>1. pc[p] = "announce" /\ nready' = nready + 1
        BY <3>1 DEF Announce, Goto, SignalAndGoto
      <4> QED BY <4>1, Headroom
    <3>2. CASE ~Announce(p)
      BY <3>2 DEF ProducerStep, LockPut, Full, Store, Bump, LockReady, LoadCount, StoreCount
    <3> QED BY <3>1, <3>2
  <2>5. buff' \in [0 .. NItems - 1 -> Nat]
    <3>1. CASE Store(p)
      BY <3>1 DEF Store
    <3>2. CASE ~Store(p)
      BY <3>2 DEF ProducerStep, LockPut, Full, Bump, LockReady, Announce, LoadCount,
         StoreCount
    <3> QED BY <3>1, <3>2
  <2>6. count' \in [Slots -> Int] /\ reg' \in [Threads -> Int]
    <3>1. CASE LoadCount(p) \/ StoreCount(p, 1, "lockPut")
      <4> HIDE DEF TypeOK
      <4>1. p \in Threads
        BY NThreadsAssumption DEF Producers, Threads, Slots
      <4>2. TypeOK
        BY DEF IInv
      <4>3. 1 \in Int
        OBVIOUS
      <4> QED BY ONLY <3>1, <4>1, <4>2, <4>3, CountTypes
    <3>2. CASE ~(LoadCount(p) \/ StoreCount(p, 1, "lockPut"))
      <4>1. UNCHANGED countVars
        BY <3>2 DEF ProducerStep, LockPut, Full, Store, Bump, LockReady, Announce
      <4> QED BY <4>1
    <3> QED BY <3>1, <3>2
  <2> QED BY <2>1, <2>2, <2>3, <2>4, <2>5, <2>6, ProducerFrame
<1>3. ASSUME NEW c \in Consumers, ConsumerStep(c) \/ SpuriousWakeup(c)
      PROVE  TypeOK' /\ PlaceInv'
  <2> USE <1>3 DEF IInv, TypeOK, putVars, readyVars, countVars, mainVars
  <2>1. PlaceInv'
    <3>1. pc'[c] \in ConsumerPcs
      BY DEF ConsumerStep, LoopTest, LockReady, CondWait, GiveUp, Take, Check, LoadCount,
         StoreCount, SpuriousWakeup, Goto, SignalAndGoto, ConsumerPcs, Waiting
    <3> QED BY <3>1, ConsumerFrame DEF PlaceInv, ConsumerPcs
  <2>2. readyMutex' \in Threads \cup {Free}
    BY DEF ConsumerStep, LoopTest, LockReady, CondWait, GiveUp, Take, Check, LoadCount,
       StoreCount, SpuriousWakeup
  <2>3. nready' \in 0 .. NItems /\ nget' \in 0 .. NItems
    <3>1. CASE Take(c)
      BY <3>1 DEF Take, MustWait
    <3>2. CASE ~Take(c)
      BY <3>2 DEF ConsumerStep, LoopTest, LockReady, CondWait, GiveUp, Check, LoadCount,
         StoreCount, SpuriousWakeup
    <3> QED BY <3>1, <3>2
  <2>4. idx' \in [Consumers -> 0 .. NItems]
    <3>1. CASE Check(c)
      <4>1. idx[c] < nget /\ idx[c] \in Nat /\ nget \in 0 .. NItems
        BY <3>1 DEF Check, TakeInv, Goto
      <4>2. idx' = [idx EXCEPT ![c] = @ + 1]
        BY <3>1 DEF Check
      <4>3. idx[c] + 1 \in 0 .. NItems
        <5>1. NItems \in Nat
          BY NItemsAssumption
        <5> QED BY ONLY <4>1, <5>1
      <4>4. idx \in [Consumers -> 0 .. NItems]
        BY DEF IInv, TypeOK
      <4> QED BY <4>2, <4>3, <4>4, Zenon
    <3>2. CASE ~Check(c)
      <4>1. UNCHANGED idx
        BY <3>2 DEF ConsumerStep, LoopTest, LockReady, CondWait, GiveUp, Take, LoadCount,
           StoreCount, SpuriousWakeup
      <4>2. idx \in [Consumers -> 0 .. NItems]
        BY DEF IInv, TypeOK
      <4> QED BY ONLY <4>1, <4>2
    <3> QED BY <3>1, <3>2
  <2>5. count' \in [Slots -> Int] /\ reg' \in [Threads -> Int]
    <3>1. CASE LoadCount(c) \/ StoreCount(c, -1, "done")
      <4> HIDE DEF TypeOK
      <4>1. c \in Threads
        BY NThreadsAssumption DEF Consumers, Threads
      <4>2. TypeOK
        BY DEF IInv
      <4>3. -1 \in Int
        OBVIOUS
      <4> QED BY ONLY <3>1, <4>1, <4>2, <4>3, CountTypes
    <3>2. CASE ~(LoadCount(c) \/ StoreCount(c, -1, "done"))
      <4>1. UNCHANGED countVars
        BY <3>2 DEF ConsumerStep, LoopTest, LockReady, CondWait, GiveUp, Take, Check,
           SpuriousWakeup
      <4> QED BY <4>1
    <3> QED BY <3>1, <3>2
  <2>6. spurious' \in 0 .. MaxSpurious
    <3>1. CASE SpuriousWakeup(c)
      BY <3>1 DEF SpuriousWakeup
    <3>2. CASE ~SpuriousWakeup(c)
      <4>1. UNCHANGED spurious
        BY <3>2 DEF ConsumerStep, LoopTest, LockReady, CondWait, GiveUp, Take, Check,
           LoadCount, StoreCount
      <4> QED BY <4>1
    <3> QED BY <3>1, <3>2
  <2>7. /\ UNCHANGED <<mainPc, mainI, putMutex, nput, nval, buff>>
        /\ pc' \in [Threads -> ProducerPcs \cup ConsumerPcs]
    BY ConsumerFrame
  <2>8. TypeOK
    OBVIOUS
  <2> QED BY ONLY <2>1, <2>2, <2>3, <2>4, <2>5, <2>6, <2>7, <2>8 DEF TypeOK
<1>4. CASE UNCHANGED vars
  BY <1>4 DEF vars, mainVars, putVars, readyVars, countVars, IInv, TypeOK, PlaceInv
<1> QED BY <1>1, <1>2, <1>3, <1>4 DEF Next, Terminated

LEMMA PutStep == IInv /\ [Next]_vars => PutInv'
<1> SUFFICES ASSUME IInv, [Next]_vars PROVE PutInv'
  OBVIOUS
<1> USE ThreadFacts
<1>1. CASE MainStep
  BY <1>1, MainFrame DEF IInv, PutInv, putVars
<1>2. ASSUME NEW p \in Producers, ProducerStep(p)
      PROVE  PutInv'
  <2> USE <1>2 DEF IInv, putVars
  <2>1. CASE LockPut(p)
    (* put.mutex was free, so nobody was at "store" or "bump" *)
    <3>1. \A q \in Producers : pc[q] \notin {"store", "bump"}
      BY <2>1 DEF LockPut, PutInv, Free
    <3>2. pc'[p] = "store"
      BY <2>1 DEF LockPut, Goto, TypeOK
    <3> QED BY <2>1, <3>1, <3>2, ProducerFrame DEF LockPut, PutInv
  <2>2. CASE Full(p)
    <3>1. pc[p] = "store" /\ pc'[p] = "done"
      BY <2>2 DEF Full, Goto, TypeOK
    <3> QED BY <2>2, <3>1, ProducerFrame DEF Full, PutInv
  <2>3. CASE Store(p)
    <3>1. pc[p] = "store" /\ pc'[p] = "bump"
      BY <2>3 DEF Store, Goto, TypeOK
    <3>2. nput \in 0 .. NItems - 1
      BY <2>3 DEF Store, TypeOK
    <3>3. buff'[nput] = nput /\ \A k \in 0 .. nput - 1 : buff'[k] = buff[k]
      BY <2>3, <3>2 DEF Store, TypeOK, PutInv
    <3> QED BY <2>3, <3>1, <3>2, <3>3, ProducerFrame DEF Store, PutInv
  <2>4. CASE Bump(p)
    <3>1. pc[p] = "bump" /\ pc'[p] = "lockReady"
      BY <2>4 DEF Bump, Goto, TypeOK
    <3>2. \A q \in Producers : pc'[q] \notin {"store", "bump"}
      BY <3>1, ProducerFrame DEF PutInv
    <3>3. \A k \in 0 .. nput' - 1 : k = nput \/ k \in 0 .. nput - 1
      BY <2>4 DEF Bump, TypeOK
    <3> QED BY <2>4, <3>1, <3>2, <3>3 DEF Bump, PutInv
  <2>5. CASE LockReady(p, "lockReady", "announce")
    <3>1. pc'[p] = "announce"
      BY <2>5 DEF LockReady, Goto, TypeOK
    <3> QED BY <2>5, <3>1, ProducerFrame DEF LockReady, PutInv
  <2>6. CASE Announce(p)
    <3>1. pc'[p] = "loadCount"
      BY <2>6 DEF Announce, Goto, SignalAndGoto, TypeOK, Waiting
    <3> QED BY <2>6, <3>1, ProducerFrame DEF Announce, PutInv
  <2>7. CASE LoadCount(p)
    <3>1. pc'[p] = "storeCount"
      BY <2>7 DEF LoadCount, Goto, TypeOK
    <3> QED BY <2>7, <3>1, ProducerFrame DEF LoadCount, PutInv
  <2>8. CASE StoreCount(p, 1, "lockPut")
    <3>1. pc'[p] = "lockPut"
      BY <2>8 DEF StoreCount, Goto, TypeOK
    <3> QED BY <2>8, <3>1, ProducerFrame DEF StoreCount, PutInv
  <2> QED BY <2>1, <2>2, <2>3, <2>4, <2>5, <2>6, <2>7, <2>8 DEF ProducerStep
<1>3. ASSUME NEW c \in Consumers, ConsumerStep(c) \/ SpuriousWakeup(c)
      PROVE  PutInv'
  BY <1>3, ConsumerFrame DEF IInv, PutInv, putVars
<1>4. CASE UNCHANGED vars
  BY <1>4 DEF vars, putVars, IInv, PutInv
<1> QED BY <1>1, <1>2, <1>3, <1>4 DEF Next, Terminated

LEMMA TakeStep == IInv /\ [Next]_vars => TakeInv'
<1> SUFFICES ASSUME IInv, [Next]_vars PROVE TakeInv'
  OBVIOUS
<1> USE ThreadFacts
<1>1. CASE MainStep
  BY <1>1, MainFrame DEF IInv, TakeInv, readyVars
<1>2. ASSUME NEW p \in Producers, ProducerStep(p)
      PROVE  TakeInv'
  BY <1>2, ProducerFrame DEF IInv, TakeInv
<1>3. ASSUME NEW c \in Consumers, ConsumerStep(c) \/ SpuriousWakeup(c)
      PROVE  TakeInv'
  <2> USE <1>3 DEF IInv, readyVars
  <2>1. CASE LoopTest(c)
    <3>1. pc'[c] = IF idx[c] < NItems THEN "lockReady" ELSE "loadCount"
      BY <2>1 DEF LoopTest, Goto, TypeOK
    <3>2. idx[c] < NItems \/ idx[c] = NItems
      BY DEF TypeOK
    <3> QED BY <2>1, <3>1, <3>2, ConsumerFrame DEF LoopTest, TakeInv
  <2>2. CASE LockReady(c, "lockReady", "test") \/ LockReady(c, "relock", "test")
    <3>1. pc'[c] = "test"
      BY <2>2 DEF LockReady, Goto, TypeOK
    <3> QED BY <2>2, <3>1, ConsumerFrame DEF LockReady, TakeInv
  <2>3. CASE CondWait(c)
    <3>1. pc'[c] = "wait"
      BY <2>3 DEF CondWait, Goto, TypeOK
    <3> QED BY <2>3, <3>1, ConsumerFrame DEF CondWait, TakeInv
  <2>4. CASE GiveUp(c)
    <3>1. pc'[c] = "done"
      BY <2>4 DEF GiveUp, Goto, SignalAndGoto, TypeOK, Waiting
    <3>2. nget = NItems
      BY <2>4 DEF GiveUp, TypeOK
    <3> QED BY <2>4, <3>1, <3>2, ConsumerFrame DEF GiveUp, TakeInv
  <2>5. CASE Take(c)
    <3>1. pc'[c] = "check"
      BY <2>5 DEF Take, Goto, TypeOK
    <3>2. nget' = nget + 1 /\ nget < NItems /\ idx' = idx
      BY <2>5 DEF Take
    <3>3. nget \in Int /\ \A d \in Consumers : idx[d] \in Int
      BY DEF TypeOK
    <3> QED BY <3>1, <3>2, <3>3, ConsumerFrame DEF TakeInv
  <2>6. CASE Check(c)
    <3>1. pc[c] = "check" /\ pc'[c] = "loop"
      BY <2>6 DEF Check, Goto, TypeOK
    <3>2. idx'[c] = idx[c] + 1 /\ \A d \in Consumers \ {c} : idx'[d] = idx[d]
      BY <2>6 DEF Check, TypeOK
    <3>3. idx[c] \in Int /\ nget \in Int
      BY DEF TypeOK
    <3> QED BY <2>6, <3>1, <3>2, <3>3, ConsumerFrame DEF Check, TakeInv
  <2>7. CASE LoadCount(c)
    <3>1. pc[c] = "loadCount" /\ pc'[c] = "storeCount"
      BY <2>7 DEF LoadCount, Goto, TypeOK
    <3> QED BY <2>7, <3>1, ConsumerFrame DEF LoadCount, TakeInv
  <2>8. CASE StoreCount(c, -1, "done")
    <3>1. pc[c] = "storeCount" /\ pc'[c] = "done"
      BY <2>8 DEF StoreCount, Goto, TypeOK
    <3>2. nget = NItems
      BY <3>1 DEF TakeInv, TypeOK
    <3> QED BY <2>8, <3>1, <3>2, ConsumerFrame DEF StoreCount, TakeInv
  <2>9. CASE SpuriousWakeup(c)
    <3>1. pc'[c] = "relock"
      BY <2>9 DEF SpuriousWakeup, Goto, TypeOK
    <3> QED BY <2>9, <3>1, ConsumerFrame DEF SpuriousWakeup, TakeInv
  <2> QED BY <2>1, <2>2, <2>3, <2>4, <2>5, <2>6, <2>7, <2>8, <2>9 DEF ConsumerStep
<1>4. CASE UNCHANGED vars
  BY <1>4 DEF vars, readyVars, IInv, TakeInv
<1> QED BY <1>1, <1>2, <1>3, <1>4 DEF Next, Terminated

LEMMA AccountingStep == IInv /\ [Next]_vars => Accounting'
<1> SUFFICES ASSUME IInv, [Next]_vars PROVE Accounting'
  OBVIOUS
<1> USE ThreadFacts
<1> DEFINE Steady == Unannounced' = Unannounced /\ UNCHANGED <<nput, nget, nready>>
<1>1. Steady => Accounting'
  BY DEF IInv, Accounting
<1>2. CASE MainStep
  <2>1. Steady
    BY <1>2, MainFrame DEF Unannounced, putVars, readyVars
  <2> QED BY <2>1, <1>1
<1>3. ASSUME NEW p \in Producers, ProducerStep(p)
      PROVE  Accounting'
  <2> USE <1>3 DEF IInv
  <2>1. CASE Bump(p)
    <3>1. pc[p] = "bump" /\ pc'[p] = "lockReady"
      BY <2>1 DEF Bump, Goto, TypeOK
    <3>2. p \notin Unannounced /\ Unannounced' = Unannounced \cup {p}
      BY <3>1, ProducerFrame DEF Unannounced
    <3>3. Cardinality(Unannounced') = Cardinality(Unannounced) + 1
      BY <3>2, UnannouncedFinite, FS_AddElement
    <3>4. Cardinality(Unannounced) \in Nat
      BY UnannouncedFinite, FS_CardinalityType
    <3> QED BY <2>1, <3>3, <3>4 DEF Bump, readyVars, Accounting, TypeOK
  <2>2. CASE Announce(p)
    <3>1. pc[p] = "announce" /\ pc'[p] = "loadCount"
      BY <2>2 DEF Announce, Goto, SignalAndGoto, TypeOK, Waiting
    <3>2. p \in Unannounced /\ Unannounced' = Unannounced \ {p}
      BY <3>1, ProducerFrame DEF Unannounced
    <3>3. Cardinality(Unannounced') = Cardinality(Unannounced) - 1
      BY <3>2, UnannouncedFinite, FS_RemoveElement
    <3>4. Cardinality(Unannounced) \in Nat
      BY UnannouncedFinite, FS_CardinalityType
    <3> QED BY <2>2, <3>3, <3>4 DEF Announce, putVars, Accounting, TypeOK
  <2>3. CASE ~Bump(p) /\ ~Announce(p)
    <3>1. UNCHANGED <<nput, nget, nready>>
      BY <2>3 DEF ProducerStep, LockPut, Full, Store, LockReady, LoadCount, StoreCount,
         putVars, readyVars
    <3>2. p \in Unannounced' <=> p \in Unannounced
      BY <2>3 DEF ProducerStep, LockPut, Full, Store, LockReady, LoadCount, StoreCount,
         Goto, Unannounced, TypeOK
    <3>3. \A q \in Producers : q \in Unannounced' <=> q \in Unannounced
      BY <3>2, ProducerFrame DEF Unannounced
    <3>4. Unannounced' = Unannounced
      BY <3>3, Zenon DEF Unannounced
    <3> QED BY <3>1, <3>4, <1>1
  <2> QED BY <2>1, <2>2, <2>3
<1>4. ASSUME NEW c \in Consumers, ConsumerStep(c) \/ SpuriousWakeup(c)
      PROVE  Accounting'
  <2> USE <1>4 DEF IInv
  <2>1. Unannounced' = Unannounced /\ nput' = nput
    <3>1. \A p \in Producers : pc'[p] = pc[p]
      BY ConsumerFrame
    <3>2. Unannounced' = Unannounced
      BY ONLY <3>1, Zenon DEF Unannounced
    <3>3. nput' = nput
      BY ConsumerFrame DEF putVars
    <3> QED BY <3>2, <3>3
  <2>2. CASE Take(c)
    <3>1. Cardinality(Unannounced) \in Nat
      BY UnannouncedFinite, FS_CardinalityType
    <3> QED BY <2>1, <2>2, <3>1 DEF Take, Accounting, TypeOK
  <2>3. CASE ~Take(c)
    <3>1. UNCHANGED <<nget, nready>>
      BY <2>3 DEF ConsumerStep, LoopTest, LockReady, CondWait, GiveUp, Check, LoadCount,
         StoreCount, SpuriousWakeup, readyVars
    <3> QED BY <2>1, <3>1, <1>1
  <2> QED BY <2>2, <2>3
<1>5. CASE UNCHANGED vars
  <2>1. Steady
    BY <1>5 DEF vars, putVars, readyVars, Unannounced
  <2> QED BY <2>1, <1>1
<1> QED BY <1>2, <1>3, <1>4, <1>5 DEF Next, Terminated

-----------------------------------------------------------------------------
(* IInv is an invariant.                                                   *)
THEOREM Invariance == Spec => []IInv
<1>1. IInv /\ [Next]_vars => IInv'
  BY TypeStep, PutStep, TakeStep, AccountingStep DEF IInv
<1> QED BY InitIInv, <1>1, PTL DEF Spec

(* Type correctness: the counters stay within 0 .. NItems, so in           *)
(* particular no consumer decrements nready below zero.                    *)
THEOREM TypeCorrect == Spec => []TypeOK
<1>1. IInv => TypeOK
  BY DEF IInv
<1> QED BY <1>1, Invariance, PTL

(* The unlocked read of buff[i] always finds item i.                       *)
THEOREM ReadsInPlace == Spec => []ItemInPlace
<1>1. IInv => ItemInPlace
  <2> SUFFICES ASSUME IInv, NEW c \in Consumers, pc[c] = "check"
               PROVE  buff[idx[c]] = idx[c]
    BY DEF ItemInPlace
  <2>1. idx[c] \in Nat /\ nput \in Nat /\ nget \in Nat /\ nready \in Nat
    BY DEF IInv, TypeOK
  <2>2. idx[c] < nget
    BY DEF IInv, TakeInv
  <2>3. nget + nready <= nput
    BY Headroom
  <2>4. idx[c] \in 0 .. nput - 1
    BY <2>1, <2>2, <2>3
  <2> QED BY <2>4 DEF IInv, PutInv
<1> QED BY <1>1, Invariance, PTL

(* No item is lost or counted twice between put.mutex and nready.mutex.    *)
THEOREM ItemsAccountedFor == Spec => []Accounting
<1>1. IInv => Accounting
  BY DEF IInv
<1> QED BY <1>1, Invariance, PTL

(* A consumer that has returned leaves nothing behind.                     *)
THEOREM ReturnsDrained == Spec => []DoneMeansDrained
<1>1. IInv => DoneMeansDrained
  <2> SUFFICES ASSUME IInv, NEW c \in Consumers, pc[c] = "done"
               PROVE  nget = NItems /\ nready = 0
    BY DEF DoneMeansDrained
  <2>1. nget = NItems
    BY DEF IInv, TakeInv
  <2>2. nput \in 0 .. NItems /\ nready \in Nat /\ NItems \in Nat
    BY ThreadFacts DEF IInv, TypeOK
  <2>3. nget + nready <= nput
    BY Headroom
  <2> QED BY <2>1, <2>2, <2>3
<1> QED BY <1>1, Invariance, PTL

(* Every step of the threads is a step of ItemHandoff or changes nothing   *)
(* it sees: storing is Bump, taking is Take, and Take only ever happens    *)
(* below nput because nready is positive then.                             *)
THEOREM HandsOver == Spec => Handoff
<1>1. Init => H!Init
  BY DEF Init, H!Init
<1>2. IInv /\ [Next]_vars => [H!Next]_(H!vars)
  <2> SUFFICES ASSUME IInv, [Next]_vars PROVE [H!Next]_(H!vars)
    OBVIOUS
  <2> USE ThreadFacts DEF H!vars, H!Next, H!Store, H!Take
  <2>1. CASE MainStep
    BY <2>1, MainFrame DEF putVars, readyVars
  <2>2. ASSUME NEW p \in Producers, ProducerStep(p)
        PROVE  [H!Next]_(H!vars)
    <3>1. CASE Bump(p)
      BY <3>1 DEF Bump, Goto, readyVars, IInv, PutInv
    <3>2. CASE ~Bump(p)
      BY <2>2, <3>2 DEF ProducerStep, LockPut, Full, Store, LockReady, Announce,
         LoadCount, StoreCount, putVars, readyVars
    <3> QED BY <3>1, <3>2
  <2>3. ASSUME NEW c \in Consumers, ConsumerStep(c) \/ SpuriousWakeup(c)
        PROVE  [H!Next]_(H!vars)
    <3>1. nput' = nput
      BY <2>3, ConsumerFrame DEF putVars
    <3>2. CASE Take(c)
      BY <3>1, <3>2, Headroom DEF Take, MustWait, IInv, TypeOK
    <3>3. CASE ~Take(c)
      BY <2>3, <3>1, <3>3 DEF ConsumerStep, LoopTest, LockReady, CondWait, GiveUp, Check,
         LoadCount, StoreCount, SpuriousWakeup, readyVars
    <3> QED BY <3>2, <3>3
  <2>4. CASE UNCHANGED vars
    BY <2>4 DEF vars, putVars, readyVars
  <2> QED BY <2>1, <2>2, <2>3, <2>4 DEF Next, Terminated
<1> QED BY <1>1, <1>2, Invariance, PTL DEF Spec, Handoff, H!Spec

-----------------------------------------------------------------------------
(* A blocked consumer has a rescuer, or one consumer has gone round for    *)
(* every item.  Only three steps can take a rescuer away, and each leaves  *)
(* what the invariant asks for: GiveUp wakes another waiter, the decrement *)
(* ends a loop that ran NItems times, and CondWait is impossible once the  *)
(* last item is taken.                                                     *)
LEMMA RescuerStep == IInv /\ WaitersHaveRescuer /\ [Next]_vars => WaitersHaveRescuer'
<1> SUFFICES ASSUME IInv, WaitersHaveRescuer, [Next]_vars, nget' = NItems
             PROVE  \/ Waiting' = {}
                    \/ \E c \in Consumers : pc'[c] \notin {"wait", "done"}
                    \/ \E c \in Consumers : idx'[c] = NItems
  BY DEF WaitersHaveRescuer, Waiting
<1> USE ThreadFacts DEF WaitersHaveRescuer
<1>1. CASE MainStep
  <2>1. nget = NItems /\ idx' = idx /\ Waiting' = Waiting
    BY <1>1, MainFrame DEF readyVars, Waiting
  <2>2. \A c \in Consumers : pc[c] \notin {"wait", "done"} => pc'[c] \notin {"wait", "done"}
    BY <1>1, MainFrame
  <2> QED BY <2>1, <2>2
<1>2. ASSUME NEW p \in Producers, ProducerStep(p)
      PROVE  \/ Waiting' = {}
             \/ \E c \in Consumers : pc'[c] \notin {"wait", "done"}
             \/ \E c \in Consumers : idx'[c] = NItems
  <2>1. nget = NItems /\ idx' = idx /\ Waiting' \subseteq Waiting
    BY <1>2, ProducerFrame DEF Waiting
  <2>2. \A c \in Consumers : pc[c] \notin {"wait", "done"} => pc'[c] \notin {"wait", "done"}
    BY <1>2, ProducerFrame
  <2> QED BY <2>1, <2>2
<1>3. ASSUME NEW c \in Consumers, ConsumerStep(c) \/ SpuriousWakeup(c)
      PROVE  \/ Waiting' = {}
             \/ \E d \in Consumers : pc'[d] \notin {"wait", "done"}
             \/ \E d \in Consumers : idx'[d] = NItems
  <2> USE <1>3 DEF IInv
  <2>1. CASE LoopTest(c) \/ SpuriousWakeup(c) \/ Take(c) \/ Check(c) \/ LoadCount(c)
             \/ LockReady(c, "lockReady", "test") \/ LockReady(c, "relock", "test")
    <3>1. pc'[c] \notin {"wait", "done"}
      BY <2>1 DEF LoopTest, SpuriousWakeup, Take, Check, LoadCount, LockReady, Goto, TypeOK
    <3> QED BY <3>1
  <2>2. CASE CondWait(c)
    BY <2>2 DEF CondWait, MustWait, TypeOK
  <2>3. CASE GiveUp(c)
    <3>1. CASE Waiting = {}
      <4>1. pc'[c] = "done"
        BY <2>3, <3>1 DEF GiveUp, SignalAndGoto, Goto, TypeOK
      <4>2. \A d \in Consumers : pc[d] # "wait"
        BY <3>1 DEF Waiting
      <4>3. \A d \in Consumers : pc'[d] # "wait"
        BY <4>1, <4>2, ConsumerFrame
      <4> QED BY <4>3 DEF Waiting
    <3>2. CASE Waiting # {}
      <4>1. PICK w \in Waiting : pc' = [pc EXCEPT ![c] = "done", ![w] = "relock"]
        BY <2>3, <3>2 DEF GiveUp, SignalAndGoto
      <4>2. w \in Consumers
        BY DEF Waiting
      <4>3. pc'[w] = "relock"
        BY <4>1, <4>2 DEF TypeOK
      <4> QED BY <4>2, <4>3
    <3> QED BY <3>1, <3>2
  <2>4. CASE StoreCount(c, -1, "done")
    <3>1. pc[c] = "storeCount" /\ idx' = idx
      BY <2>4 DEF StoreCount, Goto
    <3> QED BY <3>1 DEF TakeInv
  <2> QED BY <2>1, <2>2, <2>3, <2>4 DEF ConsumerStep
<1>4. CASE UNCHANGED vars
  BY <1>4 DEF vars, readyVars, Waiting
<1> QED BY <1>1, <1>2, <1>3, <1>4 DEF Next, Terminated

THEOREM Rescue == Spec => []WaitersHaveRescuer
<1>1. Init => WaitersHaveRescuer
  BY ThreadFacts DEF Init, WaitersHaveRescuer, Waiting
<1> QED BY <1>1, RescuerStep, Invariance, PTL DEF Spec

-----------------------------------------------------------------------------
(* The counters main prints.  said[i] is how many items producer i has     *)
(* announced, which the program does not keep: no value of count[i], in    *)
(* memory or in the hands of the two threads that share it, is above it,   *)
(* nor will be when the producer has counted the last one.                 *)
Pairs(said) == UNION {{i} \X (1 .. said[i]) : i \in Slots}

Counts(i) == pc[i] \in {"loadCount", "storeCount"}

Within(i, n) ==
  LET most == IF Counts(i) THEN n - 1 ELSE n
  IN  /\ 0 <= most /\ count[i] <= most
      /\ pc[i] = "storeCount" => reg[i] <= most
      /\ pc[Consumer(i)] = "storeCount" => reg[Consumer(i)] - 1 <= most

Covers(said) == /\ IsFiniteSet(Pairs(said)) /\ Cardinality(Pairs(said)) <= nget + nready
                /\ \A i \in Slots : Within(i, said[i])

CountInv == \E said \in [Slots -> Nat] : Covers(said)

LEMMA CountInit == Init => CountInv
<1> SUFFICES ASSUME Init PROVE CountInv
  OBVIOUS
<1> DEFINE none == [i \in Slots |-> 0]
<1>1. none \in [Slots -> Nat]
  OBVIOUS
<1>2. Pairs(none) = {}
  BY DEF Pairs
<1>3. IsFiniteSet(Pairs(none)) /\ Cardinality(Pairs(none)) <= nget + nready
  <2>1. nget + nready = 0
    BY DEF Init
  <2>2. IsFiniteSet({}) /\ Cardinality({}) = 0
    BY FS_EmptySet
  <2> HIDE DEF none
  <2> QED BY <1>2, <2>1, <2>2
<1>4. ASSUME NEW i \in Slots PROVE Within(i, none[i])
  <2>1. i \in Threads /\ Consumer(i) \in Threads
    BY ThreadFacts
  <2>2. count[i] = 0 /\ pc[i] = "unborn" /\ pc[Consumer(i)] = "unborn"
    BY <2>1 DEF Init
  <2> QED BY <2>2 DEF Within, Counts
<1> HIDE DEF none
<1> QED BY <1>1, <1>3, <1>4 DEF CountInv, Covers

(* A step that leaves the accesses to slot i alone.                        *)
LEMMA SlotRests ==
  ASSUME NEW i \in Slots, NEW n \in Nat, Within(i, n), count'[i] = count[i],
         reg'[i] = reg[i], reg'[Consumer(i)] = reg[Consumer(i)],
         Counts(i)' <=> Counts(i), pc'[i] = "storeCount" <=> pc[i] = "storeCount",
         pc'[Consumer(i)] = "storeCount" <=> pc[Consumer(i)] = "storeCount"
  PROVE  Within(i, n)'
BY DEF Within

LEMMA CountMain ==
  ASSUME IInv, MainStep, NEW said \in [Slots -> Nat], Covers(said)
  PROVE  Covers(said)'
<1>1. UNCHANGED <<nget, nready, reg>>
  BY MainFrame DEF readyVars
<1>2. ASSUME NEW i \in Slots PROVE Within(i, said[i])'
  <2>1. /\ i \in Producers /\ Consumer(i) \in Consumers
        /\ Within(i, said[i]) /\ said[i] \in Nat
    BY ThreadFacts DEF Covers
  <2>2. /\ pc'[i] = pc[i] \/ (pc[i] = "unborn" /\ pc'[i] = "lockPut")
        /\ pc'[Consumer(i)] = pc[Consumer(i)] \/
             (pc[Consumer(i)] = "unborn" /\ pc'[Consumer(i)] = "loop")
    BY <2>1, MainFrame
  <2>3. count'[i] = count[i] \/ count'[i] = 0
    BY DEF MainStep, CreateProducer, CreateConsumer, AllCreated, JoinProducer, JoinConsumer,
           Exit, countVars, IInv, TypeOK
  <2> QED BY <1>1, <2>1, <2>2, <2>3 DEF Within, Counts
<1> QED BY <1>1, <1>2 DEF Covers

LEMMA CountConsumer ==
  ASSUME IInv, NEW c \in Consumers, ConsumerStep(c) \/ SpuriousWakeup(c),
         NEW said \in [Slots -> Nat], Covers(said)
  PROVE  Covers(said)'
<1> USE ThreadFacts
<1>1. nget' + nready' = nget + nready
  BY DEF ConsumerStep, LoopTest, LockReady, CondWait, GiveUp, Take, Check, LoadCount,
         StoreCount, SpuriousWakeup, readyVars, IInv, TypeOK
<1>2. ASSUME NEW i \in Slots PROVE Within(i, said[i])'
  <2>1. /\ i \in Producers /\ Consumer(i) \in Consumers /\ i # c
        /\ Within(i, said[i]) /\ said[i] \in Nat /\ pc'[i] = pc[i]
    BY ConsumerFrame DEF Covers
  <2>2. Counts(i)' <=> Counts(i)
    BY <2>1 DEF Counts
  <2>3. CASE Consumer(i) # c
    <3>1. Slot(c) # i
      BY <2>3 DEF Slot, Consumer, Consumers
    <3>2. count'[i] = count[i] /\ reg'[i] = reg[i] /\ reg'[Consumer(i)] = reg[Consumer(i)]
      BY <2>1, <2>3, <3>1 DEF ConsumerStep, LoopTest, LockReady, CondWait, GiveUp, Take, Check,
           LoadCount, StoreCount, SpuriousWakeup, countVars, IInv, TypeOK
    <3>3. pc'[Consumer(i)] = "storeCount" <=> pc[Consumer(i)] = "storeCount"
      BY <2>1, <2>3, ConsumerFrame
    <3> QED BY <2>1, <2>2, <3>2, <3>3, SlotRests
  <2>4. CASE Consumer(i) = c
    <3>1. Slot(c) = i /\ c \in Threads
      <4>1. c = NThreads + i /\ i \in 0 .. NThreads - 1 /\ NThreads \in Nat
        BY <2>4, NThreadsAssumption, Zenon DEF Consumer, Slots
      <4> QED BY <4>1 DEF Slot
    <3>2. CASE LoadCount(c)
      <4>1. reg'[c] = count[i] /\ count'[i] = count[i] /\ reg'[i] = reg[i]
        BY <2>1, <3>1, <3>2 DEF LoadCount, IInv, TypeOK
      <4>2. count[i] \in Int
        BY DEF IInv, TypeOK
      <4> QED BY <2>1, <2>2, <2>4, <4>1, <4>2 DEF Within
    <3>3. CASE StoreCount(c, -1, "done")
      <4>1. /\ pc[c] = "storeCount" /\ pc'[c] = "done"
            /\ count'[i] = reg[c] + (-1) /\ reg' = reg /\ reg[c] \in Int
        BY <3>1, <3>3 DEF StoreCount, Goto, IInv, TypeOK
      <4> QED BY <2>1, <2>2, <2>4, <4>1 DEF Within
    <3>4. CASE ~LoadCount(c) /\ ~StoreCount(c, -1, "done")
      <4>1. count' = count /\ reg' = reg
        BY <3>4 DEF ConsumerStep, LoopTest, LockReady, CondWait, GiveUp, Take, Check,
           SpuriousWakeup, countVars
      <4>2. pc'[c] # "storeCount"
        BY <3>1, <3>4 DEF ConsumerStep, LoopTest, LockReady, CondWait, GiveUp, SignalAndGoto, Take,
             Check, SpuriousWakeup, Goto, Waiting, IInv, TypeOK
      <4> QED BY <2>1, <2>2, <2>4, <4>1, <4>2 DEF Within
    <3> QED BY <3>2, <3>3, <3>4
  <2> QED BY <2>3, <2>4
<1> QED BY <1>1, <1>2 DEF Covers

(* Slots other than the producer's own.                                    *)
LEMMA OtherSlots ==
  ASSUME IInv, NEW p \in Producers, ProducerStep(p), NEW i \in Slots \ {p}, NEW n \in Nat,
         Within(i, n)
  PROVE  Within(i, n)'
<1> USE ThreadFacts
<1>1. Slot(p) = p /\ Consumer(i) \in Consumers /\ i \in Producers
  BY DEF Slot, Producers, Slots
<1>2. count'[i] = count[i] /\ reg'[i] = reg[i] /\ reg'[Consumer(i)] = reg[Consumer(i)]
  BY <1>1 DEF ProducerStep, LockPut, Full, Store, Bump, LockReady, Announce, LoadCount,
       StoreCount, countVars, IInv, TypeOK
<1>3. pc'[i] = pc[i] /\ (pc'[Consumer(i)] = "storeCount" <=> pc[Consumer(i)] = "storeCount")
  BY <1>1, ProducerFrame
<1> QED BY <1>2, <1>3, SlotRests DEF Counts

LEMMA CountProducer ==
  ASSUME IInv, NEW p \in Producers, ProducerStep(p), NEW said \in [Slots -> Nat], Covers(said)
  PROVE  CountInv'
<1> USE ThreadFacts
<1>1. /\ p \in Slots /\ Slot(p) = p /\ p \in Threads /\ Consumer(p) \in Consumers
      /\ Consumer(p) # p /\ Within(p, said[p]) /\ said[p] \in Nat
      /\ (pc'[Consumer(p)] = "storeCount" <=> pc[Consumer(p)] = "storeCount")
      /\ count[p] \in Int /\ reg[p] \in Int /\ reg[Consumer(p)] \in Int
  <2>1. p \in Slots /\ Slot(p) = p /\ p \in Threads
    BY DEF Slot, Producers, Slots
  <2>2. Consumer(p) \in Consumers /\ Consumer(p) # p /\ Consumer(p) \in Threads
    BY <2>1
  <2>3. pc'[Consumer(p)] = "storeCount" <=> pc[Consumer(p)] = "storeCount"
    BY <2>2, ProducerFrame
  <2>4. Within(p, said[p]) /\ said[p] \in Nat
    BY <2>1 DEF Covers
  <2>5. count[p] \in Int /\ reg[p] \in Int /\ reg[Consumer(p)] \in Int
    BY <2>1, <2>2 DEF IInv, TypeOK
  <2> QED BY <2>1, <2>2, <2>3, <2>4, <2>5
<1>2. CASE Announce(p)
  <2> DEFINE more == [said EXCEPT ![p] = @ + 1]
             pair == <<p, said[p] + 1>>
  <2>1. more \in [Slots -> Nat] /\ more[p] = said[p] + 1
    BY <1>1
  <2>2. /\ nget' + nready' = nget + nready + 1 /\ nget + nready \in Nat
        /\ count' = count /\ reg' = reg /\ pc[p] = "announce" /\ pc'[p] = "loadCount"
    BY <1>1, <1>2 DEF Announce, SignalAndGoto, Goto, Waiting, countVars, IInv, TypeOK
  <2>3. Pairs(more) \subseteq Pairs(said) \cup {pair}
    <3> SUFFICES ASSUME NEW i \in Slots, NEW k \in 1 .. more[i]
                 PROVE  <<i, k>> \in Pairs(said) \cup {pair}
      BY DEF Pairs
    <3>1. CASE i = p
      <4>1. k \in 1 .. said[p] \/ k = said[p] + 1
        BY <1>1, <2>1, <3>1
      <4> QED BY <3>1, <4>1 DEF Pairs
    <3>2. CASE i # p
      BY <3>2 DEF Pairs
    <3> QED BY <3>1, <3>2
  <2>4. /\ IsFiniteSet(Pairs(said) \cup {pair})
        /\ Cardinality(Pairs(said) \cup {pair}) <= nget + nready + 1
    <3>1. /\ IsFiniteSet(Pairs(said)) /\ Cardinality(Pairs(said)) \in Nat
          /\ Cardinality(Pairs(said)) <= nget + nready
      BY FS_CardinalityType DEF Covers
    <3>2. /\ IsFiniteSet(Pairs(said) \cup {pair})
          /\ Cardinality(Pairs(said) \cup {pair}) =
               IF pair \in Pairs(said) THEN Cardinality(Pairs(said))
                                       ELSE Cardinality(Pairs(said)) + 1
      <4> HIDE DEF pair
      <4> QED BY <3>1, FS_AddElement
    <3> HIDE DEF pair
    <3> QED BY <2>2, <3>1, <3>2
  <2>5. IsFiniteSet(Pairs(more)) /\ Cardinality(Pairs(more)) <= nget' + nready'
    <3>1. Cardinality(Pairs(more)) \in Nat /\ Cardinality(Pairs(said) \cup {pair}) \in Nat
      BY <2>3, <2>4, FS_Subset, FS_CardinalityType
    <3>2. /\ IsFiniteSet(Pairs(more))
          /\ Cardinality(Pairs(more)) <= Cardinality(Pairs(said) \cup {pair})
      BY <2>3, <2>4, FS_Subset
    <3> QED BY <2>2, <2>4, <3>1, <3>2
  <2>6. ASSUME NEW i \in Slots PROVE Within(i, more[i])'
    <3>1. CASE i = p
      BY <1>1, <2>1, <2>2, <3>1 DEF Within, Counts
    <3>2. CASE i # p
      <4>1. more[i] = said[i] /\ said[i] \in Nat /\ Within(i, said[i])
        BY <3>2 DEF Covers
      <4> QED BY <3>2, <4>1, OtherSlots
    <3> QED BY <3>1, <3>2
  <2> HIDE DEF more
  <2>7. Covers(more)'
    BY <2>5, <2>6 DEF Covers
  <2> QED BY <2>1, <2>7 DEF CountInv
<1>3. CASE ~Announce(p)
  <2>1. UNCHANGED <<nget, nready>>
    BY <1>3 DEF ProducerStep, LockPut, Full, Store, Bump, LockReady, LoadCount, StoreCount,
         readyVars
  <2>2. Within(p, said[p])'
    <3>1. CASE LoadCount(p)
      <4>1. /\ pc[p] = "loadCount" /\ pc'[p] = "storeCount" /\ count'[p] = count[p]
            /\ reg'[p] = count[p] /\ reg'[Consumer(p)] = reg[Consumer(p)]
        BY <1>1, <3>1 DEF LoadCount, Goto, IInv, TypeOK
      <4> QED BY <1>1, <4>1 DEF Within, Counts
    <3>2. CASE StoreCount(p, 1, "lockPut")
      <4>1. /\ pc[p] = "storeCount" /\ pc'[p] = "lockPut" /\ count'[p] = reg[p] + 1
            /\ reg' = reg
        BY <1>1, <3>2 DEF StoreCount, Goto, IInv, TypeOK
      <4> QED BY <1>1, <4>1 DEF Within, Counts
    <3>3. CASE ~LoadCount(p) /\ ~StoreCount(p, 1, "lockPut")
      <4>1. /\ UNCHANGED <<count, reg>> /\ ~Counts(p) /\ ~Counts(p)'
        BY <1>1, <1>3, <3>3 DEF ProducerStep, LockPut, Full, Store, Bump, LockReady, countVars,
             Goto, Counts, IInv, TypeOK
      <4> QED BY <1>1, <4>1 DEF Within, Counts
    <3> QED BY <3>1, <3>2, <3>3
  <2>3. \A i \in Slots : Within(i, said[i])'
    BY <2>2, OtherSlots DEF Covers
  <2>4. Covers(said)'
    BY <2>1, <2>3 DEF Covers
  <2> QED BY <2>4 DEF CountInv
<1> QED BY <1>2, <1>3

LEMMA CountStep == IInv /\ CountInv /\ [Next]_vars => CountInv'
<1> SUFFICES ASSUME IInv, CountInv, [Next]_vars PROVE CountInv'
  OBVIOUS
<1>1. PICK said \in [Slots -> Nat] : Covers(said)
  BY DEF CountInv
<1>2. CASE UNCHANGED vars
  <2>1. UNCHANGED <<nget, nready, pc, count, reg>>
    BY <1>2 DEF vars, readyVars, countVars
  <2>2. Covers(said)'
    BY <1>1, <2>1 DEF Covers, Within, Counts
  <2> QED BY <2>2 DEF CountInv
<1>3. CASE MainStep
  <2>1. Covers(said)'
    BY <1>1, <1>3, CountMain
  <2> QED BY <2>1 DEF CountInv
<1>4. ASSUME NEW c \in Consumers, ConsumerStep(c) \/ SpuriousWakeup(c) PROVE CountInv'
  <2>1. Covers(said)'
    BY <1>1, <1>4, CountConsumer
  <2> QED BY <2>1 DEF CountInv
<1>5. ASSUME NEW p \in Producers, ProducerStep(p) PROVE CountInv'
  BY <1>1, <1>5, CountProducer
<1> QED BY <1>2, <1>3, <1>4, <1>5 DEF Next, Terminated

(* What main prints: the counters never claim more items than have been    *)
(* announced, however the unlocked updates of two threads interleave.      *)
THEOREM NeverOverstates == Spec => []CountsNeverOverstate
<1>1. IInv /\ CountInv => CountsNeverOverstate
  <2> SUFFICES ASSUME IInv, CountInv PROVE CountsNeverOverstate
    OBVIOUS
  <2>1. PICK said \in [Slots -> Nat] : Covers(said)
    BY DEF CountInv
  <2>2. ASSUME NEW i \in Slots PROVE count[i] <= said[i] /\ count[i] \in Int /\ said[i] \in Nat
    <3>1. Within(i, said[i]) /\ count[i] \in Int /\ said[i] \in Nat
      BY <2>1 DEF Covers, IInv, TypeOK
    <3> QED BY <3>1 DEF Within
  <2>3. Claimed \subseteq Pairs(said)
    <3> SUFFICES ASSUME NEW i \in Slots, NEW k \in 1 .. count[i] PROVE <<i, k>> \in Pairs(said)
      BY DEF Claimed
    <3>1. k \in 1 .. said[i]
      BY <2>2
    <3> QED BY <3>1 DEF Pairs
  <2>4. /\ IsFiniteSet(Claimed) /\ Cardinality(Claimed) <= Cardinality(Pairs(said))
        /\ Cardinality(Pairs(said)) <= nget + nready /\ IsFiniteSet(Pairs(said))
    BY <2>1, <2>3, FS_Subset DEF Covers
  <2>5. Cardinality(Claimed) \in Nat /\ Cardinality(Pairs(said)) \in Nat /\ nget + nready \in Nat
    BY <2>4, FS_CardinalityType DEF IInv, TypeOK
  <2> QED BY <2>4, <2>5 DEF CountsNeverOverstate
<1> QED BY <1>1, CountInit, CountStep, Invariance, PTL DEF Spec

-----------------------------------------------------------------------------
(* The threads come to an end: what is left of their work.                 *)

(* Items to be stored, announced and taken, wakeups nobody sent, and       *)
(* consumers that have not returned.                                       *)
Items == 3 * NItems - nput - 2 * nget - nready
Working == {c \in Consumers : pc[c] # "done"}
ToHandOver == Items + (MaxSpurious - spurious) + Cardinality(Working)

(* The steps of each thread until it has stored, announced or taken an     *)
(* item, or returns.                                                       *)
Rank(place) == CASE place = "unborn" -> 10
                 [] place = "check" -> 9
                 [] place = "loop" -> 8
                 [] place = "loadCount" -> 7
                 [] place = "storeCount" -> 6
                 [] place = "lockPut" -> 5
                 [] place = "store" -> 4
                 [] place \in {"bump", "lockReady", "relock"} -> 3
                 [] place \in {"announce", "test"} -> 2
                 [] place = "wait" -> 1
                 [] place = "done" -> 0
Ranks == [t \in Threads |-> Rank(pc[t])]
ToRun == Total(Threads, 10, Ranks)

(* The steps of main once it has created the threads.                      *)
ToJoin == CASE mainPc \in {"createProducer", "createConsumer"} -> 2 * NThreads + 2
            [] mainPc = "joinProducer" -> 2 * (NThreads - mainI) + 1
            [] mainPc = "joinConsumer" -> 2 * (NThreads - mainI)
            [] mainPc = "exited" -> 0

Left == <<ToHandOver, ToRun, ToJoin>>
LeftNats == ToHandOver \in Nat /\ ToRun \in Nat /\ ToJoin \in Nat
LessLeft == Lower(ToHandOver', ToRun', ToJoin', ToHandOver, ToRun, ToJoin)

Places == ProducerPcs \cup ConsumerPcs

LEMMA RankFacts ==
  /\ Rank("unborn") = 10 /\ Rank("check") = 9 /\ Rank("loop") = 8
  /\ Rank("loadCount") = 7 /\ Rank("storeCount") = 6 /\ Rank("lockPut") = 5
  /\ Rank("store") = 4 /\ Rank("bump") = 3 /\ Rank("lockReady") = 3
  /\ Rank("relock") = 3 /\ Rank("announce") = 2 /\ Rank("test") = 2
  /\ Rank("wait") = 1 /\ Rank("done") = 0
BY DEF Rank

LEMMA PlaceFacts == \A x \in Places : Rank(x) \in 0 .. 10
<1> SUFFICES ASSUME NEW x \in Places PROVE Rank(x) \in 0 .. 10
  OBVIOUS
<1>1. CASE x \in {"unborn", "check", "loop", "loadCount", "storeCount"}
  BY ONLY <1>1, RankFacts
<1>2. CASE x \in {"lockPut", "store", "bump", "lockReady", "relock"}
  BY ONLY <1>2, RankFacts
<1>3. CASE x \in {"announce", "test", "wait", "done"}
  BY ONLY <1>3, RankFacts
<1> QED BY <1>1, <1>2, <1>3, Zenon DEF Places, ProducerPcs, ConsumerPcs

LEMMA ThreadsFinite ==
  /\ IsFiniteSet(Threads) /\ IsFiniteSet(Working) /\ Cardinality(Working) \in Nat
<1>1. IsFiniteSet(Threads) /\ IsFiniteSet(Consumers)
  <2>1. 2 * NThreads - 1 \in Int /\ NThreads \in Int
    BY NThreadsAssumption
  <2> QED BY <2>1, FS_Interval DEF Threads, Consumers
<1>2. Working \subseteq Consumers
  BY DEF Working
<1> QED BY <1>1, <1>2, FewerFacts

Placed == pc \in [Threads -> Places]

LEMMA LeftType == IInv => LeftNats /\ Placed
<1> SUFFICES ASSUME IInv PROVE LeftNats /\ Placed
  OBVIOUS
<1>1. Placed
  BY DEF IInv, TypeOK, Placed, Places
<1>2. NItems \in Nat /\ NThreads \in Nat /\ MaxSpurious \in Nat
  BY ThreadFacts
<1>3. /\ nput \in 0 .. NItems /\ nget \in 0 .. NItems /\ nready \in 0 .. NItems
      /\ spurious \in 0 .. MaxSpurious
  BY DEF IInv, TypeOK
<1>4. nget + nready <= nput
  BY Headroom
<1>5. Items \in Nat
  BY ONLY <1>2, <1>3, <1>4 DEF Items
<1>6. MaxSpurious - spurious \in Nat
  BY ONLY <1>2, <1>3
<1>7. Cardinality(Working) \in Nat
  BY ThreadsFinite
<1>8. ToHandOver \in Nat
  BY ONLY <1>5, <1>6, <1>7 DEF ToHandOver
<1>9. ToRun \in Nat
  BY ThreadsFinite, TotalFacts DEF ToRun
<1>10. ToJoin \in Nat
  <2>1. mainI \in 0 .. NThreads
    BY DEF IInv, TypeOK
  <2>2. NThreads - mainI \in Nat
    BY ONLY <1>2, <2>1
  <2>3. mainPc \in {"createProducer", "createConsumer", "joinProducer", "joinConsumer", "exited"}
    BY DEF IInv, TypeOK
  <2> QED BY ONLY <1>2, <2>2, <2>3 DEF ToJoin
<1> QED BY <1>1, <1>8, <1>9, <1>10 DEF LeftNats

-----------------------------------------------------------------------------
(* The numbers that count, in the two states of a step.                    *)
Numbers == {nput, nget, nready, spurious} \subseteq Nat

(* A thread that has returned does not come back.                          *)
NoReturn == \A c \in Consumers : pc[c] = "done" => pc'[c] = "done"

LEMMA FewerWorking ==
  ASSUME NoReturn
  PROVE  /\ Cardinality(Working') \in Nat /\ Cardinality(Working) \in Nat
         /\ Cardinality(Working') <= Cardinality(Working)
         /\ \A c \in Consumers : pc[c] # "done" /\ pc'[c] = "done"
              => Cardinality(Working') < Cardinality(Working)
<1>1. Working' \subseteq Working
  BY DEF Working, NoReturn
<1>2. ASSUME NEW c \in Consumers, pc[c] # "done", pc'[c] = "done"
      PROVE  Working' # Working
  BY <1>2 DEF Working
<1>3. IsFiniteSet(Working)
  BY ThreadsFinite
<1> QED BY <1>1, <1>2, <1>3, FewerFacts

(* An item is handed over a step further, or a spurious wakeup made.       *)
LEMMA HandLowers ==
  ASSUME Numbers, Numbers', NoReturn,
         \/ nput' = nput + 1 /\ UNCHANGED <<nget, nready, spurious>>
         \/ nready' = nready + 1 /\ UNCHANGED <<nput, nget, spurious>>
         \/ nready' = nready - 1 /\ nget' = nget + 1 /\ UNCHANGED <<nput, spurious>>
         \/ spurious' = spurious + 1 /\ UNCHANGED <<nput, nget, nready>>
  PROVE  LessLeft
<1>1. NItems \in Nat /\ MaxSpurious \in Nat
  BY ThreadFacts
<1>2. /\ Cardinality(Working') \in Nat /\ Cardinality(Working) \in Nat
      /\ Cardinality(Working') <= Cardinality(Working)
  BY FewerWorking
<1>3. /\ nput \in Nat /\ nget \in Nat /\ nready \in Nat /\ spurious \in Nat
      /\ nput' \in Nat /\ nget' \in Nat /\ nready' \in Nat /\ spurious' \in Nat
  BY DEF Numbers
<1> DEFINE rest == Items + (MaxSpurious - spurious)
<1>4. rest \in Int /\ rest' \in Int /\ rest' < rest
  <2>1. \/ nput' = nput + 1 /\ nget' = nget /\ nready' = nready /\ spurious' = spurious
        \/ nready' = nready + 1 /\ nput' = nput /\ nget' = nget /\ spurious' = spurious
        \/ nready' = nready - 1 /\ nget' = nget + 1 /\ nput' = nput /\ spurious' = spurious
        \/ spurious' = spurious + 1 /\ nput' = nput /\ nget' = nget /\ nready' = nready
    OBVIOUS
  <2>2. /\ rest = 3 * NItems - nput - 2 * nget - nready + (MaxSpurious - spurious)
        /\ rest' = 3 * NItems - nput' - 2 * nget' - nready' + (MaxSpurious - spurious')
    BY DEF Items
  <2>3. 3 * NItems \in Nat
    BY ONLY <1>1
  <2> DEFINE n == 3 * NItems
             r == n - nput - 2 * nget - nready + (MaxSpurious - spurious)
             s == n - nput' - 2 * nget' - nready' + (MaxSpurious - spurious')
  <2> HIDE DEF n
  <2>4. r \in Int /\ s \in Int
    BY ONLY <1>1, <1>3, <2>3 DEF n
  <2>5. s = r - 1
    <3>1. CASE nput' = nput + 1 /\ nget' = nget /\ nready' = nready /\ spurious' = spurious
      BY ONLY <1>1, <1>3, <2>3, <3>1 DEF n
    <3>2. CASE nready' = nready + 1 /\ nput' = nput /\ nget' = nget /\ spurious' = spurious
      BY ONLY <1>1, <1>3, <2>3, <3>2 DEF n
    <3>3. CASE nready' = nready - 1 /\ nget' = nget + 1 /\ nput' = nput /\ spurious' = spurious
      BY ONLY <1>1, <1>3, <2>3, <3>3 DEF n
    <3>4. CASE spurious' = spurious + 1 /\ nput' = nput /\ nget' = nget /\ nready' = nready
      BY ONLY <1>1, <1>3, <2>3, <3>4 DEF n
    <3> QED BY ONLY <2>1, <3>1, <3>2, <3>3, <3>4
  <2> HIDE DEF r, s
  <2>6. s < r
    BY ONLY <2>4, <2>5
  <2> QED BY ONLY <2>2, <2>4, <2>6 DEF r, s, n
<1>5. ToHandOver = rest + Cardinality(Working) /\ ToHandOver' = rest' + Cardinality(Working')
  BY DEF ToHandOver
<1> HIDE DEF rest
<1>6. ToHandOver' < ToHandOver
  BY ONLY <1>2, <1>4, <1>5
<1> QED BY <1>6 DEF LessLeft, Lower

(* A consumer returns.                                                     *)
LEMMA ReturnLowers ==
  ASSUME Numbers, NoReturn, UNCHANGED <<nput, nget, nready, spurious>>,
         NEW c \in Consumers, pc[c] # "done", pc'[c] = "done"
  PROVE  LessLeft
<1>1. NItems \in Nat /\ MaxSpurious \in Nat
  BY ThreadFacts
<1>2. /\ Cardinality(Working') \in Nat /\ Cardinality(Working) \in Nat
      /\ Cardinality(Working') < Cardinality(Working)
  BY FewerWorking
<1> DEFINE rest == Items + (MaxSpurious - spurious)
<1>3. rest \in Int /\ rest' = rest
  BY <1>1 DEF Items, Numbers
<1>4. ToHandOver = rest + Cardinality(Working) /\ ToHandOver' = rest' + Cardinality(Working')
  BY DEF ToHandOver
<1> HIDE DEF rest
<1>5. ToHandOver' < ToHandOver
  BY ONLY <1>2, <1>3, <1>4
<1> QED BY <1>5 DEF LessLeft, Lower

(* A thread goes on to something of a lower rank.                          *)
LEMMA GotoLowers ==
  ASSUME Placed, Placed', Numbers, UNCHANGED <<nput, nget, nready, spurious>>,
         NEW t \in Threads, NEW from, NEW to, Goto(t, from, to), Rank(to) < Rank(from)
  PROVE  LessLeft
<1>1. pc[t] = from /\ pc'[t] = to /\ \A u \in Threads : u # t => pc'[u] = pc[u]
  BY DEF Goto, Placed
<1>2. \A u \in Threads : Rank(pc[u]) \in 0 .. 10 /\ Rank(pc'[u]) \in 0 .. 10
  BY PlaceFacts DEF Placed
<1>3. Rank(pc'[t]) < Rank(pc[t])
  BY <1>1
<1>4. ASSUME NEW u \in Threads PROVE Rank(pc'[u]) <= Rank(pc[u])
  <2>1. CASE u = t
    BY ONLY <1>2, <1>3, <2>1, u \in Threads
  <2>2. CASE u # t
    <3>1. Rank(pc'[u]) = Rank(pc[u])
      BY <1>1, <2>2
    <3> QED BY ONLY <1>2, <3>1, u \in Threads
  <2> QED BY <2>1, <2>2
<1>5. ToRun' < ToRun
  <2> DEFINE f == [u \in Threads |-> Rank(pc[u])]
             g == [u \in Threads |-> Rank(pc'[u])]
  <2>1. f \in [Threads -> 0 .. 10] /\ g \in [Threads -> 0 .. 10]
    BY <1>2
  <2>2. (\A u \in Threads : g[u] <= f[u]) /\ g[t] < f[t]
    BY <1>3, <1>4
  <2>3. Ranks = f /\ Ranks' = g
    BY DEF Ranks
  <2> HIDE DEF f, g
  <2>4. Total(Threads, 10, g) < Total(Threads, 10, f)
    BY <2>1, <2>2, ThreadsFinite, TotalFalls
  <2> QED BY <2>3, <2>4 DEF ToRun
<1>6. NoReturn
  <2> SUFFICES ASSUME NEW c \in Consumers, pc[c] = "done" PROVE pc'[c] = "done"
    BY DEF NoReturn
  <2>1. c \in Threads
    BY ThreadFacts
  <2>2. Rank(pc[c]) = 0
    BY RankFacts
  <2>3. c # t
    <3>1. Rank(pc'[t]) \in 0 .. 10 /\ Rank(pc[t]) \in 0 .. 10 /\ Rank(pc[t]) # 0
      BY ONLY <1>2, <1>3, t \in Threads
    <3> QED BY <2>2, <3>1
  <2> QED BY <1>1, <2>1, <2>3
<1>7. /\ Cardinality(Working') \in Nat /\ Cardinality(Working) \in Nat
      /\ Cardinality(Working') <= Cardinality(Working)
  BY <1>6, FewerWorking
<1> DEFINE rest == Items + (MaxSpurious - spurious)
<1>8. rest' = rest
  BY DEF Items
<1>9. ToHandOver = rest + Cardinality(Working) /\ ToHandOver' = rest' + Cardinality(Working')
  BY DEF ToHandOver
<1> HIDE DEF rest
<1>10. Cardinality(Working') < Cardinality(Working) \/ Cardinality(Working') = Cardinality(Working)
  BY ONLY <1>7
<1>11. ToHandOver' = ToHandOver \/ ToHandOver' < ToHandOver
  <2>1. rest \in Int
    <3>1. /\ NItems \in Nat /\ MaxSpurious \in Nat /\ nput \in Nat /\ nget \in Nat
          /\ nready \in Nat /\ spurious \in Nat
      BY ThreadFacts DEF Numbers
    <3> QED BY ONLY <3>1 DEF rest, Items
  <2> QED BY ONLY <1>7, <1>8, <1>9, <1>10, <2>1
<1> QED BY ONLY <1>5, <1>11 DEF LessLeft, Lower

LEMMA CreateLowers ==
  ASSUME IInv, Placed, Placed', Numbers, CreateProducer \/ CreateConsumer
  PROVE  LessLeft
<1>1. UNCHANGED <<nput, nget, nready, spurious>>
  BY DEF CreateProducer, CreateConsumer, putVars, readyVars
<1>2. CASE CreateProducer
  <2>1. mainI \in Slots
    BY <1>2, ThreadFacts DEF CreateProducer, Slots, IInv, TypeOK
  <2>2. mainI \in Threads
    BY <2>1, ThreadFacts
  <2>3. Rank("lockPut") < Rank("unborn")
    BY ONLY RankFacts
  <2> QED BY <1>1, <1>2, <2>2, <2>3, GotoLowers DEF CreateProducer
<1>3. CASE CreateConsumer
  <2>1. mainI \in Slots
    BY <1>3, ThreadFacts DEF CreateConsumer, Slots, IInv, TypeOK, PlaceInv
  <2>2. Consumer(mainI) \in Threads
    BY <2>1, ThreadFacts
  <2>3. Rank("loop") < Rank("unborn")
    BY ONLY RankFacts
  <2> QED BY <1>1, <1>3, <2>2, <2>3, GotoLowers DEF CreateConsumer
<1> QED BY <1>2, <1>3

(* main goes on, the threads stay where they are.                          *)
LEMMA JoinLowers ==
  ASSUME IInv, AllCreated \/ JoinProducer \/ JoinConsumer \/ Exit
  PROVE  LessLeft
<1>1. UNCHANGED <<nput, nget, nready, spurious, pc>>
  BY DEF AllCreated, JoinProducer, JoinConsumer, Exit, putVars, readyVars
<1>2. ToHandOver' = ToHandOver /\ ToRun' = ToRun
  BY <1>1 DEF ToHandOver, Items, Working, ToRun, Ranks
<1>3. NThreads \in Nat /\ mainI \in 0 .. NThreads
  BY ThreadFacts DEF IInv, TypeOK
<1>4. mainPc = "joinConsumer" => mainI < NThreads
  BY DEF IInv, PlaceInv
<1>5. ToJoin' < ToJoin
  <2>1. CASE AllCreated
    <3>1. mainPc = "createProducer" /\ mainPc' = "joinProducer" /\ mainI' = 0
      BY <2>1 DEF AllCreated
    <3> QED BY ONLY <1>3, <3>1 DEF ToJoin
  <2>2. CASE JoinProducer
    <3>1. mainPc = "joinProducer" /\ mainPc' = "joinConsumer" /\ mainI' = mainI
      BY <2>2 DEF JoinProducer
    <3> QED BY ONLY <1>3, <3>1 DEF ToJoin
  <2>3. CASE JoinConsumer
    <3>1. mainPc = "joinConsumer" /\ mainPc' = "joinProducer" /\ mainI' = mainI + 1
      BY <2>3 DEF JoinConsumer
    <3> QED BY ONLY <1>3, <3>1 DEF ToJoin
  <2>4. CASE Exit
    <3>1. mainPc = "joinProducer" /\ mainPc' = "exited" /\ mainI = NThreads
      BY <2>4 DEF Exit
    <3> QED BY ONLY <1>3, <3>1 DEF ToJoin
  <2> QED BY <2>1, <2>2, <2>3, <2>4
<1> QED BY ONLY <1>2, <1>5 DEF LessLeft, Lower

(* A signal moves nobody who has returned.                                 *)
LEMMA SignalMoves ==
  ASSUME Placed, NEW t \in Threads, NEW from, NEW to, from # "done",
         SignalAndGoto(t, from, to) \/ Goto(t, from, to)
  PROVE  NoReturn /\ pc[t] = from /\ (from # "wait" => pc'[t] = to)
<1>1. CASE Goto(t, from, to)
  BY <1>1 DEF Goto, Placed, NoReturn
<1>2. ASSUME NEW w \in Waiting, pc[t] = from, pc' = [pc EXCEPT ![t] = to, ![w] = "relock"]
      PROVE  NoReturn /\ pc[t] = from /\ (from # "wait" => pc'[t] = to)
  <2>1. w \in Consumers /\ pc[w] = "wait" /\ w \in Threads
    BY ThreadFacts DEF Waiting
  <2>2. \A u \in Threads : u # t /\ u # w => pc'[u] = pc[u]
    BY <1>2, <2>1 DEF Placed
  <2>3. NoReturn
    <3> SUFFICES ASSUME NEW c \in Consumers, pc[c] = "done" PROVE pc'[c] = "done"
      BY DEF NoReturn
    <3>1. c \in Threads /\ c # t /\ c # w
      BY <1>2, <2>1, ThreadFacts
    <3> QED BY <2>2, <3>1
  <2>4. from # "wait" => pc'[t] = to
    BY <1>2, <2>1 DEF Placed
  <2> QED BY <1>2, <2>3, <2>4
<1> QED BY <1>1, <1>2 DEF SignalAndGoto

LEMMA ProducerLowers ==
  ASSUME Placed, Placed', Numbers, Numbers', NEW p \in Producers, ProducerStep(p)
  PROVE  LessLeft
<1>0. p \in Threads
  BY ThreadFacts
<1>1. CASE LockPut(p) \/ Full(p) \/ Store(p) \/ LockReady(p, "lockReady", "announce")
           \/ LoadCount(p) \/ StoreCount(p, 1, "lockPut")
  <2>1. UNCHANGED <<nput, nget, nready, spurious>>
    BY <1>1 DEF LockPut, Full, Store, LockReady, LoadCount, StoreCount, putVars, readyVars
  <2>2. \/ Goto(p, "lockPut", "store") \/ Goto(p, "store", "done")
        \/ Goto(p, "store", "bump") \/ Goto(p, "lockReady", "announce")
        \/ Goto(p, "loadCount", "storeCount") \/ Goto(p, "storeCount", "lockPut")
    BY <1>1, Zenon DEF LockPut, Full, Store, LockReady, LoadCount, StoreCount
  <2>3. /\ Rank("store") < Rank("lockPut") /\ Rank("done") < Rank("store")
        /\ Rank("bump") < Rank("store") /\ Rank("announce") < Rank("lockReady")
        /\ Rank("storeCount") < Rank("loadCount") /\ Rank("lockPut") < Rank("storeCount")
    BY ONLY RankFacts
  <2> QED BY <1>0, <2>1, <2>2, <2>3, GotoLowers
<1>2. CASE Bump(p)
  <2>1. NoReturn
    BY <1>0, <1>2, SignalMoves DEF Bump
  <2>2. nput' = nput + 1 /\ UNCHANGED <<nget, nready, spurious>>
    BY <1>2 DEF Bump, readyVars
  <2> QED BY <2>1, <2>2, HandLowers
<1>3. CASE Announce(p)
  <2>1. SignalAndGoto(p, "announce", "loadCount") \/ Goto(p, "announce", "loadCount")
    BY <1>3, Zenon DEF Announce
  <2>2. NoReturn
    BY <1>0, <2>1, SignalMoves
  <2>3. nready' = nready + 1 /\ UNCHANGED <<nput, nget, spurious>>
    BY <1>3 DEF Announce, putVars
  <2> QED BY <2>2, <2>3, HandLowers
<1> QED BY <1>1, <1>2, <1>3 DEF ProducerStep

LEMMA ConsumerLowers ==
  ASSUME Placed, Placed', Numbers, Numbers',
         NEW c \in Consumers, ConsumerStep(c) \/ SpuriousWakeup(c)
  PROVE  LessLeft
<1>0. c \in Threads
  BY ThreadFacts
<1>1. CASE \/ LoopTest(c) \/ LockReady(c, "lockReady", "test")
           \/ LockReady(c, "relock", "test") \/ CondWait(c) \/ Check(c) \/ LoadCount(c)
  <2>1. UNCHANGED <<nput, nget, nready, spurious>>
    BY <1>1 DEF LoopTest, LockReady, CondWait, Check, LoadCount, putVars, readyVars
  <2>2. \/ Goto(c, "loop", "lockReady") \/ Goto(c, "loop", "loadCount")
        \/ Goto(c, "lockReady", "test") \/ Goto(c, "relock", "test")
        \/ Goto(c, "test", "wait") \/ Goto(c, "check", "loop")
        \/ Goto(c, "loadCount", "storeCount")
    <3>1. CASE LoopTest(c)
      BY <3>1 DEF LoopTest
    <3>2. CASE ~LoopTest(c)
      BY <1>1, <3>2, Zenon DEF LockReady, CondWait, Check, LoadCount
    <3> QED BY <3>1, <3>2
  <2>3. /\ Rank("lockReady") < Rank("loop") /\ Rank("loadCount") < Rank("loop")
        /\ Rank("test") < Rank("lockReady") /\ Rank("test") < Rank("relock")
        /\ Rank("wait") < Rank("test") /\ Rank("loop") < Rank("check")
        /\ Rank("storeCount") < Rank("loadCount")
    BY ONLY RankFacts
  <2> QED BY <1>0, <2>1, <2>2, <2>3, GotoLowers
<1>2. CASE GiveUp(c) \/ StoreCount(c, -1, "done")
  <2>1. UNCHANGED <<nput, nget, nready, spurious>>
    BY <1>2 DEF GiveUp, StoreCount, putVars, readyVars
  <2>2. PICK from \in {"test", "storeCount"} :
          SignalAndGoto(c, from, "done") \/ Goto(c, from, "done")
    BY <1>2, Zenon DEF GiveUp, StoreCount
  <2>3. from # "done" /\ from # "wait"
    OBVIOUS
  <2>4. NoReturn /\ pc[c] = from /\ pc'[c] = "done"
    BY ONLY <1>0, <2>2, <2>3, Placed, SignalMoves
  <2> QED BY <2>1, <2>3, <2>4, ReturnLowers
<1>3. CASE Take(c)
  <2>1. NoReturn
    BY <1>0, <1>3, SignalMoves DEF Take
  <2>2. nready' = nready - 1 /\ nget' = nget + 1 /\ UNCHANGED <<nput, spurious>>
    BY <1>3 DEF Take, putVars
  <2> QED BY <2>1, <2>2, HandLowers
<1>4. CASE SpuriousWakeup(c)
  <2>1. NoReturn
    BY <1>0, <1>4, SignalMoves DEF SpuriousWakeup
  <2>2. spurious' = spurious + 1 /\ UNCHANGED <<nput, nget, nready>>
    BY <1>4 DEF SpuriousWakeup, putVars, readyVars
  <2> QED BY <2>1, <2>2, HandLowers
<1> QED BY <1>1, <1>2, <1>3, <1>4 DEF ConsumerStep

(* However the threads interleave, and however often a wait returns with   *)
(* no signal (MaxSpurious times at most), nobody goes round its loop for   *)
(* ever: every step leaves fewer items to hand over, fewer threads' steps, *)
(* or fewer joins, and those cannot go on without end.  So a run in which  *)
(* main never exits is one that stands still, as ProdConsStuck.cfg shows;  *)
(* StandsStillOnlyThere, below, says where that can be.                    *)
THEOREM ThreadsRunOut ==
  IsWellFoundedOn(Down, Tally) /\ (Spec => [][(<<Left', Left>> \in Down)]_vars)
<1>1. IInv /\ Placed /\ Placed' /\ Numbers /\ Numbers' /\ LeftNats /\ LeftNats' /\ [Next]_vars
        => [(<<Left', Left>> \in Down)]_vars
  <2> SUFFICES ASSUME IInv, Placed, Placed', Numbers, Numbers', LeftNats, LeftNats',
                      Next, ~ UNCHANGED vars
               PROVE  <<Left', Left>> \in Down
    OBVIOUS
  <2>1. LessLeft
    <3>1. CASE CreateProducer \/ CreateConsumer
      BY <3>1, CreateLowers
    <3>2. CASE AllCreated \/ JoinProducer \/ JoinConsumer \/ Exit
      BY <3>2, JoinLowers
    <3>3. CASE \E p \in Producers : ProducerStep(p)
      BY <3>3, ProducerLowers
    <3>4. CASE \E c \in Consumers : ConsumerStep(c) \/ SpuriousWakeup(c)
      BY <3>4, ConsumerLowers
    <3>5. ~Terminated
      BY DEF Terminated
    <3> QED BY <3>1, <3>2, <3>3, <3>4, <3>5 DEF Next, MainStep
  <2>2. /\ ToHandOver \in Nat /\ ToRun \in Nat /\ ToJoin \in Nat
        /\ ToHandOver' \in Nat /\ ToRun' \in Nat /\ ToJoin' \in Nat
    BY Zenon DEF LeftNats
  <2>3. << <<ToHandOver', ToRun', ToJoin'>>, <<ToHandOver, ToRun, ToJoin>> >> \in Down
    BY ONLY <2>1, <2>2, GoesDown DEF LessLeft
  <2> QED BY <2>3, Zenon DEF Left
<1>2. IInv => Placed /\ Numbers /\ LeftNats
  BY LeftType, ThreadFacts DEF IInv, TypeOK, Numbers
<1>3. Spec => [][(<<Left', Left>> \in Down)]_vars
  BY <1>1, <1>2, Invariance, PTL DEF Spec
<1> QED BY <1>3, DownEnds

-----------------------------------------------------------------------------
(* Where the program can stand still.                                      *)

(* main has created the threads up to its loop index, and no others.       *)
BornInv ==
  \A i \in Slots :
    /\ pc[i] = "unborn" <=> \/ mainPc = "createProducer" /\ i >= mainI
                            \/ mainPc = "createConsumer" /\ i > mainI
    /\ pc[Consumer(i)] = "unborn" <=>
         mainPc \in {"createProducer", "createConsumer"} /\ i >= mainI

(* Who holds a mutex is at a place where it goes on to unlock it.          *)
HolderInv ==
  /\ putMutex # Free => pc[putMutex] \in {"store", "bump"}
  /\ readyMutex # Free => pc[readyMutex] \in {"announce", "test"}

(* A producer returns only from a full array.                              *)
FilledInv == \A p \in Producers : pc[p] = "done" => nput = NItems

(* No wakeup is lost: while an announced item is there to be taken, not    *)
(* all consumers that have not returned are blocked, though a producer     *)
(* signals only when nready is zero.                                       *)
SignalInv == nready > 0 => \/ Waiting = {}
                           \/ \E c \in Consumers : pc[c] \notin {"wait", "done"}

(* What main, or a thread, cannot go on from unless another moves: not yet *)
(* created or returned, a mutex another holds, pthread_cond_wait with no   *)
(* signal, a pthread_join.                                                 *)
MainBlocked ==
  \/ mainPc = "createProducer" /\ mainI < NThreads /\ pc[mainI] # "unborn"
  \/ mainPc = "createConsumer" /\ pc[Consumer(mainI)] # "unborn"
  \/ mainPc = "joinProducer" /\ mainI < NThreads /\ pc[mainI] # "done"
  \/ mainPc = "joinConsumer" /\ pc[Consumer(mainI)] # "done"
  \/ mainPc = "exited"
ThreadBlocked(t) ==
  \/ pc[t] \in {"unborn", "wait", "done"}
  \/ pc[t] = "lockPut" /\ putMutex # Free
  \/ pc[t] \in {"lockReady", "relock"} /\ readyMutex # Free
AllBlocked == MainBlocked /\ \A t \in Threads : ThreadBlocked(t)

(* A step of a thread is not that which creates it.                        *)
LEMMA BornMoves ==
  /\ \A p \in Producers : ProducerStep(p) => pc[p] # "unborn"
  /\ \A c \in Consumers : ConsumerStep(c) \/ SpuriousWakeup(c) => pc[c] # "unborn"
<1>1. ASSUME NEW p \in Producers, ProducerStep(p) PROVE pc[p] # "unborn"
  BY <1>1 DEF ProducerStep, LockPut, Full, Store, Bump, LockReady, Announce, LoadCount,
     StoreCount, SignalAndGoto, Goto
<1>2. ASSUME NEW c \in Consumers, ConsumerStep(c) \/ SpuriousWakeup(c) PROVE pc[c] # "unborn"
  BY <1>2 DEF ConsumerStep, LoopTest, LockReady, CondWait, GiveUp, Take, Check, LoadCount,
     StoreCount, SpuriousWakeup, SignalAndGoto, Goto
<1> QED BY <1>1, <1>2

LEMMA BornStays ==
  ASSUME TypeOK, NEW t \in Threads,
         \/ t \in Producers /\ ProducerStep(t)
         \/ t \in Consumers /\ (ConsumerStep(t) \/ SpuriousWakeup(t))
  PROVE  pc'[t] # "unborn"
<1> USE DEF TypeOK, Goto
<1>1. CASE t \in Producers /\ ProducerStep(t)
  <2>1. CASE Announce(t)
    BY <1>1, <2>1 DEF Announce, SignalAndGoto, Waiting
  <2>2. CASE ~Announce(t)
    BY <1>1, <2>2 DEF ProducerStep, LockPut, Full, Store, Bump, LockReady, LoadCount, StoreCount
  <2> QED BY <2>1, <2>2
<1>2. CASE t \in Consumers /\ (ConsumerStep(t) \/ SpuriousWakeup(t))
  <2>1. CASE GiveUp(t)
    BY <1>2, <2>1 DEF GiveUp, SignalAndGoto, Waiting
  <2>2. CASE ~GiveUp(t)
    BY <1>2, <2>2 DEF ConsumerStep, LoopTest, LockReady, CondWait, Take, Check, LoadCount,
       StoreCount, SpuriousWakeup
  <2> QED BY <2>1, <2>2
<1> QED BY <1>1, <1>2

(* Where a thread was it stays, unless the step is its own, creates it or  *)
(* wakes it.                                                               *)
LEMMA OthersRest ==
  ASSUME IInv, Next, ~MainStep
  PROVE  /\ UNCHANGED mainVars
         /\ \A u \in Threads : pc'[u] = "unborn" <=> pc[u] = "unborn"
<1>1. ASSUME NEW p \in Producers, ProducerStep(p)
      PROVE  UNCHANGED mainVars /\ \A u \in Threads : pc'[u] = "unborn" <=> pc[u] = "unborn"
  <2>1. /\ UNCHANGED mainVars /\ \A q \in Producers \ {p} : pc'[q] = pc[q]
        /\ \A c \in Consumers : pc'[c] = pc[c] \/ (pc[c] = "wait" /\ pc'[c] = "relock")
    BY <1>1, ProducerFrame
  <2>2. pc[p] # "unborn" /\ pc'[p] # "unborn"
    BY <1>1, BornMoves, BornStays, ThreadFacts DEF IInv
  <2> QED BY <2>1, <2>2, ThreadFacts
<1>2. ASSUME NEW c \in Consumers, ConsumerStep(c) \/ SpuriousWakeup(c)
      PROVE  UNCHANGED mainVars /\ \A u \in Threads : pc'[u] = "unborn" <=> pc[u] = "unborn"
  <2>1. /\ UNCHANGED mainVars /\ \A p \in Producers : pc'[p] = pc[p]
        /\ \A d \in Consumers \ {c} : pc'[d] = pc[d] \/ (pc[d] = "wait" /\ pc'[d] = "relock")
    BY <1>2, ConsumerFrame
  <2>2. pc[c] # "unborn" /\ pc'[c] # "unborn"
    BY <1>2, BornMoves, BornStays, ThreadFacts DEF IInv
  <2> QED BY <2>1, <2>2, ThreadFacts
<1>3. CASE Terminated
  BY <1>3 DEF Terminated, vars, mainVars
<1> QED BY <1>1, <1>2, <1>3 DEF Next

LEMMA BornStep == IInv /\ BornInv /\ [Next]_vars => BornInv'
<1> SUFFICES ASSUME IInv, BornInv, [Next]_vars, NEW i \in Slots
             PROVE  /\ pc'[i] = "unborn" <=> \/ mainPc' = "createProducer" /\ i >= mainI'
                                             \/ mainPc' = "createConsumer" /\ i > mainI'
                    /\ pc'[Consumer(i)] = "unborn" <=>
                         mainPc' \in {"createProducer", "createConsumer"} /\ i >= mainI'
  BY DEF BornInv
<1>0. /\ i \in Threads /\ Consumer(i) \in Threads /\ i \in Int /\ i < NThreads /\ NThreads \in Nat
      /\ mainI \in Int
  <2>1. i \in Threads /\ Consumer(i) \in Threads /\ NThreads \in Nat
    BY ThreadFacts
  <2>2. i \in Int /\ i < NThreads
    BY <2>1 DEF Slots
  <2>3. mainI \in Int
    BY <2>1 DEF IInv, TypeOK
  <2> QED BY <2>1, <2>2, <2>3
<1>1. /\ pc[i] = "unborn" <=> \/ mainPc = "createProducer" /\ i >= mainI
                              \/ mainPc = "createConsumer" /\ i > mainI
      /\ pc[Consumer(i)] = "unborn" <=>
           mainPc \in {"createProducer", "createConsumer"} /\ i >= mainI
  BY DEF BornInv
<1>2. CASE CreateProducer
  <2>1. /\ mainPc = "createProducer" /\ mainPc' = "createConsumer" /\ mainI' = mainI
        /\ mainI \in Slots /\ pc' = [pc EXCEPT ![mainI] = "lockPut"]
    BY <1>0, <1>2 DEF CreateProducer, Goto, Slots, IInv, TypeOK
  <2>2. mainI \in Threads /\ Consumer(i) # mainI
    BY <2>1, ThreadFacts
  <2>3. /\ i = mainI => pc'[i] = "lockPut"
        /\ i # mainI => pc'[i] = pc[i]
        /\ pc'[Consumer(i)] = pc[Consumer(i)]
    BY <1>0, <2>1, <2>2 DEF IInv, TypeOK
  <2> QED BY ONLY <1>0, <1>1, <2>1, <2>3
<1>3. CASE CreateConsumer
  <2>1. /\ mainPc = "createConsumer" /\ mainPc' = "createProducer" /\ mainI' = mainI + 1
        /\ mainI \in Slots /\ pc' = [pc EXCEPT ![Consumer(mainI)] = "loop"]
    BY <1>0, <1>3 DEF CreateConsumer, Goto, Slots, IInv, TypeOK, PlaceInv
  <2>2. /\ Consumer(mainI) \in Threads /\ Consumer(mainI) # i
        /\ Consumer(i) = Consumer(mainI) <=> i = mainI
    BY <1>0, <2>1, ThreadFacts DEF Consumer
  <2>3. /\ i = mainI => pc'[Consumer(i)] = "loop"
        /\ i # mainI => pc'[Consumer(i)] = pc[Consumer(i)]
        /\ pc'[i] = pc[i]
    BY <1>0, <2>1, <2>2 DEF IInv, TypeOK
  <2> QED BY ONLY <1>0, <1>1, <2>1, <2>3
<1>4. CASE AllCreated
  <2>1. mainPc = "createProducer" /\ mainPc' = "joinProducer" /\ mainI = NThreads /\ pc' = pc
    BY <1>4 DEF AllCreated
  <2> QED BY ONLY <1>0, <1>1, <2>1
<1>5. CASE JoinProducer \/ JoinConsumer \/ Exit
  <2>1. /\ mainPc \in {"joinProducer", "joinConsumer"} /\ pc' = pc
        /\ mainPc' \in {"joinProducer", "joinConsumer", "exited"}
    BY <1>5 DEF JoinProducer, JoinConsumer, Exit
  <2> QED BY ONLY <1>1, <2>1
<1>6. CASE Next /\ ~MainStep
  <2>1. /\ mainPc' = mainPc /\ mainI' = mainI
        /\ pc'[i] = "unborn" <=> pc[i] = "unborn"
        /\ pc'[Consumer(i)] = "unborn" <=> pc[Consumer(i)] = "unborn"
    BY <1>0, <1>6, OthersRest DEF mainVars
  <2> QED BY ONLY <1>1, <2>1
<1>7. CASE UNCHANGED vars
  <2>1. mainPc' = mainPc /\ mainI' = mainI /\ pc' = pc
    BY <1>7 DEF vars, mainVars
  <2> QED BY ONLY <1>1, <2>1
<1> QED BY <1>2, <1>3, <1>4, <1>5, <1>6, <1>7 DEF MainStep

LEMMA HolderMain ==
  ASSUME IInv, HolderInv, MainStep
  PROVE  HolderInv'
<1>1. /\ putMutex' = putMutex /\ readyMutex' = readyMutex
      /\ \A p \in Producers : pc'[p] = pc[p] \/ pc[p] = "unborn"
      /\ \A c \in Consumers : pc'[c] = pc[c] \/ pc[c] = "unborn"
  BY MainFrame DEF putVars, readyVars
<1>2. /\ putMutex \in Producers \cup {Free} /\ readyMutex \in Threads \cup {Free}
      /\ \A t \in Threads : t \in Producers \/ t \in Consumers
  BY ThreadFacts DEF IInv, TypeOK
<1> QED BY <1>1, <1>2 DEF HolderInv

LEMMA HolderProducer ==
  ASSUME IInv, HolderInv, NEW p \in Producers, ProducerStep(p)
  PROVE  HolderInv'
<1>1. /\ \A q \in Producers \ {p} : pc'[q] = pc[q]
      /\ \A c \in Consumers : pc'[c] = pc[c] \/ (pc[c] = "wait" /\ pc'[c] = "relock")
  BY ProducerFrame
<1>2. /\ putMutex \in Producers \cup {Free} /\ readyMutex \in Threads \cup {Free}
      /\ \A t \in Threads : t \in Producers \/ t \in Consumers
      /\ p \in Threads /\ pc \in [Threads -> ProducerPcs \cup ConsumerPcs]
  BY ThreadFacts DEF IInv, TypeOK
<1>3. putMutex' # Free => pc'[putMutex'] \in {"store", "bump"}
  <2>1. CASE LockPut(p)
    BY <1>2, <2>1 DEF LockPut, Goto
  <2>2. CASE Full(p) \/ Bump(p)
    BY <2>2 DEF Full, Bump
  <2>3. CASE Store(p)
    <3>1. putMutex' = putMutex /\ pc'[p] = "bump"
      BY <1>2, <2>3 DEF Store, Goto
    <3> QED BY <1>1, <1>2, <3>1 DEF HolderInv
  <2>4. CASE \/ LockReady(p, "lockReady", "announce") \/ Announce(p)
             \/ LoadCount(p) \/ StoreCount(p, 1, "lockPut")
    <3>1. putMutex' = putMutex /\ pc[p] \notin {"store", "bump"}
      BY <2>4 DEF LockReady, Announce, LoadCount, StoreCount, SignalAndGoto, Goto, putVars
    <3> QED BY <1>1, <1>2, <3>1 DEF HolderInv
  <2> QED BY <2>1, <2>2, <2>3, <2>4 DEF ProducerStep
<1>4. readyMutex' # Free => pc'[readyMutex'] \in {"announce", "test"}
  <2>1. CASE LockReady(p, "lockReady", "announce")
    BY <1>2, <2>1 DEF LockReady, Goto
  <2>2. CASE Announce(p)
    BY <2>2 DEF Announce
  <2>3. CASE \/ LockPut(p) \/ Full(p) \/ Store(p) \/ Bump(p)
             \/ LoadCount(p) \/ StoreCount(p, 1, "lockPut")
    <3>1. readyMutex' = readyMutex /\ pc[p] \notin {"announce", "test"}
      BY <2>3 DEF LockPut, Full, Store, Bump, LoadCount, StoreCount, Goto, readyVars
    <3>2. readyMutex # Free => readyMutex # p
      BY <3>1 DEF HolderInv
    <3>3. readyMutex # Free => pc'[readyMutex] = pc[readyMutex]
      BY <1>1, <1>2, <3>2 DEF HolderInv
    <3> QED BY <3>1, <3>3 DEF HolderInv
  <2> QED BY <2>1, <2>2, <2>3 DEF ProducerStep
<1> QED BY <1>3, <1>4 DEF HolderInv

LEMMA HolderConsumer ==
  ASSUME IInv, HolderInv, NEW c \in Consumers, ConsumerStep(c) \/ SpuriousWakeup(c)
  PROVE  HolderInv'
<1>1. /\ putMutex' = putMutex /\ \A p \in Producers : pc'[p] = pc[p]
      /\ \A d \in Consumers \ {c} : pc'[d] = pc[d] \/ (pc[d] = "wait" /\ pc'[d] = "relock")
  BY ConsumerFrame DEF putVars
<1>2. /\ putMutex \in Producers \cup {Free} /\ readyMutex \in Threads \cup {Free}
      /\ \A t \in Threads : t \in Producers \/ t \in Consumers
      /\ c \in Threads /\ pc \in [Threads -> ProducerPcs \cup ConsumerPcs]
  BY ThreadFacts DEF IInv, TypeOK
<1>3. putMutex' # Free => pc'[putMutex'] \in {"store", "bump"}
  BY <1>1, <1>2 DEF HolderInv
<1>4. readyMutex' # Free => pc'[readyMutex'] \in {"announce", "test"}
  <2>1. CASE LockReady(c, "lockReady", "test") \/ LockReady(c, "relock", "test")
    BY <1>2, <2>1 DEF LockReady, Goto
  <2>2. CASE CondWait(c) \/ GiveUp(c) \/ Take(c)
    BY <2>2 DEF CondWait, GiveUp, Take
  <2>3. CASE \/ LoopTest(c) \/ Check(c) \/ LoadCount(c) \/ StoreCount(c, -1, "done")
             \/ SpuriousWakeup(c)
    <3>1. readyMutex' = readyMutex /\ pc[c] \notin {"announce", "test"}
      BY <2>3 DEF LoopTest, Check, LoadCount, StoreCount, SpuriousWakeup, Goto, readyVars
    <3>2. readyMutex # Free => readyMutex # c
      BY <3>1 DEF HolderInv
    <3>3. readyMutex # Free => pc'[readyMutex] = pc[readyMutex]
      BY <1>1, <1>2, <3>2 DEF HolderInv
    <3> QED BY <3>1, <3>3 DEF HolderInv
  <2> QED BY <2>1, <2>2, <2>3 DEF ConsumerStep
<1> QED BY <1>3, <1>4 DEF HolderInv

LEMMA HolderStep == IInv /\ HolderInv /\ [Next]_vars => HolderInv'
<1> SUFFICES ASSUME IInv, HolderInv, [Next]_vars PROVE HolderInv'
  OBVIOUS
<1>1. CASE UNCHANGED vars
  BY <1>1 DEF vars, putVars, readyVars, HolderInv
<1> QED BY <1>1, HolderMain, HolderProducer, HolderConsumer DEF Next, Terminated

LEMMA FilledStep == IInv /\ FilledInv /\ [Next]_vars => FilledInv'
<1> SUFFICES ASSUME IInv, FilledInv, [Next]_vars, NEW q \in Producers, pc'[q] = "done"
             PROVE  nput' = NItems
  BY DEF FilledInv
<1>1. pc[q] = "done" => nput = NItems
  BY DEF FilledInv
<1>2. CASE MainStep
  <2>1. pc[q] = "done" /\ nput' = nput
    BY <1>2, MainFrame DEF putVars
  <2> QED BY <1>1, <2>1
<1>3. ASSUME NEW p \in Producers, ProducerStep(p) PROVE nput' = NItems
  <2>0. nput \in 0 .. NItems /\ NItems \in Nat /\ p \in Threads
    BY ThreadFacts DEF IInv, TypeOK
  <2>1. CASE Full(p)
    BY <2>0, <2>1 DEF Full
  <2>2. CASE ~Full(p)
    <3>1. pc'[p] # "done"
      <4>1. CASE Announce(p)
        BY <2>0, <4>1 DEF Announce, SignalAndGoto, Goto, Waiting, IInv, TypeOK
      <4>2. CASE ~Announce(p)
        BY <1>3, <2>0, <2>2, <4>2 DEF ProducerStep, LockPut, Store, Bump, LockReady, LoadCount,
           StoreCount, Goto, IInv, TypeOK
      <4> QED BY <4>1, <4>2
    <3>2. pc[q] = "done"
      BY <1>3, <3>1, ProducerFrame
    <3>3. ~Bump(p)
      BY <1>1, <2>0, <3>2 DEF Bump, Goto, IInv, PutInv
    <3>4. nput' = nput
      BY <1>3, <2>2, <3>3 DEF ProducerStep, LockPut, Store, LockReady, Announce, LoadCount,
         StoreCount, putVars
    <3> QED BY <1>1, <3>2, <3>4
  <2> QED BY <2>1, <2>2
<1>4. ASSUME NEW c \in Consumers, ConsumerStep(c) \/ SpuriousWakeup(c) PROVE nput' = NItems
  <2>1. pc[q] = "done" /\ nput' = nput
    BY <1>4, ConsumerFrame DEF putVars
  <2> QED BY <1>1, <2>1
<1>5. CASE UNCHANGED vars
  BY <1>1, <1>5 DEF vars, putVars
<1> QED BY <1>2, <1>3, <1>4, <1>5 DEF Next, Terminated

(* Three steps can take the last consumer away that is neither blocked nor *)
(* back; none of them does while there is an item to take.                 *)
LEMMA SignalStep == IInv /\ SignalInv /\ [Next]_vars => SignalInv'
<1> DEFINE Cared == \E c \in Consumers : pc[c] \notin {"wait", "done"}
<1> SUFFICES ASSUME IInv, SignalInv, [Next]_vars, nready' > 0
             PROVE  Waiting' = {} \/ Cared'
  BY DEF SignalInv
<1>0. nready > 0 => Waiting = {} \/ Cared
  BY DEF SignalInv
<1>1. CASE MainStep
  <2>1. nready' = nready /\ Waiting' = Waiting
    BY <1>1, MainFrame DEF readyVars, Waiting
  <2>2. \A c \in Consumers : pc[c] \notin {"wait", "done"} => pc'[c] \notin {"wait", "done"}
    BY <1>1, MainFrame
  <2> QED BY <1>0, <2>1, <2>2
<1>2. ASSUME NEW p \in Producers, ProducerStep(p) PROVE Waiting' = {} \/ Cared'
  <2>1. Waiting' \subseteq Waiting
    BY <1>2, ProducerFrame DEF Waiting
  <2>2. \A c \in Consumers : pc[c] \notin {"wait", "done"} => pc'[c] \notin {"wait", "done"}
    BY <1>2, ProducerFrame
  <2>3. CASE nready > 0
    BY <1>0, <2>1, <2>2, <2>3
  <2>4. CASE ~(nready > 0)
    <3>1. nready = 0
      BY <2>4, ThreadFacts DEF IInv, TypeOK
    <3>2. Announce(p)
      BY <1>2, <3>1 DEF ProducerStep, LockPut, Full, Store, Bump, LockReady, LoadCount,
         StoreCount, readyVars
    <3>3. SignalAndGoto(p, "announce", "loadCount")
      BY <3>1, <3>2 DEF Announce
    <3>4. CASE Waiting = {}
      BY <2>1, <3>4
    <3>5. CASE Waiting # {}
      <4>1. PICK w \in Waiting : pc' = [pc EXCEPT ![p] = "loadCount", ![w] = "relock"]
        BY <3>3, <3>5 DEF SignalAndGoto
      <4>2. w \in Consumers /\ pc'[w] = "relock"
        BY <4>1, ThreadFacts DEF Waiting, IInv, TypeOK
      <4> QED BY <4>2
    <3> QED BY <3>4, <3>5
  <2> QED BY <2>3, <2>4
<1>3. ASSUME NEW c \in Consumers, ConsumerStep(c) \/ SpuriousWakeup(c)
      PROVE  Waiting' = {} \/ Cared'
  <2>0. /\ nget \in 0 .. NItems /\ nput \in 0 .. NItems /\ nready \in 0 .. NItems /\ NItems \in Nat
        /\ nget + nready <= nput /\ c \in Threads
    BY Headroom, ThreadFacts DEF IInv, TypeOK
  <2>1. CASE LoopTest(c) \/ SpuriousWakeup(c) \/ Take(c) \/ Check(c) \/ LoadCount(c)
             \/ LockReady(c, "lockReady", "test") \/ LockReady(c, "relock", "test")
    <3>1. pc'[c] \notin {"wait", "done"}
      BY <2>0, <2>1 DEF LoopTest, SpuriousWakeup, Take, Check, LoadCount, LockReady, Goto,
         IInv, TypeOK
    <3> QED BY <3>1
  <2>2. CASE CondWait(c)
    BY <2>0, <2>2 DEF CondWait, MustWait
  <2>3. CASE GiveUp(c)
    BY <2>0, <2>3 DEF GiveUp
  <2>4. CASE StoreCount(c, -1, "done")
    <3>1. pc[c] = "storeCount" /\ nready' = nready
      BY <2>4 DEF StoreCount, Goto, readyVars
    <3>2. idx[c] = NItems /\ idx[c] <= nget
      BY <3>1 DEF IInv, TakeInv
    <3> QED BY <2>0, <3>1, <3>2
  <2> QED BY <1>3, <2>1, <2>2, <2>3, <2>4 DEF ConsumerStep
<1>4. CASE UNCHANGED vars
  BY <1>0, <1>4 DEF vars, readyVars, Waiting
<1> QED BY <1>1, <1>2, <1>3, <1>4 DEF Next, Terminated

(* No deadlock but one: when nobody can go on, main has exited, or one     *)
(* consumer has gone round its loop for every item.  That consumer left    *)
(* with no signal to the others, which is how ProdConsStuck.cfg shows main *)
(* joining a blocked thread for ever.  No mutex is left locked, no thread  *)
(* is left uncreated and no wakeup is lost.                                *)
THEOREM StandsStillOnlyThere ==
  Spec => [](AllBlocked => mainPc = "exited" \/ \E c \in Consumers : idx[c] = NItems)
<1> DEFINE Still == AllBlocked => mainPc = "exited" \/ \E c \in Consumers : idx[c] = NItems
           Others == BornInv /\ HolderInv /\ FilledInv /\ SignalInv
<1>1. IInv /\ WaitersHaveRescuer /\ Others => Still
  <2> SUFFICES ASSUME IInv, WaitersHaveRescuer, Others, AllBlocked, mainPc # "exited",
                      ~ \E c \in Consumers : idx[c] = NItems
               PROVE  FALSE
    OBVIOUS
  <2>0. /\ \A t \in Threads : ThreadBlocked(t)
        /\ MainBlocked
    BY DEF AllBlocked
  <2>1. /\ putMutex \in Producers \cup {Free} /\ readyMutex \in Threads \cup {Free}
        /\ mainI \in 0 .. NThreads /\ NThreads \in Nat /\ NItems \in Nat
        /\ nput \in 0 .. NItems /\ nget \in 0 .. NItems /\ nready \in 0 .. NItems
        /\ mainPc \in {"createConsumer", "joinConsumer"} => mainI < NThreads
    BY ThreadFacts DEF IInv, TypeOK, PlaceInv
  <2>2. putMutex = Free /\ readyMutex = Free
    <3>1. CASE putMutex # Free
      <4>1. putMutex \in Threads /\ pc[putMutex] \in {"store", "bump"}
        BY <2>1, <3>1, ThreadFacts DEF HolderInv
      <4> QED BY <2>0, <4>1 DEF ThreadBlocked
    <3>2. CASE readyMutex # Free
      <4>1. readyMutex \in Threads /\ pc[readyMutex] \in {"announce", "test"}
        BY <2>1, <3>2 DEF HolderInv
      <4> QED BY <2>0, <4>1 DEF ThreadBlocked
    <3> QED BY <3>1, <3>2
  <2>3. mainI \in Slots /\ mainPc \in {"joinProducer", "joinConsumer"}
    <3>1. mainI \in Slots
      BY <2>0, <2>1 DEF MainBlocked, Slots
    <3>2. mainPc # "createProducer" /\ mainPc # "createConsumer"
      BY <2>0, <2>1, <3>1 DEF MainBlocked, BornInv
    <3> QED BY <2>0, <3>1, <3>2 DEF MainBlocked
  <2>4. \A i \in Slots : pc[i] # "unborn" /\ pc[Consumer(i)] # "unborn"
    BY <2>3 DEF BornInv
  <2>5. \A p \in Producers : pc[p] = "done"
    <3> SUFFICES ASSUME NEW p \in Producers PROVE pc[p] = "done"
      OBVIOUS
    <3>1. pc[p] \in ProducerPcs /\ ThreadBlocked(p) /\ pc[p] # "unborn"
      BY <2>0, <2>4, ThreadFacts DEF IInv, PlaceInv, Producers
    <3> QED BY <2>2, <3>1 DEF ThreadBlocked, ProducerPcs
  <2>6. \A c \in Consumers : pc[c] \in {"wait", "done"}
    <3> SUFFICES ASSUME NEW c \in Consumers PROVE pc[c] \in {"wait", "done"}
      OBVIOUS
    <3>1. pc[c] # "unborn"
      <4>1. c - NThreads \in Slots /\ c = Consumer(c - NThreads)
        BY <2>1 DEF Consumers, Slots, Consumer
      <4> QED BY <2>4, <4>1
    <3>2. pc[c] \in ConsumerPcs /\ ThreadBlocked(c)
      BY <2>0, ThreadFacts DEF IInv, PlaceInv
    <3> QED BY <2>2, <3>1, <3>2 DEF ThreadBlocked, ConsumerPcs
  <2>7. nput = NItems
    <3>1. mainI \in Producers
      BY <2>3 DEF Producers
    <3> QED BY <2>5, <3>1 DEF FilledInv
  <2>8. nget + nready = NItems
    <3>1. Unannounced = {}
      BY <2>5 DEF Unannounced
    <3>2. Cardinality(Unannounced) = 0
      BY <3>1, FS_EmptySet
    <3> QED BY <2>1, <2>7, <3>2 DEF IInv, Accounting
  <2>9. Waiting # {}
    <3>1. Consumer(mainI) \in Consumers /\ mainI \in Producers
      BY <2>3, ThreadFacts
    <3>2. pc[Consumer(mainI)] # "done"
      BY <2>0, <2>3, <2>5, <3>1 DEF MainBlocked
    <3> QED BY <2>6, <3>1, <3>2 DEF Waiting
  <2>10. ~ \E c \in Consumers : pc[c] \notin {"wait", "done"}
    BY <2>6
  <2>11. CASE nget = NItems
    BY <2>9, <2>10, <2>11 DEF WaitersHaveRescuer
  <2>12. CASE nget # NItems
    <3>1. nready > 0
      BY ONLY <2>1, <2>8, <2>12
    <3> QED BY <2>9, <2>10, <3>1 DEF SignalInv
  <2> QED BY <2>11, <2>12
<1>2. Init => Others
  <2> SUFFICES ASSUME Init PROVE Others
    OBVIOUS
  <2>1. \A t \in Threads : pc[t] = "unborn"
    BY DEF Init
  <2>2. BornInv
    <3>1. mainPc = "createProducer" /\ mainI = 0
      BY DEF Init
    <3>2. ASSUME NEW i \in Slots
          PROVE  /\ pc[i] = "unborn" <=> \/ mainPc = "createProducer" /\ i >= mainI
                                         \/ mainPc = "createConsumer" /\ i > mainI
                 /\ pc[Consumer(i)] = "unborn" <=>
                      mainPc \in {"createProducer", "createConsumer"} /\ i >= mainI
      <4>1. pc[i] = "unborn" /\ pc[Consumer(i)] = "unborn"
        BY <2>1, ThreadFacts
      <4>2. i >= mainI
        BY <3>1, ThreadFacts DEF Slots
      <4> QED BY ONLY <3>1, <4>1, <4>2
    <3> QED BY <3>2, Zenon DEF BornInv
  <2>3. HolderInv
    BY DEF Init, HolderInv
  <2>4. FilledInv
    BY <2>1, ThreadFacts DEF FilledInv
  <2>5. SignalInv
    BY DEF Init, SignalInv
  <2> QED BY <2>2, <2>3, <2>4, <2>5
<1>3. IInv /\ Others /\ [Next]_vars => Others'
  BY BornStep, HolderStep, FilledStep, SignalStep
<1> QED BY <1>1, <1>2, <1>3, Invariance, Rescue, PTL DEF Spec
=============================================================================
