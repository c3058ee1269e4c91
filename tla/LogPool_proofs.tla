----------------------------- MODULE LogPool_proofs -----------------------------
(***************************************************************************)
(* Proofs about LogPool for any number of workers, producers and entries.  *)
(*                                                                         *)
(* The properties rest on one inductive invariant.  Mutex says that at     *)
(* most one thread is inside the lock.  Order numbers the queue: it        *)
(* continues what has been written, of which the last entry is still in    *)
(* front of the queue while its writer is about to pop it.  Stopping ties  *)
(* the destructor to the producers, which are gone before it starts, and   *)
(* to the workers, which leave only when stop is set and nothing is left.  *)
(***************************************************************************)
EXTENDS LogPool, TLAPS

Mutex == \A t, u \in Thread : pc[t] \in Critical /\ pc[u] \in Critical => t = u

Popping == \E w \in Workers : pc[w] = "pop"

(* Entries that have left the queue.                                       *)
Gone == IF Popping THEN Len(written) - 1 ELSE Len(written)

Order ==
    /\ \A i \in 1..Len(written) : written[i] = i
    /\ Popping => queue # <<>>
    /\ Gone + Len(queue) = accepted
    /\ \A i \in 1..Len(queue) : queue[i] = Gone + i

Stopping ==
    /\ stop <=> pc[Owner] \in {"join", "gone"}
    /\ pc[Owner] # "idle" => \A p \in Producers : pc[p] = "released"
    /\ \A w \in Workers : pc[w] = "exited" => stop /\ queue = <<>>
    /\ pc[Owner] = "gone" => \A w \in Workers : pc[w] = "exited"

Room == \A p \in Producers : pc[p] = "push" => accepted < MaxEntries

PoolInv == /\ TypeOK /\ Mutex /\ Order /\ Stopping /\ Room
           /\ NoLostWakeup /\ NobodySleepsThroughStop

-----------------------------------------------------------------------------
(* The invariant holds initially: all workers queue for the mutex.         *)
LEMMA InitPoolInv == Init => PoolInv
<1> SUFFICES ASSUME Init PROVE PoolInv
  OBVIOUS
<1> USE PoolAssumption DEF PoolAssumption, Init, Started, Thread
<1>1. TypeOK
  <2>1. /\ pc \in [Thread -> WorkerAt \cup ProducerAt \cup OwnerAt]
        /\ \A w \in Workers : pc[w] \in WorkerAt
        /\ \A p \in Producers : pc[p] \in ProducerAt
        /\ pc[Owner] \in OwnerAt
    BY DEF WorkerAt, ProducerAt, OwnerAt
  <2>2. queue \in Seq(1..MaxEntries) /\ written \in Seq(1..MaxEntries)
    OBVIOUS
  <2>3. stop \in BOOLEAN
    OBVIOUS
  <2>4. accepted \in 0..MaxEntries
    OBVIOUS
  <2> QED
    BY <2>1, <2>2, <2>3, <2>4 DEF TypeOK
<1>2. Mutex /\ Room /\ Stopping /\ NoLostWakeup /\ NobodySleepsThroughStop
  BY DEF Mutex, Critical, Room, Stopping, NoLostWakeup, NobodySleepsThroughStop, Waiting
<1>3. Order
  BY DEF Order, Popping, Gone
<1> QED
  BY <1>1, <1>2, <1>3 DEF PoolInv

(* Where the critical threads are after a thread took the mutex, gave it   *)
(* up or stayed inside.                                                    *)
LEMMA MutexStep == PoolInv /\ Next => Mutex'
<1> SUFFICES ASSUME PoolInv, Next PROVE Mutex'
  OBVIOUS
<1> USE PoolAssumption DEF PoolAssumption, PoolInv, TypeOK, Mutex, Thread, MutexFree, Critical, Waiting
<1>1. ASSUME NEW w \in Workers, Worker(w) PROVE Mutex'
  BY <1>1 DEF Worker, Acquire, Wait, Exit, Write, Pop, WakeSpuriously
<1>2. ASSUME NEW p \in Producers, Producer(p) PROVE Mutex'
  BY <1>2 DEF Producer, Enter, Push, Release
<1>3. ASSUME Destructor PROVE Mutex'
  <2>1. CASE Destroy
    BY <2>1 DEF Destroy
  <2>2. CASE StopAll
    BY <2>2 DEF StopAll, Woken
  <2>3. CASE Join
    BY <2>3 DEF Join
  <2> QED
    BY <1>3, <2>1, <2>2, <2>3 DEF Destructor
<1>4. ASSUME Done PROVE Mutex'
  BY <1>4 DEF Done, vars
<1> QED
  BY <1>1, <1>2, <1>3, <1>4 DEF Next

-----------------------------------------------------------------------------
(* What a worker is about to write is the entry after the last one written. *)
LEMMA FrontIsNext == ASSUME PoolInv, NEW w \in Workers, pc[w] = "check", queue # <<>>
                     PROVE  /\ ~Popping
                            /\ Head(queue) = Len(written) + 1
                            /\ Head(queue) \in 1..MaxEntries
<1>1. ~Popping
  BY DEF PoolInv, Popping, Mutex, Critical, Thread
<1>2. /\ queue \in Seq(1..MaxEntries) /\ Len(written) \in Nat
      /\ \A i \in 1..Len(queue) : queue[i] = Len(written) + i
      /\ Len(written) + Len(queue) = accepted /\ accepted \in 0..MaxEntries
  BY <1>1 DEF PoolInv, TypeOK, Order, Gone
<1>3. 1 \in 1..Len(queue)
  BY <1>2
<1>4. Head(queue) = queue[1]
  BY <1>2, <1>3
<1>5. queue[1] \in 1..MaxEntries
  BY <1>2, <1>3, PoolAssumption DEF PoolAssumption
<1> QED
  BY <1>1, <1>2, <1>3, <1>4, <1>5

(* A step of a worker keeps the invariant.                                 *)
LEMMA WorkerStep == ASSUME PoolInv, NEW w \in Workers, Worker(w), Mutex'
                    PROVE  PoolInv'
<1> USE PoolAssumption DEF PoolAssumption, Thread
<1>1. CASE Acquire(w)
  <2> USE <1>1 DEF Acquire, PoolInv
  <2>1. TypeOK'
    BY DEF TypeOK, WorkerAt, ProducerAt, OwnerAt
  <2>2. Order'
    BY DEF TypeOK, Order, Gone, Popping
  <2>3. Stopping' /\ Room' /\ NoLostWakeup' /\ NobodySleepsThroughStop'
    BY DEF TypeOK, Stopping, Room, NoLostWakeup, NobodySleepsThroughStop, Waiting
  <2> QED
    BY <2>1, <2>2, <2>3
<1>2. CASE Wait(w)
  <2> USE <1>2 DEF Wait, PoolInv
  <2>1. TypeOK'
    BY DEF TypeOK, WorkerAt, ProducerAt, OwnerAt
  <2>2. Order'
    BY DEF TypeOK, Order, Gone, Popping
  <2>3. Stopping' /\ Room' /\ NoLostWakeup' /\ NobodySleepsThroughStop'
    BY DEF TypeOK, Stopping, Room, NoLostWakeup, NobodySleepsThroughStop, Waiting
  <2> QED
    BY <2>1, <2>2, <2>3
<1>3. CASE Exit(w)
  <2> USE <1>3 DEF Exit, PoolInv
  <2>1. TypeOK'
    BY DEF TypeOK, WorkerAt, ProducerAt, OwnerAt
  <2>2. Order'
    BY DEF TypeOK, Order, Gone, Popping
  <2>3. Stopping' /\ Room' /\ NoLostWakeup' /\ NobodySleepsThroughStop'
    BY DEF TypeOK, Stopping, Room, NoLostWakeup, NobodySleepsThroughStop, Waiting
  <2> QED
    BY <2>1, <2>2, <2>3
<1>4. CASE Write(w)
  <2> USE <1>4 DEF Write, PoolInv
  <2>1. ~Popping
    BY FrontIsNext
  <2>2. Popping'
    BY DEF Popping, TypeOK
  <2>3. /\ queue # <<>> /\ Head(queue) = Len(written) + 1
        /\ Head(queue) \in 1..MaxEntries
    BY FrontIsNext
  <2>4. TypeOK'
    BY <2>3 DEF TypeOK, WorkerAt, ProducerAt, OwnerAt
  <2>5. Order'
    <3>1. /\ Len(written') = Len(written) + 1
          /\ \A i \in 1..Len(written') : written'[i] = i
      BY <2>3 DEF TypeOK, Order
    <3>2. Gone' = Gone
      BY <2>1, <2>2, <3>1 DEF Gone, TypeOK
    <3> QED
      BY <2>2, <2>3, <3>1, <3>2 DEF Order
  <2>6. Stopping' /\ Room' /\ NoLostWakeup' /\ NobodySleepsThroughStop'
    BY DEF TypeOK, Stopping, Room, NoLostWakeup, NobodySleepsThroughStop, Waiting
  <2> QED
    BY <2>4, <2>5, <2>6
<1>5. CASE Pop(w)
  <2> USE <1>5 DEF Pop, PoolInv
  <2>1. Popping
    BY DEF Popping
  <2>2. ~Popping'
    BY DEF Popping, TypeOK, Mutex, Critical
  <2>3. /\ queue # <<>>
        /\ Tail(queue) \in Seq(1..MaxEntries) /\ Len(Tail(queue)) = Len(queue) - 1
        /\ \A i \in 1..Len(Tail(queue)) : Tail(queue)[i] = queue[i + 1]
    BY <2>1 DEF TypeOK, Order
  <2>4. TypeOK'
    BY <2>3 DEF TypeOK, WorkerAt, ProducerAt, OwnerAt
  <2>5. Order'
    <3>1. Gone' = Gone + 1
      BY <2>1, <2>2 DEF Gone, TypeOK
    <3> QED
      BY <2>2, <2>3, <3>1 DEF Order, TypeOK, Gone
  <2>6. Stopping' /\ Room' /\ NoLostWakeup' /\ NobodySleepsThroughStop'
    BY <2>3 DEF TypeOK, Stopping, Room, NoLostWakeup, NobodySleepsThroughStop, Waiting
  <2> QED
    BY <2>4, <2>5, <2>6
<1>6. CASE WakeSpuriously(w)
  <2> USE <1>6 DEF WakeSpuriously, PoolInv
  <2>1. TypeOK'
    BY DEF TypeOK, WorkerAt, ProducerAt, OwnerAt
  <2>2. Order'
    BY DEF TypeOK, Order, Gone, Popping
  <2>3. Stopping' /\ Room' /\ NoLostWakeup' /\ NobodySleepsThroughStop'
    BY DEF TypeOK, Stopping, Room, NoLostWakeup, NobodySleepsThroughStop, Waiting
  <2> QED
    BY <2>1, <2>2, <2>3
<1> QED
  BY <1>1, <1>2, <1>3, <1>4, <1>5, <1>6 DEF Worker

(* A step of a producer keeps the invariant.                               *)
LEMMA ProducerStep == ASSUME PoolInv, NEW p \in Producers, Producer(p), Mutex'
                      PROVE  PoolInv'
<1> USE PoolAssumption DEF PoolAssumption, Thread
<1>1. CASE Enter(p)
  <2> USE <1>1 DEF Enter, PoolInv
  <2>1. TypeOK'
    BY DEF TypeOK, WorkerAt, ProducerAt, OwnerAt
  <2>2. Order'
    BY DEF TypeOK, Order, Gone, Popping
  <2>3. Stopping' /\ NoLostWakeup' /\ NobodySleepsThroughStop'
    BY DEF TypeOK, Stopping, NoLostWakeup, NobodySleepsThroughStop, Waiting
  <2>4. Room'
    BY DEF TypeOK, Room, MutexFree, Critical
  <2> QED
    BY <2>1, <2>2, <2>3, <2>4
<1>2. CASE Push(p)
  <2> USE <1>2 DEF Push, PoolInv
  <2>1. ~Popping
    BY DEF Popping, Mutex, Critical
  <2>2. ~Popping'
    BY <2>1 DEF Popping, TypeOK, Waiting
  <2>3. accepted + 1 \in 1..MaxEntries
    BY DEF TypeOK, Room
  <2>4. /\ Len(queue') = Len(queue) + 1 /\ queue' # <<>>
        /\ \A i \in 1..Len(queue) : queue'[i] = queue[i]
        /\ queue'[Len(queue) + 1] = accepted + 1
        /\ queue' \in Seq(1..MaxEntries)
    <3>1. queue' = Append(queue, accepted + 1) /\ queue \in Seq(1..MaxEntries)
      BY DEF TypeOK
    <3> HIDE <1>2 DEF Push, PoolInv
    <3>2. queue' \in Seq(1..MaxEntries)
      BY <2>3, <3>1
    <3>3. Len(queue') = Len(queue) + 1 /\ queue' # <<>>
      BY <2>3, <3>1
    <3>4. /\ \A i \in 1..Len(queue) : queue'[i] = queue[i]
          /\ queue'[Len(queue) + 1] = accepted + 1
      BY <2>3, <3>1
    <3> QED
      BY <3>2, <3>3, <3>4
  <2>5. TypeOK'
    <3>1. /\ pc' \in [Thread -> WorkerAt \cup ProducerAt \cup OwnerAt]
          /\ \A w \in Workers : pc'[w] \in WorkerAt
          /\ \A q \in Producers : pc'[q] \in ProducerAt
          /\ pc'[Owner] \in OwnerAt
      BY DEF TypeOK, WorkerAt, ProducerAt, OwnerAt, Waiting
    <3>2. accepted' \in 0..MaxEntries
      BY <2>3
    <3> QED
      BY <2>4, <3>1, <3>2 DEF TypeOK
  <2>6. Order'
    <3>1. Gone' = Gone /\ Gone = Len(written) /\ Len(written) \in Nat /\ Len(queue) \in Nat
      BY <2>1, <2>2 DEF Gone, TypeOK
    <3>2. Gone + Len(queue) = accepted /\ accepted' = accepted + 1 /\ written' = written
      BY DEF Order
    <3>3. \A i \in 1..Len(queue') : queue'[i] = Gone' + i
      <4> SUFFICES ASSUME NEW i \in 1..(Len(queue) + 1) PROVE queue'[i] = Gone + i
        BY <2>4, <3>1
      <4>1. CASE i \in 1..Len(queue)
        BY <2>4, <4>1 DEF Order
      <4>2. CASE i = Len(queue) + 1
        <5> HIDE <1>2 DEF Push, PoolInv
        <5> QED
          BY <2>4, <3>1, <3>2, <4>2
      <4> QED
        BY <3>1, <4>1, <4>2
    <3>4. \A i \in 1..Len(written') : written'[i] = i
      BY <3>2 DEF Order
    <3> QED
      BY <2>2, <2>4, <3>1, <3>2, <3>3, <3>4 DEF Order
  <2>7. pc[Owner] = "idle" /\ ~stop
    BY DEF Stopping, TypeOK, OwnerAt
  <2>8. /\ pc'[Owner] = "idle" /\ ~stop'
        /\ \A w \in Workers : pc'[w] # "exited"
    BY <2>7 DEF TypeOK, Stopping, Waiting
  <2>9. Stopping' /\ NobodySleepsThroughStop'
    BY <2>7, <2>8 DEF Stopping, NobodySleepsThroughStop
  <2>10. NoLostWakeup'
    BY <2>8 DEF NoLostWakeup, Waiting, TypeOK
  <2>11. Room'
    BY DEF Room, Mutex, Critical, TypeOK, Waiting, ProducerAt
  <2> QED
    BY <2>5, <2>6, <2>9, <2>10, <2>11
<1>3. CASE Release(p)
  <2> USE <1>3 DEF Release, PoolInv
  <2>1. TypeOK'
    BY DEF TypeOK, WorkerAt, ProducerAt, OwnerAt
  <2>2. Order'
    BY DEF TypeOK, Order, Gone, Popping
  <2>3. Stopping' /\ Room' /\ NoLostWakeup' /\ NobodySleepsThroughStop'
    BY DEF TypeOK, Stopping, Room, NoLostWakeup, NobodySleepsThroughStop, Waiting
  <2> QED
    BY <2>1, <2>2, <2>3
<1> QED
  BY <1>1, <1>2, <1>3 DEF Producer

(* A step of the destructor keeps the invariant.                           *)
LEMMA DestructorStep == ASSUME PoolInv, Destructor, Mutex'
                        PROVE  PoolInv'
<1> USE PoolAssumption DEF PoolAssumption, Thread
<1>1. CASE Destroy
  <2> USE <1>1 DEF Destroy, PoolInv
  <2>1. TypeOK'
    BY DEF TypeOK, WorkerAt, ProducerAt, OwnerAt
  <2>2. Order'
    BY DEF TypeOK, Order, Gone, Popping
  <2>3. Stopping' /\ Room' /\ NoLostWakeup' /\ NobodySleepsThroughStop'
    BY DEF TypeOK, Stopping, Room, NoLostWakeup, NobodySleepsThroughStop, Waiting
  <2> QED
    BY <2>1, <2>2, <2>3
<1>2. CASE StopAll
  <2> USE <1>2 DEF StopAll, Woken, PoolInv
  <2>1. TypeOK'
    <3>1. /\ pc' \in [Thread -> WorkerAt \cup ProducerAt \cup OwnerAt]
          /\ \A w \in Workers : pc'[w] \in WorkerAt
          /\ \A p \in Producers : pc'[p] \in ProducerAt
          /\ pc'[Owner] \in OwnerAt
      BY DEF TypeOK, WorkerAt, ProducerAt, OwnerAt, Waiting
    <3>2. stop' \in BOOLEAN
      OBVIOUS
    <3> QED
      BY <3>1, <3>2 DEF TypeOK
  <2>2. Popping' <=> Popping
    BY DEF Popping, Waiting
  <2>3. Order'
    BY <2>2 DEF TypeOK, Order, Gone
  <2>4. /\ pc'[Owner] = "join" /\ stop'
        /\ \A w \in Workers : pc'[w] # "wait" /\ pc'[w] # "exited"
        /\ \A p \in Producers : pc'[p] = pc[p]
    BY DEF TypeOK, Stopping, Waiting
  <2>5. Stopping' /\ Room' /\ NoLostWakeup' /\ NobodySleepsThroughStop'
    BY <2>4 DEF TypeOK, Stopping, Room, NoLostWakeup, NobodySleepsThroughStop, Waiting
  <2> QED
    BY <2>1, <2>3, <2>5
<1>3. CASE Join
  <2> USE <1>3 DEF Join, PoolInv
  <2>1. TypeOK'
    BY DEF TypeOK, WorkerAt, ProducerAt, OwnerAt
  <2>2. Order'
    BY DEF TypeOK, Order, Gone, Popping
  <2>3. Stopping' /\ Room' /\ NoLostWakeup' /\ NobodySleepsThroughStop'
    BY DEF TypeOK, Stopping, Room, NoLostWakeup, NobodySleepsThroughStop, Waiting
  <2> QED
    BY <2>1, <2>2, <2>3
<1> QED
  BY <1>1, <1>2, <1>3 DEF Destructor

(* The invariant is inductive.                                             *)
LEMMA NextPoolInv == PoolInv /\ [Next]_vars => PoolInv'
<1> SUFFICES ASSUME PoolInv, [Next]_vars PROVE PoolInv'
  OBVIOUS
<1>1. CASE Next
  <2>1. Mutex'
    BY <1>1, MutexStep
  <2>2. ASSUME Done PROVE PoolInv'
    BY <2>2 DEF Done, vars, PoolInv, TypeOK, Mutex, Order, Gone, Popping, Stopping, Room,
                NoLostWakeup, NobodySleepsThroughStop, Waiting
  <2> QED
    BY <1>1, <2>1, <2>2, WorkerStep, ProducerStep, DestructorStep DEF Next
<1>2. CASE UNCHANGED vars
  BY <1>2 DEF vars, PoolInv, TypeOK, Mutex, Order, Gone, Popping, Stopping, Room,
              NoLostWakeup, NobodySleepsThroughStop, Waiting
<1> QED
  BY <1>1, <1>2

LEMMA SpecPoolInv == Spec => []PoolInv
<1> QED
  BY InitPoolInv, NextPoolInv, PTL DEF Spec

-----------------------------------------------------------------------------
(* The variables keep their types: in particular no entry but those        *)
(* accepted ever stands in the queue or the log.                           *)
THEOREM PoolTypes == Spec => []TypeOK
<1>1. PoolInv => TypeOK
  BY DEF PoolInv
<1> QED
  BY <1>1, SpecPoolInv, PTL

(* However many workers and producers there are, one notification per push *)
(* is enough: entries in the queue never face workers that are all asleep. *)
THEOREM NoWakeupIsLost == Spec => []NoLostWakeup
<1>1. PoolInv => NoLostWakeup
  BY DEF PoolInv
<1> QED
  BY <1>1, SpecPoolInv, PTL

(* The joins of the destructor never wait for a worker that sleeps.        *)
THEOREM JoinsMeetNoSleeper == Spec => []NobodySleepsThroughStop
<1>1. PoolInv => NobodySleepsThroughStop
  BY DEF PoolInv
<1> QED
  BY <1>1, SpecPoolInv, PTL

(* There is work to do: entries are queued, a thread holds the mutex, or    *)
(* the destructor has begun and not returned.                              *)
AtWork == \/ queue # <<>>
          \/ \E t \in Thread : pc[t] \in Critical
          \/ pc[Owner] \in {"stop", "join"}

(* The thread is at a step it can take now, and not by a spurious wakeup:   *)
(* it holds the mutex, or queues for a free one, or joins workers that have *)
(* left.                                                                   *)
CanGo(t) == \/ pc[t] \in Critical
            \/ pc[t] = "lock" /\ MutexFree
            \/ pc[t] = "join" /\ \A w \in Workers : pc[w] = "exited"

(* The mutex, the condition variable and the joins never block everybody:  *)
(* while there is work some thread can go on, with any number of workers   *)
(* and producers.                                                          *)
THEOREM PoolNeverBlocks == Spec => [](AtWork => \E t \in Thread : CanGo(t))
<1>1. PoolInv => (AtWork => \E t \in Thread : CanGo(t))
  <2> SUFFICES ASSUME PoolInv, AtWork, MutexFree PROVE \E t \in Thread : CanGo(t)
    BY DEF CanGo, MutexFree
  <2>1. CASE queue # <<>>
    <3>1. PICK w \in Workers : pc[w] \notin {"wait", "exited"}
      BY <2>1 DEF PoolInv, NoLostWakeup
    <3>2. w \in Thread /\ pc[w] = "lock"
      BY <3>1 DEF PoolInv, TypeOK, WorkerAt, MutexFree, Critical, Thread
    <3> QED
      BY <3>2 DEF CanGo
  <2>2. CASE pc[Owner] = "join"
    <3>1. \A w \in Workers : pc[w] \in {"lock", "exited"}
      BY <2>2 DEF PoolInv, TypeOK, WorkerAt, NobodySleepsThroughStop, Waiting,
                  MutexFree, Critical, Thread
    <3> QED
      BY <2>2, <3>1 DEF CanGo, Thread
  <2> QED
    BY <2>1, <2>2 DEF AtWork, MutexFree, Critical, Thread
<1> QED
  BY <1>1, SpecPoolInv, PTL

(* Every step of the pool is one of the queue, or one its callers do not   *)
(* see.                                                                    *)
LEMMA PoolStepIsQueueStep == PoolInv /\ [Next]_vars => [Log!Next]_(Log!vars)
<1> SUFFICES ASSUME PoolInv, [Next]_vars PROVE [Log!Next]_(Log!vars)
  OBVIOUS
<1> USE PoolAssumption DEF PoolAssumption, Thread
<1>1. ASSUME pc'[Owner] = pc[Owner], UNCHANGED <<accepted, written>>
      PROVE  UNCHANGED Log!vars
  BY <1>1 DEF Log!vars
<1>2. ASSUME NEW w \in Workers, Worker(w) PROVE [Log!Next]_(Log!vars)
  <2>1. pc'[Owner] = pc[Owner]
    BY <1>2 DEF Worker, Acquire, Wait, Exit, Write, Pop, WakeSpuriously, PoolInv, TypeOK
  <2>2. CASE Write(w)
    <3>1. ~Popping /\ Head(queue) = Len(written) + 1
      BY <2>2, FrontIsNext DEF Write
    <3>2. /\ queue # <<>> /\ Head(queue) = Len(written) + 1
          /\ Len(written) < accepted
      BY <2>2, <3>1 DEF Write, PoolInv, TypeOK, Order, Gone
    <3>3. pc[Owner] # "gone"
      BY <2>2 DEF Write, PoolInv, Stopping
    <3> QED
      BY <2>1, <2>2, <3>2, <3>3 DEF Write, Log!Next, Log!Write
  <2>3. CASE ~Write(w)
    BY <1>1, <1>2, <2>1, <2>3 DEF Worker, Acquire, Wait, Exit, Pop, WakeSpuriously
  <2> QED
    BY <2>2, <2>3
<1>3. ASSUME NEW p \in Producers, Producer(p) PROVE [Log!Next]_(Log!vars)
  <2>1. pc'[Owner] = pc[Owner]
    BY <1>3 DEF Producer, Enter, Push, Release, PoolInv, TypeOK, Waiting
  <2>2. CASE Push(p)
    <3>1. pc[Owner] # "gone"
      BY <2>2 DEF Push, PoolInv, Stopping
    <3> QED
      BY <2>1, <2>2, <3>1 DEF Push, Log!Next, Log!Accept
  <2>3. CASE ~Push(p)
    BY <1>1, <1>3, <2>1, <2>3 DEF Producer, Enter, Release
  <2> QED
    BY <2>2, <2>3
<1>4. ASSUME Destructor PROVE [Log!Next]_(Log!vars)
  <2>1. CASE Join
    <3>1. pc[Owner] = "join" /\ pc'[Owner] = "gone"
      BY <2>1 DEF Join, PoolInv, TypeOK
    <3>2. ~Popping /\ queue = <<>>
      BY <2>1 DEF Join, Popping, PoolInv, Stopping
    <3>3. Len(written) = accepted
      BY <3>2 DEF PoolInv, TypeOK, Order, Gone
    <3> QED
      BY <2>1, <3>1, <3>3 DEF Join, Log!Next, Log!Close
  <2>2. CASE Destroy
    <3>1. pc[Owner] # "gone" /\ pc'[Owner] # "gone"
      BY <2>2 DEF Destroy, PoolInv, TypeOK
    <3> QED
      BY <2>2, <3>1 DEF Destroy, Log!vars
  <2>3. CASE StopAll
    <3>1. pc[Owner] # "gone" /\ pc'[Owner] # "gone"
      BY <2>3 DEF StopAll, Woken, PoolInv, TypeOK
    <3> QED
      BY <2>3, <3>1 DEF StopAll, Log!vars
  <2> QED
    BY <1>4, <2>1, <2>2, <2>3 DEF Destructor
<1>5. CASE UNCHANGED vars
  BY <1>1, <1>5 DEF vars
<1> QED
  BY <1>2, <1>3, <1>4, <1>5 DEF Next, Done

(* The pool implements the queue its callers are promised.                 *)
THEOREM PoolImplementsQueue == Spec => QueuePromise
<1>1. Init => Log!Init
  BY PoolAssumption DEF PoolAssumption, Init, Started, Log!Init, Thread
<1>2. PoolInv /\ [Next]_vars => [Log!Next]_(Log!vars)
  BY PoolStepIsQueueStep
<1> QED
  BY <1>1, <1>2, SpecPoolInv, PTL DEF Spec, QueuePromise, Log!Spec
=============================================================================
