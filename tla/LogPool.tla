-------------------------------- MODULE LogPool --------------------------------
(***************************************************************************)
(* The queue, mutex, condition variable and worker threads of Logger.      *)
(* Database holds the same pool line for line; Database.tla adds what its  *)
(* workers do to the table.                                                *)
(*                                                                         *)
(* A thread is where its pc says.  The mutex is held by the thread whose   *)
(* pc is one of Critical: waiting on the condition variable gives it up    *)
(* and being woken, by a notification or by nothing at all, means queueing *)
(* for it again.  An entry is the number of its add_to_queue call.         *)
(***************************************************************************)
EXTENDS Integers, Sequences

CONSTANTS Workers,    \* the threads running work()
          Producers,  \* the threads holding a shared_ptr and calling add_to_queue
          Owner,      \* the thread that releases the last reference
          MaxEntries  \* bound: calls of add_to_queue

Thread == Workers \cup Producers \cup {Owner}

(* Both pools are built with two threads (main.cpp): never with none.      *)
ASSUME PoolAssumption ==
    /\ Workers # {} /\ Workers \cap Producers = {}
    /\ Owner \notin Workers \cup Producers
    /\ MaxEntries \in Nat

WorkerAt   == {"lock", "check", "pop", "wait", "exited"}
ProducerAt == {"idle", "push", "released"}
OwnerAt    == {"idle", "stop", "join", "gone"}
Critical   == {"check", "pop", "push", "stop"}

VARIABLES pc,        \* where each thread is
          queue,     \* the entries in the queue
          stop,      \* the stop flag
          accepted,  \* number of entries pushed so far
          written    \* the entries handed to the sink, in order

vars == <<pc, queue, stop, accepted, written>>

MutexFree == \A t \in Thread : pc[t] \notin Critical
Waiting   == {w \in Workers : pc[w] = "wait"}

-----------------------------------------------------------------------------
AcquireAnyway(w) ==
    /\ pc[w] = "lock"
    /\ pc' = [pc EXCEPT ![w] = "check"]
    /\ UNCHANGED <<queue, stop, accepted, written>>

(* work: the lock at the top of the loop, and again on the way out of wait. *)
Acquire(w) ==
    /\ pc[w] = "lock" /\ MutexFree
    /\ pc' = [pc EXCEPT ![w] = "check"]
    /\ UNCHANGED <<queue, stop, accepted, written>>

WaitThroughStop(w) ==
    /\ pc[w] = "check"
    /\ queue = <<>>
    /\ pc' = [pc EXCEPT ![w] = "wait"]
    /\ UNCHANGED <<queue, stop, accepted, written>>

(* The predicate is false: the mutex is given up and the wait begun in one *)
(* step.                                                                   *)
Wait(w) ==
    /\ pc[w] = "check"
    /\ ~stop /\ queue = <<>>
    /\ pc' = [pc EXCEPT ![w] = "wait"]
    /\ UNCHANGED <<queue, stop, accepted, written>>

ExitEagerly(w) ==
    /\ pc[w] = "check"
    /\ stop
    /\ pc' = [pc EXCEPT ![w] = "exited"]
    /\ UNCHANGED <<queue, stop, accepted, written>>

Exit(w) ==
    /\ pc[w] = "check"
    /\ stop /\ queue = <<>>
    /\ pc' = [pc EXCEPT ![w] = "exited"]
    /\ UNCHANGED <<queue, stop, accepted, written>>

(* The front entry is written while it is still in the queue, under the    *)
(* lock.                                                                   *)
Write(w) ==
    /\ pc[w] = "check"
    /\ queue # <<>>
    /\ written' = Append(written, Head(queue))
    /\ pc' = [pc EXCEPT ![w] = "pop"]
    /\ UNCHANGED <<queue, stop, accepted>>

Pop(w) ==
    /\ pc[w] = "pop"
    /\ queue' = Tail(queue)
    /\ pc' = [pc EXCEPT ![w] = "lock"]
    /\ UNCHANGED <<stop, accepted, written>>

(* A condition variable may return from wait for no reason.                *)
WakeSpuriously(w) ==
    /\ pc[w] = "wait"
    /\ pc' = [pc EXCEPT ![w] = "lock"]
    /\ UNCHANGED <<queue, stop, accepted, written>>

-----------------------------------------------------------------------------
(* add_to_queue: the lock, then the push, notify_one and the unlock.       *)
Enter(p) ==
    /\ pc[p] = "idle" /\ MutexFree
    /\ accepted < MaxEntries
    /\ pc' = [pc EXCEPT ![p] = "push"]
    /\ UNCHANGED <<queue, stop, accepted, written>>

PushSilently(p) ==
    /\ pc[p] = "push"
    /\ accepted' = accepted + 1
    /\ queue' = Append(queue, accepted + 1)
    /\ pc' = [pc EXCEPT ![p] = "idle"]
    /\ UNCHANGED <<stop, written>>

Push(p) ==
    /\ pc[p] = "push"
    /\ accepted' = accepted + 1
    /\ queue' = Append(queue, accepted + 1)
    /\ \/ Waiting = {} /\ pc' = [pc EXCEPT ![p] = "idle"]
       \/ \E w \in Waiting : pc' = [pc EXCEPT ![p] = "idle", ![w] = "lock"]
    /\ UNCHANGED <<stop, written>>

(* A producer gives its shared_ptr away.                                   *)
Release(p) ==
    /\ pc[p] = "idle"
    /\ pc' = [pc EXCEPT ![p] = "released"]
    /\ UNCHANGED <<queue, stop, accepted, written>>

-----------------------------------------------------------------------------
(* The destructor, once nobody else holds a reference: the lock; stop,     *)
(* notify_all and the unlock; the joins.                                   *)
Destroy ==
    /\ pc[Owner] = "idle" /\ MutexFree
    /\ \A p \in Producers : pc[p] = "released"
    /\ pc' = [pc EXCEPT ![Owner] = "stop"]
    /\ UNCHANGED <<queue, stop, accepted, written>>

Woken == [t \in Thread |-> IF t = Owner THEN "join"
                           ELSE IF t \in Waiting THEN "lock" ELSE pc[t]]

StopSilently ==
    /\ pc[Owner] = "stop"
    /\ stop' = TRUE
    /\ pc' = [pc EXCEPT ![Owner] = "join"]
    /\ UNCHANGED <<queue, accepted, written>>

StopAll ==
    /\ pc[Owner] = "stop"
    /\ stop' = TRUE
    /\ pc' = Woken
    /\ UNCHANGED <<queue, accepted, written>>

Join ==
    /\ pc[Owner] = "join"
    /\ \A w \in Workers : pc[w] = "exited"
    /\ pc' = [pc EXCEPT ![Owner] = "gone"]
    /\ UNCHANGED <<queue, stop, accepted, written>>

-----------------------------------------------------------------------------
Started == [t \in Thread |-> IF t \in Workers THEN "lock" ELSE "idle"]

Init ==
    /\ pc = Started
    /\ queue = <<>>
    /\ stop = FALSE
    /\ accepted = 0
    /\ written = <<>>

Worker(w) == Acquire(w) \/ Wait(w) \/ Exit(w) \/ Write(w) \/ Pop(w) \/ WakeSpuriously(w)
Producer(p) == Enter(p) \/ Push(p) \/ Release(p)
Destructor == Destroy \/ StopAll \/ Join

(* Where everything may stop: the destructor has returned.                 *)
Done == pc[Owner] = "gone" /\ UNCHANGED vars

Next == \/ \E w \in Workers : Worker(w)
        \/ \E p \in Producers : Producer(p)
        \/ Destructor \/ Done

Spec == Init /\ [][Next]_vars

(* A thread that can go on does, and a thread that queues for the mutex    *)
(* gets it at some time although others take it before.  A producer need   *)
(* not log, nor let its reference go.                                      *)
Fairness ==
    /\ \A w \in Workers : /\ SF_vars(Acquire(w))
                          /\ WF_vars(Wait(w) \/ Exit(w) \/ Write(w) \/ Pop(w))
    /\ \A p \in Producers : WF_vars(Push(p))
    /\ SF_vars(Destroy) /\ WF_vars(StopAll \/ Join)

FairSpec == Spec /\ Fairness
-----------------------------------------------------------------------------
(* Properties.                                                             *)

TypeOK ==
    /\ pc \in [Thread -> WorkerAt \cup ProducerAt \cup OwnerAt]
    /\ \A w \in Workers : pc[w] \in WorkerAt
    /\ \A p \in Producers : pc[p] \in ProducerAt
    /\ pc[Owner] \in OwnerAt
    /\ queue \in Seq(1..MaxEntries)
    /\ stop \in BOOLEAN
    /\ accepted \in 0..MaxEntries
    /\ written \in Seq(1..MaxEntries)

(* Callers of add_to_queue see a queue that loses, repeats and reorders    *)
(* nothing, and a destructor that leaves nothing behind (Logger::work,     *)
(* add_to_queue and ~Logger together).                                     *)
Log == INSTANCE LogQueue WITH closed <- pc[Owner] = "gone"
QueuePromise == Log!Spec

(* A notification is never lost: entries in the queue find a worker that   *)
(* is on its way to them, although each push wakes one worker only and     *)
(* workers go to sleep between pushes (wait in work, notify_one in         *)
(* add_to_queue).                                                          *)
NoLostWakeup == queue # <<>> => \E w \in Workers : pc[w] \notin {"wait", "exited"}

(* Once the destructor has notified everybody no worker sleeps, so that    *)
(* the joins cannot wait for a sleeper (notify_all in ~Logger).            *)
NobodySleepsThroughStop == pc[Owner] \in {"join", "gone"} => Waiting = {}

(* Every entry accepted is written at some time.                           *)
EntriesAreWritten == \A n \in 1..MaxEntries : accepted >= n ~> Len(written) >= n

(* A destructor that has set stop returns.                                 *)
DestructorReturns == stop ~> pc[Owner] = "gone"
=============================================================================
