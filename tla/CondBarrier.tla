---------------------------- MODULE CondBarrier ----------------------------
(***************************************************************************)
(* The fallback barrier of src/dynamic_hashjoin/src/barrier.h, compiled    *)
(* where Pthreads has no barriers: a mutex, a condition variable and a     *)
(* counter.  wisconsin-src/Barrier.cpp is the same algorithm.              *)
(*                                                                         *)
(* pthread_cond_wait() gives up the mutex and sleeps in one step; a        *)
(* broadcast makes every sleeper runnable; a runnable thread returns from  *)
(* the wait after taking the mutex again.  In SpuriousSpec a sleeper may    *)
(* also become runnable on its own, which POSIX allows.                    *)
(***************************************************************************)
EXTENDS Integers, FiniteSets

CONSTANTS
  Threads,
  NoThread,          (* the owner of a free mutex                          *)
  MaxRounds          (* bound: how many waits each thread makes            *)

ASSUME CondBarrierAssumption ==
  /\ Threads # {}
  /\ IsFiniteSet(Threads)
  /\ NoThread \notin Threads
  /\ MaxRounds \in Nat

VARIABLES
  mutex,     (* owner of barrier->mutex                                    *)
  called,    (* barrier->called                                            *)
  pc,        (* where each thread is                                       *)
  arrived,   (* history: waits each thread has begun                       *)
  left       (* history: waits each thread has returned from               *)

vars == <<mutex, called, pc, arrived, left>>

PcLabels == {"outside", "locked", "waiting", "runnable", "unlock"}

(* Faulty variant of the next definition: the barrier opens one thread early. *)
NeededOffByOne == Cardinality(Threads) - 1

(* barrier_init(barrier, needed) is given the number of threads. *)
Needed == Cardinality(Threads)

Init ==
  /\ mutex = NoThread
  /\ called = 0
  /\ pc = [t \in Threads |-> "outside"]
  /\ arrived = [t \in Threads |-> 0]
  /\ left = [t \in Threads |-> 0]

-----------------------------------------------------------------------------
(* Faulty variants of the actions below: the bugs the properties must catch. *)

(* The last arrival forgets to reset the counter. *)
LastArrivesNoReset(t) ==
  /\ pc[t] = "locked"
  /\ called + 1 = Needed
  /\ called' = called + 1
  /\ arrived' = [arrived EXCEPT ![t] = @ + 1]
  /\ pc' = [u \in Threads |-> IF u = t THEN "unlock"
                              ELSE IF pc[u] = "waiting" THEN "runnable" ELSE pc[u]]
  /\ UNCHANGED <<mutex, left>>

(* signal in the place of broadcast: one sleeper is woken. *)
LastArrivesSignals(t) ==
  /\ pc[t] = "locked"
  /\ called + 1 = Needed
  /\ called' = 0
  /\ arrived' = [arrived EXCEPT ![t] = @ + 1]
  /\ LET sleepers == {u \in Threads : pc[u] = "waiting"}
     IN  IF sleepers = {}
         THEN pc' = [pc EXCEPT ![t] = "unlock"]
         ELSE \E w \in sleepers : pc' = [pc EXCEPT ![t] = "unlock", ![w] = "runnable"]
  /\ UNCHANGED <<mutex, left>>

-----------------------------------------------------------------------------

(* pthread_mutex_lock(&barrier->mutex) *)
Lock(t) ==
  /\ pc[t] = "outside"
  /\ arrived[t] < MaxRounds
  /\ mutex = NoThread
  /\ mutex' = t
  /\ pc' = [pc EXCEPT ![t] = "locked"]
  /\ UNCHANGED <<called, arrived, left>>

(* called == needed: reset the counter and broadcast. *)
LastArrives(t) ==
  /\ pc[t] = "locked"
  /\ called + 1 = Needed
  /\ called' = 0
  /\ arrived' = [arrived EXCEPT ![t] = @ + 1]
  /\ pc' = [u \in Threads |-> IF u = t THEN "unlock"
                              ELSE IF pc[u] = "waiting" THEN "runnable" ELSE pc[u]]
  /\ UNCHANGED <<mutex, left>>

(* called != needed: sleep on the condition variable, once. *)
OtherArrives(t) ==
  /\ pc[t] = "locked"
  /\ called + 1 # Needed
  /\ called' = called + 1
  /\ arrived' = [arrived EXCEPT ![t] = @ + 1]
  /\ mutex' = NoThread
  /\ pc' = [pc EXCEPT ![t] = "waiting"]
  /\ UNCHANGED left

(* pthread_cond_wait() returns with the mutex. *)
Reacquire(t) ==
  /\ pc[t] = "runnable"
  /\ mutex = NoThread
  /\ mutex' = t
  /\ pc' = [pc EXCEPT ![t] = "unlock"]
  /\ UNCHANGED <<called, arrived, left>>

(* pthread_mutex_unlock() and the return of barrier_wait(). *)
Unlock(t) ==
  /\ pc[t] = "unlock"
  /\ mutex' = NoThread
  /\ left' = [left EXCEPT ![t] = @ + 1]
  /\ pc' = [pc EXCEPT ![t] = "outside"]
  /\ UNCHANGED <<called, arrived>>

(* A sleeper becomes runnable although nobody broadcast. *)
SpuriousWakeup(t) ==
  /\ pc[t] = "waiting"
  /\ pc' = [pc EXCEPT ![t] = "runnable"]
  /\ UNCHANGED <<mutex, called, arrived, left>>

Step(t) ==
  \/ Lock(t)
  \/ LastArrives(t)
  \/ OtherArrives(t)
  \/ Reacquire(t)
  \/ Unlock(t)

(* Every thread has made its last wait: the process goes on without the barrier. *)
Finished ==
  /\ \A t \in Threads : pc[t] = "outside" /\ arrived[t] = MaxRounds
  /\ UNCHANGED vars

Next ==
  \/ \E t \in Threads : Step(t)
  \/ Finished

Spec == Init /\ [][Next]_vars

SpuriousNext == Next \/ \E t \in Threads : SpuriousWakeup(t)

SpuriousSpec == Init /\ [][SpuriousNext]_vars

(* The scheduler and the mutex are fair to every thread: strongly for the   *)
(* two steps that take the mutex, which others may take in between.         *)
FairSpec ==
  /\ Spec
  /\ \A t \in Threads : /\ WF_vars(LastArrives(t) \/ OtherArrives(t) \/ Unlock(t))
                        /\ SF_vars(Lock(t) \/ Reacquire(t))

-----------------------------------------------------------------------------

(* Every variable has its type. *)
TypeOK ==
  /\ mutex \in Threads \cup {NoThread}
  /\ called \in 0 .. (Needed - 1)
  /\ pc \in [Threads -> PcLabels]
  /\ arrived \in [Threads -> Nat]
  /\ left \in [Threads -> Nat]

(* no_partitioning_join.c:905, "wait at a barrier until each thread        *)
(* completes build phase": nobody has returned from more waits than every  *)
(* other thread has begun.                                                 *)
NoEarlyLeave == \A t, u \in Threads : left[t] <= arrived[u]

Abstract == INSTANCE Barrier

(* The fallback implements the barrier the phases of the joins rely on,    *)
(* also when a fast thread begins its next wait while a slow one has not   *)
(* yet returned from the last.                                             *)
ImplementsBarrier == Abstract!BarrierSpec

(* The counter counts at least the sleepers: whoever sleeps has arrived    *)
(* since the last broadcast, so the next one is for it.                    *)
SleepersCounted ==
  Cardinality({t \in Threads : pc[t] = "waiting"}) <= called

(* Every wait returns: all threads get through all their rounds.  Nobody   *)
(* sleeps through the broadcast that was meant for it.                     *)
EverybodyLeaves == <>(\A t \in Threads : left[t] = MaxRounds)

(* The mutex has one owner: the thread that is between taking and giving   *)
(* it up, so that called is never updated by two threads at once.          *)
MutexOwned ==
  \A t \in Threads : pc[t] \in {"locked", "unlock"} <=> mutex = t

=============================================================================
