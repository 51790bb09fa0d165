------------------------------ MODULE Barrier ------------------------------
(***************************************************************************)
(* What pthread_barrier_wait(), reached through BARRIER_ARRIVE, promises   *)
(* the threads that share a barrier initialised for all of them: nobody    *)
(* leaves its k-th wait before everybody has begun its k-th wait.          *)
(***************************************************************************)
EXTENDS Integers

CONSTANT Threads

VARIABLES
  arrived,   (* how many waits each thread has begun                       *)
  left       (* how many waits each thread has returned from               *)

barrierVars == <<arrived, left>>

BarrierInit ==
  /\ arrived = [t \in Threads |-> 0]
  /\ left = [t \in Threads |-> 0]

Arrive(t) ==
  /\ arrived[t] = left[t]
  /\ arrived' = [arrived EXCEPT ![t] = @ + 1]
  /\ UNCHANGED left

Leave(t) ==
  /\ left[t] < arrived[t]
  /\ \A u \in Threads : arrived[u] >= arrived[t]
  /\ left' = [left EXCEPT ![t] = @ + 1]
  /\ UNCHANGED arrived

BarrierNext == \E t \in Threads : Arrive(t) \/ Leave(t)

BarrierSpec == BarrierInit /\ [][BarrierNext]_barrierVars

=============================================================================
