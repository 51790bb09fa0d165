------------------------------- MODULE Mutex -------------------------------
(***************************************************************************)
(* What lock()/unlock() promise their callers: `inside`, the threads that  *)
(* have returned from lock() and not yet called unlock(), never has two    *)
(* members, and a thread enters only when it is empty.                     *)
(***************************************************************************)
CONSTANT Threads

VARIABLE inside

MutexInit == inside = {}

Acquire(t) ==
  /\ inside = {}
  /\ inside' = {t}

Release(t) ==
  /\ t \in inside
  /\ inside' = inside \ {t}

MutexNext == \E t \in Threads : Acquire(t) \/ Release(t)

MutexSpec == MutexInit /\ [][MutexNext]_inside

=============================================================================
