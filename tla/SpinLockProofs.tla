--------------------------- MODULE SpinLockProofs ---------------------------
(***************************************************************************)
(* The x86 spinlock, for every set of threads: its types, mutual           *)
(* exclusion, and that it implements the abstract mutex.                   *)
(***************************************************************************)
EXTENDS SpinLock, TLAPS

(* The latch is 1 exactly while a thread is inside.  This is what makes    *)
(* mutual exclusion inductive: a thread that exchanges a 0 out of the      *)
(* latch knows that nobody is inside.                                      *)
LatchHeld == latch = 1 <=> Inside # {}

IndInv == TypeOK /\ LatchHeld /\ MutualExclusion

LEMMA InitIndInv == Init => IndInv
  BY DEF Init, IndInv, TypeOK, LatchHeld, MutualExclusion, Inside, Bit, PcLabels

LEMMA NextIndInv ==
  ASSUME IndInv, [Next]_vars
  PROVE  IndInv'
<1> USE DEF IndInv, TypeOK, LatchHeld, MutualExclusion, Inside, Bit, PcLabels
<1>1. ASSUME NEW t \in Threads, Call(t)
      PROVE  IndInv'
  BY <1>1 DEF Call
<1>2. ASSUME NEW t \in Threads, Exchange(t)
      PROVE  IndInv'
  <2>1. latch' = 1 /\ UNCHANGED <<loaded, monitor>>
    BY <1>2 DEF Exchange, TasStored
  <2>2. CASE latch = 0
    <3>1. pc' = [pc EXCEPT ![t] = "critical"]
      BY <1>2, <2>2 DEF Exchange, TasAcquires, TasReturned
    <3>2. Inside' = {t}
      BY <2>2, <3>1
    <3>3. QED
      BY <2>1, <3>1, <3>2
  <2>3. CASE latch = 1
    <3>1. pc' = pc
      BY <1>2, <2>3 DEF Exchange, TasAcquires, TasReturned
    <3>2. QED
      BY <2>1, <2>3, <3>1
  <2>4. QED
    BY <2>2, <2>3
<1>3. ASSUME NEW t \in Threads, Unlock(t)
      PROVE  IndInv'
  BY <1>3 DEF Unlock
<1>4. CASE UNCHANGED vars
  BY <1>4 DEF vars
<1>5. QED
  BY <1>1, <1>2, <1>3, <1>4 DEF Next, Step

(* The inductive invariant holds in every state of the x86 lock. *)
LEMMA IndInvCorrect == Spec => []IndInv
  BY InitIndInv, NextIndInv, PTL DEF Spec

(* Every variable of the x86 lock keeps its type. *)
THEOREM TypeCorrect == Spec => []TypeOK
  BY IndInvCorrect, PTL DEF IndInv

(* lock() of the x86 build returns only when the caller has the lock: no   *)
(* two threads are ever between lock() and unlock() together.              *)
THEOREM MutualExclusionCorrect == Spec => []MutualExclusion
  BY IndInvCorrect, PTL DEF IndInv

(* The x86 lock implements the mutex the callers of lock() rely on. *)
THEOREM MutexImplemented == Spec => ImplementsMutex
<1>1. Init => Abstract!MutexInit
  BY DEF Init, Abstract!MutexInit, Inside
<1>2. ASSUME IndInv, [Next]_vars
      PROVE  [Abstract!MutexNext]_Inside
  <2> USE <1>2 DEF IndInv, TypeOK, LatchHeld, MutualExclusion, Inside, Bit, PcLabels
  <2>1. ASSUME NEW t \in Threads, Call(t)
        PROVE  UNCHANGED Inside
    BY <2>1 DEF Call
  <2>2. ASSUME NEW t \in Threads, Exchange(t)
        PROVE  UNCHANGED Inside \/ Abstract!Acquire(t)
    BY <2>2 DEF Exchange, TasStored, TasAcquires, TasReturned, Abstract!Acquire
  <2>3. ASSUME NEW t \in Threads, Unlock(t)
        PROVE  Abstract!Release(t)
    BY <2>3 DEF Unlock, Abstract!Release
  <2>4. CASE UNCHANGED vars
    BY <2>4 DEF vars
  <2>5. QED
    BY <2>1, <2>2, <2>3, <2>4 DEF Next, Step, Abstract!MutexNext
<1>3. QED
  BY <1>1, <1>2, IndInvCorrect, PTL DEF Spec, ImplementsMutex, Abstract!MutexSpec

=============================================================================
