------------------------------ MODULE SpinLock ------------------------------
(***************************************************************************)
(* The non-recursive spinlock of src/dynamic_hashjoin/src/lock.h, with the *)
(* threads that call it in a loop (lock; critical section; unlock).        *)
(*                                                                         *)
(* One latch byte is shared.  The x86 tas() is one atomic step.  The       *)
(* aarch64 tas() is two: the load-exclusive, and the eor with the          *)
(* store-exclusive, which is skipped when another thread has written the   *)
(* byte since the load.  The code ignores the status register of the       *)
(* store-exclusive and does not retry.  Losses of the exclusive            *)
(* reservation that no store to the byte causes are left out.              *)
(***************************************************************************)
EXTENDS Tas

CONSTANT Threads

VARIABLES
  latch,     (* *_l, the byte                                              *)
  pc,        (* where each thread is                                       *)
  loaded,    (* w0 of an aarch64 thread between its load and its store     *)
  monitor    (* threads whose exclusive reservation of the byte is intact  *)

vars == <<latch, pc, loaded, monitor>>

PcLabels == {"idle", "tas", "stlxrb", "critical"}

Init ==
  /\ latch = 0
  /\ pc = [t \in Threads |-> "idle"]
  /\ loaded = [t \in Threads |-> 0]
  /\ monitor = {}

-----------------------------------------------------------------------------
(* Faulty variants of the actions below: the bugs the properties must catch. *)

(* The exchange tests the latch but stores the old byte back. *)
ExchangeKeepsByte(t) ==
  /\ Arch = "x86"
  /\ pc[t] = "tas"
  /\ latch' = latch
  /\ pc' = [pc EXCEPT ![t] = IF TasAcquires(latch) THEN "critical" ELSE "tas"]
  /\ UNCHANGED <<loaded, monitor>>

(* `if` in the place of `while`: lock() gives up after one exchange. *)
ExchangeNoLoop(t) ==
  /\ Arch = "x86"
  /\ pc[t] = "tas"
  /\ latch' = TasStored(latch)
  /\ pc' = [pc EXCEPT ![t] = "critical"]
  /\ UNCHANGED <<loaded, monitor>>

(* unlock() forgets to clear the latch. *)
UnlockKeepsLatch(t) ==
  /\ pc[t] = "critical"
  /\ monitor' = {}
  /\ pc' = [pc EXCEPT ![t] = "idle"]
  /\ UNCHANGED <<latch, loaded>>

-----------------------------------------------------------------------------

(* The caller enters lock(). *)
Call(t) ==
  /\ pc[t] = "idle"
  /\ pc' = [pc EXCEPT ![t] = "tas"]
  /\ UNCHANGED <<latch, loaded, monitor>>

(* x86: xchgb, and the test of the loop around it. *)
Exchange(t) ==
  /\ Arch = "x86"
  /\ pc[t] = "tas"
  /\ latch' = TasStored(latch)
  /\ pc' = [pc EXCEPT ![t] = IF TasAcquires(latch) THEN "critical" ELSE "tas"]
  /\ UNCHANGED <<loaded, monitor>>

(* aarch64: ldaxrb. *)
LoadExclusive(t) ==
  /\ Arch = "aarch64"
  /\ pc[t] = "tas"
  /\ loaded' = [loaded EXCEPT ![t] = latch]
  /\ monitor' = monitor \cup {t}
  /\ pc' = [pc EXCEPT ![t] = "stlxrb"]
  /\ UNCHANGED latch

(* aarch64: eor, stlxrb and the test of the loop.  A successful store ends *)
(* every reservation of the byte.                                          *)
StoreExclusive(t) ==
  /\ pc[t] = "stlxrb"
  /\ latch' = IF t \in monitor THEN TasStored(loaded[t]) ELSE latch
  /\ monitor' = IF t \in monitor THEN {} ELSE monitor
  /\ pc' = [pc EXCEPT ![t] = IF TasAcquires(loaded[t]) THEN "critical" ELSE "tas"]
  /\ UNCHANGED loaded

(* unlock(): a plain store of 0, which also ends the reservations. *)
Unlock(t) ==
  /\ pc[t] = "critical"
  /\ latch' = 0
  /\ monitor' = {}
  /\ pc' = [pc EXCEPT ![t] = "idle"]
  /\ UNCHANGED loaded

(* The lock as compiled for x86, *)
Step(t) == Exchange(t) \/ Unlock(t)

Next == \E t \in Threads : Call(t) \/ Step(t)

Spec == Init /\ [][Next]_vars

(* A thread inside lock() or its critical section keeps running; a thread  *)
(* that is outside need never call lock().                                 *)
FairSpec == Spec /\ \A t \in Threads : WF_vars(Step(t))

(* and as compiled for aarch64. *)
NextAarch64 ==
  \E t \in Threads : Call(t) \/ LoadExclusive(t) \/ StoreExclusive(t) \/ Unlock(t)

SpecAarch64 == Init /\ [][NextAarch64]_vars

-----------------------------------------------------------------------------

(* Every variable has its type. *)
TypeOK ==
  /\ latch \in Bit
  /\ pc \in [Threads -> PcLabels]
  /\ loaded \in [Threads -> Bit]
  /\ monitor \subseteq Threads

Inside == {t \in Threads : pc[t] = "critical"}

(* lock.h:31: a call of lock() "returns only when it has the lock": two    *)
(* threads are never between lock() and unlock() at the same time.         *)
MutualExclusion == \A t, u \in Inside : t = u

Abstract == INSTANCE Mutex WITH inside <- Inside

(* The spinlock implements the abstract mutex: a thread gets in only when  *)
(* nobody is inside, and only the thread that is inside goes out.          *)
ImplementsMutex == Abstract!MutexSpec

(* Whenever some thread spins in lock(), some thread is eventually in the  *)
(* critical section: the spinning threads cannot starve each other.        *)
SomebodyAcquires ==
  (\E t \in Threads : pc[t] = "tas") ~> (Inside # {})

=============================================================================
