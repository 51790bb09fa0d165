------------------------- MODULE CondBarrierProofs -------------------------
(***************************************************************************)
(* The fallback barrier without spurious wakeups, for every finite set of  *)
(* threads and any number of rounds: its types, that nobody leaves early,  *)
(* and that it implements the abstract barrier.                            *)
(***************************************************************************)
EXTENDS CondBarrier, FiniteSetTheorems, TLAPS

Sleepers == {t \in Threads : pc[t] = "waiting"}

(* g is the number of rounds that have been completed, and t is in round   *)
(* g + 1: it has not arrived there, or it sleeps, or it has been woken but *)
(* has not yet returned from round g.                                      *)
InRound(g, t) ==
  /\ pc[t] \in {"outside", "locked"} => arrived[t] = g /\ left[t] = g
  /\ pc[t] = "waiting" => arrived[t] = g + 1 /\ left[t] = g
  /\ pc[t] \in {"runnable", "unlock"} => arrived[t] = g /\ left[t] = g - 1

RoundInv == \E g \in Nat : \A t \in Threads : InRound(g, t)

(* The threads counted since the last broadcast are those that sleep. *)
CountInv == called = Cardinality(Sleepers)

IndInv == TypeOK /\ MutexOwned /\ CountInv /\ RoundInv

-----------------------------------------------------------------------------

(* A set of threads that lacks one thread and has one element less than    *)
(* Threads is the set of all the others.                                   *)
LEMMA AllButOne ==
  ASSUME NEW S \in SUBSET Threads, NEW t \in Threads, t \notin S,
         Cardinality(S) + 1 = Needed
  PROVE  S \cup {t} = Threads
<1>1. IsFiniteSet(S) /\ Cardinality(S \cup {t}) = Cardinality(S) + 1
  BY FS_Subset, FS_AddElement, CondBarrierAssumption
<1>2. S \cup {t} \in SUBSET Threads
  OBVIOUS
<1>3. QED
  BY <1>1, <1>2, FS_Subset, CondBarrierAssumption DEF Needed

LEMMA NeededType == Needed \in Nat \ {0}
  BY FS_CardinalityType, FS_EmptySet, CondBarrierAssumption DEF Needed

LEMMA InitIndInv == Init => IndInv
<1> SUFFICES ASSUME Init PROVE IndInv
  OBVIOUS
<1>1. TypeOK
  BY NeededType DEF Init, TypeOK, PcLabels
<1>2. MutexOwned
  BY CondBarrierAssumption DEF Init, MutexOwned
<1>3. CountInv
  <2>1. Sleepers = {}
    BY DEF Init, Sleepers
  <2>2. QED
    BY <2>1, FS_EmptySet DEF Init, CountInv
<1>4. RoundInv
  <2>1. \A t \in Threads : InRound(0, t)
    BY DEF Init, InRound
  <2>2. QED
    BY <2>1 DEF RoundInv
<1>5. QED
  BY <1>1, <1>2, <1>3, <1>4 DEF IndInv

(* Taking the mutex, to arrive or to return from the wait. *)
LEMMA LockIndInv ==
  ASSUME IndInv, NEW t \in Threads, Lock(t) \/ Reacquire(t)
  PROVE  IndInv'
<1> USE DEF IndInv
<1>1. TypeOK'
  BY DEF TypeOK, PcLabels, Lock, Reacquire
<1>2. MutexOwned'
  BY CondBarrierAssumption DEF TypeOK, MutexOwned, PcLabels, Lock, Reacquire
<1>3. CountInv'
  <2>1. Sleepers' = Sleepers
    BY DEF TypeOK, Sleepers, Lock, Reacquire
  <2>2. QED
    BY <2>1 DEF CountInv, Lock, Reacquire
<1>4. RoundInv'
  <2>1. PICK g \in Nat : \A u \in Threads : InRound(g, u)
    BY DEF RoundInv
  <2>2. \A u \in Threads : InRound(g, u)'
    BY <2>1 DEF TypeOK, PcLabels, InRound, Lock, Reacquire
  <2>3. QED
    BY <2>2 DEF RoundInv
<1>5. QED
  BY <1>1, <1>2, <1>3, <1>4

(* The thread that arrives is not the last: it goes to sleep. *)
LEMMA OtherArrivesIndInv ==
  ASSUME IndInv, NEW t \in Threads, OtherArrives(t)
  PROVE  IndInv'
<1> USE DEF IndInv
<1>1. TypeOK'
  BY NeededType DEF TypeOK, PcLabels, OtherArrives
<1>2. MutexOwned'
  BY CondBarrierAssumption DEF TypeOK, MutexOwned, PcLabels, OtherArrives
<1>3. CountInv'
  <2>1. Sleepers' = Sleepers \cup {t} /\ t \notin Sleepers
    BY DEF TypeOK, Sleepers, OtherArrives
  <2>2. IsFiniteSet(Sleepers)
    BY FS_Subset, CondBarrierAssumption DEF Sleepers
  <2>3. QED
    BY <2>1, <2>2, FS_AddElement DEF CountInv, OtherArrives
<1>4. RoundInv'
  <2>1. PICK g \in Nat : \A u \in Threads : InRound(g, u)
    BY DEF RoundInv
  <2>2. \A u \in Threads : InRound(g, u)'
    BY <2>1 DEF TypeOK, PcLabels, InRound, OtherArrives
  <2>3. QED
    BY <2>2 DEF RoundInv
<1>5. QED
  BY <1>1, <1>2, <1>3, <1>4

(* The last thread arrives: all others sleep, and the round is complete. *)
LEMMA LastArrivesIndInv ==
  ASSUME IndInv, NEW t \in Threads, LastArrives(t)
  PROVE  IndInv'
<1> USE DEF IndInv
<1>1. TypeOK'
  BY NeededType DEF TypeOK, PcLabels, LastArrives
<1>2. MutexOwned'
  BY CondBarrierAssumption DEF TypeOK, MutexOwned, PcLabels, LastArrives
<1>3. \A u \in Threads : u # t => pc[u] = "waiting"
  <2>1. Sleepers \cup {t} = Threads
    BY AllButOne DEF CountInv, Sleepers, LastArrives
  <2>2. QED
    BY <2>1 DEF Sleepers
<1>4. CountInv'
  <2>1. Sleepers' = {}
    BY DEF TypeOK, PcLabels, Sleepers, LastArrives
  <2>2. QED
    BY <2>1, FS_EmptySet DEF CountInv, LastArrives
<1>5. RoundInv'
  <2>1. PICK g \in Nat : \A u \in Threads : InRound(g, u)
    BY DEF RoundInv
  <2>2. \A u \in Threads : InRound(g + 1, u)'
    BY <1>3, <2>1 DEF TypeOK, PcLabels, InRound, LastArrives
  <2>3. QED
    BY <2>2 DEF RoundInv
<1>6. QED
  BY <1>1, <1>2, <1>4, <1>5

(* A thread returns from its wait. *)
LEMMA UnlockIndInv ==
  ASSUME IndInv, NEW t \in Threads, Unlock(t)
  PROVE  IndInv'
<1> USE DEF IndInv
<1>1. TypeOK'
  BY DEF TypeOK, PcLabels, Unlock
<1>2. MutexOwned'
  BY CondBarrierAssumption DEF TypeOK, MutexOwned, PcLabels, Unlock
<1>3. CountInv'
  <2>1. Sleepers' = Sleepers
    BY DEF TypeOK, Sleepers, Unlock
  <2>2. QED
    BY <2>1 DEF CountInv, Unlock
<1>4. RoundInv'
  <2>1. PICK g \in Nat : \A u \in Threads : InRound(g, u)
    BY DEF RoundInv
  <2>2. \A u \in Threads : InRound(g, u)'
    BY <2>1 DEF TypeOK, PcLabels, InRound, Unlock
  <2>3. QED
    BY <2>2 DEF RoundInv
<1>5. QED
  BY <1>1, <1>2, <1>3, <1>4

LEMMA StutterIndInv ==
  ASSUME IndInv, UNCHANGED vars
  PROVE  IndInv'
  BY DEF IndInv, vars, TypeOK, MutexOwned, CountInv, Sleepers, RoundInv, InRound

LEMMA NextIndInv ==
  ASSUME IndInv, [Next]_vars
  PROVE  IndInv'
<1>1. ASSUME NEW t \in Threads, Step(t)
      PROVE  IndInv'
  BY <1>1, LockIndInv, OtherArrivesIndInv, LastArrivesIndInv, UnlockIndInv DEF Step
<1>2. CASE Finished
  BY <1>2, StutterIndInv DEF Finished
<1>3. QED
  BY <1>1, <1>2, StutterIndInv DEF Next

LEMMA IndInvCorrect == Spec => []IndInv
  BY InitIndInv, NextIndInv, PTL DEF Spec

-----------------------------------------------------------------------------

(* Every variable of the barrier keeps its type; in particular called      *)
(* stays below the number of threads between two steps.                    *)
THEOREM TypeCorrect == Spec => []TypeOK
  BY IndInvCorrect, PTL DEF IndInv

(* barrier_wait() of any thread returns for the k-th time only after every *)
(* thread has called it for the k-th time.                                 *)
THEOREM NoEarlyLeaveCorrect == Spec => []NoEarlyLeave
<1>1. ASSUME IndInv
      PROVE  NoEarlyLeave
  <2>1. PICK g \in Nat : \A t \in Threads : InRound(g, t)
    BY <1>1 DEF IndInv, RoundInv
  <2>2. \A t \in Threads : left[t] <= g /\ g <= arrived[t]
    BY <1>1, <2>1 DEF IndInv, TypeOK, PcLabels, InRound
  <2>3. QED
    BY <1>1, <2>2 DEF IndInv, TypeOK, NoEarlyLeave
<1>2. QED
  BY <1>1, IndInvCorrect, PTL

(* Nobody sleeps who is not counted: the next broadcast is still to come.  *)
THEOREM SleepersCountedCorrect == Spec => []SleepersCounted
<1>1. ASSUME IndInv
      PROVE  SleepersCounted
  <2>1. Cardinality(Sleepers) \in Nat /\ called = Cardinality(Sleepers)
    BY <1>1, FS_Subset, FS_CardinalityType, CondBarrierAssumption
       DEF IndInv, CountInv, Sleepers
  <2>2. QED
    BY <2>1 DEF SleepersCounted, Sleepers
<1>2. QED
  BY <1>1, IndInvCorrect, PTL

(* The fallback implements the abstract barrier that the joins are         *)
(* modelled with: its updates of called and its sleeping and waking are    *)
(* arrivals, departures and stutters there.                                *)
THEOREM BarrierImplemented == Spec => ImplementsBarrier
<1>1. Init => Abstract!BarrierInit
  BY DEF Init, Abstract!BarrierInit
<1>2. ASSUME IndInv, [Next]_vars
      PROVE  [Abstract!BarrierNext]_(Abstract!barrierVars)
  <2> USE <1>2 DEF IndInv, Abstract!barrierVars
  <2>1. PICK g \in Nat : \A t \in Threads : InRound(g, t)
    BY DEF RoundInv
  <2>2. ASSUME NEW t \in Threads, LastArrives(t) \/ OtherArrives(t)
        PROVE  Abstract!Arrive(t)
    BY <2>1, <2>2 DEF TypeOK, InRound, LastArrives, OtherArrives, Abstract!Arrive
  <2>3. ASSUME NEW t \in Threads, Unlock(t)
        PROVE  Abstract!Leave(t)
    <3>1. left[t] < arrived[t] /\ arrived[t] = g
      BY <2>1, <2>3 DEF TypeOK, InRound, Unlock
    <3>2. \A u \in Threads : arrived[u] >= g
      BY <2>1 DEF TypeOK, PcLabels, InRound
    <3>3. QED
      BY <2>3, <3>1, <3>2 DEF Unlock, Abstract!Leave
  <2>4. ASSUME NEW t \in Threads, Lock(t) \/ Reacquire(t)
        PROVE  UNCHANGED <<arrived, left>>
    BY <2>4 DEF Lock, Reacquire
  <2>5. CASE Finished \/ UNCHANGED vars
    BY <2>5 DEF Finished, vars
  <2>6. QED
    BY <2>2, <2>3, <2>4, <2>5 DEF Next, Step, Abstract!BarrierNext
<1>3. QED
  BY <1>1, <1>2, IndInvCorrect, PTL DEF Spec, ImplementsBarrier, Abstract!BarrierSpec

=============================================================================
