---------------------- MODULE NoPartitioningJoinProofs ----------------------
(***************************************************************************)
(* The multi-threaded no-partitioning join, for every number of threads,   *)
(* every size of the relations, of buckets and of overflow buffers: its    *)
(* types, that a latch keeps the other threads out of its chain, and what  *)
(* the phases that the barriers cut it into are for: while a thread builds *)
(* nobody looks up, and with timing compiled in, while a thread looks up   *)
(* nobody frees.                                                           *)
(*                                                                         *)
(* Then the chains of buckets that the threads build: their shape, and     *)
(* that each tuple of R is put in exactly one slot, which stays on the     *)
(* chain its key is hashed to.  With them, that the threaded join          *)
(* implements HashJoin: every step of it maps to one of the sequential     *)
(* promise, or to none.                                                    *)
(***************************************************************************)
EXTENDS NoPartitioningJoin, HashTableProofs, FoldTheorems, SequenceTheorems

-----------------------------------------------------------------------------
(* The inductive invariant.                                                *)

(* While threads are spawned, what is left is what has not been given out; *)
(* it is never less than one more share.                                   *)
SpawnInv ==
  mainPc = "spawn" =>
    /\ remR = NumR - (NumR \div NThreads) * mainI
    /\ remS = NumS - (NumS \div NThreads) * mainI

(* The share of a thread is a part of the relation. *)
ShareInv ==
  \A t \in Threads :
    /\ args[t].rFirst + args[t].rNum <= NumR + 1
    /\ args[t].sFirst + args[t].sNum <= NumS + 1

(* A thread that holds a latch is inserting a tuple of its share; a thread *)
(* that is looking up a tuple of its share is at some bucket.              *)
LoopInv ==
  \A t \in Threads :
    /\ pc[t] \in Latched => cur[t] < args[t].rNum
    /\ Probing(t) => probeAt[t] \in Buckets

(* The overflow buffers of a thread between init_bucket_buffer() and the   *)
(* end of free_bucket_buffer(): there is one, and the newest one is either *)
(* the first and unused, or there are at most as many of them as tuples    *)
(* the thread has found a slot for.                                        *)
Placed(t) == cur[t] + IF pc[t] \in {"store", "unlock"} THEN 1 ELSE 0

BufferInv ==
  \A t \in Threads :
    /\ pc[t] \notin {"unborn", "start", "exited"} => bufs[t] # <<>>
    /\ pc[t] \in {"wait_start"} \cup Building =>
         \/ Head(bufs[t]) = 0 /\ Len(bufs[t]) = 1
         \/ Head(bufs[t]) > 0 /\ Len(bufs[t]) <= Placed(t)

TypeInv == TypeOK /\ SpawnInv /\ ShareInv /\ LoopInv /\ BufferInv

(* Whoever is between lock() and unlock() holds the latch of the bucket. *)
LatchHeld ==
  \A t \in Threads : pc[t] \in Latched => latch[LatchedBucket(t)] = 1

LatchInv == LatchHeld /\ LatchExclusion

-----------------------------------------------------------------------------
(* The shares and the buckets.                                             *)

(* With q tuples each, thread t's share ends inside of the relation, and   *)
(* the last thread's remainder is not negative.                            *)
LEMMA ShareBound ==
  ASSUME NEW n \in Nat, NEW t \in Threads, NEW q, q = n \div NThreads
  PROVE  /\ q \in Nat
         /\ q * t \in Nat
         /\ q * (t + 1) = q * t + q
         /\ q * t + q <= n
<1>1. NThreads \in Nat \ {0} /\ t \in Nat /\ t + 1 <= NThreads
  BY JoinAssumption DEF Threads
<1>2. q \in Nat
  BY <1>1
<1>3. q * NThreads <= n
  <2>1. n = NThreads * (n \div NThreads) + (n % NThreads) /\ n % NThreads >= 0
    BY <1>1, SMT
  <2>2. \A a \in Nat, b \in Nat : a * b = b * a
    BY SMT
  <2>3. QED
    BY <1>1, <1>2, <2>1, <2>2, SMT
<1>4. q * t \in Nat /\ q * (t + 1) = q * t + q
  BY <1>1, <1>2, SMT
<1>5. q * (t + 1) <= q * NThreads
  BY <1>1, <1>2, SMT
<1>6. QED
  BY <1>2, <1>3, <1>4, <1>5, <1>1

LEMMA SizeTypes == NumR \in Nat /\ NumS \in Nat /\ BucketSize \in Nat \ {0}
  BY HashTableAssumption, JoinAssumption

(* Every key has a bucket in the table. *)
LEMMA BucketOfType == \A key \in Keys : BucketOf(key) \in TableBuckets
<1>1. \A key \in Keys : Hash(key) \in 0 .. (NumBuckets - 1)
  BY HashInTable, JoinAssumption
<1>2. QED
  BY <1>1 DEF BucketOf, TableBuckets

(* The tuple a thread inserts is one of R, and its bucket is in the table. *)
LEMMA BuildTupleType ==
  ASSUME TypeOK, ShareInv, NEW t \in Threads, cur[t] < args[t].rNum
  PROVE  /\ BuildTuple(t) \in Tuples
         /\ LatchedBucket(t) \in TableBuckets
         /\ NumR > cur[t]
<1>1. /\ args[t].rFirst \in 1 .. (NumR + 1) /\ args[t].rNum \in 0 .. NumR
      /\ cur[t] \in Nat
  BY DEF TypeOK, Shares
<1>2. BuildTuple(t) \in Tuples /\ NumR > cur[t]
  BY <1>1, SizeTypes DEF ShareInv, BuildTuple, Tuples
<1>3. QED
  BY <1>2, BucketOfType DEF TypeOK, LatchedBucket, Tuples

(* A lookup begins at a bucket of the table. *)
LEMMA LookupStartType ==
  ASSUME TypeOK, ShareInv, NEW t \in Threads, NEW c \in Nat
  PROVE  /\ LookupStart(t, c) \in Buckets \cup {NULL}
         /\ c < args[t].sNum => LookupStart(t, c) \in TableBuckets
<1>1. ASSUME c < args[t].sNum
      PROVE  ProbeKey(t, c) \in Keys
  <2>1. args[t].sFirst \in 1 .. (NumS + 1) /\ args[t].sNum \in 0 .. NumS
    BY DEF TypeOK, Shares
  <2>2. args[t].sFirst + c \in 1 .. NumS
    BY <1>1, <2>1, SizeTypes DEF ShareInv
  <2>3. QED
    BY <2>2 DEF TypeOK, ProbeKey
<1>2. QED
  BY <1>1, BucketOfType DEF LookupStart, Buckets

-----------------------------------------------------------------------------
(* The types: every action preserves TypeInv.                              *)

LEMMA InitTypeInv == Init => TypeInv
<1> SUFFICES ASSUME Init
             PROVE  TypeInv
  OBVIOUS
<1>1. 0 \in Threads /\ \A n \in Int : n * 0 = 0
  BY JoinAssumption, SMT DEF Threads
<1>2. TypeOK
  <2>1. NoShare \in Shares /\ NothingSeen \in Snapshots
    BY SizeTypes DEF NoShare, Shares, NothingSeen, Snapshots
  <2>2. QED
    BY <1>1, <2>1, SizeTypes
       DEF Init, TypeOK, MainLabels, Labels, Bit, NoTuple, Sync!BarrierInit
<1>3. SpawnInv
  <2>1. NumR \div NThreads \in Nat /\ NumS \div NThreads \in Nat /\ mainI = 0
    BY <1>1, ShareBound, SizeTypes DEF Init
  <2>2. (NumR \div NThreads) * mainI = 0 /\ (NumS \div NThreads) * mainI = 0
    BY <1>1, <2>1
  <2>3. remR = NumR - 0 /\ remS = NumS - 0
    BY SizeTypes DEF Init
  <2>4. QED
    BY <2>2, <2>3 DEF SpawnInv
<1>4. ShareInv
  BY SizeTypes DEF Init, ShareInv, NoShare
<1>5. LoopInv /\ BufferInv
  BY DEF Init, LoopInv, BufferInv, Latched, Building, Probing
<1>6. QED
  BY <1>2, <1>3, <1>4, <1>5 DEF TypeInv

LEMMA SpawnTypeInv == TypeInv /\ Spawn => TypeInv'
<1> SUFFICES ASSUME TypeInv, Spawn
             PROVE  TypeInv'
  OBVIOUS
<1> USE DEF TypeInv
<1> DEFINE qR == NumR \div NThreads
           qS == NumS \div NThreads
<1>1. mainI \in Threads /\ mainI \in Nat /\ NThreads \in Nat
  BY JoinAssumption DEF TypeOK, Threads
<1>2. /\ qR \in Nat /\ qR * mainI \in Nat /\ qR * (mainI + 1) = qR * mainI + qR
      /\ qR * mainI + qR <= NumR
  BY <1>1, ShareBound, SizeTypes
<1>3. /\ qS \in Nat /\ qS * mainI \in Nat /\ qS * (mainI + 1) = qS * mainI + qS
      /\ qS * mainI + qS <= NumS
  BY <1>1, ShareBound, SizeTypes
<1>4. remR = NumR - qR * mainI /\ remS = NumS - qS * mainI
  BY DEF Spawn, SpawnInv
<1> HIDE DEF qR, qS
<1>5. /\ Share(mainI) \in Shares
      /\ Share(mainI).rFirst + Share(mainI).rNum <= NumR + 1
      /\ Share(mainI).sFirst + Share(mainI).sNum <= NumS + 1
  <2>1. /\ Share(mainI).rFirst = qR * mainI + 1 /\ Share(mainI).sFirst = qS * mainI + 1
        /\ Share(mainI).rNum \in {remR, qR} /\ Share(mainI).sNum \in {remS, qS}
    BY DEF Share, qR, qS
  <2>2. QED
    BY <1>2, <1>3, <1>4, <2>1, SizeTypes DEF Share, Shares
<1>6. args' \in [Threads -> Shares] /\ ShareInv'
  BY <1>1, <1>5 DEF Spawn, TypeOK, ShareInv
<1>7. remR' = NumR - qR * mainI - qR /\ remS' = NumS - qS * mainI - qS
  BY <1>4 DEF Spawn, qR, qS
<1>8. mainI' \in Threads /\ mainPc' \in MainLabels
  BY <1>1, JoinAssumption DEF Spawn, MainLabels, Threads
<1>9. SpawnInv'
  <2>1. mainPc' = "spawn" => mainI' = mainI + 1
    BY DEF Spawn
  <2>2. QED
    BY <1>2, <1>3, <1>7, <2>1, SizeTypes DEF SpawnInv, qR, qS
<1>10. pc' = [pc EXCEPT ![mainI] = "start"]
  BY DEF Spawn, Goto
<1>11. TypeOK'
  <2>1. pc' \in [Threads -> Labels]
    BY <1>10 DEF TypeOK, Labels
  <2>2. remR' \in 0 .. NumR /\ remS' \in 0 .. NumS
    BY <1>2, <1>3, <1>7, SizeTypes
  <2>3. QED
    BY <1>6, <1>8, <2>1, <2>2 DEF TypeOK, Spawn, inputs, table, locals, barrier
<1>12. LoopInv' /\ BufferInv'
  <2>1. \A t \in Threads : pc'[t] # "start" =>
           t # mainI /\ pc'[t] = pc[t] /\ args'[t] = args[t]
    BY <1>10 DEF TypeOK, Spawn
  <2>2. UNCHANGED <<cur, probeAt, bufs>>
    BY DEF Spawn, locals
  <2>3. QED
    BY <2>1, <2>2
       DEF LoopInv, BufferInv, Latched, Building, Probing, Placed
<1>13. QED
  BY <1>6, <1>9, <1>11, <1>12

LEMMA JoinTypeInv == TypeInv /\ (Join \/ Destroy) => TypeInv'
<1> SUFFICES ASSUME TypeInv, Join \/ Destroy
             PROVE  TypeInv'
  OBVIOUS
<1> USE DEF TypeInv
<1>1. /\ UNCHANGED <<inputs, remR, remS, args, table, bufs, pc, locals, barrier>>
      /\ mainPc' \in MainLabels \ {"spawn"} /\ mainI' \in Threads /\ result' \in Nat
  <2>1. mainI \in Threads /\ result \in Nat /\ matches[mainI] \in Nat
    BY DEF TypeOK
  <2>2. CASE Join
    BY <2>1, <2>2, JoinAssumption DEF Join, MainLabels, Threads
  <2>3. CASE Destroy
    BY <2>1, <2>3 DEF Destroy, MainLabels
  <2>4. QED
    BY <2>2, <2>3
<1>2. TypeOK'
  BY <1>1 DEF TypeOK, inputs, table, locals, barrier
<1>3. SpawnInv' /\ ShareInv'
  BY <1>1 DEF SpawnInv, ShareInv
<1>4. LoopInv' /\ BufferInv'
  BY <1>1 DEF LoopInv, BufferInv, Latched, Probing, Placed, locals
<1>5. QED
  BY <1>2, <1>3, <1>4

(* The steps of a thread that leave the shares and the main thread alone.  *)
LEMMA ThreadFrame ==
  ASSUME TypeInv, UNCHANGED <<inputs, mainVars>>
  PROVE  SpawnInv' /\ ShareInv'
  BY DEF TypeInv, SpawnInv, ShareInv, inputs, mainVars

(* The barrier counts on. *)
LEMMA BarrierTypes ==
  ASSUME TypeOK, NEW t \in Threads, Sync!Arrive(t) \/ Sync!Leave(t) \/ UNCHANGED barrier
  PROVE  arrived' \in [Threads -> Nat] /\ left' \in [Threads -> Nat]
<1>1. arrived \in [Threads -> Nat] /\ left \in [Threads -> Nat]
  BY DEF TypeOK
<1>2. CASE Sync!Arrive(t)
  BY <1>1, <1>2 DEF Sync!Arrive
<1>3. CASE Sync!Leave(t)
  BY <1>1, <1>3 DEF Sync!Leave
<1>4. CASE UNCHANGED barrier
  BY <1>1, <1>4 DEF barrier
<1>5. QED
  BY <1>2, <1>3, <1>4

(* The steps that begin or end a phase: they go to another label, and may   *)
(* arrive at or leave the barrier.                                         *)
LEMMA PhaseTypeInv ==
  ASSUME TypeInv, NEW t \in Threads, Start(t) \/ BeginBuild(t) \/ EndBuild(t)
                                     \/ EndProbe(t) \/ EndProbeUntimed(t) \/ BeginFree(t)
  PROVE  TypeInv'
<1> USE DEF TypeInv
<1>1. UNCHANGED <<inputs, mainVars, table, locals>>
  BY DEF Start, BeginBuild, EndBuild, EndProbe, EndProbeUntimed, BeginFree
<1>2. /\ arrived' \in [Threads -> Nat]
      /\ left' \in [Threads -> Nat]
  BY BarrierTypes DEF Start, BeginBuild, EndBuild, EndProbe, EndProbeUntimed, BeginFree
<1>3. CASE Start(t)
  <2>1. pc' = [pc EXCEPT ![t] = "wait_start"] /\ bufs' = [bufs EXCEPT ![t] = <<0>>]
    BY <1>3 DEF Start, Goto
  <2>2. <<0>> \in Seq(0 .. OverflowBufSize) /\ Head(<<0>>) = 0 /\ Len(<<0>>) = 1
    BY JoinAssumption
  <2>3. TypeOK'
    BY <1>1, <1>2, <2>1, <2>2
       DEF TypeOK, Labels, inputs, mainVars, table, locals
  <2>4. LoopInv'
    BY <1>1, <2>1 DEF TypeOK, LoopInv, Latched, Probing, mainVars, locals
  <2>5. BufferInv'
    BY <1>1, <2>1, <2>2 DEF TypeOK, BufferInv, Placed, locals, Building, Latched
  <2>6. QED
    BY <1>1, <2>3, <2>4, <2>5, ThreadFrame
<1>4. CASE ~Start(t)
  <2>1. PICK label \in {"build", "wait_build", "wait_probe", "free"} :
          /\ pc' = [pc EXCEPT ![t] = label]
          /\ label = "build" => pc[t] = "wait_start"
    BY <1>4 DEF BeginBuild, EndBuild, EndProbe, EndProbeUntimed, BeginFree, Goto
  <2>2. bufs' = bufs /\ pc[t] \notin {"unborn", "start", "exited"}
    BY <1>4 DEF BeginBuild, EndBuild, EndProbe, EndProbeUntimed, BeginFree
  <2>3. TypeOK'
    BY <1>1, <1>2, <2>1, <2>2
       DEF TypeOK, Labels, Building, ProbingOrLater, inputs, mainVars, table, locals
  <2>4. LoopInv'
    BY <1>1, <2>1 DEF TypeOK, LoopInv, Latched, Probing, mainVars, locals
  <2>5. BufferInv'
    BY <1>1, <2>1, <2>2 DEF TypeOK, BufferInv, Placed, locals, Building, Latched
  <2>6. QED
    BY <1>1, <2>3, <2>4, <2>5, ThreadFrame
<1>5. QED
  BY <1>3, <1>4

(* The steps of the build that touch neither count nor bufs. *)
LEMMA BuildTypeInv ==
  ASSUME TypeInv, NEW t \in Threads, LatchBucket(t) \/ Inspect(t) \/ Store(t) \/ UnlatchBucket(t)
  PROVE  TypeInv'
<1> USE DEF TypeInv
<1>1. UNCHANGED <<inputs, mainVars, count, next, bufs, dest, probeAt, matches, barrier>>
  BY DEF LatchBucket, Inspect, Store, UnlatchBucket, table, locals
<1>2. /\ cur[t] < args[t].rNum
      /\ BuildTuple(t) \in Tuples /\ LatchedBucket(t) \in TableBuckets
      /\ pc[t] \in Building
  <2>1. cur[t] < args[t].rNum /\ pc[t] \in Building
    BY DEF LatchBucket, Inspect, Store, UnlatchBucket, LoopInv, Latched, Building
  <2>2. QED
    BY <2>1, BuildTupleType
<1>3. PICK label \in {"build", "inspect", "reserve", "unlock"} :
        /\ pc' = [pc EXCEPT ![t] = label]
        /\ label = "reserve" => pc[t] = "inspect"
        /\ label = "inspect" => pc[t] = "build"
        /\ label = "unlock" => pc[t] = "store"
        /\ label = "build" => pc[t] \in {"build", "unlock"}
        /\ pc[t] = "unlock" => cur' = [cur EXCEPT ![t] = cur[t] + 1]
        /\ pc[t] # "unlock" => cur' = cur
        /\ pc[t] = "store" => label = "unlock"
  BY DEF LatchBucket, Inspect, Store, UnlatchBucket, Goto, locals
<1>4. latch' \in [TableBuckets -> Bit]
  <2>1. latch \in [TableBuckets -> Bit]
    BY DEF TypeOK
  <2>2. CASE LatchBucket(t)
    <3>1. TasStored(latch[LatchedBucket(t)]) \in Bit
      BY <1>2, <2>1 DEF TasStored, Bit
    <3>2. QED
      BY <1>2, <2>1, <2>2, <3>1 DEF LatchBucket
  <2>3. CASE UnlatchBucket(t)
    BY <1>2, <2>1, <2>3 DEF UnlatchBucket, Bit
  <2>4. CASE Inspect(t) \/ Store(t)
    BY <2>1, <2>4 DEF Inspect, Store, table
  <2>5. QED
    BY <2>2, <2>3, <2>4
<1>5. seen' \in [Threads -> Snapshots]
  <2>1. seen \in [Threads -> Snapshots]
    BY DEF TypeOK
  <2>2. CASE Inspect(t)
    <3> DEFINE b == LatchedBucket(t)
               n == next[b]
    <3>1. /\ count[b] \in 0 .. BucketSize /\ n \in Buckets \cup {NULL}
          /\ n # NULL => count[n] \in 0 .. BucketSize
      BY <1>2 DEF TypeOK, Buckets
    <3>2. [count |-> count[b], nxt |-> n, nxtCount |-> IF n = NULL THEN 0 ELSE count[n]]
            \in Snapshots
      BY <3>1, SizeTypes DEF Snapshots
    <3>3. QED
      BY <2>1, <2>2, <3>2 DEF Inspect
  <2>3. CASE ~Inspect(t)
    BY <2>1, <2>3 DEF LatchBucket, Store, UnlatchBucket, locals
  <2>4. QED
    BY <2>2, <2>3
<1>6. slots' \in [Buckets -> [1 .. BucketSize -> 0 .. NumR]]
  <2>1. slots \in [Buckets -> [1 .. BucketSize -> 0 .. NumR]] /\ BuildTuple(t) \in 0 .. NumR
    BY <1>2, SizeTypes, SMTT(30) DEF TypeOK, Tuples
  <2>2. CASE Store(t)
    BY <2>1, <2>2 DEF Store
  <2>3. CASE ~Store(t)
    BY <2>1, <2>3 DEF LatchBucket, Inspect, UnlatchBucket, table
  <2>4. QED
    BY <2>2, <2>3
<1>7. TypeOK'
  <2>1. pc' \in [Threads -> Labels]
    BY <1>3 DEF TypeOK, Labels, Building, Latched
  <2>2. cur' \in [Threads -> Nat]
    <3>1. cur \in [Threads -> Nat] /\ cur[t] + 1 \in Nat
      BY DEF TypeOK
    <3>2. CASE pc[t] = "unlock"
      BY <1>3, <3>1, <3>2
    <3>3. QED
      BY <1>3, <3>1, <3>2
  <2>3. QED
    BY <1>1, <1>4, <1>5, <1>6, <2>1, <2>2 DEF TypeOK, inputs, mainVars, barrier
<1>8. LoopInv'
  BY <1>1, <1>2, <1>3 DEF TypeOK, LoopInv, Latched, Probing, inputs, mainVars
<1>9. BufferInv'
  <2>1. \A u \in Threads : pc'[u] = pc[u] \/ (pc[u] \in Building /\ pc'[u] \in Building)
    BY <1>2, <1>3 DEF TypeOK, Building, Latched
  <2>2. \A u \in Threads : Placed(u)' = Placed(u)
    <3>1. cur[t] \in Nat
      BY DEF TypeOK
    <3>2. /\ cur'[t] = cur[t] + (IF pc[t] = "unlock" THEN 1 ELSE 0)
          /\ \A u \in Threads \ {t} : cur'[u] = cur[u] /\ pc'[u] = pc[u]
      BY <1>3, <3>1 DEF TypeOK
    <3>3. pc'[t] \in {"store", "unlock"} <=> pc[t] = "store"
      BY <1>2, <1>3 DEF TypeOK
    <3>4. QED
      BY <3>1, <3>2, <3>3 DEF Placed
  <2>3. QED
    BY <1>1, <2>1, <2>2 DEF BufferInv, Building, Latched
<1>10. QED
  BY <1>1, <1>7, <1>8, <1>9, ThreadFrame

(* A slot is reserved in a bucket that there is. *)
LEMMA ReserveOldTypeInv ==
  ASSUME TypeInv, NEW t \in Threads, ReserveInBucket(t) \/ ReserveInOverflow(t)
  PROVE  TypeInv'
<1> USE DEF TypeInv
<1>1. /\ UNCHANGED <<inputs, mainVars, latch, slots, next, bufs, cur, seen, probeAt, matches,
                     barrier>>
      /\ pc[t] = "reserve" /\ pc' = [pc EXCEPT ![t] = "store"]
  BY DEF ReserveInBucket, ReserveInOverflow, Goto
<1>2. /\ seen[t].count \in 0 .. BucketSize /\ seen[t].nxtCount \in 0 .. BucketSize
      /\ seen[t].nxt \in Buckets \cup {NULL}
  BY DEF TypeOK, Snapshots
<1>3. LatchedBucket(t) \in Buckets
  BY <1>1, BuildTupleType DEF LoopInv, Latched, Buckets
<1>4. PICK b \in Buckets, n \in 0 .. BucketSize :
        count' = [count EXCEPT ![b] = n] /\ dest' = [dest EXCEPT ![t] = <<b, n>>]
  <2>1. CASE ReserveInBucket(t)
    <3>1. seen[t].count + 1 \in 0 .. BucketSize
      BY <1>2, <2>1, SizeTypes DEF ReserveInBucket, Full
    <3>2. QED
      BY <1>3, <2>1, <3>1 DEF ReserveInBucket
  <2>2. CASE ReserveInOverflow(t)
    <3>1. seen[t].nxt \in Buckets /\ seen[t].nxtCount + 1 \in 0 .. BucketSize
      BY <1>2, <2>2, SizeTypes DEF ReserveInOverflow, Full
    <3>2. QED
      BY <2>2, <3>1 DEF ReserveInOverflow
  <2>3. QED
    BY <2>1, <2>2
<1>5. TypeOK'
  <2>1. count' \in [Buckets -> 0 .. BucketSize]
    BY <1>4 DEF TypeOK
  <2>2. dest' \in [Threads -> (Buckets \cup {NULL}) \X (0 .. BucketSize)]
    BY <1>4 DEF TypeOK
  <2>3. pc' \in [Threads -> Labels]
    BY <1>1 DEF TypeOK, Labels, Building, Latched
  <2>4. QED
    BY <1>1, <2>1, <2>2, <2>3 DEF TypeOK, inputs, mainVars, barrier
<1>6. LoopInv'
  BY <1>1 DEF TypeOK, LoopInv, Latched, Probing, mainVars
<1>7. BufferInv'
  <2>1. \A u \in Threads \ {t} : pc'[u] = pc[u] /\ Placed(u)' = Placed(u)
    BY <1>1 DEF TypeOK, Placed
  <2>2. pc'[t] = "store" /\ cur[t] \in Nat /\ Placed(t) = cur[t] /\ Placed(t)' = cur[t] + 1
    BY <1>1 DEF TypeOK, Placed
  <2>3. bufs' = bufs /\ bufs[t] \in Seq(0 .. OverflowBufSize)
    BY <1>1 DEF TypeOK
  <2>4. QED
    BY <1>1, <2>1, <2>2, <2>3 DEF BufferInv, Building, Latched
<1>8. QED
  BY <1>1, <1>5, <1>6, <1>7, ThreadFrame

(* What is known of a list of overflow buffers that is not empty. *)
LEMMA HeadAndTail ==
  ASSUME NEW S, NEW s \in Seq(S), s # <<>>
  PROVE  /\ Head(s) \in S /\ Len(s) \in Nat \ {0}
         /\ Tail(s) \in Seq(S) /\ Len(Tail(s)) = Len(s) - 1
         /\ Len(s) # 1 => Tail(s) # <<>>
<1>1. Head(s) \in S /\ Len(s) \in Nat \ {0}
  BY EmptySeq, HeadTailProperties
<1>2. Tail(s) \in Seq(S) /\ Len(Tail(s)) = Len(s) - 1
  BY HeadTailProperties
<1>3. Tail(s) = <<>> => Len(Tail(s)) = 0
  BY EmptySeq
<1>4. QED
  BY <1>1, <1>2, <1>3

LEMMA ConsFacts ==
  ASSUME NEW S, NEW r \in Seq(S), NEW x \in S
  PROVE  /\ <<x>> \o r \in Seq(S) /\ <<x>> \o r # <<>>
         /\ Head(<<x>> \o r) = x /\ Len(<<x>> \o r) = Len(r) + 1
<1>1. <<x>> \in Seq(S) /\ Len(<<x>>) = 1 /\ <<x>>[1] = x /\ Len(r) \in Nat
  BY LenProperties
<1>2. <<x>> \o r \in Seq(S) /\ Len(<<x>> \o r) = Len(r) + 1 /\ (<<x>> \o r)[1] = x
  BY <1>1, ConcatProperties
<1>3. <<x>> \o r # <<>>
  BY <1>1, <1>2, EmptySeq
<1>4. QED
  BY <1>2, <1>3

(* get_new_bucket() takes the bucket behind the last one that was taken    *)
(* from the newest buffer, or the first one of a new buffer.               *)
LEMMA NewBucketFacts ==
  ASSUME TypeInv, NEW t \in Threads, ReserveInNewBucket(t)
  PROVE  /\ bufs[t] \in Seq(0 .. OverflowBufSize) /\ bufs[t] # <<>>
         /\ NewBucket(t) \in OverflowBuckets
         /\ \E new \in Seq(0 .. OverflowBufSize) :
              /\ bufs' = [bufs EXCEPT ![t] = new]
              /\ new # <<>> /\ Head(new) > 0 /\ Len(new) <= cur[t] + 1
              /\ NewBucket(t) = <<Len(new), t, Head(new)>>
              /\ \/ Len(new) = Len(bufs[t]) /\ Head(new) = Head(bufs[t]) + 1
                 \/ /\ Len(new) = Len(bufs[t]) + 1 /\ Head(new) = 1
                    /\ Head(bufs[t]) = OverflowBufSize
<1> USE DEF TypeInv
<1>1. pc[t] = "reserve" /\ cur[t] \in Nat /\ cur[t] < NumR
  BY BuildTupleType DEF ReserveInNewBucket, LoopInv, Latched, TypeOK
<1> DEFINE S == 0 .. OverflowBufSize
           old == bufs[t]
<1>2. /\ old \in Seq(S) /\ old # <<>>
      /\ \/ Head(old) = 0 /\ Len(old) = 1
         \/ Head(old) > 0 /\ Len(old) <= cur[t]
  <2>1. Placed(t) = cur[t]
    BY <1>1 DEF Placed
  <2>2. QED
    BY <1>1, <2>1 DEF TypeOK, BufferInv, Building, Latched
<1>3. Head(old) \in S /\ Len(old) \in Nat \ {0}
  BY <1>2, HeadAndTail
<1> HIDE DEF S, old
<1>4. PICK new \in Seq(S) :
        /\ bufs' = [bufs EXCEPT ![t] = new]
        /\ new # <<>> /\ Head(new) > 0 /\ Len(new) <= cur[t] + 1
        /\ NewBucket(t) = <<Len(new), t, Head(new)>>
        /\ \/ Len(new) = Len(old) /\ Head(new) = Head(old) + 1
           \/ Len(new) = Len(old) + 1 /\ Head(new) = 1 /\ Head(old) = OverflowBufSize
  <2>1. CASE ChunkHasRoom(t)
    <3> DEFINE x == Head(old) + 1
               new == <<x>> \o Tail(old)
    <3>1. x \in S /\ x > 0
      BY <1>3, <2>1, JoinAssumption DEF ChunkHasRoom, S, old
    <3>2. new \in Seq(S) /\ new # <<>> /\ Head(new) = x /\ Len(new) = Len(old)
      <4>1. Tail(old) \in Seq(S) /\ Len(Tail(old)) + 1 = Len(old)
        BY <1>2, <1>3, HeadAndTail
      <4>2. QED
        BY <3>1, <4>1, ConsFacts
    <3>3. bufs' = [bufs EXCEPT ![t] = new] /\ NewBucket(t) = <<Len(old), t, x>>
      BY <2>1 DEF ReserveInNewBucket, BufsAfterNewBucket, NewBucket, old
    <3> HIDE DEF new
    <3>4. Len(new) <= cur[t] + 1
      BY <1>1, <1>2, <1>3, <3>2
    <3>5. QED
      BY <3>1, <3>2, <3>3, <3>4
  <2>2. CASE ~ChunkHasRoom(t)
    <3> DEFINE new == <<1>> \o old
    <3>1. Head(old) > 0 /\ 1 \in S /\ Head(old) = OverflowBufSize
      BY <1>3, <2>2, JoinAssumption DEF ChunkHasRoom, S, old
    <3>2. new \in Seq(S) /\ new # <<>> /\ Head(new) = 1 /\ Len(new) = Len(old) + 1
      BY <1>2, <3>1, ConsFacts
    <3>3. bufs' = [bufs EXCEPT ![t] = new] /\ NewBucket(t) = <<Len(old) + 1, t, 1>>
      BY <2>2 DEF ReserveInNewBucket, BufsAfterNewBucket, NewBucket, old
    <3> HIDE DEF new
    <3>4. Len(new) <= cur[t] + 1
      BY <1>1, <1>2, <1>3, <3>1, <3>2
    <3>5. Head(new) > 0 /\ NewBucket(t) = <<Len(new), t, Head(new)>>
      BY <3>2, <3>3
    <3>6. QED
      BY <3>1, <3>2, <3>3, <3>4, <3>5
  <2>3. QED
    BY <2>1, <2>2
<1>5. NewBucket(t) \in OverflowBuckets
  <2>1. Head(new) \in S /\ Len(new) \in Nat \ {0}
    BY <1>4, HeadAndTail
  <2>2. Len(new) \in 1 .. NumR /\ Head(new) \in 1 .. OverflowBufSize
    BY <1>1, <1>4, <2>1, SizeTypes DEF S
  <2>3. QED
    BY <1>4, <2>2 DEF OverflowBuckets
<1>6. QED
  BY <1>2, <1>4, <1>5 DEF S, old

(* A new overflow bucket is taken. *)
LEMMA ReserveNewTypeInv ==
  ASSUME TypeInv, NEW t \in Threads, ReserveInNewBucket(t)
  PROVE  TypeInv'
<1> USE DEF TypeInv
<1>1. /\ UNCHANGED <<inputs, mainVars, latch, slots, cur, seen, probeAt, matches, barrier>>
      /\ pc[t] = "reserve" /\ pc' = [pc EXCEPT ![t] = "store"]
  BY DEF ReserveInNewBucket, Goto
<1>2. /\ cur[t] \in Nat /\ cur[t] < NumR /\ LatchedBucket(t) \in Buckets
      /\ seen[t].nxt \in Buckets \cup {NULL}
  BY <1>1, BuildTupleType DEF LoopInv, Latched, Buckets, TypeOK, Snapshots
<1> DEFINE S == 0 .. OverflowBufSize
<1>3. PICK new \in Seq(S) :
        /\ bufs' = [bufs EXCEPT ![t] = new]
        /\ new # <<>> /\ Head(new) > 0 /\ Len(new) <= cur[t] + 1
        /\ NewBucket(t) = <<Len(new), t, Head(new)>>
  BY NewBucketFacts
<1>4. NewBucket(t) \in Buckets
  BY NewBucketFacts DEF Buckets
<1>5. TypeOK'
  <2>1. count' \in [Buckets -> 0 .. BucketSize]
    BY <1>4, SizeTypes DEF TypeOK, ReserveInNewBucket
  <2>2. dest' \in [Threads -> (Buckets \cup {NULL}) \X (0 .. BucketSize)]
    <3>1. <<NewBucket(t), 1>> \in (Buckets \cup {NULL}) \X (0 .. BucketSize)
      BY <1>4, SizeTypes
    <3>2. dest' = [dest EXCEPT ![t] = <<NewBucket(t), 1>>]
      BY DEF ReserveInNewBucket
    <3>3. QED
      BY <3>1, <3>2 DEF TypeOK
  <2>3. next' \in [Buckets -> Buckets \cup {NULL}]
    BY <1>2, <1>4 DEF TypeOK, ReserveInNewBucket
  <2>4. bufs' \in [Threads -> Seq(0 .. OverflowBufSize)]
    BY <1>3 DEF TypeOK, S
  <2>5. pc' \in [Threads -> Labels]
    BY <1>1 DEF TypeOK, Labels, Building, Latched
  <2>6. QED
    BY <1>1, <2>1, <2>2, <2>3, <2>4, <2>5 DEF TypeOK, inputs, mainVars, barrier
<1>6. LoopInv'
  BY <1>1 DEF TypeOK, LoopInv, Latched, Probing, mainVars
<1>7. BufferInv'
  <2>1. \A u \in Threads \ {t} : pc'[u] = pc[u] /\ bufs'[u] = bufs[u] /\ cur'[u] = cur[u]
    BY <1>1, <1>3 DEF TypeOK
  <2>2. pc'[t] = "store" /\ bufs'[t] = new /\ cur'[t] = cur[t]
    BY <1>1, <1>3 DEF TypeOK
  <2>3. QED
    BY <1>3, <2>1, <2>2 DEF BufferInv, Placed
<1>8. QED
  BY <1>1, <1>5, <1>6, <1>7, ThreadFrame

(* A lookup begins, goes on or ends. *)
LEMMA LookupTypeInv ==
  ASSUME TypeInv, NEW t \in Threads,
         BeginProbe(t) \/ LookupHit(t) \/ LookupFollow(t) \/ LookupMiss(t)
  PROVE  TypeInv'
<1> USE DEF TypeInv
<1>1. UNCHANGED <<inputs, mainVars, table, bufs, seen, dest>>
  BY DEF BeginProbe, LookupHit, LookupFollow, LookupMiss
<1>2. /\ pc[t] \in {"wait_build", "probe"} /\ pc' = [pc EXCEPT ![t] = "probe"]
      /\ arrived' \in [Threads -> Nat] /\ left' \in [Threads -> Nat]
  <2>1. CASE BeginProbe(t)
    BY <2>1, BarrierTypes DEF BeginProbe, Goto
  <2>2. CASE ~BeginProbe(t)
    <3>1. pc[t] = "probe" /\ UNCHANGED <<pc, barrier>>
      BY <2>2 DEF LookupHit, LookupFollow, LookupMiss, Probing
    <3>2. QED
      BY <3>1 DEF TypeOK, barrier
  <2>3. QED
    BY <2>1, <2>2
<1>3. cur[t] \in Nat /\ matches[t] \in Nat
  BY DEF TypeOK
<1>4. PICK c \in Nat, b \in Buckets \cup {NULL} :
        /\ cur' = [cur EXCEPT ![t] = c]
        /\ probeAt' = [probeAt EXCEPT ![t] = b]
        /\ c < args[t].sNum => b \in Buckets
  <2>1. CASE BeginProbe(t)
    BY <2>1, LookupStartType DEF BeginProbe, Buckets
  <2>2. CASE LookupFollow(t)
    <3>1. probeAt[t] \in Buckets /\ cur[t] < args[t].sNum
      BY <2>2 DEF LookupFollow, LoopInv, Probing
    <3>2. next[probeAt[t]] \in Buckets
      BY <2>2, <3>1 DEF LookupFollow, TypeOK
    <3>3. /\ probeAt' = [probeAt EXCEPT ![t] = next[probeAt[t]]]
          /\ cur' = [cur EXCEPT ![t] = cur[t]]
      BY <2>2 DEF LookupFollow, TypeOK
    <3>4. QED
      BY <1>3, <3>2, <3>3
  <2>3. CASE LookupHit(t) \/ LookupMiss(t)
    <3>1. /\ cur' = [cur EXCEPT ![t] = cur[t] + 1]
          /\ probeAt' = [probeAt EXCEPT ![t] = LookupStart(t, cur[t] + 1)]
      BY <2>3 DEF LookupHit, LookupMiss, EndLookup
    <3>2. cur[t] + 1 \in Nat
      BY <1>3
    <3>3. QED
      BY <3>1, <3>2, LookupStartType DEF Buckets
  <2>4. QED
    BY <2>1, <2>2, <2>3
<1>5. matches' \in [Threads -> Nat]
  <2>1. \/ matches' = matches
        \/ matches' = [matches EXCEPT ![t] = matches[t] + 1]
    BY DEF BeginProbe, LookupHit, LookupFollow, LookupMiss, EndLookup
  <2>2. matches \in [Threads -> Nat] /\ matches[t] + 1 \in Nat
    BY <1>3, SMTT(30) DEF TypeOK
  <2>3. QED
    BY <2>1, <2>2
<1>6. TypeOK'
  <2>1. pc' \in [Threads -> Labels]
    BY <1>2 DEF TypeOK, Labels, ProbingOrLater
  <2>2. cur' \in [Threads -> Nat] /\ probeAt' \in [Threads -> Buckets \cup {NULL}]
    BY <1>4 DEF TypeOK
  <2>3. QED
    BY <1>1, <1>2, <1>5, <2>1, <2>2 DEF TypeOK, inputs, mainVars, table
<1>7. LoopInv'
  BY <1>1, <1>2, <1>4 DEF TypeOK, LoopInv, Latched, Probing, mainVars
<1>8. BufferInv'
  <2>1. \A u \in Threads \ {t} : pc'[u] = pc[u] /\ Placed(u)' = Placed(u)
    BY <1>2, <1>4 DEF TypeOK, Placed
  <2>2. pc'[t] = "probe" /\ bufs' = bufs
    BY <1>1, <1>2 DEF TypeOK
  <2>3. QED
    BY <1>2, <2>1, <2>2 DEF BufferInv, Building, Latched
<1>9. QED
  BY <1>1, <1>6, <1>7, <1>8, ThreadFrame

(* A lookup comes to a bucket that has been freed. *)
LEMMA FreedTypeInv ==
  ASSUME TypeInv, NEW t \in Threads, LookupFreed(t)
  PROVE  TypeInv'
<1> USE DEF TypeInv
<1>1. /\ UNCHANGED <<inputs, mainVars, table, bufs, locals, barrier>>
      /\ pc[t] = "probe" /\ pc' = [pc EXCEPT ![t] = "undefined"]
  BY DEF LookupFreed, Probing, Goto
<1>2. TypeOK'
  <2>1. pc' \in [Threads -> Labels]
    BY <1>1 DEF TypeOK, Labels
  <2>2. QED
    BY <1>1, <2>1 DEF TypeOK, inputs, mainVars, table, locals, barrier
<1>3. \A u \in Threads : pc'[u] = pc[u] \/ (pc[u] = "probe" /\ pc'[u] = "undefined")
  BY <1>1 DEF TypeOK
<1>4. LoopInv'
  BY <1>1, <1>3 DEF LoopInv, Latched, Probing, mainVars, locals
<1>5. BufferInv'
  <2>1. bufs' = bufs /\ cur' = cur
    BY <1>1 DEF locals
  <2>2. \A u \in Threads : pc'[u] = pc[u] => Placed(u)' = Placed(u)
    BY <2>1 DEF Placed
  <2>3. QED
    BY <1>3, <2>1, <2>2 DEF BufferInv, Building, Latched
<1>6. QED
  BY <1>1, <1>2, <1>4, <1>5, ThreadFrame

(* A buffer is freed. *)
LEMMA FreeTypeInv ==
  ASSUME TypeInv, NEW t \in Threads, FreeBuffer(t)
  PROVE  TypeInv'
<1> USE DEF TypeInv
<1>1. UNCHANGED <<inputs, mainVars, table, locals, barrier>>
  BY DEF FreeBuffer
<1> DEFINE label == IF Len(bufs[t]) = 1 THEN "exited" ELSE "free"
<1>2. /\ pc[t] = "free" /\ pc' = [pc EXCEPT ![t] = label]
      /\ bufs' = [bufs EXCEPT ![t] = Tail(bufs[t])]
  BY DEF FreeBuffer, Goto
<1>3. /\ Tail(bufs[t]) \in Seq(0 .. OverflowBufSize)
      /\ label = "free" => Tail(bufs[t]) # <<>>
  <2>1. bufs[t] \in Seq(0 .. OverflowBufSize) /\ bufs[t] # <<>>
    BY <1>2 DEF TypeOK, BufferInv
  <2>2. QED
    BY <2>1, HeadAndTail
<1>4. label \in {"free", "exited"}
  OBVIOUS
<1> HIDE DEF label
<1>5. TypeOK'
  <2>1. pc' \in [Threads -> Labels]
    BY <1>2, <1>4 DEF TypeOK, Labels, ProbingOrLater
  <2>2. bufs' \in [Threads -> Seq(0 .. OverflowBufSize)]
    BY <1>2, <1>3 DEF TypeOK
  <2>3. QED
    BY <1>1, <2>1, <2>2 DEF TypeOK, inputs, mainVars, table, locals, barrier
<1>6. LoopInv'
  BY <1>1, <1>2, <1>4 DEF TypeOK, LoopInv, Latched, Probing, mainVars, locals
<1>7. BufferInv'
  <2>1. \A u \in Threads \ {t} :
          pc'[u] = pc[u] /\ bufs'[u] = bufs[u] /\ Placed(u)' = Placed(u)
    BY <1>1, <1>2 DEF TypeOK, Placed, locals
  <2>2. pc'[t] = label /\ bufs'[t] = Tail(bufs[t])
    BY <1>2 DEF TypeOK
  <2>3. QED
    BY <1>3, <1>4, <2>1, <2>2 DEF BufferInv, Building, Latched
<1>8. QED
  BY <1>1, <1>5, <1>6, <1>7, ThreadFrame

LEMMA NextTypeInv == TypeInv /\ [Next]_vars => TypeInv'
<1> SUFFICES ASSUME TypeInv, [Next]_vars
             PROVE  TypeInv'
  OBVIOUS
<1>1. CASE UNCHANGED vars
  <2>1. UNCHANGED <<inputs, mainVars, table, bufs, pc, locals, barrier>>
    BY <1>1 DEF vars
  <2>2. TypeOK'
    BY <2>1 DEF TypeInv, TypeOK, inputs, mainVars, table, locals, barrier
  <2>3. LoopInv' /\ BufferInv'
    BY <2>1 DEF TypeInv, LoopInv, BufferInv, Placed, Latched, Probing, mainVars, locals
  <2>4. QED
    BY <2>1, <2>2, <2>3, ThreadFrame DEF TypeInv
<1>2. CASE Main
  BY <1>2, SpawnTypeInv, JoinTypeInv DEF Main
<1>3. ASSUME NEW t \in Threads, Thread(t)
      PROVE  TypeInv'
  <2>1. CASE Start(t) \/ BeginBuild(t) \/ BeginFree(t)
    BY <2>1, PhaseTypeInv
  <2>2. CASE Build(t)
    BY <2>2, PhaseTypeInv, BuildTypeInv, ReserveOldTypeInv, ReserveNewTypeInv DEF Build
  <2>3. CASE BeginProbe(t) \/ Probe(t)
    BY <2>3, PhaseTypeInv, LookupTypeInv, FreedTypeInv DEF Probe
  <2>4. CASE FreeBuffer(t)
    BY <2>4, FreeTypeInv
  <2>5. QED
    BY <1>3, <2>1, <2>2, <2>3, <2>4 DEF Thread
<1>4. QED
  BY <1>1, <1>2, <1>3 DEF Next, Finished

LEMMA TypeInvCorrect == Spec => []TypeInv
  BY InitTypeInv, NextTypeInv, PTL DEF Spec

(* Every variable of the threaded join keeps its type: among others, the   *)
(* overflow buffers never hand out a bucket that is not theirs, no bucket  *)
(* counts more tuples than it has slots, and the shares are in range.      *)
THEOREM TypeCorrect == Spec => []TypeOK
  BY TypeInvCorrect, PTL DEF TypeInv

-----------------------------------------------------------------------------
(* The latches, as compiled for x86.                                       *)

(* A step that changes no latch and lets no thread in keeps them.          *)
LEMMA LatchFrame ==
  ASSUME LatchInv, UNCHANGED <<relR, latch>>,
         \A u \in Threads : pc'[u] \in Latched =>
           pc[u] \in Latched /\ args'[u] = args[u] /\ cur'[u] = cur[u]
  PROVE  LatchInv'
<1>1. \A u \in Threads : pc'[u] \in Latched => LatchedBucket(u)' = LatchedBucket(u)
  BY DEF LatchedBucket, BuildTuple
<1>2. QED
  BY <1>1 DEF LatchInv, LatchHeld, LatchExclusion

LEMMA LatchBucketLatchInv ==
  ASSUME Arch = "x86", TypeInv, LatchInv, NEW t \in Threads, LatchBucket(t)
  PROVE  LatchInv'
<1> DEFINE b == LatchedBucket(t)
<1>1. latch \in [TableBuckets -> Bit] /\ pc \in [Threads -> Labels]
  BY DEF TypeInv, TypeOK
<1>2. b \in TableBuckets
  BY BuildTupleType DEF TypeInv, LatchBucket
<1>3. \A u \in Threads : LatchedBucket(u)' = LatchedBucket(u)
  BY DEF LatchBucket, LatchedBucket, BuildTuple, inputs, mainVars, locals
<1>4. latch' = [latch EXCEPT ![b] = 1]
  BY DEF LatchBucket, TasStored
<1>5. pc' = [pc EXCEPT ![t] = IF latch[b] = 0 THEN "inspect" ELSE "build"] /\ pc[t] = "build"
  BY DEF LatchBucket, TasAcquires, TasReturned, Goto
<1> HIDE DEF b
<1>6. CASE latch[b] = 0
  <2>1. \A u \in Threads : pc[u] \in Latched => LatchedBucket(u) # b
    BY <1>6 DEF LatchInv, LatchHeld
  <2>2. pc'[t] = "inspect" /\ \A u \in Threads \ {t} : pc'[u] = pc[u]
    BY <1>1, <1>5, <1>6
  <2>3. LatchHeld'
    <3>1. \A u \in Threads : pc'[u] \in Latched => latch'[LatchedBucket(u)] = 1
      <4>1. SUFFICES ASSUME NEW u \in Threads, pc'[u] \in Latched
                     PROVE  latch'[LatchedBucket(u)] = 1
        OBVIOUS
      <4>2. CASE u = t
        BY <1>1, <1>2, <1>4, <4>2 DEF b
      <4>3. CASE u # t
        <5>1. pc[u] \in Latched
          BY <2>2, <4>1, <4>3
        <5>2. LatchedBucket(u) \in TableBuckets
          BY <5>1, BuildTupleType DEF TypeInv, LoopInv
        <5>3. latch[LatchedBucket(u)] = 1 /\ LatchedBucket(u) # b
          BY <2>1, <5>1 DEF LatchInv, LatchHeld
        <5>4. QED
          BY <1>1, <1>4, <5>2, <5>3
      <4>4. QED
        BY <4>2, <4>3
    <3>2. QED
      BY <1>3, <3>1 DEF LatchHeld
  <2>4. LatchExclusion'
    BY <1>3, <2>1, <2>2 DEF LatchInv, LatchExclusion, b
  <2>5. QED
    BY <2>3, <2>4 DEF LatchInv
<1>7. CASE latch[b] = 1
  <2>1. pc' = pc /\ latch' = latch
    BY <1>1, <1>2, <1>4, <1>5, <1>7
  <2>2. QED
    BY <1>3, <2>1 DEF LatchInv, LatchHeld, LatchExclusion
<1>8. QED
  BY <1>1, <1>2, <1>6, <1>7 DEF Bit

LEMMA UnlatchBucketLatchInv ==
  ASSUME TypeInv, LatchInv, NEW t \in Threads, UnlatchBucket(t)
  PROVE  LatchInv'
<1>1. /\ pc[t] \in Latched /\ pc'[t] = "build"
      /\ \A u \in Threads \ {t} : pc'[u] = pc[u] /\ cur'[u] = cur[u]
      /\ UNCHANGED <<relR, args>>
  BY DEF UnlatchBucket, TypeInv, TypeOK, Goto, Latched, inputs, mainVars
<1>2. \A u \in Threads \ {t} : LatchedBucket(u)' = LatchedBucket(u)
  BY <1>1 DEF LatchedBucket, BuildTuple
<1>3. latch' = [latch EXCEPT ![LatchedBucket(t)] = 0] /\ "build" \notin Latched
  BY DEF UnlatchBucket, Latched
<1>4. \A u \in Threads \ {t} : pc[u] \in Latched =>
         LatchedBucket(u) # LatchedBucket(t) /\ LatchedBucket(u) \in TableBuckets
  BY <1>1, BuildTupleType DEF LatchInv, LatchExclusion, TypeInv, LoopInv
<1>5. LatchHeld'
  <2>1. \A u \in Threads : pc'[u] \in Latched => u # t /\ pc[u] \in Latched
    BY <1>1, <1>3
  <2>2. \A u \in Threads : pc[u] \in Latched => latch[LatchedBucket(u)] = 1
    BY DEF LatchInv, LatchHeld
  <2>3. latch \in [TableBuckets -> Bit]
    BY DEF TypeInv, TypeOK
  <2>4. \A u \in Threads : pc'[u] \in Latched => latch'[LatchedBucket(u)] = 1
    BY <1>3, <1>4, <2>1, <2>2, <2>3
  <2>5. QED
    BY <1>2, <2>1, <2>4 DEF LatchHeld
<1>6. LatchExclusion'
  BY <1>1, <1>2, <1>3 DEF LatchInv, LatchExclusion
<1>7. QED
  BY <1>5, <1>6 DEF LatchInv

LEMMA NextLatchInv ==
  ASSUME Arch = "x86", TypeInv, LatchInv, [Next]_vars
  PROVE  LatchInv'
<1> USE DEF TypeInv
<1>1. CASE UNCHANGED vars
  BY <1>1, LatchFrame DEF vars, inputs, mainVars, table, locals
<1>2. CASE Main
  <2>1. /\ UNCHANGED <<relR, latch, cur>>
        /\ \A u \in Threads : pc'[u] \in Latched => pc'[u] = pc[u] /\ args'[u] = args[u]
    BY <1>2 DEF Main, Spawn, Join, Destroy, Goto, TypeOK, Latched, inputs, table, locals
  <2>2. QED
    BY <2>1, LatchFrame
<1>3. ASSUME NEW t \in Threads, Thread(t)
      PROVE  LatchInv'
  <2>1. CASE LatchBucket(t)
    BY <2>1, LatchBucketLatchInv
  <2>2. CASE UnlatchBucket(t)
    BY <2>2, UnlatchBucketLatchInv
  <2>3. CASE Inspect(t) \/ ReserveInNewBucket(t) \/ ReserveInOverflow(t)
             \/ ReserveInBucket(t) \/ Store(t)
    <3>1. /\ UNCHANGED <<relR, latch, args, cur>> /\ pc[t] \in Latched
          /\ \A u \in Threads \ {t} : pc'[u] = pc[u]
      BY <2>3 DEF Inspect, ReserveInNewBucket, ReserveInOverflow, ReserveInBucket, Store,
                  Goto, TypeOK, Latched, inputs, mainVars, table, locals
    <3>2. QED
      BY <3>1, LatchFrame
  <2>4. CASE Start(t) \/ BeginBuild(t) \/ EndBuild(t) \/ BeginProbe(t) \/ Probe(t)
             \/ BeginFree(t) \/ FreeBuffer(t)
    <3>1. UNCHANGED <<relR, latch, args>>
      BY <2>4 DEF Start, BeginBuild, EndBuild, BeginProbe, Probe, LookupHit, LookupFollow,
                  LookupMiss, LookupFreed, EndProbe, EndProbeUntimed, BeginFree, FreeBuffer,
                  inputs, mainVars, table
    <3>2. \/ pc' = pc /\ pc[t] = "probe"
          \/ \E label \in {"wait_start", "build", "wait_build", "probe", "wait_probe", "free",
                            "exited", "undefined"} : pc' = [pc EXCEPT ![t] = label]
      BY <2>4 DEF Start, BeginBuild, EndBuild, BeginProbe, Probe, LookupHit, LookupFollow,
                  LookupMiss, LookupFreed, EndProbe, EndProbeUntimed, BeginFree, FreeBuffer,
                  Probing, Goto
    <3>3. \A u \in Threads \ {t} : cur'[u] = cur[u]
      BY <2>4 DEF Start, BeginBuild, EndBuild, BeginProbe, Probe, LookupHit, LookupFollow,
                  LookupMiss, LookupFreed, EndProbe, EndProbeUntimed, BeginFree, FreeBuffer,
                  EndLookup, TypeOK, locals
    <3>4. pc'[t] \notin Latched /\ \A u \in Threads \ {t} : pc'[u] = pc[u]
      BY <3>2 DEF TypeOK, Latched
    <3>5. QED
      BY <3>1, <3>3, <3>4, LatchFrame
  <2>5. QED
    BY <1>3, <2>1, <2>2, <2>3, <2>4 DEF Thread, Build
<1>4. QED
  BY <1>1, <1>2, <1>3 DEF Next, Finished

LEMMA LatchInvCorrect ==
  ASSUME Arch = "x86"
  PROVE  Spec => []LatchInv
<1>1. Init => LatchInv
  BY DEF Init, LatchInv, LatchHeld, LatchExclusion, Latched
<1>2. TypeInv /\ LatchInv /\ [Next]_vars => LatchInv'
  BY NextLatchInv
<1>3. QED
  BY <1>1, <1>2, TypeInvCorrect, PTL DEF Spec

(* As compiled for x86, two threads that are between lock() and unlock()   *)
(* of the build have latched different buckets, for any number of threads. *)
THEOREM LatchExclusionCorrect ==
  ASSUME Arch = "x86"
  PROVE  Spec => []LatchExclusion
BY LatchInvCorrect, PTL DEF LatchInv

-----------------------------------------------------------------------------
(* The phases: the inductive invariant.                                    *)

(* How many waits a thread has begun, and how many it has returned from,   *)
(* by the place it is at.                                                  *)
WaitsBegun(t) ==
  IF pc[t] \in {"unborn", "start"} THEN 0
  ELSE IF pc[t] \in {"wait_start"} \cup Building THEN 1
  ELSE IF pc[t] \in {"wait_build", "probe", "undefined"} THEN 2
  ELSE IF Timing THEN 3 ELSE 2

WaitsOver(t) ==
  IF pc[t] \in {"unborn", "start", "wait_start"} THEN 0
  ELSE IF pc[t] \in {"wait_build"} \cup Building THEN 1
  ELSE IF pc[t] \in {"wait_probe", "probe", "undefined"} THEN 2
  ELSE IF Timing THEN 3 ELSE 2

(* A wait that somebody has returned from has been begun by everybody. *)
PhaseInv ==
  /\ \A t \in Threads : arrived[t] = WaitsBegun(t) /\ left[t] = WaitsOver(t)
  /\ \A t \in Threads : pc[t] = "wait_probe" => Timing
  /\ \A t, u \in Threads : left[t] <= arrived[u]

(* NPO() has not yet created the threads from mainI on, or has joined the  *)
(* ones before mainI.                                                      *)
MainInv ==
  /\ mainPc = "spawn" => \A t \in Threads : t >= mainI => pc[t] = "unborn"
  /\ mainPc = "join" => \A t \in Threads : t < mainI => pc[t] = "exited"
  /\ mainPc \in {"destroy", "done"} => \A t \in Threads : pc[t] = "exited"

(* Nobody has come to free_bucket_buffer(). *)
Intact == \A t \in Threads : pc[t] \notin {"free", "exited"}

(* An overflow bucket of a buffer that has been allocated. *)
LiveOverflow(lists, b) == b \in OverflowBuckets /\ b[1] <= Len(lists[b[2]])

(* init_bucket_buffer() allocates a thread its first overflow buffer. *)
NoBufferYet == \A t \in Threads : pc[t] \in {"unborn", "start"} => bufs[t] = <<>>

(* Until then every bucket that is linked, or that a thread is about to    *)
(* link, or that it looks at, is in a buffer that has been allocated.      *)
LinkedLive ==
  Intact =>
    /\ \A b \in Buckets : next[b] # NULL => LiveOverflow(bufs, next[b])
    /\ \A t \in Threads : seen[t].nxt # NULL => LiveOverflow(bufs, seen[t].nxt)
    /\ \A t \in Threads : Probing(t) => probeAt[t] \in TableBuckets \/ LiveOverflow(bufs, probeAt[t])

-----------------------------------------------------------------------------
(* The barriers.                                                           *)

(* Where the steps of a thread lead it, and what they do at the barrier.   *)
LEMMA ThreadMoves ==
  ASSUME TypeInv, NEW t \in Threads, Thread(t)
  PROVE  /\ UNCHANGED <<inputs, mainVars>>
         /\ pc' = [pc EXCEPT ![t] = pc'[t]]
         /\ \/ /\ Sync!Arrive(t)
               /\ \/ pc[t] = "start" /\ pc'[t] = "wait_start"
                  \/ pc[t] = "build" /\ pc'[t] = "wait_build"
                  \/ pc[t] = "probe" /\ pc'[t] = "wait_probe" /\ Timing
            \/ /\ Sync!Leave(t)
               /\ \/ pc[t] = "wait_start" /\ pc'[t] = "build"
                  \/ pc[t] = "wait_build" /\ pc'[t] = "probe"
                  \/ pc[t] = "wait_probe" /\ pc'[t] = "free"
            \/ /\ UNCHANGED barrier
               /\ \/ pc[t] \in Building /\ pc'[t] \in Building
                  \/ pc[t] = "probe" /\ pc'[t] \in {"probe", "undefined"}
                  \/ pc[t] = "probe" /\ pc'[t] = "free" /\ ~Timing
                  \/ pc[t] = "free" /\ pc'[t] \in {"free", "exited"}
<1> pc \in [Threads -> Labels]
  BY DEF TypeInv, TypeOK
<1>1. CASE Start(t)
  BY <1>1 DEF Start, Goto
<1>2. CASE BeginBuild(t) \/ BeginProbe(t) \/ BeginFree(t)
  BY <1>2 DEF BeginBuild, BeginProbe, BeginFree, Goto
<1>3. CASE Build(t)
  <2>1. CASE EndBuild(t)
    BY <2>1 DEF EndBuild, Goto
  <2>2. CASE ~EndBuild(t)
    <3>1. /\ UNCHANGED <<inputs, mainVars, barrier>>
          /\ \E label \in Building : pc' = [pc EXCEPT ![t] = label]
      BY <1>3, <2>2 DEF Build, LatchBucket, Inspect, ReserveInNewBucket, ReserveInOverflow,
                        ReserveInBucket, Store, UnlatchBucket, Goto, Building, Latched
    <3>2. pc[t] \in Building
      BY <1>3, <2>2 DEF Build, LatchBucket, Inspect, ReserveInNewBucket, ReserveInOverflow,
                        ReserveInBucket, Store, UnlatchBucket, Building, Latched
    <3>3. QED
      BY <3>1, <3>2
  <2>3. QED
    BY <2>1, <2>2
<1>4. CASE Probe(t)
  <2>1. CASE EndProbe(t) \/ EndProbeUntimed(t)
    BY <2>1 DEF EndProbe, EndProbeUntimed, Goto
  <2>2. CASE LookupHit(t) \/ LookupFollow(t) \/ LookupMiss(t) \/ LookupFreed(t)
    BY <2>2 DEF LookupHit, LookupFollow, LookupMiss, LookupFreed, Probing, Goto
  <2>3. QED
    BY <1>4, <2>1, <2>2 DEF Probe
<1>5. CASE FreeBuffer(t)
  BY <1>5 DEF FreeBuffer, Goto
<1>6. QED
  BY <1>1, <1>2, <1>3, <1>4, <1>5 DEF Thread

(* NPO() itself does no more to a thread than to create it. *)
LEMMA MainMoves ==
  ASSUME TypeInv, MainInv, Main
  PROVE  /\ UNCHANGED <<inputs, table, bufs, locals, barrier>>
         /\ \A t \in Threads :
              \/ pc'[t] = pc[t] /\ args'[t] = args[t]
              \/ pc[t] = "unborn" /\ pc'[t] = "start"
<1>1. CASE Spawn
  <2>1. /\ pc' = [pc EXCEPT ![mainI] = "start"] /\ pc[mainI] = "unborn"
        /\ args' = [args EXCEPT ![mainI] = Share(mainI)]
    BY <1>1 DEF Spawn, Goto, TypeInv, TypeOK, MainInv, Threads
  <2>2. QED
    BY <1>1, <2>1 DEF TypeInv, TypeOK, Spawn
<1>2. CASE Join \/ Destroy
  BY <1>2 DEF Join, Destroy
<1>3. QED
  BY <1>1, <1>2 DEF Main

LEMMA InitPhaseInv == Init => PhaseInv /\ MainInv
<1> SUFFICES ASSUME Init
             PROVE  PhaseInv /\ MainInv
  OBVIOUS
<1>1. PhaseInv
  BY DEF Init, PhaseInv, WaitsBegun, WaitsOver, Sync!BarrierInit
<1>2. MainInv
  BY DEF Init, MainInv
<1>3. QED
  BY <1>1, <1>2

(* The steps of NPO(): a thread is created where there was none, and is    *)
(* joined when it has exited.                                              *)
LEMMA MainPhaseInv ==
  ASSUME TypeInv, PhaseInv, MainInv, Main
  PROVE  PhaseInv' /\ MainInv'
<1> USE DEF TypeInv
<1>1. CASE Spawn
  <2>1. /\ mainI \in Threads /\ pc[mainI] = "unborn" /\ mainPc = "spawn"
        /\ pc' = [pc EXCEPT ![mainI] = "start"] /\ pc \in [Threads -> Labels]
        /\ UNCHANGED <<arrived, left>>
    BY <1>1 DEF Spawn, MainInv, TypeOK, Goto, Threads, barrier
  <2>2. PhaseInv'
    BY <2>1 DEF PhaseInv, WaitsBegun, WaitsOver, Building, Latched
  <2>3. MainInv'
    <3>1. CASE mainI = NThreads - 1
      <4>1. mainI' = 0 /\ mainPc' = "join"
        BY <1>1, <3>1 DEF Spawn
      <4>2. QED
        BY <4>1 DEF MainInv, Threads
    <3>2. CASE mainI # NThreads - 1
      <4>1. mainI' = mainI + 1 /\ mainPc' = "spawn"
        BY <1>1, <3>2 DEF Spawn
      <4>2. QED
        BY <2>1, <4>1, JoinAssumption DEF MainInv, Threads
    <3>3. QED
      BY <3>1, <3>2
  <2>4. QED
    BY <2>2, <2>3
<1>2. CASE Join \/ Destroy
  <2>1. UNCHANGED <<pc, arrived, left>>
    BY <1>2 DEF Join, Destroy, barrier
  <2>2. PhaseInv'
    BY <2>1 DEF PhaseInv, WaitsBegun, WaitsOver
  <2>3. MainInv'
    <3>1. mainI \in Threads
      BY DEF TypeOK
    <3>2. CASE Join
      <4>1. \A t \in Threads : t <= mainI => pc[t] = "exited"
        BY <3>1, <3>2, JoinAssumption DEF Join, MainInv, Threads
      <4>2. CASE mainI = NThreads - 1
        BY <2>1, <3>2, <4>1, <4>2, JoinAssumption DEF Join, MainInv, Threads
      <4>3. CASE mainI # NThreads - 1
        BY <2>1, <3>1, <3>2, <4>1, <4>3, JoinAssumption DEF Join, MainInv, Threads
      <4>4. QED
        BY <4>2, <4>3
    <3>3. CASE Destroy
      BY <2>1, <3>3 DEF Destroy, MainInv
    <3>4. QED
      BY <1>2, <3>2, <3>3
  <2>4. QED
    BY <2>2, <2>3
<1>3. QED
  BY <1>1, <1>2 DEF Main

(* The steps of a thread: its counts keep up with its place, and it leaves *)
(* a wait only when everybody has begun it.                                *)
LEMMA ThreadPhaseInv ==
  ASSUME TypeInv, PhaseInv, MainInv, NEW t \in Threads, Thread(t)
  PROVE  PhaseInv' /\ MainInv'
<1>1. /\ pc \in [Threads -> Labels] /\ pc' = [pc EXCEPT ![t] = pc'[t]]
      /\ arrived \in [Threads -> Nat] /\ left \in [Threads -> Nat]
      /\ UNCHANGED mainVars
  BY ThreadMoves DEF TypeInv, TypeOK
<1>2. PhaseInv'
  <2> USE DEF PhaseInv, WaitsBegun, WaitsOver
  <2>1. CASE Sync!Arrive(t)
    <3>1. arrived' = [arrived EXCEPT ![t] = arrived[t] + 1] /\ left' = left
      BY <2>1 DEF Sync!Arrive
    <3>2. \/ pc[t] = "start" /\ pc'[t] = "wait_start"
          \/ pc[t] = "build" /\ pc'[t] = "wait_build"
          \/ pc[t] = "probe" /\ pc'[t] = "wait_probe" /\ Timing
      BY <2>1, <3>1, <1>1, ThreadMoves DEF Sync!Leave, barrier
    <3>3. QED
      BY <1>1, <3>1, <3>2 DEF Building, Latched
  <2>2. CASE Sync!Leave(t)
    <3>1. /\ arrived' = arrived /\ left' = [left EXCEPT ![t] = left[t] + 1]
          /\ \A u \in Threads : left[t] + 1 <= arrived[u]
      BY <1>1, <2>2 DEF Sync!Leave
    <3>2. \/ pc[t] = "wait_start" /\ pc'[t] = "build"
          \/ pc[t] = "wait_build" /\ pc'[t] = "probe"
          \/ pc[t] = "wait_probe" /\ pc'[t] = "free"
      BY <2>2, <3>1, <1>1, ThreadMoves DEF Sync!Arrive, barrier
    <3>3. QED
      BY <1>1, <3>1, <3>2 DEF Building, Latched
  <2>3. CASE UNCHANGED barrier
    <3>1. \/ pc[t] \in Building /\ pc'[t] \in Building
          \/ pc[t] = "probe" /\ pc'[t] \in {"probe", "undefined"}
          \/ pc[t] = "probe" /\ pc'[t] = "free" /\ ~Timing
          \/ pc[t] = "free" /\ pc'[t] \in {"free", "exited"}
      BY <1>1, <2>3, ThreadMoves DEF Sync!Arrive, Sync!Leave, barrier
    <3>2. QED
      BY <1>1, <2>3, <3>1 DEF barrier, Building, Latched
  <2>4. QED
    BY <2>1, <2>2, <2>3, ThreadMoves
<1>3. MainInv'
  <2>1. pc[t] \notin {"unborn", "exited"}
    BY ThreadMoves DEF Building, Latched
  <2>2. UNCHANGED <<mainPc, mainI>>
    BY <1>1 DEF mainVars
  <2>3. QED
    BY <1>1, <2>1, <2>2 DEF MainInv
<1>4. QED
  BY <1>2, <1>3

LEMMA NextPhaseInv == TypeInv /\ PhaseInv /\ MainInv /\ [Next]_vars => PhaseInv' /\ MainInv'
<1> SUFFICES ASSUME TypeInv, PhaseInv, MainInv, [Next]_vars
             PROVE  PhaseInv' /\ MainInv'
  OBVIOUS
<1>1. CASE UNCHANGED vars
  <2>1. UNCHANGED <<mainPc, mainI, pc, arrived, left>>
    BY <1>1 DEF vars, mainVars, barrier
  <2>2. QED
    BY <2>1 DEF PhaseInv, MainInv, WaitsBegun, WaitsOver
<1>2. QED
  BY <1>1, MainPhaseInv, ThreadPhaseInv DEF Next, Finished

(* While a thread builds nobody looks up or frees. *)
LEMMA BuildAlone ==
  ASSUME PhaseInv, NEW t \in Threads, pc[t] \in Building
  PROVE  \A u \in Threads : pc[u] \notin ProbingOrLater
BY DEF PhaseInv, WaitsBegun, WaitsOver, Building, Latched, ProbingOrLater

(* With timing compiled in, while a thread looks up nobody frees. *)
LEMMA ProbeAlone ==
  ASSUME Timing, PhaseInv, NEW t \in Threads, pc[t] = "probe"
  PROVE  Intact
BY DEF PhaseInv, WaitsBegun, WaitsOver, Building, Latched, Intact

-----------------------------------------------------------------------------
(* What is looked at has not been freed.                                   *)

(* The overflow buffers of a thread only become more until it frees them. *)
LEMMA BuffersGrow ==
  ASSUME TypeInv, NoBufferYet, NEW t \in Threads, Thread(t), pc[t] # "free"
  PROVE  /\ NoBufferYet'
         /\ \A b : LiveOverflow(bufs, b) => LiveOverflow(bufs', b)
<1>1. /\ pc \in [Threads -> Labels] /\ pc' = [pc EXCEPT ![t] = pc'[t]]
      /\ bufs \in [Threads -> Seq(0 .. OverflowBufSize)]
  BY ThreadMoves DEF TypeInv, TypeOK
<1>2. pc'[t] \notin {"unborn", "start"}
  BY ThreadMoves DEF Building, Latched
<1>3. \A b \in OverflowBuckets : b[2] \in Threads /\ b[1] \in Nat \ {0}
  BY DEF OverflowBuckets
<1>4. CASE Start(t)
  <2>1. bufs' = [bufs EXCEPT ![t] = <<0>>] /\ pc[t] = "start" /\ bufs[t] = <<>>
    BY <1>4 DEF Start, NoBufferYet
  <2>2. Len(bufs[t]) = 0
    BY <2>1
  <2>3. QED
    BY <1>1, <1>2, <1>3, <2>1, <2>2 DEF NoBufferYet, LiveOverflow
<1>5. CASE ReserveInNewBucket(t)
  <2>1. PICK new \in Seq(0 .. OverflowBufSize) :
          bufs' = [bufs EXCEPT ![t] = new] /\ Len(new) >= Len(bufs[t])
    <3>1. Len(bufs[t]) \in Nat
      BY <1>1, LenProperties
    <3>2. QED
      BY <1>5, <3>1, NewBucketFacts
  <2>2. \A u \in Threads : Len(bufs[u]) \in Nat /\ Len(bufs'[u]) \in Nat /\ Len(bufs'[u]) >= Len(bufs[u])
    BY <1>1, <2>1, LenProperties
  <2>3. QED
    BY <1>1, <1>2, <1>3, <2>1, <2>2 DEF NoBufferYet, LiveOverflow
<1>6. CASE ~Start(t) /\ ~ReserveInNewBucket(t)
  <2>1. UNCHANGED bufs
    BY <1>6 DEF Thread, BeginBuild, Build, LatchBucket, Inspect, ReserveInOverflow,
                ReserveInBucket, Store, UnlatchBucket, EndBuild, BeginProbe, Probe, LookupHit,
                LookupFollow, LookupMiss, LookupFreed, EndProbe, EndProbeUntimed, BeginFree,
                FreeBuffer
  <2>2. QED
    BY <1>1, <1>2, <2>1 DEF NoBufferYet, LiveOverflow
<1>7. QED
  BY <1>4, <1>5, <1>6

(* A step that reads next, links a bucket or goes on with a lookup. *)
LEMMA ThreadLinkedLive ==
  ASSUME TypeInv, NoBufferYet, LinkedLive, NEW t \in Threads, Thread(t)
  PROVE  NoBufferYet' /\ LinkedLive'
<1>1. /\ pc \in [Threads -> Labels] /\ pc' = [pc EXCEPT ![t] = pc'[t]]
      /\ seen \in [Threads -> Snapshots] /\ next \in [Buckets -> Buckets \cup {NULL}]
      /\ probeAt \in [Threads -> Buckets \cup {NULL}] /\ cur \in [Threads -> Nat]
      /\ UNCHANGED <<inputs, mainVars>>
  BY ThreadMoves DEF TypeInv, TypeOK
<1>2. CASE pc[t] = "free"
  <2>1. FreeBuffer(t)
    BY <1>2 DEF Thread, Start, BeginBuild, Build, LatchBucket, Inspect, ReserveInNewBucket,
                ReserveInOverflow, ReserveInBucket, Store, UnlatchBucket, EndBuild, BeginProbe,
                Probe, LookupHit, LookupFollow, LookupMiss, LookupFreed, EndProbe,
                EndProbeUntimed, BeginFree, Probing
  <2>2. bufs' = [bufs EXCEPT ![t] = Tail(bufs[t])] /\ pc'[t] \in {"free", "exited"}
    BY <1>1, <2>1 DEF FreeBuffer, Goto
  <2>3. QED
    BY <1>1, <1>2, <2>2 DEF NoBufferYet, LinkedLive, Intact
<1>3. CASE pc[t] # "free"
  <2>1. NoBufferYet' /\ \A b : LiveOverflow(bufs, b) => LiveOverflow(bufs', b)
    BY <1>3, BuffersGrow
  <2> SUFFICES ASSUME Intact'
               PROVE  LinkedLive'
    BY <2>1 DEF LinkedLive
  <2>2. Intact
    BY <1>1, ThreadMoves DEF Intact, Building, Latched
  <2>3. /\ \A b \in Buckets : next[b] # NULL => LiveOverflow(bufs', next[b])
        /\ \A u \in Threads : seen[u].nxt # NULL => LiveOverflow(bufs', seen[u].nxt)
        /\ \A u \in Threads : Probing(u) =>
             probeAt[u] \in TableBuckets \/ LiveOverflow(bufs', probeAt[u])
    BY <2>1, <2>2 DEF LinkedLive
  <2>4. \A b \in Buckets : next'[b] # NULL => LiveOverflow(bufs', next'[b])
    <3>1. CASE ReserveInNewBucket(t)
      <4>1. LiveOverflow(bufs', NewBucket(t))
        <5>1. PICK new \in Seq(0 .. OverflowBufSize) :
                bufs' = [bufs EXCEPT ![t] = new] /\ NewBucket(t) = <<Len(new), t, Head(new)>>
          BY <3>1, NewBucketFacts
        <5>2. NewBucket(t) \in OverflowBuckets /\ Len(new) \in Nat /\ bufs'[t] = new
          BY <3>1, <5>1, NewBucketFacts, LenProperties DEF TypeInv, TypeOK
        <5> DEFINE b == NewBucket(t)
        <5>3. b[1] = Len(new) /\ b[2] = t
          BY <5>1
        <5>4. b \in OverflowBuckets /\ b[1] <= Len(bufs'[b[2]])
          BY <5>2, <5>3
        <5>5. QED
          BY <5>4 DEF LiveOverflow
      <4>2. next' = [next EXCEPT ![LatchedBucket(t)] = NewBucket(t), ![NewBucket(t)] = seen[t].nxt]
        BY <3>1 DEF ReserveInNewBucket
      <4>3. QED
        BY <1>1, <2>3, <4>1, <4>2
    <3>2. CASE ~ReserveInNewBucket(t)
      <4>1. UNCHANGED next
        BY <3>2 DEF Thread, Start, BeginBuild, Build, LatchBucket, Inspect, ReserveInOverflow,
                    ReserveInBucket, Store, UnlatchBucket, EndBuild, BeginProbe, Probe,
                    LookupHit, LookupFollow, LookupMiss, LookupFreed, EndProbe,
                    EndProbeUntimed, BeginFree, FreeBuffer, table
      <4>2. QED
        BY <2>3, <4>1
    <3>3. QED
      BY <3>1, <3>2
  <2>5. \A u \in Threads : seen'[u].nxt # NULL => LiveOverflow(bufs', seen'[u].nxt)
    <3>1. CASE Inspect(t)
      <4>1. LatchedBucket(t) \in Buckets
        BY <3>1, BuildTupleType DEF TypeInv, LoopInv, Latched, Buckets, Inspect
      <4>2. seen'[t].nxt = next[LatchedBucket(t)] /\ \A u \in Threads \ {t} : seen'[u] = seen[u]
        BY <1>1, <3>1 DEF Inspect
      <4>3. QED
        BY <2>3, <4>1, <4>2
    <3>2. CASE ~Inspect(t)
      <4>1. UNCHANGED seen
        BY <3>2 DEF Thread, Start, BeginBuild, Build, LatchBucket, ReserveInNewBucket,
                    ReserveInOverflow, ReserveInBucket, Store, UnlatchBucket, EndBuild,
                    BeginProbe, Probe, LookupHit, LookupFollow, LookupMiss, LookupFreed,
                    EndProbe, EndProbeUntimed, BeginFree, FreeBuffer, locals
      <4>2. QED
        BY <2>3, <4>1
    <3>3. QED
      BY <3>1, <3>2
  <2>6. \A u \in Threads : Probing(u)' =>
          probeAt'[u] \in TableBuckets \/ LiveOverflow(bufs', probeAt'[u])
    <3>1. CASE BeginProbe(t) \/ LookupHit(t) \/ LookupMiss(t)
      <4>1. PICK c \in Nat : /\ cur' = [cur EXCEPT ![t] = c]
                             /\ probeAt' = [probeAt EXCEPT ![t] = LookupStart(t, c)]
        BY <1>1, <3>1 DEF BeginProbe, LookupHit, LookupMiss, EndLookup
      <4>2. Probing(t)' => probeAt'[t] \in TableBuckets
        <5>1. Probing(t)' => c < args[t].sNum
          BY <1>1, <4>1 DEF Probing, mainVars
        <5>2. c < args[t].sNum => LookupStart(t, c) \in TableBuckets
          BY LookupStartType DEF TypeInv
        <5>3. QED
          BY <1>1, <4>1, <5>1, <5>2
      <4>3. \A u \in Threads \ {t} : Probing(u)' => Probing(u) /\ probeAt'[u] = probeAt[u]
        BY <1>1, <4>1 DEF Probing, mainVars
      <4>4. QED
        BY <2>3, <4>2, <4>3
    <3>2. CASE LookupFollow(t)
      <4>1. /\ Probing(t) /\ next[probeAt[t]] # NULL /\ cur' = cur /\ pc' = pc
            /\ probeAt' = [probeAt EXCEPT ![t] = next[probeAt[t]]]
        BY <3>2 DEF LookupFollow
      <4>2. probeAt[t] \in Buckets
        BY <4>1 DEF TypeInv, LoopInv
      <4>3. \A u \in Threads : Probing(u)' => Probing(u)
        BY <1>1, <4>1 DEF Probing, mainVars
      <4>4. QED
        BY <1>1, <2>3, <4>1, <4>2, <4>3
    <3>3. CASE ~(BeginProbe(t) \/ LookupHit(t) \/ LookupMiss(t) \/ LookupFollow(t))
      <4>1. UNCHANGED probeAt /\ \A u \in Threads \ {t} : cur'[u] = cur[u]
        BY <1>1, <3>3 DEF Thread, Start, BeginBuild, Build, LatchBucket, Inspect,
                    ReserveInNewBucket, ReserveInOverflow, ReserveInBucket, Store,
                    UnlatchBucket, EndBuild, Probe, LookupFreed, EndProbe, EndProbeUntimed,
                    BeginFree, FreeBuffer, locals
      <4>2. pc'[t] # "probe"
        BY <1>1, <3>3 DEF Thread, Start, BeginBuild, Build, LatchBucket, Inspect,
                    ReserveInNewBucket, ReserveInOverflow, ReserveInBucket, Store,
                    UnlatchBucket, EndBuild, Probe, LookupFreed, EndProbe, EndProbeUntimed,
                    BeginFree, FreeBuffer, Goto
      <4>3. \A u \in Threads : Probing(u)' => Probing(u)
        BY <1>1, <4>1, <4>2 DEF Probing, mainVars
      <4>4. QED
        BY <2>3, <4>1, <4>3
    <3>4. QED
      BY <3>1, <3>2, <3>3
  <2>7. QED
    BY <2>4, <2>5, <2>6 DEF LinkedLive
<1>4. QED
  BY <1>2, <1>3

LEMMA NextLinkedLive ==
  ASSUME TypeInv, MainInv, NoBufferYet, LinkedLive, [Next]_vars
  PROVE  NoBufferYet' /\ LinkedLive'
<1>1. CASE UNCHANGED vars
  <2>1. UNCHANGED <<args, bufs, next, pc, cur, seen, probeAt>>
    BY <1>1 DEF vars, mainVars, table, locals
  <2>2. QED
    BY <2>1 DEF NoBufferYet, LinkedLive, Intact, LiveOverflow, Probing
<1>2. CASE Main
  <2>1. UNCHANGED <<bufs, next, cur, seen, probeAt>>
    BY <1>2, MainMoves DEF table, locals
  <2>2. \A t \in Threads :
          \/ pc'[t] = pc[t] /\ args'[t] = args[t]
          \/ pc[t] = "unborn" /\ pc'[t] = "start"
    BY <1>2, MainMoves
  <2>3. (Intact' => Intact) /\ \A t \in Threads : Probing(t)' => Probing(t)
    BY <2>1, <2>2 DEF Intact, Probing
  <2>4. QED
    BY <2>1, <2>2, <2>3 DEF NoBufferYet, LinkedLive, LiveOverflow
<1>3. QED
  BY <1>1, <1>2, ThreadLinkedLive DEF Next, Finished

-----------------------------------------------------------------------------

LEMMA PhaseInvCorrect == Spec => [](TypeInv /\ PhaseInv /\ MainInv /\ NoBufferYet /\ LinkedLive)
<1>1. Init => PhaseInv /\ MainInv /\ NoBufferYet /\ LinkedLive
  <2>1. Init => NoBufferYet /\ LinkedLive
    BY DEF Init, NoBufferYet, LinkedLive, NothingSeen, Probing
  <2>2. QED
    BY <2>1, InitPhaseInv
<1>2. /\ TypeInv /\ PhaseInv /\ MainInv /\ NoBufferYet /\ LinkedLive /\ [Next]_vars
      => PhaseInv' /\ MainInv' /\ NoBufferYet' /\ LinkedLive'
  BY NextPhaseInv, NextLinkedLive
<1>3. QED
  BY <1>1, <1>2, TypeInvCorrect, PTL DEF Spec

(* With timing compiled in, a thread that walks a chain is never at a      *)
(* bucket that has been freed, whichever thread owns it: the third barrier *)
(* keeps free_bucket_buffer() behind every lookup, and pthread_join()      *)
(* keeps destroy_hashtable() behind them.                                  *)
THEOREM NoUseAfterFreeCorrect ==
  ASSUME Timing
  PROVE  Spec => []NoUseAfterFree
<1>1. TypeInv /\ PhaseInv /\ MainInv /\ LinkedLive => NoUseAfterFree
  <2> SUFFICES ASSUME PhaseInv, MainInv, LinkedLive, NEW t \in Threads, Probing(t)
               PROVE  BucketLive(probeAt[t])
    BY DEF NoUseAfterFree
  <2>1. pc[t] = "probe"
    BY DEF Probing
  <2>2. mainPc # "done"
    BY <2>1 DEF MainInv
  <2>3. probeAt[t] \in TableBuckets \/ LiveOverflow(bufs, probeAt[t])
    BY <2>1, ProbeAlone DEF LinkedLive
  <2>4. QED
    BY <2>2, <2>3 DEF BucketLive, Live, TableBuckets, TableBucket, LiveOverflow
<1>2. QED
  BY <1>1, PhaseInvCorrect, PTL

-----------------------------------------------------------------------------
(* What can be reached along links nx.  Chain is a recursive function that  *)
(* follows the links round by round; a proof needs what it amounts to, the  *)
(* least set that holds where it begins and where its links lead.          *)

Closed(nx, S) == \A c \in S : nx[c] # NULL => nx[c] \in S

Reach(nx, R) == {c \in Buckets : \A S \in SUBSET Buckets : R \subseteq S /\ Closed(nx, S) => c \in S}

(* One round: the buckets that are linked from R and not in it. *)
Further(nx, R) == {nx[c] : c \in R} \ (R \cup {NULL})

Follow(nx) ==
  CHOOSE follow : follow = [reached \in SUBSET Buckets |->
    IF Further(nx, reached) = {} THEN reached ELSE follow[reached \cup Further(nx, reached)]]


LEMMA ReachFacts ==
  ASSUME NEW nx \in [Buckets -> Buckets \cup {NULL}], NEW R \in SUBSET Buckets
  PROVE  /\ Reach(nx, R) \in SUBSET Buckets /\ R \subseteq Reach(nx, R)
         /\ Closed(nx, Reach(nx, R))
         /\ Further(nx, R) = {} => Reach(nx, R) = R
         /\ Further(nx, R) \in SUBSET Buckets
         /\ Reach(nx, R \cup Further(nx, R)) = Reach(nx, R)
<1>1. Further(nx, R) \in SUBSET Buckets
  BY DEF Further
<1>2. Reach(nx, R) \in SUBSET Buckets /\ R \subseteq Reach(nx, R)
  BY DEF Reach
<1>3. Closed(nx, Reach(nx, R))
  BY DEF Reach, Closed
<1>4. ASSUME Further(nx, R) = {}
      PROVE  Reach(nx, R) = R
  <2>1. Closed(nx, R)
    BY <1>4 DEF Closed, Further
  <2>2. QED
    BY <1>2, <2>1 DEF Reach
<1>5. \A S \in SUBSET Buckets :
        R \subseteq S /\ Closed(nx, S) <=> R \cup Further(nx, R) \subseteq S /\ Closed(nx, S)
  BY DEF Closed, Further
<1>6. Reach(nx, R \cup Further(nx, R)) = Reach(nx, R)
  BY <1>5 DEF Reach
<1>7. QED
  BY <1>1, <1>2, <1>3, <1>4, <1>6

LEMMA BucketsFinite == IsFiniteSet(Buckets)
<1>1. IsFiniteSet(1 .. NumR) /\ IsFiniteSet(Threads) /\ IsFiniteSet(1 .. OverflowBufSize)
  <2>1. \A a, b \in Int : IsFiniteSet(a .. b)
    BY FS_Interval
  <2>2. NThreads - 1 \in Int
    BY JoinAssumption
  <2>3. QED
    BY <2>1, <2>2, SizeTypes, JoinAssumption DEF Threads
<1>2. IsFiniteSet(0 .. (NumBuckets - 1))
  BY FS_Interval, NumBucketsType
<1>3. IsFiniteSet(OverflowBuckets)
  <2> DEFINE D == ((1 .. NumR) \X Threads) \X (1 .. OverflowBufSize)
             f == [d \in D |-> <<d[1][1], d[1][2], d[2]>>]
  <2>1. IsFiniteSet(D)
    BY <1>1, FS_Product
  <2>2. f \in Surjection(D, OverflowBuckets)
    <3>1. ASSUME NEW b \in OverflowBuckets
          PROVE  \E d \in D : f[d] = b
      <4>1. <<<<b[1], b[2]>>, b[3]>> \in D
        BY DEF OverflowBuckets
      <4>2. f[<<<<b[1], b[2]>>, b[3]>>] = b
        BY <4>1 DEF OverflowBuckets
      <4>3. QED
        BY <4>1, <4>2
    <3>2. f \in [D -> OverflowBuckets]
      BY DEF OverflowBuckets
    <3>3. QED
      BY <3>1, <3>2 DEF Surjection
  <2>3. QED
    BY <2>1, <2>2, FS_Surjection
<1>4. IsFiniteSet(TableBuckets)
  <2> DEFINE D == 0 .. (NumBuckets - 1)
             f == [h \in D |-> TableBucket(h)]
  <2>1. f \in Surjection(D, TableBuckets)
    BY DEF TableBuckets, Surjection
  <2>2. QED
    BY <1>2, <2>1, FS_Surjection
<1>5. QED
  BY <1>3, <1>4, FS_Union DEF Buckets

(* There is one function that follows the links as Chain does, and it ends *)
(* at the least closed set.                                                *)
LEMMA FollowIsReach ==
  ASSUME NEW nx \in [Buckets -> Buckets \cup {NULL}], NEW R \in SUBSET Buckets
  PROVE  Follow(nx)[R] = Reach(nx, R)
<1> DEFINE Round(f, Q) == IF Further(nx, Q) = {} THEN Q ELSE f[Q \cup Further(nx, Q)]
           g == [Q \in SUBSET Buckets |-> Reach(nx, Q)]
           f == Follow(nx)
<1>1. g = [Q \in SUBSET Buckets |-> Round(g, Q)]
  <2>1. \A Q \in SUBSET Buckets : Reach(nx, Q) = Round(g, Q)
    BY ReachFacts
  <2>2. QED
    BY <2>1
<1>2. f = [Q \in SUBSET Buckets |-> Round(f, Q)]
  BY <1>1 DEF Follow
<1> HIDE DEF f
<1> DEFINE T == {Q \in SUBSET Buckets : f[Q] # Reach(nx, Q)}
<1>3. T = {}
  <2> SUFFICES ASSUME T # {}
               PROVE  FALSE
    OBVIOUS
  <2>1. T \in SUBSET (SUBSET Buckets)
    OBVIOUS
  <2> HIDE DEF T
  <2>2. PICK Q \in T : \A P \in T : Q \subseteq P => P = Q
    BY <2>1, BucketsFinite, LargestSet
  <2> USE DEF T
  <2>3. Q \in SUBSET Buckets /\ f[Q] # Reach(nx, Q)
    OBVIOUS
  <2>4. f[Q] = Round(f, Q)
    BY <1>2, <2>3
  <2>5. CASE Further(nx, Q) = {}
    BY <2>3, <2>4, <2>5, ReachFacts
  <2>6. CASE Further(nx, Q) # {}
    <3> DEFINE P == Q \cup Further(nx, Q)
    <3>1. P \in SUBSET Buckets /\ Q \subseteq P /\ P # Q
      BY <2>3, <2>6, ReachFacts DEF Further
    <3>2. f[P] = Reach(nx, P)
      BY <2>2, <3>1
    <3>3. QED
      BY <2>3, <2>4, <2>6, <3>2, ReachFacts
  <2>7. QED
    BY <2>5, <2>6
<1>4. QED
  BY <1>3 DEF f

(* So the chain of a bucket, before and after a step, is the least set of  *)
(* buckets that holds it and that next does not lead out of.               *)
LEMMA ChainIsReach ==
  ASSUME NEW b \in Buckets
  PROVE  /\ next \in [Buckets -> Buckets \cup {NULL}] => Chain(b) = Reach(next, {b})
         /\ next' \in [Buckets -> Buckets \cup {NULL}] => Chain(b)' = Reach(next', {b})
<1>1. Chain(b) = Follow(next)[{b}] /\ Chain(b)' = Follow(next')[{b}]
  BY DEF Chain, Follow, Further
<1>2. QED
  BY <1>1, FollowIsReach

(* A bucket that is put between b and its successor cuts no chain. *)
LEMMA ReachInsert ==
  ASSUME NEW nx \in [Buckets -> Buckets \cup {NULL}], NEW b \in Buckets, NEW new \in Buckets,
         nx[new] = NULL, new # b, NEW R \in SUBSET Buckets
  PROVE  Reach(nx, R) \subseteq Reach([nx EXCEPT ![b] = new, ![new] = nx[b]], R)
<1> DEFINE mx == [nx EXCEPT ![b] = new, ![new] = nx[b]]
           S == Reach(mx, R)
<1>1. mx \in [Buckets -> Buckets \cup {NULL}]
  OBVIOUS
<1>2. S \in SUBSET Buckets /\ R \subseteq S /\ Closed(mx, S)
  BY <1>1, ReachFacts
<1> HIDE DEF S
<1>3. Closed(nx, S)
  <2> SUFFICES ASSUME NEW c \in S, nx[c] # NULL
               PROVE  nx[c] \in S
    BY DEF Closed
  <2>1. CASE c = b
    <3>1. mx[b] = new /\ mx[new] = nx[b]
      OBVIOUS
    <3>2. new \in S
      BY <1>2, <2>1, <3>1, JoinAssumption DEF Closed, NULL, Buckets, TableBuckets, TableBucket, OverflowBuckets
    <3>3. QED
      BY <1>2, <2>1, <3>1, <3>2 DEF Closed
  <2>2. CASE c # b
    BY <1>2, <2>2 DEF Closed
  <2>3. QED
    BY <2>1, <2>2
<1>4. QED
  BY <1>2, <1>3 DEF Reach, S

-----------------------------------------------------------------------------
(* The inductive invariant of the shape of the chains.                     *)

(* The overflow buckets that get_new_bucket() has given out of the lists of *)
(* overflow buffers.                                                       *)
Taken(lists, b) ==
  \/ b[1] < Len(lists[b[2]])
  \/ b[1] = Len(lists[b[2]]) /\ b[3] <= Head(lists[b[2]])

(* The others are empty and linked nowhere. *)
FreshInv ==
  Intact => \A b \in OverflowBuckets : ~Taken(bufs, b) =>
    /\ next[b] = NULL
    /\ count[b] = 0
    /\ \A c \in Buckets : next[c] # b

(* What a thread has read of its chain still holds when it acts on it. *)
SeenInv ==
  \A t \in Threads : pc[t] = "reserve" =>
    /\ seen[t].count = count[LatchedBucket(t)]
    /\ seen[t].nxt = next[LatchedBucket(t)]
    /\ seen[t].nxt # NULL => seen[t].nxtCount = count[seen[t].nxt]

ChainInv == ChainShape /\ FreshInv /\ SeenInv

-----------------------------------------------------------------------------

LEMMA BucketKinds ==
  /\ TableBuckets \cap OverflowBuckets = {}
  /\ NULL \notin Buckets
  /\ Buckets = TableBuckets \cup OverflowBuckets
  BY DEF TableBuckets, TableBucket, OverflowBuckets, Buckets, NULL

(* The bucket a thread takes is the one new bucket that is given out. *)
LEMMA TakenStep ==
  ASSUME TypeInv, NEW t \in Threads, ReserveInNewBucket(t)
  PROVE  /\ ~Taken(bufs, NewBucket(t))
         /\ \A b \in OverflowBuckets : Taken(bufs, b) \/ b = NewBucket(t) => Taken(bufs', b)
<1> DEFINE old == bufs[t]
<1>1. PICK new \in Seq(0 .. OverflowBufSize) :
        /\ bufs' = [bufs EXCEPT ![t] = new] /\ new # <<>>
        /\ NewBucket(t) = <<Len(new), t, Head(new)>>
        /\ \/ Len(new) = Len(old) /\ Head(new) = Head(old) + 1
           \/ Len(new) = Len(old) + 1 /\ Head(new) = 1 /\ Head(old) = OverflowBufSize
  BY NewBucketFacts
<1>2. /\ Len(old) \in Nat /\ Head(old) \in Nat /\ Len(new) \in Nat /\ Head(new) \in Nat
  <2>1. \A s \in Seq(0 .. OverflowBufSize) : s # <<>> => Head(s) \in Nat /\ Len(s) \in Nat
    <3>1. 0 .. OverflowBufSize \subseteq Nat
      OBVIOUS
    <3>2. QED
      BY <3>1, HeadAndTail
  <2>2. old \in Seq(0 .. OverflowBufSize) /\ old # <<>>
    BY NewBucketFacts
  <2>3. QED
    BY <1>1, <2>1, <2>2
<1>3. \A u \in Threads : bufs'[u] = IF u = t THEN new ELSE bufs[u]
  BY <1>1 DEF TypeInv, TypeOK
<1> HIDE DEF old
<1>4. ~Taken(bufs, NewBucket(t))
  <2>1. /\ NewBucket(t)[1] = Len(new) /\ NewBucket(t)[2] = t /\ NewBucket(t)[3] = Head(new)
    BY <1>1
  <2>2. Taken(bufs, NewBucket(t)) <=> Len(new) < Len(old) \/ (Len(new) = Len(old) /\ Head(new) <= Head(old))
    BY <2>1 DEF Taken, old
  <2>3. QED
    BY <1>1, <1>2, <2>2
<1>5. ASSUME NEW b \in OverflowBuckets, Taken(bufs, b) \/ b = NewBucket(t)
      PROVE  Taken(bufs', b)
  <2>1. b[1] \in Nat /\ b[2] \in Threads /\ b[3] \in 1 .. OverflowBufSize
    BY DEF OverflowBuckets
  <2>2. CASE b[2] # t
    <3>1. b # NewBucket(t) /\ bufs'[b[2]] = bufs[b[2]]
      BY <1>1, <1>3, <2>1, <2>2
    <3>2. QED
      BY <1>5, <3>1 DEF Taken
  <2>3. CASE b[2] = t
    <3>1. Taken(bufs', b) <=> b[1] < Len(new) \/ (b[1] = Len(new) /\ b[3] <= Head(new))
      BY <1>3, <2>3 DEF Taken
    <3>2. Taken(bufs, b) <=> b[1] < Len(old) \/ (b[1] = Len(old) /\ b[3] <= Head(old))
      BY <2>3 DEF Taken, old
    <3>3. b = NewBucket(t) => b[1] = Len(new) /\ b[3] = Head(new)
      BY <1>1
    <3>4. QED
      BY <1>1, <1>2, <1>5, <2>1, <3>1, <3>2, <3>3, JoinAssumption
  <2>4. QED
    BY <2>2, <2>3
<1>6. QED
  BY <1>4, <1>5

(* A thread that is about to reserve a slot has its chain for itself. *)
LEMMA ReserveAlone ==
  ASSUME TypeInv, PhaseInv, LatchInv, NEW t \in Threads, pc[t] = "reserve"
  PROVE  /\ Intact
         /\ LatchedBucket(t) \in TableBuckets
         /\ \A u \in Threads \ {t} : pc[u] = "reserve" =>
              LatchedBucket(u) \in TableBuckets /\ LatchedBucket(u) # LatchedBucket(t)
<1>1. Intact
  BY BuildAlone DEF Intact, ProbingOrLater, Building, Latched
<1>2. \A u \in Threads : pc[u] = "reserve" => LatchedBucket(u) \in TableBuckets
  BY BuildTupleType DEF TypeInv, LoopInv, Latched
<1>3. QED
  BY <1>1, <1>2 DEF LatchInv, LatchExclusion, Latched

(* What the three ways to reserve a slot leave alone. *)
LEMMA ReserveFrame ==
  ASSUME TypeInv, NEW t \in Threads,
         ReserveInNewBucket(t) \/ ReserveInOverflow(t) \/ ReserveInBucket(t)
  PROVE  /\ pc[t] = "reserve" /\ pc' = [pc EXCEPT ![t] = "store"]
         /\ UNCHANGED <<inputs, mainVars, latch, slots, cur, seen, probeAt, matches, barrier>>
         /\ \A u \in Threads : LatchedBucket(u)' = LatchedBucket(u)
         /\ \A u \in Threads : pc'[u] = "reserve" => u # t /\ pc[u] = "reserve"
<1>1. /\ pc[t] = "reserve" /\ pc' = [pc EXCEPT ![t] = "store"]
      /\ UNCHANGED <<inputs, mainVars, latch, slots, cur, seen, probeAt, matches, barrier>>
  BY DEF ReserveInNewBucket, ReserveInOverflow, ReserveInBucket, Goto
<1>2. \A u \in Threads : LatchedBucket(u)' = LatchedBucket(u)
  BY <1>1 DEF LatchedBucket, BuildTuple, inputs, mainVars
<1>3. \A u \in Threads : pc'[u] = "reserve" => u # t /\ pc[u] = "reserve"
  BY <1>1 DEF TypeInv, TypeOK
<1>4. QED
  BY <1>1, <1>2, <1>3

LEMMA ReserveInBucketChain ==
  ASSUME TypeInv, PhaseInv, LatchInv, ChainInv, NEW t \in Threads, ReserveInBucket(t)
  PROVE  ChainInv'
<1> DEFINE b == LatchedBucket(t)
<1>1. /\ count \in [Buckets -> 0 .. BucketSize] /\ b \in TableBuckets /\ Intact
      /\ next \in [Buckets -> Buckets \cup {NULL}]
  BY ReserveAlone DEF TypeInv, TypeOK, ReserveInBucket
<1>2. /\ count' = [count EXCEPT ![b] = count[b] + 1] /\ count[b] # BucketSize
      /\ UNCHANGED <<next, bufs>>
  BY DEF ReserveInBucket, ChainInv, SeenInv, Full
<1> HIDE DEF b
<1>3. \A c \in Buckets \ {b} : count'[c] = count[c]
  BY <1>1, <1>2
<1>4. ChainShape'
  BY <1>1, <1>2, <1>3, BucketKinds DEF ChainInv, ChainShape
<1>5. FreshInv'
  BY <1>1, <1>2, <1>3, BucketKinds DEF ChainInv, FreshInv
<1>6. SeenInv'
  <2> SUFFICES ASSUME NEW u \in Threads, pc'[u] = "reserve"
               PROVE  /\ seen'[u].count = count'[LatchedBucket(u)']
                      /\ seen'[u].nxt = next'[LatchedBucket(u)']
                      /\ seen'[u].nxt # NULL => seen'[u].nxtCount = count'[seen'[u].nxt]
    BY DEF SeenInv
  <2>1. /\ u # t /\ pc[u] = "reserve" /\ LatchedBucket(u)' = LatchedBucket(u) /\ seen' = seen
    BY ReserveFrame
  <2>2. LatchedBucket(u) \in Buckets \ {b}
    BY <2>1, ReserveAlone, BucketKinds DEF b, ReserveInBucket
  <2>3. next[LatchedBucket(u)] # NULL => next[LatchedBucket(u)] \in Buckets \ {b}
    BY <1>1, <2>2, BucketKinds DEF ChainInv, ChainShape
  <2>4. QED
    BY <1>2, <1>3, <2>1, <2>2, <2>3 DEF ChainInv, SeenInv
<1>7. QED
  BY <1>4, <1>5, <1>6 DEF ChainInv

LEMMA ReserveInOverflowChain ==
  ASSUME TypeInv, PhaseInv, LatchInv, ChainInv, NEW t \in Threads, ReserveInOverflow(t)
  PROVE  ChainInv'
<1> DEFINE b == LatchedBucket(t)
           n == next[b]
<1>1. /\ count \in [Buckets -> 0 .. BucketSize] /\ b \in TableBuckets /\ Intact
      /\ next \in [Buckets -> Buckets \cup {NULL}]
  BY ReserveAlone DEF TypeInv, TypeOK, ReserveInOverflow
<1>2. /\ n # NULL /\ count' = [count EXCEPT ![n] = count[n] + 1] /\ count[n] # BucketSize
      /\ UNCHANGED <<next, bufs>>
  BY DEF ReserveInOverflow, ChainInv, SeenInv, Full
<1>3. n \in OverflowBuckets /\ \A c \in Buckets : next[c] = n => c = b
  BY <1>1, <1>2, BucketKinds DEF ChainInv, ChainShape
<1>4. /\ \A c \in Buckets \ {n} : count'[c] = count[c]
      /\ count'[n] = count[n] + 1
  BY <1>1, <1>2, <1>3, BucketKinds
<1>5. next' = next /\ bufs' = bufs /\ n = next[b]
  BY <1>2
<1> HIDE DEF b, n
<1>6. ChainShape'
  <2>1. count[n] \in Nat
    BY <1>1, <1>3, BucketKinds, SizeTypes
  <2>2. QED
    BY <1>1, <1>3, <1>4, <1>5, <2>1, BucketKinds DEF ChainInv, ChainShape
<1>7. FreshInv'
  <2>1. Taken(bufs, n)
    BY <1>1, <1>3, <1>5, BucketKinds DEF ChainInv, FreshInv
  <2>2. QED
    BY <1>1, <1>3, <1>4, <1>5, <2>1, BucketKinds DEF ChainInv, FreshInv
<1>8. SeenInv'
  <2> SUFFICES ASSUME NEW u \in Threads, pc'[u] = "reserve"
               PROVE  /\ seen'[u].count = count'[LatchedBucket(u)']
                      /\ seen'[u].nxt = next'[LatchedBucket(u)']
                      /\ seen'[u].nxt # NULL => seen'[u].nxtCount = count'[seen'[u].nxt]
    BY DEF SeenInv
  <2>1. /\ u # t /\ pc[u] = "reserve" /\ LatchedBucket(u)' = LatchedBucket(u) /\ seen' = seen
    BY ReserveFrame
  <2>2. LatchedBucket(u) \in TableBuckets /\ LatchedBucket(u) # b
    BY <2>1, ReserveAlone DEF b, ReserveInOverflow
  <2>3. LatchedBucket(u) \in Buckets \ {n}
    BY <1>3, <2>2, BucketKinds
  <2>4. next[LatchedBucket(u)] # NULL => next[LatchedBucket(u)] \in Buckets \ {n}
    BY <1>1, <1>3, <2>2, <2>3
  <2>5. QED
    BY <1>4, <1>5, <2>1, <2>3, <2>4 DEF ChainInv, SeenInv
<1>9. QED
  BY <1>6, <1>7, <1>8 DEF ChainInv

LEMMA ReserveInNewBucketChain ==
  ASSUME TypeInv, PhaseInv, LatchInv, ChainInv, NEW t \in Threads, ReserveInNewBucket(t)
  PROVE  ChainInv'
<1> DEFINE b == LatchedBucket(t)
           n == next[b]
           new == NewBucket(t)
<1>1. /\ count \in [Buckets -> 0 .. BucketSize] /\ b \in TableBuckets /\ Intact
      /\ next \in [Buckets -> Buckets \cup {NULL}]
  BY ReserveAlone DEF TypeInv, TypeOK, ReserveInNewBucket
<1>2. /\ next' = [next EXCEPT ![b] = new, ![new] = n] /\ count' = [count EXCEPT ![new] = 1]
      /\ count[b] = BucketSize
      /\ n # NULL => count[n] = BucketSize
  BY DEF ReserveInNewBucket, ChainInv, SeenInv, Full
<1>3. /\ new \in OverflowBuckets /\ next[new] = NULL /\ count[new] = 0
      /\ \A c \in Buckets : next[c] # new
      /\ \A c \in OverflowBuckets : ~Taken(bufs', c) => ~Taken(bufs, c) /\ c # new
  BY <1>1, NewBucketFacts, TakenStep DEF ChainInv, FreshInv
<1>4. /\ n # new /\ b # new
      /\ n # NULL => n \in OverflowBuckets
      /\ n # NULL => \A c \in Buckets : next[c] = n => c = b
  BY <1>1, <1>3, BucketKinds DEF ChainInv, ChainShape
<1> HIDE DEF b, n, new
<1>5. /\ next'[b] = new /\ next'[new] = n /\ count'[new] = 1 /\ b \in Buckets /\ new \in Buckets
      /\ \A c \in Buckets \ {b, new} : next'[c] = next[c]
      /\ \A c \in Buckets \ {new} : count'[c] = count[c]
  BY <1>1, <1>2, <1>3, <1>4, BucketKinds
<1>6. next[b] = n
  BY DEF n, b
<1>7. BucketSize \in Nat /\ BucketSize > 0
  BY SizeTypes
<1>8. ChainShape'
  <2> SUFFICES ASSUME NEW c \in Buckets, next'[c] # NULL
               PROVE  /\ next'[c] \in OverflowBuckets
                      /\ c \in TableBuckets => count'[c] = BucketSize
                      /\ count'[next'[c]] > 0
                      /\ c \in OverflowBuckets => count'[next'[c]] = BucketSize
                      /\ \A d \in Buckets : next'[d] = next'[c] => d = c
    BY DEF ChainShape
  <2>1. CASE c = b
    <3>1. next'[c] = new /\ c \notin OverflowBuckets /\ count'[c] = BucketSize
      BY <1>1, <1>2, <1>4, <1>5, <2>1, BucketKinds
    <3>2. \A d \in Buckets : next'[d] = new => d = b
      BY <1>3, <1>4, <1>5
    <3>3. QED
      BY <1>3, <1>5, <2>1, <3>1, <3>2
  <2>2. CASE c = new
    <3>1. next'[c] = n /\ n # NULL /\ n \in OverflowBuckets /\ c \notin TableBuckets
      BY <1>3, <1>4, <1>5, <2>2, BucketKinds
    <3>2. count'[n] = BucketSize
      BY <1>2, <1>4, <1>5, <3>1, BucketKinds
    <3>3. \A d \in Buckets : next'[d] = n => d = new
      BY <1>4, <1>5, <3>1
    <3>4. QED
      BY <1>7, <2>2, <3>1, <3>2, <3>3
  <2>3. CASE c \notin {b, new}
    <3>1. next'[c] = next[c] /\ next[c] # new /\ next[c] \in Buckets
      BY <1>1, <1>3, <1>5, <2>3
    <3>2. /\ next[c] \in OverflowBuckets
          /\ c \in TableBuckets => count[c] = BucketSize
          /\ count[next[c]] > 0
          /\ c \in OverflowBuckets => count[next[c]] = BucketSize
          /\ \A d \in Buckets : next[d] = next[c] => d = c
      BY <3>1 DEF ChainInv, ChainShape
    <3>3. \A d \in Buckets : next'[d] = next'[c] => d = c
      BY <1>4, <1>5, <1>6, <2>3, <3>1, <3>2
    <3>4. QED
      BY <1>5, <2>3, <3>1, <3>2, <3>3
  <2>4. QED
    BY <2>1, <2>2, <2>3
<1>9. FreshInv'
  <2> SUFFICES ASSUME NEW c \in OverflowBuckets, ~Taken(bufs', c)
               PROVE  next'[c] = NULL /\ count'[c] = 0 /\ \A d \in Buckets : next'[d] # c
    BY DEF FreshInv
  <2>1. /\ c # new /\ c # b /\ c \in Buckets
        /\ next[c] = NULL /\ count[c] = 0 /\ \A d \in Buckets : next[d] # c
    BY <1>1, <1>3, BucketKinds DEF ChainInv, FreshInv
  <2>2. QED
    BY <1>5, <1>6, <2>1
<1>10. SeenInv'
  <2> SUFFICES ASSUME NEW u \in Threads, pc'[u] = "reserve"
               PROVE  /\ seen'[u].count = count'[LatchedBucket(u)']
                      /\ seen'[u].nxt = next'[LatchedBucket(u)']
                      /\ seen'[u].nxt # NULL => seen'[u].nxtCount = count'[seen'[u].nxt]
    BY DEF SeenInv
  <2>1. /\ u # t /\ pc[u] = "reserve" /\ LatchedBucket(u)' = LatchedBucket(u) /\ seen' = seen
    BY ReserveFrame
  <2>2. LatchedBucket(u) \in TableBuckets /\ LatchedBucket(u) # b
    BY <2>1, ReserveAlone DEF b, ReserveInNewBucket
  <2>3. LatchedBucket(u) \in Buckets \ {b, new}
    BY <1>3, <2>2, BucketKinds
  <2>4. next[LatchedBucket(u)] # NULL => next[LatchedBucket(u)] \in Buckets \ {new}
    BY <1>1, <1>3, <2>3
  <2>5. QED
    BY <1>5, <2>1, <2>3, <2>4 DEF ChainInv, SeenInv
<1>11. QED
  BY <1>8, <1>9, <1>10 DEF ChainInv

(* A step that neither counts nor links. *)
LEMMA ChainFrame ==
  ASSUME ChainInv, UNCHANGED <<count, next>>,
         Intact' => /\ Intact
                    /\ \A b \in OverflowBuckets : Taken(bufs, b) => Taken(bufs', b),
         \A u \in Threads : pc'[u] = "reserve" =>
           /\ pc[u] = "reserve"
           /\ seen'[u] = seen[u]
           /\ LatchedBucket(u)' = LatchedBucket(u)
  PROVE  ChainInv'
<1>1. ChainShape'
  BY DEF ChainInv, ChainShape
<1>2. FreshInv'
  BY DEF ChainInv, FreshInv
<1>3. SeenInv'
  BY DEF ChainInv, SeenInv
<1>4. QED
  BY <1>1, <1>2, <1>3 DEF ChainInv

LEMMA InspectChain ==
  ASSUME TypeInv, ChainInv, NEW t \in Threads, Inspect(t)
  PROVE  ChainInv'
<1>1. /\ UNCHANGED <<inputs, mainVars, count, next, bufs, cur>>
      /\ pc' = [pc EXCEPT ![t] = "reserve"] /\ pc \in [Threads -> Labels]
      /\ seen \in [Threads -> Snapshots]
  BY DEF Inspect, Goto, table, TypeInv, TypeOK
<1>2. \A u \in Threads : LatchedBucket(u)' = LatchedBucket(u)
  BY <1>1 DEF LatchedBucket, BuildTuple, inputs, mainVars
<1>3. ChainShape'
  BY <1>1 DEF ChainInv, ChainShape
<1>4. FreshInv'
  <2>1. Intact' => Intact
    BY <1>1 DEF Intact, Inspect
  <2>2. QED
    BY <1>1, <2>1 DEF ChainInv, FreshInv
<1>5. SeenInv'
  <2> DEFINE n == next[LatchedBucket(t)]
  <2>1. seen'[t] = [count |-> count[LatchedBucket(t)], nxt |-> n,
                    nxtCount |-> IF n = NULL THEN 0 ELSE count[n]]
    BY <1>1 DEF Inspect
  <2>2. \A u \in Threads \ {t} : seen'[u] = seen[u] /\ pc'[u] = pc[u]
    BY <1>1 DEF Inspect
  <2>3. QED
    BY <1>1, <1>2, <2>1, <2>2 DEF ChainInv, SeenInv
<1>6. QED
  BY <1>3, <1>4, <1>5 DEF ChainInv

(* The steps of a thread that reserve nothing. *)
LEMMA OtherChain ==
  ASSUME TypeInv, NoBufferYet, ChainInv, NEW t \in Threads, Thread(t),
         ~(ReserveInNewBucket(t) \/ ReserveInOverflow(t) \/ ReserveInBucket(t) \/ Inspect(t))
  PROVE  ChainInv'
<1>1. /\ pc \in [Threads -> Labels] /\ pc' = [pc EXCEPT ![t] = pc'[t]]
      /\ bufs \in [Threads -> Seq(0 .. OverflowBufSize)]
      /\ cur \in [Threads -> Nat]
      /\ UNCHANGED <<inputs, mainVars>>
  BY ThreadMoves DEF TypeInv, TypeOK
<1>2. UNCHANGED <<count, next, seen>>
  BY DEF Thread, Start, BeginBuild, Build, LatchBucket, Store, UnlatchBucket, EndBuild,
         BeginProbe, Probe, LookupHit, LookupFollow, LookupMiss, LookupFreed, EndProbe,
         EndProbeUntimed, BeginFree, FreeBuffer, table, locals
<1>3. pc'[t] # "reserve" /\ \A u \in Threads \ {t} : cur'[u] = cur[u]
  BY <1>1 DEF Thread, Start, BeginBuild, Build, LatchBucket, Store, UnlatchBucket, EndBuild,
         BeginProbe, Probe, LookupHit, LookupFollow, LookupMiss, LookupFreed, EndProbe,
         EndProbeUntimed, BeginFree, FreeBuffer, EndLookup, Probing, Goto, locals
<1>4. \A u \in Threads : pc'[u] = "reserve" =>
         /\ pc[u] = "reserve"
         /\ seen'[u] = seen[u]
         /\ LatchedBucket(u)' = LatchedBucket(u)
  BY <1>1, <1>2, <1>3 DEF LatchedBucket, BuildTuple, inputs, mainVars
<1>5. Intact' => Intact
  BY <1>1, ThreadMoves DEF Intact, Building, Latched
<1>6. Intact' => \A b \in OverflowBuckets : Taken(bufs, b) => Taken(bufs', b)
  <2>1. CASE Start(t)
    <3>1. bufs' = [bufs EXCEPT ![t] = <<0>>] /\ bufs[t] = <<>> /\ Len(<<>>) = 0
      BY <2>1 DEF Start, NoBufferYet
    <3>2. ASSUME NEW b \in OverflowBuckets, b[2] = t
          PROVE  ~Taken(bufs, b)
      <4>1. b[1] \in Nat \ {0}
        BY DEF OverflowBuckets
      <4>2. QED
        BY <3>1, <3>2, <4>1 DEF Taken
    <3>3. \A b \in OverflowBuckets : b[2] # t => bufs'[b[2]] = bufs[b[2]]
      BY <1>1, <3>1 DEF OverflowBuckets
    <3>4. QED
      BY <3>2, <3>3 DEF Taken
  <2>2. CASE FreeBuffer(t)
    <3>1. pc'[t] \in {"free", "exited"}
      BY <1>1, <2>2 DEF FreeBuffer, Goto
    <3>2. QED
      BY <3>1 DEF Intact
  <2>3. CASE ~Start(t) /\ ~FreeBuffer(t)
    <3>1. UNCHANGED bufs
      BY <2>3 DEF Thread, BeginBuild, Build, LatchBucket, Store, UnlatchBucket, EndBuild,
         BeginProbe, Probe, LookupHit, LookupFollow, LookupMiss, LookupFreed, EndProbe,
         EndProbeUntimed, BeginFree
    <3>2. QED
      BY <3>1
  <2>4. QED
    BY <2>1, <2>2, <2>3
<1>7. QED
  BY <1>2, <1>4, <1>5, <1>6, ChainFrame

LEMMA NextChainInv ==
  ASSUME TypeInv, LatchInv, PhaseInv, MainInv, NoBufferYet, ChainInv, [Next]_vars
  PROVE  ChainInv'
<1>1. CASE UNCHANGED vars
  <2>1. UNCHANGED <<relR, args, bufs, count, next, pc, cur, seen>>
    BY <1>1 DEF vars, inputs, mainVars, table, locals
  <2>2. \A u \in Threads : LatchedBucket(u)' = LatchedBucket(u)
    BY <2>1 DEF LatchedBucket, BuildTuple
  <2>3. QED
    BY <2>1, <2>2, ChainFrame DEF Intact
<1>2. CASE Main
  <2>1. UNCHANGED <<relR, bufs, count, next, cur, seen>>
    BY <1>2, MainMoves DEF inputs, table, locals
  <2>2. \A t \in Threads :
          \/ pc'[t] = pc[t] /\ args'[t] = args[t]
          \/ pc[t] = "unborn" /\ pc'[t] = "start"
    BY <1>2, MainMoves
  <2>3. Intact' => Intact
    BY <2>2 DEF Intact
  <2>4. \A u \in Threads : pc'[u] = "reserve" =>
           /\ pc[u] = "reserve"
           /\ seen'[u] = seen[u]
           /\ LatchedBucket(u)' = LatchedBucket(u)
    BY <2>1, <2>2 DEF LatchedBucket, BuildTuple
  <2>5. QED
    BY <2>1, <2>3, <2>4, ChainFrame
<1>3. ASSUME NEW t \in Threads, Thread(t)
      PROVE  ChainInv'
  BY <1>3, ReserveInBucketChain, ReserveInOverflowChain, ReserveInNewBucketChain, InspectChain,
     OtherChain
<1>4. QED
  BY <1>1, <1>2, <1>3 DEF Next, Finished

(* What is proved of every state that the join compiled for x86 reaches. *)
TableInv ==
  /\ TypeInv /\ PhaseInv /\ MainInv /\ NoBufferYet /\ LinkedLive
  /\ LatchInv
  /\ ChainInv

LEMMA TableInvCorrect ==
  ASSUME Arch = "x86"
  PROVE  Spec => []TableInv
<1>1. Init => ChainInv
  <2>1. Init => ChainShape /\ SeenInv
    BY DEF Init, ChainShape, SeenInv
  <2>2. Init => FreshInv
    BY BucketKinds DEF Init, FreshInv
  <2>3. QED
    BY <2>1, <2>2 DEF ChainInv
<1>2. /\ TypeInv /\ PhaseInv /\ MainInv /\ NoBufferYet /\ LinkedLive /\ LatchInv
      /\ ChainInv /\ [Next]_vars
      => ChainInv'
  BY NextChainInv
<1>3. QED
  BY <1>1, <1>2, PhaseInvCorrect, LatchInvCorrect, PTL DEF Spec, TableInv

(* Compiled for x86, whatever the threads insert and in whichever order    *)
(* they take turns, only the first overflow bucket of a chain has room, no *)
(* bucket is linked twice, and no linked bucket is empty.                  *)
THEOREM ChainShapeCorrect ==
  ASSUME Arch = "x86"
  PROVE  Spec => []ChainShape
BY TableInvCorrect, PTL DEF TableInv, ChainInv

-----------------------------------------------------------------------------
(* The shares of the threads divide a relation of n tuples.                *)

ShareSize(n) == n \div NThreads
ShareFirst(n, t) == ShareSize(n) * t + 1
ShareNum(n, t) == IF t = NThreads - 1 THEN n - ShareSize(n) * t ELSE ShareSize(n)

(* A thread that has been created has its shares. *)
BornInv ==
  \A t \in Threads : pc[t] # "unborn" =>
    /\ args[t].rFirst = ShareFirst(NumR, t) /\ args[t].rNum = ShareNum(NumR, t)
    /\ args[t].sFirst = ShareFirst(NumS, t) /\ args[t].sNum = ShareNum(NumS, t)

LEMMA ShareTypes ==
  ASSUME NEW n \in Nat
  PROVE  /\ NThreads \in Nat /\ NThreads > 0 /\ ShareSize(n) \in Nat
         /\ \A t \in Threads : /\ t \in Nat /\ t < NThreads
                               /\ ShareSize(n) * t \in Nat /\ ShareNum(n, t) \in Nat
<1>1. NThreads \in Nat /\ NThreads > 0
  BY JoinAssumption
<1>2. \A t \in Threads : t \in Nat /\ t < NThreads
  BY <1>1 DEF Threads
<1>3. ShareSize(n) \in Nat
  BY <1>1 DEF ShareSize
<1>4. ASSUME NEW t \in Threads
      PROVE  ShareSize(n) * t \in Nat /\ ShareNum(n, t) \in Nat
  <2>1. ShareSize(n) * t \in Nat /\ ShareSize(n) * t + ShareSize(n) <= n
    BY ShareBound DEF ShareSize
  <2>2. QED
    BY <1>3, <2>1 DEF ShareNum
<1>5. QED
  BY <1>1, <1>2, <1>3, <1>4

(* No tuple is in two shares. *)
LEMMA SharesApart ==
  ASSUME NEW n \in Nat, NEW t \in Threads, NEW u \in Threads, NEW c \in Nat, NEW d \in Nat,
         c < ShareNum(n, t), d < ShareNum(n, u), ShareFirst(n, t) + c = ShareFirst(n, u) + d
  PROVE  t = u
<1>0. /\ NThreads \in Nat /\ NThreads > 0 /\ ShareSize(n) \in Nat
      /\ \A x \in Threads : /\ x \in Nat /\ x < NThreads
                            /\ ShareSize(n) * x \in Nat /\ ShareNum(n, x) \in Nat
  BY ShareTypes
<1>1. ASSUME NEW x \in Threads, NEW y \in Threads, x < y
      PROVE  ShareFirst(n, x) + ShareNum(n, x) <= ShareFirst(n, y)
  <2>1. ShareNum(n, x) = ShareSize(n)
    BY <1>1, <1>0 DEF ShareNum
  <2>2. /\ ShareSize(n) * (x + 1) <= ShareSize(n) * y
        /\ ShareSize(n) * (x + 1) = ShareSize(n) * x + ShareSize(n)
    BY <1>1, <1>0, SMT
  <2>3. QED
    BY <2>1, <2>2, <1>0 DEF ShareFirst
<1>2. ShareFirst(n, t) \in Nat /\ ShareFirst(n, u) \in Nat
  BY <1>0 DEF ShareFirst
<1>3. CASE t < u
  <2>1. ShareFirst(n, t) + ShareNum(n, t) <= ShareFirst(n, u) /\ ShareNum(n, t) \in Nat
    BY <1>1, <1>3, <1>0
  <2>2. QED
    BY <1>2, <2>1
<1>4. CASE u < t
  <2>1. ShareFirst(n, u) + ShareNum(n, u) <= ShareFirst(n, t) /\ ShareNum(n, u) \in Nat
    BY <1>1, <1>4, <1>0
  <2>2. QED
    BY <1>2, <2>1
<1>5. t \in Nat /\ u \in Nat
  BY <1>0
<1>6. QED
  BY <1>3, <1>4, <1>5

(* Every tuple is in some share. *)
LEMMA SharesCover ==
  ASSUME NEW n \in Nat, NEW i \in 1 .. n
  PROVE  \E t \in Threads : ShareFirst(n, t) <= i /\ i < ShareFirst(n, t) + ShareNum(n, t)
<1>0. /\ NThreads \in Nat /\ NThreads > 0 /\ ShareSize(n) \in Nat
      /\ \A x \in Threads : /\ x \in Nat /\ x < NThreads
                            /\ ShareSize(n) * x \in Nat /\ ShareNum(n, x) \in Nat
  BY ShareTypes
<1> DEFINE q == ShareSize(n)
           last == NThreads - 1
<1>1. i \in Nat /\ i >= 1 /\ i <= n /\ last \in Threads
  BY <1>0 DEF Threads
<1>2. q * last \in Nat /\ q \in Nat
  BY <1>1, <1>0
<1>3. CASE q * last < i
  <2>1. ShareFirst(n, last) <= i /\ i < ShareFirst(n, last) + ShareNum(n, last)
    BY <1>1, <1>2, <1>3, <1>0 DEF ShareFirst, ShareNum
  <2>2. QED
    BY <1>1, <2>1
<1>4. CASE i <= q * last
  <2>1. q > 0
    <3>1. q = 0 => q * last = 0
      BY <1>1, <1>0
    <3>2. QED
      BY <1>1, <1>2, <1>4, <3>1
  <2> DEFINE d == (i - 1) \div q
  <2>2. d \in Nat /\ q * d <= i - 1 /\ i - 1 < q * d + q
    <3>1. i - 1 \in Nat /\ q \in Nat \ {0}
      BY <1>1, <1>2, <2>1
    <3> HIDE DEF q
    <3>2. \A a \in Nat, b \in Nat \ {0} :
            /\ a \div b \in Nat /\ a % b \in 0 .. (b - 1)
            /\ a = b * (a \div b) + (a % b)
      BY SMT
    <3>3. d \in Nat /\ (i - 1) % q \in 0 .. (q - 1) /\ i - 1 = q * d + ((i - 1) % q)
      BY <3>1, <3>2, Zenon
    <3> HIDE DEF d
    <3>4. q * d \in Nat
      BY <1>2, <3>3
    <3>5. PICK r \in 0 .. (q - 1) : i - 1 = q * d + r
      BY <3>3
    <3>6. PICK p \in Nat : p = q * d
      BY <3>4
    <3>7. i - 1 = p + r
      BY <3>5, <3>6
    <3>8. p <= i - 1 /\ i - 1 < p + q
      <4>1. \A a, b, c, e \in Int : e \in 0 .. (b - 1) /\ a = c + e => c <= a /\ a < c + b
        OBVIOUS
      <4>2. QED
        BY <1>2, <3>1, <3>7, <4>1
    <3>9. QED
      BY <3>3, <3>6, <3>8
  <2> HIDE DEF d, q
  <2>3. d < last
    <3>1. ASSUME d >= last
          PROVE  q * last <= q * d
      BY <1>1, <1>2, <2>2, <3>1, <1>0, SMT
    <3>2. q * d \in Nat /\ last \in Nat
      BY <1>1, <1>2, <2>2, <1>0
    <3>3. QED
      BY <1>1, <1>2, <1>4, <2>2, <3>1, <3>2
  <2>4. d \in Threads /\ ShareNum(n, d) = q /\ ShareFirst(n, d) = q * d + 1
    BY <2>2, <2>3, <1>0 DEF Threads, ShareNum, ShareFirst, q
  <2>5. q * d \in Nat
    BY <1>2, <2>2
  <2>6. ShareFirst(n, d) <= i /\ i < ShareFirst(n, d) + ShareNum(n, d)
    BY <1>1, <1>2, <2>2, <2>4, <2>5
  <2>7. QED
    BY <2>4, <2>6
<1>5. QED
  BY <1>1, <1>2, <1>3, <1>4

-----------------------------------------------------------------------------
(* The inductive invariant.                                                *)

(* The tuples a thread has put in their slots: of its share the first ones *)
(* while it builds, and all of them afterwards.                            *)
StoredNum(t) ==
  IF pc[t] \in {"unborn", "start", "wait_start"} THEN 0
  ELSE IF pc[t] = "unlock" THEN cur[t] + 1
  ELSE IF pc[t] \in Building THEN cur[t]
  ELSE args[t].rNum

Inserted(t) == {args[t].rFirst + c : c \in 0 .. (StoredNum(t) - 1)}

CursorInv ==
  \A t \in Threads :
    /\ pc[t] \in {"unborn", "start", "wait_start"} => cur[t] = 0
    /\ pc[t] = "build" => cur[t] <= args[t].rNum

(* Only counted slots are written, with tuples that have been inserted,    *)
(* and no tuple is in two slots.                                           *)
SlotsInv ==
  \A b \in Buckets, k \in 1 .. BucketSize : slots[b][k] # NoTuple =>
    /\ k <= count[b]
    /\ \E t \in Threads : slots[b][k] \in Inserted(t)
    /\ \A c \in Buckets, j \in 1 .. BucketSize : slots[c][j] = slots[b][k] => c = b /\ j = k

(* An inserted tuple is in a slot on the chain of its key. *)
FoundInv ==
  \A t \in Threads : \A i \in Inserted(t) :
    \E b \in Buckets, k \in 1 .. BucketSize :
      slots[b][k] = i /\ b \in Chain(BucketOf(relR[i]))

(* A reserved slot is counted, still empty, on the chain that the thread   *)
(* has latched, and reserved by nobody else.                               *)
DestInv ==
  \A t \in Threads : pc[t] = "store" =>
    /\ dest[t] \in Buckets \X (1 .. BucketSize)
    /\ dest[t][2] <= count[dest[t][1]]
    /\ slots[dest[t][1]][dest[t][2]] = NoTuple
    /\ dest[t][1] \in Chain(LatchedBucket(t))
    /\ \A u \in Threads : pc[u] = "store" /\ dest[u] = dest[t] => u = t

PlaceInv == BornInv /\ CursorInv /\ SlotsInv /\ FoundInv /\ DestInv

-----------------------------------------------------------------------------
(* The shares, and what has been inserted of them.                         *)

LEMMA NextBornInv ==
  ASSUME TableInv, BornInv, CursorInv, [Next]_vars
  PROVE  BornInv' /\ CursorInv'
<1> USE DEF TableInv
<1>1. CASE UNCHANGED vars
  <2>1. UNCHANGED <<args, pc, cur>>
    BY <1>1 DEF vars, mainVars, locals
  <2>2. QED
    BY <2>1 DEF BornInv, CursorInv
<1>2. CASE Main
  <2>1. cur' = cur /\ \A t \in Threads :
          \/ pc'[t] = pc[t] /\ args'[t] = args[t]
          \/ pc[t] = "unborn" /\ pc'[t] = "start"
    BY <1>2, MainMoves DEF locals
  <2>2. CursorInv'
    BY <2>1 DEF CursorInv
  <2>3. CASE Spawn
    <3>1. /\ mainI \in Threads /\ args' = [args EXCEPT ![mainI] = Share(mainI)]
          /\ pc' = [pc EXCEPT ![mainI] = "start"]
          /\ remR = NumR - ShareSize(NumR) * mainI /\ remS = NumS - ShareSize(NumS) * mainI
      BY <2>3 DEF Spawn, Goto, TypeInv, TypeOK, SpawnInv, ShareSize
    <3>2. /\ Share(mainI).rFirst = ShareFirst(NumR, mainI)
          /\ Share(mainI).rNum = ShareNum(NumR, mainI)
          /\ Share(mainI).sFirst = ShareFirst(NumS, mainI)
          /\ Share(mainI).sNum = ShareNum(NumS, mainI)
      BY <3>1 DEF Share, ShareFirst, ShareNum, ShareSize
    <3>3. BornInv'
      BY <3>1, <3>2 DEF BornInv, TypeInv, TypeOK
    <3>4. QED
      BY <2>2, <3>3
  <2>4. CASE Join \/ Destroy
    BY <2>2, <2>4 DEF Join, Destroy, BornInv
  <2>5. QED
    BY <1>2, <2>3, <2>4 DEF Main
<1>3. ASSUME NEW t \in Threads, Thread(t)
      PROVE  BornInv' /\ CursorInv'
  <2>1. /\ pc \in [Threads -> Labels] /\ pc' = [pc EXCEPT ![t] = pc'[t]] /\ args' = args
        /\ cur \in [Threads -> Nat] /\ pc[t] # "unborn"
        /\ pc'[t] \in {"unborn", "start", "wait_start"} => pc[t] = "start"
    BY <1>3, ThreadMoves DEF TypeInv, TypeOK, mainVars, Building, Latched
  <2>2. BornInv'
    BY <2>1 DEF BornInv
  <2>3. /\ \A u \in Threads \ {t} : cur'[u] = cur[u]
        /\ pc[t] = "start" => cur' = cur
    BY <1>3, <2>1 DEF Thread, Start, BeginBuild, Build, LatchBucket, Inspect,
         ReserveInNewBucket, ReserveInOverflow, ReserveInBucket, Store, UnlatchBucket, EndBuild,
         BeginProbe, Probe, LookupHit, LookupFollow, LookupMiss, LookupFreed, EndProbe,
         EndProbeUntimed, BeginFree, FreeBuffer, EndLookup, Probing, locals
  <2>4. pc'[t] = "build" => cur'[t] <= args[t].rNum
    <3>1. cur[t] \in Nat /\ args[t].rNum \in Nat
      BY DEF TypeInv, TypeOK, Shares
    <3>2. CASE BeginBuild(t)
      BY <2>1, <3>1, <3>2 DEF BeginBuild, CursorInv, locals
    <3>3. CASE UnlatchBucket(t)
      BY <2>1, <3>1, <3>3 DEF UnlatchBucket, TypeInv, LoopInv, Latched
    <3>4. CASE LatchBucket(t)
      BY <2>1, <3>1, <3>4 DEF LatchBucket, locals
    <3>5. CASE ~BeginBuild(t) /\ ~UnlatchBucket(t) /\ ~LatchBucket(t)
      <4>1. pc'[t] # "build"
        BY <1>3, <2>1, <3>5 DEF Thread, Start, Build, Inspect, ReserveInNewBucket,
             ReserveInOverflow, ReserveInBucket, Store, EndBuild, BeginProbe, Probe, LookupHit,
             LookupFollow, LookupMiss, LookupFreed, EndProbe, EndProbeUntimed, BeginFree,
             FreeBuffer, Probing, Goto
      <4>2. QED
        BY <4>1
    <3>6. QED
      BY <3>2, <3>3, <3>4, <3>5
  <2>5. CursorInv'
    BY <2>1, <2>3, <2>4 DEF CursorInv
  <2>6. QED
    BY <2>2, <2>5
<1>4. QED
  BY <1>1, <1>2, <1>3 DEF Next, Finished

(* Only the store of a tuple adds to what a thread has inserted. *)
LEMMA InsertedStep ==
  ASSUME TableInv, BornInv, CursorInv, [Next]_vars
  PROVE  \A u \in Threads :
           /\ ~Store(u) => Inserted(u)' = Inserted(u)
           /\ Store(u) => Inserted(u)' = Inserted(u) \cup {BuildTuple(u)}
<1> USE DEF TableInv
<1>1. CASE UNCHANGED vars
  <2>1. UNCHANGED <<args, pc, cur>>
    BY <1>1 DEF vars, mainVars, locals
  <2>2. \A u \in Threads : Inserted(u)' = Inserted(u) /\ ~Store(u)
    BY <2>1 DEF Inserted, StoredNum, Store, Goto, TypeInv, TypeOK
  <2>3. QED
    BY <2>2
<1>2. CASE Main
  <2>1. cur' = cur /\ slots' = slots /\ \A t \in Threads :
          \/ pc'[t] = pc[t] /\ args'[t] = args[t]
          \/ pc[t] = "unborn" /\ pc'[t] = "start"
    BY <1>2, MainMoves DEF locals, table
  <2>2. ASSUME NEW u \in Threads
        PROVE  Inserted(u)' = Inserted(u) /\ ~Store(u)
    <3>1. CASE pc'[u] = pc[u] /\ args'[u] = args[u]
      <4>1. StoredNum(u)' = StoredNum(u)
        BY <2>1, <3>1 DEF StoredNum
      <4>2. QED
        BY <3>1, <4>1 DEF Inserted, Store, Goto, TypeInv, TypeOK
    <3>2. CASE pc[u] = "unborn" /\ pc'[u] = "start"
      <4>1. StoredNum(u)' = 0 /\ StoredNum(u) = 0
        BY <3>2 DEF StoredNum
      <4>2. \A c : c \notin 0 .. (0 - 1)
        OBVIOUS
      <4>3. Inserted(u)' = {} /\ Inserted(u) = {}
        BY <4>1, <4>2 DEF Inserted
      <4>4. QED
        BY <3>2, <4>3 DEF Store
    <3>3. QED
      BY <2>1, <3>1, <3>2
  <2>3. QED
    BY <2>2
<1>3. ASSUME NEW t \in Threads, Thread(t)
      PROVE  \A u \in Threads :
               /\ ~Store(u) => Inserted(u)' = Inserted(u)
               /\ Store(u) => Inserted(u)' = Inserted(u) \cup {BuildTuple(u)}
  <2>1. /\ pc \in [Threads -> Labels] /\ pc' = [pc EXCEPT ![t] = pc'[t]] /\ args' = args
        /\ cur \in [Threads -> Nat]
    BY <1>3, ThreadMoves DEF TypeInv, TypeOK, mainVars
  <2>2. \A u \in Threads \ {t} : cur'[u] = cur[u]
    BY <1>3, <2>1 DEF Thread, Start, BeginBuild, Build, LatchBucket, Inspect,
         ReserveInNewBucket, ReserveInOverflow, ReserveInBucket, Store, UnlatchBucket, EndBuild,
         BeginProbe, Probe, LookupHit, LookupFollow, LookupMiss, LookupFreed, EndProbe,
         EndProbeUntimed, BeginFree, FreeBuffer, EndLookup, locals
  <2>3. ASSUME NEW u \in Threads, u # t
        PROVE  Inserted(u)' = Inserted(u) /\ ~Store(u)
    <3>1. pc'[u] = pc[u]
      BY <2>1, <2>3
    <3>2. StoredNum(u)' = StoredNum(u)
      BY <2>1, <2>2, <2>3, <3>1 DEF StoredNum
    <3>3. QED
      BY <2>1, <3>1, <3>2 DEF Inserted, Store, Goto
  <2>4. CASE Store(t)
    <3>1. /\ pc[t] = "store" /\ pc'[t] = "unlock" /\ cur' = cur
      BY <2>1, <2>4 DEF Store, Goto, locals
    <3>2. StoredNum(t) = cur[t] /\ StoredNum(t)' = cur[t] + 1
      BY <3>1 DEF StoredNum, Building, Latched
    <3>3. cur[t] \in Nat
      BY <2>1
    <3>4. 0 .. (cur[t] + 1 - 1) = (0 .. (cur[t] - 1)) \cup {cur[t]}
      BY <3>3
    <3>5. Inserted(t)' = Inserted(t) \cup {BuildTuple(t)}
      BY <2>1, <3>2, <3>4 DEF Inserted, BuildTuple
    <3>6. QED
      BY <2>3, <2>4, <3>5
  <2>5. CASE ~Store(t)
    <3>1. StoredNum(t)' = StoredNum(t)
      <4>1. cur[t] \in Nat
        BY <2>1
      <4>2. CASE Start(t) \/ BeginBuild(t)
        BY <2>1, <4>2 DEF Start, BeginBuild, Goto, StoredNum, CursorInv, Building, Latched, locals
      <4>3. CASE LatchBucket(t)
        BY <2>1, <4>3 DEF LatchBucket, Goto, StoredNum, Building, Latched, locals
      <4>4. CASE Inspect(t) \/ ReserveInNewBucket(t) \/ ReserveInOverflow(t) \/ ReserveInBucket(t)
        BY <2>1, <4>4 DEF Inspect, ReserveInNewBucket, ReserveInOverflow, ReserveInBucket, Goto,
                          StoredNum, Building, Latched
      <4>5. CASE UnlatchBucket(t)
        BY <2>1, <4>1, <4>5 DEF UnlatchBucket, Goto, StoredNum, Building, Latched
      <4>6. CASE EndBuild(t)
        BY <2>1, <4>6 DEF EndBuild, Goto, StoredNum, Building, Latched, locals
      <4>7. CASE BeginProbe(t) \/ Probe(t) \/ BeginFree(t) \/ FreeBuffer(t)
        <5>1. /\ pc[t] \in {"wait_build"} \cup ProbingOrLater
              /\ pc'[t] \in {"undefined"} \cup ProbingOrLater
          BY <2>1, <4>7 DEF BeginProbe, Probe, LookupHit, LookupFollow, LookupMiss, LookupFreed,
               EndProbe, EndProbeUntimed, BeginFree, FreeBuffer, Probing, Goto, ProbingOrLater
        <5>2. QED
          BY <2>1, <5>1 DEF StoredNum, ProbingOrLater, Building, Latched
      <4>8. QED
        BY <1>3, <2>5, <4>2, <4>3, <4>4, <4>5, <4>6, <4>7 DEF Thread, Build
    <3>2. Inserted(t)' = Inserted(t)
      BY <2>1, <3>1 DEF Inserted
    <3>3. QED
      BY <2>3, <2>5, <3>2
  <2>6. QED
    BY <2>4, <2>5
<1>4. QED
  BY <1>1, <1>2, <1>3 DEF Next, Finished

-----------------------------------------------------------------------------
(* What the table has gained it keeps.                                     *)

LEMMA ChainFacts ==
  ASSUME TypeOK, NEW b \in Buckets
  PROVE  /\ Chain(b) \subseteq Buckets /\ b \in Chain(b)
         /\ \A c \in Chain(b) : next[c] # NULL => next[c] \in Chain(b)
<1>1. next \in [Buckets -> Buckets \cup {NULL}]
  BY DEF TypeOK
<1>2. Chain(b) = Reach(next, {b})
  BY <1>1, ChainIsReach
<1>3. {b} \in SUBSET Buckets
  OBVIOUS
<1>4. /\ Reach(next, {b}) \in SUBSET Buckets /\ {b} \subseteq Reach(next, {b})
      /\ Closed(next, Reach(next, {b}))
  BY <1>1, <1>3, ReachFacts
<1>5. QED
  BY <1>2, <1>4 DEF Closed

LEMMA ChainFactsNext ==
  ASSUME TypeOK', NEW b \in Buckets
  PROVE  /\ b \in Chain(b)'
         /\ next'[b] # NULL => next'[b] \in Chain(b)'
<1>1. next' \in [Buckets -> Buckets \cup {NULL}]
  BY DEF TypeOK
<1>2. Chain(b)' = Reach(next', {b})
  BY <1>1, ChainIsReach
<1>3. {b} \in SUBSET Buckets
  OBVIOUS
<1>4. {b} \subseteq Reach(next', {b}) /\ Closed(next', Reach(next', {b}))
  BY <1>1, <1>3, ReachFacts
<1>5. QED
  BY <1>2, <1>4 DEF Closed

(* A step links one new bucket, or none. *)
LEMMA ChainsGrow ==
  ASSUME TableInv, [Next]_vars
  PROVE  \A b \in Buckets : Chain(b) \subseteq Chain(b)'
<1> USE DEF TableInv
<1>1. next \in [Buckets -> Buckets \cup {NULL}] /\ next' \in [Buckets -> Buckets \cup {NULL}]
  <2>1. TypeInv'
    BY NextTypeInv
  <2>2. QED
    BY <2>1 DEF TypeInv, TypeOK
<1>2. \A b \in Buckets : Chain(b) = Reach(next, {b}) /\ Chain(b)' = Reach(next', {b})
  BY <1>1, ChainIsReach
<1>3. ASSUME NEW t \in Threads, ReserveInNewBucket(t), NEW b \in Buckets
      PROVE  Reach(next, {b}) \subseteq Reach(next', {b})
  <2>1. /\ pc[t] = "reserve" /\ seen[t].nxt = next[LatchedBucket(t)]
        /\ next' = [next EXCEPT ![LatchedBucket(t)] = NewBucket(t), ![NewBucket(t)] = seen[t].nxt]
    BY <1>3 DEF ReserveInNewBucket, ChainInv, SeenInv
  <2>2. /\ Intact /\ LatchedBucket(t) \in TableBuckets /\ NewBucket(t) \in OverflowBuckets
        /\ ~Taken(bufs, NewBucket(t))
    BY <1>3, <2>1, ReserveAlone, NewBucketFacts, TakenStep
  <2>3. next[NewBucket(t)] = NULL
    BY <2>2 DEF ChainInv, FreshInv
  <2>4. /\ LatchedBucket(t) \in Buckets /\ NewBucket(t) \in Buckets /\ {b} \in SUBSET Buckets
        /\ NewBucket(t) # LatchedBucket(t)
    BY <2>2, BucketKinds
  <2>5. QED
    BY <1>1, <2>1, <2>3, <2>4, ReachInsert
<1>4. CASE \A t \in Threads : ~ReserveInNewBucket(t)
  <2>1. next' = next
    <3>1. CASE UNCHANGED vars
      BY <3>1 DEF vars, table
    <3>2. CASE Main
      BY <3>2, MainMoves DEF table
    <3>3. ASSUME NEW t \in Threads, Thread(t)
          PROVE  next' = next
      BY <1>4, <3>3 DEF Thread, Start, BeginBuild, Build, LatchBucket, Inspect,
         ReserveInOverflow, ReserveInBucket, Store, UnlatchBucket, EndBuild,
         BeginProbe, Probe, LookupHit, LookupFollow, LookupMiss, LookupFreed, EndProbe,
         EndProbeUntimed, BeginFree, FreeBuffer, table
    <3>4. QED
      BY <3>1, <3>2, <3>3 DEF Next, Finished
  <2>2. QED
    BY <1>2, <2>1
<1>5. QED
  BY <1>2, <1>3, <1>4

(* The slot that a thread reserves is the first free one of its bucket. *)
LEMMA ReserveStep ==
  ASSUME TableInv, NEW t \in Threads,
         ReserveInNewBucket(t) \/ ReserveInOverflow(t) \/ ReserveInBucket(t)
  PROVE  \E b \in Buckets :
           /\ count[b] + 1 \in 1 .. BucketSize
           /\ count' = [count EXCEPT ![b] = count[b] + 1]
           /\ dest' = [dest EXCEPT ![t] = <<b, count[b] + 1>>]
           /\ b = LatchedBucket(t) \/ b = next'[LatchedBucket(t)]
<1> USE DEF TableInv
<1>1. /\ pc[t] = "reserve" /\ seen[t].count = count[LatchedBucket(t)]
      /\ seen[t].nxt = next[LatchedBucket(t)]
      /\ seen[t].nxt # NULL => seen[t].nxtCount = count[seen[t].nxt]
  BY ReserveFrame DEF ChainInv, SeenInv
<1>2. /\ count \in [Buckets -> 0 .. BucketSize] /\ next \in [Buckets -> Buckets \cup {NULL}]
      /\ Intact /\ LatchedBucket(t) \in TableBuckets
  BY <1>1, ReserveAlone DEF TypeInv, TypeOK
<1>3. BucketSize \in Nat /\ BucketSize > 0
  BY SizeTypes
<1>4. CASE ReserveInNewBucket(t)
  <2>1. /\ NewBucket(t) \in OverflowBuckets /\ count[NewBucket(t)] = 0
    BY <1>2, <1>4, NewBucketFacts, TakenStep DEF ChainInv, FreshInv
  <2>2. /\ count' = [count EXCEPT ![NewBucket(t)] = 1]
        /\ dest' = [dest EXCEPT ![t] = <<NewBucket(t), 1>>]
        /\ next' = [next EXCEPT ![LatchedBucket(t)] = NewBucket(t), ![NewBucket(t)] = seen[t].nxt]
    BY <1>4 DEF ReserveInNewBucket
  <2>3. next'[LatchedBucket(t)] = NewBucket(t)
    BY <1>2, <2>1, <2>2, BucketKinds
  <2>4. NewBucket(t) \in Buckets /\ count[NewBucket(t)] + 1 = 1 /\ 1 \in 1 .. BucketSize
    BY <1>3, <2>1, BucketKinds
  <2>5. QED
    BY <2>2, <2>3, <2>4
<1>5. CASE ReserveInOverflow(t)
  <2> DEFINE n == next[LatchedBucket(t)]
  <2>1. /\ n # NULL /\ count[n] # BucketSize /\ next' = next
        /\ count' = [count EXCEPT ![n] = count[n] + 1]
        /\ dest' = [dest EXCEPT ![t] = <<n, count[n] + 1>>]
    BY <1>1, <1>5 DEF ReserveInOverflow, Full
  <2>2. n \in Buckets
    BY <1>2, <2>1, BucketKinds
  <2>3. count[n] + 1 \in 1 .. BucketSize
    BY <1>2, <1>3, <2>1, <2>2
  <2>4. QED
    BY <2>1, <2>2, <2>3
<1>6. CASE ReserveInBucket(t)
  <2> DEFINE b == LatchedBucket(t)
  <2>1. /\ count[b] # BucketSize
        /\ count' = [count EXCEPT ![b] = count[b] + 1]
        /\ dest' = [dest EXCEPT ![t] = <<b, count[b] + 1>>]
    BY <1>1, <1>6 DEF ReserveInBucket, Full
  <2>2. b \in Buckets
    BY <1>2, BucketKinds
  <2>3. count[b] + 1 \in 1 .. BucketSize
    BY <1>2, <1>3, <2>1, <2>2
  <2>4. QED
    BY <2>1, <2>2, <2>3
<1>7. QED
  BY <1>4, <1>5, <1>6

(* No bucket counts less than before, and only empty slots are written. *)
LEMMA SlotsGrow ==
  ASSUME TableInv, DestInv, [Next]_vars
  PROVE  /\ \A b \in Buckets : count[b] <= count'[b]
         /\ \A b \in Buckets, k \in 1 .. BucketSize :
              slots[b][k] # NoTuple => slots'[b][k] = slots[b][k]
<1> USE DEF TableInv
<1>1. count \in [Buckets -> 0 .. BucketSize] /\ slots \in [Buckets -> [1 .. BucketSize -> 0 .. NumR]]
  BY DEF TypeInv, TypeOK
<1>2. \A b \in Buckets : count[b] \in Nat
  BY <1>1, SizeTypes
<1>3. ASSUME NEW t \in Threads,
             ReserveInNewBucket(t) \/ ReserveInOverflow(t) \/ ReserveInBucket(t)
      PROVE  slots' = slots /\ \A b \in Buckets : count[b] <= count'[b]
  <2>1. PICK b \in Buckets : count' = [count EXCEPT ![b] = count[b] + 1]
    BY <1>3, ReserveStep
  <2>2. slots' = slots
    BY <1>3, ReserveFrame
  <2>3. QED
    BY <1>1, <1>2, <2>1, <2>2
<1>4. ASSUME NEW t \in Threads, Store(t)
      PROVE  /\ count' = count
             /\ \A b \in Buckets, k \in 1 .. BucketSize :
                  slots[b][k] # NoTuple => slots'[b][k] = slots[b][k]
  <2>1. /\ count' = count /\ pc[t] = "store"
        /\ slots' = [slots EXCEPT ![dest[t][1]][dest[t][2]] = BuildTuple(t)]
    BY <1>4 DEF Store
  <2>2. dest[t] \in Buckets \X (1 .. BucketSize) /\ slots[dest[t][1]][dest[t][2]] = NoTuple
    BY <2>1 DEF DestInv
  <2>3. QED
    BY <1>1, <2>1, <2>2
<1>5. CASE \A t \in Threads :
             ~(ReserveInNewBucket(t) \/ ReserveInOverflow(t) \/ ReserveInBucket(t) \/ Store(t))
  <2>1. count' = count /\ slots' = slots
    <3>1. CASE UNCHANGED vars
      BY <3>1 DEF vars, table
    <3>2. CASE Main
      BY <3>2, MainMoves DEF table
    <3>3. ASSUME NEW t \in Threads, Thread(t)
          PROVE  count' = count /\ slots' = slots
      BY <1>5, <3>3 DEF Thread, Start, BeginBuild, Build, LatchBucket, Inspect,
         UnlatchBucket, EndBuild, BeginProbe, Probe, LookupHit, LookupFollow, LookupMiss,
         LookupFreed, EndProbe, EndProbeUntimed, BeginFree, FreeBuffer, table
    <3>4. QED
      BY <3>1, <3>2, <3>3 DEF Next, Finished
  <2>2. QED
    BY <1>2, <2>1
<1>6. QED
  BY <1>2, <1>3, <1>4, <1>5

-----------------------------------------------------------------------------
(* Every step preserves the placement.                                     *)

LEMMA InsertedFacts ==
  ASSUME TableInv, BornInv, CursorInv, NEW u \in Threads, NEW i \in Inserted(u)
  PROVE  /\ i \in Nat /\ i # NoTuple /\ pc[u] # "unborn"
         /\ \E c \in Nat : c < ShareNum(NumR, u) /\ i = ShareFirst(NumR, u) + c /\ c < StoredNum(u)
<1>1. cur[u] \in Nat /\ args[u].rNum \in Nat /\ args[u].rFirst \in Nat /\ args[u].rFirst > 0
  <2>1. cur \in [Threads -> Nat] /\ args \in [Threads -> Shares]
    BY DEF TableInv, TypeInv, TypeOK
  <2>2. args[u].rNum \in 0 .. NumR /\ args[u].rFirst \in 1 .. (NumR + 1)
    BY <2>1 DEF Shares
  <2>3. QED
    BY <2>1, <2>2, SizeTypes
<1>2. StoredNum(u) \in Nat /\ StoredNum(u) <= args[u].rNum
  BY <1>1 DEF StoredNum, TableInv, TypeInv, LoopInv, CursorInv, Building, Latched
<1>3. PICK c \in 0 .. (StoredNum(u) - 1) : i = args[u].rFirst + c
  BY DEF Inserted
<1>4. pc[u] # "unborn"
  BY <1>2, <1>3 DEF StoredNum
<1>5. args[u].rFirst = ShareFirst(NumR, u) /\ args[u].rNum = ShareNum(NumR, u)
  BY <1>4 DEF BornInv
<1>6. QED
  BY <1>1, <1>2, <1>3, <1>4, <1>5 DEF NoTuple

(* The tuple that a thread is about to store has been stored by nobody. *)
LEMMA BuildTupleNew ==
  ASSUME TableInv, BornInv, CursorInv, NEW t \in Threads, pc[t] = "store"
  PROVE  /\ BuildTuple(t) \in Tuples
         /\ \A u \in Threads : BuildTuple(t) \notin Inserted(u)
<1>1. /\ cur[t] \in Nat /\ cur[t] < args[t].rNum
      /\ args[t].rFirst = ShareFirst(NumR, t) /\ args[t].rNum = ShareNum(NumR, t)
  BY DEF TableInv, TypeInv, TypeOK, LoopInv, Latched, BornInv
<1>2. BuildTuple(t) \in Tuples
  BY <1>1, BuildTupleType DEF TableInv, TypeInv
<1>3. ASSUME NEW u \in Threads, BuildTuple(t) \in Inserted(u)
      PROVE  FALSE
  <2>1. PICK c \in Nat : /\ c < ShareNum(NumR, u) /\ BuildTuple(t) = ShareFirst(NumR, u) + c
                         /\ c < StoredNum(u)
    BY <1>3, InsertedFacts
  <2>2. BuildTuple(t) = ShareFirst(NumR, t) + cur[t]
    BY <1>1 DEF BuildTuple
  <2>3. u = t
    BY <1>1, <2>1, <2>2, SharesApart, SizeTypes
  <2>4. StoredNum(t) = cur[t]
    BY DEF StoredNum, Building, Latched
  <2>5. ShareFirst(NumR, t) \in Nat
    BY ShareTypes, SizeTypes DEF ShareFirst
  <2>6. QED
    BY <1>1, <2>1, <2>2, <2>3, <2>4, <2>5
<1>4. QED
  BY <1>2, <1>3

(* What has been found is found again. *)
LEMMA FoundKept ==
  ASSUME TableInv, PlaceInv, [Next]_vars,
         NEW u \in Threads, NEW i \in Inserted(u)
  PROVE  \E b \in Buckets, k \in 1 .. BucketSize :
           slots'[b][k] = i /\ b \in Chain(BucketOf(relR[i]))'
<1>1. PICK b \in Buckets, k \in 1 .. BucketSize :
        slots[b][k] = i /\ b \in Chain(BucketOf(relR[i]))
  BY DEF PlaceInv, FoundInv
<1>2. i # NoTuple
  BY InsertedFacts DEF PlaceInv
<1>3. slots'[b][k] = i
  BY <1>1, <1>2, SlotsGrow DEF PlaceInv
<1>4. BucketOf(relR[i]) \in Buckets
  <2>1. slots \in [Buckets -> [1 .. BucketSize -> 0 .. NumR]] /\ relR \in [1 .. NumR -> Keys]
    BY DEF TableInv, TypeInv, TypeOK
  <2>2. relR[i] \in Keys
    BY <1>1, <1>2, <2>1, SizeTypes DEF NoTuple
  <2>3. QED
    BY <2>2, BucketOfType DEF Buckets
<1>5. relR' = relR
  <2>1. CASE UNCHANGED vars
    BY <2>1 DEF vars, inputs
  <2>2. CASE Main
    BY <2>2, MainMoves DEF TableInv, inputs
  <2>3. ASSUME NEW t \in Threads, Thread(t)
        PROVE  relR' = relR
    BY <2>3, ThreadMoves DEF TableInv, inputs
  <2>4. QED
    BY <2>1, <2>2, <2>3 DEF Next, Finished
<1>6. QED
  BY <1>1, <1>3, <1>4, <1>5, ChainsGrow

LEMMA ReservePlaceInv ==
  ASSUME TableInv, PlaceInv, NEW t \in Threads,
         ReserveInNewBucket(t) \/ ReserveInOverflow(t) \/ ReserveInBucket(t)
  PROVE  SlotsInv' /\ FoundInv' /\ DestInv'
<1> USE DEF PlaceInv
<1>1. Thread(t) /\ [Next]_vars
  BY DEF Thread, Build, Next
<1>2. PICK b \in Buckets :
        /\ count[b] + 1 \in 1 .. BucketSize
        /\ count' = [count EXCEPT ![b] = count[b] + 1]
        /\ dest' = [dest EXCEPT ![t] = <<b, count[b] + 1>>]
        /\ b = LatchedBucket(t) \/ b = next'[LatchedBucket(t)]
  BY ReserveStep
<1>3. /\ pc[t] = "reserve" /\ pc' = [pc EXCEPT ![t] = "store"] /\ slots' = slots /\ relR' = relR
      /\ \A u \in Threads : LatchedBucket(u)' = LatchedBucket(u)
      /\ pc \in [Threads -> Labels] /\ dest \in [Threads -> (Buckets \cup {NULL}) \X (0 .. BucketSize)]
      /\ count \in [Buckets -> 0 .. BucketSize]
  BY ReserveFrame DEF inputs, TableInv, TypeInv, TypeOK
<1>4. \A u \in Threads : Inserted(u)' = Inserted(u)
  <2>1. \A u \in Threads : ~Store(u)
    BY <1>3 DEF Store, Goto
  <2>2. QED
    BY <1>1, <2>1, InsertedStep
<1>5. /\ \A c \in Buckets : count[c] <= count'[c]
      /\ \A c \in Buckets : count[c] \in Nat /\ count'[c] \in Nat
      /\ count'[b] = count[b] + 1
  <2>1. \A c \in Buckets : count[c] \in Nat
    BY <1>3, SizeTypes
  <2>2. QED
    BY <1>1, <1>2, <1>3, <2>1, SlotsGrow
<1>6. SlotsInv'
  BY <1>3, <1>4, <1>5 DEF SlotsInv
<1>7. FoundInv'
  BY <1>1, <1>3, <1>4, FoundKept DEF FoundInv
<1>8. DestInv'
  <2>1. /\ dest'[t] = <<b, count[b] + 1>> /\ pc'[t] = "store"
        /\ \A u \in Threads \ {t} : dest'[u] = dest[u] /\ pc'[u] = pc[u]
    BY <1>2, <1>3
  <2>2. LatchedBucket(t) \in Buckets
    BY <1>3, ReserveAlone, BucketKinds DEF TableInv
  <2>3. b \in Chain(LatchedBucket(t))'
    <3>1. TypeOK'
      BY <1>1, NextTypeInv DEF TableInv, TypeInv
    <3>2. b # NULL
      BY BucketKinds
    <3>3. \A c \in Buckets : c \in Chain(c)' /\ (next'[c] # NULL => next'[c] \in Chain(c)')
      BY <3>1, ChainFactsNext
    <3>4. QED
      BY <1>2, <1>3, <2>2, <3>2, <3>3
  <2>4. slots[b][count[b] + 1] = NoTuple
    <3>1. ~(count[b] + 1 <= count[b])
      BY <1>5
    <3>2. QED
      BY <1>2, <3>1 DEF SlotsInv
  <2>5. \A u \in Threads \ {t} : pc[u] = "store" =>
          /\ dest[u] \in Buckets \X (1 .. BucketSize)
          /\ dest[u][2] <= count[dest[u][1]] /\ dest[u][2] <= count'[dest[u][1]]
          /\ slots[dest[u][1]][dest[u][2]] = NoTuple
          /\ dest[u][1] \in Chain(LatchedBucket(u))
          /\ LatchedBucket(u) \in Buckets
    <3>1. ASSUME NEW u \in Threads, pc[u] = "store"
          PROVE  /\ dest[u] \in Buckets \X (1 .. BucketSize)
                 /\ dest[u][2] <= count[dest[u][1]] /\ dest[u][2] <= count'[dest[u][1]]
                 /\ slots[dest[u][1]][dest[u][2]] = NoTuple
                 /\ dest[u][1] \in Chain(LatchedBucket(u))
                 /\ LatchedBucket(u) \in Buckets
      <4>1. LatchedBucket(u) \in Buckets
        BY <3>1, BuildTupleType, BucketKinds DEF TableInv, TypeInv, LoopInv, Latched
      <4>2. /\ dest[u] \in Buckets \X (1 .. BucketSize)
            /\ dest[u][2] <= count[dest[u][1]]
            /\ slots[dest[u][1]][dest[u][2]] = NoTuple
            /\ dest[u][1] \in Chain(LatchedBucket(u))
        BY <3>1 DEF DestInv
      <4>3. dest[u][1] \in Buckets /\ dest[u][2] \in Nat
        BY <4>2
      <4>4. QED
        BY <1>5, <4>1, <4>2, <4>3
    <3>2. QED
      BY <3>1
  <2>6. \A u \in Threads \ {t} : pc[u] = "store" => dest[u] # dest'[t]
    <3>1. ASSUME NEW u \in Threads \ {t}, pc[u] = "store", dest[u] = dest'[t]
          PROVE  FALSE
      <4>1. dest[u][1] = b /\ dest[u][2] = count[b] + 1
        BY <2>1, <3>1
      <4>2. dest[u][2] <= count[b]
        BY <2>5, <3>1, <4>1
      <4>3. QED
        BY <1>5, <4>1, <4>2
    <3>2. QED
      BY <3>1
  <2>7. \A u \in Threads \ {t} : pc[u] = "store" => dest[u][1] \in Chain(LatchedBucket(u))'
    BY <1>1, <1>3, <2>5, ChainsGrow
  <2> SUFFICES ASSUME NEW u \in Threads, pc'[u] = "store"
               PROVE  /\ dest'[u] \in Buckets \X (1 .. BucketSize)
                      /\ dest'[u][2] <= count'[dest'[u][1]]
                      /\ slots'[dest'[u][1]][dest'[u][2]] = NoTuple
                      /\ dest'[u][1] \in Chain(LatchedBucket(u))'
                      /\ \A v \in Threads : pc'[v] = "store" /\ dest'[v] = dest'[u] => v = u
    BY DEF DestInv
  <2>8. CASE u = t
    BY <1>2, <1>3, <1>5, <2>1, <2>3, <2>4, <2>6, <2>8
  <2>9. CASE u # t
    <3>1. pc[u] = "store" /\ dest'[u] = dest[u]
      BY <2>1, <2>9
    <3>2. \A v \in Threads : pc'[v] = "store" /\ dest'[v] = dest'[u] => v = u
      BY <2>1, <2>6, <2>9, <3>1 DEF DestInv
    <3>3. QED
      BY <1>3, <2>5, <2>7, <2>9, <3>1, <3>2
  <2>10. QED
    BY <2>8, <2>9
<1>9. QED
  BY <1>6, <1>7, <1>8

LEMMA StorePlaceInv ==
  ASSUME TableInv, PlaceInv, NEW t \in Threads, Store(t)
  PROVE  SlotsInv' /\ FoundInv' /\ DestInv'
<1> DEFINE i == BuildTuple(t)
           b == dest[t][1]
           k == dest[t][2]
<1> USE DEF PlaceInv
<1>1. Thread(t) /\ [Next]_vars
  BY DEF Thread, Build, Next
<1>2. /\ pc[t] = "store" /\ slots' = [slots EXCEPT ![b][k] = i]
      /\ UNCHANGED <<inputs, mainVars, count, next, cur, dest>>
      /\ pc' = [pc EXCEPT ![t] = "unlock"] /\ pc \in [Threads -> Labels]
      /\ slots \in [Buckets -> [1 .. BucketSize -> 0 .. NumR]]
  BY DEF Store, Goto, locals, TableInv, TypeInv, TypeOK
<1>3. /\ dest[t] \in Buckets \X (1 .. BucketSize) /\ k <= count[b] /\ slots[b][k] = NoTuple
      /\ b \in Chain(LatchedBucket(t))
  BY <1>2 DEF DestInv
<1>4. /\ i \in Tuples /\ i # NoTuple /\ \A u \in Threads : i \notin Inserted(u)
  BY <1>2, BuildTupleNew DEF Tuples, NoTuple
<1>5. /\ \A u \in Threads \ {t} : Inserted(u)' = Inserted(u)
      /\ Inserted(t)' = Inserted(t) \cup {i}
  <2>1. \A u \in Threads \ {t} : ~Store(u)
    <3>1. ASSUME NEW u \in Threads \ {t}, Store(u)
          PROVE  FALSE
      <4>1. pc[u] = "store" /\ pc'[u] = "unlock"
        BY <1>2, <3>1 DEF Store, Goto
      <4>2. pc'[u] = pc[u]
        BY <1>2
      <4>3. QED
        BY <4>1, <4>2
    <3>2. QED
      BY <3>1
  <2>2. QED
    BY <1>1, <2>1, InsertedStep
<1>6. b \in Buckets /\ k \in 1 .. BucketSize
  BY <1>3
<1>7. LatchedBucket(t) = BucketOf(relR[i])
  BY DEF LatchedBucket
<1>8. LatchedBucket(t) \in Buckets
  BY <1>4, <1>7, BuildTupleType, BucketKinds, <1>2 DEF TableInv, TypeInv, LoopInv, Latched
<1>9. relR' = relR /\ count' = count /\ next' = next /\ dest' = dest
      /\ \A u \in Threads : LatchedBucket(u)' = LatchedBucket(u)
  BY <1>2 DEF LatchedBucket, BuildTuple, inputs, mainVars
<1> HIDE DEF i, b, k
<1>10. /\ slots'[b][k] = i
       /\ \A c \in Buckets, j \in 1 .. BucketSize :
            c # b \/ j # k => slots'[c][j] = slots[c][j]
  BY <1>2, <1>6
<1>11. \A c \in Buckets, j \in 1 .. BucketSize : slots[c][j] # i
  BY <1>4 DEF SlotsInv
<1>12. SlotsInv'
  <2> SUFFICES ASSUME NEW c \in Buckets, NEW j \in 1 .. BucketSize, slots'[c][j] # NoTuple
               PROVE  /\ j <= count'[c]
                      /\ \E u \in Threads : slots'[c][j] \in Inserted(u)'
                      /\ \A d \in Buckets, l \in 1 .. BucketSize :
                           slots'[d][l] = slots'[c][j] => d = c /\ l = j
    BY DEF SlotsInv
  <2>1. CASE c = b /\ j = k
    BY <1>3, <1>5, <1>9, <1>10, <1>11, <2>1 DEF b, k
  <2>2. CASE c # b \/ j # k
    <3>1. slots'[c][j] = slots[c][j] /\ slots[c][j] # i /\ slots[c][j] # NoTuple
      BY <1>10, <1>11, <2>2
    <3>2. j <= count[c] /\ \E u \in Threads : slots[c][j] \in Inserted(u)
      BY <3>1 DEF SlotsInv
    <3>3. \A d \in Buckets, l \in 1 .. BucketSize : slots[d][l] = slots[c][j] => d = c /\ l = j
      BY <3>1 DEF SlotsInv
    <3>4. \A d \in Buckets, l \in 1 .. BucketSize : slots'[d][l] = slots'[c][j] => d = c /\ l = j
      BY <1>6, <1>10, <3>1, <3>3
    <3>5. \E u \in Threads : slots'[c][j] \in Inserted(u)'
      BY <1>5, <3>1, <3>2
    <3>6. QED
      BY <1>9, <3>2, <3>4, <3>5
  <2>3. QED
    BY <2>1, <2>2
<1>13. FoundInv'
  <2>1. ASSUME NEW u \in Threads, NEW x \in Inserted(u)
        PROVE  \E c \in Buckets, j \in 1 .. BucketSize :
                 slots'[c][j] = x /\ c \in Chain(BucketOf(relR[x]))'
    BY <1>1, FoundKept
  <2>2. PICK x \in Tuples : x = i
    BY <1>4
  <2>3. \E c \in Buckets, j \in 1 .. BucketSize :
          slots'[c][j] = x /\ c \in Chain(BucketOf(relR[x]))'
    <3>1. b \in Chain(LatchedBucket(t))'
      BY <1>1, <1>3, <1>8, <1>9, ChainsGrow DEF b
    <3>2. LatchedBucket(t)' = BucketOf(relR'[x])
      BY <1>7, <1>9, <2>2
    <3>3. b \in Chain(BucketOf(relR[x]))'
      BY <3>1, <3>2
    <3>4. QED
      BY <1>6, <1>10, <2>2, <3>3
  <2>4. \A u \in Threads : \A y \in Inserted(u)' : y \in Inserted(u) \/ y = x
    BY <1>5, <2>2
  <2>5. QED
    BY <2>1, <2>3, <2>4 DEF FoundInv
<1>14. DestInv'
  <2> SUFFICES ASSUME NEW u \in Threads, pc'[u] = "store"
               PROVE  /\ dest'[u] \in Buckets \X (1 .. BucketSize)
                      /\ dest'[u][2] <= count'[dest'[u][1]]
                      /\ slots'[dest'[u][1]][dest'[u][2]] = NoTuple
                      /\ dest'[u][1] \in Chain(LatchedBucket(u))'
                      /\ \A v \in Threads : pc'[v] = "store" /\ dest'[v] = dest'[u] => v = u
    BY DEF DestInv
  <2>1. u # t /\ pc[u] = "store"
    BY <1>2
  <2>2. /\ dest[u] \in Buckets \X (1 .. BucketSize) /\ dest[u][2] <= count[dest[u][1]]
        /\ slots[dest[u][1]][dest[u][2]] = NoTuple /\ dest[u][1] \in Chain(LatchedBucket(u))
        /\ \A v \in Threads : pc[v] = "store" /\ dest[v] = dest[u] => v = u
    BY <2>1 DEF DestInv
  <2>3. dest[u] # dest[t]
    BY <1>2, <2>1, <2>2
  <2>4. dest[u][1] # b \/ dest[u][2] # k
    BY <1>3, <2>2, <2>3 DEF b, k
  <2>5. slots'[dest[u][1]][dest[u][2]] = NoTuple
    BY <1>10, <2>2, <2>4
  <2>6. LatchedBucket(u) \in Buckets
    BY <2>1, BuildTupleType, BucketKinds DEF TableInv, TypeInv, LoopInv, Latched
  <2>7. dest[u][1] \in Chain(LatchedBucket(u))'
    BY <1>1, <1>9, <2>2, <2>6, ChainsGrow
  <2>8. \A v \in Threads : pc'[v] = "store" => pc[v] = "store"
    BY <1>2
  <2>9. QED
    BY <1>9, <2>2, <2>5, <2>7, <2>8
<1>15. QED
  BY <1>12, <1>13, <1>14

(* The steps that neither reserve nor write a slot. *)
LEMMA OtherPlaceInv ==
  ASSUME TableInv, PlaceInv, [Next]_vars,
         \A t \in Threads :
           ~(ReserveInNewBucket(t) \/ ReserveInOverflow(t) \/ ReserveInBucket(t) \/ Store(t))
  PROVE  SlotsInv' /\ FoundInv' /\ DestInv'
<1> USE DEF PlaceInv
<1>1. UNCHANGED <<relR, count, slots, next, dest>>
  <2>1. CASE UNCHANGED vars
    BY <2>1 DEF vars, table, inputs, locals
  <2>2. CASE Main
    BY <2>2, MainMoves DEF TableInv, table, inputs, locals
  <2>3. ASSUME NEW t \in Threads, Thread(t)
        PROVE  UNCHANGED <<relR, count, slots, next, dest>>
    <3>1. UNCHANGED <<count, slots, next, dest>>
      BY <2>3 DEF Thread, Start, BeginBuild, Build, LatchBucket, Inspect,
         UnlatchBucket, EndBuild, BeginProbe, Probe, LookupHit, LookupFollow, LookupMiss,
         LookupFreed, EndProbe, EndProbeUntimed, BeginFree, FreeBuffer, table, locals
    <3>2. relR' = relR
      BY <2>3, ThreadMoves DEF TableInv, inputs
    <3>3. QED
      BY <3>1, <3>2
  <2>4. QED
    BY <2>1, <2>2, <2>3 DEF Next, Finished
<1>2. \A u \in Threads : Inserted(u)' = Inserted(u)
  BY InsertedStep
<1>3. \A u \in Threads : pc'[u] = "store" => pc[u] = "store" /\ LatchedBucket(u)' = LatchedBucket(u)
  <2>1. CASE UNCHANGED vars
    BY <2>1 DEF vars, inputs, mainVars, locals, LatchedBucket, BuildTuple
  <2>2. CASE Main
    <3>1. cur' = cur /\ \A t \in Threads :
            \/ pc'[t] = pc[t] /\ args'[t] = args[t]
            \/ pc[t] = "unborn" /\ pc'[t] = "start"
      BY <2>2, MainMoves DEF TableInv, locals
    <3>2. QED
      BY <1>1, <3>1 DEF LatchedBucket, BuildTuple
  <2>3. ASSUME NEW t \in Threads, Thread(t)
        PROVE  \A u \in Threads :
                 pc'[u] = "store" => pc[u] = "store" /\ LatchedBucket(u)' = LatchedBucket(u)
    <3>1. /\ pc \in [Threads -> Labels] /\ pc' = [pc EXCEPT ![t] = pc'[t]] /\ args' = args
          /\ cur \in [Threads -> Nat]
      BY <2>3, ThreadMoves DEF TableInv, TypeInv, TypeOK, mainVars
    <3>2. pc'[t] # "store" /\ \A u \in Threads \ {t} : cur'[u] = cur[u]
      BY <2>3, <3>1 DEF Thread, Start, BeginBuild, Build, LatchBucket, Inspect, UnlatchBucket,
         EndBuild, BeginProbe, Probe, LookupHit, LookupFollow, LookupMiss, LookupFreed, EndProbe,
         EndProbeUntimed, BeginFree, FreeBuffer, EndLookup, Probing, Goto, locals
    <3>3. QED
      BY <1>1, <3>1, <3>2 DEF LatchedBucket, BuildTuple
  <2>4. QED
    BY <2>1, <2>2, <2>3 DEF Next, Finished
<1>4. SlotsInv'
  BY <1>1, <1>2 DEF SlotsInv
<1>5. FoundInv'
  <2>1. \A u \in Threads : \A i \in Inserted(u) :
          \E b \in Buckets, k \in 1 .. BucketSize :
            slots'[b][k] = i /\ b \in Chain(BucketOf(relR[i]))'
    BY FoundKept
  <2>2. QED
    BY <1>2, <2>1 DEF FoundInv
<1>6. DestInv'
  <2> SUFFICES ASSUME NEW u \in Threads, pc'[u] = "store"
               PROVE  /\ dest'[u] \in Buckets \X (1 .. BucketSize)
                      /\ dest'[u][2] <= count'[dest'[u][1]]
                      /\ slots'[dest'[u][1]][dest'[u][2]] = NoTuple
                      /\ dest'[u][1] \in Chain(LatchedBucket(u))'
                      /\ \A v \in Threads : pc'[v] = "store" /\ dest'[v] = dest'[u] => v = u
    BY DEF DestInv
  <2>1. pc[u] = "store" /\ LatchedBucket(u)' = LatchedBucket(u)
    BY <1>3
  <2>2. /\ dest[u] \in Buckets \X (1 .. BucketSize) /\ dest[u][2] <= count[dest[u][1]]
        /\ slots[dest[u][1]][dest[u][2]] = NoTuple /\ dest[u][1] \in Chain(LatchedBucket(u))
        /\ \A v \in Threads : pc[v] = "store" /\ dest[v] = dest[u] => v = u
    BY <2>1 DEF DestInv
  <2>3. LatchedBucket(u) \in Buckets
    BY <2>1, BuildTupleType, BucketKinds DEF TableInv, TypeInv, LoopInv, Latched
  <2>4. dest[u][1] \in Chain(LatchedBucket(u))'
    BY <2>1, <2>2, <2>3, ChainsGrow
  <2>5. QED
    BY <1>1, <1>3, <2>2, <2>4
<1>7. QED
  BY <1>4, <1>5, <1>6

LEMMA PlaceInvCorrect ==
  ASSUME Arch = "x86"
  PROVE  Spec => [](TableInv /\ PlaceInv)
<1>1. Init => PlaceInv
  <2> SUFFICES ASSUME Init PROVE PlaceInv
    OBVIOUS
  <2>1. /\ \A t \in Threads : pc[t] = "unborn" /\ cur[t] = 0
        /\ \A b \in Buckets, k \in 1 .. BucketSize : slots[b][k] = NoTuple
    BY DEF Init
  <2>2. \A t \in Threads : Inserted(t) = {}
    <3>1. \A c : c \notin 0 .. (0 - 1)
      OBVIOUS
    <3>2. QED
      BY <2>1, <3>1 DEF Inserted, StoredNum
  <2>3. BornInv /\ CursorInv /\ SlotsInv
    BY <2>1 DEF BornInv, CursorInv, SlotsInv
  <2>4. FoundInv
    BY <2>2 DEF FoundInv
  <2>5. DestInv
    BY <2>1 DEF DestInv
  <2>6. QED
    BY <2>3, <2>4, <2>5 DEF PlaceInv
<1>2. TableInv /\ PlaceInv /\ [Next]_vars => PlaceInv'
  <2> SUFFICES ASSUME TableInv, PlaceInv, [Next]_vars
               PROVE  PlaceInv'
    OBVIOUS
  <2>1. BornInv' /\ CursorInv'
    BY NextBornInv DEF PlaceInv
  <2>2. SlotsInv' /\ FoundInv' /\ DestInv'
    BY ReservePlaceInv, StorePlaceInv, OtherPlaceInv
  <2>3. QED
    BY <2>1, <2>2 DEF PlaceInv
<1>3. QED
  BY <1>1, <1>2, TableInvCorrect, PTL DEF Spec

-----------------------------------------------------------------------------
(* The properties.                                                         *)

(* Once somebody is past the build barrier, everybody has inserted all of  *)
(* its share.                                                              *)
LEMMA AllInserted ==
  ASSUME TableInv, PlaceInv, NEW t \in Threads, pc[t] \in ProbingOrLater, NEW i \in Tuples
  PROVE  \E u \in Threads : i \in Inserted(u)
<1>1. PICK u \in Threads : ShareFirst(NumR, u) <= i /\ i < ShareFirst(NumR, u) + ShareNum(NumR, u)
  BY SharesCover, SizeTypes DEF Tuples
<1>2. pc[u] \notin {"unborn", "start", "wait_start"} \cup Building
  BY DEF TableInv, PhaseInv, WaitsBegun, WaitsOver, Building, Latched, ProbingOrLater
<1>3. StoredNum(u) = ShareNum(NumR, u) /\ args[u].rFirst = ShareFirst(NumR, u)
  BY <1>2 DEF StoredNum, Building, Latched, PlaceInv, BornInv
<1>4. i \in Nat /\ ShareFirst(NumR, u) \in Nat /\ ShareNum(NumR, u) \in Nat
  BY ShareTypes, SizeTypes DEF ShareFirst, Tuples
<1>5. /\ i - ShareFirst(NumR, u) \in 0 .. (ShareNum(NumR, u) - 1)
      /\ i = ShareFirst(NumR, u) + (i - ShareFirst(NumR, u))
  BY <1>1, <1>4
<1>6. QED
  BY <1>3, <1>5 DEF Inserted

(* What it means for the slots of a chain to hold a tuple. *)
LEMMA StoredMeans ==
  ASSUME NEW h, NEW i
  PROVE  /\ i \in ChainTuples(h) <=>
              i # NoTuple /\ \E b \in Chain(TableBucket(h)) : \E k \in 1 .. count[b] : slots[b][k] = i
         /\ i \in ChainTuples(h)' <=>
              i # NoTuple /\ \E b \in Chain(TableBucket(h))' :
                               \E k \in 1 .. count'[b] : slots'[b][k] = i
BY DEF ChainTuples, NoTuple

(* As long as nobody frees, no bucket of a chain has been freed, and a     *)
(* walk comes across all that the slots of its chain hold.                 *)
ChainsLive ==
  Intact => \A h \in 0 .. (NumBuckets - 1) :
              /\ \A b \in Chain(TableBucket(h)) : BucketLive(b)
              /\ StoredIn(h) = ChainTuples(h)

LEMMA ChainsLiveHolds == TypeInv /\ MainInv /\ LinkedLive => ChainsLive
<1> SUFFICES ASSUME TypeInv, MainInv, LinkedLive, Intact, NEW h \in 0 .. (NumBuckets - 1)
             PROVE  \A b \in Chain(TableBucket(h)) : BucketLive(b)
  BY DEF ChainsLive, StoredIn
<1>1. next \in [Buckets -> Buckets \cup {NULL}] /\ TableBucket(h) \in TableBuckets
  BY DEF TypeInv, TypeOK, TableBuckets
<1> DEFINE live == {b \in Buckets : b \in TableBuckets \/ LiveOverflow(bufs, b)}
<1>2. TableBucket(h) \in Buckets /\ {TableBucket(h)} \in SUBSET Buckets /\ {TableBucket(h)} \subseteq live
  BY <1>1 DEF Buckets
<1>3. Closed(next, live) /\ live \in SUBSET Buckets
  BY <1>1 DEF LinkedLive, Closed
<1>4. Chain(TableBucket(h)) \subseteq live
  <2>1. Chain(TableBucket(h)) = Reach(next, {TableBucket(h)})
    BY <1>1, <1>2, ChainIsReach
  <2> HIDE DEF live
  <2>2. QED
    BY <1>2, <1>3, <2>1 DEF Reach
<1>5. mainPc # "done"
  <2>1. 0 \in Threads
    BY JoinAssumption DEF Threads
  <2>2. QED
    BY <2>1 DEF MainInv, Intact
<1>6. QED
  BY <1>4, <1>5 DEF BucketLive, Live, TableBuckets, TableBucket, LiveOverflow

LEMMA ChainsLiveCorrect == Spec => []ChainsLive
  BY ChainsLiveHolds, PhaseInvCorrect, PTL

(* With timing compiled in, nobody frees while a thread has tuples to look *)
(* up, nor in the step with which it comes to its third wait.              *)
LEMMA NeededIntact ==
  ASSUME Timing, TypeInv, PhaseInv, StillNeeded
  PROVE  Intact
<1>1. PICK t \in Threads : pc[t] \in Labels \ {"wait_probe", "free", "exited"}
  BY DEF StillNeeded, TypeInv, TypeOK
<1>2. WaitsBegun(t) <= 2
  BY <1>1 DEF WaitsBegun, Labels, Building, Latched, ProbingOrLater
<1>3. \A u \in Threads : pc[u] \in {"free", "exited"} => WaitsOver(u) = 3
  BY DEF WaitsOver, Building, Latched
<1>4. \A u \in Threads : WaitsOver(u) <= WaitsBegun(t)
  BY DEF PhaseInv
<1>5. WaitsBegun(t) \in Nat
  BY DEF WaitsBegun
<1>6. QED
  BY <1>2, <1>3, <1>4, <1>5 DEF Intact

LEMMA NeededStaysIntact ==
  ASSUME Timing, TypeInv, PhaseInv, MainInv, StillNeeded, [Next]_vars
  PROVE  Intact'
<1>1. Intact
  BY NeededIntact
<1>2. CASE UNCHANGED vars
  BY <1>1, <1>2 DEF vars, Intact
<1>3. CASE Main
  BY <1>1, <1>3, MainMoves DEF Intact
<1>4. ASSUME NEW u \in Threads, Thread(u)
      PROVE  Intact'
  <2>1. pc \in [Threads -> Labels] /\ pc' = [pc EXCEPT ![u] = pc'[u]]
    BY <1>4, ThreadMoves DEF TypeInv, TypeOK
  <2>2. CASE pc[u] # "wait_probe"
    <3>1. pc'[u] \notin {"free", "exited"}
      BY <1>1, <1>4, <2>2, ThreadMoves DEF Intact, Building, Latched
    <3>2. QED
      BY <1>1, <2>1, <3>1 DEF Intact
  <2>3. CASE pc[u] = "wait_probe"
    <3>1. PICK t \in Threads : pc[t] \in Labels \ {"wait_probe", "free", "exited"}
      BY DEF StillNeeded, TypeInv, TypeOK
    <3>2. WaitsBegun(t) <= 2 /\ WaitsBegun(t) \in Nat
      BY <3>1 DEF WaitsBegun, Labels, Building, Latched, ProbingOrLater
    <3>3. left[u] = 2
      BY <2>3 DEF PhaseInv, WaitsOver, Building, Latched
    <3>4. left[u] + 1 <= arrived[t]
      <4>1. Sync!Leave(u)
        BY <1>4, <2>3, ThreadMoves DEF Building, Latched
      <4>2. left[u] \in Nat /\ arrived[u] \in Nat /\ arrived[t] \in Nat
        BY DEF TypeInv, TypeOK
      <4>3. QED
        BY <4>1, <4>2 DEF Sync!Leave
    <3>5. QED
      BY <3>2, <3>3, <3>4 DEF PhaseInv
  <2>4. QED
    BY <2>2, <2>3
<1>5. QED
  BY <1>2, <1>3, <1>4 DEF Next, Finished

LEMMA InsertedPlacedOnce ==
  ASSUME TableInv, PlaceInv, NEW u \in Threads, NEW i \in Inserted(u), i \in Tuples
  PROVE  /\ i \in ChainTuples(Hash(relR[i]))
         /\ Intact => Cardinality(PlacesOf(i)) = 1 /\ i \in StoredIn(Hash(relR[i]))
<1>1. PICK b \in Buckets, k \in 1 .. BucketSize :
        slots[b][k] = i /\ b \in Chain(BucketOf(relR[i]))
  BY DEF PlaceInv, FoundInv
<1>2. i # NoTuple
  BY DEF Tuples, NoTuple
<1>3. k <= count[b]
  BY <1>1, <1>2 DEF PlaceInv, SlotsInv
<1>4. \A c \in Buckets, j \in 1 .. BucketSize : slots[c][j] = i => c = b /\ j = k
  BY <1>1, <1>2 DEF PlaceInv, SlotsInv
<1>5. k \in 1 .. count[b]
  <2>1. count[b] \in Nat /\ k \in Nat /\ k >= 1
    BY SizeTypes DEF TableInv, TypeInv, TypeOK
  <2>2. QED
    BY <1>3, <2>1
<1>6. i \in ChainTuples(Hash(relR[i]))
  <2>1. \E c \in Chain(TableBucket(Hash(relR[i]))) : \E j \in 1 .. count[c] : slots[c][j] = i
    BY <1>1, <1>5 DEF BucketOf
  <2>2. QED
    BY <1>2, <2>1, StoredMeans
<1>7. ASSUME Intact
      PROVE  Cardinality(PlacesOf(i)) = 1 /\ i \in StoredIn(Hash(relR[i]))
  <2>1. Hash(relR[i]) \in 0 .. (NumBuckets - 1)
    BY HashInTable, JoinAssumption DEF TableInv, TypeInv, TypeOK, Tuples
  <2>2. BucketLive(b) /\ StoredIn(Hash(relR[i])) = ChainTuples(Hash(relR[i]))
    BY <1>1, <1>7, <2>1, ChainsLiveHolds DEF TableInv, ChainsLive, BucketOf
  <2>3. PlacesOf(i) = {<<b, k>>}
    BY <1>1, <1>3, <1>4, <2>2 DEF PlacesOf
  <2>4. Cardinality(PlacesOf(i)) = 1
    BY <2>3, FS_Singleton
  <2>5. QED
    BY <1>6, <2>2, <2>4
<1>8. QED
  BY <1>6, <1>7

(* Compiled for x86 with timing, for every size of the relations, number   *)
(* of threads, capacity of a bucket and of an overflow buffer: from when   *)
(* the first thread looks a tuple of S up until all have, each tuple of R  *)
(* is in exactly one slot, on the chain that its key is looked up in, and  *)
(* none of these buckets has been freed.                                   *)
THEOREM EveryTuplePlacedOnceCorrect ==
  ASSUME Arch = "x86", Timing
  PROVE  Spec => []EveryTuplePlacedOnce
<1>1. TableInv /\ PlaceInv => EveryTuplePlacedOnce
  BY AllInserted, InsertedPlacedOnce, NeededIntact DEF EveryTuplePlacedOnce, TableInv
<1>2. QED
  BY <1>1, PlaceInvCorrect, PTL

(* Compiled for x86 with timing, no step of any thread takes a tuple out   *)
(* of reach of the walk that comes across it while anything is left to     *)
(* look up: insertions neither overwrite a slot nor cut a chain, no count  *)
(* goes back, and nobody frees a bucket.                                   *)
THEOREM StoredStaysFindableCorrect ==
  ASSUME Arch = "x86", Timing
  PROVE  Spec => StoredStaysFindable
<1>1. TableInv /\ PlaceInv /\ ChainsLive /\ ChainsLive' /\ [Next]_vars
      => (StillNeeded => \A h \in 0 .. (NumBuckets - 1) : StoredIn(h) \subseteq StoredIn(h)')
  <2> SUFFICES ASSUME TableInv, PlaceInv, ChainsLive, ChainsLive', [Next]_vars, StillNeeded,
                      NEW h \in 0 .. (NumBuckets - 1), NEW i \in StoredIn(h)
               PROVE  i \in StoredIn(h)'
    OBVIOUS
  <2>1. TableBucket(h) \in Buckets
    BY DEF Buckets, TableBuckets
  <2>2. StoredIn(h) = ChainTuples(h) /\ StoredIn(h)' = ChainTuples(h)'
    BY NeededIntact, NeededStaysIntact DEF ChainsLive, TableInv
  <2>3. PICK b \in Chain(TableBucket(h)) :
          i # NoTuple /\ \E k \in 1 .. count[b] : slots[b][k] = i
    BY <2>2, StoredMeans
  <2> PICK k \in 1 .. count[b] : slots[b][k] = i
    BY <2>3
  <2>4. b \in Buckets /\ b \in Chain(TableBucket(h))'
    BY <2>1, ChainFacts, ChainsGrow DEF TableInv, TypeInv
  <2>5. count[b] \in 0 .. BucketSize /\ count'[b] \in 0 .. BucketSize
    <3>1. TypeInv'
      BY NextTypeInv DEF TableInv
    <3>2. QED
      BY <2>4, <3>1 DEF TableInv, TypeInv, TypeOK
  <2>6. k \in 1 .. BucketSize
    BY <2>3, <2>5, SizeTypes
  <2>7. slots'[b][k] = i /\ count[b] <= count'[b]
    BY <2>3, <2>4, <2>6, SlotsGrow DEF PlaceInv
  <2>8. k \in 1 .. count'[b]
    BY <2>5, <2>6, <2>7, SizeTypes
  <2>9. QED
    BY <2>2, <2>3, <2>4, <2>7, <2>8, StoredMeans
<1>2. QED
  BY <1>1, PlaceInvCorrect, ChainsLiveCorrect, PTL DEF Spec, StoredStaysFindable

-----------------------------------------------------------------------------
(* The inductive invariant.                                                *)

(* A walk that is at bucket p has not yet passed by the buckets of the     *)
(* chain that hold the key.                                                *)
Ahead(p, key) == \A b \in Chain(BucketOf(key)) : HasKey(b, key) => b \in Chain(p)

ProbeInv ==
  \A t \in Threads :
    /\ pc[t] = "probe" => cur[t] <= args[t].sNum
    /\ Probing(t) => Ahead(probeAt[t], ProbeKey(t, cur[t]))

(* What NPO() has added up are the results of the threads it has joined.   *)
Joined(t) == mainPc \in {"destroy", "done"} \/ (mainPc = "join" /\ t < mainI)

ResultInv == result = SumFunction([t \in Threads |-> IF Joined(t) THEN matches[t] ELSE 0])

(* A thread that came to a freed bucket had a tuple left to look up. *)
LostInv == \A t \in Threads : pc[t] = "undefined" => cur[t] < args[t].sNum

(* What the chains of the table hold is what has been inserted.            *)
Linked == {i \in Tuples : i \in ChainTuples(Hash(relR[i]))}

LinkedIsInserted == Linked = {i \in Tuples : \E u \in Threads : i \in Inserted(u)}

RefInv ==
  /\ TableInv /\ PlaceInv /\ LinkedIsInserted
  /\ ProbeInv /\ LostInv /\ ResultInv

-----------------------------------------------------------------------------
(* Chains, once nobody builds any more.                                    *)

(* A chain is its first bucket and the chain of the next one. *)
LEMMA ChainUnfold ==
  ASSUME TypeOK, NEW b \in Buckets
  PROVE  /\ next[b] = NULL => Chain(b) \subseteq {b}
         /\ next[b] # NULL => Chain(b) \subseteq {b} \cup Chain(next[b])
<1>1. next \in [Buckets -> Buckets \cup {NULL}] /\ {b} \in SUBSET Buckets
  BY DEF TypeOK
<1>2. Chain(b) = Reach(next, {b})
  BY <1>1, ChainIsReach
<1>3. ASSUME next[b] = NULL
      PROVE  Chain(b) \subseteq {b}
  <2>1. Closed(next, {b})
    BY <1>3 DEF Closed
  <2>2. QED
    BY <1>1, <1>2, <2>1 DEF Reach
<1>4. ASSUME next[b] # NULL
      PROVE  Chain(b) \subseteq {b} \cup Chain(next[b])
  <2> DEFINE S == Chain(next[b])
  <2>1. next[b] \in Buckets
    BY <1>1, <1>4
  <2>2. /\ S \subseteq Buckets /\ next[b] \in S
        /\ \A c \in S : next[c] # NULL => next[c] \in S
    BY <2>1, ChainFacts
  <2> HIDE DEF S
  <2>3. {b} \cup S \in SUBSET Buckets /\ Closed(next, {b} \cup S)
    BY <1>1, <2>2 DEF Closed
  <2>4. QED
    BY <1>2, <2>3 DEF Reach, S
<1>5. QED
  BY <1>3, <1>4

(* A step after which somebody is past the build barrier leaves the table  *)
(* and the relations as they are.                                          *)
LEMMA TableStill ==
  ASSUME TypeInv, MainInv, PhaseInv', [Next]_vars, NEW u \in Threads, pc'[u] \in ProbingOrLater
  PROVE  UNCHANGED <<relR, relS, count, slots, next>>
<1>1. \A t \in Threads : pc'[t] \notin Building
  BY DEF PhaseInv, WaitsBegun, WaitsOver, Building, Latched, ProbingOrLater
<1>2. CASE UNCHANGED vars
  BY <1>2 DEF vars, inputs, table
<1>3. CASE Main
  BY <1>3, MainMoves DEF inputs, table
<1>4. ASSUME NEW t \in Threads, Thread(t)
      PROVE  UNCHANGED <<relR, relS, count, slots, next>>
  <2>1. UNCHANGED inputs /\ pc \in [Threads -> Labels]
    BY <1>4, ThreadMoves DEF TypeInv, TypeOK
  <2>2. ~Store(t) /\ ~ReserveInNewBucket(t) /\ ~ReserveInOverflow(t) /\ ~ReserveInBucket(t)
    BY <1>1, <2>1 DEF Store, ReserveInNewBucket, ReserveInOverflow, ReserveInBucket, Goto,
       Building, Latched
  <2>3. UNCHANGED <<count, slots, next>>
    BY <1>4, <2>2 DEF Thread, Start, BeginBuild, Build, LatchBucket, Inspect,
         UnlatchBucket, EndBuild, BeginProbe, Probe, LookupHit, LookupFollow, LookupMiss,
         LookupFreed, EndProbe, EndProbeUntimed, BeginFree, FreeBuffer, table
  <2>4. QED
    BY <2>1, <2>3 DEF inputs
<1>5. QED
  BY <1>2, <1>3, <1>4 DEF Next, Finished

(* A step of a thread leaves the other threads where they are. *)
LEMMA OthersStill ==
  ASSUME TypeInv, NEW t \in Threads, Thread(t)
  PROVE  /\ UNCHANGED <<inputs, mainVars>>
         /\ \A u \in Threads \ {t} :
              /\ pc'[u] = pc[u] /\ cur'[u] = cur[u]
              /\ probeAt'[u] = probeAt[u] /\ matches'[u] = matches[u]
<1>1. UNCHANGED <<inputs, mainVars>> /\ pc' = [pc EXCEPT ![t] = pc'[t]]
  BY ThreadMoves
<1>2. /\ pc \in [Threads -> Labels] /\ cur \in [Threads -> Nat] /\ matches \in [Threads -> Nat]
      /\ probeAt \in [Threads -> Buckets \cup {NULL}]
  BY DEF TypeInv, TypeOK
<1>3. /\ \E c : cur' = [cur EXCEPT ![t] = c]
      /\ \E p : probeAt' = [probeAt EXCEPT ![t] = p]
      /\ \E m : matches' = [matches EXCEPT ![t] = m]
  <2>1. CASE UNCHANGED <<cur, probeAt, matches>>
    BY <1>2, <2>1
  <2>2. CASE UnlatchBucket(t)
    BY <1>2, <2>2 DEF UnlatchBucket
  <2>3. CASE BeginProbe(t)
    BY <1>2, <2>3 DEF BeginProbe
  <2>4. CASE LookupHit(t) \/ LookupMiss(t)
    BY <1>2, <2>4 DEF LookupHit, LookupMiss, EndLookup
  <2>5. CASE LookupFollow(t)
    BY <1>2, <2>5 DEF LookupFollow
  <2>6. CASE ~(UnlatchBucket(t) \/ BeginProbe(t) \/ LookupHit(t) \/ LookupMiss(t)
               \/ LookupFollow(t))
    <3>1. UNCHANGED <<cur, probeAt, matches>>
      BY <2>6 DEF Thread, Start, BeginBuild, Build, LatchBucket, Inspect, ReserveInNewBucket,
         ReserveInOverflow, ReserveInBucket, Store, EndBuild, Probe, LookupFreed, EndProbe,
         EndProbeUntimed, BeginFree, FreeBuffer, locals
    <3>2. QED
      BY <2>1, <3>1
  <2>7. QED
    BY <2>1, <2>2, <2>3, <2>4, <2>5, <2>6
<1>4. PICK c, p, m : /\ cur' = [cur EXCEPT ![t] = c] /\ probeAt' = [probeAt EXCEPT ![t] = p]
                     /\ matches' = [matches EXCEPT ![t] = m]
  BY <1>3
<1>5. ASSUME NEW u \in Threads \ {t}
      PROVE  /\ pc'[u] = pc[u] /\ cur'[u] = cur[u]
             /\ probeAt'[u] = probeAt[u] /\ matches'[u] = matches[u]
  BY <1>1, <1>2, <1>4
<1>6. QED
  BY <1>1, <1>5

-----------------------------------------------------------------------------
(* Every step preserves the invariant.                                     *)

(* A walk that goes on from a bucket without the key misses nothing. *)
LEMMA AheadFollow ==
  ASSUME TypeOK, NEW p \in Buckets, NEW key, Ahead(p, key), ~HasKey(p, key), next[p] # NULL
  PROVE  Ahead(next[p], key)
BY ChainUnfold DEF Ahead

LEMMA ProbeKeyType ==
  ASSUME TypeInv, NEW t \in Threads, NEW c \in Nat, c < args[t].sNum
  PROVE  /\ args[t].sFirst + c \in 1 .. NumS
         /\ ProbeKey(t, c) \in Keys /\ BucketOf(ProbeKey(t, c)) \in Buckets
<1>1. args \in [Threads -> Shares] /\ relS \in [1 .. NumS -> Keys]
  BY DEF TypeInv, TypeOK
<1>2. args[t].sFirst \in 1 .. (NumS + 1) /\ args[t].sNum \in 0 .. NumS
  BY <1>1 DEF Shares
<1>3. args[t].sFirst + c \in 1 .. NumS
  BY <1>2, SizeTypes DEF TypeInv, ShareInv
<1>4. QED
  BY <1>1, <1>3, BucketOfType DEF ProbeKey, Buckets

LEMMA NextProbeInv ==
  ASSUME RefInv, TableInv', [Next]_vars
  PROVE  ProbeInv'
<1>1. TypeInv /\ TypeOK /\ MainInv /\ ProbeInv /\ TypeInv' /\ PhaseInv' /\ TypeOK'
  BY DEF RefInv, TableInv, TypeInv
<1> SUFFICES ASSUME NEW t \in Threads, pc'[t] = "probe"
             PROVE  /\ cur'[t] <= args'[t].sNum
                    /\ cur'[t] < args'[t].sNum => Ahead(probeAt[t], ProbeKey(t, cur[t]))'
  BY DEF ProbeInv, Probing
<1>2. UNCHANGED <<relR, relS, count, slots, next>>
  BY <1>1, TableStill DEF ProbingOrLater
<1>3. ASSUME NEW p \in Buckets, NEW key \in Keys
      PROVE  Ahead(p, key)' <=> Ahead(p, key)
  <2>1. \A b \in Buckets : Chain(b)' = Chain(b)
    BY <1>2 DEF Chain
  <2>2. \A b \in Buckets : HasKey(b, key)' <=> HasKey(b, key)
    BY <1>2 DEF HasKey
  <2>3. BucketOf(key) \in Buckets
    BY BucketOfType DEF Buckets
  <2>4. Chain(BucketOf(key)) \subseteq Buckets /\ Chain(BucketOf(key))' = Chain(BucketOf(key))
    BY <1>1, <2>1, <2>3, ChainFacts
  <2>5. QED
    BY <2>1, <2>2, <2>4 DEF Ahead
<1>4. ASSUME NEW c \in Nat, cur'[t] = c, args'[t] = args[t], probeAt'[t] = LookupStart(t, c),
             c <= args[t].sNum
      PROVE  /\ cur'[t] <= args'[t].sNum
             /\ cur'[t] < args'[t].sNum => Ahead(probeAt[t], ProbeKey(t, cur[t]))'
  <2>1. ASSUME c < args[t].sNum
        PROVE  Ahead(probeAt[t], ProbeKey(t, cur[t]))'
    <3>1. BucketOf(ProbeKey(t, cur[t]))' = probeAt'[t]
      BY <1>2, <1>4, <2>1 DEF LookupStart, ProbeKey
    <3>2. QED
      BY <3>1 DEF Ahead
  <2>2. QED
    BY <1>4, <2>1
<1>5. ASSUME pc[t] = "probe", cur'[t] = cur[t], args'[t] = args[t],
             probeAt'[t] = probeAt[t] \/ LookupFollow(t)
      PROVE  /\ cur'[t] <= args'[t].sNum
             /\ cur'[t] < args'[t].sNum => Ahead(probeAt[t], ProbeKey(t, cur[t]))'
  <2>1. cur'[t] <= args'[t].sNum
    BY <1>1, <1>5 DEF ProbeInv
  <2>2. ASSUME cur[t] < args[t].sNum
        PROVE  Ahead(probeAt[t], ProbeKey(t, cur[t]))'
    <3>1. Probing(t) /\ Ahead(probeAt[t], ProbeKey(t, cur[t])) /\ cur[t] \in Nat
      BY <1>1, <1>5, <2>2 DEF Probing, ProbeInv, TypeOK
    <3>2. PICK key \in Keys : key = ProbeKey(t, cur[t])
      BY <1>1, <2>2, <3>1, ProbeKeyType
    <3>3. key = ProbeKey(t, cur[t])'
      BY <1>2, <1>5, <3>2 DEF ProbeKey
    <3>4. probeAt[t] \in Buckets
      BY <1>1, <3>1 DEF TypeInv, LoopInv
    <3>5. PICK p \in Buckets : p = probeAt'[t] /\ Ahead(p, key)
      <4>1. CASE probeAt'[t] = probeAt[t]
        BY <3>1, <3>2, <3>4, <4>1
      <4>2. CASE LookupFollow(t)
        <5>1. /\ ~HasKey(probeAt[t], key) /\ next[probeAt[t]] # NULL
              /\ probeAt' = [probeAt EXCEPT ![t] = next[probeAt[t]]]
          BY <3>2, <4>2 DEF LookupFollow
        <5>2. /\ probeAt \in [Threads -> Buckets \cup {NULL}]
              /\ next \in [Buckets -> Buckets \cup {NULL}]
          BY <1>1 DEF TypeOK
        <5>3. probeAt'[t] = next[probeAt[t]] /\ next[probeAt[t]] \in Buckets
          BY <3>4, <5>1, <5>2
        <5>4. Ahead(next[probeAt[t]], key)
          BY <1>1, <3>1, <3>2, <3>4, <5>1, AheadFollow
        <5>5. QED
          BY <5>3, <5>4
      <4>3. QED
        BY <1>5, <4>1, <4>2
    <3>6. Ahead(p, key)'
      BY <1>3, <3>5
    <3>7. QED
      BY <3>3, <3>5, <3>6
  <2>3. QED
    BY <1>5, <2>1, <2>2
<1>6. CASE UNCHANGED vars
  BY <1>5, <1>6 DEF vars, mainVars, locals
<1>7. CASE Main
  <2>1. UNCHANGED locals /\ pc'[t] = pc[t] /\ args'[t] = args[t]
    BY <1>1, <1>7, MainMoves
  <2>2. QED
    BY <1>5, <2>1 DEF locals
<1>8. ASSUME NEW u \in Threads, Thread(u)
      PROVE  /\ cur'[t] <= args'[t].sNum
             /\ cur'[t] < args'[t].sNum => Ahead(probeAt[t], ProbeKey(t, cur[t]))'
  <2>1. UNCHANGED mainVars /\ args' = args
    BY <1>1, <1>8, OthersStill DEF mainVars
  <2>2. CASE u # t
    BY <1>1, <1>5, <1>8, <2>1, <2>2, OthersStill
  <2>3. CASE u = t
    <3>1. /\ pc \in [Threads -> Labels] /\ cur \in [Threads -> Nat]
          /\ probeAt \in [Threads -> Buckets \cup {NULL}] /\ args[t].sNum \in Nat
      <4>1. args \in [Threads -> Shares]
        BY <1>1 DEF TypeOK
      <4>2. args[t].sNum \in 0 .. NumS
        BY <4>1 DEF Shares
      <4>3. args[t].sNum \in Nat
        BY <4>2, SizeTypes
      <4>4. QED
        BY <1>1, <4>3 DEF TypeOK
    <3>2. CASE BeginProbe(t)
      <4>1. cur'[t] = 0 /\ probeAt'[t] = LookupStart(t, 0)
        BY <3>1, <3>2 DEF BeginProbe
      <4>2. QED
        BY <1>4, <2>1, <3>1, <4>1
    <3>3. CASE LookupHit(t) \/ LookupMiss(t)
      <4>1. /\ cur'[t] = cur[t] + 1 /\ probeAt'[t] = LookupStart(t, cur[t] + 1)
            /\ cur[t] < args[t].sNum
        BY <3>1, <3>3 DEF LookupHit, LookupMiss, EndLookup, Probing
      <4>2. QED
        BY <1>4, <2>1, <3>1, <4>1
    <3>4. CASE LookupFollow(t)
      BY <1>5, <2>1, <3>4 DEF LookupFollow, Probing
    <3>5. CASE ~(BeginProbe(t) \/ LookupHit(t) \/ LookupMiss(t) \/ LookupFollow(t))
      <4>1. pc'[t] # "probe"
        BY <1>8, <2>3, <3>1, <3>5 DEF Thread, Start, BeginBuild, Build, LatchBucket, Inspect,
           ReserveInNewBucket, ReserveInOverflow, ReserveInBucket, Store, UnlatchBucket,
           EndBuild, Probe, LookupFreed, EndProbe, EndProbeUntimed, BeginFree, FreeBuffer, Goto
      <4>2. QED
        BY <4>1
    <3>6. QED
      BY <3>2, <3>3, <3>4, <3>5
  <2>4. QED
    BY <2>2, <2>3
<1>9. QED
  BY <1>6, <1>7, <1>8 DEF Next, Finished

LEMMA NextLostInv ==
  ASSUME TypeInv, MainInv, LostInv, [Next]_vars
  PROVE  LostInv'
<1> SUFFICES ASSUME NEW t \in Threads, pc'[t] = "undefined"
             PROVE  cur'[t] < args'[t].sNum
  BY DEF LostInv
<1>1. CASE UNCHANGED vars
  BY <1>1 DEF vars, mainVars, locals, LostInv
<1>2. CASE Main
  BY <1>2, MainMoves DEF LostInv, locals
<1>3. ASSUME NEW u \in Threads, Thread(u)
      PROVE  cur'[t] < args'[t].sNum
  <2>1. args' = args
    BY <1>3, OthersStill DEF mainVars
  <2>2. CASE u # t
    BY <1>3, <2>1, <2>2, OthersStill DEF LostInv
  <2>3. CASE u = t
    <3>1. LookupFreed(t)
      BY <1>3, <2>3 DEF TypeInv, TypeOK, Thread, Start, BeginBuild, Build, LatchBucket, Inspect,
         ReserveInNewBucket, ReserveInOverflow, ReserveInBucket, Store, UnlatchBucket, EndBuild,
         BeginProbe, Probe, LookupHit, LookupFollow, LookupMiss, EndProbe, EndProbeUntimed,
         BeginFree, FreeBuffer, Probing, Goto
    <3>2. QED
      BY <2>1, <3>1 DEF LookupFreed, Probing, locals
  <2>4. QED
    BY <2>2, <2>3
<1>4. QED
  BY <1>1, <1>2, <1>3 DEF Next, Finished

LEMMA ThreadsFinite == IsFiniteSet(Threads)
<1>1. \A a, b \in Int : IsFiniteSet(a .. b)
  BY FS_Interval
<1>2. NThreads - 1 \in Int
  BY JoinAssumption
<1>3. QED
  BY <1>1, <1>2 DEF Threads

LEMMA NextResultInv ==
  ASSUME TypeInv, MainInv, ResultInv, [Next]_vars
  PROVE  ResultInv'
<1> DEFINE old == [t \in Threads |-> IF Joined(t) THEN matches[t] ELSE 0]
           new == [t \in Threads |-> IF Joined(t)' THEN matches'[t] ELSE 0]
<1>1. /\ matches \in [Threads -> Nat] /\ mainI \in Threads /\ old \in [Threads -> Nat]
      /\ NThreads \in Nat /\ \A t \in Threads : t \in Nat /\ t <= NThreads - 1
  BY JoinAssumption, SMTT(30) DEF TypeInv, TypeOK, Threads
<1>2. result = SumFunction(old)
  BY DEF ResultInv
<1>3. ASSUME result' = SumFunction(new)
      PROVE  ResultInv'
  BY <1>3 DEF ResultInv
<1>4. ASSUME result' = result, \A t \in Threads : Joined(t)' <=> Joined(t),
             \A t \in Threads : Joined(t) => matches'[t] = matches[t]
      PROVE  ResultInv'
  <2>1. new = old
    BY <1>4
  <2>2. QED
    BY <1>2, <1>3, <1>4, <2>1
<1>5. CASE UNCHANGED vars
  BY <1>4, <1>5 DEF vars, mainVars, locals, Joined
<1>6. CASE Spawn
  <2>1. /\ result' = result /\ mainPc = "spawn"
        /\ mainPc' = "spawn" \/ (mainPc' = "join" /\ mainI' = 0)
    BY <1>6 DEF Spawn
  <2>2. \A t \in Threads : ~Joined(t) /\ ~Joined(t)'
    BY <1>1, <2>1 DEF Joined
  <2>3. QED
    BY <1>4, <2>1, <2>2
<1>7. CASE Join
  <2>1. /\ mainPc = "join" /\ result' = result + matches[mainI] /\ matches' = matches
        /\ \/ mainI = NThreads - 1 /\ mainPc' = "destroy"
           \/ mainI # NThreads - 1 /\ mainPc' = "join" /\ mainI' = mainI + 1
    BY <1>7 DEF Join, locals
  <2>2. \A t \in Threads : Joined(t) <=> t < mainI
    BY <2>1 DEF Joined
  <2>3. \A t \in Threads : Joined(t)' <=> t <= mainI
    BY <1>1, <2>1 DEF Joined
  <2>4. old[mainI] = 0
    BY <1>1, <2>2
  <2>5. new = [old EXCEPT ![mainI] = matches[mainI]]
    <3>1. \A t \in Threads : new[t] = IF t = mainI THEN matches[mainI] ELSE old[t]
      BY <1>1, <2>1, <2>2, <2>3
    <3>2. QED
      BY <3>1
  <2> HIDE DEF old, new
  <2>6. SumFunction(old) \in Nat /\ SumFunction(new) = SumFunction(old) - 0 + matches[mainI]
    <3>1. matches[mainI] \in Nat
      BY <1>1
    <3>2. /\ SumFunction(old) \in Nat
          /\ SumFunction([old EXCEPT ![mainI] = matches[mainI]])
               = SumFunction(old) - old[mainI] + matches[mainI]
      BY <1>1, <3>1, SumChange, ThreadsFinite
    <3>3. QED
      BY <2>4, <2>5, <3>2
  <2>7. result' = SumFunction(new)
    BY <1>1, <1>2, <2>1, <2>6
  <2>8. QED
    BY <1>3, <2>7
<1>8. CASE Destroy
  BY <1>4, <1>8 DEF Destroy, Joined, locals
<1>9. ASSUME NEW t \in Threads, Thread(t)
      PROVE  ResultInv'
  <2>1. UNCHANGED mainVars /\ \A u \in Threads \ {t} : matches'[u] = matches[u]
    BY <1>9, OthersStill
  <2>2. pc[t] # "exited"
    BY <1>9 DEF Thread, Start, BeginBuild, Build, LatchBucket, Inspect, ReserveInNewBucket,
       ReserveInOverflow, ReserveInBucket, Store, UnlatchBucket, EndBuild, BeginProbe, Probe,
       LookupHit, LookupFollow, LookupMiss, LookupFreed, EndProbe, EndProbeUntimed, BeginFree,
       FreeBuffer, Probing
  <2>3. ~Joined(t)
    BY <2>2 DEF Joined, MainInv
  <2>4. QED
    BY <1>4, <2>1, <2>3 DEF mainVars, Joined
<1>10. QED
  BY <1>5, <1>6, <1>7, <1>8, <1>9 DEF Next, Finished, Main

LEMMA LinkedIsInsertedHolds == TableInv /\ PlaceInv => LinkedIsInserted
<1> SUFFICES ASSUME TableInv, PlaceInv, NEW i \in Tuples
             PROVE  i \in ChainTuples(Hash(relR[i])) <=> \E u \in Threads : i \in Inserted(u)
  BY DEF LinkedIsInserted, Linked
<1>1. ASSUME i \in ChainTuples(Hash(relR[i]))
      PROVE  \E u \in Threads : i \in Inserted(u)
  <2>1. PICK b \in Chain(BucketOf(relR[i])) :
          i # NoTuple /\ \E k \in 1 .. count[b] : slots[b][k] = i
    BY <1>1, StoredMeans DEF BucketOf
  <2>2. PICK k \in 1 .. count[b] : slots[b][k] = i
    BY <2>1
  <2>3. BucketOf(relR[i]) \in Buckets
    BY BucketOfType DEF TableInv, TypeInv, TypeOK, Tuples, Buckets
  <2>4. b \in Buckets
    BY <2>1, <2>3, ChainFacts DEF TableInv, TypeInv
  <2>5. count \in [Buckets -> 0 .. BucketSize]
    BY DEF TableInv, TypeInv, TypeOK
  <2>6. count[b] \in 0 .. BucketSize
    BY <2>4, <2>5
  <2>7. k \in 1 .. BucketSize
    BY <2>6, SizeTypes
  <2>8. QED
    BY <2>1, <2>2, <2>4, <2>7 DEF PlaceInv, SlotsInv
<1>2. QED
  BY <1>1, InsertedPlacedOnce

LEMMA RefInvCorrect ==
  ASSUME Arch = "x86"
  PROVE  Spec => []RefInv
<1>1. Init => ProbeInv /\ LostInv /\ ResultInv
  <2> SUFFICES ASSUME Init
               PROVE  ProbeInv /\ LostInv /\ ResultInv
    OBVIOUS
  <2>1. ProbeInv /\ LostInv
    BY DEF Init, ProbeInv, LostInv, Probing
  <2>2. \A t \in Threads : ~Joined(t)
    BY DEF Init, Joined
  <2>3. [t \in Threads |-> IF Joined(t) THEN matches[t] ELSE 0] = [t \in Threads |-> 0]
    BY <2>2
  <2>4. ResultInv
    BY <2>3, SumZero, ThreadsFinite DEF Init, ResultInv
  <2>5. QED
    BY <2>1, <2>4
<1>2. RefInv /\ TableInv' /\ [Next]_vars => ProbeInv' /\ LostInv' /\ ResultInv'
  BY NextProbeInv, NextLostInv, NextResultInv DEF RefInv, TableInv
<1>3. QED
  BY <1>1, <1>2, LinkedIsInsertedHolds, PlaceInvCorrect, PTL DEF Spec, RefInv

-----------------------------------------------------------------------------
(* What the steps do to what HashJoin sees.                                *)

Probed == UNION {LookedUp(t) : t \in Threads}
Answer == IF mainPc = "done" THEN result ELSE -1

EndsLookup(t) == LookupHit(t) \/ LookupMiss(t)

(* Only Store puts a tuple in a chain. *)
LEMMA LinkedStep ==
  ASSUME RefInv, LinkedIsInserted', [Next]_vars
  PROVE  /\ (\A t \in Threads : ~Store(t)) => Linked' = Linked
         /\ \A t \in Threads : Store(t) => Linked' = Linked \cup {BuildTuple(t)}
<1>1. /\ Linked = {i \in Tuples : \E u \in Threads : i \in Inserted(u)}
      /\ Linked' = {i \in Tuples : \E u \in Threads : i \in Inserted(u)'}
  BY DEF RefInv, LinkedIsInserted
<1>2. \A u \in Threads :
        /\ ~Store(u) => Inserted(u)' = Inserted(u)
        /\ Store(u) => Inserted(u)' = Inserted(u) \cup {BuildTuple(u)}
  BY InsertedStep DEF RefInv, PlaceInv
<1>3. ASSUME NEW t \in Threads, Store(t)
      PROVE  Linked' = Linked \cup {BuildTuple(t)}
  <2>1. TypeInv /\ Thread(t) /\ pc[t] = "store"
    BY <1>3 DEF RefInv, TableInv, Thread, Build, Store
  <2>2. \A u \in Threads \ {t} : ~Store(u)
    <3>1. pc \in [Threads -> Labels] /\ \A u \in Threads \ {t} : pc'[u] = pc[u]
      BY <2>1, OthersStill DEF TypeInv, TypeOK
    <3>2. \A u \in Threads : Store(u) => pc[u] = "store" /\ pc'[u] = "unlock"
      BY <3>1 DEF Store, Goto
    <3>3. QED
      BY <3>1, <3>2
  <2>3. BuildTuple(t) \in Tuples
    BY <2>1, BuildTupleNew DEF RefInv, PlaceInv
  <2>4. QED
    BY <1>1, <1>2, <1>3, <2>2, <2>3
<1>4. QED
  BY <1>1, <1>2, <1>3

(* The end of a lookup adds its tuple to those that have been looked up;   *)
(* no other step of a thread changes them.                                 *)
LEMMA LookedUpStep ==
  ASSUME RefInv, NEW t \in Threads, Thread(t)
  PROVE  /\ \A u \in Threads \ {t} : LookedUp(u)' = LookedUp(u)
         /\ EndsLookup(t) => LookedUp(t)' = LookedUp(t) \cup {args[t].sFirst + cur[t]}
         /\ ~EndsLookup(t) => LookedUp(t)' = LookedUp(t)
<1>1. /\ TypeInv /\ ProbeInv /\ UNCHANGED args
      /\ \A u \in Threads \ {t} : pc'[u] = pc[u] /\ cur'[u] = cur[u]
  BY OthersStill DEF RefInv, TableInv, mainVars
<1>2. \A u \in Threads \ {t} : LookedUp(u)' = LookedUp(u)
  BY <1>1 DEF LookedUp
<1>3. PICK a, n \in Nat : a = args[t].sFirst /\ n = args[t].sNum
  <2>1. args \in [Threads -> Shares]
    BY <1>1 DEF TypeInv, TypeOK
  <2>2. args[t].sFirst \in 1 .. (NumS + 1) /\ args[t].sNum \in 0 .. NumS
    BY <2>1 DEF Shares
  <2>3. QED
    BY <2>2, SizeTypes
<1>4. pc \in [Threads -> Labels] /\ cur \in [Threads -> Nat]
  BY <1>1 DEF TypeInv, TypeOK
<1>5. /\ LookedUp(t) = IF pc[t] \in {"probe", "undefined"} THEN a .. (a + cur[t] - 1)
                       ELSE IF pc[t] \in ProbingOrLater THEN a .. (a + n - 1) ELSE {}
      /\ LookedUp(t)' = IF pc'[t] \in {"probe", "undefined"} THEN a .. (a + cur'[t] - 1)
                        ELSE IF pc'[t] \in ProbingOrLater THEN a .. (a + n - 1) ELSE {}
  BY <1>1, <1>3 DEF LookedUp
<1>6. ASSUME EndsLookup(t)
      PROVE  LookedUp(t)' = LookedUp(t) \cup {args[t].sFirst + cur[t]}
  <2>1. pc[t] = "probe" /\ pc'[t] = "probe" /\ cur'[t] = cur[t] + 1
    BY <1>4, <1>6 DEF EndsLookup, LookupHit, LookupMiss, EndLookup, Probing
  <2>2. QED
    BY <1>3, <1>4, <1>5, <2>1, SMTT(30)
<1>7. ASSUME ~EndsLookup(t)
      PROVE  LookedUp(t)' = LookedUp(t)
  <2>1. CASE BeginProbe(t)
    <3>1. pc[t] = "wait_build" /\ pc'[t] = "probe" /\ cur'[t] = 0
      BY <1>4, <2>1 DEF BeginProbe, Goto
    <3>2. a .. (a + 0 - 1) = {}
      BY <1>3
    <3>3. QED
      BY <1>5, <3>1, <3>2 DEF ProbingOrLater
  <2>2. CASE LookupFollow(t)
    BY <1>5, <2>2 DEF LookupFollow
  <2>3. CASE EndProbe(t) \/ EndProbeUntimed(t)
    <3>1. pc[t] = "probe" /\ cur[t] = n /\ pc'[t] \in {"wait_probe", "free"}
      BY <1>3, <1>4, <2>3 DEF EndProbe, EndProbeUntimed, Goto
    <3>2. QED
      BY <1>5, <3>1 DEF ProbingOrLater
  <2>4. CASE LookupFreed(t)
    <3>1. pc[t] = "probe" /\ pc'[t] = "undefined" /\ cur' = cur
      BY <1>4, <2>4 DEF LookupFreed, Probing, Goto, locals
    <3>2. QED
      BY <1>5, <3>1
  <2>5. CASE ~(BeginProbe(t) \/ LookupFollow(t) \/ LookupFreed(t) \/ EndProbe(t)
               \/ EndProbeUntimed(t))
    <3>1. \/ /\ pc[t] \notin {"undefined"} \cup ProbingOrLater
             /\ pc'[t] \notin {"undefined"} \cup ProbingOrLater
          \/ pc[t] \in ProbingOrLater \ {"probe"} /\ pc'[t] \in ProbingOrLater \ {"probe"}
      BY <1>4, <1>7, <2>5 DEF Thread, Start, BeginBuild, Build, LatchBucket, Inspect,
         ReserveInNewBucket, ReserveInOverflow, ReserveInBucket, Store, UnlatchBucket, EndBuild,
         Probe, BeginFree, FreeBuffer, Goto, ProbingOrLater, EndsLookup
    <3>2. QED
      BY <1>5, <3>1 DEF ProbingOrLater
  <2>6. QED
    BY <2>1, <2>2, <2>3, <2>4, <2>5
<1>8. QED
  BY <1>2, <1>6, <1>7

(* Only the end of a lookup counts a match. *)
LEMMA MatchesStill ==
  ASSUME NEW t \in Threads, Thread(t), ~EndsLookup(t)
  PROVE  UNCHANGED matches
BY DEF Thread, Start, BeginBuild, Build, LatchBucket, Inspect, ReserveInNewBucket,
   ReserveInOverflow, ReserveInBucket, Store, UnlatchBucket, EndBuild, BeginProbe, Probe,
   LookupFollow, LookupFreed, EndProbe, EndProbeUntimed, BeginFree, FreeBuffer, EndsLookup, locals

(* NPO() itself inserts nothing and looks nothing up. *)
LEMMA MainStill ==
  ASSUME RefInv, Main
  PROVE  /\ UNCHANGED <<relR, relS, matches>>
         /\ \A t \in Threads : LookedUp(t)' = LookedUp(t) /\ ~Store(t)
<1>1. /\ UNCHANGED <<inputs, locals>>
      /\ \A t \in Threads : \/ pc'[t] = pc[t] /\ args'[t] = args[t]
                            \/ pc[t] = "unborn" /\ pc'[t] = "start"
  BY MainMoves DEF RefInv, TableInv
<1>2. ASSUME NEW t \in Threads
      PROVE  LookedUp(t)' = LookedUp(t)
  BY <1>1, <1>2 DEF LookedUp, ProbingOrLater, locals
<1>3. ASSUME NEW t \in Threads
      PROVE  ~Store(t)
  <2>1. pc \in [Threads -> Labels]
    BY DEF RefInv, TableInv, TypeInv, TypeOK
  <2>2. Store(t) => pc[t] = "store" /\ pc'[t] = "unlock"
    BY <2>1 DEF Store, Goto
  <2>3. QED
    BY <1>1, <2>2
<1>4. QED
  BY <1>1, <1>2, <1>3 DEF inputs, locals

(* Once somebody looks up, the chains are complete. *)
LEMMA ChainsReady ==
  ASSUME RefInv, NEW t \in Threads, pc[t] \in ProbingOrLater
  PROVE  Linked = 1 .. NumR
BY AllInserted DEF RefInv, LinkedIsInserted, Tuples

(* While somebody builds, nobody has looked anything up. *)
LEMMA NothingProbed ==
  ASSUME RefInv, NEW t \in Threads, pc[t] \in Building
  PROVE  Probed = {}
<1>1. \A u \in Threads : pc[u] \notin ProbingOrLater
  BY BuildAlone DEF RefInv, TableInv
<1>2. \A u \in Threads : pc[u] # "undefined"
  BY DEF RefInv, TableInv, PhaseInv, WaitsBegun, WaitsOver, Building, Latched
<1>3. \A u \in Threads : LookedUp(u) = {}
  BY <1>1, <1>2 DEF LookedUp, ProbingOrLater
<1>4. QED
  BY <1>3 DEF Probed

(* The tuple of S that is about to be looked up has not been before. *)
LEMMA NotProbed ==
  ASSUME RefInv, NEW t \in Threads, Probing(t)
  PROVE  args[t].sFirst + cur[t] \in (1 .. NumS) \ Probed
<1>1. /\ TypeInv /\ BornInv /\ ProbeInv /\ LostInv /\ pc[t] = "probe" /\ cur[t] < args[t].sNum
      /\ cur \in [Threads -> Nat]
  BY DEF RefInv, TableInv, PlaceInv, TypeInv, TypeOK, Probing
<1>2. args[t].sFirst + cur[t] \in 1 .. NumS
  BY <1>1, ProbeKeyType
<1>3. ASSUME NEW u \in Threads, args[t].sFirst + cur[t] \in LookedUp(u)
      PROVE  FALSE
  <2>1. pc[u] \in {"undefined"} \cup ProbingOrLater
    BY <1>3 DEF LookedUp, ProbingOrLater
  <2>2. /\ args[t].sFirst = ShareFirst(NumS, t) /\ args[t].sNum = ShareNum(NumS, t)
        /\ args[u].sFirst = ShareFirst(NumS, u) /\ args[u].sNum = ShareNum(NumS, u)
    BY <1>1, <2>1 DEF BornInv, ProbingOrLater
  <2>3. /\ NumS \in Nat /\ ShareFirst(NumS, u) \in Nat /\ ShareNum(NumS, u) \in Nat
        /\ ShareFirst(NumS, t) \in Nat
    BY SizeTypes, ShareTypes DEF ShareFirst
  <2>4. PICK n \in Nat : /\ LookedUp(u) = args[u].sFirst .. (args[u].sFirst + n - 1)
                         /\ n <= args[u].sNum /\ (pc[u] = "probe" => n = cur[u])
    <3>1. CASE pc[u] \in {"probe", "undefined"}
      BY <1>1, <2>2, <2>3, <3>1 DEF LookedUp, ProbeInv, LostInv
    <3>2. CASE pc[u] \notin {"probe", "undefined"}
      BY <2>1, <2>2, <2>3, <3>2 DEF LookedUp
    <3>3. QED
      BY <3>1, <3>2
  <2>5. PICK d \in Nat : d < n /\ args[t].sFirst + cur[t] = args[u].sFirst + d
    <3>1. cur[t] \in Nat
      BY <1>1
    <3> DEFINE d == args[t].sFirst + cur[t] - args[u].sFirst
    <3>2. d \in Nat /\ d < n /\ args[t].sFirst + cur[t] = args[u].sFirst + d
      BY <1>3, <2>2, <2>3, <2>4, <3>1
    <3>3. QED
      BY <3>2
  <2>6. cur[t] \in Nat /\ d < ShareNum(NumS, u) /\ cur[t] < ShareNum(NumS, t)
        /\ ShareFirst(NumS, t) + cur[t] = ShareFirst(NumS, u) + d
    BY <1>1, <2>2, <2>3, <2>4, <2>5
  <2>7. t = u
    BY <2>3, <2>6, SharesApart
  <2>8. QED
    BY <1>1, <2>2, <2>3, <2>4, <2>5, <2>7
<1>4. QED
  BY <1>2, <1>3 DEF Probed

(* A walk finds the key just if some tuple of R has it. *)
LEMMA LookupSound ==
  ASSUME RefInv, NEW t \in Threads, Probing(t)
  PROVE  /\ HasKey(probeAt[t], ProbeKey(t, cur[t])) =>
              Abstract!Found(args[t].sFirst + cur[t])
         /\ ~HasKey(probeAt[t], ProbeKey(t, cur[t])) /\ next[probeAt[t]] = NULL =>
              ~Abstract!Found(args[t].sFirst + cur[t])
<1>1. /\ TypeInv /\ TypeOK /\ pc[t] = "probe" /\ cur[t] < args[t].sNum /\ cur[t] \in Nat
      /\ probeAt[t] \in Buckets /\ Ahead(probeAt[t], ProbeKey(t, cur[t]))
  BY DEF RefInv, TableInv, TypeInv, TypeOK, LoopInv, ProbeInv, Probing
<1>2. PICK key \in Keys : key = ProbeKey(t, cur[t])
  BY <1>1, ProbeKeyType
<1>3. Abstract!Found(args[t].sFirst + cur[t]) <=> \E i \in 1 .. NumR : relR[i] = key
  BY <1>2 DEF Abstract!Found, ProbeKey
<1>4. ASSUME HasKey(probeAt[t], key)
      PROVE  \E i \in 1 .. NumR : relR[i] = key
  <2>1. PICK k \in 1 .. count[probeAt[t]] :
          slots[probeAt[t]][k] # NoTuple /\ relR[slots[probeAt[t]][k]] = key
    BY <1>4 DEF HasKey
  <2>2. count \in [Buckets -> 0 .. BucketSize] /\ slots \in [Buckets -> [1 .. BucketSize -> 0 .. NumR]]
    BY <1>1 DEF TypeOK
  <2>3. count[probeAt[t]] \in 0 .. BucketSize
    BY <1>1, <2>2
  <2>4. k \in 1 .. BucketSize
    BY <2>3, SizeTypes
  <2>5. slots[probeAt[t]][k] \in 0 .. NumR
    BY <1>1, <2>2, <2>4
  <2>6. slots[probeAt[t]][k] \in 1 .. NumR
    BY <2>1, <2>5, SizeTypes DEF NoTuple
  <2>7. QED
    BY <2>1, <2>6
<1>5. ASSUME ~HasKey(probeAt[t], key), next[probeAt[t]] = NULL, NEW i \in 1 .. NumR, relR[i] = key
      PROVE  FALSE
  <2>1. i \in ChainTuples(Hash(relR[i]))
    BY <1>1, ChainsReady DEF ProbingOrLater, Linked
  <2>2. PICK b \in Chain(BucketOf(key)) :
          i # NoTuple /\ \E k \in 1 .. count[b] : slots[b][k] = i
    BY <1>5, <2>1, StoredMeans DEF BucketOf
  <2>3. HasKey(b, key)
    BY <1>5, <2>2 DEF HasKey
  <2>4. b \in Chain(probeAt[t])
    BY <1>1, <1>2, <2>2, <2>3 DEF Ahead
  <2>5. b = probeAt[t]
    BY <1>1, <1>5, <2>4, ChainUnfold
  <2>6. QED
    BY <1>5, <2>3, <2>5
<1>6. QED
  BY <1>2, <1>3, <1>4, <1>5

-----------------------------------------------------------------------------
(* What has been counted.                                                  *)

LEMMA ProbedInS == RefInv => Probed \subseteq 1 .. NumS
<1> SUFFICES ASSUME RefInv, NEW t \in Threads, NEW j \in LookedUp(t)
             PROVE  j \in 1 .. NumS
  BY DEF Probed
<1>1. /\ args[t].sFirst \in 1 .. (NumS + 1) /\ args[t].sNum \in 0 .. NumS
      /\ args[t].sFirst + args[t].sNum <= NumS + 1 /\ cur[t] \in Nat
  <2>1. args[t] \in Shares
    BY DEF RefInv, TableInv, TypeInv, TypeOK
  <2>2. QED
    BY <2>1 DEF RefInv, TableInv, TypeInv, TypeOK, ShareInv, Shares
<1>2. CASE pc[t] \in {"probe", "undefined"}
  <2>1. cur[t] <= args[t].sNum
    BY <1>1, <1>2 DEF RefInv, ProbeInv, LostInv
  <2>2. QED
    BY <1>1, <1>2, <2>1, SizeTypes DEF LookedUp
<1>3. CASE pc[t] \notin {"probe", "undefined"}
  BY <1>1, <1>3, SizeTypes DEF LookedUp
<1>4. QED
  BY <1>2, <1>3

(* When all threads are past their lookups, S has been looked up. *)
LEMMA AllProbed ==
  ASSUME RefInv, \A t \in Threads : pc[t] \in {"wait_probe", "free", "exited"}
  PROVE  Probed = 1 .. NumS
<1>1. \A t \in Threads : /\ LookedUp(t) = args[t].sFirst .. (args[t].sFirst + args[t].sNum - 1)
                         /\ args[t].sFirst = ShareFirst(NumS, t) /\ args[t].sNum = ShareNum(NumS, t)
  BY DEF LookedUp, ProbingOrLater, RefInv, PlaceInv, BornInv
<1>2. NumS \in Nat /\ \A t \in Threads : ShareFirst(NumS, t) \in Nat /\ ShareNum(NumS, t) \in Nat
  BY SizeTypes, ShareTypes DEF ShareFirst
<1>3. ASSUME NEW j \in 1 .. NumS
      PROVE  j \in Probed
  <2>1. PICK t \in Threads : ShareFirst(NumS, t) <= j /\ j < ShareFirst(NumS, t) + ShareNum(NumS, t)
    BY <1>2, SharesCover
  <2>2. j \in LookedUp(t)
    BY <1>1, <1>2, <2>1
  <2>3. QED
    BY <2>2 DEF Probed
<1>4. QED
  BY <1>3, ProbedInS

(* When all threads have been joined, their results have been added up. *)
LEMMA ResultIsSum ==
  ASSUME RefInv, mainPc \in {"destroy", "done"}
  PROVE  result = SumFunction(matches)
<1>1. matches \in [Threads -> Nat] /\ \A t \in Threads : Joined(t)
  BY DEF RefInv, TableInv, TypeInv, TypeOK, Joined
<1>2. [t \in Threads |-> IF Joined(t) THEN matches[t] ELSE 0] = matches
  BY <1>1
<1>3. QED
  BY <1>2 DEF RefInv, ResultInv

(* The end of a lookup counts its tuple just if it has a partner in R. *)
LEMMA LookupCounts ==
  ASSUME RefInv, NEW t \in Threads, EndsLookup(t), NEW j, j = args[t].sFirst + cur[t]
  PROVE  /\ j \in (1 .. NumS) \ Probed
         /\ Probed' = Probed \cup {j}
         /\ UNCHANGED <<inputs, mainVars, table, bufs, pc>>
         /\ SumFunction(matches') =
              IF Abstract!Found(j) THEN SumFunction(matches) + 1 ELSE SumFunction(matches)
<1>1. /\ TypeInv /\ Thread(t) /\ Probing(t) /\ matches \in [Threads -> Nat]
      /\ UNCHANGED <<inputs, mainVars, table, bufs, pc>>
  BY DEF RefInv, TableInv, TypeInv, TypeOK, Thread, Probe, EndsLookup, LookupHit, LookupMiss
<1>2. j \in (1 .. NumS) \ Probed
  BY <1>1, NotProbed
<1>3. Probed' = Probed \cup {j}
  <2>1. /\ \A u \in Threads \ {t} : LookedUp(u)' = LookedUp(u)
        /\ LookedUp(t)' = LookedUp(t) \cup {j}
    BY <1>1, LookedUpStep
  <2>2. QED
    BY <2>1 DEF Probed
<1>4. CASE LookupHit(t)
  <2>1. Abstract!Found(j)
    BY <1>1, <1>4, LookupSound DEF LookupHit
  <2>2. matches' = [matches EXCEPT ![t] = matches[t] + 1] /\ matches[t] \in Nat
    BY <1>1, <1>4 DEF LookupHit, EndLookup
  <2>3. matches[t] + 1 \in Nat
    BY <2>2
  <2>4. /\ SumFunction(matches) \in Nat
        /\ SumFunction([matches EXCEPT ![t] = matches[t] + 1])
             = SumFunction(matches) - matches[t] + (matches[t] + 1)
    BY <1>1, <2>3, SumChange, ThreadsFinite
  <2>5. SumFunction(matches') = SumFunction(matches) + 1
    BY <2>2, <2>4
  <2>6. QED
    BY <1>1, <1>2, <1>3, <2>1, <2>5
<1>5. CASE LookupMiss(t)
  <2>1. ~Abstract!Found(j)
    BY <1>1, <1>5, LookupSound DEF LookupMiss
  <2>2. matches' = matches
    BY <1>5 DEF LookupMiss, EndLookup
  <2>3. QED
    BY <1>1, <1>2, <1>3, <2>1, <2>2
<1>6. QED
  BY <1>4, <1>5 DEF EndsLookup

(* Any other step counts nothing. *)
LEMMA NothingCounted ==
  ASSUME RefInv, [Next]_vars, \A t \in Threads : ~EndsLookup(t)
  PROVE  UNCHANGED <<relR, relS, Probed, matches>>
<1>1. CASE UNCHANGED vars
  BY <1>1 DEF vars, inputs, mainVars, locals, Probed, LookedUp
<1>2. CASE Main
  BY <1>2, MainStill DEF Probed
<1>3. ASSUME NEW t \in Threads, Thread(t)
      PROVE  UNCHANGED <<relR, relS, Probed, matches>>
  <2>1. UNCHANGED <<inputs, matches>>
    BY <1>3, OthersStill, MatchesStill DEF RefInv, TableInv
  <2>2. \A u \in Threads : LookedUp(u)' = LookedUp(u)
    BY <1>3, LookedUpStep
  <2>3. QED
    BY <2>1, <2>2 DEF inputs, Probed
<1>4. QED
  BY <1>1, <1>2, <1>3 DEF Next, Finished

(* The results of the threads together are the number of tuples looked up  *)
(* that have a partner.                                                    *)
Partnered == {j \in Probed : Abstract!Found(j)}

CountInv == SumFunction(matches) = Cardinality(Partnered)

LEMMA PartneredFinite == RefInv => IsFiniteSet(Partnered)
<1> SUFFICES ASSUME RefInv
             PROVE  IsFiniteSet(Partnered)
  OBVIOUS
<1>1. IsFiniteSet(1 .. NumS) /\ Partnered \subseteq 1 .. NumS
  BY FS_Interval, SizeTypes, ProbedInS DEF Partnered
<1>2. QED
  BY <1>1, FS_Subset

LEMMA NextCountInv ==
  ASSUME RefInv, CountInv, [Next]_vars
  PROVE  CountInv'
<1>1. ASSUME NEW t \in Threads, EndsLookup(t)
      PROVE  CountInv'
  <2> DEFINE j == args[t].sFirst + cur[t]
  <2>1. /\ j \notin Probed /\ Probed' = Probed \cup {j}
        /\ relR' = relR /\ relS' = relS
        /\ SumFunction(matches') =
             IF Abstract!Found(j) THEN SumFunction(matches) + 1 ELSE SumFunction(matches)
    BY <1>1, LookupCounts DEF inputs
  <2> HIDE DEF j
  <2>2. \A k : Abstract!Found(k)' <=> Abstract!Found(k)
    BY <2>1 DEF Abstract!Found
  <2>3. CASE Abstract!Found(j)
    <3>1. Partnered' = Partnered \cup {j} /\ j \notin Partnered
      BY <2>1, <2>2, <2>3 DEF Partnered
    <3>2. Cardinality(Partnered') = Cardinality(Partnered) + 1
      BY <3>1, PartneredFinite, FS_AddElement
    <3>3. QED
      BY <2>1, <2>3, <3>2 DEF CountInv
  <2>4. CASE ~Abstract!Found(j)
    <3>1. Partnered' = Partnered
      BY <2>1, <2>2, <2>4 DEF Partnered
    <3>2. QED
      BY <2>1, <2>4, <3>1 DEF CountInv
  <2>5. QED
    BY <2>3, <2>4
<1>2. CASE \A t \in Threads : ~EndsLookup(t)
  <2>1. UNCHANGED <<relR, relS, Probed, matches>>
    BY <1>2, NothingCounted
  <2>2. Partnered' = Partnered
    BY <2>1 DEF Partnered, Abstract!Found
  <2>3. QED
    BY <2>1, <2>2 DEF CountInv
<1>3. QED
  BY <1>1, <1>2

(* Compiled for x86, with or without timing: if NPO() returns, it returns  *)
(* the number of tuples of S that have a partner in R.  Without timing a   *)
(* lookup may come to a freed bucket, and nothing is said from there on.   *)
THEOREM CountsMatchesCorrect ==
  ASSUME Arch = "x86"
  PROVE  Spec => []CountsMatches
<1>1. Init => CountInv
  <2> SUFFICES ASSUME Init
               PROVE  CountInv
    OBVIOUS
  <2>1. Partnered = {}
    BY DEF Init, Partnered, Probed, LookedUp, ProbingOrLater
  <2>2. SumFunction(matches) = 0
    BY SumZero, ThreadsFinite DEF Init
  <2>3. QED
    BY <2>1, <2>2, FS_EmptySet DEF CountInv
<1>2. RefInv /\ CountInv /\ [Next]_vars => CountInv'
  BY NextCountInv
<1>3. RefInv /\ CountInv => CountsMatches
  <2> SUFFICES ASSUME RefInv, CountInv, mainPc = "done"
               PROVE  result = Cardinality({j \in 1 .. NumS : \E i \in Tuples : relR[i] = relS[j]})
    BY DEF CountsMatches
  <2>1. \A t \in Threads : pc[t] = "exited"
    BY DEF RefInv, TableInv, MainInv
  <2>2. Partnered = {j \in 1 .. NumS : \E i \in Tuples : relR[i] = relS[j]}
    BY <2>1, AllProbed DEF Partnered, Abstract!Found, Tuples
  <2>3. QED
    BY <2>2, ResultIsSum DEF CountInv
<1>4. QED
  BY <1>1, <1>2, <1>3, RefInvCorrect, PTL DEF Spec

-----------------------------------------------------------------------------
(* Every step is one of HashJoin, or none.                                 *)

LEMMA InitMaps == Init => Abstract!JoinInit
<1> SUFFICES ASSUME Init
             PROVE  Abstract!JoinInit
  OBVIOUS
<1>1. InTable = {}
  <2>1. ASSUME NEW i \in Tuples, i \in StoredIn(Hash(relR[i]))
        PROVE  FALSE
    <3>1. PICK b \in Chain(TableBucket(Hash(relR[i]))) :
            i # NoTuple /\ \E k \in 1 .. count[b] : slots[b][k] = i
      BY <2>1, StoredMeans DEF StoredIn
    <3>2. TypeOK
      BY InitTypeInv DEF TypeInv
    <3>3. BucketOf(relR[i]) \in Buckets
      BY <3>2, BucketOfType DEF TypeOK, Tuples, Buckets
    <3>4. b \in Buckets
      BY <3>1, <3>2, <3>3, ChainFacts DEF BucketOf
    <3>5. count[b] = 0
      BY <3>4 DEF Init
    <3>6. QED
      BY <3>1, <3>5
  <2>2. QED
    BY <2>1 DEF InTable
<1>2. UNION {LookedUp(t) : t \in Threads} = {}
  <2>1. \A t \in Threads : LookedUp(t) = {}
    BY DEF Init, LookedUp, ProbingOrLater
  <2>2. QED
    BY <2>1
<1>3. SumFunction(matches) = 0
  BY SumZero, ThreadsFinite DEF Init
<1>4. (IF mainPc = "done" THEN result ELSE -1) = -1
  BY DEF Init
<1>5. QED
  BY <1>1, <1>2, <1>3, <1>4 DEF Init, Abstract!JoinInit

(* What HashJoin sees of the table depends on these alone. *)
LEMMA InTableFrame ==
  ASSUME UNCHANGED <<relR, count, slots, next, bufs>>, mainPc' = "done" <=> mainPc = "done"
  PROVE  InTable' = InTable
<1>1. \A b : BucketLive(b)' <=> BucketLive(b)
  BY DEF BucketLive, Live
<1>2. \A h : Chain(TableBucket(h))' = Chain(TableBucket(h))
  BY DEF Chain
<1>3. \A h : StoredIn(h)' = StoredIn(h)
  BY <1>1, <1>2 DEF StoredIn, ChainTuples
<1>4. QED
  BY <1>3 DEF InTable

(* As long as nobody frees, it is what the chains hold. *)
LinkedVisible == Intact => InTable = Linked

LEMMA LinkedVisibleHolds == TypeInv /\ ChainsLive => LinkedVisible
<1> SUFFICES ASSUME TypeInv, ChainsLive, Intact, NEW i \in Tuples
             PROVE  StoredIn(Hash(relR[i])) = ChainTuples(Hash(relR[i]))
  BY DEF LinkedVisible, InTable, Linked
<1>1. Hash(relR[i]) \in 0 .. (NumBuckets - 1)
  BY HashInTable, JoinAssumption DEF TypeInv, TypeOK, Tuples
<1>2. QED
  BY <1>1 DEF ChainsLive

(* What the proof of a step knows of the states before and after it. *)
StepInv == LinkedIsInserted /\ LinkedVisible

TimedInv == RefInv /\ StepInv /\ NoUseAfterFree

(* *dest = rel->tuples[i] inserts the tuple. *)
LEMMA StoreMaps ==
  ASSUME TimedInv, StepInv', [Next]_vars, NEW t \in Threads, Store(t)
  PROVE  Abstract!Insert(BuildTuple(t)) /\ BuildTuple(t) \in 1 .. NumR
<1>1. /\ RefInv /\ TypeInv /\ Thread(t) /\ pc[t] = "store" /\ ~EndsLookup(t)
      /\ pc \in [Threads -> Labels] /\ pc' = [pc EXCEPT ![t] = "unlock"]
  BY DEF TimedInv, RefInv, TableInv, TypeInv, TypeOK, Thread, Build, Store, Goto, EndsLookup,
     LookupHit, LookupMiss, Probing
<1>2. /\ BuildTuple(t) \in Tuples /\ \A u \in Threads : BuildTuple(t) \notin Inserted(u)
  BY <1>1, BuildTupleNew DEF RefInv, PlaceInv
<1>3. Intact /\ Intact'
  <2>1. \A u \in Threads : pc[u] \notin ProbingOrLater
    BY <1>1, BuildAlone DEF RefInv, TableInv, Building, Latched
  <2>2. QED
    BY <1>1, <2>1 DEF Intact, ProbingOrLater
<1>4. BuildTuple(t) \notin InTable /\ InTable' = InTable \cup {BuildTuple(t)}
  <2>1. InTable = Linked /\ InTable' = Linked'
    BY <1>3 DEF TimedInv, StepInv, LinkedVisible
  <2>2. BuildTuple(t) \notin Linked
    BY <1>1, <1>2 DEF RefInv, LinkedIsInserted
  <2>3. Linked' = Linked \cup {BuildTuple(t)}
    BY <1>1, LinkedStep DEF StepInv
  <2>4. QED
    BY <2>1, <2>2, <2>3
<1>5. Probed = {}
  BY <1>1, NothingProbed DEF Building, Latched
<1>6. UNCHANGED <<relR, relS, Probed, matches, Answer>>
  <2>1. UNCHANGED <<inputs, mainVars, matches>>
    BY <1>1, OthersStill, MatchesStill
  <2>2. \A u \in Threads : LookedUp(u)' = LookedUp(u)
    BY <1>1, LookedUpStep
  <2>3. QED
    BY <2>1, <2>2 DEF inputs, mainVars, Probed, Answer
<1>7. QED
  BY <1>2, <1>4, <1>5, <1>6 DEF Abstract!Insert, Tuples, Probed, Answer

(* The end of a lookup looks the tuple up, in a complete table. *)
LEMMA LookupMaps ==
  ASSUME Timing, TimedInv, [Next]_vars, NEW t \in Threads, EndsLookup(t)
  PROVE  /\ args[t].sFirst + cur[t] \in 1 .. NumS
         /\ Abstract!Lookup(args[t].sFirst + cur[t])
<1> DEFINE j == args[t].sFirst + cur[t]
<1>1. RefInv /\ pc[t] = "probe"
  BY DEF TimedInv, EndsLookup, LookupHit, LookupMiss, Probing
<1>2. /\ j \in (1 .. NumS) \ Probed
      /\ Probed' = Probed \cup {j}
      /\ UNCHANGED <<inputs, mainVars, table, bufs, pc>>
      /\ SumFunction(matches') =
           IF Abstract!Found(j) THEN SumFunction(matches) + 1 ELSE SumFunction(matches)
  BY <1>1, LookupCounts
<1> HIDE DEF j
<1>3. InTable = 1 .. NumR
  <2>1. Intact
    BY <1>1, ProbeAlone DEF RefInv, TableInv
  <2>2. QED
    BY <1>1, <2>1, ChainsReady DEF TimedInv, StepInv, LinkedVisible, ProbingOrLater
<1>4. InTable' = InTable
  BY <1>2, InTableFrame DEF inputs, mainVars, table
<1>5. UNCHANGED <<relR, relS, Answer>>
  BY <1>2 DEF inputs, mainVars, Answer
<1>6. Abstract!Lookup(j)
  BY <1>2, <1>3, <1>4, <1>5 DEF Abstract!Lookup, Probed, Answer
<1>7. QED
  BY <1>2, <1>6 DEF j

(* A buffer that is freed is one that nothing is looked up in any more. *)
LEMMA FreeMaps ==
  ASSUME Timing, TimedInv, [Next]_vars, NEW t \in Threads, FreeBuffer(t)
  PROVE  Abstract!Discard
<1>1. /\ RefInv /\ TypeInv /\ PhaseInv /\ Thread(t) /\ pc[t] = "free" /\ ~EndsLookup(t)
      /\ UNCHANGED <<inputs, mainVars, table, matches>>
      /\ bufs' = [bufs EXCEPT ![t] = Tail(bufs[t])]
  BY DEF TimedInv, RefInv, TableInv, Thread, FreeBuffer, EndsLookup, LookupHit, LookupMiss,
     Probing, locals
<1>2. \A u \in Threads : pc[u] \in {"wait_probe", "free", "exited"}
  <2>1. ~Intact
    BY <1>1 DEF Intact
  <2>2. QED
    BY <1>1, <2>1, NeededIntact DEF StillNeeded
<1>3. Probed = 1 .. NumS
  BY <1>1, <1>2, AllProbed
<1>4. Probed' = Probed
  BY <1>1, LookedUpStep DEF Probed
<1>5. InTable' \subseteq InTable
  <2>1. /\ bufs \in [Threads -> Seq(0 .. OverflowBufSize)]
        /\ bufs[t] # <<>>
    BY <1>1 DEF TypeInv, TypeOK, BufferInv
  <2>2. Len(Tail(bufs[t])) <= Len(bufs[t]) /\ Len(Tail(bufs[t])) \in Nat /\ Len(bufs[t]) \in Nat
    BY <2>1
  <2>3. \A b \in Buckets : BucketLive(b)' => BucketLive(b)
    <3>1. ASSUME NEW b \in OverflowBuckets, BucketLive(b)'
          PROVE  BucketLive(b)
      <4>1. b[1] \in Nat \ {0} /\ b[2] \in Threads
        BY DEF OverflowBuckets
      <4>2. b[1] <= Len(bufs'[b[2]])
        BY <3>1, <4>1 DEF BucketLive, Live
      <4>3. b[1] <= Len(bufs[b[2]])
        BY <1>1, <2>1, <2>2, <4>1, <4>2
      <4>4. QED
        BY <4>1, <4>3 DEF BucketLive, Live
    <3>2. ASSUME NEW b \in TableBuckets
          PROVE  BucketLive(b)' <=> BucketLive(b)
      BY <1>1 DEF BucketLive, TableBuckets, TableBucket, mainVars
    <3>3. QED
      BY <3>1, <3>2 DEF Buckets
  <2>4. ASSUME NEW h \in 0 .. (NumBuckets - 1)
        PROVE  StoredIn(h)' \subseteq StoredIn(h)
    <3>1. TableBucket(h) \in Buckets
      BY DEF Buckets, TableBuckets
    <3>2. Chain(TableBucket(h)) \subseteq Buckets
      BY <1>1, <3>1, ChainFacts DEF TypeInv
    <3>3. Chain(TableBucket(h))' = Chain(TableBucket(h)) /\ ChainTuples(h)' = ChainTuples(h)
      BY <1>1 DEF Chain, ChainTuples, table
    <3>4. QED
      BY <2>3, <3>2, <3>3 DEF StoredIn
  <2>5. \A i \in Tuples : Hash(relR[i]) \in 0 .. (NumBuckets - 1) /\ relR' = relR
    BY <1>1, HashInTable, JoinAssumption DEF TypeInv, TypeOK, Tuples, inputs
  <2>6. QED
    BY <2>4, <2>5 DEF InTable
<1>6. QED
  BY <1>1, <1>3, <1>4, <1>5 DEF Abstract!Discard, Probed, Answer, inputs, mainVars

(* destroy_hashtable() and the return of NPO() report the result. *)
LEMMA DestroyMaps ==
  ASSUME TimedInv, [Next]_vars, Destroy
  PROVE  Abstract!Report
<1>1. /\ RefInv /\ TypeInv /\ Main /\ mainPc = "destroy" /\ mainPc' = "done"
      /\ result' = result /\ next' = next /\ relR' = relR
      /\ \A t \in Threads : pc[t] = "exited"
  BY DEF TimedInv, RefInv, TableInv, MainInv, Main, Destroy, table, inputs
<1>2. Probed = 1 .. NumS
  BY <1>1, AllProbed
<1>3. UNCHANGED <<relR, relS, matches, Probed>>
  BY <1>1, MainStill DEF Probed
<1>4. InTable' = {}
  <2>1. ASSUME NEW i \in Tuples
        PROVE  StoredIn(Hash(relR[i]))' = {}
    <3>1. Hash(relR[i]) \in 0 .. (NumBuckets - 1)
      BY <1>1, HashInTable, JoinAssumption DEF TypeInv, TypeOK, Tuples
    <3> DEFINE b == TableBucket(Hash(relR[i]))
    <3>2. b \in Buckets
      BY <3>1 DEF Buckets, TableBuckets
    <3>3. b \in Chain(b)
      BY <1>1, <3>2, ChainFacts DEF TypeInv
    <3>4. b' = b /\ Chain(b)' = Chain(b)
      BY <1>1 DEF Chain
    <3>5. ~BucketLive(b)'
      BY <1>1 DEF BucketLive, TableBucket
    <3> HIDE DEF b
    <3>6. QED
      BY <3>3, <3>4, <3>5 DEF StoredIn, b
  <2>2. QED
    BY <2>1 DEF InTable
<1>5. result = SumFunction(matches)
  BY <1>1, ResultIsSum
<1>6. QED
  BY <1>1, <1>2, <1>3, <1>4, <1>5 DEF Abstract!Report, Probed

(* The other steps change nothing that HashJoin sees. *)
LEMMA OthersMap ==
  ASSUME Timing, TimedInv, StepInv', [Next]_vars, ~Destroy,
         \A t \in Threads : ~Store(t) /\ ~EndsLookup(t) /\ ~FreeBuffer(t)
  PROVE  UNCHANGED <<relR, relS, InTable, Probed, matches, Answer>>
<1> RefInv
  BY DEF TimedInv
<1>1. UNCHANGED <<relR, relS, Probed, matches>>
  BY NothingCounted
<1>2. CASE UNCHANGED vars
  <2>1. InTable' = InTable
    BY <1>2, InTableFrame DEF vars, inputs, mainVars, table
  <2>2. QED
    BY <1>1, <1>2, <2>1 DEF vars, mainVars, Answer
<1>3. CASE Spawn \/ Join
  <2>1. mainPc # "done" /\ mainPc' # "done" /\ UNCHANGED <<inputs, table, bufs>>
    BY <1>3 DEF Spawn, Join
  <2>2. InTable' = InTable
    BY <2>1, InTableFrame DEF inputs, table
  <2>3. QED
    BY <1>1, <2>1, <2>2 DEF Answer
<1>4. ASSUME NEW t \in Threads, Thread(t)
      PROVE  UNCHANGED <<relR, relS, InTable, Probed, matches, Answer>>
  <2>1. /\ UNCHANGED mainVars /\ TypeInv /\ PhaseInv
        /\ pc \in [Threads -> Labels] /\ pc' = [pc EXCEPT ![t] = pc'[t]]
    BY <1>4, ThreadMoves DEF RefInv, TableInv, TypeInv, TypeOK
  <2>2. CASE BeginFree(t)
    <3>1. InTable' = InTable
      BY <1>1, <2>1, <2>2, InTableFrame DEF BeginFree, mainVars, table
    <3>2. QED
      BY <1>1, <2>1, <3>1 DEF Answer, mainVars
  <2>3. CASE ~BeginFree(t)
    <3>1. pc[t] \notin {"wait_probe", "free", "exited"}
      BY <1>4, <2>3 DEF Thread, Start, BeginBuild, Build, LatchBucket, Inspect,
         ReserveInNewBucket, ReserveInOverflow, ReserveInBucket, Store, UnlatchBucket, EndBuild,
         BeginProbe, Probe, LookupHit, LookupFollow, LookupMiss, LookupFreed, EndProbe,
         EndProbeUntimed, Probing
    <3>2. StillNeeded
      BY <3>1 DEF StillNeeded
    <3>3. Intact /\ Intact'
      BY <2>1, <3>2, NeededIntact, NeededStaysIntact DEF RefInv, TableInv
    <3>4. Linked' = Linked
      BY LinkedStep DEF StepInv
    <3>5. InTable' = InTable
      BY <3>3, <3>4 DEF TimedInv, StepInv, LinkedVisible
    <3>6. QED
      BY <1>1, <2>1, <3>5 DEF Answer, mainVars
  <2>4. QED
    BY <2>2, <2>3
<1>5. QED
  BY <1>2, <1>3, <1>4 DEF Next, Main, Finished

LEMMA NextMaps ==
  ASSUME Timing, TimedInv, StepInv', [Next]_vars
  PROVE  [Abstract!JoinNext]_(Abstract!joinVars)
<1>1. ASSUME NEW t \in Threads, Store(t)
      PROVE  Abstract!JoinNext
  BY <1>1, StoreMaps DEF Abstract!JoinNext
<1>2. ASSUME NEW t \in Threads, EndsLookup(t)
      PROVE  Abstract!JoinNext
  BY <1>2, LookupMaps DEF Abstract!JoinNext
<1>3. ASSUME NEW t \in Threads, FreeBuffer(t)
      PROVE  Abstract!JoinNext
  BY <1>3, FreeMaps DEF Abstract!JoinNext
<1>4. CASE Destroy
  BY <1>4, DestroyMaps DEF Abstract!JoinNext
<1>5. CASE ~Destroy /\ \A t \in Threads : ~Store(t) /\ ~EndsLookup(t) /\ ~FreeBuffer(t)
  BY <1>5, OthersMap DEF Abstract!joinVars, Probed, Answer
<1>6. QED
  BY <1>1, <1>2, <1>3, <1>4, <1>5

(* The threaded join compiled for x86 with timing keeps the sequential     *)
(* promise: every tuple of R is inserted once and before the first lookup, *)
(* every tuple of S is looked up once, in a complete table, and finds a    *)
(* partner just if there is one, the table is freed only when nothing is   *)
(* left to look up, and NPO() returns the number of lookups that found a   *)
(* partner.  (Without timing a lookup may read a freed bucket.)            *)
THEOREM ImplementsHashJoinCorrect ==
  ASSUME Arch = "x86", Timing
  PROVE  Spec => ImplementsHashJoin
<1>1. Init => Abstract!JoinInit
  BY InitMaps
<1>2. TimedInv /\ StepInv' /\ [Next]_vars => [Abstract!JoinNext]_(Abstract!joinVars)
  BY NextMaps
<1>3. RefInv /\ ChainsLive => StepInv
  BY LinkedVisibleHolds DEF RefInv, TableInv, StepInv
<1>4. Spec => [](RefInv /\ ChainsLive /\ NoUseAfterFree)
  BY RefInvCorrect, ChainsLiveCorrect, NoUseAfterFreeCorrect, PTL
<1>5. QED
  BY <1>1, <1>2, <1>3, <1>4, PTL DEF Spec, TimedInv, ImplementsHashJoin, Abstract!JoinSpec

=============================================================================
