------------------------- MODULE NoPartitioningJoin -------------------------
(***************************************************************************)
(* NPO, the multi-threaded no-partitioning hash join of                    *)
(* src/dynamic_hashjoin/src/no_partitioning_join.c.                        *)
(*                                                                         *)
(* NPO() spawns the threads, each with a share of R and of S.  A thread    *)
(* waits at a barrier, inserts its share of R into the shared hash table   *)
(* under the latch of the bucket it hashes to, waits at a second barrier,  *)
(* looks its share of S up, waits at a third barrier when timing is        *)
(* compiled in, frees its overflow buckets and exits.  NPO() joins the     *)
(* threads, adds up their results and frees the table.                     *)
(*                                                                         *)
(* A bucket is named by a triple <<chunk, owner, index>>: chunk 0 is the   *)
(* array of the table; a chunk above 0 is the owner's overflow buffer of   *)
(* that age.  A tuple of R is its position in R.  tas() is one step here   *)
(* and two in SpinLock; the barrier is that of module Barrier.             *)
(***************************************************************************)
EXTENDS Tas, HashTable, FiniteSets, Sequences, Functions

CONSTANTS
  NThreads,          (* nthreads                                           *)
  Keys,              (* join keys                                          *)
  NumS,              (* number of tuples of S                              *)
  OverflowBufSize,   (* OVERFLOW_BUF_SIZE, buckets in an overflow buffer   *)
  Timing             (* FALSE when NO_TIMING is defined                    *)

ASSUME JoinAssumption ==
  /\ NThreads \in Nat \ {0}
  /\ Keys \subseteq Nat
  /\ NumS \in Nat
  /\ OverflowBufSize \in Nat \ {0}
  /\ Timing \in BOOLEAN

Threads == 0 .. (NThreads - 1)
Tuples == 1 .. NumR
NoTuple == 0                       (* the content of a slot never written  *)

TableBucket(h) == <<0, 0, h>>
TableBuckets == {TableBucket(h) : h \in 0 .. (NumBuckets - 1)}
OverflowBuckets == (1 .. NumR) \X Threads \X (1 .. OverflowBufSize)
Buckets == TableBuckets \cup OverflowBuckets
NULL == <<-1, -1, -1>>

BucketOf(key) == TableBucket(Hash(key))

VARIABLES
  relR, relS,   (* keys of the relations, by position                      *)
  mainPc,       (* where NPO() is                                          *)
  mainI,        (* its loop index i                                        *)
  remR, remS,   (* its numR and numS, decremented as shares are given out  *)
  args,         (* the shares of the threads                               *)
  result,       (* sum of the results of the joined threads                *)
  latch, count, slots, next,    (* the fields of every bucket              *)
  bufs,         (* per thread, bucket counts of its overflow buffers,      *)
                (* newest first                                            *)
  pc,           (* where each thread is                                    *)
  cur,          (* its loop index i                                        *)
  seen,         (* what it read of its bucket under the latch              *)
  dest,         (* the slot it has reserved, a bucket and a position       *)
  probeAt,      (* b, the bucket it looks at while probing                 *)
  matches,      (* its num_results                                         *)
  arrived, left (* the barrier                                             *)

inputs == <<relR, relS>>
mainVars == <<mainPc, mainI, remR, remS, args, result>>
table == <<latch, count, slots, next>>
locals == <<cur, seen, dest, probeAt, matches>>
barrier == <<arrived, left>>
vars == <<inputs, mainVars, table, bufs, pc, locals, barrier>>

Sync == INSTANCE Barrier

-----------------------------------------------------------------------------
(* Names for what the state holds. *)

(* The overflow buffers that exist are the last ones of each list. *)
Live(b) == b[1] <= Len(bufs[b[2]])
BucketLive(b) == IF b[1] = 0 THEN mainPc # "done" ELSE Live(b)

(* The key a thread is about to insert or to look up, and its bucket. *)
BuildTuple(t) == args[t].rFirst + cur[t]
ProbeKey(t, c) == relS[args[t].sFirst + c]
LatchedBucket(t) == BucketOf(relR[BuildTuple(t)])

(* Some counted slot of bucket b holds a tuple with the key. *)
HasKey(b, key) ==
  \E k \in 1 .. count[b] : slots[b][k] # NoTuple /\ relR[slots[b][k]] = key

(* The buckets that can be reached from b along next. *)
Chain(b) ==
  LET follow[reached \in SUBSET Buckets] ==
        LET further == {next[c] : c \in reached} \ (reached \cup {NULL})
        IN  IF further = {} THEN reached ELSE follow[reached \cup further]
  IN  follow[{b}]

(* What the counted slots of the chain of table bucket h were last given. *)
ChainTuples(h) ==
  (UNION {{slots[b][k] : k \in 1 .. count[b]} : b \in Chain(TableBucket(h))}) \ {NoTuple}

(* The tuples a walk of that chain comes across.  A chain with a bucket that *)
(* has been freed holds nothing one can rely on.                             *)
StoredIn(h) ==
  IF \A b \in Chain(TableBucket(h)) : BucketLive(b) THEN ChainTuples(h) ELSE {}

(* The slots, counted by buckets not yet freed, that hold tuple i. *)
PlacesOf(i) ==
  {p \in Buckets \X (1 .. BucketSize) :
     BucketLive(p[1]) /\ p[2] <= count[p[1]] /\ slots[p[1]][p[2]] = i}

-----------------------------------------------------------------------------
(* Initially the table is allocated, empty, and no thread exists.          *)

NoShare == [rFirst |-> 1, rNum |-> 0, sFirst |-> 1, sNum |-> 0]
NothingSeen == [count |-> 0, nxt |-> NULL, nxtCount |-> 0]

Init ==
  /\ relR \in [1 .. NumR -> Keys]
  /\ relS \in [1 .. NumS -> Keys]
  /\ mainPc = "spawn"
  /\ mainI = 0
  /\ remR = NumR
  /\ remS = NumS
  /\ args = [t \in Threads |-> NoShare]
  /\ result = 0
  /\ latch = [b \in TableBuckets |-> 0]
  /\ count = [b \in Buckets |-> 0]
  /\ slots = [b \in Buckets |-> [k \in 1 .. BucketSize |-> NoTuple]]
  /\ next = [b \in Buckets |-> NULL]
  /\ bufs = [t \in Threads |-> <<>>]
  /\ pc = [t \in Threads |-> "unborn"]
  /\ cur = [t \in Threads |-> 0]
  /\ seen = [t \in Threads |-> NothingSeen]
  /\ dest = [t \in Threads |-> <<NULL, 0>>]
  /\ probeAt = [t \in Threads |-> NULL]
  /\ matches = [t \in Threads |-> 0]
  /\ Sync!BarrierInit

Goto(t, label) == pc' = [pc EXCEPT ![t] = label]

-----------------------------------------------------------------------------
(* NPO() in the main thread.                                               *)

(* Faulty: the last thread gets no more than the others. *)
ShareDropsRemainder(i) ==
  [rFirst |-> (NumR \div NThreads) * i + 1, rNum |-> NumR \div NThreads,
   sFirst |-> (NumS \div NThreads) * i + 1, sNum |-> NumS \div NThreads]

(* The share of thread i: numR / nthreads tuples, the last takes the rest. *)
Share(i) ==
  [rFirst |-> (NumR \div NThreads) * i + 1,
   rNum |-> IF i = NThreads - 1 THEN remR ELSE NumR \div NThreads,
   sFirst |-> (NumS \div NThreads) * i + 1,
   sNum |-> IF i = NThreads - 1 THEN remS ELSE NumS \div NThreads]

Spawn ==
  /\ mainPc = "spawn"
  /\ args' = [args EXCEPT ![mainI] = Share(mainI)]
  /\ remR' = remR - NumR \div NThreads
  /\ remS' = remS - NumS \div NThreads
  /\ Goto(mainI, "start")
  /\ mainI' = IF mainI = NThreads - 1 THEN 0 ELSE mainI + 1
  /\ mainPc' = IF mainI = NThreads - 1 THEN "join" ELSE "spawn"
  /\ UNCHANGED <<inputs, result, table, bufs, locals, barrier>>

(* pthread_join() of thread i, whose result is added; then the next. *)
Join ==
  /\ mainPc = "join"
  /\ pc[mainI] = "exited"
  /\ result' = result + matches[mainI]
  /\ mainI' = IF mainI = NThreads - 1 THEN 0 ELSE mainI + 1
  /\ mainPc' = IF mainI = NThreads - 1 THEN "destroy" ELSE "join"
  /\ UNCHANGED <<inputs, remR, remS, args, table, bufs, pc, locals, barrier>>

(* destroy_hashtable(), and the result is returned. *)
Destroy ==
  /\ mainPc = "destroy"
  /\ mainPc' = "done"
  /\ UNCHANGED <<inputs, mainI, remR, remS, args, result, table, bufs, pc, locals, barrier>>

-----------------------------------------------------------------------------
(* npo_thread(): start, and the build of the table.                        *)

(* init_bucket_buffer() and the arrival at the first barrier. *)
Start(t) ==
  /\ pc[t] = "start"
  /\ bufs' = [bufs EXCEPT ![t] = <<0>>]
  /\ Sync!Arrive(t)
  /\ Goto(t, "wait_start")
  /\ UNCHANGED <<inputs, mainVars, table, locals>>

BeginBuild(t) ==
  /\ pc[t] = "wait_start"
  /\ Sync!Leave(t)
  /\ Goto(t, "build")
  /\ UNCHANGED <<inputs, mainVars, table, bufs, locals>>

(* lock(&curr->latch): one round of its loop. *)
LatchBucket(t) ==
  /\ pc[t] = "build"
  /\ cur[t] < args[t].rNum
  /\ LET b == LatchedBucket(t)
     IN  /\ latch' = [latch EXCEPT ![b] = TasStored(latch[b])]
         /\ Goto(t, IF TasAcquires(latch[b]) THEN "inspect" ELSE "build")
  /\ UNCHANGED <<inputs, mainVars, count, slots, next, bufs, locals, barrier>>

(* The reads of curr->next, curr->count and nxt->count. *)
Inspect(t) ==
  /\ pc[t] = "inspect"
  /\ LET b == LatchedBucket(t)
         n == next[b]
     IN  seen' = [seen EXCEPT ![t] =
                    [count |-> count[b], nxt |-> n,
                     nxtCount |-> IF n = NULL THEN 0 ELSE count[n]]]
  /\ Goto(t, "reserve")
  /\ UNCHANGED <<inputs, mainVars, table, bufs, cur, dest, probeAt, matches, barrier>>

(* Faulty: one bucket too many is taken from an overflow buffer. *)
ChunkHasRoomOffByOne(t) == Head(bufs[t]) <= OverflowBufSize

(* Faulty: a bucket is taken to be full one tuple early. *)
FullOneEarly(n) == n >= BucketSize - 1

(* get_new_bucket(): the next bucket of the newest overflow buffer, or the *)
(* first one of a new buffer.                                              *)
ChunkHasRoom(t) == Head(bufs[t]) < OverflowBufSize

NewBucket(t) ==
  IF ChunkHasRoom(t) THEN <<Len(bufs[t]), t, Head(bufs[t]) + 1>>
  ELSE <<Len(bufs[t]) + 1, t, 1>>

BufsAfterNewBucket(t) ==
  IF ChunkHasRoom(t) THEN [bufs EXCEPT ![t] = <<Head(@) + 1>> \o Tail(@)]
  ELSE [bufs EXCEPT ![t] = <<1>> \o @]

Full(n) == n = BucketSize

(* Faulty: the new overflow bucket is linked without its next pointer. *)
ReserveInNewBucketCutsChain(t) ==
  /\ pc[t] = "reserve"
  /\ Full(seen[t].count)
  /\ seen[t].nxt = NULL \/ Full(seen[t].nxtCount)
  /\ LET b == NewBucket(t)
     IN  /\ next' = [next EXCEPT ![LatchedBucket(t)] = b]
         /\ count' = [count EXCEPT ![b] = 1]
         /\ dest' = [dest EXCEPT ![t] = <<b, 1>>]
  /\ bufs' = BufsAfterNewBucket(t)
  /\ Goto(t, "store")
  /\ UNCHANGED <<inputs, mainVars, latch, slots, cur, seen, probeAt, matches, barrier>>

(* The bucket is full, and so is the first overflow bucket if there is one: *)
(* a new overflow bucket is linked in behind the table bucket.              *)
ReserveInNewBucket(t) ==
  /\ pc[t] = "reserve"
  /\ Full(seen[t].count)
  /\ seen[t].nxt = NULL \/ Full(seen[t].nxtCount)
  /\ LET b == NewBucket(t)
     IN  /\ next' = [next EXCEPT ![LatchedBucket(t)] = b, ![b] = seen[t].nxt]
         /\ count' = [count EXCEPT ![b] = 1]
         /\ dest' = [dest EXCEPT ![t] = <<b, 1>>]
  /\ bufs' = BufsAfterNewBucket(t)
  /\ Goto(t, "store")
  /\ UNCHANGED <<inputs, mainVars, latch, slots, cur, seen, probeAt, matches, barrier>>

(* The bucket is full, the first overflow bucket has room. *)
ReserveInOverflow(t) ==
  /\ pc[t] = "reserve"
  /\ Full(seen[t].count)
  /\ seen[t].nxt # NULL /\ ~Full(seen[t].nxtCount)
  /\ count' = [count EXCEPT ![seen[t].nxt] = seen[t].nxtCount + 1]
  /\ dest' = [dest EXCEPT ![t] = <<seen[t].nxt, seen[t].nxtCount + 1>>]
  /\ Goto(t, "store")
  /\ UNCHANGED <<inputs, mainVars, latch, slots, next, bufs, cur, seen, probeAt,
                 matches, barrier>>

(* The bucket has room. *)
ReserveInBucket(t) ==
  /\ pc[t] = "reserve"
  /\ ~Full(seen[t].count)
  /\ count' = [count EXCEPT ![LatchedBucket(t)] = seen[t].count + 1]
  /\ dest' = [dest EXCEPT ![t] = <<LatchedBucket(t), seen[t].count + 1>>]
  /\ Goto(t, "store")
  /\ UNCHANGED <<inputs, mainVars, latch, slots, next, bufs, cur, seen, probeAt,
                 matches, barrier>>

(* *dest = rel->tuples[i] *)
Store(t) ==
  /\ pc[t] = "store"
  /\ slots' = [slots EXCEPT ![dest[t][1]][dest[t][2]] = BuildTuple(t)]
  /\ Goto(t, "unlock")
  /\ UNCHANGED <<inputs, mainVars, latch, count, next, bufs, locals, barrier>>

(* Faulty: the latch is not released. *)
UnlatchBucketForgets(t) ==
  /\ pc[t] = "unlock"
  /\ cur' = [cur EXCEPT ![t] = @ + 1]
  /\ Goto(t, "build")
  /\ UNCHANGED <<inputs, mainVars, table, bufs, seen, dest, probeAt, matches, barrier>>

(* unlock(&curr->latch) and the next round of the loop. *)
UnlatchBucket(t) ==
  /\ pc[t] = "unlock"
  /\ latch' = [latch EXCEPT ![LatchedBucket(t)] = 0]
  /\ cur' = [cur EXCEPT ![t] = @ + 1]
  /\ Goto(t, "build")
  /\ UNCHANGED <<inputs, mainVars, count, slots, next, bufs, seen, dest, probeAt,
                 matches, barrier>>

(* The share of R is inserted: arrival at the second barrier. *)
EndBuild(t) ==
  /\ pc[t] = "build"
  /\ cur[t] = args[t].rNum
  /\ Sync!Arrive(t)
  /\ Goto(t, "wait_build")
  /\ UNCHANGED <<inputs, mainVars, table, bufs, locals>>

-----------------------------------------------------------------------------
(* npo_thread(): probe_hashtable() and the end of the thread.              *)

(* Where the lookup of the c-th tuple of the share of S begins. *)
LookupStart(t, c) ==
  IF c < args[t].sNum THEN BucketOf(ProbeKey(t, c)) ELSE NULL

(* Faulty: no wait until every thread has built. *)
BeginProbeAtOnce(t) ==
  /\ pc[t] = "wait_build"
  /\ left' = [left EXCEPT ![t] = @ + 1]
  /\ cur' = [cur EXCEPT ![t] = 0]
  /\ probeAt' = [probeAt EXCEPT ![t] = LookupStart(t, 0)]
  /\ Goto(t, "probe")
  /\ UNCHANGED <<inputs, mainVars, table, bufs, seen, dest, matches, arrived>>

BeginProbe(t) ==
  /\ pc[t] = "wait_build"
  /\ Sync!Leave(t)
  /\ cur' = [cur EXCEPT ![t] = 0]
  /\ probeAt' = [probeAt EXCEPT ![t] = LookupStart(t, 0)]
  /\ Goto(t, "probe")
  /\ UNCHANGED <<inputs, mainVars, table, bufs, seen, dest, matches>>

(* The lookup of the current tuple of S ends, and the next one begins. *)
EndLookup(t, hit) ==
  /\ matches' = IF hit THEN [matches EXCEPT ![t] = @ + 1] ELSE matches
  /\ cur' = [cur EXCEPT ![t] = @ + 1]
  /\ probeAt' = [probeAt EXCEPT ![t] = LookupStart(t, cur[t] + 1)]

Probing(t) == pc[t] = "probe" /\ cur[t] < args[t].sNum

(* Faulty: the walk goes on behind a match. *)
LookupHitGoesOn(t) ==
  /\ Probing(t)
  /\ BucketLive(probeAt[t])
  /\ HasKey(probeAt[t], ProbeKey(t, cur[t]))
  /\ IF next[probeAt[t]] = NULL THEN EndLookup(t, TRUE)
     ELSE /\ probeAt' = [probeAt EXCEPT ![t] = next[probeAt[t]]]
          /\ matches' = [matches EXCEPT ![t] = @ + 1]
          /\ UNCHANGED cur
  /\ UNCHANGED <<inputs, mainVars, table, bufs, pc, seen, dest, barrier>>

(* The bucket holds the key: the match is counted and the walk stops. *)
LookupHit(t) ==
  /\ Probing(t)
  /\ BucketLive(probeAt[t])
  /\ HasKey(probeAt[t], ProbeKey(t, cur[t]))
  /\ EndLookup(t, TRUE)
  /\ UNCHANGED <<inputs, mainVars, table, bufs, pc, seen, dest, barrier>>

(* It does not: on to the next bucket. *)
LookupFollow(t) ==
  /\ Probing(t)
  /\ BucketLive(probeAt[t])
  /\ ~HasKey(probeAt[t], ProbeKey(t, cur[t]))
  /\ next[probeAt[t]] # NULL
  /\ probeAt' = [probeAt EXCEPT ![t] = next[probeAt[t]]]
  /\ UNCHANGED <<inputs, mainVars, table, bufs, pc, cur, seen, dest, matches, barrier>>

(* It does not, and it is the last of its chain. *)
LookupMiss(t) ==
  /\ Probing(t)
  /\ BucketLive(probeAt[t])
  /\ ~HasKey(probeAt[t], ProbeKey(t, cur[t]))
  /\ next[probeAt[t]] = NULL
  /\ EndLookup(t, FALSE)
  /\ UNCHANGED <<inputs, mainVars, table, bufs, pc, seen, dest, barrier>>

(* The bucket has been freed: the count and the next that are read are     *)
(* anything by now, and so is what the thread does from here on.           *)
LookupFreed(t) ==
  /\ Probing(t)
  /\ ~BucketLive(probeAt[t])
  /\ Goto(t, "undefined")
  /\ UNCHANGED <<inputs, mainVars, table, bufs, locals, barrier>>

(* Faulty: the third wait is left out also when timing is compiled in. *)
EndProbeNoWait(t) ==
  /\ pc[t] = "probe"
  /\ cur[t] = args[t].sNum
  /\ Timing
  /\ Goto(t, "free")
  /\ UNCHANGED <<inputs, mainVars, table, bufs, locals, barrier>>

(* The share of S is looked up: arrival at the third barrier, *)
EndProbe(t) ==
  /\ pc[t] = "probe"
  /\ cur[t] = args[t].sNum
  /\ Timing
  /\ Sync!Arrive(t)
  /\ Goto(t, "wait_probe")
  /\ UNCHANGED <<inputs, mainVars, table, bufs, locals>>

(* which is left out under NO_TIMING. *)
EndProbeUntimed(t) ==
  /\ pc[t] = "probe"
  /\ cur[t] = args[t].sNum
  /\ ~Timing
  /\ Goto(t, "free")
  /\ UNCHANGED <<inputs, mainVars, table, bufs, locals, barrier>>

BeginFree(t) ==
  /\ pc[t] = "wait_probe"
  /\ Sync!Leave(t)
  /\ Goto(t, "free")
  /\ UNCHANGED <<inputs, mainVars, table, bufs, locals>>

(* free_bucket_buffer(): one buffer per round of its loop.  Its buckets are *)
(* not live any more, whatever their fields last held.                      *)
FreeBuffer(t) ==
  /\ pc[t] = "free"
  /\ bufs' = [bufs EXCEPT ![t] = Tail(@)]
  /\ Goto(t, IF Len(bufs[t]) = 1 THEN "exited" ELSE "free")
  /\ UNCHANGED <<inputs, mainVars, table, locals, barrier>>

-----------------------------------------------------------------------------

Build(t) ==
  \/ LatchBucket(t)
  \/ Inspect(t)
  \/ ReserveInNewBucket(t)
  \/ ReserveInOverflow(t)
  \/ ReserveInBucket(t)
  \/ Store(t)
  \/ UnlatchBucket(t)
  \/ EndBuild(t)

Probe(t) ==
  \/ LookupHit(t)
  \/ LookupFollow(t)
  \/ LookupMiss(t)
  \/ LookupFreed(t)
  \/ EndProbe(t)
  \/ EndProbeUntimed(t)

Thread(t) ==
  \/ Start(t)
  \/ BeginBuild(t)
  \/ Build(t)
  \/ BeginProbe(t)
  \/ Probe(t)
  \/ BeginFree(t)
  \/ FreeBuffer(t)

Main == Spawn \/ Join \/ Destroy

(* NPO() has returned, or a thread's behaviour is undefined. *)
Finished ==
  /\ mainPc = "done" \/ \E t \in Threads : pc[t] = "undefined"
  /\ UNCHANGED vars

Next ==
  \/ Main
  \/ \E t \in Threads : Thread(t)
  \/ Finished

Spec == Init /\ [][Next]_vars

(* Every thread that can take a step eventually does.  The latches are not *)
(* fair, and need not be: each is taken finitely often.                    *)
FairSpec == Spec /\ WF_vars(Main) /\ \A t \in Threads : WF_vars(Thread(t))

-----------------------------------------------------------------------------

MainLabels == {"spawn", "join", "destroy", "done"}
Latched == {"inspect", "reserve", "store", "unlock"}
Building == {"build"} \cup Latched
ProbingOrLater == {"probe", "wait_probe", "free", "exited"}
Labels ==
  {"unborn", "start", "wait_start", "wait_build", "undefined"} \cup Building \cup ProbingOrLater

Shares == [rFirst : 1 .. (NumR + 1), rNum : 0 .. NumR, sFirst : 1 .. (NumS + 1), sNum : 0 .. NumS]
Snapshots == [count : 0 .. BucketSize, nxt : Buckets \cup {NULL}, nxtCount : 0 .. BucketSize]

(* Every variable has its type. *)
TypeOK ==
  /\ relR \in [1 .. NumR -> Keys]
  /\ relS \in [1 .. NumS -> Keys]
  /\ mainPc \in MainLabels
  /\ mainI \in Threads
  /\ remR \in 0 .. NumR /\ remS \in 0 .. NumS
  /\ args \in [Threads -> Shares]
  /\ result \in Nat
  /\ latch \in [TableBuckets -> Bit]
  /\ count \in [Buckets -> 0 .. BucketSize]
  /\ slots \in [Buckets -> [1 .. BucketSize -> 0 .. NumR]]
  /\ next \in [Buckets -> Buckets \cup {NULL}]
  /\ bufs \in [Threads -> Seq(0 .. OverflowBufSize)]
  /\ pc \in [Threads -> Labels]
  /\ cur \in [Threads -> Nat]
  /\ seen \in [Threads -> Snapshots]
  /\ dest \in [Threads -> (Buckets \cup {NULL}) \X (0 .. BucketSize)]
  /\ probeAt \in [Threads -> Buckets \cup {NULL}]
  /\ matches \in [Threads -> Nat]
  /\ arrived \in [Threads -> Nat]
  /\ left \in [Threads -> Nat]

(* The latch of a table bucket keeps the other threads away from the whole *)
(* chain behind it: two threads that are between lock() and unlock() have  *)
(* latched different buckets.                                              *)
LatchExclusion ==
  \A t, u \in Threads :
    pc[t] \in Latched /\ pc[u] \in Latched /\ LatchedBucket(t) = LatchedBucket(u) => t = u

(* The build looks at no more than two buckets of a chain.  That is enough *)
(* because only the first overflow bucket ever has room: a table bucket    *)
(* with an overflow bucket is full, and so is every overflow bucket behind *)
(* the first.  No two buckets have the same successor, so that chains are  *)
(* disjoint and end, and every linked bucket holds something.              *)
ChainShape ==
  \A b \in Buckets : next[b] # NULL =>
    /\ next[b] \in OverflowBuckets
    /\ b \in TableBuckets => count[b] = BucketSize
    /\ count[next[b]] > 0
    /\ b \in OverflowBuckets => count[next[b]] = BucketSize
    /\ \A c \in Buckets : next[c] = next[b] => c = b

(* Some thread has not yet looked up its share of S. *)
StillNeeded == \E t \in Threads : pc[t] \notin {"wait_probe", "free", "exited"}

(* From the time some thread is past the build barrier until all have      *)
(* looked up their shares, the table is complete: every tuple of R is in   *)
(* exactly one counted slot, and that slot is found by walking the chain   *)
(* its key hashes to, none of whose buckets has been freed.                *)
EveryTuplePlacedOnce ==
  StillNeeded /\ (\E t \in Threads : pc[t] \in ProbingOrLater) =>
    \A i \in Tuples :
      /\ Cardinality(PlacesOf(i)) = 1
      /\ i \in StoredIn(Hash(relR[i]))

(* A thread that walks a chain is never at a bucket that has been freed,   *)
(* be it an overflow bucket of another thread or one of the table.         *)
NoUseAfterFree ==
  \A t \in Threads : Probing(t) => BucketLive(probeAt[t])

(* A tuple that a walk of its chain comes across stays to be found as long *)
(* as some thread has tuples to look up: the insertions that follow, by    *)
(* whichever thread, neither overwrite it nor unlink its bucket, and no    *)
(* thread that is done frees a bucket of its chain.                        *)
StoredStaysFindable ==
  [][StillNeeded =>
       \A h \in 0 .. (NumBuckets - 1) : StoredIn(h) \subseteq StoredIn(h)']_vars

(* What NPO() returns is the number of tuples of S that have a partner in  *)
(* R, with or without the third wait, as long as no lookup met a bucket    *)
(* that had been freed.                                                    *)
CountsMatches ==
  mainPc = "done" =>
    result = Cardinality({j \in 1 .. NumS : \E i \in Tuples : relR[i] = relS[j]})

(* The call of NPO() returns. *)
Termination == <>(mainPc = "done")

(* Without the third wait it returns unless a thread walks freed memory:   *)
(* no latch and neither of the other two waits keeps it.                   *)
ReturnsUnlessUndefined ==
  <>(mainPc = "done" \/ \E t \in Threads : pc[t] = "undefined")

InTable == {i \in Tuples : i \in StoredIn(Hash(relR[i]))}

LookedUp(t) ==
  IF pc[t] \in {"probe", "undefined"} THEN args[t].sFirst .. (args[t].sFirst + cur[t] - 1)
  ELSE IF pc[t] \in ProbingOrLater
       THEN args[t].sFirst .. (args[t].sFirst + args[t].sNum - 1)
       ELSE {}

Abstract == INSTANCE HashJoin WITH
  table <- InTable,
  probed <- UNION {LookedUp(t) : t \in Threads},
  matches <- SumFunction(matches),
  answer <- IF mainPc = "done" THEN result ELSE -1

(* The threaded join implements the sequential promise: every tuple of R   *)
(* is inserted once and before the first lookup, every tuple of S is       *)
(* looked up once, each lookup sees all of R, and the reported result is   *)
(* the number of tuples of S that have a partner in R.                     *)
ImplementsHashJoin == Abstract!JoinSpec

=============================================================================
