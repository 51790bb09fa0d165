# Formal models of the main-memory hash joins

The repository compares main-memory joins by how they chase pointers. Its core is `src/dynamic_hashjoin/src/`: a C
program of parallel hash joins over two relations R (the build side) and S (the probe side). Beside it stands
`src/dynamic_hashjoin/wisconsin-src/`, a C++ program of hash joins that is kept for comparison. This directory holds
TLA+ models of both, the TLC runs that check them and TLAPS proofs about them. Paths below are relative to
`src/dynamic_hashjoin/src/`, or to `src/dynamic_hashjoin/wisconsin-src/` where the Wisconsin join is the subject,
unless they begin with `src/`.

To run: `tlc -config NPJ_chain.cfg NoPartitioningJoin`, and likewise for the other rows of [the runs](#the-runs);
`tlapm NoPartitioningJoinProofs.tla` for the proofs. `PROJECT.json` lists the components, the runs, the code lines
of each definition, a faulty variant for each property, the hazards and the theorems.

## The system

| component | state | operations | talks to |
|---|---|---|---|
| spinlock, `lock.h` | one byte per bucket | `lock`, `unlock`, on top of `tas` | called by the build of NPO |
| barrier, `barrier.h` | a pthread barrier or, where there is none, `mutex`, `cond`, `called` | `barrier_init`, `barrier_wait` | all the threads of a join |
| hash table, `no_partitioning_join.c`, `npj_types.h` | array of buckets (latch, count, slots, next), hash mask, overflow buffers per thread | allocate, hash, insert, look up, free | the joins below |
| NPO, `no_partitioning_join.c` | the table, each thread's share and place in it, the sum of matches | spawn, build, probe, free, join | spinlock, barrier, hash table |
| NPO_st, the same file | the table, its successor, the walk of the old one | build by `payload[0]`; rehash by columns 1, 17, 33, 49 | hash table; the default algorithm of `main.c` |
| radix join, `parallel_radix_join.c` | relations and temporary arrays, histograms, offsets, task queues | two passes of partitioning, tasks, join of each pair of clusters | task queue, barrier, CPU mapping |
| task queue, `task_queue.h` | list of tasks, counter, slots not handed out | `get_slot`, `add`, `get`, each with or without a mutex | radix join |
| CPU mapping, `cpu_mapping.c` | none after start-up | `get_numa_id`, `get_numa_node_of_address`, `get_cpu_id` | radix join, NPO |
| generator, `generator.c`, `genzipf.c` | the relations, a lock per entry in the parallel version | create relations, shuffle | `main.c` |
| tuple buffer, `tuple_buffer.h` | list of chunks, write and read position | init, write, read, free | joins that materialise |
| command line, timers, counters, affinity | none of the joins' | parse, measure, pin | - |

The Wisconsin join, in `wisconsin-src/`:

| component | state | operations | talks to |
|---|---|---|---|
| tables, `table.h`, `table.cpp`, `page.h` | pages of tuples, a cursor that threads share | `readNext`, `atomicReadNext`, `append`, `concatenate`, `split` | everything below |
| hash functions, `hash.h`, `hash.cpp` | bits and bits to skip | `hash`, `generate` (one function per radix pass) | partitioners, hash table |
| partitioners, `partitioner.cpp` | tables of the parts; for radix two arrays, histograms, offsets | `init`, `split` of no, parallel, independent, radix | barrier, tables |
| hash table, `algo/hashtable.cpp` | per bucket a lock and a list of chunks | `allocate`, `placeIterator`, `readnext` | `algo/storage.cpp` |
| joiners, `algo/build.inl`, `algo/probe.inl`, `algo/storage.cpp` | the parts each thread works on, its results | `build`, `probe`; by parts, as a whole, with stealing | partitioners, hash table |
| `main.cpp` | the threads' results | `compute()` per thread: split twice, build, probe; `main()` closes the results | all of the above |

Outside of both are the sort, merge, remove and reverse programs of `src/src` (sequential programs that time the C++
library's lists), and data, build files and vendored code (`lib/`, and `libconfig` and `bzip2` under
`wisconsin-src/`).

### What is hard, and what makes each part correct

*Spinlock.* Threads in any number, in any order, on a byte. At most one is between `lock()` and `unlock()`, and when
it leaves, some waiter gets in. Which waiter is not promised, and the code needs no such promise.

*Barrier.* It is used again and again by threads of which some still stand in the last wait. Nobody returns from the
k-th wait before everybody has begun the k-th; nobody sleeps through the broadcast meant for it.

*NPO.* The threads insert into chains shared by all, each under the latch of the chain's first bucket, and the
insertion looks at two buckets only. The chain must not lose a bucket, no slot may be written twice, nobody may look
up before everybody has inserted, nothing may be freed that another thread still walks, the call must return, and
the result is that of a sequential join.

*NPO_st.* No concurrency, but a long sequence of moves over several tables. No tuple is lost, doubled or put into a
list other than that of its column; the room in a chain is where the insertion looks for it.

*Radix join.* All threads scatter into one array, each at places that follow from everybody's counts; then they
cluster regions of it back, and read them again, according to tasks they hand to each other through queues. The
places must fit together, no two threads may work on one region, no task may get lost, all clusters with partners
are joined exactly once, the result is the number of pairs, and the call returns. With `--enable-skewhandling` a
cluster that is too large for one thread is partitioned by all of them, one such cluster after the other, and a
large cluster that comes out is joined in pieces: thread 0 announces the next cluster and makes the tasks, between
barriers, while the others wait for it or are still behind.

*Wisconsin partitioners.* Threads take pages off a table whose cursor they move with compare-and-swap, and append to
tables they share or own; the radix partitioner has them all write one array at once, at offsets from histograms
that each thread counts for its neighbour, block after block and pass after pass. Whichever way, a split must return
every tuple once, in the part it hashes to, to everybody, and to nobody too early.

*Wisconsin build and probe.* The hash table has no lock of its own: its buckets are latched if the build table is one
part, and kept apart by the partitioning if not, and the joiner, not the table, decides which. Its iterator ends at
an empty chunk, so none may ever be left in a list. Every pair is to be made once, also when the two tables are
partitioned differently, and each thread must leave a result that `main()` can close.

There are no messages, no persistence and no recovery in this program: it either runs to its end or is killed.

## Modules

| module | models | role |
|---|---|---|
| `Tas` | `tas()` for x86 (an exchange) and aarch64 (load, `eor`, store) as functions of the byte | shared by the next and NPO |
| `SpinLock` | `lock.h`, with callers that loop | detailed |
| `Mutex` | mutual exclusion, nothing else | abstract, implemented by `SpinLock` |
| `CondBarrier` | `barrier.h`, the branch with condition variable | detailed |
| `Barrier` | what a barrier promises | abstract, implemented by `CondBarrier`, used by both joins |
| `HashTable` | `NEXT_POW_2`, number of buckets, mask, `HASH` | pure |
| `NoPartitioningJoin` | `NPO()`, `npo_thread()`, `build_hashtable_mt()`, `probe_hashtable()`, overflow buffers | detailed |
| `HashJoin` | insert R, then look up S, then discard the table and report | abstract, implemented by `NoPartitioningJoin` |
| `SingleThreadJoin` | `NPO_st()`, `build_hashtable_st_payload()`, `rehash_payload()` | detailed |
| `RadixFunctions` | digits, placement by histogram, `bucket_chaining_join()`, `histogram_join()` | pure |
| `ParallelRadixJoin` | `join_init_run()`, `prj_thread()` and what they call, with and without skew handling, task queues, node lookup; `RJ()` | detailed |
| `PartitionedJoin` | clusters joined one by one, then the number of pairs | abstract, implemented by `ParallelRadixJoin` |
| `PageTables` | pages and cursors of a table, `append`, the hash function and its radix digits | pure |
| `Partitioners` | `split()` of four partitioners, `compute()` up to the end of its second split | detailed, extended by `WisconsinJoin` |
| `Split` | what a partitioner promises its callers | abstract, implemented twice, by the build side and the probe side of `WisconsinJoin` |
| `WisconsinJoin` | the rest of `compute()`, the hash table, the joiners, `main()` | detailed |
| `JoinPairs` | probe tuples looked up one by one, each pair made once, then the end | abstract, implemented by `WisconsinJoin` |
| `MCWisconsinJoin` | configurations and keys | for TLC |
| `MCParallelRadixJoin` | configurations and keys | for TLC |
| `SpinLockProofs`, `CondBarrierProofs`, `HashTableProofs` | - | theorems |
| `FoldTheorems` | - | lemmas on least elements, finite sets, sums and walks, for the next four |
| `NoPartitioningJoinProofs`, `SingleThreadJoinProofs`, `ParallelRadixJoinProofs`, `WisconsinJoinProofs` | - | theorems |

Definitions called "Faulty" in their comments are not part of any specification. Each is what a plausible bug would
make of the definition behind it; replacing the one by the other breaks a property, which shows that the property
can be broken.

### How state and actions correspond to the code

**Granularity.** A step is what a thread does between two points at which another thread could see or disturb it. In
the spinlock that is one access to the byte. In NPO, an insertion is five steps: the exchange on the latch; the read
of `count` and `next` (`Inspect`); the reservation of a slot, which links a new bucket where one is needed
(`Reserve...`); the copy of the tuple (`Store`); `unlock`. If the latch failed, these would interleave and damage
the chain. A lookup is one step per bucket. In the radix join a scattered tuple is one step; a call that holds the
mutex of a queue is one step, and taking a slot and adding the task are two calls and so two steps. Clustering the
region of a task is one step: that nobody else touches the region meanwhile is not assumed but checked, by
`TasksApart`, and so is a join. The pieces of a large cluster share one region, that of R in the temporary array, to
which `histogram_join()` copies R reordered; whoever copies writes the same tuples to the same places, so that the
steps of two copies commute. `RJ()` has one thread, and each of its clusterings and joins of a cluster is a step.

In the Wisconsin join, taking a page off a cursor that threads share is two steps, the read and the compare-and-swap
(or, where the code has none, the plain store); a table that only its owner reads is read in one. A slot of the hash
table is loaded, taken and filled in three steps, a slot of a shared table is taken and filled in two. A tuple that is
scattered by the radix partitioner is a step, and so is a probe tuple with all its pairs: the hash table is not
changed any more by then. A page appended to a thread's own tables, a histogram of its share, and the concatenation of
parts are one step each, since the data is the thread's own between the barriers. Local variables of a thread are
cleared when they are dead.

**Memory.** Steps are sequentially consistent. Store reordering (which matters for `unlock()` on aarch64, a plain
store) is not modelled.

**Data.** A tuple is its position in its relation; a key is a small number; a payload is a function on the columns
that are read. Buckets of NPO are named `<<chunk, owner, index>>`, as an overflow buffer hands them out. The chains
of `SingleThreadJoin` are sequences. A position of an array that was never written is `Garbage`. A table of
the Wisconsin join is a sequence of pages, each a sequence of tuples, and a cursor; a bucket is a list of chunks
without their addresses. The pairs that a probe makes are counted per pair; the program as the Makefile builds it
assembles them and only keeps them with another flag. Reading outside an
array makes TLC stop with an error; a write outside of one is a tuple that is missing afterwards, which
`PartitionComplete` and the refinement of `PartitionedJoin` notice.

**Sizes.** A tuple is one key and 50 payload columns of 4 bytes, 204 bytes. Padding is defined by quotients of a few
cache lines by this size, and is 0 (`RadixFunctions`); the formulas keep it.

**Undefined behaviour.** An index outside of the array of queues leads to the label `"undefined"`, where the thread
stops, and so does a probe of `bucket_chaining_join()` of a large cluster of S without tuples in R, which has no
buckets, and a walk in NPO that comes to a bucket that has been freed (`LookupFreed`): the `count` and the `next` it
reads are anything by then. What the slots of a freed bucket last held does not count as stored (`StoredIn`,
`PlacesOf`).

## The runs

| run | `.cfg` | bounds | shows |
|---|---|---|---|
| `spinlock_x86` | `SpinLock_x86` | 5 threads that call for ever | exclusion, the abstract mutex, some waiter always gets in |
| `spinlock_aarch64_exclusion` | `SpinLock_aarch64_exclusion` | 2 threads | **violated**: two threads inside |
| `condbarrier_plain` | `CondBarrier_plain` | 3 threads, 3 waits | a barrier; sleepers are counted; everybody leaves |
| `condbarrier_spurious_early` | `CondBarrier_spurious_early` | 2 threads | **violated**: one spurious wakeup opens the barrier |
| `npj_chain` | `NPJ_chain` | 2 threads, 5 tuples of R, 2 of S, one chain, 2 slots a bucket, 1 bucket a buffer | chains, no use after free, refinement of `HashJoin`, termination |
| `npj_untimed` | `NPJ_untimed` | 3 threads, 3 tuples of R and of S, 2 lists, 1 slot a bucket, `NO_TIMING` | the call returns or a thread walks freed memory; if it returns, the result is right |
| `npj_untimed_free` | `NPJ_untimed_free` | 2 threads, `NO_TIMING` | **violated**: a bucket is walked after it is freed |
| `stj_rehash` | `STJ_rehash` | 5 tuples, columns 0, 1, 17 with 2 values each, 2 slots a bucket | tuples conserved, each in its list, room where it is looked for |
| `prj_join` | `PRJ_join` | 2 threads, 1 + 1 radix bits, 3 tuples of R, 2 of S, keys 0, 1, 2, 4, both join functions: each thread on its node, or both on one, or with skew handling, or `RJ()` | both passes, the queues, skewed clusters, refinement of `PartitionedJoin`, termination |
| `prj_stub` | `PRJ_stub` | 2 threads, the node lookup as compiled | **violated**: `-1` is used as an index |
| `wisconsin_join` | `Wisconsin_join` | 3 threads, 4 parts, 2 tuples a page and a chunk, tables of 1 to 5 and 1 to 7 tuples; each partitioner, radix with 1 and 2 passes, the build table whole or in parts, stealing without partners | splits keep their promise, slots apart, hash table complete, no empty chunk, every pair once, termination |
| `wisconsin_steal` | `Wisconsin_steal` | 3 threads, 1 tuple against 2, as `conf/002048_radix1steal.conf` | **violated**: a pair is made twice |

### Why the bounds are enough

- `npj_chain`: five tuples in one chain with two slots a bucket make a table bucket and two overflow buckets, which
  is the first length at which an insertion leaves a full bucket behind that it never looks at again. With one
  bucket a buffer, each thread that overflows twice needs a second buffer. The shares are 2 and 3, so the last
  thread's is larger.
- `npj_untimed`: a third thread, a second list, and buckets of one slot, so that every second tuple of a list needs an
  overflow bucket, which its owner frees while two others may still look up. Three keys on two lists give lookups that
  walk past a tuple of another key; all assignments of keys are initial states.
- `stj_rehash`: two rehashes are the least with which a table that was itself filled by a rehash is walked. The code
  does four, each with the same code.
- `prj_join`: two radix bits make four clusters; the keys 0, 1 and 2 fall into three of them, and 0 and 4 into the
  same one although they differ, so that the join functions must compare keys and not clusters. Clusters with tuples
  of only one relation occur. With two nodes all assignments of keys to tuples are initial states, and all answers of
  the node lookup are taken. With one node the two threads take tasks off the same queues; there and with skew
  handling the keys are chosen (`MCParallelRadixJoin`): tasks of two clusters of pass 1 and several of one; clusters
  that are large in R or in S, in one pass or in both, one or two of them, some with fewer tuples of S than pieces.
  Both thresholds are 1, where the code's are some thousand tuples and 64 times as many: the code compares sizes with
  them and does nothing else.
- `wisconsin_join`: three threads are the least with which a histogram is added up over more than two, and with
  which a thread can fail its compare-and-swap against one that has failed before. Tables of up to seven tuples give
  each thread more than a page, or fewer pages than there are threads, and shares of the radix arrays of no tuple, one
  and two; a bucket of the hash table gets up to three chunks of two. Keys differ above the bits of the hash table,
  between them and those of the partitioners, and below, so that tuples of one bucket must be compared and a part has
  several buckets. Four parts are more than threads, and not a multiple. The keys are chosen and not all enumerated:
  the interleavings are what is explored. Work
  stealing is among the configurations with tuples that have no partner; with partners it violates
  `ImplementsJoinPairs`, which is what `wisconsin_steal` shows.
- `condbarrier_plain`: three waits let a thread be two broadcasts ahead of a thread that is still waiting for the
  mutex, if the barrier would allow it.
- `spinlock_x86`: five threads are more than any argument about the byte tells apart; the proof covers all numbers.

### Fairness

`FairSpec` of NPO and of the radix join asks of each thread that it runs when it can take a step (WF), which is what
a preemptive scheduler does. A thread that spins on a latch takes steps too, so nothing forces a latch to be handed
to a particular thread, and nothing has to: each latch is taken only as often as there are tuples, so in the end the
spinning thread is alone. Without timing a thread may walk freed memory, and then it need not go on at all; that
nothing else keeps the call from returning is `ReturnsUnlessUndefined`. The spinlock on its own has threads that
call for ever; there the property is that *some* waiter gets in (`SomebodyAcquires`), not that each does. The
fallback barrier needs more: a mutex that is free again and again must in the end be given to a thread that asks for
it (SF on taking it), which the usual implementations of Pthreads do in practice though POSIX does not promise it.
The Wisconsin join is again fair to each thread and no more: a compare-and-swap fails only because another thread
has taken a page, and a latch is taken as often as there are tuples, so both end.

### What disagrees

1. **aarch64 `tas()`** (`lock.h:57`) stores the complement of the byte it read and returns that complement, and
   ignores whether the store succeeded. A thread that finds the lock held clears it and enters. `lock.h:30` says it
   returns only when it has the lock. The x86 branch is correct, and everything about NPO is checked with it.
2. **The fallback barrier** waits once, with no loop around a predicate (`barrier.h:77`). POSIX allows spurious
   wakeups.
3. **With `NO_TIMING`** NPO has no barrier between the probe and `free_bucket_buffer()`
   (`no_partitioning_join.c:966`). The code says the barrier is there for reliable timing; it is also what keeps the
   overflow buckets alive while others walk them, or before they begin to. So with `NO_TIMING` it is not true that the
   table is complete as long as somebody looks tuples up: `EveryTuplePlacedOnce` and `StoredStaysFindable` are claimed
   with timing only, and without it there remain `CountsMatches` and `ReturnsUnlessUndefined`, which say what holds of
   the runs in which no thread comes to a freed bucket.
4. **Work stealing** in the Wisconsin join lets idle threads read the parts of others with `atomicReadNext()`, "a
   synchronized version of `readNext()`" (`pagecursor.h:34`). The parts of the radix partitioner are `FakeTable`s,
   whose version tests a flag and clears it without synchronisation (`table.h:228`): two threads get the same page and
   the result has its pairs twice.
5. **`get_numa_node_of_address()`** always answers -1, since its system call is commented out (`cpu_mapping.c:137`),
   and `parallel_radix_join.c:1108` uses the answer as an index. `main.c` offers only NPO_st and Group_by at this
   commit, so that the radix join is not reached from the command line.

`rehash_payload()` also sets `dest->key` to the column it hashes by (`no_partitioning_join.c:503`), as the comment at
line 277 asks of it (it speaks, in Chinese, of rebuilding the table with some payload as the key), and then copies the
whole tuple over it (line 504), which undoes it. The rehashed table is hashed by the column while its tuples keep
`payload[0]` as their key, and `probe_hashtable()`, which hashes and compares by one key, would not find them by the
column. `NPO_st()` never looks anything up, so nothing in the program shows it. The model has the key as the code
leaves it (`MoveTuple`), and the properties claim nothing of it: `TuplesConserved` is about the tuples, and
`TuplesInTheirList` about the list that each is in.

Because of 5, `prj_join` does not show that the radix join works as compiled: it shows that the algorithm around the
lookup is right when the lookup answers one of the nodes, every node having a thread. A node with memory but without
a thread would keep its tasks in its queue for ever; no run covers that, since it depends on a lookup that does not
exist in the build.

The skew handling is off by default, and where it is compiled in one input takes it out of its arrays: a cluster of
pass 2 with more tuples of S than the threshold and none of R becomes join tasks all the same (the test at
`parallel_radix_join.c:1255` comes before the one that both sides have tuples), and `bucket_chaining_join()` then
computes 0 buckets from 0 tuples. `RunJoin` says so; the inputs of `prj_join` leave that case to `histogram_join()`,
which copes with it. Clusters of pass 1 with one empty side go to the skew queue by the same order of tests, which
does no harm.

## What is proved

All of it is for every value of the constants that the named assumptions admit.

- `SpinLockProofs` (`Spec` is the x86 lock): `TypeCorrect`, `MutualExclusionCorrect`, `MutexImplemented`. Mutual
  exclusion alone is not inductive: it does not say what the byte is while somebody is inside. The invariant adds
  `LatchHeld`, the byte is 1 exactly while somebody is.
- `CondBarrierProofs` (`Spec` has no spurious wakeups; `CondBarrierAssumption`: a finite set of threads):
  `TypeCorrect`, `SleepersCountedCorrect`, `NoEarlyLeaveCorrect`, `BarrierImplemented`. The invariant adds that the
  mutex has one owner, that `called` is the number of sleepers (`CountInv`), and that there is a number g of
  completed rounds such that every thread is about to arrive at round g + 1, sleeps in it, or has been woken from
  round g and not returned (`RoundInv`). The cardinality argument is `AllButOne`: if all but one are asleep and the
  one arrives, everybody has arrived. The theorem fails with spurious wakeups, as `condbarrier_spurious_early`
  shows.
- `HashTableProofs` (`HashTableAssumption`: the table is not empty and its size is at most 2^30): `NextPow2Correct`,
  what the decrement, the five shifts and the increment of `NEXT_POW_2` compute is the least power of two that
  suffices. A number below 2^31 is the set of its bits (`BitsOf`, `Number`). Each shift copies the highest bit twice
  as far down (`OrShiftedSpreads`), so that after five of them all places below it are set (`SmearedIsAllOnes`), and
  one more is a power of two; the decrement is what leaves a power of two as it is. `HashInTable`: every key is
  hashed into the table.
- `NoPartitioningJoinProofs` (`JoinAssumption` and the above):
  - `TypeCorrect`. Types are not inductive on their own. That shares stay in range needs what is left to be given out
    (`SpawnInv`, `ShareInv`); that a reserved slot exists needs that `Inspect` has seen it free and that the thread is
    still at a tuple of its share (`LoopInv`); that a bucket taken from an overflow buffer is a bucket of the model,
    which has only so many, needs that a thread begins at most one buffer per tuple it has placed (`BufferInv`).
  - `LatchExclusionCorrect`, for x86: whoever is between `lock()` and `unlock()` has set the latch of its bucket, and
    no two have the same bucket (`LatchInv`). On aarch64 it is false, as `spinlock_aarch64_exclusion` shows.
  - `NoUseAfterFreeCorrect`, with timing compiled in. The label of a thread says how many waits it has begun and
    left, and nobody has left a wait that somebody has not begun (`PhaseInv`); so while one thread looks up, no other
    has come to free its buffers, and until then every bucket that is linked, about to be linked or looked at is in
    a buffer that has been allocated (`LinkedLive`). Without timing it is false, as `npj_untimed_free` shows.
  - `ChainShapeCorrect`, this and the following for x86. Besides the shape, `ChainInv` says that what a thread has
    read of its chain still holds when it acts on it (`SeenInv`), which is what the latch is for, and that a bucket
    which no buffer has handed out yet is empty and linked nowhere (`FreshInv`).
  - `EveryTuplePlacedOnceCorrect` and `StoredStaysFindableCorrect`, with timing compiled in. `PlaceInv` says that
    the tuples a thread has inserted are those of its share before its cursor, that each is in a slot on the chain
    of its key, that no tuple is in two slots, and that a slot reserved by a thread is counted, still empty and
    nobody else's. The shares are disjoint and cover R (`SharesApart`, `SharesCover`), the second barrier makes the
    first lookup wait for the last insertion, and the third makes the first free wait for the last lookup
    (`NeededIntact`, `NeededStaysIntact`).
  - `CountsMatchesCorrect`, with timing or without. Which bucket a chain consists of does not depend on whether it has
    been freed, so what has been inserted is what the chains were last given (`LinkedIsInserted`), and a walk that has
    met no freed bucket has seen that. `CountInv` says that the threads' counts add up to the tuples of S with a
    partner among those looked up, and `LostInv` that a thread which met a freed bucket has not come to the end of its
    share, without which `NPO()` does not return.
  - `ImplementsHashJoinCorrect`, with timing compiled in as well: each step of the threaded join is a step of
    `HashJoin` or a stutter; buckets are freed only when every tuple of S has been looked up (`Discard`). `RefInv`
    adds that a walk has not passed by a bucket with its key (`ProbeInv`), and that the result so far is the sum
    over the threads joined (`ResultInv`). Without timing the table may lose tuples while others are still to be
    looked up, which `HashJoin` does not allow.
- `SingleThreadJoinProofs` (`SingleThreadAssumption`, `HashTableAssumption`): `TuplesConservedCorrect`,
  `TuplesInTheirListCorrect`, `OnlyFirstOverflowHasRoomCorrect`, by the invariant `JoinInv`. The three hold each other
  up: an insertion puts the tuple into a free slot only if one of the two buckets it looks at is the only one with
  room, and a rehash moves each tuple once only if what the old table holds is exactly what was inserted and not yet
  walked. `FlattenGrows` and `FlattenInserts` say what one insertion does to the concatenation of a chain.
- `ParallelRadixJoinProofs` (`RadixJoinAssumption`, `RadixAssumption`):
  - `QueuesCountedCorrect`. `QueueInv` adds to the count that the links lead from newer slots to older ones, without a
    cycle, within the slots handed out; and since taking a slot and linking it are two steps, a slot that a thread
    holds is not linked yet and held by nobody else (`SlotHeld`). The pieces of a large cluster are added in one step,
    slot by slot (`AddedCorrect`).
  - `ScatterOverwritesNothingCorrect` and `PartitionCompleteCorrect`, the latter for the first pass and for the
    skewed clusters alike. The argument has three parts. Where the threads are: the label of a thread says how many
    waits it has begun and left (`Phase`), and what thread 0 has announced says at which array everybody is
    (`Announced`); so whoever plans its places does so when everybody has counted, and thread 0 makes tasks when
    everybody is done. What they compute: a histogram holds, for each digit, the tuples of a share with that digit
    or a smaller one (`HistogramInv`), and what a thread adds up from all of them is the number of tuples of smaller
    digits and of those of its own digit in earlier shares (`ClusterStartCorrect`). What they write: a cursor is
    that number with the thread's own tuples so far counted in (`CursorInv`), which makes the place of a tuple that
    of a stable counting sort; places are distinct and fill each cluster (`PlacesDiffer`, `ClusterCovered`); what
    has been scattered is at its place (`PlacedInv`), and nothing else is written (`WrittenInv`). Since skewed
    clusters are read from a queue, `SkewInv` says that its tasks are regions of the relations, for which the queue
    invariant is needed too.
  - `TasksApartCorrect`. Every region that somebody is going to read or write is a claim: a task that can still be
    taken from a queue, what is left of the task that a thread divides, the clusters of which thread 0 has yet to
    make tasks (`Claims`, `TaskOf`). Any two claims are apart, or are pieces of one large cluster, with the same R
    and shares of S apart (`ClaimsInv`). A step keeps a claim, drops it, or divides it among new claims that lie
    within it, so what was apart from the old one is apart from the new ones (`ClaimMoves`, `ClaimsStep`). Needed
    besides: that a slot taken from a queue is no longer waiting there, which is the queue invariant; that the
    region of a task, as it was taken, stays apart from the others while parts of it are already join tasks
    (`TakenInv`); that all tasks lie in their arrays (`TasksInv`); that what a thread counted are the digits of the
    tuples of its region, so that the offsets it adds up divide it (`CountsInv`); and that nobody joins before all
    the pieces of large clusters are in join queues (`MovedInv`), since until then such a piece waits among the
    partitioning tasks. The clusters of the first pass are apart by what `PartitionInv` says of the boundaries.
  - `TypeCorrect`. That counts and positions stay in range is not a fact about types: a histogram cannot exceed the
    relation because it counts the tuples of a set of positions, and the output and the cursors of the first pass
    lie in their arrays because they add up such counts, which `PartitionInv` says; a queue counts no more tasks
    than slots it has handed out, and its tasks are parts of the relations, which `QueueInv` and `TasksInv` say.
    `TypeInv` adds what is left. That the arrays hold positions of their own relation and nothing else (`Array`)
    follows step by step from where the positions come from, which is the other array of the relation
    (`ArrayClustered`, `OneArrayChanged`).
- `WisconsinJoinProofs` (`PartitionersAssumption`, `WisconsinAssumption`):
  - `NoEmptyChunksCorrect`. The theorem does not rest on the latches, so it holds also where the joiner leaves them
    out: an empty chunk is the only one of its list, and a chunk in which a thread saw tuples when it read the head
    still has some when it appends the next (`TakenInv`), whatever the others did in between, because tuples are
    never taken out.
  - `SlotsApartCorrect`, for every number of passes and blocks. A thread passes through the same waits whatever the
    partitioner, so its label, side, pass and block give it a place in one order (`Place`, `After`). `OrderInv` says
    that threads which have left the same number of waits are at the same place, and that one which has left one
    more is at the next place; so nobody is two stages away from anybody. `HistogramInv` says what the histograms
    are at the place of those in front, given who of them is done there. Zero at the start of a block, they first
    hold what each thread has counted for its right neighbour, the last one in the global histogram (`Counted`);
    then, digit by digit as the threads come to it, what all threads to the left have counted (`Combining`); then
    the global histogram holds where each part of the block ends (`Summing`); then each entry is the number of
    tuples of its digit before the position the thread is at (`Moving`), until the thread resets its histogram,
    without which the next block would begin wrongly. `PassInv` adds what lies outside the block: the ends of the
    parts of the passes before, and of the blocks before, rise (`Rising`), which is what makes the blocks of the
    next pass apart and in range; the rest is still zero. From `Moving`, the places a thread still writes are
    counted off from the tuples it still reads (`FutureIsSlots`), and such places of different digits or threads are
    apart (`SlotsDisjoint`). That the number of blocks of a pass is the number of parts of the one before, and that
    no histogram is shorter than the digits it is used for, comes from `generate()` of `hash.cpp`, whose logarithm
    is bounded by the width of an `int`.

**Recursion without induction over data.** Several definitions recurse: `Chain` and `Waiting` follow links,
`SumFunction` adds up, `FlattenSeq` concatenates, `CreateJoinTask` adds piece after piece. The library's induction
theorems cannot be used, but sets can be: a set of numbers has a least element (`SmallestNumber`, from the
well-foundedness of `<`), a finite set of rounds a largest one (`LargestSet`), and so the least round at which a
claim fails leads to a contradiction. `Reach`, the least set that holds where a walk begins and where its links
lead, is shown to be what `Chain` and `Waiting` compute (`ChainIsReach`, `WaitingIsReach`); sums exist and change as
their terms do (`TotalExists`, `SumChange`).

Only model-checked: liveness (`SomebodyAcquires`, `EverybodyLeaves`, `Termination`, `ReturnsUnlessUndefined`), which
the prover has no rules for; of the radix join `ImplementsPartitionedJoin`; of the Wisconsin join `TypeOK`,
`TableComplete`, `ImplementsSplit` and `ImplementsJoinPairs`. What `bucket_chaining_join()` and `histogram_join()`
compute is checked through `ImplementsPartitionedJoin` for every input of `prj_join`.

## Not modelled

- `Group_by` and `build_hashtable_st()`: their code is commented out or never called.
- PRHO's join with vector instructions, which reads keys at a stride of 8-byte tuples; the single-pass variant and
  the buffered scatter (`USE_SWWC_OPTIMIZED_PART`), which are off by default.
- `task_queue_copy_atomic()`, which has no caller, and the lists of free slots of a queue: slots are numbered in the
  order in which they are handed out, from one list after the other.
- The generator: what `main()` calls fills relations with random keys sequentially, and the joins' models begin with
  every assignment of keys instead. `parallel_create_relation()`, with the shuffle under two locks, has no caller.
- The tuple buffer, which one thread writes and reads, and only when results are materialised, which is off by
  default.
- Of the Wisconsin join: `FlatMemoryJoiner`, which no configuration of `conf/` sets up and which partitions a buffer
  that nothing has filled (the copy is made in `split()`, and it calls `realsplit()`); nested loops, the serial and
  multi-join programs, which call the same joiners one after the other; the range and the magic hash function; loading
  and parsing. `WisconsinAssumption` excludes more threads than parts to probe, for which `probe()` returns NULL and
  `main()` closes it (`main.cpp:364`); `CloseResults` models that as `"crashed"`. With
  more threads than parts the last thread of `placecursors()` would also read the entry before the first
  (`partitioner.cpp:392`); `PlaceCursors` treats part 0 specially for thread 0 only, as the code does. The assumption
  also excludes configurations in
  which tuples of one bucket lie in several parts, where the hash table would be built without locks by several
  threads; `conf/` has none.
- Materialisation of results, Zipf sampling, option parsing, timers, counters, affinity, `get_cpu_id()`.
- Failure of `malloc`/`calloc`: the code exits or ignores it.
- R smaller than one bucket: `NEXT_POW_2(0)` is 0 and the hash mask becomes all ones, undefined behaviour that
  `HashTableAssumption` excludes.

## Plan

The order was: the primitives (spinlock, barrier) with their abstract counterparts; NPO on top of these; NPO_st; the
radix join, then `RJ()`; the Wisconsin join, partitioners first; proofs from the bottom up. Done is what the tables
above list. Left are proofs:

1. The types of the Wisconsin join: its partitioners append pages and concatenate tables, so this needs what those
   folds over sequences do.
2. `TableComplete` and the refinements of the Wisconsin join and of the radix join. The first two need that the
   partitioners lose no tuple, of which only the radix partitioner's part resembles what is proved; the last needs
   what the two join functions compute.
