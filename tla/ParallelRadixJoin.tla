------------------------- MODULE ParallelRadixJoin -------------------------
(***************************************************************************)
(* The parallel radix joins PRO and PRH and the sequential one RJ of       *)
(* src/dynamic_hashjoin/src/parallel_radix_join.c, with the task queues of *)
(* task_queue.h.                                                           *)
(*                                                                         *)
(* join_init_run() spawns the threads, each with a share of both           *)
(* relations.  Pass 1: each thread counts the digits of its share, waits,  *)
(* computes from everybody's histograms where its tuples go, and scatters  *)
(* them into a common temporary array; R first, then S.  Thread 0 makes a  *)
(* task of every cluster that has tuples of both relations.  Pass 2: the   *)
(* threads take these tasks, cluster them again by the second digit, back  *)
(* into the arrays of the relations, and make join tasks.  Then the        *)
(* threads take the join tasks and add up their results.  Barriers         *)
(* separate the phases.  RJ() clusters the whole relations twice and joins *)
(* the clusters one after the other.                                       *)
(*                                                                         *)
(* With --enable-skewhandling a cluster of pass 1 that is larger than a     *)
(* threshold is not left to one thread: all of them cluster it again, as   *)
(* they did in pass 1, and a large cluster that comes out is cut into join *)
(* tasks with all of its R and a share of its S.                           *)
(*                                                                         *)
(* Modelled as compiled by default, with two passes, without the buffered  *)
(* scatter, timing on; with skew handling for some inputs.  A tuple is its *)
(* position in the input.  Each call that holds the mutex of a queue is    *)
(* one step.                                                               *)
(***************************************************************************)
EXTENDS RadixFunctions, Functions

CONSTANTS
  NThreads,        (* nthreads                                             *)
  Keys,            (* join keys                                            *)
  NumR, NumS,      (* tuples in the relations                              *)
  StubLookup,      (* whether get_numa_node_of_address() is as compiled,   *)
                   (* without its system call                              *)
  Inputs,          (* the configurations, join functions and keys that the *)
                   (* program runs with                                    *)
  SkewThreshold,   (* thresh1 of prj_thread(), 64 times the next one       *)
  LargeThreshold   (* THRESHOLD1(nthreads)                                 *)

JoinFunctions == {"bucket_chaining_join", "histogram_join"}

ASSUME RadixJoinAssumption ==
  /\ NThreads \in Nat \ {0}
  /\ Keys \subseteq Nat
  /\ NumR \in Nat /\ NumS \in Nat
  /\ StubLookup \in BOOLEAN
  /\ Inputs \subseteq [skew : BOOLEAN, regions : Nat \ {0}, jf : JoinFunctions,
                      r : [0 .. (NumR - 1) -> Keys], s : [0 .. (NumS - 1) -> Keys]]
  /\ LargeThreshold \in Nat /\ SkewThreshold \in Nat /\ LargeThreshold <= SkewThreshold

Threads == 0 .. (NThreads - 1)
Rel == {"R", "S"}
Size(x) == IF x = "R" THEN NumR ELSE NumS
Room(x) == Size(x) + PaddingTuples * FanOut1       (* RELATION_PADDING *)
Garbage == -1                       (* a position that was never written  *)
NULL == 0
Part == [at : Nat, num : Nat]
NoPart == [at |-> 0, num |-> 0]
NoTask == [x \in Rel |-> NoPart]

VARIABLES
  skew,                (* whether SKEW_HANDLING is defined                 *)
  numNuma,             (* get_num_numa_regions(): 4, or 1 without INTEL_E5 *)
  jf,                  (* join_function                                    *)
  key,                 (* keys of the tuples, by relation and tuple        *)
  rel, tmp,            (* tuples in relR, relS and in tmpRelR, tmpRelS     *)
  mainPc, mainI,       (* where join_init_run() or RJ() is, and its i      *)
  args,                (* per thread, where its shares begin and their     *)
                       (* sizes                                            *)
  result,              (* sum of the results so far                        *)
  pc,                  (* where each thread is                             *)
  side,                (* the relation it works on                         *)
  cur,                 (* its loop index i                                 *)
  hist,                (* histR, histS: a prefix sum per thread            *)
  output,              (* its outputR, outputS                             *)
  dst,                 (* its dst while it scatters                        *)
  held,                (* the task it has taken                            *)
  counts,              (* sizes of the clusters it has made of that task   *)
  offset,              (* its offsetR, offsetS                             *)
  slot,                (* the slot it was given for a new task             *)
  results,             (* its results                                      *)
  partQueue, joinQueue,(* the task queues of each node                     *)
  skewQueue, skewtask, (* the queue of clusters that all threads share, and *)
                       (* the one they are at, NoTask for NULL             *)
  arrived, left        (* the barrier                                      *)

inputs == <<skew, numNuma, jf, key>>
arrays == <<rel, tmp>>
mainVars == <<mainPc, mainI, args, result>>
pass1 == <<hist, output, dst>>
pass2 == <<held, counts, offset, slot>>
skewVars == <<skewQueue, skewtask>>
queues == <<partQueue, joinQueue, skewVars>>
barrier == <<arrived, left>>
vars == <<inputs, arrays, mainVars, pc, side, cur, pass1, pass2, results, queues, barrier>>

Sync == INSTANCE Barrier

-----------------------------------------------------------------------------
(* Task queues: slots numbered in the order in which they are handed out,  *)
(* from one list of free slots after the other, and linked from head.      *)

EmptyQueue == [head |-> NULL, count |-> 0, curr |-> 0, task |-> <<>>, next |-> <<>>]

(* Faulty: the slot is not marked as handed out. *)
AfterGetSlotForgets(q) == q

(* task_queue_get_slot(): the slot, and the queue afterwards. *)
FreeSlot(q) == q.curr + 1
AfterGetSlot(q) == [q EXCEPT !.curr = @ + 1]

(* The task t is written into slot s, then task_queue_add(). *)
With(f, s, v) == [r \in DOMAIN f \cup {s} |-> IF r = s THEN v ELSE f[r]]
AfterAdd(q, s, t) ==
  [q EXCEPT !.task = With(@, s, t), !.next = With(@, s, q.head), !.head = s, !.count = @ + 1]

(* A new slot with the task t. *)
AfterNew(q, t) == AfterAdd(AfterGetSlot(q), FreeSlot(q), t)

(* task_queue_get_atomic() of a queue that is not empty. *)
AfterGet(q) == [q EXCEPT !.head = q.next[q.head], !.count = @ - 1]

(* The slots reached from head: the tasks that wait in the queue. *)
Waiting(q) ==
  LET follow[reached \in SUBSET DOMAIN q.next] ==
        LET further == {q.next[s] : s \in reached} \ (reached \cup {NULL})
        IN  IF further = {} THEN reached ELSE follow[reached \cup further]
  IN  follow[{q.head} \ {NULL}]

Nodes == 0 .. (numNuma - 1)

(* get_numa_id(): the code lists 16 CPUs for each node. *)
NumaId(t) == IF t < 16 * numNuma THEN t % numNuma ELSE 0

(* What get_numa_node_of_address() may answer. *)
NodeAnswers == IF StubLookup THEN {-1} ELSE Nodes

-----------------------------------------------------------------------------

Positions(part) == part.at .. (part.at + part.num - 1)

(* The digits of the tuples at the positions P of an array. *)
Digits(x, array, P, r, m) == [p \in P |-> Digit(key[x][array[p]], r, m)]

Init ==
  /\ \E input \in Inputs :
       /\ skew = input.skew /\ numNuma = input.regions /\ jf = input.jf
       /\ key = [x \in Rel |-> IF x = "R" THEN input.r ELSE input.s]
  /\ rel = [x \in Rel |-> [p \in 0 .. (Room(x) - 1) |-> IF p < Size(x) THEN p ELSE Garbage]]
  /\ tmp = [x \in Rel |-> [p \in 0 .. (Room(x) - 1) |-> Garbage]]
  /\ mainPc \in {"spawn"} \cup (IF ~skew /\ jf = "bucket_chaining_join" THEN {"cluster"} ELSE {})
  /\ mainI = 0
  /\ args = [t \in Threads |-> NoTask]
  /\ result = 0
  /\ pc = [t \in Threads |-> "unborn"]
  /\ side = [t \in Threads |-> "R"]
  /\ cur = [t \in Threads |-> 0]
  /\ hist = [x \in Rel |-> [t \in Threads |-> [c \in 0 .. (FanOut1 - 1) |-> 0]]]
  /\ output = [t \in Threads |-> [x \in Rel |-> [c \in 0 .. FanOut1 |-> 0]]]
  /\ dst = [t \in Threads |-> [c \in 0 .. (FanOut1 - 1) |-> 0]]
  /\ held = [t \in Threads |-> NoTask]
  /\ counts = [t \in Threads |-> [x \in Rel |-> [c \in 0 .. (FanOut2 - 1) |-> 0]]]
  /\ offset = [t \in Threads |-> [x \in Rel |-> 0]]
  /\ slot = [t \in Threads |-> NULL]
  /\ results = [t \in Threads |-> 0]
  /\ partQueue = [n \in Nodes |-> EmptyQueue]
  /\ joinQueue = [n \in Nodes |-> EmptyQueue]
  /\ skewQueue = EmptyQueue
  /\ skewtask = NoTask
  /\ Sync!BarrierInit

Goto(t, label) == pc' = [pc EXCEPT ![t] = label]

-----------------------------------------------------------------------------
(* join_init_run() in the main thread.                                     *)

(* Thread i gets num_tuples / nthreads tuples, the last one what is left. *)
Share(part, i) ==
  LET numperthr == part.num \div NThreads
  IN  [at |-> part.at + i * numperthr,
       num |-> IF i = NThreads - 1 THEN part.num - i * numperthr ELSE numperthr]

Spawn ==
  /\ mainPc = "spawn"
  /\ args' = [args EXCEPT ![mainI] = [x \in Rel |-> Share([at |-> 0, num |-> Size(x)], mainI)]]
  /\ Goto(mainI, "start")
  /\ mainI' = IF mainI = NThreads - 1 THEN 0 ELSE mainI + 1
  /\ mainPc' = IF mainI = NThreads - 1 THEN "join" ELSE "spawn"
  /\ UNCHANGED <<inputs, arrays, result, side, cur, pass1, pass2, results, queues, barrier>>

(* pthread_join() of thread i, whose result is added; after the last one   *)
(* the queues, histograms and temporary arrays are freed.                  *)
Join ==
  /\ mainPc = "join"
  /\ pc[mainI] = "exited"
  /\ result' = result + results[mainI]
  /\ mainI' = IF mainI = NThreads - 1 THEN 0 ELSE mainI + 1
  /\ mainPc' = IF mainI = NThreads - 1 THEN "done" ELSE "join"
  /\ UNCHANGED <<inputs, arrays, args, pc, side, cur, pass1, pass2, results, queues, barrier>>

-----------------------------------------------------------------------------
(* RJ(), in one thread: R and S are clustered by the first digit into      *)
(* temporary arrays, then by the second digit back, each time as a whole,  *)
(* so that they end up in the order of their clusters.                     *)

NumClusters == FanOut1 * FanOut2

(* radix_cluster_nopadding(), pass by pass, R before S. *)
RadixCluster ==
  /\ mainPc = "cluster"
  /\ LET x == IF mainI % 2 = 0 THEN "R" ELSE "S"
         P == 0 .. (Size(x) - 1)
     IN  IF mainI < 2
         THEN /\ tmp' = [tmp EXCEPT ![x] =
                           Clustered(@, rel[x], Digits(x, rel[x], P, 0, FanOut1), P, 0, 0)]
              /\ UNCHANGED rel
         ELSE /\ rel' = [rel EXCEPT ![x] =
                           Clustered(@, tmp[x], Digits(x, tmp[x], P, Bits1, FanOut2), P, 0, 0)]
              /\ UNCHANGED tmp
  /\ mainI' = IF mainI = 3 THEN 0 ELSE mainI + 1
  /\ mainPc' = IF mainI = 3 THEN "serial_join" ELSE "cluster"
  /\ UNCHANGED <<inputs, args, result, pc, side, cur, pass1, pass2, results, queues, barrier>>

(* Cluster i of the array of the relation, by the count of each cluster. *)
SerialCluster(i) ==
  [x \in Rel |->
     LET P == 0 .. (Size(x) - 1)
         digit == Digits(x, rel[x], P, 0, NumClusters)
     IN  [at |-> Below(digit, P, i), num |-> Below(digit, P, i + 1) - Below(digit, P, i)]]

(* The keys of a partition, in the order of the array. *)
KeysOf(x, part) == [i \in 1 .. part.num |-> key[x][rel[x][part.at + i - 1]]]

BothSides(task) == \A x \in Rel : task[x].num > 0

JoinCluster ==
  /\ mainPc = "serial_join"
  /\ mainI < NumClusters
  /\ LET task == SerialCluster(mainI)
     IN  result' = IF BothSides(task)
                   THEN result + BucketChainingJoin(KeysOf("R", task["R"]), KeysOf("S", task["S"]))
                   ELSE result
  /\ mainI' = mainI + 1
  /\ UNCHANGED <<inputs, arrays, mainPc, args, pc, side, cur, pass1, pass2, results, queues,
                 barrier>>

Return ==
  /\ mainPc = "serial_join"
  /\ mainI = NumClusters
  /\ mainPc' = "done"
  /\ UNCHANGED <<inputs, arrays, mainI, args, result, pc, side, cur, pass1, pass2, results,
                 queues, barrier>>

-----------------------------------------------------------------------------
(* prj_thread(): pass 1, parallel_radix_partition() for R and then for S.  *)

(* The histograms are allocated before the first barrier. *)
Start(t) ==
  /\ pc[t] = "start"
  /\ Sync!Arrive(t)
  /\ Goto(t, "wait_start")
  /\ UNCHANGED <<inputs, arrays, mainVars, side, cur, pass1, pass2, results, queues>>

BeginPass1(t) ==
  /\ pc[t] = "wait_start"
  /\ Sync!Leave(t)
  /\ Goto(t, "count")
  /\ UNCHANGED <<inputs, arrays, mainVars, side, cur, pass1, pass2, results, queues>>

(* What is partitioned, and how: the relations by the first digit into the *)
(* temporary arrays, or the skewed cluster by the second digit back to its *)
(* place in the arrays of the relations.                                   *)
Again == skewtask # NoTask
From(x) == IF Again THEN tmp[x] ELSE rel[x]
Whole(x) == IF Again THEN skewtask[x] ELSE [at |-> 0, num |-> Size(x)]
MyPart(t, x) == IF Again THEN Share(skewtask[x], t) ELSE args[t][x]
FanOut == IF Again THEN FanOut2 ELSE FanOut1
Padding == IF Again THEN SmallPaddingTuples ELSE PaddingTuples
DigitOf(x, tuple) ==
  IF Again THEN Digit(key[x][tuple], Bits1, FanOut2) ELSE Digit(key[x][tuple], 0, FanOut1)

(* The histogram of the share and its prefix sum; arrival at the barrier. *)
Count(t) ==
  /\ pc[t] = "count"
  /\ LET x == side[t]
         P == Positions(MyPart(t, x))
         digit == [p \in P |-> DigitOf(x, From(x)[p])]
     IN  hist' = [hist EXCEPT ![x][t] = [c \in DOMAIN @ |-> @[c] + Below(digit, P, c + 1)]]
  /\ Sync!Arrive(t)
  /\ Goto(t, "wait_count")
  /\ UNCHANGED <<inputs, arrays, mainVars, side, cur, output, dst, pass2, results, queues>>

(* hist[i][c] added up for the threads i of the set T. *)
HistSum(x, c, T) == SumFunctionOnSet([i \in T |-> hist[x][i][c]], T)

(* Faulty: the thread's own share of the smaller digits is left out. *)
ClusterStartSkipsOwn(t, x, c) ==
  HistSum(x, c, 0 .. (t - 1))
    + (IF c = 0 THEN 0 ELSE HistSum(x, c - 1, (t + 1) .. (NThreads - 1)))
    + c * Padding

(* Faulty: the smaller digits of the threads before t are counted twice. *)
ClusterStartCountsTwice(t, x, c) ==
  HistSum(x, c, 0 .. (t - 1))
    + (IF c = 0 THEN 0 ELSE HistSum(x, c - 1, Threads))
    + c * Padding

(* Where the tuples of thread t with digit c go: behind those of smaller   *)
(* digits and those of the same digit from the threads before t.           *)
ClusterStart(t, x, c) ==
  HistSum(x, c, 0 .. (t - 1))
    + (IF c = 0 THEN 0 ELSE HistSum(x, c - 1, t .. (NThreads - 1)))
    + c * Padding

(* The boundaries of the clusters, and where the thread's tuples go. *)
PlanScatter(t) ==
  LET x == side[t]
      start == [c \in 0 .. (FanOut - 1) |-> ClusterStart(t, x, c)]
      end == Whole(x).num + FanOut * Padding
  IN  /\ output' = [output EXCEPT ![t][x] =
                      [c \in 0 .. FanOut |-> IF c = FanOut THEN end ELSE start[c]]]
      /\ dst' = [dst EXCEPT ![t] = start]
      /\ cur' = [cur EXCEPT ![t] = 0]

(* Faulty: the threads do not wait for each other's histograms. *)
BeginScatterAtOnce(t) ==
  /\ pc[t] = "wait_count"
  /\ left' = [left EXCEPT ![t] = @ + 1]
  /\ PlanScatter(t)
  /\ Goto(t, "scatter")
  /\ UNCHANGED <<inputs, arrays, mainVars, side, hist, pass2, results, queues, arrived>>

BeginScatter(t) ==
  /\ pc[t] = "wait_count"
  /\ Sync!Leave(t)
  /\ PlanScatter(t)
  /\ Goto(t, "scatter")
  /\ UNCHANGED <<inputs, arrays, mainVars, side, hist, pass2, results, queues>>

(* tmp[dst[idx]] = rel[i]; ++dst[idx] *)
Scatter(t) ==
  /\ pc[t] = "scatter"
  /\ LET x == side[t]
         tuple == From(x)[MyPart(t, x).at + cur[t]]
         idx == DigitOf(x, tuple)
         place == Whole(x).at + dst[t][idx]
     IN  /\ cur[t] < MyPart(t, x).num
         /\ IF Again THEN rel' = [rel EXCEPT ![x][place] = tuple] /\ UNCHANGED tmp
                     ELSE tmp' = [tmp EXCEPT ![x][place] = tuple] /\ UNCHANGED rel
         /\ dst' = [dst EXCEPT ![t][idx] = @ + 1]
  /\ cur' = [cur EXCEPT ![t] = @ + 1]
  /\ UNCHANGED <<inputs, mainVars, pc, side, hist, output, pass2, results, queues, barrier>>

(* R is partitioned, S is next. *)
EndScatterR(t) ==
  /\ pc[t] = "scatter" /\ side[t] = "R"
  /\ cur[t] = MyPart(t, "R").num
  /\ side' = [side EXCEPT ![t] = "S"]
  /\ Goto(t, "count")
  /\ UNCHANGED <<inputs, arrays, mainVars, cur, pass1, pass2, results, queues, barrier>>

(* S is partitioned too: arrival at the barrier. *)
EndScatterS(t) ==
  /\ pc[t] = "scatter" /\ side[t] = "S"
  /\ cur[t] = MyPart(t, "S").num
  /\ Sync!Arrive(t)
  /\ Goto(t, IF Again THEN "wait_again" ELSE "wait_scatter")
  /\ UNCHANGED <<inputs, arrays, mainVars, side, cur, pass1, pass2, results, queues>>

-----------------------------------------------------------------------------
(* Thread 0 makes the tasks of pass 2; the others go on to the barrier.    *)

BeginTasks(t) ==
  /\ pc[t] = "wait_scatter"
  /\ Sync!Leave(t)
  /\ cur' = [cur EXCEPT ![t] = 0]
  /\ Goto(t, IF t = 0 THEN "create" ELSE "created")
  /\ UNCHANGED <<inputs, arrays, mainVars, side, pass1, pass2, results, queues>>

(* The cluster i of pass 1, by the boundaries thread t has computed. *)
Pass1Task(t, i) ==
  [x \in Rel |-> [at |-> output[t][x][i],
                  num |-> output[t][x][i + 1] - output[t][x][i] - PaddingTuples]]

Exceeds(task, threshold) == \E x \in Rel : task[x].num > threshold

(* A cluster with tuples of both relations becomes a task in the queue of  *)
(* the node its memory is on.  With an index outside of the array of       *)
(* queues the behaviour is undefined: the model stops there.               *)
CreateTask(t) ==
  /\ pc[t] = "create"
  /\ cur[t] < FanOut1
  /\ LET task == Pass1Task(t, cur[t])
     IN  IF BothSides(task) /\ ~(skew /\ Exceeds(task, SkewThreshold))
         THEN \E node \in NodeAnswers :
                IF node \in Nodes
                THEN /\ partQueue' = [partQueue EXCEPT ![node] = AfterNew(@, task)]
                     /\ cur' = [cur EXCEPT ![t] = @ + 1]
                     /\ UNCHANGED pc
                ELSE Goto(t, "undefined") /\ UNCHANGED <<cur, partQueue>>
         ELSE cur' = [cur EXCEPT ![t] = @ + 1] /\ UNCHANGED <<pc, partQueue>>
  /\ skewQueue' = LET task == Pass1Task(t, cur[t])
                  IN  IF skew /\ Exceeds(task, SkewThreshold) THEN AfterNew(skewQueue, task)
                      ELSE skewQueue
  /\ UNCHANGED <<inputs, arrays, mainVars, side, pass1, pass2, results, joinQueue, skewtask,
                 barrier>>

EndTasks(t) ==
  /\ \/ pc[t] = "create" /\ cur[t] = FanOut1
     \/ pc[t] = "created"
  /\ Sync!Arrive(t)
  /\ Goto(t, "wait_tasks")
  /\ UNCHANGED <<inputs, arrays, mainVars, side, cur, pass1, pass2, results, queues>>

-----------------------------------------------------------------------------
(* Pass 2: serial_radix_partition() of the tasks of the thread's node.     *)

BeginPass2(t) ==
  /\ pc[t] = "wait_tasks"
  /\ Sync!Leave(t)
  /\ Goto(t, "partition")
  /\ UNCHANGED <<inputs, arrays, mainVars, side, cur, pass1, pass2, results, queues>>

TakePartTask(t) ==
  /\ pc[t] = "partition"
  /\ LET n == NumaId(t)
         q == partQueue[n]
     IN  /\ q.count > 0
         /\ held' = [held EXCEPT ![t] = q.task[q.head]]
         /\ partQueue' = [partQueue EXCEPT ![n] = AfterGet(q)]
  /\ side' = [side EXCEPT ![t] = "R"]
  /\ Goto(t, "cluster")
  /\ UNCHANGED <<inputs, arrays, mainVars, cur, pass1, counts, offset, slot, results,
                 joinQueue, skewVars, barrier>>

(* radix_cluster() of one relation, from the temporary array back to the   *)
(* same region of the array of the relation; R first, then S.              *)
ClusterRelation(t) ==
  /\ pc[t] = "cluster"
  /\ LET x == side[t]
         P == Positions(held[t][x])
         digit == Digits(x, tmp[x], P, Bits1, FanOut2)
     IN  /\ rel' = [rel EXCEPT ![x] =
                      Clustered(@, tmp[x], digit, P, SmallPaddingTuples, held[t][x].at)]
         /\ counts' = [counts EXCEPT ![t][x] =
                         [c \in 0 .. (FanOut2 - 1) |-> Cardinality({p \in P : digit[p] = c})]]
         /\ IF x = "R" THEN side' = [side EXCEPT ![t] = "S"] /\ UNCHANGED <<pc, cur, offset>>
            ELSE /\ Goto(t, "emit")
                 /\ cur' = [cur EXCEPT ![t] = 0]
                 /\ offset' = [offset EXCEPT ![t] = [y \in Rel |-> 0]]
                 /\ UNCHANGED side
  /\ UNCHANGED <<inputs, tmp, mainVars, pass1, held, slot, results, queues, barrier>>

(* The cluster i of the held task. *)
Pass2Task(t, i) ==
  [x \in Rel |-> [at |-> held[t][x].at + offset[t][x] + i * SmallPaddingTuples,
                  num |-> counts[t][x][i]]]

(* On to cluster i + 1. *)
NextCluster(t) ==
  /\ offset' = [offset EXCEPT ![t] = [x \in Rel |-> @[x] + counts[t][x][cur[t]]]]
  /\ cur' = [cur EXCEPT ![t] = @ + 1]

(* A cluster with tuples of both relations gets a slot for a join task, *)
GetJoinSlot(t) ==
  /\ pc[t] = "emit"
  /\ cur[t] < FanOut2
  /\ BothSides(Pass2Task(t, cur[t]))
  /\ LET n == NumaId(t)
     IN  /\ slot' = [slot EXCEPT ![t] = FreeSlot(joinQueue[n])]
         /\ joinQueue' = [joinQueue EXCEPT ![n] = AfterGetSlot(@)]
  /\ Goto(t, "add")
  /\ UNCHANGED <<inputs, arrays, mainVars, side, cur, pass1, held, counts, offset, results,
                 partQueue, skewVars, barrier>>

(* Faulty: the offset is not advanced behind the cluster. *)
AddJoinTaskKeepsOffset(t) ==
  /\ pc[t] = "add"
  /\ joinQueue' = [joinQueue EXCEPT ![NumaId(t)] = AfterAdd(@, slot[t], Pass2Task(t, cur[t]))]
  /\ cur' = [cur EXCEPT ![t] = @ + 1]
  /\ Goto(t, "emit")
  /\ UNCHANGED <<inputs, arrays, mainVars, side, pass1, held, counts, offset, slot, results,
                 partQueue, skewVars, barrier>>

(* which is filled in and added; *)
AddJoinTask(t) ==
  /\ pc[t] = "add"
  /\ joinQueue' = [joinQueue EXCEPT ![NumaId(t)] = AfterAdd(@, slot[t], Pass2Task(t, cur[t]))]
  /\ NextCluster(t)
  /\ Goto(t, "emit")
  /\ UNCHANGED <<inputs, arrays, mainVars, side, pass1, held, counts, slot, results,
                 partQueue, skewVars, barrier>>

(* Faulty: the loop does not get past a cluster without partners. *)
SkipClusterStays(t) ==
  /\ pc[t] = "emit"
  /\ cur[t] < FanOut2
  /\ ~BothSides(Pass2Task(t, cur[t]))
  /\ UNCHANGED vars

(* the others are skipped. *)
SkipCluster(t) ==
  /\ pc[t] = "emit"
  /\ cur[t] < FanOut2
  /\ ~BothSides(Pass2Task(t, cur[t]))
  /\ NextCluster(t)
  /\ UNCHANGED <<inputs, arrays, mainVars, pc, side, pass1, held, counts, slot, results,
                 queues, barrier>>

EndPartTask(t) ==
  /\ pc[t] = "emit"
  /\ cur[t] = FanOut2
  /\ Goto(t, "partition")
  /\ UNCHANGED <<inputs, arrays, mainVars, side, cur, pass1, pass2, results, queues, barrier>>

(* The queue is empty: arrival at the barrier. *)
EndPass2(t) ==
  /\ pc[t] = "partition" /\ ~skew
  /\ partQueue[NumaId(t)].count = 0
  /\ Sync!Arrive(t)
  /\ Goto(t, "wait_partition")
  /\ UNCHANGED <<inputs, arrays, mainVars, side, cur, pass1, pass2, results, queues>>

-----------------------------------------------------------------------------
(* Skew handling: the threads partition one skewed cluster after the other *)
(* together, until thread 0 finds none left.                               *)

NextSkewTask(t) ==
  /\ \/ pc[t] = "partition" /\ skew /\ partQueue[NumaId(t)].count = 0
     \/ pc[t] = "skew"
  /\ IF t # 0 THEN UNCHANGED skewVars
     ELSE IF skewQueue.count = 0 THEN skewtask' = NoTask /\ UNCHANGED skewQueue
     ELSE /\ skewtask' = skewQueue.task[skewQueue.head]
          /\ skewQueue' = AfterGet(skewQueue)
  /\ Sync!Arrive(t)
  /\ Goto(t, "wait_skew")
  /\ UNCHANGED <<inputs, arrays, mainVars, side, cur, pass1, pass2, results, partQueue, joinQueue>>

SeeSkewTask(t) ==
  /\ pc[t] = "wait_skew"
  /\ Sync!Leave(t)
  /\ Goto(t, IF Again THEN "allocate" ELSE "move")
  /\ UNCHANGED <<inputs, arrays, mainVars, side, cur, pass1, pass2, results, queues>>

(* New histograms and outputs, then a barrier before they are used. *)
AllocateAgain(t) ==
  /\ pc[t] = "allocate"
  /\ hist' = [x \in Rel |-> [hist[x] EXCEPT ![t] = [c \in 0 .. (FanOut2 - 1) |-> 0]]]
  /\ output' = [output EXCEPT ![t] = [x \in Rel |-> [c \in 0 .. FanOut2 |-> 0]]]
  /\ side' = [side EXCEPT ![t] = "R"]
  /\ Sync!Arrive(t)
  /\ Goto(t, "wait_allocate")
  /\ UNCHANGED <<inputs, arrays, mainVars, cur, dst, pass2, results, queues>>

PartitionAgain(t) ==
  /\ pc[t] = "wait_allocate"
  /\ Sync!Leave(t)
  /\ Goto(t, "count")
  /\ UNCHANGED <<inputs, arrays, mainVars, side, cur, pass1, pass2, results, queues>>

(* Thread 0 makes the join tasks; the others go on to the next cluster.    *)
BeginJoinTasks(t) ==
  /\ pc[t] = "wait_again"
  /\ Sync!Leave(t)
  /\ cur' = [cur EXCEPT ![t] = 0]
  /\ Goto(t, IF t = 0 THEN "create_join" ELSE "skew")
  /\ UNCHANGED <<inputs, arrays, mainVars, side, pass1, pass2, results, queues>>

(* The cluster i of the skewed one, by the boundaries thread t computed. *)
SkewJoinTask(t, i) ==
  [x \in Rel |-> [at |-> skewtask[x].at + output[t][x][i],
                  num |-> output[t][x][i + 1] - output[t][x][i] - SmallPaddingTuples]]

(* Faulty: each piece has all of S. *)
PieceOfAll(task, k) == task

(* The piece k of a large cluster has all of its R and a share of its S. *)
Piece(task, k) == [task EXCEPT !["S"] = Share(@, k)]

(* The pieces wait in the queue of partitioning tasks of thread 0's node.  *)
CreateJoinTask(t) ==
  /\ pc[t] = "create_join"
  /\ cur[t] < FanOut2
  /\ LET task == SkewJoinTask(t, cur[t])
         n == NumaId(t)
         added[k \in 0 .. NThreads] ==
           IF k = 0 THEN partQueue[n] ELSE AfterNew(added[k - 1], Piece(task, k - 1))
     IN  IF Exceeds(task, LargeThreshold)
         THEN partQueue' = [partQueue EXCEPT ![n] = added[NThreads]] /\ UNCHANGED joinQueue
         ELSE /\ joinQueue' = IF BothSides(task)
                              THEN [joinQueue EXCEPT ![n] = AfterNew(@, task)] ELSE joinQueue
              /\ UNCHANGED partQueue
  /\ cur' = [cur EXCEPT ![t] = @ + 1]
  /\ UNCHANGED <<inputs, arrays, mainVars, pc, side, pass1, pass2, results, skewVars, barrier>>

EndJoinTasks(t) ==
  /\ pc[t] = "create_join"
  /\ cur[t] = FanOut2
  /\ Goto(t, "skew")
  /\ UNCHANGED <<inputs, arrays, mainVars, side, cur, pass1, pass2, results, queues, barrier>>

(* No skewed cluster is left.  Thread 0 puts the pieces into the queue of  *)
(* join tasks; a piece keeps its slot, which is here a new one.            *)
MoveLargeTask(t) ==
  /\ pc[t] = "move" /\ t = 0
  /\ LET n == NumaId(t)
         q == partQueue[n]
     IN  /\ q.count > 0
         /\ partQueue' = [partQueue EXCEPT ![n] = AfterGet(q)]
         /\ joinQueue' = [joinQueue EXCEPT ![n] = AfterNew(@, q.task[q.head])]
  /\ UNCHANGED <<inputs, arrays, mainVars, pc, side, cur, pass1, pass2, results, skewVars, barrier>>

EndSkew(t) ==
  /\ pc[t] = "move"
  /\ t = 0 => partQueue[NumaId(t)].count = 0
  /\ Sync!Arrive(t)
  /\ Goto(t, "wait_partition")
  /\ UNCHANGED <<inputs, arrays, mainVars, side, cur, pass1, pass2, results, queues>>

-----------------------------------------------------------------------------
(* The join tasks of the thread's node.                                    *)

BeginJoin(t) ==
  /\ pc[t] = "wait_partition"
  /\ Sync!Leave(t)
  /\ Goto(t, "next")
  /\ UNCHANGED <<inputs, arrays, mainVars, side, cur, pass1, pass2, results, queues>>

TakeJoinTask(t) ==
  /\ pc[t] = "next"
  /\ LET n == NumaId(t)
         q == joinQueue[n]
     IN  /\ q.count > 0
         /\ held' = [held EXCEPT ![t] = q.task[q.head]]
         /\ joinQueue' = [joinQueue EXCEPT ![n] = AfterGet(q)]
  /\ Goto(t, "join")
  /\ UNCHANGED <<inputs, arrays, mainVars, side, cur, pass1, counts, offset, slot, results,
                 partQueue, skewVars, barrier>>

(* join_function() adds its matches; histogram_join() uses the region of R *)
(* in the temporary array to reorder R.  The pieces of a large cluster     *)
(* share that region, but they all write the same tuples to it.  With no   *)
(* tuple in R bucket_chaining_join() reads outside of its buckets.         *)
RunJoin(t) ==
  /\ pc[t] = "join"
  /\ LET r == KeysOf("R", held[t]["R"])
         s == KeysOf("S", held[t]["S"])
         at == held[t]["R"].at
         P == Positions(held[t]["R"])
         digit == [p \in P |-> HistDigit(r)[p - at + 1]]
     IN  IF jf = "histogram_join"
         THEN /\ results' = [results EXCEPT ![t] = @ + HistogramJoin(r, s)]
              /\ tmp' = [tmp EXCEPT !["R"] = Clustered(@, rel["R"], digit, P, 0, at)]
              /\ Goto(t, "next")
         ELSE IF r = <<>> /\ s # <<>> THEN Goto(t, "undefined") /\ UNCHANGED <<tmp, results>>
         ELSE /\ results' = [results EXCEPT ![t] = @ + BucketChainingJoin(r, s)]
              /\ Goto(t, "next")
              /\ UNCHANGED tmp
  /\ UNCHANGED <<inputs, rel, mainVars, side, cur, pass1, pass2, queues, barrier>>

(* The queue is empty: arrival at the last barrier. *)
EndJoin(t) ==
  /\ pc[t] = "next"
  /\ joinQueue[NumaId(t)].count = 0
  /\ Sync!Arrive(t)
  /\ Goto(t, "wait_join")
  /\ UNCHANGED <<inputs, arrays, mainVars, side, cur, pass1, pass2, results, queues>>

Exit(t) ==
  /\ pc[t] = "wait_join"
  /\ Sync!Leave(t)
  /\ Goto(t, "exited")
  /\ UNCHANGED <<inputs, arrays, mainVars, side, cur, pass1, pass2, results, queues>>

-----------------------------------------------------------------------------

Pass1(t) ==
  \/ BeginPass1(t) \/ Count(t) \/ BeginScatter(t)
  \/ Scatter(t) \/ EndScatterR(t) \/ EndScatterS(t)

Tasks(t) == BeginTasks(t) \/ CreateTask(t) \/ EndTasks(t)

Pass2(t) ==
  \/ BeginPass2(t) \/ TakePartTask(t) \/ ClusterRelation(t)
  \/ GetJoinSlot(t) \/ AddJoinTask(t) \/ SkipCluster(t) \/ EndPartTask(t) \/ EndPass2(t)

Joins(t) == BeginJoin(t) \/ TakeJoinTask(t) \/ RunJoin(t) \/ EndJoin(t) \/ Exit(t)

Skew(t) ==
  \/ NextSkewTask(t) \/ SeeSkewTask(t) \/ AllocateAgain(t) \/ PartitionAgain(t)
  \/ BeginJoinTasks(t) \/ CreateJoinTask(t) \/ EndJoinTasks(t) \/ MoveLargeTask(t) \/ EndSkew(t)

Thread(t) == Start(t) \/ Pass1(t) \/ Tasks(t) \/ Pass2(t) \/ Skew(t) \/ Joins(t)

Main == Spawn \/ Join \/ RadixCluster \/ JoinCluster \/ Return

(* join_init_run() or RJ() has returned. *)
Finished == mainPc = "done" /\ UNCHANGED vars

Next ==
  \/ Main
  \/ \E t \in Threads : Thread(t)
  \/ Finished

Spec == Init /\ [][Next]_vars

(* The scheduler runs every thread that can take a step. *)
FairSpec == Spec /\ WF_vars(Main) /\ \A t \in Threads : WF_vars(Thread(t))

-----------------------------------------------------------------------------

Pass1Labels == {"wait_start", "count", "wait_count", "scatter"}
Pass2Labels == {"partition", "cluster", "emit", "add", "wait_partition"}
SkewLabels ==
  {"skew", "wait_skew", "allocate", "wait_allocate", "wait_again", "create_join", "move"}
JoinLabels == {"next", "join", "wait_join", "exited"}
Labels ==
  {"unborn", "start", "wait_scatter", "create", "created", "wait_tasks", "undefined"}
    \cup Pass1Labels \cup Pass2Labels \cup SkewLabels \cup JoinLabels

QueueType(q) ==
  /\ q.curr \in Nat /\ q.count \in 0 .. q.curr
  /\ DOMAIN q.next = DOMAIN q.task /\ DOMAIN q.task \subseteq 1 .. q.curr
  /\ q.head \in DOMAIN q.task \cup {NULL}
  /\ \A s \in DOMAIN q.task : q.task[s] \in [Rel -> Part] /\ q.next[s] \in DOMAIN q.next \cup {NULL}

(* Every variable has its type; in particular no position is outside of    *)
(* its array, and no slot of a queue is used that was not handed out.      *)
TypeOK ==
  /\ skew \in BOOLEAN /\ numNuma \in Nat \ {0}
  /\ jf \in JoinFunctions
  /\ \A x \in Rel : /\ key[x] \in [0 .. (Size(x) - 1) -> Keys]
                     /\ rel[x] \in [0 .. (Room(x) - 1) -> {Garbage} \cup (0 .. (Size(x) - 1))]
                     /\ tmp[x] \in [0 .. (Room(x) - 1) -> {Garbage} \cup (0 .. (Size(x) - 1))]
  /\ mainPc \in {"spawn", "join", "cluster", "serial_join", "done"} /\ mainI \in Nat
  /\ args \in [Threads -> [Rel -> Part]]
  /\ result \in Nat
  /\ pc \in [Threads -> Labels]
  /\ side \in [Threads -> Rel]
  /\ cur \in [Threads -> Nat]
  /\ \A t \in Threads, x \in Rel : \E f \in {FanOut1, FanOut2} :
       /\ hist[x][t] \in [0 .. (f - 1) -> 0 .. (NumR + NumS)]
       /\ output[t][x] \in [0 .. f -> 0 .. Room(x)]
  /\ \A t \in Threads : \E f \in {FanOut1, FanOut2} :
       dst[t] \in [0 .. (f - 1) -> 0 .. (Room("R") + Room("S"))]
  /\ held \in [Threads -> [Rel -> Part]]
  /\ counts \in [Threads -> [Rel -> [0 .. (FanOut2 - 1) -> Nat]]]
  /\ offset \in [Threads -> [Rel -> Nat]]
  /\ slot \in [Threads -> Nat]
  /\ results \in [Threads -> Nat]
  /\ \A n \in Nodes : QueueType(partQueue[n]) /\ QueueType(joinQueue[n])
  /\ QueueType(skewQueue)
  /\ skewtask \in [Rel -> Part]
  /\ arrived \in [Threads -> Nat]
  /\ left \in [Threads -> Nat]

(* While the threads scatter the relations, each at the places it computed *)
(* for itself, no tuple is ever written over another one.                  *)
ScatterOverwritesNothing ==
  [][\A t \in Threads : pc[t] = "scatter" /\ ~Again /\ cur'[t] # cur[t] =>
       \A x \in Rel : \A p \in DOMAIN tmp[x] :
         tmp[x][p] # Garbage => tmp'[x][p] = tmp[x][p]]_vars

(* All the tuples are somewhere in the partitioned array, and the clusters *)
(* hold tuples with their digits.                                          *)
Partitioned(x, tuples, array, cluster, digit) ==
  /\ tuples \subseteq {array[p] : p \in DOMAIN array}
  /\ \A c \in DOMAIN cluster : \A p \in Positions(cluster[c][x]) :
       array[p] \in tuples /\ digit[array[p]] = c

(* When thread 0 makes tasks of the clusters that the threads have made    *)
(* together, of the relations or of a skewed cluster, every tuple is in    *)
(* the cluster of its digit by the boundaries of thread 0, which all the   *)
(* threads' places add up to.                                              *)
PartitionComplete ==
  \A x \in Rel :
    /\ pc[0] = "create" =>
         Partitioned(x, DOMAIN key[x], tmp[x],
                     [c \in 0 .. (FanOut1 - 1) |-> Pass1Task(0, c)],
                     [i \in DOMAIN key[x] |-> Digit(key[x][i], 0, FanOut1)])
    /\ pc[0] = "create_join" =>
         Partitioned(x, {tmp[x][p] : p \in Positions(skewtask[x])}, rel[x],
                     [c \in 0 .. (FanOut2 - 1) |-> SkewJoinTask(0, c)],
                     [i \in DOMAIN key[x] |-> Digit(key[x][i], Bits1, FanOut2)])

(* The tasks that wait in a queue, and those that a thread works on. *)
OpenTasks(queue) == UNION {{<<n, s>> : s \in Waiting(queue[n])} : n \in Nodes}
Working == {t \in Threads : pc[t] \in {"cluster", "emit", "add", "join"}}

Apart(a, b) ==
  \A x \in Rel : Positions(a[x]) \cap Positions(b[x]) = {}

(* Tasks with different parts of S and all of R of one large cluster. *)
PiecesOfOne(a, b) ==
  skew /\ a["R"] = b["R"] /\ Positions(a["S"]) \cap Positions(b["S"]) = {}

(* The tasks of pass 2 that are open are regions apart from each other, and *)
(* so are the join tasks: no two threads ever work on one part of an array, *)
(* but for the R of a large cluster, which its pieces share.               *)
TasksApart ==
  /\ \A queue \in {partQueue, joinQueue} :
       \A a, b \in OpenTasks(queue) :
         LET one == queue[a[1]].task[a[2]]
             other == queue[b[1]].task[b[2]]
         IN  a # b => Apart(one, other) \/ PiecesOfOne(one, other)
  /\ \A t, u \in Working :
       t # u => \/ Apart(held[t], held[u])
                \/ pc[t] = "join" /\ PiecesOfOne(held[t], held[u])
  /\ \A t \in Working : \A a \in OpenTasks(partQueue) :
       Apart(held[t], partQueue[a[1]].task[a[2]])

(* The count of a queue is the number of tasks that are reached from its   *)
(* head: none is cut off, none is counted that is gone.                    *)
QueuesCounted ==
  /\ \A n \in Nodes : \A q \in {partQueue[n], joinQueue[n]} :
       q.count = Cardinality(Waiting(q))
  /\ skewQueue.count = Cardinality(Waiting(skewQueue))

(* parallel_radix_join.c:1106, "Determine the NUMA node of each            *)
(* partition": the answer is a node there is a queue for.                  *)
NodeHasQueue == \A t \in Threads : pc[t] # "undefined"

(* The clusters that RJ() has joined, *)
SerialClustersJoined ==
  IF mainPc \in {"serial_join", "done"} /\ \A t \in Threads : pc[t] = "unborn"
  THEN {i \in 0 .. (mainI - 1) : BothSides(SerialCluster(i))} ELSE {}

(* the cluster that the tuples of a task come from, *)
TaskCluster(task) ==
  LET x == IF task["R"].num > 0 THEN "R" ELSE "S"
  IN  Digit(key[x][rel[x][task[x].at]], 0, NumClusters)

(* and those whose join tasks the threads have all finished. *)
ClustersJoined ==
  LET ClustersOf(tasks) == {TaskCluster(task) : task \in tasks}
      Added == UNION {{joinQueue[n].task[s] : s \in DOMAIN joinQueue[n].task} : n \in Nodes}
      Open == {joinQueue[a[1]].task[a[2]] : a \in OpenTasks(joinQueue)}
      Held == {held[t] : t \in {u \in Threads : pc[u] = "join"}}
  IN  IF \E t \in Threads : pc[t] \in JoinLabels
      THEN ClustersOf(Added) \ ClustersOf(Open \cup Held)
      ELSE {}

Abstract == INSTANCE PartitionedJoin WITH
  keyR <- key["R"],
  keyS <- key["S"],
  joined <- ClustersJoined \cup SerialClustersJoined,
  answer <- IF mainPc = "done" THEN result ELSE -1

(* Both kinds of join implement the promise: the clusters are joined one   *)
(* by one, none twice, all that have partners before the report, and the   *)
(* reported result is the number of pairs.                                 *)
ImplementsPartitionedJoin == Abstract!PairSpec

(* The call of join_init_run() or of RJ() returns. *)
Termination == <>(mainPc = "done")

=============================================================================
