---------------------------- MODULE WisconsinJoin ----------------------------
(***************************************************************************)
(* compute() and main() of src/dynamic_hashjoin/wisconsin-src/main.cpp:    *)
(* after the splits of Partitioners the threads build a hash table         *)
(* (algo/hashtable.h, .cpp), probe it (algo/storage.cpp), and leave their  *)
(* results to main(), which closes them.  How they share the parts of the  *)
(* two tables is chosen by joinerfactory.cpp among algo/build.inl and      *)
(* algo/probe.inl.                                                         *)
(*                                                                         *)
(* A bucket is a list of chunks, from the oldest; its head is the chunk    *)
(* that bucket[] points to.  A chunk knows the one behind it, and its free *)
(* pointer is the number of its tuples.                                    *)
(***************************************************************************)
EXTENDS Partitioners

CONSTANTS
  TableHash,        (* the hash function of the table                      *)
  ChunkRoom         (* buildpagesize, in tuples                            *)

PartitionedTable(c, w) ==
  IF w = "build" THEN c.partitionbuild = "yes" ELSE c.partitionprobe = "yes"

(* As in conf/: a side is joined by parts if and only if it is partitioned *)
(* (stealing builds from the whole), each thread has a part to probe, and  *)
(* the tuples of a bucket of the table are in one part, because the        *)
(* partitioners hash by the high bits of what the table hashes by.         *)
ASSUME WisconsinAssumption ==
  /\ ChunkRoom \in Nat \ {0}
  /\ TableHash \in [bits : Nat \ {0}, skipbits : Nat]
  /\ \A input \in Inputs :
       LET c == input.conf
       IN  /\ \A w \in Sides : PartitionedTable(c, w) <=> c.algorithm[w] # "no"
           /\ c.steal = "yes" => c.partitionbuild = "no" /\ c.partitionprobe = "yes"
  /\ NThreads <= Buckets(PartHash)
  /\ TableHash.skipbits <= PartHash.skipbits
  /\ PartHash.skipbits + PartHash.bits <= TableHash.skipbits + TableHash.bits

VARIABLES
  chunks,           (* the chunks of each bucket of the hash table         *)
  head,             (* the chunk that bucket[] points to                   *)
  latched,          (* the buckets whose lock is held                      *)
  output,           (* how often the results of the threads have each pair *)
  stealing,         (* threads in the second loop of ProbeSteal            *)
  joinresult,       (* threads whose result has been remembered            *)
  main              (* what main() is at                                   *)

table == <<chunks, head, latched>>
results == <<output, stealing, joinresult, main>>
vars == <<partitionVars, table, results>>

TableBuckets == 0 .. (Buckets(TableHash) - 1)
BucketOf(w, x) == HashOf(TableHash, key[w][x])
AllPairs == Tuples("build") \X Tuples("probe")

Init ==
  /\ PartitionInit
  /\ chunks = [b \in TableBuckets |-> <<[next |-> 0, tuples |-> <<>>]>>]
  /\ head = [b \in TableBuckets |-> 1]
  /\ latched = {}
  /\ output = [p \in AllPairs |-> 0]
  /\ stealing = {}
  /\ joinresult = {}
  /\ main = "joining"

-----------------------------------------------------------------------------
(* The loops over the parts: build() and probe() of the joiner, with the   *)
(* loop over the pages of a part in buildCursor() and probeCursor().       *)

ByParts(w) == PartitionedTable(conf, w)

(* The first part of a thread's loop, and how far it is to the next.       *)
FirstPart(t, w) == IF ByParts(w) THEN t ELSE 0
Stride(t, w) ==
  IF ~ByParts(w) THEN Len(result[w]) ELSE IF t \in stealing THEN 1 ELSE NThreads

ReadAtomically(t, w) == ~ByParts(w) \/ t \in stealing
InLoop(t, w) == idx[t] < Len(result[w])
Part(t, w) == result[w][idx[t] + 1]

Reading(w) == IF w = "build" THEN "build_read" ELSE "probe_read"
Taking(w) == IF w = "build" THEN "build_take" ELSE "probe_take"
Working(w, rest) == IF rest = EmptyPage THEN Reading(w) ELSE w
Waiting(w) == IF w = "build" THEN "wait_build" ELSE "wait_probe"

(* The barrier of compute() before build() and before probe().             *)
ArriveAfterSplit(t) ==
  /\ pc[t] = "split"
  /\ Sync!Arrive(t)
  /\ Goto(t, "wait_split")
  /\ UNCHANGED <<inputs, tables, result, radix, side, idx, block, hands, table, results>>

Enter(t, from, w) ==
  /\ pc[t] = from
  /\ Sync!Leave(t)
  /\ idx' = [idx EXCEPT ![t] = FirstPart(t, w)]
  /\ Goto(t, Reading(w))
  /\ UNCHANGED <<inputs, tables, result, radix, side, block, hands, table, results>>

EnterBuild(t) == Enter(t, "wait_split", "build")
EnterProbe(t) == Enter(t, "wait_build", "probe")

(* Whether several threads may read the same part at a time. *)
Shared(w) == ~ByParts(w) \/ (w = "probe" /\ conf.steal = "yes")

(* readNext() of a part that no other thread reads.                        *)
ReadOwnPage(t, w) ==
  /\ pc[t] = Reading(w) /\ InLoop(t, w) /\ ~Shared(w)
  /\ LET name == Part(t, w)
     IN  /\ ~AtEnd(tables[name])
         /\ tables' = [tables EXCEPT ![name].cur = @ + 1]
         /\ page' = [page EXCEPT ![t] = tables[name].pages[tables[name].cur]]
  /\ Goto(t, Working(w, page'[t]))
  /\ UNCHANGED <<inputs, result, radix, side, idx, block, seen, target, barrier,
                 table, results>>

(* The two steps of reading the next page of a part that is shared.        *)
ReadPage(t, w) ==
  /\ pc[t] = Reading(w) /\ InLoop(t, w) /\ Shared(w)
  /\ ~AtEnd(tables[Part(t, w)])
  /\ ReadCursor(t, Part(t, w))
  /\ Goto(t, Taking(w))
  /\ UNCHANGED <<inputs, tables, result, radix, side, idx, block, page, target, barrier,
                 table, results>>

TakePage(t, w) ==
  /\ pc[t] = Taking(w)
  /\ Moves(t, Part(t, w), ReadAtomically(t, w))
  /\ MoveCursor(t, Part(t, w))
  /\ Goto(t, Working(w, page'[t]))
  /\ UNCHANGED <<inputs, result, radix, side, idx, block, target, barrier, table, results>>

(* Faulty: the compare-and-swap is tried again with what it has failed on. *)
RetryPageUnread(t, w) ==
  /\ pc[t] = Taking(w)
  /\ ~Moves(t, Part(t, w), ReadAtomically(t, w))
  /\ UNCHANGED vars

RetryPage(t, w) ==
  /\ pc[t] = Taking(w)
  /\ ~Moves(t, Part(t, w), ReadAtomically(t, w))
  /\ LookAgain(t, Part(t, w))
  /\ Goto(t, IF AtEnd(tables[Part(t, w)]) THEN Reading(w) ELSE Taking(w))
  /\ UNCHANGED <<inputs, tables, result, radix, side, idx, block, page, target, barrier,
                 table, results>>

NextPart(t, w) ==
  /\ pc[t] = Reading(w) /\ InLoop(t, w)
  /\ AtEnd(tables[Part(t, w)])
  /\ idx' = [idx EXCEPT ![t] = @ + Stride(t, w)]
  /\ UNCHANGED <<inputs, tables, result, radix, pc, side, block, hands, barrier,
                 table, results>>

(* Whether ProbeSteal has its second loop still to come. *)
Steals(t, w) == w = "probe" /\ conf.steal = "yes" /\ t \notin stealing

BeginSteal(t) ==
  /\ pc[t] = "probe_read" /\ ~InLoop(t, "probe")
  /\ Steals(t, "probe")
  /\ stealing' = stealing \cup {t}
  /\ idx' = [idx EXCEPT ![t] = 0]
  /\ UNCHANGED <<inputs, tables, result, radix, pc, side, block, hands, barrier,
                 table, output, joinresult, main>>

(* build() and probe() return, and the barrier after them.                 *)
EndParts(t, w) ==
  /\ pc[t] = Reading(w) /\ ~InLoop(t, w)
  /\ ~Steals(t, w)
  /\ Sync!Arrive(t)
  /\ Goto(t, Waiting(w))
  /\ UNCHANGED <<inputs, tables, result, radix, side, idx, block, hands, table, results>>

-----------------------------------------------------------------------------
(* realbuildCursor(): allocate() in the bucket of the tuple, under its     *)
(* lock if the build table is not partitioned, then the tuple is copied.   *)

Locks == ~ByParts("build")

(* Faulty: the lock is never waited for. *)
LoadFreeUnlocked(t) ==
  /\ pc[t] = "build"
  /\ LET b == BucketOf("build", Head(page[t]))
     IN  /\ target' = [target EXCEPT ![t] = <<b, head[b], Len(chunks[b][head[b]].tuples)>>]
         /\ UNCHANGED latched
  /\ Goto(t, "allocate")
  /\ UNCHANGED <<inputs, tables, result, radix, side, idx, block, seen, page, barrier,
                 chunks, head, results>>

LoadFree(t) ==
  /\ pc[t] = "build"
  /\ LET b == BucketOf("build", Head(page[t]))
     IN  /\ Locks => b \notin latched
         /\ latched' = IF Locks THEN latched \cup {b} ELSE latched
         /\ target' = [target EXCEPT ![t] = <<b, head[b], Len(chunks[b][head[b]].tuples)>>]
  /\ Goto(t, "allocate")
  /\ UNCHANGED <<inputs, tables, result, radix, side, idx, block, seen, page, barrier,
                 chunks, head, results>>

(* What allocate() does to chunk c of a bucket when its free pointer is at *)
(* n tuples.                                                               *)
(* Faulty: the size of the tuple is not taken into account. *)
FitsOneMore(n) == n <= ChunkRoom

Fits(n) == n < ChunkRoom

(* Faulty: a full chunk is followed by a new one at once. *)
GrownAhead(s, c, n) ==
  LET filled == [s EXCEPT ![c].tuples = Append(SubSeq(@, 1, n), Garbage)]
  IN  IF n + 1 < ChunkRoom THEN filled ELSE Append(filled, [next |-> c, tuples |-> <<>>])

Grown(s, c, n) ==
  IF Fits(n) THEN [s EXCEPT ![c].tuples = Append(SubSeq(@, 1, n), Garbage)]
  ELSE Append(s, [next |-> c, tuples |-> <<Garbage>>])

Allocate(t) ==
  /\ pc[t] = "allocate"
  /\ LET b == target[t][1]
         grown == Grown(chunks[b], target[t][2], target[t][3])
     IN  /\ chunks' = [chunks EXCEPT ![b] = grown]
         /\ head' = [head EXCEPT ![b] = IF Len(grown) > Len(chunks[b]) THEN Len(grown) ELSE @]
         /\ target' = [target EXCEPT ![t] =
              IF Fits(@[3]) THEN <<b, @[2], @[3] + 1>> ELSE <<b, Len(grown), 1>>]
         /\ latched' = latched \ {b}
  /\ Goto(t, "write")
  /\ UNCHANGED <<inputs, tables, result, radix, side, idx, block, seen, page, barrier, results>>

WriteData(t) ==
  /\ pc[t] = "write"
  /\ LET slot == target[t]
     IN  chunks' = [chunks EXCEPT ![slot[1]][slot[2]].tuples[slot[3]] = Head(page[t])]
  /\ page' = [page EXCEPT ![t] = Tail(@)]
  /\ target' = [target EXCEPT ![t] = <<>>]
  /\ Goto(t, Working("build", page'[t]))
  /\ UNCHANGED <<inputs, tables, result, radix, side, idx, block, seen, barrier,
                 head, latched, results>>

-----------------------------------------------------------------------------
(* realprobeCursor(), a tuple at a time: the table does not change any     *)
(* more and the result is the thread's own.                                *)

(* Faulty: the iterator does not follow the chunks. *)
FoundInHead(b) == chunks[b][head[b]].tuples

(* The tuples that Iterator::readnext() returns, one call after the other: *)
(* a chunk behind the first ends the list if it is empty.                  *)
Found(b) ==
  LET from[c \in 0 .. Len(chunks[b])] ==
        IF c = 0 \/ (c # head[b] /\ chunks[b][c].tuples = <<>>) THEN <<>>
        ELSE chunks[b][c].tuples \o from[chunks[b][c].next]
  IN  from[head[b]]

ProbeTuple(t) ==
  /\ pc[t] = "probe"
  /\ LET y == Head(page[t])
         found == Found(BucketOf("probe", y))
         Matches(x) == Cardinality({i \in DOMAIN found :
                         found[i] = x /\ key["build"][x] = key["probe"][y]})
     IN  output' = [p \in AllPairs |->
                      IF p[2] = y THEN output[p] + Matches(p[1]) ELSE output[p]]
  /\ page' = [page EXCEPT ![t] = Tail(@)]
  /\ Goto(t, Working("probe", page'[t]))
  /\ UNCHANGED <<inputs, tables, result, radix, side, idx, block, seen, target, barrier,
                 table, stealing, joinresult, main>>

(* The last barrier of compute(), and the result under joinresultlock.     *)
PushResult(t) ==
  /\ pc[t] = "wait_probe"
  /\ Sync!Leave(t)
  /\ joinresult' = joinresult \cup {t}
  /\ Goto(t, "exited")
  /\ UNCHANGED <<inputs, tables, result, radix, side, idx, block, hands,
                 table, output, stealing, main>>

-----------------------------------------------------------------------------
(* probe() returns NULL to a thread that has had no part to probe.         *)
HasResult(t) == FirstPart(t, "probe") < Len(result["probe"]) \/ t \in stealing

(* main() joins the threads and closes the results.                        *)
CloseResults ==
  /\ main = "joining"
  /\ \A t \in Threads : pc[t] = "exited"
  /\ main' = IF \A t \in joinresult : HasResult(t) THEN "ended" ELSE "crashed"
  /\ UNCHANGED <<partitionVars, table, output, stealing, joinresult>>

Finished == main # "joining" /\ UNCHANGED vars

JoinParts(t, w) ==
  \/ ReadOwnPage(t, w) \/ ReadPage(t, w) \/ TakePage(t, w) \/ RetryPage(t, w)
  \/ NextPart(t, w) \/ EndParts(t, w)

Compute(t) ==
  \/ Splits(t) /\ UNCHANGED <<table, results>>
  \/ ArriveAfterSplit(t) \/ EnterBuild(t) \/ EnterProbe(t)
  \/ \E w \in Sides : JoinParts(t, w)
  \/ BeginSteal(t)
  \/ LoadFree(t) \/ Allocate(t) \/ WriteData(t)
  \/ ProbeTuple(t) \/ PushResult(t)

Next == CloseResults \/ Finished \/ \E t \in Threads : Compute(t)

Spec == Init /\ [][Next]_vars

(* The scheduler lets a thread that can go on go on; the spinlock of a     *)
(* bucket is held for two steps, and no thread takes one again and again   *)
(* for ever.                                                               *)
FairSpec == Spec /\ WF_vars(CloseResults) /\ \A t \in Threads : WF_vars(Compute(t))

-----------------------------------------------------------------------------
(* Properties.                                                             *)

JoinLabels ==
  {"wait_split", "build_read", "build_take", "build", "allocate", "write", "wait_build",
   "probe_read", "probe_take", "probe", "wait_probe", "exited"}

(* The variables hold what the code keeps in them: cursors are within      *)
(* their tables or just behind, histograms count no more than there are    *)
(* tuples and offsets stay within the arrays, no page and no chunk has     *)
(* more tuples than it has room for.                                       *)
TypeOK ==
  /\ [conf |-> conf, key |-> key] \in Inputs
  /\ \A name \in DOMAIN tables :
       LET w == name[1]  table_ == tables[name]
       IN  /\ table_.cur \in 1 .. (Len(table_.pages) + 1)
           /\ \A i \in DOMAIN table_.pages :
                /\ Range(table_.pages[i]) \subseteq Tuples(w) \cup {Garbage}
                /\ name[2] = "input" => Len(table_.pages[i]) <= InputRoom
                /\ name[2] = "output" /\ ~IsFake(name) =>
                     Len(table_.pages[i]) <= conf.pagesize
  /\ \A w \in Sides : Range(result[w]) \subseteq DOMAIN tables
  /\ \A w \in Sides, which \in {"old", "new"} :
       buf[w][which] \in [Positions(w) -> Tuples(w) \cup {Garbage}]
  /\ \A w \in Sides, t \in Threads :
       histograms[w][t] \in [HashKeys(w) -> 0 .. Len(key[w])]
  /\ \A w \in Sides : \A i \in Passes(w) :
       offsets[w][i] \in [0 .. (Blocks(i + 1) - 1) -> 0 .. Len(key[w])]
  /\ pc \in [Threads -> SplitLabels \cup JoinLabels]
  /\ side \in [Threads -> Sides]
  /\ \A t \in Threads : idx[t] \in Nat /\ block[t] \in [pass : Nat, iter : Nat]
  /\ \A b \in TableBuckets :
       /\ head[b] \in DOMAIN chunks[b]
       /\ \A c \in DOMAIN chunks[b] :
            /\ chunks[b][c].next \in 0 .. Len(chunks[b])
            /\ Len(chunks[b][c].tuples) <= ChunkRoom
            /\ Range(chunks[b][c].tuples) \subseteq Tuples("build") \cup {Garbage}
  /\ latched \subseteq TableBuckets
  /\ output \in [AllPairs -> Nat]
  /\ stealing \subseteq Threads /\ joinresult \subseteq Threads
  /\ main \in {"joining", "ended", "crashed"}

(* What the caller of a partitioner sees: how often each of the tables it  *)
(* returns holds each tuple.                                               *)
PartNumbers(w) == 0 .. (IF Algorithm(w) = "no" THEN 0 ELSE Cardinality(Parts) - 1)
Contents(w) ==
  [p \in PartNumbers(w) |->
     LET pages == tables[result[w][p + 1]].pages
     IN  [x \in Tuples(w) |->
            Cardinality({at \in (DOMAIN pages) \X (1 .. Len(key[w])) :
                           at[2] \in DOMAIN pages[at[1]] /\ pages[at[1]][at[2]] = x})]]
PartsOf(w) ==
  [x \in Tuples(w) |-> IF Algorithm(w) = "no" THEN 0 ELSE PartOf(w, x)]

Called(w) ==
  IF w = "build" THEN {t \in Threads : pc[t] \notin {"start", "wait_start"}}
  ELSE {t \in Threads : side[t] = "probe"}
Returned(w) ==
  IF w = "build" THEN {t \in Threads : side[t] = "probe"}
  ELSE {t \in Threads : side[t] = "probe" /\ pc[t] \notin SplitLabels \ {"split"}}
Returns(w) ==
  IF Returned(w) = {}
  THEN [p \in PartNumbers(w) |-> [x \in Tuples(w) |-> 0]] ELSE Contents(w)

BuildSplit == INSTANCE Split
  WITH partOf <- PartsOf("build"), numParts <- Cardinality(PartNumbers("build")),
       called <- Called("build"), returned <- Returned("build"), copies <- Returns("build")
ProbeSplit == INSTANCE Split
  WITH partOf <- PartsOf("probe"), numParts <- Cardinality(PartNumbers("probe")),
       called <- Called("probe"), returned <- Returned("probe"), copies <- Returns("probe")

(* Every partitioner keeps the promise of Split: when it returns, and ever *)
(* after, its tables hold each tuple of the input once, in the part that   *)
(* the tuple hashes to, whichever pages and blocks the threads have taken. *)
ImplementsSplit == BuildSplit!SplitSpec /\ ProbeSplit!SplitSpec

(* From the first probe on, every tuple of the build table is found        *)
(* exactly once by the iterator of its bucket: no two threads have been    *)
(* given the same slot, and no chunk has been cut off the list.            *)
TableComplete ==
  (\E t \in Threads : pc[t] \in {"probe_read", "probe_take", "probe", "wait_probe", "exited"}) =>
    \A x \in Tuples("build") :
      LET found == Found(BucketOf("build", x))
      IN  Cardinality({i \in DOMAIN found : found[i] = x}) = 1

(* The caveat of readnext(), whose iterator ends at an empty chunk and     *)
(* would lose those behind it: only the chunk a bucket begins with is ever *)
(* empty, and only until there is another.                                 *)
NoEmptyChunks ==
  \A b \in TableBuckets : \A c \in DOMAIN chunks[b] :
    chunks[b][c].tuples = <<>> => c = head[b] /\ chunks[b][c].next = 0

JoinOfTables == INSTANCE JoinPairs
  WITH buildKeys <- key["build"], probeKeys <- key["probe"], made <- output,
       ended <- main = "ended"

(* The threads make the pairs that the join of the two tables consists of, *)
(* each once, and main() does not end the join before they are all made.   *)
ImplementsJoinPairs == JoinOfTables!PairsSpec

(* No pair of tuples is put into the results twice, though the threads     *)
(* that have nothing left to do take pages from the parts of the others.   *)
NoPairTwice == \A p \in AllPairs : output[p] <= 1

(* main() gets to its end: no thread waits for ever at a barrier, for the  *)
(* lock of a bucket or with a compare-and-swap, and none leaves a NULL     *)
(* result for main() to close.                                             *)
Termination == <>(main = "ended")

=============================================================================
