---------------------------- MODULE Partitioners ----------------------------
(***************************************************************************)
(* The partitioners of src/dynamic_hashjoin/wisconsin-src/partitioner.cpp. *)
(* compute() in main.cpp has every thread call split() of the partitioner  *)
(* of the build table and then of that of the probe table.                 *)
(*                                                                         *)
(*   no           the input is the only part                               *)
(*   parallel     the threads share the tables of the parts, locking them  *)
(*                to append a tuple                                        *)
(*   independent  each thread fills tables of its own, which are linked to *)
(*                one another afterwards                                   *)
(*   radix        one or more passes between two arrays, each with a       *)
(*                histogram per thread                                     *)
(*                                                                         *)
(* A tuple is its position in the input, from 1; a part is a number from   *)
(* 0.  A step takes or moves a pointer that threads share, appends a tuple *)
(* under the lock of its table, or works on what no other thread uses.     *)
(***************************************************************************)
EXTENDS PageTables, FiniteSets, Functions

CONSTANTS
  NThreads,         (* threads                                             *)
  Inputs,           (* what the configuration file says, and the keys in   *)
                    (* the two tables, as value - _min                     *)
  InputRoom,        (* bucksize, in tuples                                 *)
  PartHash          (* the hash function of the partitioners               *)

Threads == 0 .. (NThreads - 1)
LastThread == NThreads - 1
Sides == {"build", "probe"}
Algorithms == {"no", "parallel", "independent", "radix"}
NoYes == {"no", "yes"}
Configuration ==
  [algorithm : [Sides -> Algorithms], passes : Nat \ {0}, pagesize : Nat \ {0},
   partitionbuild : NoYes, partitionprobe : NoYes, steal : NoYes]

(* The number of parts is configured as an int.  The pages of the          *)
(* independent partitioner hold pagesize/nthreads.                         *)
ASSUME PartitionersAssumption ==
  /\ NThreads \in Nat \ {0}
  /\ Inputs \subseteq [conf : Configuration, key : [Sides -> Seq(Nat)]]
  /\ InputRoom \in Nat \ {0}
  /\ PartHash \in [bits : 1 .. 31, skipbits : Nat]
  /\ \A input \in Inputs, w \in Sides :
       LET c == input.conf
       IN  /\ c.algorithm[w] = "independent" => c.pagesize >= NThreads
           /\ c.algorithm[w] = "radix" => c.passes <= PartHash.bits

VARIABLES
  conf,             (* the configuration                                   *)
  key,              (* the keys of the tuples, per side                    *)
  tables,           (* every table, by its name                            *)
  result,           (* names of the tables that split() returns, per side  *)
  buf,              (* oldbuf and newbuf of the radix partitioner          *)
  histograms,       (* its histograms, per thread                          *)
  offsets,          (* its global histograms, per pass                     *)
  pc,               (* where each thread is                                *)
  side,             (* the side it works on                                *)
  idx,              (* its loop index: a part, or a tuple of its share     *)
  block,            (* its pass and iter                                   *)
  seen,             (* the cursor, or the slot, it has just read           *)
  page,             (* what it has still to read of the page it has taken  *)
  target,           (* the slot it has allocated                           *)
  arrived, left     (* the barriers                                        *)

inputs == <<conf, key>>
radix == <<buf, histograms, offsets>>
hands == <<seen, page, target>>
barrier == <<arrived, left>>
partitionVars ==
  <<inputs, tables, result, radix, pc, side, idx, block, hands, barrier>>

Sync == INSTANCE Barrier

Goto(t, label) == pc' = [pc EXCEPT ![t] = label]

Tuples(w) == 1 .. Len(key[w])
Algorithm(w) == conf.algorithm[w]

(* The names of the tables of side w. *)
Input(w) == <<w, "input">>
Output(w, p) == <<w, "output", p>>
Temp(w, t, p) == <<w, "temp", t, p>>
Share(w, t) == <<w, "share", t>>

Parts == 0 .. (Buckets(PartHash) - 1)
PartOf(w, x) == HashOf(PartHash, key[w][x])

(* createPartitioner() and init() of the chosen partitioner: where a table *)
(* stands before the threads start.                                        *)
TableNames(w) ==
  {Input(w)}
    \cup (IF Algorithm(w) = "no" THEN {} ELSE {Output(w, p) : p \in Parts})
    \cup (IF Algorithm(w) = "independent" THEN {Temp(w, t, p) : t \in Threads, p \in Parts} ELSE {})
    \cup (IF Algorithm(w) = "radix" THEN {Share(w, t) : t \in Threads} ELSE {})

InitialTable(w, name) ==
  LET loaded == LoadedPages(Len(key[w]), InputRoom)
  IN  CASE name[2] = "share" -> Opened(DealtPages(loaded, NThreads, name[3]))
        [] name[2] = "input" /\ Algorithm(w) # "radix" -> Opened(loaded)
        [] Algorithm(w) = "radix" -> Opened(<<>>)
        [] OTHER -> NewTable

(* vec_hf, the number of blocks a pass begins with, and the arrays.        *)
PassHash(pass) == Generate(PartHash, conf.passes)[pass]
HistSize(pass) == Buckets(PassHash(pass))
Blocks(pass) ==
  FoldFunction(LAMBDA a, b : a * b, 1, [i \in 0 .. (pass - 1) |-> HistSize(i)])
Passes(w) == 0 .. (IF Algorithm(w) = "radix" THEN conf.passes - 1 ELSE -1)
Positions(w) == 0 .. (IF Algorithm(w) = "radix" THEN Len(key[w]) - 1 ELSE -1)
HashKeys(w) == UNION {0 .. (HistSize(i) - 1) : i \in Passes(w)}

(* What split() is entered with: the partitioner decides.                  *)
Entry(w) ==
  CASE Algorithm(w) = "no" -> "push"
    [] Algorithm(w) = "radix" -> "copy_share"
    [] OTHER -> "split_read"

PartitionInit ==
  /\ \E input \in Inputs : conf = input.conf /\ key = input.key
  /\ tables = [name \in UNION {TableNames(w) : w \in Sides} |-> InitialTable(name[1], name)]
  /\ result = [w \in Sides |->
                 IF Algorithm(w) = "no" THEN <<>>
                 ELSE [i \in 1 .. Cardinality(Parts) |-> Output(w, i - 1)]]
  /\ buf = [w \in Sides |-> [which \in {"old", "new"} |-> [p \in Positions(w) |-> Garbage]]]
  /\ histograms = [w \in Sides |-> [t \in Threads |-> [h \in HashKeys(w) |-> 0]]]
  /\ offsets = [w \in Sides |-> [i \in Passes(w) |->
                  [o \in 0 .. (Blocks(i + 1) - 1) |-> 0]]]
  /\ pc = [t \in Threads |-> "start"]
  /\ side = [t \in Threads |-> "build"]
  /\ idx = [t \in Threads |-> 0]
  /\ block = [t \in Threads |-> [pass |-> 0, iter |-> 0]]
  /\ seen = [t \in Threads |-> 0]
  /\ page = [t \in Threads |-> EmptyPage]
  /\ target = [t \in Threads |-> <<>>]
  /\ Sync!BarrierInit

-----------------------------------------------------------------------------
(* compute() up to the end of its second split().                          *)

Start(t) ==
  /\ pc[t] = "start"
  /\ Sync!Arrive(t)
  /\ Goto(t, "wait_start")
  /\ UNCHANGED <<inputs, tables, result, radix, side, idx, block, hands>>

EnterFirstSplit(t) ==
  /\ pc[t] = "wait_start"
  /\ Sync!Leave(t)
  /\ Goto(t, Entry("build"))
  /\ UNCHANGED <<inputs, tables, result, radix, side, idx, block, hands>>

(* The last barrier of a split(): it returns, the next one is called.      *)
ReturnFromSplit(t) ==
  /\ pc[t] = "wait_return"
  /\ Sync!Leave(t)
  /\ side' = [side EXCEPT ![t] = "probe"]
  /\ Goto(t, IF side[t] = "build" THEN Entry("probe") ELSE "split")
  /\ idx' = [idx EXCEPT ![t] = 0]
  /\ block' = [block EXCEPT ![t] = [pass |-> 0, iter |-> 0]]
  /\ UNCHANGED <<inputs, tables, result, radix, hands>>

(* Partitioner::split(): thread 0 makes the input the only part.           *)
PushInput(t) ==
  /\ pc[t] = "push"
  /\ result' = IF t = 0 THEN [result EXCEPT ![side[t]] = Append(@, Input(side[t]))]
               ELSE result
  /\ Sync!Arrive(t)
  /\ Goto(t, "wait_return")
  /\ UNCHANGED <<inputs, tables, radix, side, idx, block, hands>>

-----------------------------------------------------------------------------
(* atomicReadNext() and readNext(), in two steps: the cursor is read, then *)
(* moved.  That of a table is moved by compare-and-swap if the call is     *)
(* atomic; the table of one page that the radix partitioner returns,       *)
(* FakeTable, has one readNext() for both, which does not synchronise.     *)

IsFake(name) == name[2] = "output" /\ Algorithm(name[1]) = "radix"

ReadCursor(t, name) == seen' = [seen EXCEPT ![t] = tables[name].cur]

(* What the compare-and-swap that fails tells: where the cursor is, if not *)
(* at the end.                                                             *)
LookAgain(t, name) ==
  seen' = [seen EXCEPT ![t] = IF AtEnd(tables[name]) THEN 0 ELSE tables[name].cur]

(* Faulty: the cursor is moved whatever it is by now. *)
MovesPlainly(t, name, atomic) == TRUE

(* Whether the second step moves the cursor. *)
Moves(t, name, atomic) ==
  atomic /\ ~IsFake(name) => tables[name].cur = seen[t]

MoveCursor(t, name) ==
  /\ tables' = [tables EXCEPT ![name].cur = seen[t] + 1]
  /\ page' = [page EXCEPT ![t] = tables[name].pages[seen[t]]]
  /\ seen' = [seen EXCEPT ![t] = 0]

-----------------------------------------------------------------------------
(* The parallel and the independent partitioner: pages of the input are    *)
(* handed out, and their tuples appended to a table for each part.         *)

(* The loop over the tuples of a page, and the loop over the pages. *)
Scanning(rest) == IF rest = EmptyPage THEN "split_read" ELSE "scan"

SplitRead(t) ==
  /\ pc[t] = "split_read"
  /\ ~AtEnd(tables[Input(side[t])])
  /\ ReadCursor(t, Input(side[t]))
  /\ Goto(t, "split_take")
  /\ UNCHANGED <<inputs, tables, result, radix, side, idx, block, page, target, barrier>>

SplitTake(t) ==
  /\ pc[t] = "split_take"
  /\ Moves(t, Input(side[t]), TRUE)
  /\ MoveCursor(t, Input(side[t]))
  /\ Goto(t, Scanning(page'[t]))
  /\ UNCHANGED <<inputs, result, radix, side, idx, block, target, barrier>>

SplitRetry(t) ==
  /\ pc[t] = "split_take"
  /\ ~Moves(t, Input(side[t]), TRUE)
  /\ LookAgain(t, Input(side[t]))
  /\ Goto(t, IF AtEnd(tables[Input(side[t])]) THEN "split_read" ELSE "split_take")
  /\ UNCHANGED <<inputs, tables, result, radix, side, idx, block, page, target, barrier>>

(* AtomicWriteTable::append() takes a slot under the lock of the table,    *)
AllocateTuple(t) ==
  /\ pc[t] = "scan" /\ Algorithm(side[t]) = "parallel"
  /\ LET name == Output(side[t], PartOf(side[t], Head(page[t])))
         grown == AppendTuple(tables[name].pages, Garbage, conf.pagesize)
     IN  /\ tables' = [tables EXCEPT ![name].pages = grown]
         /\ target' = [target EXCEPT ![t] = <<name, Len(grown), Len(Last(grown))>>]
  /\ Goto(t, "copy")
  /\ UNCHANGED <<inputs, result, radix, side, idx, block, seen, page, barrier>>

(* and copies the tuple into it after the unlock.                          *)
CopyTuple(t) ==
  /\ pc[t] = "copy"
  /\ LET slot == target[t]
     IN  tables' = [tables EXCEPT ![slot[1]].pages[slot[2]][slot[3]] = Head(page[t])]
  /\ page' = [page EXCEPT ![t] = Tail(@)]
  /\ target' = [target EXCEPT ![t] = <<>>]
  /\ Goto(t, Scanning(page'[t]))
  /\ UNCHANGED <<inputs, result, radix, side, idx, block, seen, barrier>>

(* WriteTable::append() to the thread's own tables, for a whole page.      *)
AppendPrivately(t) ==
  /\ pc[t] = "scan" /\ Algorithm(side[t]) = "independent"
  /\ LET w == side[t]
         mine(p) == SelectSeq(page[t], LAMBDA x : PartOf(w, x) = p)
     IN  tables' = [name \in DOMAIN tables |->
                      IF \E p \in Parts : name = Temp(w, t, p)
                      THEN [tables[name] EXCEPT !.pages =
                              AppendTuples(@, mine(name[4]), conf.pagesize \div NThreads)]
                      ELSE tables[name]]
  /\ page' = [page EXCEPT ![t] = EmptyPage]
  /\ Goto(t, "split_read")
  /\ UNCHANGED <<inputs, result, radix, side, idx, block, seen, target, barrier>>

EndSplit(t) ==
  /\ pc[t] = "split_read"
  /\ AtEnd(tables[Input(side[t])])
  /\ Sync!Arrive(t)
  /\ Goto(t, IF Algorithm(side[t]) = "parallel" THEN "wait_return" ELSE "wait_temp")
  /\ UNCHANGED <<inputs, tables, result, radix, side, idx, block, hands>>

BeginConcatenate(t) ==
  /\ pc[t] = "wait_temp"
  /\ Sync!Leave(t)
  /\ Goto(t, "concatenate")
  /\ UNCHANGED <<inputs, tables, result, radix, side, idx, block, hands>>

(* WriteTable::concatenate() of everybody's tables, for every NThreads-th  *)
(* part.                                                                   *)
Concatenate(t) ==
  /\ pc[t] = "concatenate"
  /\ LET w == side[t]
         mine == {Output(w, p) : p \in {q \in Parts : q % NThreads = t}}
         linked(p) == FlattenSeq([u \in 1 .. NThreads |-> tables[Temp(w, u - 1, p)].pages])
     IN  tables' = [name \in DOMAIN tables |->
                      IF name \in mine
                      THEN [tables[name] EXCEPT !.pages = @ \o linked(name[3])]
                      ELSE tables[name]]
  /\ Sync!Arrive(t)
  /\ Goto(t, "wait_return")
  /\ UNCHANGED <<inputs, result, radix, side, idx, block, hands>>

-----------------------------------------------------------------------------
(* The radix partitioner: the share of the pages is copied to oldbuf, then *)
(* every pass partitions every block from oldbuf to newbuf.                *)

NumTuples(pages) == SumFunctionOnSet([i \in 1 .. Len(pages) |-> Len(pages[i])], 1 .. Len(pages))

(* destoffsets: how many tuples the threads before t have.                 *)
DestOffset(w, t) ==
  SumFunctionOnSet([u \in Threads |-> NumTuples(tables[Share(w, u)].pages)], 0 .. (t - 1))

(* parallelCopyTuples(), which reads the share to its end.                 *)
CopyShare(t) ==
  /\ pc[t] = "copy_share"
  /\ LET w == side[t]
         share == tables[Share(w, t)]
         copied == FlattenSeq(share.pages)
         base == DestOffset(w, t)
     IN  /\ buf' = [buf EXCEPT ![w].old =
                      [p \in DOMAIN @ |-> IF p - base \in 0 .. (Len(copied) - 1)
                                          THEN copied[p - base + 1] ELSE @[p]]]
         /\ tables' = [tables EXCEPT ![Share(w, t)].cur = Len(share.pages) + 1]
  /\ Sync!Arrive(t)
  /\ Goto(t, "wait_copy")
  /\ UNCHANGED <<inputs, result, histograms, offsets, side, idx, block, hands>>

(* What realsplit() works out for the block of thread t: the hash function *)
(* of the pass, where the block starts and ends, and the thread's share.   *)
Digit(t, x) ==
  IF x \in Tuples(side[t]) THEN HashOf(PassHash(block[t].pass), key[side[t]][x]) ELSE 0

BlockStart(t) ==
  LET pass == block[t].pass  iter == block[t].iter
  IN  IF pass = 0 \/ iter = 0 THEN 0 ELSE offsets[side[t]][pass - 1][iter - 1]

BlockEnd(t) ==
  LET pass == block[t].pass  iter == block[t].iter
  IN  IF pass = 0 THEN Len(key[side[t]]) ELSE offsets[side[t]][pass - 1][iter]

ShareOfBlock(t) ==
  LET tuplesinblock == BlockEnd(t) - BlockStart(t)
      items == tuplesinblock \div NThreads
  IN  [start |-> BlockStart(t) + items * t,
       items |-> IF t = LastThread THEN tuplesinblock - items * t ELSE items]

(* Where the global histogram of digit h of the block is.                  *)
Global(t, h) == block[t].iter * HistSize(block[t].pass) + h
Digits(t) == 0 .. (HistSize(block[t].pass) - 1)

(* 1. createhistogram(), each thread for the thread behind it, the last    *)
(* one into the global histogram.                                          *)
CreateHistogram(t) ==
  /\ pc[t] = "histogram"
  /\ LET w == side[t]
         mine == ShareOfBlock(t)
         read == mine.start .. (mine.start + mine.items - 1)
         Count(h) == Cardinality({p \in read : Digit(t, buf[w].old[p]) = h})
     IN  IF t = LastThread
         THEN /\ offsets' = [offsets EXCEPT ![w][block[t].pass] =
                   [o \in DOMAIN @ |-> IF \E h \in Digits(t) : o = Global(t, h)
                                       THEN @[o] + Count(o - Global(t, 0)) ELSE @[o]]]
              /\ UNCHANGED histograms
         ELSE /\ histograms' = [histograms EXCEPT ![w][t + 1] =
                   [h \in DOMAIN @ |-> IF h \in Digits(t) THEN @[h] + Count(h) ELSE @[h]]]
              /\ UNCHANGED offsets
  /\ Sync!Arrive(t)
  /\ Goto(t, "wait_histogram")
  /\ UNCHANGED <<inputs, tables, result, buf, side, idx, block, hands>>

(* The digits that thread t combines.                                      *)
Combined(t) ==
  LET items == HistSize(block[t].pass) \div NThreads
  IN  {h \in Digits(t) : items * t <= h /\ (t = LastThread \/ h < items * (t + 1))}

(* Faulty: the sums begin one thread too late. *)
UpToFromThree(w, u, h) ==
  IF u < 3 THEN histograms[w][u][h]
  ELSE SumFunctionOnSet([v \in 2 .. u |-> histograms[w][v][h]], 2 .. u)

(* The histogram of thread u with those of the threads from 1 added.       *)
UpTo(w, u, h) ==
  IF u = 0 THEN histograms[w][0][h]
  ELSE SumFunctionOnSet([v \in 1 .. u |-> histograms[w][v][h]], 1 .. u)

(* 2. combinehistogram()                                                   *)
CombineHistogram(t) ==
  /\ pc[t] = "combine"
  /\ LET w == side[t]
     IN  /\ histograms' = [histograms EXCEPT ![w] =
              [u \in Threads |-> [h \in DOMAIN @[u] |->
                 IF h \in Combined(t) THEN UpTo(w, u, h) ELSE @[u][h]]]]
         /\ offsets' = [offsets EXCEPT ![w][block[t].pass] =
              [o \in DOMAIN @ |->
                 IF \E h \in Combined(t) : o = Global(t, h)
                 THEN @[o] + UpTo(w, LastThread, o - Global(t, 0)) ELSE @[o]]]
  /\ Sync!Arrive(t)
  /\ Goto(t, "wait_combine")
  /\ UNCHANGED <<inputs, tables, result, buf, side, idx, block, hands>>

(* Thread 0 turns the global histogram into the ends of the parts.         *)
SumHistogram(t) ==
  /\ pc[t] = "sum"
  /\ offsets' =
       IF t # 0 THEN offsets
       ELSE [offsets EXCEPT ![side[t]][block[t].pass] =
               [o \in DOMAIN @ |->
                  IF \E h \in Digits(t) : o = Global(t, h)
                  THEN BlockStart(t) + SumFunctionOnSet(@, Global(t, 0) .. o) ELSE @[o]]]
  /\ Sync!Arrive(t)
  /\ Goto(t, "wait_sum")
  /\ idx' = [idx EXCEPT ![t] = 0]
  /\ UNCHANGED <<inputs, tables, result, buf, histograms, side, block, hands>>

(* 3. radixpartition(), a tuple at a time: it goes behind the smaller      *)
(* digits and behind the tuples of its digit counted in localhist.         *)
Destination(t, h) ==
  (IF h # 0 THEN offsets[side[t]][block[t].pass][Global(t, h - 1)] ELSE BlockStart(t))
    + histograms[side[t]][t][h]

RadixPartition(t) ==
  /\ pc[t] = "partition"
  /\ idx[t] < ShareOfBlock(t).items
  /\ LET w == side[t]
         tuple == buf[w].old[ShareOfBlock(t).start + idx[t]]
         h == Digit(t, tuple)
     IN  /\ buf' = [buf EXCEPT ![w].new[Destination(t, h)] = tuple]
         /\ histograms' = [histograms EXCEPT ![w][t][h] = @ + 1]
  /\ idx' = [idx EXCEPT ![t] = @ + 1]
  /\ UNCHANGED <<inputs, tables, result, offsets, pc, side, block, hands, barrier>>

(* 4. The thread's histogram is reset.                                     *)
ResetHistogram(t) ==
  /\ pc[t] = "partition"
  /\ idx[t] = ShareOfBlock(t).items
  /\ histograms' = [histograms EXCEPT ![side[t]][t] =
                      [h \in DOMAIN @ |-> IF h \in Digits(t) THEN 0 ELSE @[h]]]
  /\ Sync!Arrive(t)
  /\ Goto(t, "wait_partition")
  /\ UNCHANGED <<inputs, tables, result, buf, offsets, side, idx, block, hands>>

(* The next block of the pass, or the end of the pass.                     *)
NextBlock(t) ==
  /\ pc[t] = "wait_partition"
  /\ Sync!Leave(t)
  /\ IF block[t].iter + 1 < Blocks(block[t].pass)
     THEN block' = [block EXCEPT ![t].iter = @ + 1] /\ Goto(t, "histogram")
     ELSE Goto(t, "swap") /\ UNCHANGED block
  /\ UNCHANGED <<inputs, tables, result, radix, side, idx, hands>>

(* 5. Thread 0 swaps the arrays.                                           *)
SwapBuffers(t) ==
  /\ pc[t] = "swap"
  /\ buf' = IF t # 0 THEN buf
            ELSE [buf EXCEPT ![side[t]] = [old |-> @.new, new |-> @.old]]
  /\ Sync!Arrive(t)
  /\ Goto(t, "wait_swap")
  /\ UNCHANGED <<inputs, tables, result, histograms, offsets, side, idx, block, hands>>

NextPass(t) ==
  /\ pc[t] = "wait_swap"
  /\ Sync!Leave(t)
  /\ IF block[t].pass + 1 < conf.passes
     THEN /\ block' = [block EXCEPT ![t] = [pass |-> @.pass + 1, iter |-> 0]]
          /\ Goto(t, "histogram")
     ELSE Goto(t, "place") /\ UNCHANGED block
  /\ UNCHANGED <<inputs, tables, result, radix, side, idx, hands>>

(* placecursors(): the thread's share of the parts becomes tables of one   *)
(* page, which is the part of the array between two offsets.  Thread 0     *)
(* places the first part, be its share empty or not, and from the start of *)
(* the array.                                                              *)
PlaceCursors(t) ==
  /\ pc[t] = "place"
  /\ LET w == side[t]
         location == offsets[w][block[t].pass]
         number == Blocks(block[t].pass + 1)
         items == number \div NThreads
         share == {p \in Parts : items * t <= p /\ (t = LastThread \/ p < items * (t + 1))}
         placed == IF t = 0 THEN {0} \cup share ELSE share
         start(p) == IF t = 0 /\ p = 0 THEN 0 ELSE location[p - 1]
         contents(p) == [i \in 1 .. (location[p] - start(p)) |-> buf[w].old[start(p) + i - 1]]
     IN  tables' = [name \in DOMAIN tables |->
                      IF \E p \in placed : name = Output(w, p)
                      THEN Opened(<<contents(name[3])>>) ELSE tables[name]]
  /\ Sync!Arrive(t)
  /\ Goto(t, "wait_return")
  /\ UNCHANGED <<inputs, result, radix, side, idx, block, hands>>

(* The other barriers of the radix partitioner.                            *)
AfterWait == [wait_copy |-> "histogram", wait_histogram |-> "combine",
              wait_combine |-> "sum", wait_sum |-> "partition"]

GoOn(t) ==
  /\ pc[t] \in DOMAIN AfterWait
  /\ Sync!Leave(t)
  /\ Goto(t, AfterWait[pc[t]])
  /\ UNCHANGED <<inputs, tables, result, radix, side, idx, block, hands>>

-----------------------------------------------------------------------------

PagewiseSplit(t) ==
  \/ SplitRead(t) \/ SplitTake(t) \/ SplitRetry(t)
  \/ AllocateTuple(t) \/ CopyTuple(t) \/ AppendPrivately(t) \/ EndSplit(t)
  \/ BeginConcatenate(t) \/ Concatenate(t)

RadixSplit(t) ==
  \/ CopyShare(t) \/ CreateHistogram(t) \/ CombineHistogram(t) \/ SumHistogram(t)
  \/ RadixPartition(t) \/ ResetHistogram(t) \/ NextBlock(t)
  \/ SwapBuffers(t) \/ NextPass(t) \/ PlaceCursors(t) \/ GoOn(t)

Splits(t) ==
  \/ Start(t) \/ EnterFirstSplit(t) \/ ReturnFromSplit(t)
  \/ PushInput(t) \/ PagewiseSplit(t) \/ RadixSplit(t)

SplitLabels ==
  {"start", "wait_start", "push", "split_read", "split_take", "scan", "copy", "wait_temp",
   "concatenate", "copy_share", "histogram", "combine", "sum", "partition", "wait_partition",
   "swap", "wait_swap", "place", "wait_return", "split"} \cup DOMAIN AfterWait

-----------------------------------------------------------------------------
(* Where thread t will still put tuples of its share of the block.         *)
Remaining(t, h) ==
  LET mine == ShareOfBlock(t)
  IN  Cardinality({p \in (mine.start + idx[t]) .. (mine.start + mine.items - 1) :
                     Digit(t, buf[side[t]].old[p]) = h})
FutureSlots(t) ==
  UNION {Destination(t, h) .. (Destination(t, h) + Remaining(t, h) - 1) : h \in Digits(t)}

(* The threads that partition a block will never put two tuples in one     *)
(* place of newbuf, nor one outside the block, though they count at the    *)
(* same time and nothing but the sums of their histograms keeps them       *)
(* apart.                                                                  *)
SlotsApart ==
  \A t, u \in {v \in Threads : pc[v] = "partition"} :
    /\ FutureSlots(t) \subseteq BlockStart(t) .. (BlockEnd(t) - 1)
    /\ t # u => FutureSlots(t) \cap FutureSlots(u) = {}

=============================================================================
