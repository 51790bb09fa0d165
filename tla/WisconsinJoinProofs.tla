------------------------- MODULE WisconsinJoinProofs -------------------------
(***************************************************************************)
(* The Wisconsin join, for every number of threads, every configuration    *)
(* and tables of any size: no chunk of its hash table is left behind       *)
(* without a tuple, whatever the threads that share a bucket do, and no    *)
(* two threads of the radix partitioner move tuples to one slot.           *)
(***************************************************************************)
EXTENDS WisconsinJoin, FoldTheorems, TLAPS

-----------------------------------------------------------------------------
(* Sequences of anything: what Append and EXCEPT do to their lengths.      *)

Listing(s) == Len(s) \in Nat /\ DOMAIN s = 1 .. Len(s)

LEMMA ExceptListing ==
  ASSUME NEW s, Listing(s), NEW i, NEW v
  PROVE  Listing([s EXCEPT ![i] = v]) /\ Len([s EXCEPT ![i] = v]) = Len(s)
BY DEF Listing

LEMMA AppendListing ==
  ASSUME NEW s, Listing(s), NEW v
  PROVE  /\ Listing(Append(s, v)) /\ Len(Append(s, v)) = Len(s) + 1
         /\ Append(s, v)[Len(s) + 1] = v
         /\ \A i \in DOMAIN s : Append(s, v)[i] = s[i]
BY DEF Listing

LEMMA CutListing ==
  ASSUME NEW s, NEW n \in Nat, NEW v
  PROVE  Listing(Append(SubSeq(s, 1, n), v)) /\ Append(SubSeq(s, 1, n), v) # <<>>
BY DEF Listing

LEMMA EmptyListing ==
  ASSUME NEW s, Listing(s)
  PROVE  s = <<>> <=> Len(s) = 0
BY DEF Listing

LEMMA ShortListing ==
  ASSUME NEW v
  PROVE  /\ Listing(<<>>) /\ Len(<<>>) = 0
         /\ Listing(<<v>>) /\ Len(<<v>>) = 1 /\ <<v>>[1] = v /\ <<v>> # <<>>
BY DEF Listing

-----------------------------------------------------------------------------
(* Where the threads are.                                                  *)

Labels == SplitLabels \cup JoinLabels

PcInv == pc \in [Threads -> Labels] /\ DOMAIN target = Threads

(* No step of the partitioners brings a thread to where it takes a slot of *)
(* the hash table, nor touches what another thread has taken.              *)
LEMMA SplitsElsewhere ==
  ASSUME PcInv, NEW t \in Threads, Splits(t)
  PROVE  /\ \E l \in Labels \ {"allocate"} :
              pc' = [pc EXCEPT ![t] = l] \/ (pc' = pc /\ pc[t] # "allocate")
         /\ \E v : target' = [target EXCEPT ![t] = v] \/ target' = target
<1> USE DEF Goto, hands
<1> DEFINE Elsewhere == \E l \in Labels \ {"allocate"} : pc' = [pc EXCEPT ![t] = l]
<1> DEFINE Taken == \E v : target' = [target EXCEPT ![t] = v] \/ target' = target
<1>L. \A l : l \in SplitLabels /\ pc' = [pc EXCEPT ![t] = l] => Elsewhere
  BY DEF Labels, SplitLabels, AfterWait
<1>W. DOMAIN AfterWait = {"wait_copy", "wait_histogram", "wait_combine", "wait_sum"}
  BY DEF AfterWait
<1> USE DEF SplitLabels
<1>1. CASE Start(t)
  BY <1>1, <1>L DEF Start
<1>2. CASE EnterFirstSplit(t)
  BY <1>2, <1>L DEF EnterFirstSplit, Entry
<1>3. CASE ReturnFromSplit(t)
  BY <1>3, <1>L DEF ReturnFromSplit, Entry
<1>4. CASE PushInput(t)
  BY <1>4, <1>L DEF PushInput
<1>5. CASE PagewiseSplit(t)
  <2>1. CASE SplitRead(t)
    BY <2>1, <1>L DEF SplitRead
  <2>2. CASE SplitTake(t)
    BY <2>2, <1>L DEF SplitTake, Scanning
  <2>3. CASE SplitRetry(t)
    BY <2>3, <1>L DEF SplitRetry
  <2>4. CASE AllocateTuple(t)
    BY <2>4, <1>L DEF AllocateTuple
  <2>5. CASE CopyTuple(t)
    BY <2>5, <1>L DEF CopyTuple, Scanning
  <2>6. CASE AppendPrivately(t)
    BY <2>6, <1>L DEF AppendPrivately
  <2>7. CASE EndSplit(t)
    BY <2>7, <1>L DEF EndSplit
  <2>8. CASE BeginConcatenate(t)
    BY <2>8, <1>L DEF BeginConcatenate
  <2>9. CASE Concatenate(t)
    BY <2>9, <1>L DEF Concatenate
  <2>10. QED
    BY <1>5, <2>1, <2>2, <2>3, <2>4, <2>5, <2>6, <2>7, <2>8, <2>9 DEF PagewiseSplit
<1>6. CASE RadixSplit(t)
  <2>1. CASE CopyShare(t)
    BY <2>1, <1>L, <1>W DEF CopyShare
  <2>2. CASE CreateHistogram(t)
    BY <2>2, <1>L, <1>W DEF CreateHistogram
  <2>3. CASE CombineHistogram(t)
    BY <2>3, <1>L, <1>W DEF CombineHistogram
  <2>4. CASE SumHistogram(t)
    BY <2>4, <1>L, <1>W DEF SumHistogram
  <2>5. CASE RadixPartition(t)
    BY <2>5 DEF RadixPartition, Labels
  <2>6. CASE ResetHistogram(t)
    BY <2>6, <1>L, <1>W DEF ResetHistogram
  <2>7. CASE NextBlock(t)
    BY <2>7, <1>L DEF NextBlock
  <2>8. CASE SwapBuffers(t)
    BY <2>8, <1>L DEF SwapBuffers
  <2>9. CASE NextPass(t)
    BY <2>9, <1>L DEF NextPass
  <2>10. CASE PlaceCursors(t)
    BY <2>10, <1>L DEF PlaceCursors
  <2>11. CASE GoOn(t)
    <3>1. AfterWait[pc[t]] \in SplitLabels
      BY <2>11 DEF GoOn, AfterWait
    <3>2. pc' = [pc EXCEPT ![t] = AfterWait[pc[t]]] /\ target' = target
      BY <2>11 DEF GoOn
    <3>3. Elsewhere
      BY <3>1, <3>2, <1>L
    <3>4. QED
      BY <3>2, <3>3
  <2>12. QED
    BY <1>6, <2>1, <2>2, <2>3, <2>4, <2>5, <2>6, <2>7, <2>8, <2>9, <2>10, <2>11 DEF RadixSplit
<1>7. QED
  BY <1>1, <1>2, <1>3, <1>4, <1>5, <1>6 DEF Splits

-----------------------------------------------------------------------------
(* The lists of chunks.                                                    *)

IsChunk(c) == c = [next |-> c.next, tuples |-> c.tuples] /\ Listing(c.tuples)

(* A chunk without tuples is the only one of its list. *)
ChunkList(s, h) ==
  /\ Listing(s) /\ h \in DOMAIN s
  /\ \A c \in DOMAIN s :
       /\ IsChunk(s[c])
       /\ s[c].tuples = <<>> => Len(s) = 1 /\ s[c].next = 0

ListsInv ==
  /\ chunks = [b \in TableBuckets |-> chunks[b]]
  /\ head = [b \in TableBuckets |-> head[b]]
  /\ \A b \in TableBuckets : ChunkList(chunks[b], head[b])

(* What a thread has read of a bucket, by the time it goes on: the chunk   *)
(* is still there, and if tuples were in it, there still are some.         *)
Remembers(s, c, n) ==
  /\ c \in DOMAIN s /\ n \in Nat
  /\ n > 0 => s[c].tuples # <<>>

TakenInv ==
  \A t \in Threads :
    pc[t] = "allocate" /\ target[t][1] \in TableBuckets =>
      Remembers(chunks[target[t][1]], target[t][2], target[t][3])

TableInv == PcInv /\ ListsInv /\ TakenInv

(* What no thread that still goes by an old state of the list must notice. *)
Extends(s, r) ==
  DOMAIN s \subseteq DOMAIN r /\ \A c \in DOMAIN s : s[c].tuples # <<>> => r[c].tuples # <<>>

LEMMA RemembersExtended ==
  ASSUME NEW s, NEW r, NEW c, NEW n, Remembers(s, c, n), Extends(s, r)
  PROVE  Remembers(r, c, n)
BY DEF Remembers, Extends

(* allocate() with what the thread has read, which others may have gone    *)
(* beyond meanwhile.                                                       *)
LEMMA GrownList ==
  ASSUME NEW s, NEW h, ChunkList(s, h), NEW c, NEW n, Remembers(s, c, n)
  PROVE  /\ Extends(s, Grown(s, c, n))
         /\ ChunkList(Grown(s, c, n), IF Len(Grown(s, c, n)) > Len(s) THEN Len(Grown(s, c, n)) ELSE h)
<1> DEFINE g == Grown(s, c, n)
<1>1. Listing(s) /\ h \in DOMAIN s /\ c \in DOMAIN s /\ n \in Nat
  BY DEF ChunkList, Remembers
<1>2. CASE Fits(n)
  <2> DEFINE full == Append(SubSeq(s[c].tuples, 1, n), Garbage)
  <2>1. Listing(full) /\ full # <<>>
    BY <1>1, CutListing
  <2>2. g = [s EXCEPT ![c].tuples = full]
    BY <1>2 DEF Grown
  <2> HIDE DEF full
  <2>3. g = [s EXCEPT ![c] = [s[c] EXCEPT !.tuples = full]]
    BY <2>2
  <2>4. Listing(g) /\ Len(g) = Len(s) /\ DOMAIN g = DOMAIN s
    <3> DEFINE k == [s[c] EXCEPT !.tuples = full]
    <3>1. g = [s EXCEPT ![c] = k]
      BY <2>3
    <3> HIDE DEF k, g
    <3>2. Listing([s EXCEPT ![c] = k]) /\ Len([s EXCEPT ![c] = k]) = Len(s)
      BY <1>1, ExceptListing
    <3>3. QED
      BY <3>1, <3>2
  <2>5. [s[c] EXCEPT !.tuples = full] = [next |-> s[c].next, tuples |-> full]
    BY <1>1 DEF ChunkList, IsChunk
  <2>6. g[c] = [next |-> s[c].next, tuples |-> full]
    BY <2>3, <2>5, <1>1
  <2>7. \A d \in DOMAIN s : d # c => g[d] = s[d]
    BY <2>3
  <2> HIDE DEF g
  <2>8. \A d \in DOMAIN g : IsChunk(g[d]) /\ (g[d].tuples = <<>> => Len(g) = 1 /\ g[d].next = 0)
    BY <2>1, <2>4, <2>6, <2>7 DEF ChunkList, IsChunk
  <2>9. ChunkList(g, h)
    BY <1>1, <2>4, <2>8 DEF ChunkList
  <2>10. Extends(s, g)
    BY <2>1, <2>4, <2>6, <2>7 DEF Extends
  <2>11. ~ (Len(g) > Len(s))
    BY <1>1, <2>4 DEF Listing
  <2>12. QED
    BY <2>9, <2>10, <2>11 DEF g
<1>3. CASE ~ Fits(n)
  <2> DEFINE new == [next |-> c, tuples |-> <<Garbage>>]
  <2>1. g = Append(s, new)
    BY <1>3 DEF Grown
  <2>2. IsChunk(new) /\ new.tuples # <<>>
    BY ShortListing DEF IsChunk
  <2> HIDE DEF new
  <2>3. Listing(g) /\ Len(g) = Len(s) + 1 /\ g[Len(s) + 1] = new /\ \A d \in DOMAIN s : g[d] = s[d]
    BY <2>1, <1>1, AppendListing
  <2>4. s[c].tuples # <<>>
    <3>1. n >= ChunkRoom /\ ChunkRoom \in Nat \ {0}
      BY <1>1, <1>3, WisconsinAssumption DEF Fits
    <3>2. n > 0
      BY <1>1, <3>1
    <3>3. QED
      BY <3>2 DEF Remembers
  <2>5. \A d \in DOMAIN s : s[d].tuples # <<>>
    <3> SUFFICES ASSUME NEW d \in DOMAIN s, s[d].tuples = <<>> PROVE FALSE
      OBVIOUS
    <3>1. Len(s) = 1
      BY DEF ChunkList
    <3>2. c = d
      BY <3>1, <1>1 DEF Listing
    <3>3. QED
      BY <3>2, <2>4
  <2> HIDE DEF g
  <2>6. DOMAIN g = 1 .. (Len(s) + 1) /\ DOMAIN s = 1 .. Len(s) /\ Len(s) \in Nat
    BY <2>3, <1>1 DEF Listing
  <2>7. \A d \in DOMAIN g : IsChunk(g[d]) /\ g[d].tuples # <<>>
    <3> SUFFICES ASSUME NEW d \in DOMAIN g PROVE IsChunk(g[d]) /\ g[d].tuples # <<>>
      OBVIOUS
    <3>1. CASE d = Len(s) + 1
      BY <3>1, <2>2, <2>3
    <3>2. CASE d \in DOMAIN s
      BY <3>2, <2>3, <2>5 DEF ChunkList
    <3>3. QED
      BY <3>1, <3>2, <2>6
  <2>8. Len(g) \in DOMAIN g /\ Len(g) > Len(s)
    BY <2>3, <2>6
  <2>9. ChunkList(g, Len(g))
    BY <2>3, <2>7, <2>8 DEF ChunkList
  <2>10. Extends(s, g)
    BY <2>3, <2>6, <2>7 DEF Extends
  <2>11. QED
    BY <2>8, <2>9, <2>10 DEF g
<1>4. QED
  BY <1>2, <1>3

(* The copy of a tuple into a slot. *)
LEMMA WrittenList ==
  ASSUME NEW s, NEW h, ChunkList(s, h), NEW c, NEW i, NEW v
  PROVE  LET g == [s EXCEPT ![c].tuples[i] = v]
         IN  Extends(s, g) /\ ChunkList(g, h)
<1> DEFINE g == [s EXCEPT ![c].tuples[i] = v]
<1>1. Listing(s) /\ h \in DOMAIN s
  BY DEF ChunkList
<1> DEFINE full == [s[c].tuples EXCEPT ![i] = v]
<1>2. g = [s EXCEPT ![c] = [s[c] EXCEPT !.tuples = full]]
  OBVIOUS
<1>3. Listing(g) /\ Len(g) = Len(s) /\ DOMAIN g = DOMAIN s
  BY <1>2, <1>1, ExceptListing
<1>4. \A d \in DOMAIN s : d # c => g[d] = s[d]
  BY <1>2
<1>5. ASSUME c \in DOMAIN s
      PROVE  IsChunk(g[c]) /\ g[c].next = s[c].next /\ (g[c].tuples = <<>> <=> s[c].tuples = <<>>)
  <2>1. IsChunk(s[c])
    BY <1>5 DEF ChunkList
  <2>2. Listing(full) /\ Len(full) = Len(s[c].tuples)
    BY <2>1, ExceptListing DEF IsChunk
  <2>3. full = <<>> <=> s[c].tuples = <<>>
    BY <2>1, <2>2, EmptyListing DEF IsChunk
  <2> HIDE DEF full
  <2>4. [s[c] EXCEPT !.tuples = full] = [next |-> s[c].next, tuples |-> full]
    BY <2>1 DEF IsChunk
  <2>5. g[c] = [next |-> s[c].next, tuples |-> full]
    BY <1>2, <1>5, <2>4
  <2> HIDE DEF g
  <2>6. QED
    BY <2>2, <2>3, <2>5 DEF IsChunk
<1> HIDE DEF g, full
<1>6. \A d \in DOMAIN s :
        /\ IsChunk(g[d]) /\ g[d].next = s[d].next
        /\ g[d].tuples = <<>> <=> s[d].tuples = <<>>
  BY <1>4, <1>5 DEF ChunkList
<1>7. Extends(s, g)
  BY <1>3, <1>6 DEF Extends
<1>8. ChunkList(g, h)
  BY <1>1, <1>3, <1>6 DEF ChunkList
<1>9. QED
  BY <1>7, <1>8 DEF g

-----------------------------------------------------------------------------

(* A step that leaves the table alone and does not bring a thread to where *)
(* it takes a slot. *)
LEMMA TableUntouched ==
  ASSUME TableInv, NEW t \in Threads,
         \E l \in Labels \ {"allocate"} :
           pc' = [pc EXCEPT ![t] = l] \/ (pc' = pc /\ pc[t] # "allocate"),
         \E v : target' = [target EXCEPT ![t] = v] \/ target' = target,
         UNCHANGED <<chunks, head>>
  PROVE  TableInv'
<1> USE DEF TableInv
<1>1. PcInv' /\ pc'[t] # "allocate"
  BY DEF PcInv, Labels
<1>2. \A u \in Threads : u # t => pc'[u] = pc[u] /\ target'[u] = target[u]
  BY DEF PcInv
<1>3. ListsInv'
  BY DEF ListsInv, TableBuckets
<1>4. TakenInv'
  BY <1>1, <1>2 DEF TakenInv, TableBuckets
<1>5. QED
  BY <1>1, <1>3, <1>4

(* The other steps that touch the table, or what a thread knows of it.     *)

LEMMA LoadFreeKeeps ==
  ASSUME TableInv, NEW t \in Threads, LoadFree(t)
  PROVE  TableInv'
<1> USE DEF TableInv, Goto
<1> DEFINE b == BucketOf("build", Head(page[t]))
<1> DEFINE n == Len(chunks[b][head[b]].tuples)
<1>1. /\ pc' = [pc EXCEPT ![t] = "allocate"]
      /\ target' = [target EXCEPT ![t] = <<b, head[b], n>>]
      /\ UNCHANGED <<chunks, head>>
  BY DEF LoadFree
<1>2. PcInv'
  BY <1>1 DEF PcInv, Labels, JoinLabels
<1>3. ListsInv'
  BY <1>1 DEF ListsInv, TableBuckets
<1> HIDE DEF b
<1>4. b \in TableBuckets => Remembers(chunks[b], head[b], n)
  <2> SUFFICES ASSUME b \in TableBuckets PROVE Remembers(chunks[b], head[b], n)
    OBVIOUS
  <2>1. head[b] \in DOMAIN chunks[b] /\ Listing(chunks[b][head[b]].tuples)
    BY DEF ListsInv, ChunkList, IsChunk
  <2>2. n \in Nat
    BY <2>1 DEF Listing
  <2>3. n > 0 => chunks[b][head[b]].tuples # <<>>
    BY ShortListing
  <2>4. QED
    BY <2>1, <2>2, <2>3 DEF Remembers
<1> HIDE DEF n
<1>5. TakenInv'
  <2> SUFFICES ASSUME NEW u \in Threads, pc'[u] = "allocate", target'[u][1] \in TableBuckets
               PROVE  Remembers(chunks[target'[u][1]], target'[u][2], target'[u][3])
    BY <1>1 DEF TakenInv, TableBuckets
  <2>1. CASE u = t
    <3>1. target'[u] = <<b, head[b], n>>
      BY <1>1, <2>1 DEF PcInv
    <3>2. QED
      BY <3>1, <1>4
  <2>2. CASE u # t
    BY <1>1, <2>2 DEF TakenInv, PcInv
  <2>3. QED
    BY <2>1, <2>2
<1>6. QED
  BY <1>2, <1>3, <1>5

(* A step that changes one list, in a way that the others need not notice. *)
LEMMA OneListChanged ==
  ASSUME TableInv, NEW t \in Threads, NEW l \in Labels \ {"allocate"},
         pc' = [pc EXCEPT ![t] = l], NEW v, target' = [target EXCEPT ![t] = v],
         chunks' = [b \in TableBuckets |-> chunks'[b]],
         head' = [b \in TableBuckets |-> head'[b]],
         \A b \in TableBuckets : Extends(chunks[b], chunks'[b]) /\ ChunkList(chunks'[b], head'[b])
  PROVE  TableInv'
<1> USE DEF TableInv
<1>1. PcInv'
  BY DEF PcInv
<1>2. ListsInv'
  BY DEF ListsInv, TableBuckets
<1>3. TakenInv'
  <2> SUFFICES ASSUME NEW u \in Threads, pc'[u] = "allocate", target'[u][1] \in TableBuckets
               PROVE  Remembers(chunks'[target'[u][1]], target'[u][2], target'[u][3])
    BY DEF TakenInv, TableBuckets
  <2>1. u # t
    BY DEF PcInv
  <2>2. pc[u] = "allocate" /\ target'[u] = target[u]
    BY <2>1 DEF PcInv
  <2>3. Remembers(chunks[target[u][1]], target[u][2], target[u][3])
    BY <2>2 DEF TakenInv
  <2>4. QED
    BY <2>2, <2>3, RemembersExtended
<1>4. QED
  BY <1>1, <1>2, <1>3

LEMMA SameList ==
  ASSUME ListsInv, NEW b \in TableBuckets
  PROVE  Extends(chunks[b], chunks[b]) /\ ChunkList(chunks[b], head[b])
BY DEF ListsInv, Extends

LEMMA AllocateKeeps ==
  ASSUME TableInv, NEW t \in Threads, Allocate(t)
  PROVE  TableInv'
<1> USE DEF Goto
<1>1. PICK b, c, n : b = target[t][1] /\ c = target[t][2] /\ n = target[t][3]
  OBVIOUS
<1>2. PICK grown : grown = Grown(chunks[b], c, n)
  OBVIOUS
<1>3. /\ pc[t] = "allocate"
      /\ pc' = [pc EXCEPT ![t] = "write"]
      /\ chunks' = [chunks EXCEPT ![b] = grown]
      /\ head' = [head EXCEPT ![b] = IF Len(grown) > Len(chunks[b]) THEN Len(grown) ELSE head[b]]
      /\ \E v : target' = [target EXCEPT ![t] = v]
  BY <1>1, <1>2 DEF Allocate
<1>4. PICK v : target' = [target EXCEPT ![t] = v]
  BY <1>3
<1>5. ListsInv
  BY DEF TableInv
<1>6. chunks' = [d \in TableBuckets |-> chunks'[d]] /\ head' = [d \in TableBuckets |-> head'[d]]
  BY <1>3, <1>5 DEF ListsInv
<1>7. ASSUME NEW d \in TableBuckets
      PROVE  Extends(chunks[d], chunks'[d]) /\ ChunkList(chunks'[d], head'[d])
  <2>1. CASE d = b
    <3>1. Remembers(chunks[b], c, n)
      BY <1>1, <1>3, <2>1 DEF TableInv, TakenInv
    <3>2. ChunkList(chunks[b], head[b])
      BY <1>5, <2>1 DEF ListsInv
    <3>3. /\ Extends(chunks[b], grown)
          /\ ChunkList(grown, IF Len(grown) > Len(chunks[b]) THEN Len(grown) ELSE head[b])
      BY <1>2, <3>1, <3>2, GrownList
    <3>4. chunks'[d] = grown /\ head'[d] = IF Len(grown) > Len(chunks[b]) THEN Len(grown) ELSE head[b]
      BY <1>3, <1>5, <2>1 DEF ListsInv
    <3>5. QED
      BY <2>1, <3>3, <3>4
  <2>2. CASE d # b
    <3>1. chunks'[d] = chunks[d] /\ head'[d] = head[d]
      BY <1>3, <1>5, <2>2 DEF ListsInv
    <3>2. QED
      BY <1>5, <3>1, SameList
  <2>3. QED
    BY <2>1, <2>2
<1>8. "write" \in Labels \ {"allocate"}
  BY DEF Labels, JoinLabels
<1>9. QED
  BY <1>3, <1>4, <1>6, <1>7, <1>8, OneListChanged

LEMMA WriteDataKeeps ==
  ASSUME TableInv, NEW t \in Threads, WriteData(t)
  PROVE  TableInv'
<1> USE DEF Goto
<1>1. PICK b, c, i, x : b = target[t][1] /\ c = target[t][2] /\ i = target[t][3] /\ x = Head(page[t])
  OBVIOUS
<1>2. /\ chunks' = [chunks EXCEPT ![b][c].tuples[i] = x]
      /\ head' = head
      /\ target' = [target EXCEPT ![t] = <<>>]
      /\ pc' = [pc EXCEPT ![t] = Working("build", page'[t])]
  BY <1>1 DEF WriteData
<1>3. ListsInv
  BY DEF TableInv
<1>4. chunks' = [d \in TableBuckets |-> chunks'[d]] /\ head' = [d \in TableBuckets |-> head'[d]]
  BY <1>2, <1>3 DEF ListsInv
<1>5. ASSUME NEW d \in TableBuckets
      PROVE  Extends(chunks[d], chunks'[d]) /\ ChunkList(chunks'[d], head'[d])
  <2>1. CASE d = b
    <3>1. chunks'[d] = [chunks[d] EXCEPT ![c].tuples[i] = x]
      BY <1>2, <1>3, <2>1 DEF ListsInv
    <3>2. ChunkList(chunks[d], head[d])
      BY <1>3 DEF ListsInv
    <3>3. Extends(chunks[d], [chunks[d] EXCEPT ![c].tuples[i] = x])
      BY <3>2, WrittenList
    <3>4. ChunkList([chunks[d] EXCEPT ![c].tuples[i] = x], head[d])
      BY <3>2, WrittenList
    <3>5. QED
      BY <1>2, <3>1, <3>3, <3>4
  <2>2. CASE d # b
    <3>1. chunks'[d] = chunks[d] /\ head'[d] = head[d]
      BY <1>2, <1>3, <2>2 DEF ListsInv
    <3>2. QED
      BY <1>3, <3>1, SameList
  <2>3. QED
    BY <2>1, <2>2
<1>6. Working("build", page'[t]) \in Labels \ {"allocate"}
  BY DEF Labels, JoinLabels, Working, Reading
<1>7. QED
  BY <1>2, <1>4, <1>5, <1>6, OneListChanged

THEOREM TableInvCorrect == Spec => []TableInv
<1>1. Init => TableInv
  <2> SUFFICES ASSUME Init PROVE TableInv
    OBVIOUS
  <2> USE DEF Init, PartitionInit
  <2>1. PcInv
    BY DEF PcInv, Labels, SplitLabels
  <2>2. TakenInv
    BY DEF TakenInv
  <2>3. ChunkList(<<[next |-> 0, tuples |-> <<>>]>>, 1)
    <3> DEFINE c == [next |-> 0, tuples |-> <<>>]
    <3>1. IsChunk(c) /\ c.next = 0
      BY ShortListing DEF IsChunk
    <3> HIDE DEF c
    <3>2. Listing(<<c>>) /\ Len(<<c>>) = 1 /\ <<c>>[1] = c
      BY ShortListing
    <3>3. DOMAIN <<c>> = {1}
      BY <3>2 DEF Listing
    <3>4. ChunkList(<<c>>, 1)
      BY <3>1, <3>2, <3>3 DEF ChunkList
    <3>5. QED
      BY <3>4 DEF c
  <2>4. ListsInv
    BY <2>3 DEF ListsInv
  <2>5. QED
    BY <2>1, <2>2, <2>4 DEF TableInv
<1>2. TableInv /\ [Next]_vars => TableInv'
  <2> SUFFICES ASSUME TableInv, [Next]_vars PROVE TableInv'
    OBVIOUS
  <2> USE DEF Goto, hands, inputs, table, results
  <2>U. CASE UNCHANGED <<pc, target, chunks, head>>
    BY <2>U DEF TableInv, PcInv, ListsInv, TakenInv, TableBuckets
  <2>1. CASE CloseResults
    BY <2>1, <2>U DEF CloseResults, partitionVars
  <2>2. CASE UNCHANGED vars
    BY <2>2, <2>U DEF vars, partitionVars
  <2>3. ASSUME NEW t \in Threads, Compute(t) PROVE TableInv'
    <3> DEFINE Moves_ ==
          /\ \E l \in Labels \ {"allocate"} :
               pc' = [pc EXCEPT ![t] = l] \/ (pc' = pc /\ pc[t] # "allocate")
          /\ \E v : target' = [target EXCEPT ![t] = v] \/ target' = target
          /\ UNCHANGED <<chunks, head>>
    <3>M. Moves_ => TableInv'
      BY TableUntouched
    <3>P. pc \in [Threads -> Labels] /\ DOMAIN target = Threads
      BY DEF TableInv, PcInv
    <3>L. JoinLabels \subseteq Labels
      BY DEF Labels
    <3>1. CASE Splits(t) /\ UNCHANGED <<table, results>>
      BY <3>1, <3>M, SplitsElsewhere DEF TableInv
    <3>2. CASE ArriveAfterSplit(t)
      BY <3>2, <3>M, <3>L DEF ArriveAfterSplit, JoinLabels
    <3>3. CASE EnterBuild(t) \/ EnterProbe(t)
      BY <3>3, <3>M, <3>L DEF EnterBuild, EnterProbe, Enter, Reading, JoinLabels
    <3>4. ASSUME NEW w \in Sides, JoinParts(t, w) PROVE TableInv'
      <4> USE DEF JoinLabels, Reading, Taking, Working, Sides, Waiting
      <4>1. CASE ReadOwnPage(t, w)
        BY <4>1, <3>M, <3>L DEF ReadOwnPage
      <4>2. CASE ReadPage(t, w)
        BY <4>2, <3>M, <3>L DEF ReadPage
      <4>3. CASE TakePage(t, w)
        BY <4>3, <3>M, <3>L DEF TakePage
      <4>4. CASE RetryPage(t, w)
        BY <4>4, <3>M, <3>L DEF RetryPage
      <4>5. CASE NextPart(t, w)
        BY <4>5, <3>M, <3>L, <3>P DEF NextPart
      <4>6. CASE EndParts(t, w)
        BY <4>6, <3>M, <3>L DEF EndParts
      <4>7. QED
        BY <3>4, <4>1, <4>2, <4>3, <4>4, <4>5, <4>6 DEF JoinParts
    <3>5. CASE BeginSteal(t)
      BY <3>5, <2>U DEF BeginSteal
    <3>6. CASE LoadFree(t)
      BY <3>6, LoadFreeKeeps
    <3>7. CASE Allocate(t)
      BY <3>7, AllocateKeeps
    <3>8. CASE WriteData(t)
      BY <3>8, WriteDataKeeps
    <3>9. CASE ProbeTuple(t)
      BY <3>9, <3>M, <3>L DEF ProbeTuple, Working, Reading, JoinLabels
    <3>10. CASE PushResult(t)
      BY <3>10, <3>M, <3>L DEF PushResult, JoinLabels
    <3>11. QED
      BY <2>3, <3>1, <3>2, <3>3, <3>4, <3>5, <3>6, <3>7, <3>8, <3>9, <3>10 DEF Compute
  <2>4. QED
    BY <2>1, <2>2, <2>3 DEF Next, Finished
<1>3. QED
  BY <1>1, <1>2, PTL DEF Spec

(* The caveat of readnext(): an empty chunk ends its iterator, so that the *)
(* tuples behind one would be lost.  None is ever left behind, for any     *)
(* number of threads, whether they lock the buckets or share none.         *)
THEOREM NoEmptyChunksCorrect == Spec => []NoEmptyChunks
<1>1. TableInv => NoEmptyChunks
  <2> SUFFICES ASSUME TableInv, NEW b \in TableBuckets, NEW c \in DOMAIN chunks[b],
                      chunks[b][c].tuples = <<>>
               PROVE  c = head[b] /\ chunks[b][c].next = 0
    BY DEF NoEmptyChunks
  <2>1. ChunkList(chunks[b], head[b])
    BY DEF TableInv, ListsInv
  <2>2. Len(chunks[b]) = 1 /\ DOMAIN chunks[b] = 1 .. Len(chunks[b])
    BY <2>1 DEF ChunkList, Listing
  <2>3. c = 1 /\ head[b] = 1
    BY <2>1, <2>2 DEF ChunkList
  <2>4. QED
    BY <2>1, <2>3 DEF ChunkList
<1>2. QED
  BY <1>1, TableInvCorrect, PTL


-----------------------------------------------------------------------------
(* The hash functions of the passes.                                       *)

LEMMA LogarithmType ==
  ASSUME NEW b \in 0 .. 31, NEW k, k \in {2 ^ b, 2 ^ b - 1}
  PROVE  GetLogarithm(k) \in 0 .. 31
<1> DEFINE B == {m \in 0 .. 31 : 2 ^ m >= k}
<1>1. 2 ^ b \in Nat /\ k \in Int /\ 2 ^ b >= k
  BY PowerType
<1>2. b \in B
  BY <1>1
<1>3. B \in SUBSET Nat /\ B # {}
  <2>1. 0 .. 31 \subseteq Nat
    OBVIOUS
  <2>2. B \subseteq 0 .. 31
    OBVIOUS
  <2> HIDE DEF B
  <2>3. QED
    BY <1>2, <2>1, <2>2
<1> HIDE DEF B
<1>4. PICK m \in B : \A l \in B : m <= l
  BY <1>3, SmallestNumber
<1> USE DEF B
<1>5. m \in 0 .. 31 /\ 2 ^ m >= k
  BY <1>4
<1>6. \A l \in 0 .. (m - 1) : 2 ^ l < k
  <2> SUFFICES ASSUME NEW l \in 0 .. (m - 1), ~ (2 ^ l < k)
               PROVE  FALSE
    OBVIOUS
  <2>1. l \in Nat /\ l \in 0 .. 31 /\ l < m
    BY <1>5
  <2>2. 2 ^ l \in Nat
    BY <2>1, PowerType
  <2>3. l \in B
    BY <1>1, <2>1, <2>2
  <2>4. QED
    BY <1>4, <1>5, <2>1, <2>3
<1>7. QED
  BY <1>5, <1>6 DEF GetLogarithm

LEMMA DivisionType ==
  ASSUME NEW a \in Nat, NEW n \in Nat \ {0}
  PROVE  a \div n \in Nat /\ n * (a \div n) <= a /\ a < n * (a \div n) + n
OBVIOUS

HashFunctions == [bits : Nat, skipbits : Nat]

LEMMA ModuloHashType ==
  ASSUME NEW b \in 0 .. 31, NEW skipbits \in Nat
  PROVE  ModuloHash(2 ^ b, skipbits) \in HashFunctions
<1>1. GetLogarithm(2 ^ b) \in Nat
  <2>1. PICK k : k = 2 ^ b
    OBVIOUS
  <2>2. GetLogarithm(k) \in 0 .. 31
    BY <2>1, LogarithmType
  <2>3. QED
    BY <2>1, <2>2
<1> DEFINE k == 2 ^ b
<1>2. ModuloHash(k, skipbits) = [bits |-> IF k \in {0, 1} THEN 1 ELSE GetLogarithm(k), skipbits |-> skipbits]
  BY DEF ModuloHash
<1> HIDE DEF k
<1>3. GetLogarithm(k) \in Nat
  BY <1>1 DEF k
<1>4. ModuloHash(k, skipbits) \in HashFunctions
  BY <1>2, <1>3 DEF HashFunctions
<1>5. QED
  BY <1>4 DEF k

LEMMA GenerateType ==
  ASSUME NEW passes \in Nat \ {0}, NEW i \in 0 .. (passes - 1)
  PROVE  Generate(PartHash, passes)[i] \in HashFunctions
<1>1. PICK total : total = GetLogarithm(Buckets(PartHash) - 1)
  OBVIOUS
<1>2. total \in 0 .. 31
  <2>1. PICK b \in 0 .. 31 : b = PartHash.bits
    BY PartitionersAssumption
  <2>2. QED
    BY <1>1, <2>1, LogarithmType DEF Buckets
<1>3. PICK bits : bits = total \div passes
  OBVIOUS
<1>4. bits \in Nat /\ passes * bits <= total
  BY <1>2, <1>3, DivisionType
<1>5. bits \in 0 .. 31 /\ i * bits <= total /\ total - i * bits \in 0 .. 31
  <2>1. bits <= passes * bits /\ i * bits <= passes * bits /\ i * bits \in Nat
    <3>1. \A x \in Nat, y \in Nat : \A z \in Nat : x <= y => x * z <= y * z
      OBVIOUS
    <3>2. i \in Nat /\ i * bits \in Nat
      BY <1>4
    <3>3. QED
      BY <1>4, <3>1, <3>2
  <2>2. QED
    BY <1>2, <1>4, <2>1
<1>6. PartHash.skipbits \in Nat
  BY PartitionersAssumption
<1>7. CASE i < passes - 1
  <2>1. (i + 1) * bits <= passes * bits /\ (i + 1) * bits \in Nat
    <3>1. \A x \in Nat, y \in Nat : \A z \in Nat : x <= y => x * z <= y * z
      OBVIOUS
    <3>2. i + 1 \in Nat /\ passes \in Nat /\ i + 1 <= passes
      BY <1>7
    <3>3. (i + 1) * bits \in Nat
      BY <1>4, <3>2
    <3>4. QED
      BY <1>4, <3>1, <3>2, <3>3
  <2>2. PartHash.skipbits + total - (i + 1) * bits \in Nat
    <3>1. \A e \in Nat : e <= total => PartHash.skipbits + total - e \in Nat
      BY <1>2, <1>6
    <3>2. passes * bits \in Nat
      BY <1>4
    <3>3. QED
      BY <1>2, <1>4, <2>1, <3>1, <3>2
  <2>3. Generate(PartHash, passes)[i] = ModuloHash(2 ^ bits, PartHash.skipbits + total - (i + 1) * bits)
    BY <1>1, <1>3, <1>7 DEF Generate
  <2>4. QED
    BY <1>5, <2>2, <2>3, ModuloHashType
<1>8. CASE ~ (i < passes - 1)
  <2>1. Generate(PartHash, passes)[i] = ModuloHash(2 ^ (total - i * bits), PartHash.skipbits)
    BY <1>1, <1>3, <1>8 DEF Generate
  <2>2. QED
    BY <1>5, <1>6, <2>1, ModuloHashType
<1>9. QED
  BY <1>7, <1>8

-----------------------------------------------------------------------------
(* The inputs.                                                             *)

InputsInv == [conf |-> conf, key |-> key] \in Inputs

LEMMA InputsType ==
  ASSUME InputsInv
  PROVE  /\ conf \in Configuration /\ key \in [Sides -> Seq(Nat)]
         /\ conf.passes \in Nat \ {0} /\ \A w \in Sides : Algorithm(w) \in Algorithms
<1>1. PICK input \in Inputs : input = [conf |-> conf, key |-> key]
  BY DEF InputsInv
<1>2. input \in [conf : Configuration, key : [Sides -> Seq(Nat)]]
  BY PartitionersAssumption
<1>3. conf \in Configuration /\ key \in [Sides -> Seq(Nat)]
  BY <1>1, <1>2
<1>4. QED
  BY <1>3 DEF Configuration, Algorithm

(* The passes, the number of digits in each, and the blocks it begins with. *)
LEMMA Geometry ==
  ASSUME InputsInv
  PROVE  /\ \A i \in 0 .. (conf.passes - 1) :
              /\ PassHash(i) \in HashFunctions
              /\ HistSize(i) \in Nat \ {0}
              /\ Blocks(i) \in Nat \ {0}
              /\ Blocks(i + 1) = Blocks(i) * HistSize(i)
         /\ Blocks(0) = 1
<1>1. conf.passes \in Nat \ {0}
  BY InputsType
<1>2. ASSUME NEW i \in 0 .. (conf.passes - 1)
      PROVE  PassHash(i) \in HashFunctions /\ HistSize(i) \in Nat \ {0}
  <2>1. PassHash(i) \in HashFunctions
    BY <1>1, GenerateType DEF PassHash
  <2>2. PassHash(i).bits \in Nat
    BY <2>1 DEF HashFunctions
  <2>3. QED
    BY <2>1, <2>2, PowerType DEF HistSize, Buckets
<1> DEFINE F(p) == [i \in 0 .. (p - 1) |-> HistSize(i)]
<1>3. \A p : Blocks(p) = Multiplied(F(p))
  BY DEF Blocks, Multiplied
<1>4. ASSUME NEW i \in 0 .. (conf.passes - 1)
      PROVE  Blocks(i + 1) = Blocks(i) * HistSize(i)
  <2>1. PICK f, g : f = F(i) /\ g = F(i + 1)
    OBVIOUS
  <2>2. i \in Nat /\ (i + 1) - 1 = i
    OBVIOUS
  <2>3. DOMAIN f = 0 .. (i - 1) /\ DOMAIN g = 0 .. i
    BY <2>1, <2>2
  <2>4. \A j \in 0 .. i : g[j] = HistSize(j) /\ j \in 0 .. (conf.passes - 1)
    BY <2>1, <2>2, <1>1
  <2>5. \A j \in 0 .. (i - 1) : f[j] = HistSize(j) /\ j \in 0 .. i
    BY <2>1, <2>2
  <2> HIDE DEF F
  <2>6. \A j \in 0 .. i : g[j] \in Nat
    BY <1>2, <2>4
  <2>7. \A j \in 0 .. (i - 1) : f[j] = g[j]
    BY <2>4, <2>5
  <2>8. Multiplied(g) = Multiplied(f) * g[i]
    BY <2>2, <2>3, <2>6, <2>7, ProductNext
  <2>9. i \in 0 .. i
    BY <2>2
  <2>10. QED
    BY <1>3, <2>1, <2>4, <2>8, <2>9
<1>5. Blocks(0) = 1
  <2>1. DOMAIN F(0) = {}
    OBVIOUS
  <2> HIDE DEF F
  <2>2. QED
    BY <1>3, <2>1, ProductOfNone
<1>6. \A i \in 0 .. (conf.passes - 1) : Blocks(i) \in Nat \ {0}
  <2> DEFINE Bad == {i \in 0 .. (conf.passes - 1) : Blocks(i) \notin Nat \ {0}}
  <2> SUFFICES ASSUME Bad # {} PROVE FALSE
    OBVIOUS
  <2>1. Bad \in SUBSET Nat
    OBVIOUS
  <2> HIDE DEF Bad
  <2>2. PICK i \in Bad : \A j \in Bad : i <= j
    BY <2>1, SmallestNumber
  <2> USE DEF Bad
  <2>3. i # 0 /\ i \in 0 .. (conf.passes - 1)
    BY <1>5, <2>2
  <2>4. i - 1 \in 0 .. (conf.passes - 1) /\ i - 1 \notin Bad /\ (i - 1) + 1 = i
    <3>1. i - 1 \in 0 .. (conf.passes - 1) /\ i - 1 < i /\ (i - 1) + 1 = i
      BY <1>1, <2>3
    <3> HIDE DEF Bad
    <3>2. QED
      BY <2>2, <2>3, <3>1
  <2>5. Blocks(i - 1) \in Nat \ {0} /\ Blocks(i) = Blocks(i - 1) * HistSize(i - 1)
    BY <1>4, <2>4
  <2>6. HistSize(i - 1) \in Nat \ {0}
    BY <1>2, <2>4
  <2>7. \A x, y \in Nat \ {0} : x * y \in Nat \ {0}
    OBVIOUS
  <2>8. QED
    BY <2>2, <2>5, <2>6, <2>7
<1>7. QED
  BY <1>2, <1>4, <1>5, <1>6

-----------------------------------------------------------------------------
(* How positions, and digits, are dealt out to the threads.                *)

Cut(lo, hi, u) == IF u = NThreads THEN hi ELSE lo + ((hi - lo) \div NThreads) * u

LEMMA Cuts ==
  ASSUME NEW lo \in Nat, NEW hi \in Nat, lo <= hi
  PROVE  /\ \A u \in 0 .. NThreads : Cut(lo, hi, u) \in lo .. hi
         /\ Cut(lo, hi, 0) = lo /\ Cut(lo, hi, NThreads) = hi
         /\ \A u, v \in 0 .. NThreads : u <= v => Cut(lo, hi, u) <= Cut(lo, hi, v)
<1>1. NThreads \in Nat \ {0}
  BY PartitionersAssumption
<1>2. PICK k : k = (hi - lo) \div NThreads
  OBVIOUS
<1>3. k \in Nat /\ NThreads * k <= hi - lo
  BY <1>1, <1>2, DivisionType
<1>4. \A x \in Nat, y \in Nat : x <= y => k * x \in Nat /\ k * y \in Nat /\ k * x <= k * y
  BY <1>3
<1>5. k * NThreads <= hi - lo
  BY <1>1, <1>3
<1>6. \A u \in 0 .. NThreads : Cut(lo, hi, u) = IF u = NThreads THEN hi ELSE lo + k * u
  BY <1>2 DEF Cut
<1>7. \A u \in 0 .. NThreads : u \in Nat /\ u <= NThreads /\ k * u \in Nat /\ k * u <= hi - lo
  BY <1>1, <1>3, <1>4, <1>5
<1>8. \A u \in 0 .. NThreads : Cut(lo, hi, u) \in lo .. hi
  BY <1>6, <1>7
<1>9. k * 0 = 0
  BY <1>3
<1>10. Cut(lo, hi, 0) = lo /\ Cut(lo, hi, NThreads) = hi
  BY <1>1, <1>6, <1>9
<1>11. ASSUME NEW u \in 0 .. NThreads, NEW v \in 0 .. NThreads, u <= v
       PROVE  Cut(lo, hi, u) <= Cut(lo, hi, v)
  <2>1. CASE v = NThreads
    BY <1>8, <1>10, <2>1
  <2>2. CASE v # NThreads
    <3>1. u # NThreads
      BY <1>1, <1>11, <2>2
    <3>2. k * u <= k * v /\ k * u \in Nat /\ k * v \in Nat
      BY <1>4, <1>7, <1>11
    <3>3. QED
      BY <1>6, <2>2, <3>1, <3>2
  <2>3. QED
    BY <2>1, <2>2
<1>12. QED
  BY <1>8, <1>10, <1>11

(* What lies before a cut is in the share of one of the threads before it. *)
LEMMA InSomeShare ==
  ASSUME NEW lo \in Nat, NEW hi \in Nat, lo <= hi, NEW u \in 0 .. NThreads,
         NEW p \in Int, lo <= p, p < Cut(lo, hi, u)
  PROVE  \E v \in 0 .. (u - 1) : Cut(lo, hi, v) <= p /\ p < Cut(lo, hi, v + 1)
<1> DEFINE B == {v \in 0 .. u : p < Cut(lo, hi, v)}
<1>1. NThreads \in Nat \ {0}
  BY PartitionersAssumption
<1>2. u \in B /\ B \in SUBSET Nat
  BY <1>1
<1> HIDE DEF B
<1>3. PICK v \in B : \A k \in B : v <= k
  BY <1>2, SmallestNumber
<1> USE DEF B
<1>4. v # 0
  BY <1>1, <1>3, Cuts
<1>5. v - 1 \in 0 .. (u - 1) /\ v - 1 \in 0 .. u /\ v - 1 \in 0 .. NThreads /\ (v - 1) + 1 = v
  BY <1>1, <1>3, <1>4
<1>6. v - 1 \notin B
  <2> HIDE DEF B
  <2>1. v \in Nat
    BY <1>2
  <2>2. QED
    BY <1>3, <2>1
<1>7. Cut(lo, hi, v - 1) \in Nat
  BY <1>5, Cuts
<1>8. Cut(lo, hi, v - 1) <= p
  BY <1>5, <1>6, <1>7
<1>9. p < Cut(lo, hi, v)
  BY <1>3
<1>10. QED
  BY <1>5, <1>8, <1>9

-----------------------------------------------------------------------------
(* Counts of digits: d gives the digit of each position.                   *)

Times(d, S, h) == Cardinality({p \in S : d[p] = h})
Fewer(d, S, c) == Cardinality({p \in S : d[p] < c})

LEMMA CountType ==
  ASSUME NEW d, NEW S, IsFiniteSet(S), NEW h
  PROVE  /\ Times(d, S, h) \in Nat /\ Times(d, S, h) <= Cardinality(S)
         /\ Fewer(d, S, h) \in Nat /\ Fewer(d, S, h) <= Cardinality(S)
         /\ Cardinality(S) \in Nat
         /\ IsFiniteSet({p \in S : d[p] = h}) /\ IsFiniteSet({p \in S : d[p] < h})
<1>1. {p \in S : d[p] = h} \subseteq S /\ {p \in S : d[p] < h} \subseteq S
  OBVIOUS
<1>2. QED
  BY <1>1, FS_Subset, FS_CardinalityType DEF Times, Fewer

LEMMA TimesSplit ==
  ASSUME NEW d, NEW a \in Int, NEW b \in Int, NEW c \in Int, a <= b, b <= c, NEW h
  PROVE  Times(d, a .. (c - 1), h) = Times(d, a .. (b - 1), h) + Times(d, b .. (c - 1), h)
<1> DEFINE S == {p \in a .. (b - 1) : d[p] = h}
           T == {p \in b .. (c - 1) : d[p] = h}
<1>1. IsFiniteSet(S) /\ IsFiniteSet(T)
  <2>1. PICK I, J : I = a .. (b - 1) /\ J = b .. (c - 1)
    OBVIOUS
  <2>2. IsFiniteSet(I) /\ IsFiniteSet(J)
    BY <2>1, FS_Interval
  <2>3. IsFiniteSet({p \in I : d[p] = h}) /\ IsFiniteSet({p \in J : d[p] = h})
    <3>1. {p \in I : d[p] = h} \subseteq I /\ {p \in J : d[p] = h} \subseteq J
      OBVIOUS
    <3>2. QED
      BY <2>2, <3>1, FS_Subset
  <2>4. QED
    BY <2>1, <2>3
<1>2. S \cap T = {}
  OBVIOUS
<1>3. {p \in a .. (c - 1) : d[p] = h} = S \cup T
  OBVIOUS
<1> HIDE DEF S, T
<1>4. Cardinality(S \cup T) = Cardinality(S) + Cardinality(T)
  BY <1>1, <1>2, DisjointSizes
<1>5. QED
  BY <1>3, <1>4 DEF Times, S, T

LEMMA FewerSplit ==
  ASSUME NEW S, IsFiniteSet(S), NEW d, \A p \in S : d[p] \in Nat, NEW b \in Nat, NEW c \in Nat
  PROVE  /\ Fewer(d, S, b + 1) = Fewer(d, S, b) + Times(d, S, b)
         /\ b <= c => Fewer(d, S, b) <= Fewer(d, S, c)
         /\ Fewer(d, S, 0) = 0
<1>1. /\ IsFiniteSet({p \in S : d[p] < b}) /\ IsFiniteSet({p \in S : d[p] < c})
      /\ IsFiniteSet({p \in S : d[p] = b})
  <2>1. /\ {p \in S : d[p] < b} \subseteq S /\ {p \in S : d[p] < c} \subseteq S
        /\ {p \in S : d[p] = b} \subseteq S
    OBVIOUS
  <2>2. QED
    BY <2>1, FS_Subset
<1>2. Fewer(d, S, b + 1) = Fewer(d, S, b) + Times(d, S, b)
  <2>1. {p \in S : d[p] < b + 1} = {p \in S : d[p] < b} \cup {p \in S : d[p] = b}
    OBVIOUS
  <2>2. {p \in S : d[p] < b} \cap {p \in S : d[p] = b} = {}
    OBVIOUS
  <2>3. PICK A, B : A = {p \in S : d[p] < b} /\ B = {p \in S : d[p] = b}
    OBVIOUS
  <2>4. IsFiniteSet(A) /\ IsFiniteSet(B) /\ A \cap B = {}
    BY <1>1, <2>2, <2>3
  <2>5. Cardinality(A \cup B) = Cardinality(A) + Cardinality(B)
    BY <2>4, DisjointSizes
  <2>6. QED
    BY <2>1, <2>3, <2>5 DEF Fewer, Times
<1>3. ASSUME b <= c PROVE Fewer(d, S, b) <= Fewer(d, S, c)
  <2>1. {p \in S : d[p] < b} \subseteq {p \in S : d[p] < c}
    BY <1>3
  <2>2. QED
    BY <1>1, <2>1, FS_Subset DEF Fewer
<1>4. Fewer(d, S, 0) = 0
  <2>1. {p \in S : d[p] < 0} = {}
    OBVIOUS
  <2>2. QED
    BY <2>1, FS_EmptySet DEF Fewer
<1>5. QED
  BY <1>2, <1>3, <1>4

(* The histograms of the threads before u add up to that of all they read. *)
LEMMA CountThreads ==
  ASSUME NEW d, NEW lo \in Nat, NEW hi \in Nat, lo <= hi, NEW h, NEW u \in 0 .. NThreads, NEW f,
         \A v \in 1 .. u : f[v] = Times(d, Cut(lo, hi, v - 1) .. (Cut(lo, hi, v) - 1), h)
  PROVE  SumFunctionOnSet(f, 1 .. u) = Times(d, lo .. (Cut(lo, hi, u) - 1), h)
<1> DEFINE T == 1 .. u
           A == [v \in T |-> {p \in Cut(lo, hi, v - 1) .. (Cut(lo, hi, v) - 1) : d[p] = h}]
<1>1. NThreads \in Nat \ {0} /\ u \in Nat /\ u <= NThreads
  BY PartitionersAssumption
<1>2. IsFiniteSet(T)
  BY <1>1, FS_Interval
<1>3. \A v \in T : v - 1 \in 0 .. NThreads /\ v \in 0 .. NThreads /\ v \in Nat
  BY <1>1
<1>4. \A v \in T : Cut(lo, hi, v - 1) \in Int /\ Cut(lo, hi, v) \in Int
  <2>1. \A x \in 0 .. NThreads : Cut(lo, hi, x) \in Int
    BY Cuts
  <2>2. QED
    BY <1>3, <2>1
<1>5. \A v \in T : IsFiniteSet(A[v]) /\ f[v] = Cardinality(A[v])
  <2> TAKE v \in T
  <2>1. PICK S : S = Cut(lo, hi, v - 1) .. (Cut(lo, hi, v) - 1)
    OBVIOUS
  <2>2. IsFiniteSet(S)
    <3>1. PICK x \in Int, y \in Int : x = Cut(lo, hi, v - 1) /\ y = Cut(lo, hi, v) - 1
      BY <1>4
    <3>2. QED
      BY <2>1, <3>1, FS_Interval
  <2>3. A[v] = {p \in S : d[p] = h} /\ f[v] = Times(d, S, h)
    BY <2>1
  <2> HIDE DEF A, T
  <2>4. IsFiniteSet({p \in S : d[p] = h})
    <3>1. {p \in S : d[p] = h} \subseteq S
      OBVIOUS
    <3>2. QED
      BY <2>2, <3>1, FS_Subset
  <2>5. QED
    BY <2>3, <2>4 DEF Times
<1>6. \A i, j \in T : i # j => A[i] \cap A[j] = {}
  <2>1. ASSUME NEW i \in T, NEW j \in T, i < j PROVE A[i] \cap A[j] = {}
    <3>1. Cut(lo, hi, i) <= Cut(lo, hi, j - 1)
      <4>1. i <= j - 1
        BY <1>3, <2>1
      <4>2. QED
        BY <1>3, <4>1, Cuts
    <3>2. QED
      BY <1>4, <3>1
  <2>2. QED
    BY <2>1, <1>3
<1>7. UNION {A[v] : v \in T} = {p \in lo .. (Cut(lo, hi, u) - 1) : d[p] = h}
  <2>1. ASSUME NEW v \in T, NEW p \in A[v]
        PROVE  p \in lo .. (Cut(lo, hi, u) - 1) /\ d[p] = h
    <3>1. Cut(lo, hi, v) <= Cut(lo, hi, u) /\ lo <= Cut(lo, hi, v - 1) /\ Cut(lo, hi, u) \in Int
      BY <1>3, Cuts
    <3>2. QED
      BY <1>4, <3>1
  <2>2. ASSUME NEW p \in lo .. (Cut(lo, hi, u) - 1), d[p] = h
        PROVE  \E v \in T : p \in A[v]
    <3>0. Cut(lo, hi, u) \in Int
      BY Cuts
    <3>1. p \in Int /\ lo <= p /\ p < Cut(lo, hi, u)
      BY <3>0
    <3>2. PICK v \in 0 .. (u - 1) : Cut(lo, hi, v) <= p /\ p < Cut(lo, hi, v + 1)
      BY <3>1, InSomeShare
    <3>3. v + 1 \in T /\ (v + 1) - 1 = v
      BY <1>1
    <3>4. Cut(lo, hi, v) \in Int /\ Cut(lo, hi, v + 1) \in Int
      BY <1>4, <3>3
    <3>5. p \in Cut(lo, hi, v) .. (Cut(lo, hi, v + 1) - 1)
      BY <3>1, <3>2, <3>4
    <3>6. p \in A[v + 1]
      BY <2>2, <3>3, <3>5
    <3>7. QED
      BY <3>3, <3>6
  <2> HIDE DEF A, T
  <2>3. QED
    BY <2>1, <2>2
<1> HIDE DEF A, T
<1>8. SumFunctionOnSet(f, T) = Cardinality(UNION {A[v] : v \in T})
  BY <1>2, <1>5, <1>6, SumOfSizes
<1>9. QED
  BY <1>7, <1>8 DEF T, Times

(* The counts of the digits up to h add up to how many there are of them.  *)
LEMMA CountDigits ==
  ASSUME NEW S, IsFiniteSet(S), NEW d, \A p \in S : d[p] \in Nat, NEW g \in Nat, NEW h \in Nat, NEW f,
         \A k \in 0 .. h : f[g + k] = Times(d, S, k)
  PROVE  SumFunctionOnSet(f, g .. (g + h)) = Fewer(d, S, h + 1)
<1> DEFINE T == g .. (g + h)
           A == [o \in T |-> {p \in S : d[p] = o - g}]
<1>1. IsFiniteSet(T)
  BY FS_Interval
<1>2. \A o \in T : IsFiniteSet(A[o]) /\ f[o] = Cardinality(A[o])
  <2> TAKE o \in T
  <2>1. o - g \in 0 .. h /\ g + (o - g) = o
    OBVIOUS
  <2>2. PICK k : k = o - g
    OBVIOUS
  <2>3. f[o] = Times(d, S, k) /\ A[o] = {p \in S : d[p] = k}
    BY <2>1, <2>2
  <2>4. IsFiniteSet({p \in S : d[p] = k})
    <3>1. {p \in S : d[p] = k} \subseteq S
      OBVIOUS
    <3>2. QED
      BY <3>1, FS_Subset
  <2> HIDE DEF A, T
  <2>5. QED
    BY <2>3, <2>4 DEF Times
<1>3. \A i, j \in T : i # j => A[i] \cap A[j] = {}
  OBVIOUS
<1>4. UNION {A[o] : o \in T} = {p \in S : d[p] < h + 1}
  <2>1. ASSUME NEW o \in T, NEW p \in A[o] PROVE p \in S /\ d[p] < h + 1
    OBVIOUS
  <2>2. ASSUME NEW p \in S, d[p] < h + 1 PROVE \E o \in T : p \in A[o]
    <3>1. g + d[p] \in T /\ (g + d[p]) - g = d[p]
      BY <2>2
    <3>2. p \in A[g + d[p]]
      BY <3>1
    <3>3. QED
      BY <3>1, <3>2
  <2> HIDE DEF A, T
  <2>3. QED
    BY <2>1, <2>2
<1> HIDE DEF A, T
<1>5. SumFunctionOnSet(f, T) = Cardinality(UNION {A[o] : o \in T})
  BY <1>1, <1>2, <1>3, SumOfSizes
<1>6. QED
  BY <1>4, <1>5 DEF T, Fewer

-----------------------------------------------------------------------------
(* The order of the threads.  What a thread works on up to a barrier is a  *)
(* stage, of a block of a pass over a side; all threads go through the     *)
(* same stages, one after the other.                                       *)

At(w, i, j, s) == [side |-> w, pass |-> i, iter |-> j, stage |-> s]

RadixStages == {"histogram", "combine", "sum", "partition", "swap"}
Stages == RadixStages \cup {"start", "temp", "copy", "return", "join"}

Stage(label, w) ==
  CASE label \in {"start", "wait_start"} -> "start"
    [] label \in {"copy_share", "wait_copy"} -> "copy"
    [] label \in {"histogram", "wait_histogram"} -> "histogram"
    [] label \in {"combine", "wait_combine"} -> "combine"
    [] label \in {"sum", "wait_sum"} -> "sum"
    [] label \in {"partition", "wait_partition"} -> "partition"
    [] label \in {"swap", "wait_swap"} -> "swap"
    [] label \in {"push", "concatenate", "place", "wait_return"} -> "return"
    [] label = "wait_temp" -> "temp"
    [] label \in {"split_read", "split_take", "scan", "copy"} ->
         IF Algorithm(w) = "parallel" THEN "return" ELSE "temp"
    [] OTHER -> "join"

Place(t) == At(side[t], block[t].pass, block[t].iter, Stage(pc[t], side[t]))

FirstStage(w) ==
  IF Algorithm(w) = "radix" THEN "copy"
  ELSE IF Algorithm(w) = "independent" THEN "temp" ELSE "return"

After(p) ==
  CASE p.stage = "start" -> At("build", 0, 0, FirstStage("build"))
    [] p.stage = "copy" -> At(p.side, p.pass, p.iter, "histogram")
    [] p.stage = "histogram" -> At(p.side, p.pass, p.iter, "combine")
    [] p.stage = "combine" -> At(p.side, p.pass, p.iter, "sum")
    [] p.stage = "sum" -> At(p.side, p.pass, p.iter, "partition")
    [] p.stage = "partition" ->
         IF p.iter + 1 < Blocks(p.pass) THEN At(p.side, p.pass, p.iter + 1, "histogram")
         ELSE At(p.side, p.pass, p.iter, "swap")
    [] p.stage = "swap" ->
         IF p.pass + 1 < conf.passes THEN At(p.side, p.pass + 1, 0, "histogram")
         ELSE At(p.side, p.pass, p.iter, "return")
    [] p.stage = "temp" -> At(p.side, p.pass, p.iter, "return")
    [] p.stage = "return" ->
         IF p.side = "build" THEN At("probe", 0, 0, FirstStage("probe"))
         ELSE At("probe", 0, 0, "join")
    [] OTHER -> p

Begins(p) == p.stage = "start" => p = At("build", 0, 0, "start")

PlacesInv ==
  /\ InputsInv
  /\ pc \in [Threads -> Labels]
  /\ side \in [Threads -> Sides]
  /\ block \in [Threads -> [pass : Nat, iter : Nat]]

Stays(t) ==
  /\ UNCHANGED <<arrived, left>>
  /\ Place(t)' = Place(t)
  /\ pc'[t] = "partition" => pc[t] = "partition"

Arrives(t) ==
  /\ Sync!Arrive(t)
  /\ Place(t)' = Place(t)
  /\ pc'[t] # "partition"

Leaves(t) ==
  /\ Sync!Leave(t)
  /\ Place(t)' = After(Place(t))

StepOf(t) ==
  /\ PlacesInv'
  /\ UNCHANGED inputs
  /\ \A u \in Threads \ {t} : Place(u)' = Place(u) /\ pc'[u] = pc[u]
  /\ Stays(t) \/ Arrives(t) \/ Leaves(t)

(* A step within a stage. *)
LEMMA StepWithin ==
  ASSUME PlacesInv, NEW t \in Threads, NEW l \in Labels, pc' = [pc EXCEPT ![t] = l],
         Stage(l, side[t]) = Stage(pc[t], side[t]), l # "partition",
         UNCHANGED <<inputs, side, block>>, UNCHANGED barrier \/ Sync!Arrive(t)
  PROVE  StepOf(t)
<1>1. UNCHANGED inputs /\ conf' = conf /\ key' = key
  BY DEF inputs
<1>2. PlacesInv'
  BY <1>1 DEF PlacesInv, InputsInv
<1>3. \A u \in Threads : Place(u)' = Place(u) /\ (u # t => pc'[u] = pc[u])
  <2> TAKE u \in Threads
  <2>1. \A k : Stage(k, side[u])' = Stage(k, side[u])
    BY <1>1 DEF Stage, Algorithm
  <2>2. Stage(pc[u], side[u])' = Stage(pc'[u], side[u])
    BY <1>1 DEF Stage, Algorithm
  <2>3. pc'[u] = IF u = t THEN l ELSE pc[u]
    BY DEF PlacesInv
  <2>4. QED
    BY <2>2, <2>3 DEF Place, At
<1>4. pc'[t] = l
  BY DEF PlacesInv
<1>5. QED
  BY <1>1, <1>2, <1>3, <1>4 DEF StepOf, Stays, Arrives, barrier

(* A step to the next one. *)
LEMMA StepAfter ==
  ASSUME PlacesInv, NEW t \in Threads, NEW l \in Labels, pc' = [pc EXCEPT ![t] = l],
         NEW w \in Sides, side' = [side EXCEPT ![t] = w],
         NEW i \in Nat, NEW j \in Nat, block' = [block EXCEPT ![t] = [pass |-> i, iter |-> j]],
         UNCHANGED inputs, Sync!Leave(t), At(w, i, j, Stage(l, w)) = After(Place(t))
  PROVE  StepOf(t)
<1>1. conf' = conf /\ key' = key
  BY DEF inputs
<1>2. PlacesInv'
  BY <1>1 DEF PlacesInv, InputsInv
<1>3. \A u \in Threads : Stage(pc[u], side[u])' = Stage(pc'[u], side'[u])
  BY <1>1 DEF Stage, Algorithm
<1>4. \A u \in Threads : u # t => pc'[u] = pc[u] /\ side'[u] = side[u] /\ block'[u] = block[u]
  BY DEF PlacesInv
<1>5. pc'[t] = l /\ side'[t] = w /\ block'[t] = [pass |-> i, iter |-> j]
  BY DEF PlacesInv
<1>6. Place(t)' = At(w, i, j, Stage(l, w))
  BY <1>3, <1>5 DEF Place, At
<1>7. \A u \in Threads \ {t} : Place(u)' = Place(u)
  BY <1>3, <1>4 DEF Place, At
<1>8. QED
  BY <1>2, <1>4, <1>6, <1>7 DEF StepOf, Leaves

LEMMA StepNowhere ==
  ASSUME PlacesInv, NEW t \in Threads, UNCHANGED <<inputs, pc, side, block, barrier>>
  PROVE  StepOf(t)
<1>1. conf' = conf /\ key' = key /\ pc' = pc /\ side' = side /\ block' = block
  BY DEF inputs
<1>2. PlacesInv'
  BY <1>1 DEF PlacesInv, InputsInv
<1>3. \A u \in Threads : Stage(pc[u], side[u])' = Stage(pc[u], side[u])
  BY <1>1 DEF Stage, Algorithm
<1>4. \A u \in Threads : Place(u)' = Place(u)
  BY <1>1, <1>3 DEF Place, At
<1>5. QED
  BY <1>1, <1>2, <1>4 DEF StepOf, Stays, barrier

LEMMA PagewisePlaces ==
  ASSUME PlacesInv, NEW t \in Threads, PagewiseSplit(t)
  PROVE  StepOf(t)
<1> USE DEF Goto, hands, radix
<1> DEFINE Within(l) == /\ pc' = [pc EXCEPT ![t] = l]
                        /\ UNCHANGED <<inputs, side, block>>
                        /\ UNCHANGED barrier \/ Sync!Arrive(t)
<1>L. \A l \in SplitLabels : l \in Labels
  BY DEF Labels
<1>S. ASSUME NEW l \in SplitLabels, l # "partition", Within(l), Stage(l, side[t]) = Stage(pc[t], side[t])
      PROVE  StepOf(t)
  BY <1>S, <1>L, StepWithin
<1> HIDE DEF Within
<1>W. \A l : /\ pc' = [pc EXCEPT ![t] = l] /\ UNCHANGED <<inputs, side, block>>
             /\ UNCHANGED barrier \/ Sync!Arrive(t)
             => Within(l)
  BY DEF Within
<1> DEFINE Split == {"split_read", "split_take", "scan", "copy"}
<1>E. Split \cup {"wait_temp", "wait_return", "concatenate"} \subseteq SplitLabels
  BY DEF SplitLabels
<1>1. ASSUME NEW l \in Split, pc[t] \in Split, Within(l)
      PROVE  StepOf(t)
  <2>1. Stage(l, side[t]) = Stage(pc[t], side[t])
    BY <1>1 DEF Stage
  <2>2. QED
    BY <1>1, <2>1, <1>S, <1>E
<1>2. CASE SplitRead(t)
  BY <1>2, <1>1, <1>W DEF SplitRead
<1>3. CASE SplitTake(t)
  BY <1>3, <1>1, <1>W DEF SplitTake, Scanning
<1>4. CASE SplitRetry(t)
  BY <1>4, <1>1, <1>W DEF SplitRetry
<1>5. CASE AllocateTuple(t)
  BY <1>5, <1>1, <1>W DEF AllocateTuple
<1>6. CASE CopyTuple(t)
  BY <1>6, <1>1, <1>W DEF CopyTuple, Scanning
<1>7. CASE AppendPrivately(t)
  BY <1>7, <1>1, <1>W DEF AppendPrivately
<1>8. CASE EndSplit(t)
  <2> DEFINE l == IF Algorithm(side[t]) = "parallel" THEN "wait_return" ELSE "wait_temp"
  <2>1. pc[t] = "split_read" /\ Within(l)
    BY <1>8, <1>W DEF EndSplit
  <2>2. Stage(l, side[t]) = Stage(pc[t], side[t])
    BY <2>1 DEF Stage
  <2>3. l \in SplitLabels /\ l # "partition"
    BY <1>E
  <2>4. QED
    BY <2>1, <2>2, <2>3, <1>S
<1>9. CASE BeginConcatenate(t)
  <2>1. pc[t] = "wait_temp" /\ pc' = [pc EXCEPT ![t] = "concatenate"] /\ Sync!Leave(t)
        /\ UNCHANGED inputs /\ side' = side /\ block' = block
    BY <1>9 DEF BeginConcatenate
  <2>2. PICK w \in Sides, i \in Nat, j \in Nat : w = side[t] /\ block[t] = [pass |-> i, iter |-> j]
    BY DEF PlacesInv
  <2>3. side' = [side EXCEPT ![t] = w] /\ block' = [block EXCEPT ![t] = [pass |-> i, iter |-> j]]
    BY <2>1, <2>2 DEF PlacesInv
  <2>4. At(w, i, j, Stage("concatenate", w)) = After(Place(t))
    BY <2>1, <2>2 DEF At, Stage, After, Place
  <2>5. "concatenate" \in Labels
    BY <1>E, <1>L
  <2>6. QED
    BY <2>1, <2>3, <2>4, <2>5, StepAfter
<1>10. CASE Concatenate(t)
  <2>1. pc[t] = "concatenate" /\ Within("wait_return")
    BY <1>10, <1>W DEF Concatenate
  <2>2. Stage("wait_return", side[t]) = Stage(pc[t], side[t])
    BY <2>1 DEF Stage
  <2>3. QED
    BY <2>1, <2>2, <1>S, <1>E
<1>11. QED
  BY <1>2, <1>3, <1>4, <1>5, <1>6, <1>7, <1>8, <1>9, <1>10 DEF PagewiseSplit

LEMMA RadixPlaces ==
  ASSUME PlacesInv, NEW t \in Threads, RadixSplit(t)
  PROVE  StepOf(t)
<1> USE DEF Goto, hands, radix
<1> DEFINE Within(l) == /\ pc' = [pc EXCEPT ![t] = l]
                        /\ UNCHANGED <<inputs, side, block>>
                        /\ UNCHANGED barrier \/ Sync!Arrive(t)
<1>L. \A l \in SplitLabels : l \in Labels
  BY DEF Labels
<1>W. DOMAIN AfterWait = {"wait_copy", "wait_histogram", "wait_combine", "wait_sum"}
  BY DEF AfterWait
<1>S. ASSUME NEW l \in SplitLabels, l # "partition", Within(l), Stage(l, side[t]) = Stage(pc[t], side[t])
      PROVE  StepOf(t)
  BY <1>S, <1>L, StepWithin
<1>E. {"copy_share", "histogram", "combine", "sum", "partition", "wait_partition",
       "swap", "wait_swap", "place", "wait_return"} \subseteq SplitLabels
  BY DEF SplitLabels
<1>B. PICK w \in Sides, i \in Nat, j \in Nat :
        w = side[t] /\ i = block[t].pass /\ j = block[t].iter /\ block[t] = [pass |-> i, iter |-> j]
  BY DEF PlacesInv
<1>K. side' = side => side' = [side EXCEPT ![t] = w]
  BY <1>B DEF PlacesInv
<1>M. block' = block => block' = [block EXCEPT ![t] = [pass |-> i, iter |-> j]]
  BY <1>B DEF PlacesInv
<1>1. CASE CopyShare(t)
  <2>1. pc[t] = "copy_share" /\ Within("wait_copy")
    BY <1>1 DEF CopyShare
  <2>2. Stage("wait_copy", side[t]) = Stage(pc[t], side[t])
    BY <2>1 DEF Stage
  <2>3. QED
    BY <2>1, <2>2, <1>S, <1>W DEF SplitLabels
<1>2. CASE CreateHistogram(t)
  <2>1. pc[t] = "histogram" /\ Within("wait_histogram")
    BY <1>2 DEF CreateHistogram
  <2>2. Stage("wait_histogram", side[t]) = Stage(pc[t], side[t])
    BY <2>1 DEF Stage
  <2>3. QED
    BY <2>1, <2>2, <1>S, <1>W DEF SplitLabels
<1>3. CASE CombineHistogram(t)
  <2>1. pc[t] = "combine" /\ Within("wait_combine")
    BY <1>3 DEF CombineHistogram
  <2>2. Stage("wait_combine", side[t]) = Stage(pc[t], side[t])
    BY <2>1 DEF Stage
  <2>3. QED
    BY <2>1, <2>2, <1>S, <1>W DEF SplitLabels
<1>4. CASE SumHistogram(t)
  <2>1. pc[t] = "sum" /\ Within("wait_sum")
    BY <1>4 DEF SumHistogram
  <2>2. Stage("wait_sum", side[t]) = Stage(pc[t], side[t])
    BY <2>1 DEF Stage
  <2>3. QED
    BY <2>1, <2>2, <1>S, <1>W DEF SplitLabels
<1>5. CASE RadixPartition(t)
  BY <1>5, StepNowhere DEF RadixPartition
<1>6. CASE ResetHistogram(t)
  <2>1. pc[t] = "partition" /\ Within("wait_partition")
    BY <1>6 DEF ResetHistogram
  <2>2. Stage("wait_partition", side[t]) = Stage(pc[t], side[t])
    BY <2>1 DEF Stage
  <2>3. QED
    BY <2>1, <2>2, <1>S, <1>E
<1>7. CASE NextBlock(t)
  <2>1. pc[t] = "wait_partition" /\ Sync!Leave(t) /\ UNCHANGED inputs /\ side' = side
    BY <1>7 DEF NextBlock
  <2>2. Place(t) = At(w, i, j, "partition")
    BY <2>1, <1>B DEF Place, Stage
  <2>3. CASE j + 1 < Blocks(i)
    <3>1. pc' = [pc EXCEPT ![t] = "histogram"] /\ block' = [block EXCEPT ![t].iter = j + 1]
      BY <1>7, <1>B, <2>3 DEF NextBlock
    <3>2. block' = [block EXCEPT ![t] = [pass |-> i, iter |-> j + 1]] /\ j + 1 \in Nat
      <4>1. PICK b : b = [block[t] EXCEPT !.iter = j + 1]
        OBVIOUS
      <4>2. b = [pass |-> i, iter |-> j + 1]
        BY <4>1, <1>B
      <4>3. block' = [block EXCEPT ![t] = b]
        BY <3>1, <4>1
      <4>4. j + 1 \in Nat
        OBVIOUS
      <4>5. QED
        BY <4>2, <4>3, <4>4
    <3>3. At(w, i, j + 1, Stage("histogram", w)) = After(Place(t))
      BY <2>2, <2>3 DEF At, Stage, After
    <3>4. QED
      BY <2>1, <3>1, <3>2, <3>3, <1>E, <1>K, <1>L, StepAfter
  <2>4. CASE ~ (j + 1 < Blocks(i))
    <3>1. pc' = [pc EXCEPT ![t] = "swap"] /\ block' = block
      BY <1>7, <1>B, <2>4 DEF NextBlock
    <3>2. At(w, i, j, Stage("swap", w)) = After(Place(t))
      BY <2>2, <2>4 DEF At, Stage, After
    <3>3. QED
      BY <2>1, <3>1, <3>2, <1>E, <1>K, <1>L, <1>M, StepAfter
  <2>5. QED
    BY <2>3, <2>4
<1>8. CASE SwapBuffers(t)
  <2>1. pc[t] = "swap" /\ Within("wait_swap")
    BY <1>8 DEF SwapBuffers
  <2>2. Stage("wait_swap", side[t]) = Stage(pc[t], side[t])
    BY <2>1 DEF Stage
  <2>3. QED
    BY <2>1, <2>2, <1>S, <1>E
<1>9. CASE NextPass(t)
  <2>1. pc[t] = "wait_swap" /\ Sync!Leave(t) /\ UNCHANGED inputs /\ side' = side
    BY <1>9 DEF NextPass
  <2>2. Place(t) = At(w, i, j, "swap")
    BY <2>1, <1>B DEF Place, Stage
  <2>3. CASE i + 1 < conf.passes
    <3>1. pc' = [pc EXCEPT ![t] = "histogram"] /\ block' = [block EXCEPT ![t] = [pass |-> i + 1, iter |-> 0]]
      BY <1>9, <1>B, <2>3 DEF NextPass
    <3>2. i + 1 \in Nat /\ 0 \in Nat
      OBVIOUS
    <3>3. At(w, i + 1, 0, Stage("histogram", w)) = After(Place(t))
      BY <2>2, <2>3 DEF At, Stage, After
    <3>4. QED
      BY <2>1, <3>1, <3>2, <3>3, <1>E, <1>K, <1>L, StepAfter
  <2>4. CASE ~ (i + 1 < conf.passes)
    <3>1. pc' = [pc EXCEPT ![t] = "place"] /\ block' = block
      BY <1>9, <1>B, <2>4 DEF NextPass
    <3>2. At(w, i, j, Stage("place", w)) = After(Place(t))
      BY <2>2, <2>4 DEF At, Stage, After
    <3>3. QED
      BY <2>1, <3>1, <3>2, <1>E, <1>K, <1>L, <1>M, StepAfter
  <2>5. QED
    BY <2>3, <2>4
<1>10. CASE PlaceCursors(t)
  <2>1. pc[t] = "place" /\ Within("wait_return")
    BY <1>10 DEF PlaceCursors
  <2>2. Stage("wait_return", side[t]) = Stage(pc[t], side[t])
    BY <2>1 DEF Stage
  <2>3. QED
    BY <2>1, <2>2, <1>S, <1>E
<1>11. CASE GoOn(t)
  <2>1. pc[t] \in DOMAIN AfterWait /\ pc' = [pc EXCEPT ![t] = AfterWait[pc[t]]]
        /\ Sync!Leave(t) /\ UNCHANGED inputs /\ side' = side /\ block' = block
    BY <1>11 DEF GoOn
  <2>2. AfterWait[pc[t]] \in SplitLabels
    BY <2>1, <1>W, <1>E DEF AfterWait
  <2>3. At(w, i, j, Stage(AfterWait[pc[t]], w)) = After(Place(t))
    <3>1. Place(t) = At(w, i, j, Stage(pc[t], w))
      BY <1>B DEF Place
    <3>2. CASE pc[t] = "wait_copy"
      BY <3>1, <3>2 DEF AfterWait, At, Stage, After
    <3>3. CASE pc[t] = "wait_histogram"
      BY <3>1, <3>3 DEF AfterWait, At, Stage, After
    <3>4. CASE pc[t] = "wait_combine"
      BY <3>1, <3>4 DEF AfterWait, At, Stage, After
    <3>5. CASE pc[t] = "wait_sum"
      BY <3>1, <3>5 DEF AfterWait, At, Stage, After
    <3>6. QED
      BY <2>1, <1>W, <3>2, <3>3, <3>4, <3>5
  <2>4. QED
    BY <2>1, <2>2, <2>3, <1>K, <1>L, <1>M, StepAfter
<1>12. QED
  BY <1>1, <1>2, <1>3, <1>4, <1>5, <1>6, <1>7, <1>8, <1>9, <1>10, <1>11 DEF RadixSplit

LEMMA SplitsPlaces ==
  ASSUME PlacesInv, NEW t \in Threads, Begins(Place(t)), Splits(t)
  PROVE  StepOf(t)
<1> USE DEF Goto, hands, radix
<1>L. \A l \in SplitLabels : l \in Labels
  BY DEF Labels
<1>E. {"start", "wait_start", "push", "copy_share", "split_read", "wait_return", "split"} \subseteq SplitLabels
  BY DEF SplitLabels
<1>B. PICK w \in Sides, i \in Nat, j \in Nat :
        w = side[t] /\ i = block[t].pass /\ j = block[t].iter /\ block[t] = [pass |-> i, iter |-> j]
  BY DEF PlacesInv
<1>A. \A v \in Sides : Entry(v) \in SplitLabels /\ Stage(Entry(v), v) = FirstStage(v)
  <2> TAKE v \in Sides
  <2>1. Algorithm(v) \in Algorithms
    BY InputsType DEF PlacesInv
  <2>2. QED
    BY <2>1, <1>E DEF Entry, Stage, FirstStage, Algorithms
<1>1. CASE Start(t)
  <2>1. pc[t] = "start" /\ Stage("wait_start", side[t]) = Stage(pc[t], side[t])
    BY <1>1 DEF Start, Stage
  <2>2. QED
    BY <1>1, <2>1, <1>E, <1>L, StepWithin DEF Start
<1>2. CASE EnterFirstSplit(t)
  <2>0. side[t] = "build" /\ block[t] = [pass |-> 0, iter |-> 0]
    BY <1>2, <1>B DEF EnterFirstSplit, Begins, Place, At, Stage
  <2>1. /\ pc[t] = "wait_start" /\ pc' = [pc EXCEPT ![t] = Entry("build")]
        /\ Sync!Leave(t) /\ UNCHANGED inputs /\ side' = side /\ block' = block
    BY <1>2 DEF EnterFirstSplit
  <2>2. side' = [side EXCEPT ![t] = "build"] /\ block' = [block EXCEPT ![t] = [pass |-> 0, iter |-> 0]]
    BY <2>0, <2>1 DEF PlacesInv
  <2>3. At("build", 0, 0, Stage(Entry("build"), "build")) = After(Place(t))
    BY <2>1, <1>A DEF At, Stage, After, Place, Sides
  <2>4. 0 \in Nat /\ "build" \in Sides
    BY DEF Sides
  <2>5. QED
    BY <2>1, <2>2, <2>3, <2>4, <1>A, <1>L, StepAfter
<1>3. CASE ReturnFromSplit(t)
  <2> DEFINE l == IF side[t] = "build" THEN Entry("probe") ELSE "split"
  <2>1. /\ pc[t] = "wait_return" /\ pc' = [pc EXCEPT ![t] = l]
        /\ Sync!Leave(t) /\ UNCHANGED inputs /\ side' = [side EXCEPT ![t] = "probe"]
        /\ block' = [block EXCEPT ![t] = [pass |-> 0, iter |-> 0]]
    BY <1>3 DEF ReturnFromSplit
  <2>2. At("probe", 0, 0, Stage(l, "probe")) = After(Place(t))
    BY <2>1, <1>A DEF At, Stage, After, Place, Sides
  <2>3. 0 \in Nat /\ "probe" \in Sides /\ l \in SplitLabels
    BY <1>A, <1>E DEF Sides
  <2>4. QED
    BY <2>1, <2>2, <2>3, <1>L, StepAfter
<1>4. CASE PushInput(t)
  <2>1. pc[t] = "push" /\ Stage("wait_return", side[t]) = Stage(pc[t], side[t])
    BY <1>4 DEF PushInput, Stage
  <2>2. QED
    BY <1>4, <2>1, <1>E, <1>L, StepWithin DEF PushInput
<1>5. QED
  BY <1>1, <1>2, <1>3, <1>4, PagewisePlaces, RadixPlaces DEF Splits

LEMMA JoinPlaces ==
  ASSUME PlacesInv, NEW t \in Threads, Compute(t), ~ Splits(t)
  PROVE  StepOf(t)
<1> USE DEF Goto, hands, radix
<1> DEFINE Within(l) == /\ pc' = [pc EXCEPT ![t] = l]
                        /\ UNCHANGED <<inputs, side, block>>
                        /\ UNCHANGED barrier \/ Sync!Arrive(t)
           Onwards(l) == /\ pc' = [pc EXCEPT ![t] = l]
                         /\ UNCHANGED <<inputs, side, block>>
                         /\ Sync!Leave(t)
           Joining == JoinLabels \cup {"split"}
<1>J. \A l \in Joining : \A w : l \in Labels /\ l # "partition" /\ Stage(l, w) = "join"
  BY DEF JoinLabels, Labels, SplitLabels, Stage
<1>S. ASSUME NEW l \in JoinLabels, pc[t] \in Joining, Within(l) PROVE StepOf(t)
  BY <1>S, <1>J, StepWithin
<1>A. ASSUME NEW l \in JoinLabels, pc[t] \in Joining, Onwards(l) PROVE StepOf(t)
  <2>1. PICK w \in Sides, i \in Nat, j \in Nat :
          w = side[t] /\ i = block[t].pass /\ j = block[t].iter /\ block[t] = [pass |-> i, iter |-> j]
    BY DEF PlacesInv
  <2>2. side' = [side EXCEPT ![t] = w] /\ block' = [block EXCEPT ![t] = [pass |-> i, iter |-> j]]
    BY <2>1, <1>A DEF PlacesInv
  <2>3. Place(t) = At(w, i, j, "join")
    BY <2>1, <1>A, <1>J DEF Place
  <2>4. At(w, i, j, Stage(l, w)) = After(Place(t))
    BY <2>3, <1>J DEF After, At
  <2>5. UNCHANGED inputs /\ Sync!Leave(t) /\ pc' = [pc EXCEPT ![t] = l] /\ l \in Labels
    BY <1>A, <1>J
  <2>6. QED
    BY <2>2, <2>4, <2>5, StepAfter
<1>N. ASSUME UNCHANGED <<inputs, pc, side, block, barrier>> PROVE StepOf(t)
  BY <1>N, StepNowhere
<1>E. /\ "split" \in Joining
      /\ {"wait_split", "build_read", "build_take", "build", "allocate", "write", "wait_build",
          "probe_read", "probe_take", "probe", "wait_probe", "exited"} \subseteq JoinLabels
  BY DEF JoinLabels
<1>1. CASE ArriveAfterSplit(t)
  BY <1>1, <1>S, <1>E DEF ArriveAfterSplit
<1>2. CASE EnterBuild(t) \/ EnterProbe(t)
  BY <1>2, <1>A, <1>E DEF EnterBuild, EnterProbe, Enter, Reading
<1>3. ASSUME NEW w \in Sides, JoinParts(t, w) PROVE StepOf(t)
  <2> USE DEF Reading, Taking, Working, Sides, Waiting
  <2>1. CASE ReadOwnPage(t, w)
    BY <2>1, <1>S, <1>E DEF ReadOwnPage
  <2>2. CASE ReadPage(t, w)
    BY <2>2, <1>S, <1>E DEF ReadPage
  <2>3. CASE TakePage(t, w)
    BY <2>3, <1>S, <1>E DEF TakePage
  <2>4. CASE RetryPage(t, w)
    BY <2>4, <1>S, <1>E DEF RetryPage
  <2>5. CASE NextPart(t, w)
    BY <2>5, <1>N DEF NextPart
  <2>6. CASE EndParts(t, w)
    BY <2>6, <1>S, <1>E DEF EndParts
  <2>7. QED
    BY <1>3, <2>1, <2>2, <2>3, <2>4, <2>5, <2>6 DEF JoinParts
<1>5. CASE BeginSteal(t)
  BY <1>5, <1>N DEF BeginSteal
<1>6. CASE LoadFree(t)
  BY <1>6, <1>S, <1>E DEF LoadFree
<1>7. CASE Allocate(t)
  BY <1>7, <1>S, <1>E DEF Allocate
<1>8. CASE WriteData(t)
  BY <1>8, <1>S, <1>E DEF WriteData, Working, Reading
<1>9. CASE ProbeTuple(t)
  BY <1>9, <1>S, <1>E DEF ProbeTuple, Working, Reading
<1>10. CASE PushResult(t)
  BY <1>10, <1>A, <1>E DEF PushResult
<1>11. QED
  BY <1>1, <1>2, <1>3, <1>5, <1>6, <1>7, <1>8, <1>9, <1>10 DEF Compute

-----------------------------------------------------------------------------
(* No thread is more than one barrier ahead of another, and what they work *)
(* on then is what comes after what the other works on.                    *)

(* What the places of the threads are like. *)
Valid(p) ==
  /\ p = At(p.side, p.pass, p.iter, p.stage)
  /\ p.side \in Sides /\ p.pass \in Nat /\ p.iter \in Nat /\ p.stage \in Stages
  /\ Begins(p)
  /\ p.stage = "copy" => p = At(p.side, 0, 0, "copy")
  /\ p.stage \in RadixStages \cup {"copy"} =>
       Algorithm(p.side) = "radix" /\ p.pass < conf.passes /\ p.iter < Blocks(p.pass)
  /\ p.stage = "swap" => p.iter + 1 = Blocks(p.pass)

WaitsInv ==
  /\ arrived \in [Threads -> Nat] /\ left \in [Threads -> Nat]
  /\ \A t \in Threads : left[t] <= arrived[t] /\ arrived[t] <= left[t] + 1
  /\ \A t, u \in Threads : left[t] <= arrived[u]
  /\ \A t \in Threads : pc[t] = "partition" => arrived[t] = left[t]

OrderInv ==
  /\ PlacesInv
  /\ WaitsInv
  /\ \A t \in Threads : \A p : p = Place(t) => Valid(p)
  /\ \A t, u \in Threads :
       /\ left[t] = left[u] => Place(t) = Place(u)
       /\ \A p : left[t] = left[u] + 1 /\ p = Place(u) => Place(t) = After(p)

LEMMA AfterValid ==
  ASSUME InputsInv, NEW p, Valid(p)
  PROVE  Valid(After(p))
<1>1. PICK w \in Sides, i \in Nat, j \in Nat, s \in Stages : p = At(w, i, j, s)
  BY DEF Valid
<1>2. p.side = w /\ p.pass = i /\ p.iter = j /\ p.stage = s
  BY <1>1 DEF At
<1>3. \A v, k, l, r : At(v, k, l, r).side = v /\ At(v, k, l, r).pass = k /\ At(v, k, l, r).iter = l
                     /\ At(v, k, l, r).stage = r
  BY DEF At
<1>4. conf.passes \in Nat \ {0} /\ Blocks(0) = 1
      /\ \A k \in 0 .. (conf.passes - 1) : Blocks(k) \in Nat \ {0}
  BY InputsType, Geometry
<1>F. \A v \in Sides : Valid(At(v, 0, 0, FirstStage(v)))
  <2> TAKE v \in Sides
  <2>1. FirstStage(v) \in {"copy", "temp", "return"} /\ (FirstStage(v) = "copy" => Algorithm(v) = "radix")
    BY DEF FirstStage
  <2>2. 0 < conf.passes /\ 0 < Blocks(0)
    BY <1>4
  <2>3. QED
    BY <1>3, <2>1, <2>2 DEF Valid, Begins, Stages, RadixStages
<1>S. "build" \in Sides /\ "probe" \in Sides
  BY DEF Sides
<1>5. CASE s = "start"
  BY <1>2, <1>5, <1>F, <1>S DEF After
<1>6. CASE s = "copy"
  <2>1. After(p) = At(w, i, j, "histogram")
    BY <1>2, <1>6 DEF After
  <2>2. Algorithm(w) = "radix" /\ i < conf.passes /\ j < Blocks(i)
    BY <1>2, <1>6 DEF Valid
  <2>3. QED
    BY <1>3, <2>1, <2>2 DEF Valid, Begins, Stages, RadixStages
<1>7. CASE s \in {"histogram", "combine", "sum"}
  <2>1. PICK r \in {"combine", "sum", "partition"} : After(p) = At(w, i, j, r)
    BY <1>2, <1>7 DEF After
  <2>2. Algorithm(w) = "radix" /\ i < conf.passes /\ j < Blocks(i)
    BY <1>2, <1>7 DEF Valid, RadixStages
  <2>3. QED
    BY <1>3, <2>1, <2>2 DEF Valid, Begins, Stages, RadixStages
<1>8. CASE s = "partition"
  <2>2. Algorithm(w) = "radix" /\ i < conf.passes /\ j < Blocks(i)
    BY <1>2, <1>8 DEF Valid, RadixStages
  <2>3. CASE j + 1 < Blocks(i)
    <3>1. After(p) = At(w, i, j + 1, "histogram")
      BY <1>2, <1>8, <2>3 DEF After
    <3>2. QED
      BY <1>3, <2>2, <2>3, <3>1 DEF Valid, Begins, Stages, RadixStages
  <2>4. CASE ~ (j + 1 < Blocks(i))
    <3>1. After(p) = At(w, i, j, "swap")
      BY <1>2, <1>8, <2>4 DEF After
    <3>2. j + 1 = Blocks(i)
      <4>1. i \in 0 .. (conf.passes - 1)
        BY <1>4, <2>2
      <4>2. Blocks(i) \in Nat
        BY <1>4, <4>1
      <4>3. QED
        BY <2>2, <2>4, <4>2
    <3>3. QED
      BY <1>3, <2>2, <3>1, <3>2 DEF Valid, Begins, Stages, RadixStages
  <2>5. QED
    BY <2>3, <2>4
<1>9. CASE s = "swap"
  <2>2. Algorithm(w) = "radix" /\ i < conf.passes
    BY <1>2, <1>9 DEF Valid, RadixStages
  <2>3. CASE i + 1 < conf.passes
    <3>1. After(p) = At(w, i + 1, 0, "histogram")
      BY <1>2, <1>9, <2>3 DEF After
    <3>2. i + 1 \in Nat /\ 0 < Blocks(i + 1)
      <4>1. i + 1 \in 0 .. (conf.passes - 1)
        BY <1>4, <2>3
      <4>2. QED
        BY <1>4, <4>1
    <3>3. QED
      BY <1>3, <2>2, <2>3, <3>1, <3>2 DEF Valid, Begins, Stages, RadixStages
  <2>4. CASE ~ (i + 1 < conf.passes)
    <3>1. After(p) = At(w, i, j, "return")
      BY <1>2, <1>9, <2>4 DEF After
    <3>2. QED
      BY <1>3, <3>1 DEF Valid, Begins, Stages, RadixStages
  <2>5. QED
    BY <2>3, <2>4
<1>10. CASE s = "temp"
  <2>1. After(p) = At(w, i, j, "return")
    BY <1>2, <1>10 DEF After
  <2>2. QED
    BY <1>3, <2>1 DEF Valid, Begins, Stages, RadixStages
<1>11. CASE s = "return"
  <2>1. Valid(At("probe", 0, 0, "join"))
    BY <1>3, <1>S DEF Valid, Begins, Stages, RadixStages
  <2>2. QED
    BY <1>2, <1>11, <1>F, <1>S, <2>1 DEF After
<1>12. CASE s = "join"
  BY <1>2, <1>12 DEF After
<1>13. QED
  BY <1>5, <1>6, <1>7, <1>8, <1>9, <1>10, <1>11, <1>12 DEF Stages, RadixStages

(* The configuration and the keys do not change, and nothing does that is  *)
(* worked out from them.                                                   *)
LEMMA FixedInputs ==
  ASSUME UNCHANGED inputs
  PROVE  /\ \A i : PassHash(i)' = PassHash(i) /\ HistSize(i)' = HistSize(i) /\ Blocks(i)' = Blocks(i)
         /\ \A w : /\ Algorithm(w)' = Algorithm(w) /\ FirstStage(w)' = FirstStage(w)
                   /\ Passes(w)' = Passes(w) /\ Positions(w)' = Positions(w)
                   /\ HashKeys(w)' = HashKeys(w) /\ Tuples(w)' = Tuples(w)
         /\ \A p : After(p)' = After(p) /\ Valid(p)' = Valid(p)
<1>1. conf' = conf /\ key' = key
  BY DEF inputs
<1>2. \A i : PassHash(i)' = PassHash(i)
  BY <1>1 DEF PassHash
<1>3. \A i : HistSize(i)' = HistSize(i)
  BY <1>2 DEF HistSize
<1>4. \A i : Blocks(i)' = Blocks(i)
  <2> DEFINE F(i) == [k \in 0 .. (i - 1) |-> HistSize(k)]
  <2>1. \A i : F(i)' = F(i)
    BY <1>3
  <2>2. \A i : Blocks(i) = Multiplied(F(i))
    BY DEF Blocks, Multiplied
  <2>3. \A i : Blocks(i)' = Multiplied(F(i)')
    BY DEF Blocks, Multiplied, FoldFunction, FoldFunctionOnSet, MapThenFoldSet
  <2> HIDE DEF F
  <2>4. QED
    BY <2>1, <2>2, <2>3
<1>5. \A w : /\ Algorithm(w)' = Algorithm(w) /\ FirstStage(w)' = FirstStage(w)
            /\ Passes(w)' = Passes(w) /\ Positions(w)' = Positions(w) /\ Tuples(w)' = Tuples(w)
  BY <1>1 DEF Algorithm, FirstStage, Passes, Positions, Tuples
<1>6. \A w : HashKeys(w)' = HashKeys(w)
  BY <1>3, <1>5 DEF HashKeys
<1>7. \A p : After(p)' = After(p)
  BY <1>1, <1>4, <1>5 DEF After, At
<1>8. \A p : Valid(p)' = Valid(p)
  BY <1>1, <1>4, <1>5 DEF Valid, Begins, At
<1>9. QED
  BY <1>2, <1>3, <1>4, <1>5, <1>6, <1>7, <1>8


LEMMA OrderInvMove ==
  ASSUME OrderInv, NEW t \in Threads, StepOf(t)
  PROVE  OrderInv'
<1>P. PlacesInv /\ WaitsInv /\ PlacesInv' /\ UNCHANGED inputs
  BY DEF OrderInv, StepOf
<1>F. \A p : After(p)' = After(p) /\ Valid(p)' = Valid(p)
  BY <1>P, FixedInputs
<1> DEFINE P == [u \in Threads |-> Place(u)]
           Q == [u \in Threads |-> Place(u)']
<1>1. \A u \in Threads : P[u] = Place(u) /\ Q[u] = Place(u)'
  OBVIOUS
<1>2. \A u \in Threads : Valid(P[u])
  BY DEF OrderInv
<1>3. \A u, v \in Threads : /\ left[u] = left[v] => P[u] = P[v]
                            /\ left[u] = left[v] + 1 => P[u] = After(P[v])
  BY DEF OrderInv
<1>4. \A u \in Threads \ {t} : Q[u] = P[u] /\ pc'[u] = pc[u]
  BY DEF StepOf
<1> HIDE DEF P, Q
<1>S. ASSUME WaitsInv', \A u \in Threads : Valid(Q[u]),
             \A u, v \in Threads : /\ left'[u] = left'[v] => Q[u] = Q[v]
                                   /\ left'[u] = left'[v] + 1 => Q[u] = After(Q[v])
      PROVE  OrderInv'
  <2>1. \A u \in Threads : \A p : p = Place(u)' => Valid(p)'
    BY <1>S, <1>1, <1>F
  <2>2. \A u, v \in Threads :
          /\ left'[u] = left'[v] => Place(u)' = Place(v)'
          /\ \A p : left'[u] = left'[v] + 1 /\ p = Place(v)' => Place(u)' = After(p)'
    BY <1>S, <1>1, <1>F
  <2>3. QED
    BY <1>S, <1>P, <2>1, <2>2 DEF OrderInv
<1>5. CASE Stays(t)
  <2>1. \A u \in Threads : Q[u] = P[u]
    BY <1>1, <1>4, <1>5 DEF Stays
  <2>2. left' = left /\ arrived' = arrived
    BY <1>5 DEF Stays
  <2>3. WaitsInv'
    BY <1>P, <1>4, <1>5, <2>2 DEF WaitsInv, Stays
  <2>4. QED
    BY <1>S, <1>2, <1>3, <2>1, <2>2, <2>3
<1>6. CASE Arrives(t)
  <2>1. \A u \in Threads : Q[u] = P[u]
    BY <1>1, <1>4, <1>6 DEF Arrives
  <2>2. arrived[t] = left[t] /\ arrived' = [arrived EXCEPT ![t] = arrived[t] + 1] /\ left' = left
    BY <1>6 DEF Arrives, Sync!Arrive
  <2>3. arrived'[t] = left[t] + 1 /\ \A u \in Threads \ {t} : arrived'[u] = arrived[u]
    BY <1>P, <2>2 DEF WaitsInv
  <2>4. WaitsInv'
    BY <1>P, <1>4, <1>6, <2>2, <2>3 DEF WaitsInv, Arrives
  <2>5. QED
    BY <1>S, <1>2, <1>3, <2>1, <2>2, <2>4
<1>7. CASE Leaves(t)
  <2>1. /\ left[t] < arrived[t] /\ \A u \in Threads : arrived[u] >= arrived[t]
        /\ left' = [left EXCEPT ![t] = left[t] + 1] /\ arrived' = arrived
    BY <1>7 DEF Leaves, Sync!Leave
  <2>2. arrived[t] = left[t] + 1 /\ left'[t] = left[t] + 1 /\ \A u \in Threads \ {t} : left'[u] = left[u]
    BY <1>P, <2>1 DEF WaitsInv
  <2>3. Q[t] = After(P[t])
    BY <1>1, <1>7 DEF Leaves
  <2>4. Valid(Q[t])
    BY <1>P, <1>2, <2>3, AfterValid DEF PlacesInv
  <2>5. \A u \in Threads \ {t} : pc[u] = "partition" => arrived[u] = left[u]
    BY <1>P DEF WaitsInv
  <2>6. WaitsInv'
    BY <1>P, <1>4, <2>1, <2>2, <2>5 DEF WaitsInv
  <2>7. ASSUME NEW u \in Threads, NEW v \in Threads
        PROVE  /\ left'[u] = left'[v] => Q[u] = Q[v]
               /\ left'[u] = left'[v] + 1 => Q[u] = After(Q[v])
    <3>1. \A x \in Threads : left[x] \in Nat /\ left[x] <= left[t] + 1
      BY <1>P, <2>2 DEF WaitsInv
    <3>2. CASE u = t /\ v = t
      BY <3>1, <3>2, <2>2
    <3>3. CASE u = t /\ v # t
      BY <1>3, <1>4, <2>2, <2>3, <3>1, <3>3
    <3>4. CASE u # t /\ v = t
      BY <1>3, <1>4, <2>2, <2>3, <3>1, <3>4
    <3>5. CASE u # t /\ v # t
      BY <1>3, <1>4, <2>2, <3>5
    <3>6. QED
      BY <3>2, <3>3, <3>4, <3>5
  <2>8. QED
    BY <1>S, <1>2, <1>4, <2>4, <2>6, <2>7
<1>8. QED
  BY <1>5, <1>6, <1>7 DEF StepOf

LEMMA OrderInvStep == OrderInv /\ [Next]_vars => OrderInv'
<1> SUFFICES ASSUME OrderInv, [Next]_vars
             PROVE  OrderInv'
  OBVIOUS
<1>P. PlacesInv /\ WaitsInv /\ \A t \in Threads : \A p : p = Place(t) => Valid(p)
  BY DEF OrderInv
<1>U. CASE UNCHANGED <<inputs, pc, side, block, barrier>>
  <2>1. PICK t \in Threads : TRUE
    BY PartitionersAssumption DEF Threads
  <2>2. QED
    BY <1>P, <1>U, <2>1, StepNowhere, OrderInvMove
<1>1. ASSUME NEW t \in Threads, Compute(t) PROVE OrderInv'
  <2>1. Begins(Place(t))
    BY <1>P DEF Valid
  <2>2. StepOf(t)
    BY <1>1, <1>P, <2>1, SplitsPlaces, JoinPlaces
  <2>3. QED
    BY <2>2, OrderInvMove
<1>2. QED
  BY <1>1, <1>U DEF Next, CloseResults, Finished, vars, partitionVars

LEMMA OrderInvInit == Init => OrderInv
<1> SUFFICES ASSUME Init PROVE OrderInv
  OBVIOUS
<1> USE DEF Init, PartitionInit, Sync!BarrierInit
<1>1. InputsInv
  <2>1. PICK input \in Inputs : conf = input.conf /\ key = input.key
    OBVIOUS
  <2>2. input = [conf |-> input.conf, key |-> input.key]
    BY PartitionersAssumption
  <2>3. QED
    BY <2>1, <2>2 DEF InputsInv
<1>2. PlacesInv
  BY <1>1 DEF PlacesInv, Labels, SplitLabels, Sides
<1>3. WaitsInv
  BY DEF WaitsInv
<1>4. \A t \in Threads : Place(t) = At("build", 0, 0, "start")
  BY DEF Place, Stage
<1>5. \A p : p = At("build", 0, 0, "start") => Valid(p)
  BY DEF Valid, Begins, At, Sides, Stages, RadixStages
<1>6. \A t \in Threads : left[t] = 0
  OBVIOUS
<1>7. QED
  BY <1>2, <1>3, <1>4, <1>5, <1>6 DEF OrderInv


-----------------------------------------------------------------------------
(* A block, and what the threads make of their histograms of it.  A block  *)
(* is from lo to hi - 1; digit gives the digit of each position; the part  *)
(* of the global histogram that belongs to it begins at base and has size  *)
(* entries.                                                                *)

IsBlock(b) ==
  /\ b.lo \in Nat /\ b.hi \in Nat /\ b.lo <= b.hi
  /\ b.size \in Nat \ {0} /\ b.base \in Nat
  /\ \A p \in b.lo .. (b.hi - 1) : b.digit[p] \in 0 .. (b.size - 1)

BlockDigits(b) == 0 .. (b.size - 1)
Border(b, u) == Cut(b.lo, b.hi, u)

(* How many tuples with a digit thread u reads, how many there are before  *)
(* a position and in all, and where the part of the digit ends.            *)
Read(b, u, h) == Times(b.digit, Border(b, u) .. (Border(b, u + 1) - 1), h)
Before(b, p, h) == Times(b.digit, b.lo .. (p - 1), h)
PartEnd(b, h) == b.lo + Fewer(b.digit, b.lo .. (b.hi - 1), h + 1)

(* The digits that thread t combines.                                      *)
Mine(b, t) == {h \in BlockDigits(b) : Cut(0, b.size, t) <= h /\ h < Cut(0, b.size, t + 1)}

Counted(b, D, hist, off) ==
  \A h \in BlockDigits(b) :
    /\ hist[0][h] = 0
    /\ \A u \in Threads \ {LastThread} : hist[u + 1][h] = IF u \in D THEN Read(b, u, h) ELSE 0
    /\ off[b.base + h] = IF LastThread \in D THEN Read(b, LastThread, h) ELSE 0

Combining(b, D, hist, off) ==
  \A t \in Threads : \A h \in Mine(b, t) :
    /\ \A u \in Threads : hist[u][h] = IF t \in D THEN Before(b, Border(b, u), h)
                                       ELSE IF u = 0 THEN 0 ELSE Read(b, u - 1, h)
    /\ off[b.base + h] = IF t \in D THEN Before(b, b.hi, h) ELSE Read(b, LastThread, h)

Summing(b, D, hist, off, ix) ==
  /\ \A h \in BlockDigits(b) :
       /\ \A u \in Threads : hist[u][h] = Before(b, Border(b, u), h)
       /\ off[b.base + h] = IF 0 \in D THEN PartEnd(b, h) ELSE Before(b, b.hi, h)
  /\ \A t \in Threads : t \in D => ix[t] = 0

Moving(b, D, hist, off, ix) ==
  /\ \A h \in BlockDigits(b) : off[b.base + h] = PartEnd(b, h)
  /\ \A t \in Threads :
       /\ t \in D => \A h \in BlockDigits(b) : hist[t][h] = 0
       /\ t \notin D =>
            /\ ix[t] \in Nat /\ Border(b, t) + ix[t] <= Border(b, t + 1)
            /\ \A h \in BlockDigits(b) : hist[t][h] = Before(b, Border(b, t) + ix[t], h)

LEMMA ThreadNumbers ==
  /\ NThreads \in Nat \ {0} /\ LastThread \in Threads /\ 0 \in Threads
  /\ LastThread + 1 = NThreads
  /\ \A t \in Threads : t \in Nat /\ t \in 0 .. NThreads /\ t + 1 \in 0 .. NThreads /\ t # NThreads
                        /\ (t # LastThread => t + 1 \in Threads)
                        /\ (t # 0 => t - 1 \in Threads \ {LastThread} /\ (t - 1) + 1 = t)
BY PartitionersAssumption DEF Threads, LastThread

LEMMA Borders ==
  ASSUME NEW b, IsBlock(b)
  PROVE  /\ \A t \in Threads : /\ Border(b, t) \in b.lo .. b.hi /\ Border(b, t + 1) \in b.lo .. b.hi
                               /\ Border(b, t) <= Border(b, t + 1)
         /\ Border(b, 0) = b.lo /\ Border(b, LastThread + 1) = b.hi
<1>1. PICK lo \in Nat, hi \in Nat : lo = b.lo /\ hi = b.hi /\ lo <= hi
  BY DEF IsBlock
<1>2. /\ \A u \in 0 .. NThreads : Cut(lo, hi, u) \in lo .. hi
      /\ Cut(lo, hi, 0) = lo /\ Cut(lo, hi, NThreads) = hi
      /\ \A u, v \in 0 .. NThreads : u <= v => Cut(lo, hi, u) <= Cut(lo, hi, v)
  BY <1>1, Cuts
<1>3. \A t \in Threads : t <= t + 1
  BY ThreadNumbers
<1>4. QED
  BY <1>1, <1>2, <1>3, ThreadNumbers DEF Border

(* Each digit is combined by one thread. *)
LEMMA MineCovers ==
  ASSUME NEW b, IsBlock(b)
  PROVE  /\ \A h \in BlockDigits(b) : \E t \in Threads : h \in Mine(b, t)
         /\ \A t, u \in Threads : t # u => Mine(b, t) \cap Mine(b, u) = {}
<1>1. PICK size \in Nat, zero \in Nat : size = b.size /\ zero = 0 /\ zero <= size
  BY DEF IsBlock
<1>2. /\ \A u \in 0 .. NThreads : Cut(zero, size, u) \in zero .. size
      /\ Cut(zero, size, 0) = zero /\ Cut(zero, size, NThreads) = size
      /\ \A u, v \in 0 .. NThreads : u <= v => Cut(zero, size, u) <= Cut(zero, size, v)
  BY <1>1, Cuts
<1>3. ASSUME NEW h \in BlockDigits(b) PROVE \E t \in Threads : h \in Mine(b, t)
  <2>1. h \in Int /\ zero <= h /\ h < Cut(zero, size, NThreads)
    BY <1>1, <1>2 DEF BlockDigits
  <2>2. PICK n \in 0 .. NThreads : n = NThreads
    BY ThreadNumbers
  <2>3. PICK v \in 0 .. (n - 1) : Cut(zero, size, v) <= h /\ h < Cut(zero, size, v + 1)
    BY <1>1, <2>1, <2>2, InSomeShare
  <2>4. v \in Threads
    BY <2>2 DEF Threads
  <2>5. QED
    BY <1>1, <2>3, <2>4 DEF Mine
<1>4. ASSUME NEW t \in Threads, NEW u \in Threads, t < u PROVE Mine(b, t) \cap Mine(b, u) = {}
  <2>0. t \in 0 .. NThreads /\ u \in 0 .. NThreads /\ t + 1 \in 0 .. NThreads
    BY ThreadNumbers
  <2>1. t + 1 <= u
    BY <1>4, <2>0
  <2>2. Cut(zero, size, t + 1) <= Cut(zero, size, u)
    BY <1>2, <2>0, <2>1
  <2>3. Cut(zero, size, t + 1) \in Int /\ Cut(zero, size, u) \in Int
    BY <1>1, <1>2, <2>0
  <2>4. \A h \in BlockDigits(b) : h \in Int
    BY <1>1 DEF BlockDigits
  <2>5. \A h \in BlockDigits(b) : ~ (h \in Mine(b, t) /\ h \in Mine(b, u))
    BY <1>1, <2>2, <2>3, <2>4 DEF Mine
  <2>6. QED
    BY <2>5 DEF Mine
<1>5. \A t, u \in Threads : t # u => t < u \/ u < t
  <2>1. \A t \in Threads : t \in Nat
    BY ThreadNumbers
  <2>2. QED
    BY <2>1
<1>6. ASSUME NEW t \in Threads, NEW u \in Threads, t # u PROVE Mine(b, t) \cap Mine(b, u) = {}
  <2>1. CASE t < u
    BY <1>4, <2>1
  <2>2. CASE u < t
    <3>1. Mine(b, u) \cap Mine(b, t) = {}
      BY <1>4, <2>2
    <3>2. QED
      BY <3>1
  <2>3. QED
    BY <1>5, <1>6, <2>1, <2>2
<1>7. QED
  BY <1>3, <1>6

(* The sum of the histograms of the threads up to u. *)
SumUpTo(hist, u, h) ==
  IF u = 0 THEN hist[0][h] ELSE SumFunctionOnSet([v \in 1 .. u |-> hist[v][h]], 1 .. u)

LEMMA BlockCounts ==
  ASSUME NEW b, IsBlock(b), NEW h
  PROVE  /\ Before(b, b.lo, h) = 0
         /\ \A u \in Threads : Read(b, u, h) \in Nat
         /\ \A u \in Threads : Before(b, Border(b, u), h) + Read(b, u, h) = Before(b, Border(b, u + 1), h)
         /\ \A p \in b.lo .. b.hi : Before(b, p, h) \in 0 .. (b.hi - b.lo)
         /\ \A p \in b.lo .. b.hi : Before(b, b.hi, h) = Before(b, p, h) + Times(b.digit, p .. (b.hi - 1), h)
<1>0. b.lo \in Nat /\ b.hi \in Nat /\ b.lo <= b.hi
  BY DEF IsBlock
<1>1. Before(b, b.lo, h) = 0
  <2>1. {p \in b.lo .. (b.lo - 1) : b.digit[p] = h} = {}
    BY <1>0
  <2>2. QED
    BY <2>1, FS_EmptySet DEF Before, Times
<1>2. \A u \in Threads : Read(b, u, h) \in Nat
  <2> TAKE u \in Threads
  <2>1. PICK S : S = Border(b, u) .. (Border(b, u + 1) - 1)
    OBVIOUS
  <2>2. IsFiniteSet(S)
    <3>1. Border(b, u) \in Int /\ Border(b, u + 1) - 1 \in Int
      BY <1>0, Borders
    <3>2. QED
      BY <2>1, <3>1, FS_Interval
  <2>3. Times(b.digit, S, h) \in Nat
    BY <2>2, CountType
  <2>4. QED
    BY <2>1, <2>3 DEF Read
<1>3. ASSUME NEW u \in Threads
      PROVE  Before(b, Border(b, u), h) + Read(b, u, h) = Before(b, Border(b, u + 1), h)
  <2>1. /\ b.lo \in Int /\ Border(b, u) \in Int /\ Border(b, u + 1) \in Int
        /\ b.lo <= Border(b, u) /\ Border(b, u) <= Border(b, u + 1)
    BY <1>0, Borders
  <2>2. QED
    BY <2>1, TimesSplit DEF Before, Read
<1>4. ASSUME NEW p \in b.lo .. b.hi PROVE Before(b, p, h) \in 0 .. (b.hi - b.lo)
  <2>1. PICK S : S = b.lo .. (p - 1)
    OBVIOUS
  <2>2. IsFiniteSet(S) /\ Cardinality(S) = p - b.lo
    <3>1. PICK x \in Int, y \in Int : x = b.lo /\ y = p - 1
      BY <1>0
    <3>2. IsFiniteSet(x .. y) /\ Cardinality(x .. y) = IF x > y THEN 0 ELSE y - x + 1
      BY FS_Interval
    <3>3. b.lo <= p /\ S = x .. y
      BY <1>0, <2>1, <3>1
    <3>4. QED
      BY <1>0, <3>1, <3>2, <3>3
  <2>3. Times(b.digit, S, h) \in Nat /\ Times(b.digit, S, h) <= Cardinality(S)
    BY <2>2, CountType
  <2>4. QED
    BY <1>0, <2>1, <2>2, <2>3 DEF Before
<1>5. ASSUME NEW p \in b.lo .. b.hi
      PROVE  Before(b, b.hi, h) = Before(b, p, h) + Times(b.digit, p .. (b.hi - 1), h)
  BY <1>0, TimesSplit DEF Before
<1>6. QED
  BY <1>1, <1>2, <1>3, <1>4, <1>5

(* createhistogram() of thread t. *)
LEMMA HistogramStep ==
  ASSUME NEW b, IsBlock(b), NEW D, NEW t \in Threads, t \notin D,
         NEW hist, NEW off, Counted(b, D, hist, off), NEW hist2, NEW off2,
         \A h \in BlockDigits(b) :
           /\ \A u \in Threads :
                hist2[u][h] = IF u = t + 1 THEN hist[u][h] + Read(b, t, h) ELSE hist[u][h]
           /\ off2[b.base + h] = IF t = LastThread THEN off[b.base + h] + Read(b, t, h)
                                 ELSE off[b.base + h]
  PROVE  Counted(b, D \cup {t}, hist2, off2)
<1> SUFFICES ASSUME NEW h \in BlockDigits(b)
             PROVE  /\ hist2[0][h] = 0
                    /\ \A u \in Threads \ {LastThread} :
                         hist2[u + 1][h] = IF u \in D \cup {t} THEN Read(b, u, h) ELSE 0
                    /\ off2[b.base + h] = IF LastThread \in D \cup {t} THEN Read(b, LastThread, h) ELSE 0
  BY DEF Counted
<1>1. Read(b, t, h) \in Nat
  BY BlockCounts
<1>2. hist2[0][h] = 0
  <2>1. 0 \in Threads /\ 0 # t + 1
    BY ThreadNumbers
  <2>2. QED
    BY <2>1 DEF Counted
<1>3. ASSUME NEW u \in Threads \ {LastThread}
      PROVE  hist2[u + 1][h] = IF u \in D \cup {t} THEN Read(b, u, h) ELSE 0
  <2>1. u + 1 \in Threads /\ (u + 1 = t + 1 <=> u = t)
    BY ThreadNumbers
  <2>2. hist[u + 1][h] = IF u \in D THEN Read(b, u, h) ELSE 0
    BY DEF Counted
  <2>3. QED
    BY <1>1, <2>1, <2>2
<1>4. off2[b.base + h] = IF LastThread \in D \cup {t} THEN Read(b, LastThread, h) ELSE 0
  BY <1>1 DEF Counted
<1>5. QED
  BY <1>2, <1>3, <1>4

LEMMA Combine ==
  ASSUME NEW b, IsBlock(b), NEW h, NEW hist,
         \A u \in Threads : hist[u][h] = IF u = 0 THEN 0 ELSE Read(b, u - 1, h)
  PROVE  \A u \in Threads : SumUpTo(hist, u, h) = Before(b, Border(b, u), h)
<1> SUFFICES ASSUME NEW u \in Threads
             PROVE  SumUpTo(hist, u, h) = Before(b, Border(b, u), h)
  OBVIOUS
<1>1. CASE u = 0
  BY <1>1, Borders, BlockCounts DEF SumUpTo
<1>2. CASE u # 0
  <2>1. PICK lo \in Nat, hi \in Nat : lo = b.lo /\ hi = b.hi /\ lo <= hi
    BY DEF IsBlock
  <2>2. PICK f : f = [v \in 1 .. u |-> hist[v][h]]
    OBVIOUS
  <2>3. u \in 0 .. NThreads /\ u \in Nat
    BY ThreadNumbers
  <2>4. ASSUME NEW v \in 1 .. u
        PROVE  f[v] = Times(b.digit, Cut(lo, hi, v - 1) .. (Cut(lo, hi, v) - 1), h)
    <3>1. v \in Threads /\ v # 0 /\ (v - 1) + 1 = v
      <4>1. u \in 0 .. (NThreads - 1) /\ NThreads \in Nat
        BY ThreadNumbers DEF Threads
      <4>2. QED
        BY <4>1 DEF Threads
    <3>2. f[v] = Read(b, v - 1, h)
      BY <2>2, <3>1
    <3>3. QED
      BY <2>1, <3>1, <3>2 DEF Read, Border
  <2>5. SumFunctionOnSet(f, 1 .. u) = Times(b.digit, lo .. (Cut(lo, hi, u) - 1), h)
    BY <2>1, <2>3, <2>4, CountThreads
  <2>6. QED
    BY <1>2, <2>1, <2>2, <2>5 DEF SumUpTo, Before, Border
<1>3. QED
  BY <1>1, <1>2

(* combinehistogram() of thread t. *)
LEMMA CombineStep ==
  ASSUME NEW b, IsBlock(b), NEW D, NEW t \in Threads, t \notin D,
         NEW hist, NEW off, Combining(b, D, hist, off), NEW hist2, NEW off2,
         \A h \in BlockDigits(b) :
           /\ \A u \in Threads :
                hist2[u][h] = IF h \in Mine(b, t) THEN SumUpTo(hist, u, h) ELSE hist[u][h]
           /\ off2[b.base + h] = IF h \in Mine(b, t) THEN off[b.base + h] + SumUpTo(hist, LastThread, h)
                                 ELSE off[b.base + h]
  PROVE  Combining(b, D \cup {t}, hist2, off2)
<1>1. \A u \in Threads : \A h : h \in Mine(b, u) => h \in BlockDigits(b)
  BY DEF Mine
<1>2. ASSUME NEW h \in Mine(b, t)
      PROVE  /\ \A u \in Threads : hist2[u][h] = Before(b, Border(b, u), h)
             /\ off2[b.base + h] = Before(b, b.hi, h)
  <2>1. \A u \in Threads : hist[u][h] = IF u = 0 THEN 0 ELSE Read(b, u - 1, h)
    BY DEF Combining
  <2>2. \A u \in Threads : SumUpTo(hist, u, h) = Before(b, Border(b, u), h)
    BY <2>1, Combine
  <2>3. off[b.base + h] = Read(b, LastThread, h)
    BY DEF Combining
  <2>4. LastThread \in Threads /\ Border(b, LastThread + 1) = b.hi
    BY ThreadNumbers, Borders
  <2>5. PICK x, y, z : x = Before(b, Border(b, LastThread), h) /\ y = Read(b, LastThread, h)
                       /\ z = Before(b, b.hi, h)
    OBVIOUS
  <2>6. x + y = z
    BY <2>4, <2>5, BlockCounts
  <2>7. x \in Int /\ y \in Int
    <3>1. Border(b, LastThread) \in b.lo .. b.hi
      BY <2>4, Borders
    <3>2. Before(b, Border(b, LastThread), h) \in 0 .. (b.hi - b.lo)
      BY <3>1, BlockCounts
    <3>3. Read(b, LastThread, h) \in Nat
      BY <2>4, BlockCounts
    <3>4. QED
      BY <2>5, <3>2, <3>3
  <2>8. off2[b.base + h] = y + x
    BY <1>1, <2>2, <2>3, <2>4, <2>5
  <2>9. QED
    BY <1>1, <2>2, <2>5, <2>6, <2>7, <2>8
<1>3. ASSUME NEW v \in Threads, v # t, NEW h \in Mine(b, v)
      PROVE  /\ \A u \in Threads : hist2[u][h] = hist[u][h]
             /\ off2[b.base + h] = off[b.base + h]
  <2>1. h \in BlockDigits(b) /\ h \notin Mine(b, t)
    BY <1>1, <1>3, MineCovers
  <2>2. QED
    BY <2>1
<1>4. ASSUME NEW v \in Threads, NEW h \in Mine(b, v)
      PROVE  /\ \A u \in Threads : hist2[u][h] = IF v \in D \cup {t} THEN Before(b, Border(b, u), h)
                                                  ELSE IF u = 0 THEN 0 ELSE Read(b, u - 1, h)
             /\ off2[b.base + h] = IF v \in D \cup {t} THEN Before(b, b.hi, h) ELSE Read(b, LastThread, h)
  <2>1. CASE v = t
    BY <1>2, <2>1
  <2>2. CASE v # t
    <3>1. v \in D \cup {t} <=> v \in D
      BY <2>2
    <3>2. QED
      BY <1>3, <2>2, <3>1 DEF Combining
  <2>3. QED
    BY <2>1, <2>2
<1>5. QED
  BY <1>4 DEF Combining

(* Thread 0 adds up the global histogram. *)
LEMMA SumStep ==
  ASSUME NEW b, IsBlock(b), NEW D, NEW t \in Threads, t \notin D,
         NEW hist, NEW off, NEW ix, Summing(b, D, hist, off, ix), NEW off2, NEW ix2,
         \A h \in BlockDigits(b) :
           off2[b.base + h] = IF t = 0 THEN b.lo + SumFunctionOnSet(off, b.base .. (b.base + h))
                              ELSE off[b.base + h],
         \A u \in Threads : ix2[u] = IF u = t THEN 0 ELSE ix[u]
  PROVE  Summing(b, D \cup {t}, hist, off2, ix2)
<1>1. ASSUME NEW h \in BlockDigits(b), t = 0
      PROVE  off2[b.base + h] = PartEnd(b, h)
  <2>1. PICK S : S = b.lo .. (b.hi - 1)
    OBVIOUS
  <2>2. IsFiniteSet(S)
    <3>1. PICK x \in Int, y \in Int : x = b.lo /\ y = b.hi - 1
      BY DEF IsBlock
    <3>2. QED
      BY <2>1, <3>1, FS_Interval
  <2>3. PICK d : d = b.digit
    OBVIOUS
  <2>4. \A p \in S : d[p] \in Nat
    BY <2>1, <2>3 DEF IsBlock
  <2>5. PICK g \in Nat : g = b.base
    BY DEF IsBlock
  <2>6. h \in Nat /\ b.size \in Nat /\ \A k \in 0 .. h : k \in BlockDigits(b)
    BY DEF BlockDigits, IsBlock
  <2>7. \A k \in 0 .. h : off[g + k] = Times(d, S, k)
    BY <1>1, <2>1, <2>3, <2>5, <2>6 DEF Summing, Before
  <2>8. SumFunctionOnSet(off, g .. (g + h)) = Fewer(d, S, h + 1)
    <3>1. h \in Nat
      BY <2>6
    <3>2. QED
      BY <2>2, <2>4, <2>7, <3>1, CountDigits
  <2>9. off2[b.base + h] = b.lo + SumFunctionOnSet(off, b.base .. (b.base + h))
    BY <1>1
  <2>10. QED
    BY <2>1, <2>3, <2>5, <2>8, <2>9 DEF PartEnd
<1>2. ASSUME NEW h \in BlockDigits(b)
      PROVE  off2[b.base + h] = IF 0 \in D \cup {t} THEN PartEnd(b, h) ELSE Before(b, b.hi, h)
  <2>1. CASE t = 0
    BY <1>1, <2>1
  <2>2. CASE t # 0
    BY <2>2 DEF Summing
  <2>3. QED
    BY <2>1, <2>2
<1>3. \A u \in D \cup {t} : u \in Threads => ix2[u] = 0
  BY DEF Summing
<1>4. QED
  BY <1>2, <1>3 DEF Summing

(* radixpartition() of thread t, a tuple further. *)
LEMMA PartitionStep ==
  ASSUME NEW b, IsBlock(b), NEW D, NEW t \in Threads, t \notin D,
         NEW hist, NEW off, NEW ix, Moving(b, D, hist, off, ix), NEW hist2, NEW ix2,
         Border(b, t) + ix[t] < Border(b, t + 1),
         \A h \in BlockDigits(b) : \A u \in Threads :
           hist2[u][h] = IF u = t /\ h = b.digit[Border(b, t) + ix[t]] THEN hist[u][h] + 1 ELSE hist[u][h],
         \A u \in Threads : ix2[u] = IF u = t THEN ix[u] + 1 ELSE ix[u]
  PROVE  Moving(b, D, hist2, off, ix2)
<1>1. PICK p : p = Border(b, t) + ix[t]
  OBVIOUS
<1>2. /\ ix[t] \in Nat /\ Border(b, t) \in Nat /\ Border(b, t + 1) \in b.lo .. b.hi
      /\ p \in b.lo .. b.hi /\ p + 1 \in b.lo .. b.hi /\ p + 1 <= Border(b, t + 1)
      /\ b.lo \in Nat /\ b.hi \in Nat
  <2>1. ix[t] \in Nat /\ p <= Border(b, t + 1)
    BY <1>1 DEF Moving
  <2>2. Border(b, t) \in b.lo .. b.hi /\ Border(b, t + 1) \in b.lo .. b.hi
    BY Borders
  <2>3. b.lo \in Nat /\ b.hi \in Nat
    BY DEF IsBlock
  <2>4. QED
    BY <1>1, <2>1, <2>2, <2>3
<1>3. ASSUME NEW h \in BlockDigits(b)
      PROVE  Before(b, p + 1, h) = IF h = b.digit[p] THEN Before(b, p, h) + 1 ELSE Before(b, p, h)
  <2>1. PICK lo \in Int, q \in Int : lo = b.lo /\ q = p /\ lo <= q
    BY <1>2
  <2>2. PICK r \in Int : r = q + 1 /\ q <= r
    OBVIOUS
  <2>3. Times(b.digit, lo .. (r - 1), h) = Times(b.digit, lo .. (q - 1), h) + Times(b.digit, q .. (r - 1), h)
    <3>1. lo \in Int /\ q \in Int /\ r \in Int /\ lo <= q /\ q <= r
      BY <2>1, <2>2
    <3>2. QED
      BY <3>1, TimesSplit
  <2>4. {x \in q .. (r - 1) : b.digit[x] = h} = IF h = b.digit[q] THEN {q} ELSE {}
    <3>1. q .. (r - 1) = {q}
      BY <2>1, <2>2
    <3>2. QED
      BY <3>1
  <2>5. Times(b.digit, q .. (r - 1), h) = IF h = b.digit[q] THEN 1 ELSE 0
    BY <2>4, FS_EmptySet, FS_Singleton DEF Times
  <2>6. Before(b, p, h) \in Int
    <3>1. Before(b, p, h) \in 0 .. (b.hi - b.lo)
      BY <1>2, BlockCounts
    <3>2. QED
      BY <3>1
  <2>7. QED
    BY <2>1, <2>2, <2>3, <2>5, <2>6 DEF Before
<1>4. \A h \in BlockDigits(b) : hist2[t][h] = Before(b, Border(b, t) + ix2[t], h)
  <2>1. \A h \in BlockDigits(b) : hist[t][h] = Before(b, p, h)
    BY <1>1 DEF Moving
  <2>2. ix2[t] = ix[t] + 1 /\ Border(b, t) + ix2[t] = p + 1
    BY <1>1, <1>2
  <2>3. QED
    BY <1>1, <1>3, <2>1, <2>2
<1>5. \A u \in Threads \ {t} : ix2[u] = ix[u] /\ \A h \in BlockDigits(b) : hist2[u][h] = hist[u][h]
  OBVIOUS
<1>6. ix2[t] \in Nat /\ Border(b, t) + ix2[t] <= Border(b, t + 1)
  BY <1>1, <1>2
<1>7. ASSUME NEW u \in Threads
      PROVE  /\ u \in D => \A h \in BlockDigits(b) : hist2[u][h] = 0
             /\ u \notin D =>
                  /\ ix2[u] \in Nat /\ Border(b, u) + ix2[u] <= Border(b, u + 1)
                  /\ \A h \in BlockDigits(b) : hist2[u][h] = Before(b, Border(b, u) + ix2[u], h)
  <2>1. CASE u = t
    BY <1>4, <1>6, <2>1
  <2>2. CASE u # t
    BY <1>5, <2>2 DEF Moving
  <2>3. QED
    BY <2>1, <2>2
<1>8. QED
  BY <1>7 DEF Moving

(* The histogram of thread t is reset. *)
LEMMA ResetStep ==
  ASSUME NEW b, NEW D, NEW t \in Threads, NEW hist, NEW off, NEW ix, Moving(b, D, hist, off, ix),
         NEW hist2,
         \A h \in BlockDigits(b) : \A u \in Threads :
           hist2[u][h] = IF u = t THEN 0 ELSE hist[u][h]
  PROVE  Moving(b, D \cup {t}, hist2, off, ix)
<1>1. ASSUME NEW u \in Threads
      PROVE  /\ u \in D \cup {t} => \A h \in BlockDigits(b) : hist2[u][h] = 0
             /\ u \notin D \cup {t} =>
                  /\ ix[u] \in Nat /\ Border(b, u) + ix[u] <= Border(b, u + 1)
                  /\ \A h \in BlockDigits(b) : hist2[u][h] = Before(b, Border(b, u) + ix[u], h)
  <2>1. CASE u = t
    BY <2>1
  <2>2. CASE u # t
    BY <2>2 DEF Moving
  <2>3. QED
    BY <2>1, <2>2
<1>2. QED
  BY <1>1 DEF Moving

(* Where thread t is still to put tuples of a digit, when it has come to   *)
(* position p of its share.                                                *)
Slots(b, t, p, h) ==
  (b.lo + Fewer(b.digit, b.lo .. (b.hi - 1), h) + Before(b, p, h))
    .. (b.lo + Fewer(b.digit, b.lo .. (b.hi - 1), h) + Before(b, Border(b, t + 1), h) - 1)

LEMMA SlotsWithin ==
  ASSUME NEW b, IsBlock(b), NEW t \in Threads, NEW p \in Border(b, t) .. Border(b, t + 1),
         NEW h \in BlockDigits(b)
  PROVE  Slots(b, t, p, h) \subseteq
           (b.lo + Fewer(b.digit, b.lo .. (b.hi - 1), h)) .. (b.lo + Fewer(b.digit, b.lo .. (b.hi - 1), h + 1) - 1)
<1>1. PICK lo \in Nat, hi \in Nat : lo = b.lo /\ hi = b.hi /\ lo <= hi
  BY DEF IsBlock
<1>2. PICK S : S = lo .. (hi - 1)
  OBVIOUS
<1>3. IsFiniteSet(S)
  <2>1. PICK c \in Int, d \in Int : c = lo /\ d = hi - 1
    OBVIOUS
  <2>2. QED
    BY <1>2, <2>1, FS_Interval
<1>4. \A x \in S : b.digit[x] \in Nat
  BY <1>1, <1>2 DEF IsBlock
<1>5. h \in Nat
  BY DEF BlockDigits, IsBlock
<1>6. Fewer(b.digit, S, h + 1) = Fewer(b.digit, S, h) + Times(b.digit, S, h)
  BY <1>3, <1>4, <1>5, FewerSplit
<1>7. Fewer(b.digit, S, h) \in Nat /\ Times(b.digit, S, h) \in Nat
  BY <1>3, CountType
<1>8. Border(b, t) \in lo .. hi /\ Border(b, t + 1) \in lo .. hi /\ p \in lo .. hi
  <2>1. Border(b, t) \in lo .. hi /\ Border(b, t + 1) \in lo .. hi
    BY <1>1, Borders
  <2>2. QED
    BY <2>1
<1>9. PICK x, y, z : /\ x = Before(b, p, h) /\ y = Before(b, Border(b, t + 1), h)
                     /\ z = Times(b.digit, Border(b, t + 1) .. (b.hi - 1), h)
  OBVIOUS
<1>10. x \in 0 .. (hi - lo) /\ y \in 0 .. (hi - lo)
  <2>1. \A q \in lo .. hi : Before(b, q, h) \in 0 .. (hi - lo)
    BY <1>1, BlockCounts
  <2>2. QED
    BY <1>8, <1>9, <2>1
<1>11. Before(b, b.hi, h) = y + z
  <2>1. \A q \in lo .. hi : Before(b, b.hi, h) = Before(b, q, h) + Times(b.digit, q .. (b.hi - 1), h)
    BY <1>1, BlockCounts
  <2>2. QED
    BY <1>8, <1>9, <2>1
<1>12. z \in Nat
  <2>1. PICK T : T = Border(b, t + 1) .. (b.hi - 1)
    OBVIOUS
  <2>2. IsFiniteSet(T)
    <3>1. PICK c \in Int, d \in Int : c = Border(b, t + 1) /\ d = b.hi - 1
      BY <1>1, <1>8
    <3>2. QED
      BY <2>1, <3>1, FS_Interval
  <2>3. QED
    BY <1>9, <2>1, <2>2, CountType
<1>13. Before(b, b.hi, h) = Times(b.digit, S, h)
  BY <1>1, <1>2 DEF Before
<1>14. y <= Times(b.digit, S, h)
  BY <1>10, <1>11, <1>12, <1>13
<1>15. PICK F, G, T : F = Fewer(b.digit, S, h) /\ G = Fewer(b.digit, S, h + 1) /\ T = Times(b.digit, S, h)
  OBVIOUS
<1>16. Slots(b, t, p, h) = (lo + F + x) .. (lo + F + y - 1)
  BY <1>1, <1>2, <1>9, <1>15 DEF Slots
<1>17. (lo + F + x) .. (lo + F + y - 1) \subseteq (lo + F) .. (lo + G - 1)
  <2>1. F \in Nat /\ T \in Nat /\ G = F + T /\ y <= T /\ x \in Nat /\ y \in Nat
    BY <1>6, <1>7, <1>10, <1>14, <1>15
  <2>2. QED
    BY <2>1
<1>18. QED
  BY <1>1, <1>2, <1>15, <1>16, <1>17

(* The places are in the block, and those of two threads apart. *)
LEMMA SlotsDisjoint ==
  ASSUME NEW b, IsBlock(b), NEW t \in Threads, NEW p \in Border(b, t) .. Border(b, t + 1),
         NEW h \in BlockDigits(b), NEW u \in Threads, NEW q \in Border(b, u) .. Border(b, u + 1),
         NEW k \in BlockDigits(b)
  PROVE  /\ Slots(b, t, p, h) \subseteq b.lo .. (b.hi - 1)
         /\ h < k \/ (h = k /\ t < u) => Slots(b, t, p, h) \cap Slots(b, u, q, k) = {}
<1>1. PICK lo \in Nat, hi \in Nat, size \in Nat : lo = b.lo /\ hi = b.hi /\ lo <= hi /\ size = b.size
  BY DEF IsBlock
<1>2. PICK S : S = lo .. (hi - 1)
  OBVIOUS
<1>3. IsFiniteSet(S) /\ Cardinality(S) = hi - lo
  <2>1. PICK c \in Int, d \in Int : c = lo /\ d = hi - 1
    OBVIOUS
  <2>2. IsFiniteSet(c .. d) /\ Cardinality(c .. d) = IF c > d THEN 0 ELSE d - c + 1
    BY FS_Interval
  <2>3. QED
    BY <1>1, <1>2, <2>1, <2>2
<1>4. \A x \in S : b.digit[x] \in Nat
  BY <1>1, <1>2 DEF IsBlock
<1>5. h \in Nat /\ k \in Nat /\ h + 1 \in Nat /\ h < size
  BY <1>1 DEF BlockDigits
<1>6. \A c \in Nat : Fewer(b.digit, S, c) \in Nat /\ Fewer(b.digit, S, c) <= hi - lo
  BY <1>3, CountType
<1>7. \A c, d \in Nat : c <= d => Fewer(b.digit, S, c) <= Fewer(b.digit, S, d)
  BY <1>3, <1>4, FewerSplit
<1>8. PICK F, G, K, L \in Nat : /\ F = Fewer(b.digit, S, h) /\ G = Fewer(b.digit, S, h + 1)
                               /\ K = Fewer(b.digit, S, k) /\ L = Fewer(b.digit, S, k + 1)
  <2>1. /\ Fewer(b.digit, S, h) \in Nat /\ Fewer(b.digit, S, h + 1) \in Nat
        /\ Fewer(b.digit, S, k) \in Nat /\ Fewer(b.digit, S, k + 1) \in Nat
    BY <1>5, <1>6
  <2>2. QED
    BY <2>1
<1>9. G <= hi - lo /\ (h < k => G <= K)
  BY <1>5, <1>6, <1>7, <1>8
<1>10. Slots(b, t, p, h) \subseteq (lo + F) .. (lo + G - 1)
  BY <1>1, <1>2, <1>8, SlotsWithin
<1>11. Slots(b, u, q, k) \subseteq (lo + K) .. (lo + L - 1)
  BY <1>1, <1>2, <1>8, SlotsWithin
<1>12. Slots(b, t, p, h) \subseteq b.lo .. (b.hi - 1)
  <2>1. (lo + F) .. (lo + G - 1) \subseteq lo .. (hi - 1)
    BY <1>1, <1>9
  <2>2. QED
    BY <1>1, <1>10, <2>1
<1>13. CASE h < k
  <2>1. (lo + F) .. (lo + G - 1) \cap (lo + K) .. (lo + L - 1) = {}
    BY <1>9, <1>13
  <2>2. Slots(b, t, p, h) \cap Slots(b, u, q, k) = {}
    BY <1>10, <1>11, <2>1
  <2>3. QED
    BY <1>12, <2>2
<1>14. CASE h = k /\ t < u
  <2>1. \A v \in Threads : /\ Border(b, v) \in lo .. hi /\ Border(b, v + 1) \in lo .. hi
                            /\ Border(b, v) <= Border(b, v + 1)
    BY <1>1, Borders
  <2>2. Border(b, t + 1) <= Border(b, u)
    <3>1. t + 1 \in 0 .. NThreads /\ u \in 0 .. NThreads /\ t + 1 <= u
      <4>1. t \in Nat /\ u \in Nat /\ t + 1 \in 0 .. NThreads /\ u \in 0 .. NThreads
        BY ThreadNumbers
      <4>2. QED
        BY <1>14, <4>1
    <3>2. \A x, y \in 0 .. NThreads : x <= y => Cut(lo, hi, x) <= Cut(lo, hi, y)
      BY <1>1, Cuts
    <3>3. QED
      BY <1>1, <3>1, <3>2 DEF Border
  <2>3. PICK r \in Int, s \in Int : r = Border(b, t + 1) /\ s = q /\ r <= s /\ lo <= r /\ s <= hi
    BY <2>1, <2>2
  <2>4. Before(b, r, h) <= Before(b, s, h)
    <3>1. Times(b.digit, lo .. (s - 1), h) = Times(b.digit, lo .. (r - 1), h) + Times(b.digit, r .. (s - 1), h)
      BY <2>3, TimesSplit
    <3>2. Before(b, r, h) \in 0 .. (hi - lo)
      <4>1. \A x \in lo .. hi : Before(b, x, h) \in 0 .. (hi - lo)
        BY <1>1, BlockCounts
      <4>2. QED
        BY <2>3, <4>1
    <3>3. Times(b.digit, r .. (s - 1), h) \in Nat
      <4>1. PICK d, T : d \in Int /\ d = s - 1 /\ T = r .. d
        OBVIOUS
      <4>2. IsFiniteSet(T)
        BY <4>1, FS_Interval
      <4>3. QED
        BY <4>1, <4>2, CountType
    <3>4. QED
      BY <1>1, <3>1, <3>2, <3>3 DEF Before
  <2>5. PICK x, y : x = Before(b, r, h) /\ y = Before(b, s, h)
    OBVIOUS
  <2>6. x \in Int /\ y \in Int /\ x <= y
    <3>1. \A z \in lo .. hi : Before(b, z, h) \in 0 .. (hi - lo)
      BY <1>1, BlockCounts
    <3>2. r \in lo .. hi /\ s \in lo .. hi
      BY <2>3
    <3>3. QED
      BY <2>4, <2>5, <3>1, <3>2
  <2>7. \A i \in Slots(b, t, p, h) : i \in Int /\ i <= lo + F + x - 1
    BY <1>1, <1>2, <1>8, <1>10, <2>3, <2>5, <2>6 DEF Slots
  <2>8. \A i \in Slots(b, u, q, k) : i >= lo + F + y
    BY <1>1, <1>2, <1>8, <1>11, <1>14, <2>3, <2>5, <2>6 DEF Slots
  <2>9. Slots(b, t, p, h) \cap Slots(b, u, q, k) = {}
    <3>1. \A i \in Int : ~ (i <= lo + F + x - 1 /\ i >= lo + F + y)
      BY <2>6
    <3>2. QED
      BY <2>7, <2>8, <3>1
  <2>10. QED
    BY <1>12, <2>9
<1>15. QED
  BY <1>12, <1>13, <1>14


-----------------------------------------------------------------------------
(* The blocks of a pass, one after the other, and the passes.              *)

(* Block j of pass i over side w, given the global histograms and oldbuf. *)
BlockAt(w, i, j, offs, old) ==
  [lo |-> IF i = 0 \/ j = 0 THEN 0 ELSE offs[i - 1][j - 1],
   hi |-> IF i = 0 THEN Len(key[w]) ELSE offs[i - 1][j],
   size |-> HistSize(i),
   base |-> j * HistSize(i),
   digit |-> [p \in Positions(w) |->
                IF old[p] \in Tuples(w) THEN HashOf(PassHash(i), key[w][old[p]]) ELSE 0]]

(* Places in the array, none before the one before it. *)
Rising(f, n, last) ==
  \A o \in 0 .. (n - 1) : f[o] \in 0 .. last /\ \A p \in 0 .. o : f[p] <= f[o]

LEMMA HashType ==
  ASSUME NEW hashfn \in HashFunctions, NEW v \in Nat
  PROVE  HashOf(hashfn, v) \in 0 .. (Buckets(hashfn) - 1)
<1>1. hashfn.bits \in Nat /\ hashfn.skipbits \in Nat
  BY DEF HashFunctions
<1>2. PICK n \in Nat \ {0}, m \in Nat \ {0} : n = Buckets(hashfn) /\ m = 2 ^ hashfn.skipbits
  BY <1>1, PowerType DEF Buckets
<1>3. v \div m \in Nat
  BY <1>2, DivisionType
<1>4. (v \div m) % n \in 0 .. (n - 1)
  BY <1>3
<1>5. QED
  BY <1>2, <1>4 DEF HashOf

LEMMA PassesOf ==
  ASSUME InputsInv, NEW w \in Sides, Algorithm(w) = "radix"
  PROVE  /\ Passes(w) = 0 .. (conf.passes - 1) /\ Positions(w) = 0 .. (Len(key[w]) - 1)
         /\ Len(key[w]) \in Nat
         /\ \A i \in Passes(w) : 0 .. (HistSize(i) - 1) \subseteq HashKeys(w)
         /\ \A x \in Tuples(w) : key[w][x] \in Nat
<1>1. key[w] \in Seq(Nat)
  BY InputsType
<1>2. Passes(w) = 0 .. (conf.passes - 1) /\ Positions(w) = 0 .. (Len(key[w]) - 1)
  BY DEF Passes, Positions
<1>3. QED
  BY <1>1, <1>2 DEF HashKeys, Tuples

(* Where the block is in the array, and its histogram in those of the pass. *)
InPass(b, w, i, j) ==
  /\ IsBlock(b) /\ b.hi <= Len(key[w]) /\ b.size = HistSize(i) /\ b.base = j * HistSize(i)
  /\ b.base + b.size <= Blocks(i + 1)
  /\ BlockDigits(b) = 0 .. (HistSize(i) - 1) /\ BlockDigits(b) \subseteq HashKeys(w)
  /\ \A h \in BlockDigits(b) : b.base + h \in 0 .. (Blocks(i + 1) - 1)

LEMMA BlockFacts ==
  ASSUME InputsInv, NEW w \in Sides, Algorithm(w) = "radix", NEW i \in Nat, i < conf.passes,
         NEW j \in Nat, j < Blocks(i), NEW offs, i > 0 => Rising(offs[i - 1], Blocks(i), Len(key[w])),
         NEW old, NEW b, b = BlockAt(w, i, j, offs, old)
  PROVE  InPass(b, w, i, j)
<1>1. conf.passes \in Nat /\ i \in 0 .. (conf.passes - 1)
  BY InputsType
<1>2. /\ PassHash(i) \in HashFunctions /\ HistSize(i) \in Nat \ {0} /\ Blocks(i) \in Nat \ {0}
      /\ Blocks(i + 1) = Blocks(i) * HistSize(i) /\ Blocks(0) = 1
  BY <1>1, Geometry
<1>3. /\ i \in Passes(w) /\ Positions(w) = 0 .. (Len(key[w]) - 1) /\ Len(key[w]) \in Nat
      /\ 0 .. (HistSize(i) - 1) \subseteq HashKeys(w)
      /\ \A x \in Tuples(w) : key[w][x] \in Nat
  BY <1>1, PassesOf
<1>4. PICK n \in Nat, size \in Nat \ {0}, m \in Nat \ {0} : n = Len(key[w]) /\ size = HistSize(i) /\ m = Blocks(i)
  BY <1>2, <1>3
<1>5. /\ b.lo = IF i = 0 \/ j = 0 THEN 0 ELSE offs[i - 1][j - 1]
      /\ b.hi = IF i = 0 THEN n ELSE offs[i - 1][j]
      /\ b.size = size /\ b.base = j * size
      /\ b.digit = [p \in Positions(w) |->
                IF old[p] \in Tuples(w) THEN HashOf(PassHash(i), key[w][old[p]]) ELSE 0]
  BY <1>4 DEF BlockAt
<1>6. b.lo \in Nat /\ b.hi \in Nat /\ b.lo <= b.hi /\ b.hi <= n
  <2>1. CASE i = 0
    BY <1>4, <1>5, <2>1
  <2>2. CASE i # 0
    <3>1. \A o \in 0 .. (m - 1) : offs[i - 1][o] \in 0 .. n /\ \A p \in 0 .. o : offs[i - 1][p] <= offs[i - 1][o]
      BY <1>4, <2>2 DEF Rising
    <3>2. j \in 0 .. (m - 1) /\ (j # 0 => j - 1 \in 0 .. (m - 1) /\ j - 1 \in 0 .. j)
      BY <1>4
    <3>3. offs[i - 1][j] \in 0 .. n
      BY <3>1, <3>2
    <3>4. j # 0 => offs[i - 1][j - 1] \in 0 .. n /\ offs[i - 1][j - 1] <= offs[i - 1][j]
      BY <3>1, <3>2
    <3>5. QED
      BY <1>5, <2>2, <3>3, <3>4
  <2>3. QED
    BY <2>1, <2>2
<1>7. \A x, y \in Nat : x * y \in Nat
  OBVIOUS
<1>8. \A p \in b.lo .. (b.hi - 1) : b.digit[p] \in 0 .. (b.size - 1)
  <2> TAKE p \in b.lo .. (b.hi - 1)
  <2>1. p \in Positions(w)
    BY <1>3, <1>4, <1>6
  <2>2. \A x \in Tuples(w) : HashOf(PassHash(i), key[w][x]) \in 0 .. (size - 1)
    BY <1>2, <1>3, <1>4, HashType DEF HistSize
  <2>3. 0 \in 0 .. (size - 1)
    OBVIOUS
  <2>4. QED
    BY <1>5, <2>1, <2>2, <2>3
<1>9. IsBlock(b)
  BY <1>5, <1>6, <1>7, <1>8 DEF IsBlock
<1>10. j * size \in Nat /\ j * size + size <= m * size
  <2>1. \A x, y, z \in Nat : x + 1 <= y => x * z \in Nat /\ x * z + z <= y * z
    <3>1. \A x, y, z \in Nat : x <= y => x * z <= y * z
      OBVIOUS
    <3>2. \A x, z \in Nat : (x + 1) * z = x * z + z /\ x + 1 \in Nat /\ x * z \in Nat
      OBVIOUS
    <3>3. QED
      BY <3>1, <3>2
  <2>2. j + 1 <= m /\ m \in Nat /\ size \in Nat
    BY <1>4
  <2>3. QED
    BY <2>1, <2>2
<1>11. Blocks(i + 1) = m * size
  BY <1>2, <1>4
<1>12. m * size \in Nat
  OBVIOUS
<1>13. BlockDigits(b) = 0 .. (size - 1)
  BY <1>5 DEF BlockDigits
<1>14. \A h \in BlockDigits(b) : b.base + h \in 0 .. (Blocks(i + 1) - 1)
  <2>1. PICK x \in Nat, y \in Nat : x = j * size /\ y = m * size /\ x + size <= y
    BY <1>10, <1>12
  <2>2. \A h \in 0 .. (size - 1) : x + h \in 0 .. (y - 1)
    BY <2>1
  <2>3. QED
    BY <1>5, <1>11, <1>13, <2>1, <2>2
<1>15. QED
  BY <1>3, <1>4, <1>5, <1>6, <1>9, <1>10, <1>11, <1>13, <1>14 DEF InPass

(* What the histograms are like while pass i over side w works on block j. *)
PassInv(w, i, j, s, D, hist, offs, old, ix) ==
  LET b == BlockAt(w, i, j, offs, old)
  IN  /\ \A k \in Passes(w) : k > i => \A o \in 0 .. (Blocks(k + 1) - 1) : offs[k][o] = 0
      /\ i > 0 => Rising(offs[i - 1], Blocks(i), Len(key[w]))
      /\ \A t \in Threads : \A h \in HashKeys(w) :
           s = "swap" \/ h \notin BlockDigits(b) => hist[t][h] = 0
      /\ IF s = "swap" THEN Rising(offs[i], Blocks(i + 1), Len(key[w]))
         ELSE /\ Rising(offs[i], b.base, b.lo)
              /\ \A o \in (b.base + b.size) .. (Blocks(i + 1) - 1) : offs[i][o] = 0
      /\ s = "histogram" => Counted(b, D, hist, offs[i])
      /\ s = "combine" => Combining(b, D, hist, offs[i])
      /\ s = "sum" => Summing(b, D, hist, offs[i], ix)
      /\ s = "partition" => Moving(b, D, hist, offs[i], ix)

(* The first block of a pass whose histograms are all zero. *)
LEMMA PassBegins ==
  ASSUME InputsInv, NEW w \in Sides, Algorithm(w) = "radix", NEW i \in Nat, i < conf.passes,
         NEW hist, NEW offs, NEW old, NEW ix,
         \A k \in Passes(w) : k >= i => \A o \in 0 .. (Blocks(k + 1) - 1) : offs[k][o] = 0,
         i > 0 => Rising(offs[i - 1], Blocks(i), Len(key[w])),
         \A t \in Threads : \A h \in HashKeys(w) : hist[t][h] = 0
  PROVE  PassInv(w, i, 0, "histogram", {}, hist, offs, old, ix)
<1>1. PICK j, b : j \in Nat /\ j = 0 /\ b = BlockAt(w, i, j, offs, old)
  OBVIOUS
<1>2. conf.passes \in Nat /\ i \in 0 .. (conf.passes - 1)
  BY InputsType
<1>3. Blocks(i) \in Nat \ {0} /\ HistSize(i) \in Nat
  BY <1>2, Geometry
<1>4. i \in Passes(w)
  BY <1>2, PassesOf
<1>5. InPass(b, w, i, j)
  <2>1. j < Blocks(i)
    BY <1>1, <1>3
  <2>2. QED
    BY <1>1, <2>1, BlockFacts
<1>6. b.base = 0
  <2>1. \A x \in Nat : 0 * x = 0
    OBVIOUS
  <2>2. QED
    BY <1>1, <1>3, <1>5, <2>1 DEF InPass
<1>7. \A o \in 0 .. (Blocks(i + 1) - 1) : offs[i][o] = 0
  BY <1>4
<1>8. Rising(offs[i], b.base, b.lo)
  BY <1>6 DEF Rising
<1>9. \A o \in (b.base + b.size) .. (Blocks(i + 1) - 1) : offs[i][o] = 0
  BY <1>3, <1>5, <1>6, <1>7 DEF InPass
<1>10. Counted(b, {}, hist, offs[i])
  BY <1>5, <1>7, ThreadNumbers DEF Counted, InPass
<1>11. \A k \in Passes(w) : k > i => k >= i
  BY <1>2, PassesOf
<1>12. \A k \in Passes(w) : k > i => \A o \in 0 .. (Blocks(k + 1) - 1) : offs[k][o] = 0
  BY <1>11
<1>13. \A t \in Threads : \A h \in HashKeys(w) : "histogram" = "swap" \/ h \notin BlockDigits(b) => hist[t][h] = 0
  OBVIOUS
<1>14. i > 0 => Rising(offs[i - 1], Blocks(i), Len(key[w]))
  OBVIOUS
<1> HIDE DEF Counted
<1>15. QED
  BY <1>1, <1>8, <1>9, <1>10, <1>12, <1>13, <1>14 DEF PassInv

(* From one stage of a block to the next, when all threads have come to    *)
(* the end of it.                                                          *)
LEMMA StageEnds ==
  ASSUME InputsInv, NEW w \in Sides, Algorithm(w) = "radix", NEW i \in Nat, i < conf.passes,
         NEW j \in Nat, j < Blocks(i), NEW hist, NEW offs, NEW old, NEW ix,
         NEW s, NEW r, <<s, r>> \in {<<"histogram", "combine">>, <<"combine", "sum">>, <<"sum", "partition">>},
         PassInv(w, i, j, s, Threads, hist, offs, old, ix)
  PROVE  PassInv(w, i, j, r, {}, hist, offs, old, ix)
<1>1. PICK b : b = BlockAt(w, i, j, offs, old)
  OBVIOUS
<1>2. i > 0 => Rising(offs[i - 1], Blocks(i), Len(key[w]))
  BY DEF PassInv
<1>3. IsBlock(b)
  BY <1>1, <1>2, BlockFacts DEF InPass
<1>S. ASSUME r = "combine" => Combining(b, {}, hist, offs[i]), r = "sum" => Summing(b, {}, hist, offs[i], ix),
             r = "partition" => Moving(b, {}, hist, offs[i], ix)
      PROVE  PassInv(w, i, j, r, {}, hist, offs, old, ix)
  <2>1. s # "swap" /\ r # "swap" /\ r # "histogram"
    OBVIOUS
  <2>2. QED
    BY <1>1, <1>S, <2>1 DEF PassInv
<1>4. CASE s = "histogram"
  <2>1. r = "combine"
    BY <1>4
  <2>2. Counted(b, Threads, hist, offs[i])
    BY <1>1, <1>4 DEF PassInv
  <2>3. Combining(b, {}, hist, offs[i])
    <3>1. SUFFICES ASSUME NEW t \in Threads, NEW h \in Mine(b, t)
                   PROVE  /\ \A u \in Threads : hist[u][h] = IF u = 0 THEN 0 ELSE Read(b, u - 1, h)
                          /\ offs[i][b.base + h] = Read(b, LastThread, h)
      BY DEF Combining
    <3>2. h \in BlockDigits(b)
      BY DEF Mine
    <3>3. ASSUME NEW u \in Threads, u # 0 PROVE hist[u][h] = Read(b, u - 1, h)
      <4>1. PICK v \in Threads \ {LastThread} : v = u - 1 /\ v + 1 = u
        BY <3>3, ThreadNumbers
      <4>2. hist[v + 1][h] = Read(b, v, h)
        BY <2>2, <3>2 DEF Counted
      <4>3. QED
        BY <4>1, <4>2
    <3>4. hist[0][h] = 0 /\ offs[i][b.base + h] = Read(b, LastThread, h)
      BY <2>2, <3>2, ThreadNumbers DEF Counted
    <3>5. QED
      BY <3>3, <3>4
  <2>4. QED
    BY <1>S, <2>1, <2>3
<1>5. CASE s = "combine"
  <2>1. r = "sum"
    BY <1>5
  <2>2. Combining(b, Threads, hist, offs[i])
    BY <1>1, <1>5 DEF PassInv
  <2>3. Summing(b, {}, hist, offs[i], ix)
    BY <1>3, <2>2, MineCovers DEF Summing, Combining
  <2>4. QED
    BY <1>S, <2>1, <2>3
<1>6. CASE s = "sum"
  <2>1. r = "partition"
    BY <1>6
  <2>2. Summing(b, Threads, hist, offs[i], ix)
    BY <1>1, <1>6 DEF PassInv
  <2>3. Moving(b, {}, hist, offs[i], ix)
    <3>1. \A h \in BlockDigits(b) : offs[i][b.base + h] = PartEnd(b, h)
      BY <2>2, ThreadNumbers DEF Summing
    <3>2. ASSUME NEW t \in Threads
          PROVE  /\ ix[t] = 0 /\ Border(b, t) + ix[t] = Border(b, t) /\ Border(b, t) <= Border(b, t + 1)
                 /\ \A h \in BlockDigits(b) : hist[t][h] = Before(b, Border(b, t), h)
      <4>1. ix[t] = 0 /\ \A h \in BlockDigits(b) : hist[t][h] = Before(b, Border(b, t), h)
        BY <2>2 DEF Summing
      <4>2. Border(b, t) \in b.lo .. b.hi /\ Border(b, t) <= Border(b, t + 1)
        BY <1>3, Borders
      <4>3. QED
        BY <4>1, <4>2
    <3>3. QED
      BY <3>1, <3>2 DEF Moving
  <2>4. QED
    BY <1>S, <2>1, <2>3
<1>7. QED
  BY <1>4, <1>5, <1>6

(* The parts of a block, behind those of the blocks before it. *)
LEMMA PartsRise ==
  ASSUME NEW b, IsBlock(b), NEW off, Rising(off, b.base, b.lo),
         \A h \in BlockDigits(b) : off[b.base + h] = PartEnd(b, h)
  PROVE  Rising(off, b.base + b.size, b.hi)
<1>1. PICK lo \in Nat, hi \in Nat, g \in Nat, size \in Nat \ {0} :
        lo = b.lo /\ hi = b.hi /\ g = b.base /\ size = b.size /\ lo <= hi
  BY DEF IsBlock
<1>2. PICK S : S = lo .. (hi - 1)
  OBVIOUS
<1>3. IsFiniteSet(S) /\ Cardinality(S) = hi - lo
  <2>1. PICK c \in Int, d \in Int : c = lo /\ d = hi - 1
    OBVIOUS
  <2>2. IsFiniteSet(c .. d) /\ Cardinality(c .. d) = IF c > d THEN 0 ELSE d - c + 1
    BY FS_Interval
  <2>3. QED
    BY <1>1, <1>2, <2>1, <2>2
<1>4. \A x \in S : b.digit[x] \in Nat
  BY <1>1, <1>2 DEF IsBlock
<1>5. \A c \in Nat : Fewer(b.digit, S, c) \in Nat /\ Fewer(b.digit, S, c) <= hi - lo
  BY <1>3, CountType
<1>6. \A c, d \in Nat : c <= d => Fewer(b.digit, S, c) <= Fewer(b.digit, S, d)
  BY <1>3, <1>4, FewerSplit
<1>7. \A h \in 0 .. (size - 1) : off[g + h] = lo + Fewer(b.digit, S, h + 1)
  BY <1>1, <1>2 DEF PartEnd, BlockDigits
<1>8. \A o \in 0 .. (g - 1) : off[o] \in 0 .. lo /\ \A p \in 0 .. o : off[p] <= off[o]
  BY <1>1 DEF Rising
<1>9. \A o \in g .. (g + size - 1) : /\ o - g \in 0 .. (size - 1) /\ g + (o - g) = o
                                     /\ (o - g) + 1 \in Nat
  OBVIOUS
<1>10. \A o \in g .. (g + size - 1) : off[o] = lo + Fewer(b.digit, S, (o - g) + 1)
  BY <1>7, <1>9
<1>11. \A o \in g .. (g + size - 1) : off[o] \in lo .. hi
  BY <1>5, <1>9, <1>10
<1>12. SUFFICES ASSUME NEW o \in 0 .. (g + size - 1)
                PROVE  off[o] \in 0 .. hi /\ \A p \in 0 .. o : off[p] <= off[o]
  BY <1>1 DEF Rising
<1>13. CASE o < g
  <2>1. o \in 0 .. (g - 1)
    BY <1>13
  <2>2. QED
    BY <1>1, <1>8, <2>1
<1>14. CASE ~ (o < g)
  <2>1. o \in g .. (g + size - 1) /\ off[o] \in lo .. hi
    BY <1>11, <1>14
  <2>2. ASSUME NEW p \in 0 .. o PROVE off[p] <= off[o]
    <3>1. CASE p < g
      <4>1. off[p] \in 0 .. lo
        BY <1>8, <3>1
      <4>2. QED
        BY <2>1, <4>1
    <3>2. CASE ~ (p < g)
      <4>1. p \in g .. (g + size - 1) /\ (p - g) + 1 <= (o - g) + 1
        BY <3>2
      <4>2. PICK c \in Nat, d \in Nat : c = (p - g) + 1 /\ d = (o - g) + 1 /\ c <= d
        BY <1>9, <2>1, <4>1
      <4>3. Fewer(b.digit, S, c) <= Fewer(b.digit, S, d)
        BY <1>6, <4>2
      <4>4. Fewer(b.digit, S, c) \in Nat /\ Fewer(b.digit, S, d) \in Nat
        BY <1>5
      <4>5. off[p] = lo + Fewer(b.digit, S, c) /\ off[o] = lo + Fewer(b.digit, S, d)
        BY <1>10, <2>1, <4>1, <4>2
      <4>6. QED
        BY <4>3, <4>4, <4>5
    <3>3. QED
      BY <3>1, <3>2
  <2>3. QED
    BY <1>1, <2>1, <2>2
<1>15. QED
  BY <1>13, <1>14

LEMMA BlockEnds ==
  ASSUME InputsInv, NEW w \in Sides, Algorithm(w) = "radix", NEW i \in Nat, i < conf.passes,
         NEW j \in Nat, j < Blocks(i), NEW hist, NEW offs, NEW old, NEW ix,
         PassInv(w, i, j, "partition", Threads, hist, offs, old, ix)
  PROVE  IF j + 1 < Blocks(i) THEN PassInv(w, i, j + 1, "histogram", {}, hist, offs, old, ix)
         ELSE PassInv(w, i, j, "swap", {}, hist, offs, old, ix)
<1>1. PICK b : b = BlockAt(w, i, j, offs, old)
  OBVIOUS
<1>2. /\ \A k \in Passes(w) : k > i => \A o \in 0 .. (Blocks(k + 1) - 1) : offs[k][o] = 0
      /\ i > 0 => Rising(offs[i - 1], Blocks(i), Len(key[w]))
      /\ \A t \in Threads : \A h \in HashKeys(w) : h \notin BlockDigits(b) => hist[t][h] = 0
      /\ Rising(offs[i], b.base, b.lo)
      /\ \A o \in (b.base + b.size) .. (Blocks(i + 1) - 1) : offs[i][o] = 0
      /\ Moving(b, Threads, hist, offs[i], ix)
  BY <1>1 DEF PassInv
<1>3. /\ IsBlock(b) /\ b.hi <= Len(key[w]) /\ b.size = HistSize(i) /\ b.base = j * HistSize(i)
      /\ b.base + b.size <= Blocks(i + 1)
      /\ BlockDigits(b) = 0 .. (HistSize(i) - 1) /\ BlockDigits(b) \subseteq HashKeys(w)
      /\ \A h \in BlockDigits(b) : b.base + h \in 0 .. (Blocks(i + 1) - 1)
  <2>1. InPass(b, w, i, j)
    BY <1>1, <1>2, BlockFacts
  <2>2. QED
    BY <2>1 DEF InPass
<1>4. Rising(offs[i], b.base + b.size, b.hi)
  BY <1>2, <1>3, PartsRise DEF Moving
<1>5. \A t \in Threads : \A h \in HashKeys(w) : hist[t][h] = 0
  BY <1>2 DEF Moving
<1>6. conf.passes \in Nat /\ i \in 0 .. (conf.passes - 1)
  BY InputsType
<1>7. /\ HistSize(i) \in Nat \ {0} /\ Blocks(i) \in Nat \ {0}
      /\ Blocks(i + 1) = Blocks(i) * HistSize(i) /\ Blocks(0) = 1
  BY <1>6, Geometry
<1>8. PICK size \in Nat \ {0}, m \in Nat \ {0} : size = HistSize(i) /\ m = Blocks(i)
  BY <1>7
<1>9. \A x, y \in Nat : (x + 1) * y = x * y + y
  OBVIOUS
<1>10. b.base + b.size = (j + 1) * size
  BY <1>3, <1>8, <1>9
<1>11. CASE j + 1 < Blocks(i)
  <2>1. PICK k, c : k \in Nat /\ k = j + 1 /\ c = BlockAt(w, i, k, offs, old)
    OBVIOUS
  <2>2. k < Blocks(i)
    BY <1>11, <2>1
  <2>3. /\ IsBlock(c) /\ c.hi <= Len(key[w]) /\ c.size = HistSize(i) /\ c.base = k * HistSize(i)
        /\ c.base + c.size <= Blocks(i + 1)
        /\ BlockDigits(c) = 0 .. (HistSize(i) - 1) /\ BlockDigits(c) \subseteq HashKeys(w)
        /\ \A h \in BlockDigits(c) : c.base + h \in 0 .. (Blocks(i + 1) - 1)
    <3>1. InPass(c, w, i, k)
      BY <1>2, <2>1, <2>2, BlockFacts
    <3>2. QED
      BY <3>1 DEF InPass
  <2>4. c.base = b.base + b.size
    BY <1>8, <1>10, <2>1, <2>3
  <2>5. c.lo = b.hi
    <3>1. i # 0
      BY <1>7, <1>11
    <3>2. k # 0 /\ k - 1 = j
      BY <2>1
    <3>3. c.lo = offs[i - 1][k - 1]
      BY <2>1, <3>1, <3>2 DEF BlockAt
    <3>4. b.hi = offs[i - 1][j]
      BY <1>1, <3>1 DEF BlockAt
    <3>5. QED
      BY <3>2, <3>3, <3>4
  <2>6. Rising(offs[i], c.base, c.lo)
    BY <1>4, <2>4, <2>5
  <2>7. c.base \in Nat /\ c.size \in Nat /\ b.base + b.size \in Nat
    BY <2>3, <2>4 DEF IsBlock
  <2>8. \A o \in c.base .. (Blocks(i + 1) - 1) : offs[i][o] = 0
    BY <1>2, <2>4
  <2>9. \A o \in (c.base + c.size) .. (Blocks(i + 1) - 1) : offs[i][o] = 0
    BY <2>7, <2>8
  <2>10. Counted(c, {}, hist, offs[i])
    <3>1. \A h \in BlockDigits(c) : c.base + h \in c.base .. (Blocks(i + 1) - 1)
      <4>1. \A h \in BlockDigits(c) : h \in Nat
        BY <1>8, <2>3
      <4>2. QED
        BY <2>3, <2>7, <4>1
    <3>2. QED
      BY <1>5, <2>3, <2>8, <3>1, ThreadNumbers DEF Counted
  <2>11. \A t \in Threads : \A h \in HashKeys(w) : "histogram" = "swap" \/ h \notin BlockDigits(c) => hist[t][h] = 0
    BY <1>5
  <2>12. PassInv(w, i, k, "histogram", {}, hist, offs, old, ix)
    BY <1>2, <2>1, <2>6, <2>9, <2>10, <2>11 DEF PassInv
  <2>13. QED
    BY <1>11, <2>1, <2>12
<1>12. CASE ~ (j + 1 < Blocks(i))
  <2>1. j + 1 = m
    BY <1>8, <1>12
  <2>2. b.base + b.size = Blocks(i + 1)
    BY <1>7, <1>8, <1>10, <2>1
  <2>3. Rising(offs[i], Blocks(i + 1), b.hi)
    BY <1>4, <2>2
  <2>4. \A x \in 0 .. b.hi : x \in 0 .. Len(key[w])
    <3>1. Len(key[w]) \in Nat /\ b.hi \in Nat
      BY <1>3, PassesOf DEF IsBlock
    <3>2. QED
      BY <1>3, <3>1
  <2>5. Rising(offs[i], Blocks(i + 1), Len(key[w]))
    BY <2>3, <2>4 DEF Rising
  <2>6. PassInv(w, i, j, "swap", {}, hist, offs, old, ix)
    BY <1>1, <1>2, <1>5, <2>5 DEF PassInv
  <2>7. QED
    BY <1>12, <2>6
<1>13. QED
  BY <1>11, <1>12

LEMMA PassEnds ==
  ASSUME InputsInv, NEW w \in Sides, Algorithm(w) = "radix", NEW i \in Nat, i + 1 < conf.passes,
         NEW j, NEW D, NEW hist, NEW offs, NEW old, NEW ix, NEW bufs,
         PassInv(w, i, j, "swap", D, hist, offs, bufs, ix)
  PROVE  PassInv(w, i + 1, 0, "histogram", {}, hist, offs, old, ix)
<1>1. /\ \A k \in Passes(w) : k > i => \A o \in 0 .. (Blocks(k + 1) - 1) : offs[k][o] = 0
      /\ Rising(offs[i], Blocks(i + 1), Len(key[w]))
      /\ \A t \in Threads : \A h \in HashKeys(w) : hist[t][h] = 0
  BY DEF PassInv
<1>2. PICK k \in Nat : k = i + 1 /\ k - 1 = i
  OBVIOUS
<1>3. Rising(offs[k - 1], Blocks(k), Len(key[w]))
  BY <1>1, <1>2
<1>4. \A l \in Passes(w) : l >= k => l > i
  <2>1. \A l \in Passes(w) : l \in Int
    BY PassesOf, InputsType
  <2>2. QED
    BY <1>2, <2>1
<1>5. \A l \in Passes(w) : l >= k => \A o \in 0 .. (Blocks(l + 1) - 1) : offs[l][o] = 0
  BY <1>1, <1>4
<1>6. PassInv(w, k, 0, "histogram", {}, hist, offs, old, ix)
  BY <1>1, <1>2, <1>3, <1>5, PassBegins
<1>7. QED
  BY <1>2, <1>6

-----------------------------------------------------------------------------
(* The histograms, given where the threads are that have come furthest,    *)
(* and which threads have done there what there is to do before the next   *)
(* barrier.                                                                *)

Untouched(w, hists, offs) ==
  /\ \A t \in Threads : \A h \in HashKeys(w) : hists[w][t][h] = 0
  /\ \A i \in Passes(w) : \A o \in 0 .. (Blocks(i + 1) - 1) : offs[w][i][o] = 0

Holds(p, D, hists, offs, bufs, ix) ==
  /\ p.side = "build" => Untouched("probe", hists, offs)
  /\ p.stage \in {"start", "copy"} => Untouched(p.side, hists, offs)
  /\ p.stage \in RadixStages =>
       PassInv(p.side, p.pass, p.iter, p.stage, D, hists[p.side], offs[p.side], bufs[p.side].old, ix)

(* All threads have come to the end of a stage. *)
LEMMA HoldsAfter ==
  ASSUME InputsInv, NEW p, Valid(p), NEW hists, NEW offs, NEW bufs, NEW ix,
         Holds(p, Threads, hists, offs, bufs, ix)
  PROVE  Holds(After(p), {}, hists, offs, bufs, ix)
<1>1. PICK w \in Sides, i \in Nat, j \in Nat, s \in Stages : p = At(w, i, j, s)
  BY DEF Valid
<1>2. p.side = w /\ p.pass = i /\ p.iter = j /\ p.stage = s
  BY <1>1 DEF At
<1>3. \A v, k, l, r : At(v, k, l, r).side = v /\ At(v, k, l, r).pass = k /\ At(v, k, l, r).iter = l
                     /\ At(v, k, l, r).stage = r
  BY DEF At
<1>4. /\ w = "build" => Untouched("probe", hists, offs)
      /\ s \in {"start", "copy"} => Untouched(w, hists, offs)
      /\ s \in RadixStages => PassInv(w, i, j, s, Threads, hists[w], offs[w], bufs[w].old, ix)
  BY <1>2 DEF Holds
<1>5. \A v : FirstStage(v) \in {"copy", "temp", "return"}
  BY DEF FirstStage
<1>S. ASSUME NEW k, NEW l, NEW r \in RadixStages, After(p) = At(w, k, l, r),
             PassInv(w, k, l, r, {}, hists[w], offs[w], bufs[w].old, ix)
      PROVE  Holds(After(p), {}, hists, offs, bufs, ix)
  <2>1. r \notin {"start", "copy"}
    BY DEF RadixStages
  <2>2. QED
    BY <1>3, <1>4, <1>S, <2>1 DEF Holds
<1>R. s \in RadixStages => Algorithm(w) = "radix" /\ i < conf.passes /\ j < Blocks(i)
  BY <1>2 DEF Valid
<1>6. CASE s = "start"
  <2>1. w = "build"
    BY <1>2, <1>3, <1>6 DEF Valid, Begins
  <2>2. After(p) = At("build", 0, 0, FirstStage("build"))
    BY <1>2, <1>6 DEF After
  <2>3. QED
    BY <1>3, <1>4, <1>5, <1>6, <2>1, <2>2 DEF Holds, RadixStages
<1>7. CASE s = "copy"
  <2>1. After(p) = At(w, 0, 0, "histogram") /\ Algorithm(w) = "radix"
    BY <1>2, <1>3, <1>7 DEF After, Valid
  <2>2. PICK k \in Nat : k = 0
    OBVIOUS
  <2>3. k < conf.passes
    BY <2>2, InputsType
  <2>4. \A l \in Passes(w) : l >= k => \A o \in 0 .. (Blocks(l + 1) - 1) : offs[w][l][o] = 0
    BY <1>4, <1>7 DEF Untouched
  <2>5. \A t \in Threads : \A h \in HashKeys(w) : hists[w][t][h] = 0
    BY <1>4, <1>7 DEF Untouched
  <2>6. k > 0 => Rising(offs[w][k - 1], Blocks(k), Len(key[w]))
    BY <2>2
  <2>7. PassInv(w, k, 0, "histogram", {}, hists[w], offs[w], bufs[w].old, ix)
    BY <2>1, <2>3, <2>4, <2>5, <2>6, PassBegins
  <2>8. QED
    BY <1>S, <2>1, <2>2, <2>7 DEF RadixStages
<1>8. CASE s \in {"histogram", "combine", "sum"}
  <2>1. s \in RadixStages
    BY <1>8 DEF RadixStages
  <2>2. PICK r \in RadixStages : /\ After(p) = At(w, i, j, r)
          /\ <<s, r>> \in {<<"histogram", "combine">>, <<"combine", "sum">>, <<"sum", "partition">>}
    BY <1>2, <1>8 DEF After, RadixStages
  <2>3. PassInv(w, i, j, r, {}, hists[w], offs[w], bufs[w].old, ix)
    BY <1>4, <1>R, <2>1, <2>2, StageEnds
  <2>4. QED
    BY <1>S, <2>2, <2>3
<1>9. CASE s = "partition"
  <2>1. s \in RadixStages /\ {"histogram", "swap"} \subseteq RadixStages
    BY <1>9 DEF RadixStages
  <2>2. IF j + 1 < Blocks(i) THEN PassInv(w, i, j + 1, "histogram", {}, hists[w], offs[w], bufs[w].old, ix)
        ELSE PassInv(w, i, j, "swap", {}, hists[w], offs[w], bufs[w].old, ix)
    BY <1>4, <1>9, <1>R, <2>1, BlockEnds
  <2>3. After(p) = IF j + 1 < Blocks(i) THEN At(w, i, j + 1, "histogram") ELSE At(w, i, j, "swap")
    BY <1>2, <1>9 DEF After
  <2>4. QED
    BY <1>S, <2>1, <2>2, <2>3
<1>10. CASE s = "swap"
  <2>1. s \in RadixStages /\ "histogram" \in RadixStages
    BY <1>10 DEF RadixStages
  <2>2. CASE i + 1 < conf.passes
    <3>1. PassInv(w, i + 1, 0, "histogram", {}, hists[w], offs[w], bufs[w].old, ix)
      BY <1>4, <1>10, <1>R, <2>1, <2>2, PassEnds
    <3>2. After(p) = At(w, i + 1, 0, "histogram")
      BY <1>2, <1>10, <2>2 DEF After
    <3>3. QED
      BY <1>S, <2>1, <3>1, <3>2
  <2>3. CASE ~ (i + 1 < conf.passes)
    <3>1. After(p) = At(w, i, j, "return")
      BY <1>2, <1>10, <2>3 DEF After
    <3>2. QED
      BY <1>3, <1>4, <3>1 DEF Holds, RadixStages
  <2>4. QED
    BY <2>2, <2>3
<1>11. CASE s = "temp"
  <2>1. After(p) = At(w, i, j, "return")
    BY <1>2, <1>11 DEF After
  <2>2. QED
    BY <1>3, <1>4, <2>1 DEF Holds, RadixStages
<1>12. CASE s = "return"
  <2>1. After(p) = IF w = "build" THEN At("probe", 0, 0, FirstStage("probe")) ELSE At("probe", 0, 0, "join")
    BY <1>2, <1>12 DEF After
  <2>2. CASE w = "build"
    <3>1. After(p) = At("probe", 0, 0, FirstStage("probe"))
      BY <2>1, <2>2
    <3>2. QED
      BY <1>3, <1>4, <1>5, <2>2, <3>1 DEF Holds, RadixStages
  <2>3. CASE w # "build"
    BY <1>3, <2>1, <2>3 DEF Holds, RadixStages
  <2>4. QED
    BY <2>2, <2>3
<1>13. CASE s = "join"
  <2>1. After(p) = p
    BY <1>2, <1>13 DEF After
  <2>2. QED
    BY <1>2, <1>4, <1>13, <2>1 DEF Holds, RadixStages
<1>14. QED
  BY <1>6, <1>7, <1>8, <1>9, <1>10, <1>11, <1>12, <1>13 DEF Stages, RadixStages


LEMMA BlockFixed ==
  ASSUME UNCHANGED inputs
  PROVE  \A w, i, j, offs, old : BlockAt(w, i, j, offs, old)' = BlockAt(w, i, j, offs, old)
<1>1. key' = key
  BY DEF inputs
<1>2. \A w, i, j, offs, old : \A p :
        (IF old[p] \in Tuples(w) THEN HashOf(PassHash(i), key[w][old[p]]) ELSE 0)'
          = IF old[p] \in Tuples(w) THEN HashOf(PassHash(i), key[w][old[p]]) ELSE 0
  BY <1>1, FixedInputs DEF HashOf, Buckets
<1>3. QED
  BY <1>1, <1>2, FixedInputs DEF BlockAt

LEMMA PassFixed ==
  ASSUME UNCHANGED inputs
  PROVE  \A w, i, j, s, D, hist, offs, old, ix :
           PassInv(w, i, j, s, D, hist, offs, old, ix)' <=> PassInv(w, i, j, s, D, hist, offs, old, ix)
<1>1. key' = key
  BY DEF inputs
<1> TAKE w, i, j, s, D, hist, offs, old, ix
<1>2. PICK b : b = BlockAt(w, i, j, offs, old)
  OBVIOUS
<1>3. b = BlockAt(w, i, j, offs, old)'
  BY <1>2, BlockFixed
<1>4. QED
  BY <1>1, <1>2, <1>3, FixedInputs DEF PassInv

LEMMA HoldsFixed ==
  ASSUME UNCHANGED inputs
  PROVE  \A p, D, hists, offs, bufs, ix :
           Holds(p, D, hists, offs, bufs, ix)' <=> Holds(p, D, hists, offs, bufs, ix)
<1>1. \A w, hists, offs : Untouched(w, hists, offs)' <=> Untouched(w, hists, offs)
  BY FixedInputs DEF Untouched
<1>2. QED
  BY <1>1, PassFixed DEF Holds

LEMMA HoldsElsewhere ==
  ASSUME NEW p, p.stage \notin RadixStages, NEW D, NEW E, NEW hists, NEW offs, NEW bufs, NEW bufs2,
         NEW ix, NEW ix2, Holds(p, D, hists, offs, bufs, ix)
  PROVE  Holds(p, E, hists, offs, bufs2, ix2)
BY DEF Holds

-----------------------------------------------------------------------------
(* The invariant.                                                          *)

BufShape(f) == f = [w \in Sides |-> [old |-> f[w].old, new |-> f[w].new]]
HistShape(f) == f = [w \in Sides |-> [t \in Threads |-> [h \in HashKeys(w) |-> f[w][t][h]]]]
OffsetShape(f) ==
  f = [w \in Sides |-> [i \in Passes(w) |-> [o \in 0 .. (Blocks(i + 1) - 1) |-> f[w][i][o]]]]
IdxShape(f) == f = [t \in Threads |-> f[t]]

ShapesInv == BufShape(buf) /\ HistShape(histograms) /\ OffsetShape(offsets) /\ IdxShape(idx)

(* Thread t has come as far as any other. *)
InFront(t) == \A u \in Threads : left[u] <= left[t]
Done(t) == {u \in Threads : arrived[u] > left[t]}

HistogramInv ==
  /\ OrderInv
  /\ ShapesInv
  /\ \A t \in Threads : InFront(t) =>
       \A p : p = Place(t) => Holds(p, Done(t), histograms, offsets, buf, idx)

(* A step of thread t that does not do what there is to do in a stage of a *)
(* block, and one that does.                                               *)
Idles(t) ==
  /\ UNCHANGED <<histograms, offsets>>
  /\ \/ UNCHANGED <<buf, idx>> /\ (Stays(t) \/ Leaves(t))
     \/ \A p : p = Place(t) => p.stage \notin RadixStages /\ After(p).stage \notin RadixStages

Works(t) ==
  /\ arrived[t] = left[t]
  /\ Stays(t) \/ Arrives(t)
  /\ \A p, D : p = Place(t) /\ t \notin D /\ Holds(p, D, histograms, offsets, buf, idx) =>
       /\ Stays(t) => Holds(p, D, histograms', offsets', buf', idx')
       /\ Arrives(t) => Holds(p, D \cup {t}, histograms', offsets', buf', idx')

LEMMA HistogramInvMove ==
  ASSUME HistogramInv, NEW t \in Threads, StepOf(t), ShapesInv', Idles(t) \/ Works(t)
  PROVE  HistogramInv'
<1>P. OrderInv /\ OrderInv' /\ UNCHANGED inputs /\ InputsInv /\ WaitsInv
  BY OrderInvMove DEF HistogramInv, StepOf, OrderInv, PlacesInv
<1> DEFINE P == [u \in Threads |-> Place(u)]
           Q == [u \in Threads |-> Place(u)']
<1>1. \A u \in Threads : P[u] = Place(u) /\ Q[u] = Place(u)'
  OBVIOUS
<1>2. \A u \in Threads : Valid(P[u])
  BY <1>P DEF OrderInv
<1>3. \A u, v \in Threads : /\ left[u] = left[v] => P[u] = P[v]
                            /\ left[u] = left[v] + 1 => P[u] = After(P[v])
  BY <1>P DEF OrderInv
<1>4. \A u \in Threads \ {t} : Q[u] = P[u]
  BY DEF StepOf
<1>5. \A u \in Threads : InFront(u) => Holds(P[u], Done(u), histograms, offsets, buf, idx)
  BY DEF HistogramInv
<1> HIDE DEF P, Q
<1>6. PICK ar, lt, hists, offs, bufs, ix :
        ar = arrived' /\ lt = left' /\ hists = histograms' /\ offs = offsets' /\ bufs = buf' /\ ix = idx'
  OBVIOUS
<1>S. SUFFICES ASSUME NEW f \in Threads, \A u \in Threads : lt[u] <= lt[f]
               PROVE  Holds(Q[f], {u \in Threads : ar[u] > lt[f]}, hists, offs, bufs, ix)
  <2>1. ASSUME NEW f \in Threads, InFront(f)', NEW p, p = Place(f)'
        PROVE  Holds(p, Done(f)', histograms', offsets', buf', idx')
    <3>1. \A u \in Threads : lt[u] <= lt[f]
      BY <1>6, <2>1 DEF InFront
    <3>2. Done(f)' = {u \in Threads : ar[u] > lt[f]}
      BY <1>6 DEF Done
    <3>3. p = Q[f]
      BY <1>1, <2>1
    <3>4. QED
      BY <1>6, <1>S, <3>1, <3>2, <3>3
  <2>2. \A f \in Threads : InFront(f)' =>
          \A p : p = Place(f)' => Holds(p, Done(f), histograms, offsets, buf, idx)'
    BY <2>1, <1>P, HoldsFixed
  <2>3. QED
    BY <1>P, <2>2 DEF HistogramInv
<1>7. \A u \in Threads : /\ left[u] \in Nat /\ arrived[u] \in Nat /\ left[u] <= arrived[u]
                         /\ arrived[u] <= left[u] + 1 /\ \A v \in Threads : left[v] <= arrived[u]
  BY <1>P DEF WaitsInv
<1>8. Works(t) => Stays(t) \/ Arrives(t)
  BY DEF Works
<1>9. CASE Stays(t) \/ Arrives(t)
  <2>1. lt = left /\ Q[f] = P[f]
    BY <1>1, <1>4, <1>6, <1>9 DEF Stays, Arrives, Sync!Arrive
  <2>2. InFront(f)
    BY <1>S, <2>1 DEF InFront
  <2>3. Holds(P[f], Done(f), histograms, offsets, buf, idx)
    BY <1>5, <2>2
  <2>4. left[t] <= left[f]
    BY <2>2 DEF InFront
  <2>5. P[f] = P[t] \/ P[f] = After(P[t])
    <3>1. left[f] = left[t] \/ left[f] = left[t] + 1
      BY <1>7, <2>4
    <3>2. QED
      BY <1>3, <3>1
  <2>6. CASE Idles(t)
    <3>1. CASE UNCHANGED <<buf, idx>> /\ (Stays(t) \/ Leaves(t))
      <4>1. ar = arrived
        BY <1>6, <3>1 DEF Stays, Leaves, Sync!Leave
      <4>2. {u \in Threads : ar[u] > lt[f]} = Done(f)
        BY <2>1, <4>1 DEF Done
      <4>3. hists = histograms /\ offs = offsets /\ bufs = buf /\ ix = idx
        BY <1>6, <2>6, <3>1 DEF Idles
      <4>4. QED
        BY <2>1, <2>3, <4>2, <4>3
    <3>2. CASE P[t].stage \notin RadixStages /\ After(P[t]).stage \notin RadixStages
      <4>1. P[f].stage \notin RadixStages
        BY <2>5, <3>2
      <4>2. hists = histograms /\ offs = offsets
        BY <1>6, <2>6 DEF Idles
      <4>3. QED
        BY <2>1, <2>3, <4>1, <4>2, HoldsElsewhere
    <3>3. QED
      BY <1>1, <2>6, <3>1, <3>2 DEF Idles
  <2>7. CASE Works(t)
    <3>1. arrived[t] = left[t] /\ left[f] = left[t]
      BY <1>7, <2>4, <2>7 DEF Works
    <3>2. P[f] = P[t] /\ t \notin Done(f)
      BY <1>3, <1>7, <3>1 DEF Done
    <3>3. /\ Stays(t) => Holds(P[t], Done(f), hists, offs, bufs, ix)
          /\ Arrives(t) => Holds(P[t], Done(f) \cup {t}, hists, offs, bufs, ix)
      BY <1>1, <1>6, <2>3, <2>7, <3>2 DEF Works
    <3>4. CASE Stays(t)
      <4>1. ar = arrived
        BY <1>6, <3>4 DEF Stays
      <4>2. {u \in Threads : ar[u] > lt[f]} = Done(f)
        BY <2>1, <4>1 DEF Done
      <4>3. QED
        BY <2>1, <3>2, <3>3, <3>4, <4>2
    <3>5. CASE Arrives(t)
      <4>1. ar = [arrived EXCEPT ![t] = arrived[t] + 1]
        BY <1>6, <3>5 DEF Arrives, Sync!Arrive
      <4>2. arrived \in [Threads -> Nat]
        BY <1>P DEF WaitsInv
      <4>3. ar[t] = left[f] + 1 /\ \A u \in Threads \ {t} : ar[u] = arrived[u]
        BY <3>1, <4>1, <4>2
      <4>4. {u \in Threads : ar[u] > lt[f]} = Done(f) \cup {t}
        BY <1>7, <2>1, <4>3 DEF Done
      <4>5. QED
        BY <2>1, <3>2, <3>3, <3>5, <4>4
    <3>6. QED
      BY <1>9, <3>4, <3>5
  <2>8. QED
    BY <2>6, <2>7
<1>10. CASE Leaves(t) /\ Idles(t)
  <2>1. /\ left[t] < arrived[t] /\ \A u \in Threads : arrived[u] >= arrived[t]
        /\ lt = [left EXCEPT ![t] = left[t] + 1] /\ ar = arrived
    BY <1>6, <1>10 DEF Leaves, Sync!Leave
  <2>2. left \in [Threads -> Nat]
    BY <1>P DEF WaitsInv
  <2>3. lt[t] = left[t] + 1 /\ \A u \in Threads \ {t} : lt[u] = left[u]
    BY <2>1, <2>2
  <2>4. \A u \in Threads : arrived[u] >= left[t] + 1
    BY <1>7, <2>1
  <2>5. Q[t] = After(P[t])
    BY <1>1, <1>10 DEF Leaves
  <2>I. ASSUME NEW p, NEW D, Holds(p, D, histograms, offsets, buf, idx), p = After(P[t])
        PROVE  Holds(p, D, hists, offs, bufs, ix)
    <3>1. hists = histograms /\ offs = offsets
      BY <1>6, <1>10 DEF Idles
    <3>2. CASE UNCHANGED <<buf, idx>>
      BY <1>6, <2>I, <3>1, <3>2
    <3>3. CASE After(P[t]).stage \notin RadixStages
      BY <2>I, <3>1, <3>3, HoldsElsewhere
    <3>4. QED
      BY <1>1, <1>10, <3>2, <3>3 DEF Idles
  <2>6. ASSUME NEW u \in Threads, u # t, lt[u] = lt[f]
        PROVE  Holds(Q[f], {v \in Threads : ar[v] > lt[f]}, hists, offs, bufs, ix)
    <3>1. left[u] = lt[f] /\ left[u] >= left[t] + 1
      BY <1>7, <1>S, <2>3, <2>6
    <3>2. InFront(u)
      <4>1. \A v \in Threads : left[v] <= lt[v]
        BY <1>7, <2>3
      <4>2. \A v \in Threads : left[v] \in Int /\ lt[v] \in Int
        BY <1>7, <2>3
      <4>3. QED
        BY <1>S, <3>1, <4>1, <4>2 DEF InFront
    <3>3. Holds(P[u], Done(u), histograms, offsets, buf, idx)
      BY <1>5, <3>2
    <3>4. left[u] = left[t] + 1
      BY <1>7, <3>1
    <3>5. P[u] = After(P[t])
      BY <1>3, <3>4
    <3>6. Q[f] = P[u]
      <4>1. CASE f = t
        BY <2>5, <3>5, <4>1
      <4>2. CASE f # t
        BY <1>3, <1>4, <2>3, <2>6, <4>2
      <4>3. QED
        BY <4>1, <4>2
    <3>7. {v \in Threads : ar[v] > lt[f]} = Done(u)
      BY <2>1, <3>1 DEF Done
    <3>8. QED
      BY <2>I, <3>3, <3>5, <3>6, <3>7
  <2>7. CASE f # t
    BY <2>6, <2>7
  <2>8. CASE f = t /\ \A u \in Threads \ {t} : lt[u] # lt[f]
    <3>1. \A u \in Threads : left[u] <= left[t]
      BY <1>7, <1>S, <2>3, <2>8
    <3>2. InFront(t)
      BY <3>1 DEF InFront
    <3>3. Done(t) = Threads
      BY <1>7, <2>4 DEF Done
    <3>4. Holds(P[t], Threads, histograms, offsets, buf, idx)
      BY <1>5, <3>2, <3>3
    <3>5. Holds(After(P[t]), {}, histograms, offsets, buf, idx)
      BY <1>P, <1>2, <3>4, HoldsAfter
    <3>6. {v \in Threads : ar[v] > lt[f]} = {}
      BY <1>7, <2>1, <2>3, <2>8, <3>1
    <3>7. QED
      BY <2>I, <2>5, <2>8, <3>5, <3>6
  <2>9. QED
    BY <2>6, <2>7, <2>8
<1>11. QED
  BY <1>8, <1>9, <1>10 DEF StepOf


-----------------------------------------------------------------------------
(* The block that a thread works on, in its own terms.                     *)

InBlock(t, b) ==
  b = BlockAt(side[t], block[t].pass, block[t].iter, offsets[side[t]], buf[side[t]].old)

(* What is known of a thread at work on a block, by the invariant. *)
Placed(t, w, i, j, s) ==
  /\ Place(t) = At(w, i, j, s) /\ side[t] = w /\ block[t].pass = i /\ block[t].iter = j
  /\ w \in Sides /\ i \in Nat /\ j \in Nat
  /\ Algorithm(w) = "radix" /\ i < conf.passes /\ j < Blocks(i)

LEMMA PlacedAt ==
  ASSUME OrderInv, NEW t \in Threads, Stage(pc[t], side[t]) \in RadixStages
  PROVE  Placed(t, side[t], block[t].pass, block[t].iter, Stage(pc[t], side[t]))
<1>1. PICK p : p = Place(t)
  OBVIOUS
<1>2. p = At(side[t], block[t].pass, block[t].iter, Stage(pc[t], side[t]))
  BY <1>1 DEF Place
<1>3. Valid(p)
  BY <1>1 DEF OrderInv
<1>4. p.side = side[t] /\ p.pass = block[t].pass /\ p.iter = block[t].iter /\ p.stage = Stage(pc[t], side[t])
  BY <1>2 DEF At
<1>5. /\ p.side \in Sides /\ p.pass \in Nat /\ p.iter \in Nat
      /\ p.stage \in RadixStages => Algorithm(p.side) = "radix" /\ p.pass < conf.passes /\ p.iter < Blocks(p.pass)
  BY <1>3 DEF Valid
<1>6. QED
  BY <1>1, <1>2, <1>4, <1>5 DEF Placed

(* What the program works out for thread t, on block b over side w. *)
OnBlock(t, b, w) ==
  /\ BlockStart(t) = b.lo /\ BlockEnd(t) = b.hi
  /\ ShareOfBlock(t).start = Border(b, t) /\ ShareOfBlock(t).items \in Nat
  /\ Border(b, t) + ShareOfBlock(t).items = Border(b, t + 1)
  /\ Digits(t) = BlockDigits(b)
  /\ \A h \in BlockDigits(b) : Global(t, h) = b.base + h
  /\ Global(t, 0) = b.base
  /\ \A p \in b.lo .. (b.hi - 1) : Digit(t, buf[w].old[p]) = b.digit[p]
  /\ Combined(t) = Mine(b, t)

LEMMA ThreadBlock ==
  ASSUME InputsInv, NEW t \in Threads, NEW w, NEW i, NEW j, NEW s, Placed(t, w, i, j, s),
         i > 0 => Rising(offsets[w][i - 1], Blocks(i), Len(key[w])),
         NEW b, InBlock(t, b)
  PROVE  b = BlockAt(w, i, j, offsets[w], buf[w].old) /\ InPass(b, w, i, j) /\ OnBlock(t, b, w)
<1>1. /\ side[t] = w /\ block[t].pass = i /\ block[t].iter = j /\ w \in Sides /\ i \in Nat /\ j \in Nat
      /\ Algorithm(w) = "radix" /\ i < conf.passes /\ j < Blocks(i)
  BY DEF Placed
<1>2. b = BlockAt(w, i, j, offsets[w], buf[w].old)
  BY <1>1 DEF InBlock
<1>3. /\ IsBlock(b) /\ b.hi <= Len(key[w]) /\ b.size = HistSize(i) /\ b.base = j * HistSize(i)
      /\ b.base + b.size <= Blocks(i + 1)
      /\ BlockDigits(b) = 0 .. (HistSize(i) - 1) /\ BlockDigits(b) \subseteq HashKeys(w)
      /\ \A h \in BlockDigits(b) : b.base + h \in 0 .. (Blocks(i + 1) - 1)
      /\ InPass(b, w, i, j)
  <2>1. PICK offs, old : offs = offsets[w] /\ old = buf[w].old
    OBVIOUS
  <2>2. b = BlockAt(w, i, j, offs, old)
    BY <1>2, <2>1
  <2>3. i > 0 => Rising(offs[i - 1], Blocks(i), Len(key[w]))
    BY <2>1
  <2>4. w \in Sides /\ i \in Nat /\ j \in Nat /\ Algorithm(w) = "radix" /\ i < conf.passes /\ j < Blocks(i)
    BY <1>1
  <2>5. InPass(b, w, i, j)
    BY <2>2, <2>3, <2>4, BlockFacts
  <2>6. QED
    BY <2>5 DEF InPass
<1>4. BlockStart(t) = b.lo /\ BlockEnd(t) = b.hi
  BY <1>1, <1>2 DEF BlockStart, BlockEnd, BlockAt
<1>5. PICK lo \in Nat, hi \in Nat, size \in Nat \ {0} : lo = b.lo /\ hi = b.hi /\ lo <= hi /\ size = b.size
  BY <1>3 DEF IsBlock
<1>6. NThreads \in Nat \ {0} /\ t \in Nat /\ t < NThreads /\ LastThread = NThreads - 1
      /\ (t = LastThread <=> t + 1 = NThreads)
  <2>1. NThreads \in Nat \ {0} /\ t \in 0 .. (NThreads - 1)
    BY PartitionersAssumption DEF Threads
  <2>2. QED
    BY <2>1 DEF LastThread
<1>7. PICK k : k = (hi - lo) \div NThreads
  OBVIOUS
<1>8. k \in Nat /\ k * t \in Nat /\ k * (t + 1) = k * t + k
  <2>1. k \in Nat
    BY <1>5, <1>6, <1>7, DivisionType
  <2>2. QED
    BY <1>6, <2>1
<1>9. ShareOfBlock(t) = [start |-> lo + k * t, items |-> IF t = LastThread THEN (hi - lo) - k * t ELSE k]
  BY <1>4, <1>5, <1>7 DEF ShareOfBlock
<1>10. Border(b, t) = lo + k * t
  BY <1>5, <1>6, <1>7 DEF Border, Cut
<1>11. Border(b, t + 1) = IF t = LastThread THEN hi ELSE lo + k * (t + 1)
  BY <1>5, <1>6, <1>7 DEF Border, Cut
<1>12. /\ ShareOfBlock(t).start = Border(b, t) /\ ShareOfBlock(t).items \in Nat
       /\ Border(b, t) + ShareOfBlock(t).items = Border(b, t + 1)
  <2>1. Border(b, t) \in lo .. hi /\ Border(b, t) <= Border(b, t + 1)
    BY <1>3, <1>5, Borders
  <2>2. PICK x \in Nat : x = k * t
    BY <1>8
  <2>3. Border(b, t) = lo + x /\ Border(b, t + 1) = IF t = LastThread THEN hi ELSE lo + (x + k)
    BY <1>8, <1>10, <1>11, <2>2
  <2>4. ShareOfBlock(t).start = lo + x /\ ShareOfBlock(t).items = IF t = LastThread THEN (hi - lo) - x ELSE k
    BY <1>9, <2>2
  <2>5. CASE t = LastThread
    <3>1. PICK y, z, n : y = Border(b, t) /\ z = Border(b, t + 1) /\ n = ShareOfBlock(t).items
      OBVIOUS
    <3>2. y = lo + x /\ z = hi /\ n = (hi - lo) - x /\ y \in lo .. hi
      BY <2>1, <2>3, <2>4, <2>5, <3>1
    <3>3. n \in Nat /\ y + n = z
      BY <3>2
    <3>4. QED
      BY <2>3, <2>4, <3>1, <3>3
  <2>6. CASE t # LastThread
    BY <1>5, <1>8, <2>3, <2>4, <2>6
  <2>7. QED
    BY <2>5, <2>6
<1>13. Digits(t) = BlockDigits(b)
  BY <1>1, <1>3 DEF Digits
<1>14. \A h \in BlockDigits(b) : Global(t, h) = b.base + h
  BY <1>1, <1>3 DEF Global
<1>15. Global(t, 0) = b.base
  <2>1. b.base \in Nat /\ Global(t, 0) = b.base + 0
    BY <1>1, <1>3 DEF Global, IsBlock
  <2>2. QED
    BY <2>1
<1>16. \A p \in b.lo .. (b.hi - 1) : Digit(t, buf[w].old[p]) = b.digit[p]
  <2>1. \A p \in b.lo .. (b.hi - 1) : p \in Positions(w)
    BY <1>1, <1>3, <1>5, PassesOf
  <2>2. QED
    BY <1>1, <1>2, <2>1 DEF BlockAt, Digit
<1>17. Combined(t) = Mine(b, t)
  <2>1. PICK q : q = size \div NThreads
    OBVIOUS
  <2>2. q \in Nat /\ size - 0 = size
    BY <1>5, <1>6, <2>1, DivisionType
  <2>3. Cut(0, size, t) = q * t /\ Cut(0, size, t + 1) = IF t = LastThread THEN size ELSE q * (t + 1)
    <3>1. Cut(0, size, t) = 0 + q * t /\ Cut(0, size, t + 1) = IF t = LastThread THEN size ELSE 0 + q * (t + 1)
      BY <1>6, <2>1, <2>2 DEF Cut
    <3>2. q * t \in Nat /\ q * (t + 1) \in Nat
      BY <1>6, <2>2
    <3>3. QED
      BY <3>1, <3>2
  <2>4. Combined(t) = {h \in BlockDigits(b) : q * t <= h /\ (t = LastThread \/ h < q * (t + 1))}
    BY <1>1, <1>3, <1>5, <1>13, <2>1 DEF Combined
  <2>5. \A h \in BlockDigits(b) : h < size
    BY <1>5 DEF BlockDigits
  <2>6. \A h \in BlockDigits(b) : (q * t <= h /\ (t = LastThread \/ h < q * (t + 1)))
                                  <=> (Cut(0, size, t) <= h /\ h < Cut(0, size, t + 1))
    BY <2>3, <2>5
  <2>7. Mine(b, t) = {h \in BlockDigits(b) : Cut(0, size, t) <= h /\ h < Cut(0, size, t + 1)}
    BY <1>5 DEF Mine
  <2>8. QED
    BY <2>4, <2>6, <2>7
<1>18. QED
  BY <1>2, <1>3, <1>4, <1>12, <1>13, <1>14, <1>15, <1>16, <1>17 DEF OnBlock


-----------------------------------------------------------------------------
(* The work on a block.                                                    *)

(* Thread t in stage s of a block, where the threads of D are done. *)
AtWork(t, D, b, w, i, j, s) ==
  /\ Placed(t, w, i, j, s) /\ s \in RadixStages /\ t \notin D
  /\ i \in Passes(w) /\ Passes(w) \subseteq Nat /\ (i > 0 => i - 1 \in Passes(w)) /\ Blocks(i + 1) \in Nat
  /\ PassInv(w, i, j, s, D, histograms[w], offsets[w], buf[w].old, idx)
  /\ b = BlockAt(w, i, j, offsets[w], buf[w].old) /\ InPass(b, w, i, j) /\ OnBlock(t, b, w)

LEMMA WorkBegins ==
  ASSUME OrderInv, NEW t \in Threads, NEW s, Stage(pc[t], side[t]) = s, s \in RadixStages, NEW D, t \notin D,
         NEW p, p = Place(t), Holds(p, D, histograms, offsets, buf, idx)
  PROVE  \E b, w, i, j : AtWork(t, D, b, w, i, j, s)
<1>1. PICK w, i, j : Placed(t, w, i, j, s)
  BY PlacedAt
<1>2. /\ p.side = w /\ p.pass = i /\ p.iter = j /\ p.stage = s
      /\ w \in Sides /\ i \in Nat /\ Algorithm(w) = "radix" /\ i < conf.passes
  BY <1>1 DEF Placed, At
<1>3. PassInv(w, i, j, s, D, histograms[w], offsets[w], buf[w].old, idx)
  BY <1>2 DEF Holds
<1>4. i > 0 => Rising(offsets[w][i - 1], Blocks(i), Len(key[w]))
  BY <1>3 DEF PassInv
<1>5. InputsInv
  BY DEF OrderInv, PlacesInv
<1>6. PICK b : InBlock(t, b)
  BY DEF InBlock
<1>7. b = BlockAt(w, i, j, offsets[w], buf[w].old) /\ InPass(b, w, i, j) /\ OnBlock(t, b, w)
  BY <1>1, <1>4, <1>5, <1>6, ThreadBlock
<1>8. i \in Passes(w) /\ Passes(w) \subseteq Nat /\ (i > 0 => i - 1 \in Passes(w)) /\ Blocks(i + 1) \in Nat
  <2>1. conf.passes \in Nat /\ Passes(w) = 0 .. (conf.passes - 1)
    BY <1>2, <1>5, InputsType, PassesOf
  <2>2. i \in 0 .. (conf.passes - 1)
    BY <1>2, <2>1
  <2>3. Blocks(i) \in Nat /\ HistSize(i) \in Nat /\ Blocks(i + 1) = Blocks(i) * HistSize(i)
    BY <1>5, <2>2, Geometry
  <2>4. \A x, y \in Nat : x * y \in Nat
    OBVIOUS
  <2>5. QED
    BY <1>2, <2>1, <2>2, <2>3, <2>4
<1>9. QED
  BY <1>1, <1>3, <1>7, <1>8 DEF AtWork

(* What holds of the stage itself. *)
StageInv(s, b, D, hist, off, ix) ==
  /\ s = "histogram" => Counted(b, D, hist, off)
  /\ s = "combine" => Combining(b, D, hist, off)
  /\ s = "sum" => Summing(b, D, hist, off, ix)
  /\ s = "partition" => Moving(b, D, hist, off, ix)

(* The histograms of pass i over side w change in block b only. *)
OnlyBlock(b, w, i, hist, offs, hist2, offs2) ==
  /\ \A k \in Passes(w) \ {i} : offs2[k] = offs[k]
  /\ \A o \in 0 .. (Blocks(i + 1) - 1) :
       (\A h \in BlockDigits(b) : o # b.base + h) => offs2[i][o] = offs[i][o]
  /\ \A t \in Threads : \A h \in HashKeys(w) \ BlockDigits(b) : hist2[t][h] = hist[t][h]

(* The rest of the pass is not concerned. *)
LEMMA PassKept ==
  ASSUME NEW w, NEW i, i \in Passes(w), i \in Nat, NEW j, NEW s, s \in RadixStages \ {"swap"},
         NEW D, NEW hist, NEW offs, NEW old, NEW ix,
         PassInv(w, i, j, s, D, hist, offs, old, ix),
         NEW b, b = BlockAt(w, i, j, offs, old), InPass(b, w, i, j), Passes(w) \subseteq Nat,
         i > 0 => i - 1 \in Passes(w), Blocks(i + 1) \in Nat,
         NEW E, NEW hist2, NEW offs2, NEW ix2,
         OnlyBlock(b, w, i, hist, offs, hist2, offs2),
         StageInv(s, b, E, hist2, offs2[i], ix2)
  PROVE  PassInv(w, i, j, s, E, hist2, offs2, old, ix2)
<1>1. /\ \A k \in Passes(w) : k > i => \A o \in 0 .. (Blocks(k + 1) - 1) : offs[k][o] = 0
      /\ i > 0 => Rising(offs[i - 1], Blocks(i), Len(key[w]))
      /\ \A t \in Threads : \A h \in HashKeys(w) : h \notin BlockDigits(b) => hist[t][h] = 0
      /\ Rising(offs[i], b.base, b.lo)
      /\ \A o \in (b.base + b.size) .. (Blocks(i + 1) - 1) : offs[i][o] = 0
  BY DEF PassInv
<1>2. i > 0 => offs2[i - 1] = offs[i - 1]
  BY DEF OnlyBlock
<1>3. b = BlockAt(w, i, j, offs2, old)
  <2>1. CASE i = 0
    BY <2>1 DEF BlockAt
  <2>2. CASE i # 0
    BY <1>2, <2>2 DEF BlockAt
  <2>3. QED
    BY <2>1, <2>2
<1>4. /\ b.base \in Nat /\ b.size \in Nat \ {0} /\ b.base + b.size <= Blocks(i + 1)
      /\ \A h \in BlockDigits(b) : h \in 0 .. (b.size - 1)
  BY DEF InPass, IsBlock, BlockDigits
<1>5. Blocks(i + 1) \in Int
  OBVIOUS
<1>6. \A o \in 0 .. (b.base - 1) : offs2[i][o] = offs[i][o]
  <2>1. \A o \in 0 .. (b.base - 1) : /\ o \in 0 .. (Blocks(i + 1) - 1)
                                     /\ \A h \in BlockDigits(b) : o # b.base + h
    BY <1>4, <1>5
  <2>2. QED
    BY <2>1 DEF OnlyBlock
<1>7. Rising(offs2[i], b.base, b.lo)
  <2>1. \A o \in 0 .. (b.base - 1) : \A p \in 0 .. o : p \in 0 .. (b.base - 1)
    BY <1>4
  <2>2. QED
    BY <1>1, <1>6, <2>1 DEF Rising
<1>8. \A o \in (b.base + b.size) .. (Blocks(i + 1) - 1) : offs2[i][o] = 0
  <2>1. \A o \in (b.base + b.size) .. (Blocks(i + 1) - 1) :
          /\ o \in 0 .. (Blocks(i + 1) - 1)
          /\ \A h \in BlockDigits(b) : o # b.base + h
    BY <1>4, <1>5
  <2>2. QED
    BY <1>1, <2>1 DEF OnlyBlock
<1>9. \A k \in Passes(w) : k > i => \A o \in 0 .. (Blocks(k + 1) - 1) : offs2[k][o] = 0
  <2>1. \A k \in Passes(w) : k > i => k # i
    OBVIOUS
  <2>2. QED
    BY <1>1, <2>1 DEF OnlyBlock
<1>10. \A t \in Threads : \A h \in HashKeys(w) : h \notin BlockDigits(b) => hist2[t][h] = 0
  BY <1>1 DEF OnlyBlock
<1>11. QED
  BY <1>1, <1>2, <1>3, <1>7, <1>8, <1>9, <1>10 DEF PassInv, StageInv

(* Nor is the other side. *)
LEMMA WorkHolds ==
  ASSUME NEW w \in Sides, NEW i, NEW j, NEW s \in RadixStages, NEW p, p = At(w, i, j, s),
         NEW D, NEW hists, NEW offs, NEW bufs, NEW ix, Holds(p, D, hists, offs, bufs, ix),
         NEW E, NEW hists2, NEW offs2, NEW bufs2, NEW ix2,
         \A v \in Sides \ {w} : hists2[v] = hists[v] /\ offs2[v] = offs[v],
         PassInv(w, i, j, s, E, hists2[w], offs2[w], bufs2[w].old, ix2)
  PROVE  Holds(p, E, hists2, offs2, bufs2, ix2)
<1>1. p.side = w /\ p.pass = i /\ p.iter = j /\ p.stage = s
  BY DEF At
<1>2. w = "build" => "probe" \in Sides \ {w}
  BY DEF Sides
<1>3. w = "build" => Untouched("probe", hists2, offs2)
  BY <1>1, <1>2 DEF Holds, Untouched
<1>4. s \notin {"start", "copy"}
  BY DEF RadixStages
<1>5. QED
  BY <1>1, <1>3, <1>4 DEF Holds

LEMMA WorkEnds ==
  ASSUME NEW t, NEW D, NEW b, NEW w, NEW i, NEW j, NEW s, AtWork(t, D, b, w, i, j, s), s # "swap",
         NEW p, p = Place(t), Holds(p, D, histograms, offsets, buf, idx),
         NEW E, NEW hists2, NEW offs2, NEW bufs2, NEW ix2,
         \A v \in Sides \ {w} : hists2[v] = histograms[v] /\ offs2[v] = offsets[v],
         bufs2[w].old = buf[w].old,
         OnlyBlock(b, w, i, histograms[w], offsets[w], hists2[w], offs2[w]),
         StageInv(s, b, E, hists2[w], offs2[w][i], ix2)
  PROVE  Holds(p, E, hists2, offs2, bufs2, ix2)
<1>1. /\ i \in Passes(w) /\ Passes(w) \subseteq Nat /\ (i > 0 => i - 1 \in Passes(w))
      /\ Blocks(i + 1) \in Nat /\ s \in RadixStages /\ s \in RadixStages \ {"swap"}
      /\ b = BlockAt(w, i, j, offsets[w], buf[w].old) /\ InPass(b, w, i, j)
      /\ PassInv(w, i, j, s, D, histograms[w], offsets[w], buf[w].old, idx)
  BY DEF AtWork
<1>2. w \in Sides /\ i \in Nat /\ p = At(w, i, j, s)
  BY DEF AtWork, Placed
<1>3. PICK old, hist, offs, hist2, ofs2 :
        /\ old = buf[w].old /\ hist = histograms[w] /\ offs = offsets[w]
        /\ hist2 = hists2[w] /\ ofs2 = offs2[w]
  OBVIOUS
<1>4. PassInv(w, i, j, s, E, hist2, ofs2, old, ix2)
  <2>1. PassInv(w, i, j, s, D, hist, offs, old, idx) /\ b = BlockAt(w, i, j, offs, old)
    BY <1>1, <1>3
  <2>2. /\ OnlyBlock(b, w, i, hist, offs, hist2, ofs2)
        /\ StageInv(s, b, E, hist2, ofs2[i], ix2)
    BY <1>3
  <2>3. QED
    BY <1>1, <1>2, <2>1, <2>2, PassKept
<1>5. PassInv(w, i, j, s, E, hists2[w], offs2[w], bufs2[w].old, ix2)
  BY <1>3, <1>4
<1>6. QED
  BY <1>1, <1>2, <1>5, WorkHolds

LEMMA Shapes ==
  ASSUME ShapesInv
  PROVE  /\ \A w \in Sides : /\ w \in DOMAIN buf /\ w \in DOMAIN histograms /\ w \in DOMAIN offsets
                             /\ DOMAIN buf[w] = {"old", "new"}
                             /\ \A t \in Threads : /\ t \in DOMAIN histograms[w]
                                                  /\ DOMAIN histograms[w][t] = HashKeys(w)
                             /\ \A i \in Passes(w) : /\ i \in DOMAIN offsets[w]
                                                    /\ DOMAIN offsets[w][i] = 0 .. (Blocks(i + 1) - 1)
         /\ DOMAIN idx = Threads /\ DOMAIN histograms = Sides /\ DOMAIN offsets = Sides /\ DOMAIN buf = Sides
BY DEF ShapesInv, BufShape, HistShape, OffsetShape, IdxShape

LEMMA ArriveWorks ==
  ASSUME OrderInv, NEW t \in Threads, StepOf(t), Sync!Arrive(t),
         \A p, D : p = Place(t) /\ t \notin D /\ Holds(p, D, histograms, offsets, buf, idx)
                     => Holds(p, D \cup {t}, histograms', offsets', buf', idx')
  PROVE  Works(t)
<1>1. arrived \in [Threads -> Nat]
  BY DEF OrderInv, WaitsInv
<1>2. arrived[t] = left[t] /\ arrived' # arrived
  <2>1. arrived[t] = left[t] /\ arrived' = [arrived EXCEPT ![t] = arrived[t] + 1]
    BY DEF Sync!Arrive
  <2>2. arrived'[t] # arrived[t]
    BY <1>1, <2>1
  <2>3. QED
    BY <2>1, <2>2
<1>3. ~ Stays(t) /\ ~ Leaves(t)
  BY <1>2 DEF Stays, Leaves, Sync!Leave
<1>4. Arrives(t)
  BY <1>3 DEF StepOf
<1>5. QED
  BY <1>2, <1>3, <1>4 DEF Works


LEMMA ExceptTwo ==
  ASSUME NEW f, NEW x, x \in DOMAIN f, NEW y, y \in DOMAIN f[x], NEW e, NEW g, g = [f EXCEPT ![x][y] = e]
  PROVE  /\ g[x][y] = e
         /\ \A v \in DOMAIN f \ {x} : g[v] = f[v]
         /\ \A k \in DOMAIN f[x] \ {y} : g[x][k] = f[x][k]
OBVIOUS

(* What a thread reads of its block is its share. *)
LEMMA ShareRead ==
  ASSUME NEW t \in Threads, NEW b, NEW w, IsBlock(b), OnBlock(t, b, w)
  PROVE  /\ ShareOfBlock(t).start .. (ShareOfBlock(t).start + ShareOfBlock(t).items - 1)
              = Border(b, t) .. (Border(b, t + 1) - 1)
         /\ Border(b, t) .. (Border(b, t + 1) - 1) \subseteq b.lo .. (b.hi - 1)
         /\ \A h : Cardinality({p \in ShareOfBlock(t).start .. (ShareOfBlock(t).start + ShareOfBlock(t).items - 1) :
                                  Digit(t, buf[w].old[p]) = h}) = Read(b, t, h)
<1>1. /\ ShareOfBlock(t).start = Border(b, t) /\ ShareOfBlock(t).items \in Nat /\ Border(b, t) + ShareOfBlock(t).items = Border(b, t + 1)
      /\ \A p \in b.lo .. (b.hi - 1) : Digit(t, buf[w].old[p]) = b.digit[p]
  BY DEF OnBlock
<1>2. PICK S : S = Border(b, t) .. (Border(b, t + 1) - 1)
  OBVIOUS
<1>3. ShareOfBlock(t).start .. (ShareOfBlock(t).start + ShareOfBlock(t).items - 1) = S
  <2>1. PICK x, y, n, m : x = Border(b, t) /\ y = Border(b, t + 1) /\ n = ShareOfBlock(t).items
                          /\ m = ShareOfBlock(t).start
    OBVIOUS
  <2>2. x \in Int /\ y \in Int /\ n \in Int /\ m = x /\ x + n = y
    <3>1. b.lo \in Nat /\ b.hi \in Nat /\ Border(b, t) \in b.lo .. b.hi /\ Border(b, t + 1) \in b.lo .. b.hi
      BY Borders DEF IsBlock
    <3>2. x \in Int /\ y \in Int
      BY <2>1, <3>1
    <3>3. m = x /\ n \in Int /\ x + n = y
      BY <1>1, <2>1
    <3>4. QED
      BY <3>2, <3>3
  <2>3. m .. (m + n - 1) = x .. (y - 1)
    BY <2>2
  <2>4. QED
    BY <1>2, <2>1, <2>3
<1>4. S \subseteq b.lo .. (b.hi - 1)
  <2>1. PICK x, y, lo, hi : x = Border(b, t) /\ y = Border(b, t + 1) /\ lo = b.lo /\ hi = b.hi
    OBVIOUS
  <2>2. x \in lo .. hi /\ y \in lo .. hi /\ lo \in Nat /\ hi \in Nat
    BY <2>1, Borders DEF IsBlock
  <2>3. x .. (y - 1) \subseteq lo .. (hi - 1)
    BY <2>2
  <2>4. QED
    BY <1>2, <2>1, <2>3
<1>5. \A h : {p \in S : Digit(t, buf[w].old[p]) = h} = {p \in S : b.digit[p] = h}
  BY <1>1, <1>4
<1>6. \A h : Cardinality({p \in S : Digit(t, buf[w].old[p]) = h}) = Read(b, t, h)
  BY <1>2, <1>5 DEF Read, Times
<1>7. QED
  BY <1>2, <1>3, <1>4, <1>6

LEMMA CreateWorks ==
  ASSUME OrderInv, ShapesInv, NEW t \in Threads, StepOf(t), CreateHistogram(t)
  PROVE  Works(t)
<1>1. Stage(pc[t], side[t]) = "histogram" /\ "histogram" \in RadixStages /\ Sync!Arrive(t)
  BY DEF CreateHistogram, Stage, RadixStages
<1>2. SUFFICES ASSUME NEW p, NEW D, p = Place(t), t \notin D, Holds(p, D, histograms, offsets, buf, idx)
               PROVE  Holds(p, D \cup {t}, histograms', offsets', buf', idx')
  BY <1>1, ArriveWorks
<1>3. PICK b, w, i, j : AtWork(t, D, b, w, i, j, "histogram")
  BY <1>1, <1>2, WorkBegins
<1>4. /\ side[t] = w /\ w \in Sides /\ block[t].pass = i /\ i \in Passes(w)
      /\ PassInv(w, i, j, "histogram", D, histograms[w], offsets[w], buf[w].old, idx)
      /\ b = BlockAt(w, i, j, offsets[w], buf[w].old) /\ InPass(b, w, i, j) /\ OnBlock(t, b, w)
  BY <1>3 DEF AtWork, Placed
<1>5. Counted(b, D, histograms[w], offsets[w][i])
  BY <1>4 DEF PassInv
<1>6. /\ IsBlock(b) /\ BlockDigits(b) \subseteq HashKeys(w) /\ b.base \in Nat
      /\ \A h \in BlockDigits(b) : h \in Nat /\ b.base + h \in 0 .. (Blocks(i + 1) - 1)
  BY <1>4 DEF InPass, IsBlock, BlockDigits
<1>7. /\ Digits(t) = BlockDigits(b) /\ Global(t, 0) = b.base
      /\ \A h \in BlockDigits(b) : Global(t, h) = b.base + h
  BY <1>4 DEF OnBlock
<1>8. \A h : Cardinality({q \in ShareOfBlock(t).start .. (ShareOfBlock(t).start + ShareOfBlock(t).items - 1) :
                            Digit(t, buf[w].old[q]) = h}) = Read(b, t, h)
  BY <1>4, <1>6, ShareRead
<1>9. PICK hists2, offs2 : hists2 = histograms' /\ offs2 = offsets'
  OBVIOUS
<1>10. buf' = buf /\ idx' = idx
  BY DEF CreateHistogram
<1>11. /\ w \in DOMAIN offsets /\ i \in DOMAIN offsets[w] /\ DOMAIN offsets[w][i] = 0 .. (Blocks(i + 1) - 1)
       /\ DOMAIN offsets = Sides /\ DOMAIN offsets[w] = Passes(w)
       /\ w \in DOMAIN histograms /\ DOMAIN histograms = Sides
       /\ \A u \in Threads : u \in DOMAIN histograms[w] /\ DOMAIN histograms[w][u] = HashKeys(w)
  BY <1>4, Shapes DEF ShapesInv, HistShape, OffsetShape
<1>S. ASSUME \A v \in Sides \ {w} : hists2[v] = histograms[v] /\ offs2[v] = offsets[v],
             OnlyBlock(b, w, i, histograms[w], offsets[w], hists2[w], offs2[w]),
             \A h \in BlockDigits(b) :
               /\ \A u \in Threads : hists2[w][u][h] = IF u = t + 1 THEN histograms[w][u][h] + Read(b, t, h)
                                                       ELSE histograms[w][u][h]
               /\ offs2[w][i][b.base + h] = IF t = LastThread THEN offsets[w][i][b.base + h] + Read(b, t, h)
                                            ELSE offsets[w][i][b.base + h]
      PROVE  Holds(p, D \cup {t}, hists2, offs2, buf, idx)
  <2>1. PICK hist, off, hist2, off2 : hist = histograms[w] /\ off = offsets[w][i] /\ hist2 = hists2[w] /\ off2 = offs2[w][i]
    OBVIOUS
  <2>2. Counted(b, D \cup {t}, hist2, off2)
    <3>1. \A h \in BlockDigits(b) :
            /\ \A u \in Threads : hist2[u][h] = IF u = t + 1 THEN hist[u][h] + Read(b, t, h) ELSE hist[u][h]
            /\ off2[b.base + h] = IF t = LastThread THEN off[b.base + h] + Read(b, t, h) ELSE off[b.base + h]
      BY <1>S, <2>1
    <3>2. Counted(b, D, hist, off)
      BY <1>5, <2>1
    <3>3. QED
      BY <1>2, <1>6, <3>1, <3>2, HistogramStep
  <2>3. StageInv("histogram", b, D \cup {t}, hists2[w], offs2[w][i], idx)
    BY <2>1, <2>2 DEF StageInv
  <2>4. QED
    BY <1>2, <1>3, <1>S, <2>3, WorkEnds
<1>12. CASE t = LastThread
  <2>1. hists2 = histograms
    BY <1>9, <1>12 DEF CreateHistogram
  <2>2. PICK e : e = [o \in DOMAIN offsets[w][i] |->
                        IF \E h \in BlockDigits(b) : o = b.base + h
                        THEN offsets[w][i][o] + Read(b, t, o - b.base) ELSE offsets[w][i][o]]
    OBVIOUS
  <2>3. offs2 = [offsets EXCEPT ![w][i] = e]
    <3>1. PICK R : R = ShareOfBlock(t).start .. (ShareOfBlock(t).start + ShareOfBlock(t).items - 1)
      OBVIOUS
    <3>2. PICK d : d = [o \in DOMAIN offsets[w][i] |->
                        IF \E h \in Digits(t) : o = Global(t, h)
                        THEN offsets[w][i][o]
                               + Cardinality({q \in R : Digit(t, buf[w].old[q]) = o - Global(t, 0)})
                        ELSE offsets[w][i][o]]
      OBVIOUS
    <3>3. offs2 = [offsets EXCEPT ![w][i] = d]
      BY <1>4, <1>9, <1>12, <3>1, <3>2 DEF CreateHistogram
    <3>4. \A o : (\E h \in Digits(t) : o = Global(t, h)) <=> \E h \in BlockDigits(b) : o = b.base + h
      BY <1>7
    <3>5. \A o : Cardinality({q \in R : Digit(t, buf[w].old[q]) = o - Global(t, 0)}) = Read(b, t, o - b.base)
      BY <1>7, <1>8, <3>1
    <3>6. d = e
      BY <2>2, <3>2, <3>4, <3>5
    <3>7. QED
      BY <3>3, <3>6
  <2>4. /\ offs2[w][i] = e
        /\ \A v \in Sides \ {w} : offs2[v] = offsets[v]
        /\ \A k \in Passes(w) \ {i} : offs2[w][k] = offsets[w][k]
    BY <1>11, <2>3, ExceptTwo
  <2>5. \A h \in BlockDigits(b) : e[b.base + h] = offsets[w][i][b.base + h] + Read(b, t, h)
    <3>1. \A h \in BlockDigits(b) : b.base + h \in DOMAIN offsets[w][i] /\ (b.base + h) - b.base = h
      BY <1>6, <1>11
    <3>2. QED
      BY <2>2, <3>1
  <2>6. OnlyBlock(b, w, i, histograms[w], offsets[w], hists2[w], offs2[w])
    BY <1>11, <2>1, <2>2, <2>4 DEF OnlyBlock
  <2>7. \A u \in Threads : u # t + 1
    BY <1>12, ThreadNumbers
  <2>8. QED
    BY <1>9, <1>10, <1>12, <1>S, <2>1, <2>4, <2>5, <2>6, <2>7
<1>13. CASE t # LastThread
  <2>1. offs2 = offsets
    BY <1>9, <1>13 DEF CreateHistogram
  <2>2. PICK e : e = [h \in DOMAIN histograms[w][t + 1] |->
                        IF h \in BlockDigits(b) THEN histograms[w][t + 1][h] + Read(b, t, h)
                        ELSE histograms[w][t + 1][h]]
    OBVIOUS
  <2>3. hists2 = [histograms EXCEPT ![w][t + 1] = e]
    <3>1. PICK R : R = ShareOfBlock(t).start .. (ShareOfBlock(t).start + ShareOfBlock(t).items - 1)
      OBVIOUS
    <3>2. PICK d : d = [h \in DOMAIN histograms[w][t + 1] |->
                        IF h \in Digits(t)
                        THEN histograms[w][t + 1][h] + Cardinality({q \in R : Digit(t, buf[w].old[q]) = h})
                        ELSE histograms[w][t + 1][h]]
      OBVIOUS
    <3>3. hists2 = [histograms EXCEPT ![w][t + 1] = d]
      BY <1>4, <1>9, <1>13, <3>1, <3>2 DEF CreateHistogram
    <3>4. \A h : Cardinality({q \in R : Digit(t, buf[w].old[q]) = h}) = Read(b, t, h)
      BY <1>8, <3>1
    <3>5. d = e
      BY <1>7, <2>2, <3>2, <3>4
    <3>6. QED
      BY <3>3, <3>5
  <2>4. t + 1 \in Threads
    BY <1>13, ThreadNumbers
  <2>5. DOMAIN histograms[w] = Threads
    BY <1>4 DEF ShapesInv, HistShape, OffsetShape
  <2>6. /\ hists2[w][t + 1] = e
        /\ \A v \in Sides \ {w} : hists2[v] = histograms[v]
        /\ \A u \in Threads \ {t + 1} : hists2[w][u] = histograms[w][u]
    BY <1>11, <2>3, <2>4, <2>5, ExceptTwo
  <2>7. \A h \in HashKeys(w) : e[h] = IF h \in BlockDigits(b) THEN histograms[w][t + 1][h] + Read(b, t, h)
                                      ELSE histograms[w][t + 1][h]
    BY <1>11, <2>2, <2>4
  <2>8. OnlyBlock(b, w, i, histograms[w], offsets[w], hists2[w], offs2[w])
    BY <2>1, <2>6, <2>7 DEF OnlyBlock
  <2>9. \A h \in BlockDigits(b) : \A u \in Threads :
          hists2[w][u][h] = IF u = t + 1 THEN histograms[w][u][h] + Read(b, t, h) ELSE histograms[w][u][h]
    BY <1>6, <2>6, <2>7
  <2>10. QED
    BY <1>9, <1>10, <1>13, <1>S, <2>1, <2>6, <2>8, <2>9
<1>14. QED
  BY <1>12, <1>13

LEMMA CombineWorks ==
  ASSUME OrderInv, ShapesInv, NEW t \in Threads, StepOf(t), CombineHistogram(t)
  PROVE  Works(t)
<1>1. Stage(pc[t], side[t]) = "combine" /\ "combine" \in RadixStages /\ Sync!Arrive(t)
  BY DEF CombineHistogram, Stage, RadixStages
<1>2. SUFFICES ASSUME NEW p, NEW D, p = Place(t), t \notin D, Holds(p, D, histograms, offsets, buf, idx)
               PROVE  Holds(p, D \cup {t}, histograms', offsets', buf', idx')
  BY <1>1, ArriveWorks
<1>3. PICK b, w, i, j : AtWork(t, D, b, w, i, j, "combine")
  BY <1>1, <1>2, WorkBegins
<1>4. /\ side[t] = w /\ w \in Sides /\ block[t].pass = i /\ i \in Passes(w)
      /\ PassInv(w, i, j, "combine", D, histograms[w], offsets[w], buf[w].old, idx)
      /\ b = BlockAt(w, i, j, offsets[w], buf[w].old) /\ InPass(b, w, i, j) /\ OnBlock(t, b, w)
  BY <1>3 DEF AtWork, Placed
<1>5. Combining(b, D, histograms[w], offsets[w][i])
  BY <1>4 DEF PassInv
<1>6. /\ IsBlock(b) /\ BlockDigits(b) \subseteq HashKeys(w) /\ b.base \in Nat
      /\ \A h \in BlockDigits(b) : h \in Nat /\ b.base + h \in 0 .. (Blocks(i + 1) - 1)
  BY <1>4 DEF InPass, IsBlock, BlockDigits
<1>7. /\ Combined(t) = Mine(b, t) /\ Global(t, 0) = b.base
      /\ \A h \in BlockDigits(b) : Global(t, h) = b.base + h
  BY <1>4 DEF OnBlock
<1>8. Mine(b, t) \subseteq BlockDigits(b)
  BY DEF Mine
<1>9. \A u, h : UpTo(w, u, h) = SumUpTo(histograms[w], u, h)
  BY DEF UpTo, SumUpTo
<1>10. PICK hists2, offs2 : hists2 = histograms' /\ offs2 = offsets'
  OBVIOUS
<1>11. buf' = buf /\ idx' = idx
  BY DEF CombineHistogram
<1>12. /\ w \in DOMAIN offsets /\ i \in DOMAIN offsets[w] /\ DOMAIN offsets[w][i] = 0 .. (Blocks(i + 1) - 1)
       /\ DOMAIN offsets = Sides /\ DOMAIN offsets[w] = Passes(w)
       /\ w \in DOMAIN histograms /\ DOMAIN histograms = Sides
       /\ \A u \in Threads : u \in DOMAIN histograms[w] /\ DOMAIN histograms[w][u] = HashKeys(w)
  BY <1>4, Shapes DEF ShapesInv, HistShape, OffsetShape
<1>13. PICK e : e = [u \in Threads |-> [h \in DOMAIN histograms[w][u] |->
                       IF h \in Combined(t) THEN UpTo(w, u, h) ELSE histograms[w][u][h]]]
  OBVIOUS
<1>14. PICK d : d = [o \in DOMAIN offsets[w][i] |->
                       IF \E h \in Combined(t) : o = Global(t, h)
                       THEN offsets[w][i][o] + UpTo(w, LastThread, o - Global(t, 0)) ELSE offsets[w][i][o]]
  OBVIOUS
<1>15. hists2 = [histograms EXCEPT ![w] = e]
  BY <1>4, <1>10, <1>13 DEF CombineHistogram
<1>16. offs2 = [offsets EXCEPT ![w][i] = d]
  BY <1>4, <1>10, <1>14 DEF CombineHistogram
<1>17. hists2[w] = e /\ \A v \in Sides \ {w} : hists2[v] = histograms[v]
  BY <1>12, <1>15
<1>18. /\ offs2[w][i] = d
       /\ \A v \in Sides \ {w} : offs2[v] = offsets[v]
       /\ \A k \in Passes(w) \ {i} : offs2[w][k] = offsets[w][k]
  BY <1>12, <1>16, ExceptTwo
<1>19. \A u \in Threads : \A h \in HashKeys(w) :
         e[u][h] = IF h \in Mine(b, t) THEN SumUpTo(histograms[w], u, h) ELSE histograms[w][u][h]
  BY <1>7, <1>9, <1>12, <1>13
<1>20. \A o \in 0 .. (Blocks(i + 1) - 1) :
         d[o] = IF \E h \in Mine(b, t) : o = b.base + h
                THEN offsets[w][i][o] + SumUpTo(histograms[w], LastThread, o - b.base) ELSE offsets[w][i][o]
  <2>1. \A o : (\E h \in Combined(t) : o = Global(t, h)) <=> \E h \in Mine(b, t) : o = b.base + h
    BY <1>7, <1>8
  <2>2. QED
    BY <1>7, <1>9, <1>12, <1>14, <2>1
<1>21. \A h \in BlockDigits(b) :
         d[b.base + h] = IF h \in Mine(b, t) THEN offsets[w][i][b.base + h] + SumUpTo(histograms[w], LastThread, h)
                         ELSE offsets[w][i][b.base + h]
  <2>1. ASSUME NEW h \in BlockDigits(b)
        PROVE  ((\E k \in Mine(b, t) : b.base + h = b.base + k) <=> h \in Mine(b, t)) /\ (b.base + h) - b.base = h
    <3>1. \A k \in Mine(b, t) : k \in Nat
      BY <1>6, <1>8
    <3>2. h \in Nat /\ b.base \in Nat
      BY <1>6
    <3>3. \A k \in Nat : b.base + h = b.base + k => h = k
      BY <3>2
    <3>4. QED
      BY <3>1, <3>2, <3>3
  <2>2. QED
    BY <1>6, <1>20, <2>1
<1>22. OnlyBlock(b, w, i, histograms[w], offsets[w], hists2[w], offs2[w])
  <2>1. \A o \in 0 .. (Blocks(i + 1) - 1) : (\A h \in BlockDigits(b) : o # b.base + h) => d[o] = offsets[w][i][o]
    BY <1>8, <1>20
  <2>2. QED
    BY <1>8, <1>17, <1>18, <1>19, <2>1 DEF OnlyBlock
<1>23. PICK hist, off, hist2, off2 :
         hist = histograms[w] /\ off = offsets[w][i] /\ hist2 = hists2[w] /\ off2 = offs2[w][i]
  OBVIOUS
<1>24. Combining(b, D \cup {t}, hist2, off2)
  <2>1. \A h \in BlockDigits(b) :
          /\ \A u \in Threads : hist2[u][h] = IF h \in Mine(b, t) THEN SumUpTo(hist, u, h) ELSE hist[u][h]
          /\ off2[b.base + h] = IF h \in Mine(b, t) THEN off[b.base + h] + SumUpTo(hist, LastThread, h)
                                ELSE off[b.base + h]
    BY <1>6, <1>17, <1>18, <1>19, <1>21, <1>23
  <2>2. Combining(b, D, hist, off)
    BY <1>5, <1>23
  <2>3. QED
    BY <1>2, <1>6, <2>1, <2>2, CombineStep
<1>25. StageInv("combine", b, D \cup {t}, hists2[w], offs2[w][i], idx)
  BY <1>23, <1>24 DEF StageInv
<1>26. Holds(p, D \cup {t}, hists2, offs2, buf, idx)
  BY <1>2, <1>3, <1>17, <1>18, <1>22, <1>25, WorkEnds
<1>27. QED
  BY <1>10, <1>11, <1>26

LEMMA SumWorks ==
  ASSUME OrderInv, ShapesInv, NEW t \in Threads, StepOf(t), SumHistogram(t)
  PROVE  Works(t)
<1>1. Stage(pc[t], side[t]) = "sum" /\ "sum" \in RadixStages /\ Sync!Arrive(t)
  BY DEF SumHistogram, Stage, RadixStages
<1>2. SUFFICES ASSUME NEW p, NEW D, p = Place(t), t \notin D, Holds(p, D, histograms, offsets, buf, idx)
               PROVE  Holds(p, D \cup {t}, histograms', offsets', buf', idx')
  BY <1>1, ArriveWorks
<1>3. PICK b, w, i, j : AtWork(t, D, b, w, i, j, "sum")
  BY <1>1, <1>2, WorkBegins
<1>4. /\ side[t] = w /\ w \in Sides /\ block[t].pass = i /\ i \in Passes(w)
      /\ PassInv(w, i, j, "sum", D, histograms[w], offsets[w], buf[w].old, idx)
      /\ b = BlockAt(w, i, j, offsets[w], buf[w].old) /\ InPass(b, w, i, j) /\ OnBlock(t, b, w)
  BY <1>3 DEF AtWork, Placed
<1>5. Summing(b, D, histograms[w], offsets[w][i], idx)
  BY <1>4 DEF PassInv
<1>6. /\ IsBlock(b) /\ BlockDigits(b) \subseteq HashKeys(w) /\ b.base \in Nat
      /\ \A h \in BlockDigits(b) : h \in Nat /\ b.base + h \in 0 .. (Blocks(i + 1) - 1)
  BY <1>4 DEF InPass, IsBlock, BlockDigits
<1>7. /\ Digits(t) = BlockDigits(b) /\ Global(t, 0) = b.base /\ BlockStart(t) = b.lo
      /\ \A h \in BlockDigits(b) : Global(t, h) = b.base + h
  BY <1>4 DEF OnBlock
<1>8. PICK offs2, ix2 : offs2 = offsets' /\ ix2 = idx'
  OBVIOUS
<1>9. buf' = buf /\ histograms' = histograms
  BY DEF SumHistogram
<1>10. /\ w \in DOMAIN offsets /\ i \in DOMAIN offsets[w] /\ DOMAIN offsets[w][i] = 0 .. (Blocks(i + 1) - 1)
       /\ DOMAIN offsets = Sides /\ DOMAIN offsets[w] = Passes(w) /\ DOMAIN idx = Threads
  BY <1>4, Shapes DEF ShapesInv, HistShape, OffsetShape
<1>11. \A u \in Threads : ix2[u] = IF u = t THEN 0 ELSE idx[u]
  BY <1>8, <1>10 DEF SumHistogram
<1>12. /\ \A v \in Sides \ {w} : offs2[v] = offsets[v]
       /\ OnlyBlock(b, w, i, histograms[w], offsets[w], histograms[w], offs2[w])
       /\ \A h \in BlockDigits(b) :
            offs2[w][i][b.base + h] = IF t = 0 THEN b.lo + SumFunctionOnSet(offsets[w][i], b.base .. (b.base + h))
                                      ELSE offsets[w][i][b.base + h]
  <2>1. CASE t # 0
    <3>1. offs2 = offsets
      BY <1>8, <2>1 DEF SumHistogram
    <3>2. QED
      BY <2>1, <3>1 DEF OnlyBlock
  <2>2. CASE t = 0
    <3>1. PICK d : d = [o \in DOMAIN offsets[w][i] |->
                          IF \E h \in Digits(t) : o = Global(t, h)
                          THEN BlockStart(t) + SumFunctionOnSet(offsets[w][i], Global(t, 0) .. o)
                          ELSE offsets[w][i][o]]
      OBVIOUS
    <3>2. offs2 = [offsets EXCEPT ![w][i] = d]
      BY <1>4, <1>8, <2>2, <3>1 DEF SumHistogram
    <3>3. /\ offs2[w][i] = d
          /\ \A v \in Sides \ {w} : offs2[v] = offsets[v]
          /\ \A k \in Passes(w) \ {i} : offs2[w][k] = offsets[w][k]
      BY <1>10, <3>2, ExceptTwo
    <3>4. \A o \in 0 .. (Blocks(i + 1) - 1) :
            d[o] = IF \E h \in BlockDigits(b) : o = b.base + h
                   THEN b.lo + SumFunctionOnSet(offsets[w][i], b.base .. o) ELSE offsets[w][i][o]
      <4>1. \A o : (\E h \in Digits(t) : o = Global(t, h)) <=> \E h \in BlockDigits(b) : o = b.base + h
        BY <1>7
      <4>2. QED
        BY <1>7, <1>10, <3>1, <4>1
    <3>5. \A h \in BlockDigits(b) : d[b.base + h] = b.lo + SumFunctionOnSet(offsets[w][i], b.base .. (b.base + h))
      BY <1>6, <3>4
    <3>6. QED
      BY <2>2, <3>3, <3>4, <3>5 DEF OnlyBlock
  <2>3. QED
    BY <2>1, <2>2
<1>13. PICK hist, off, off2 : hist = histograms[w] /\ off = offsets[w][i] /\ off2 = offs2[w][i]
  OBVIOUS
<1>14. Summing(b, D \cup {t}, hist, off2, ix2)
  <2>1. \A h \in BlockDigits(b) :
          off2[b.base + h] = IF t = 0 THEN b.lo + SumFunctionOnSet(off, b.base .. (b.base + h))
                             ELSE off[b.base + h]
    BY <1>12, <1>13
  <2>2. Summing(b, D, hist, off, idx)
    BY <1>5, <1>13
  <2>3. QED
    BY <1>2, <1>6, <1>11, <2>1, <2>2, SumStep
<1>15. StageInv("sum", b, D \cup {t}, histograms[w], offs2[w][i], ix2)
  BY <1>13, <1>14 DEF StageInv
<1>16. Holds(p, D \cup {t}, histograms, offs2, buf, ix2)
  BY <1>2, <1>3, <1>12, <1>15, WorkEnds
<1>17. QED
  BY <1>8, <1>9, <1>16

LEMMA StayWorks ==
  ASSUME OrderInv, NEW t \in Threads, StepOf(t), UNCHANGED barrier, pc[t] = "partition",
         \A p, D : p = Place(t) /\ t \notin D /\ Holds(p, D, histograms, offsets, buf, idx)
                     => Holds(p, D, histograms', offsets', buf', idx')
  PROVE  Works(t)
<1>1. arrived \in [Threads -> Nat] /\ left \in [Threads -> Nat] /\ arrived[t] = left[t]
  BY DEF OrderInv, WaitsInv
<1>2. arrived' = arrived /\ left' = left
  BY DEF barrier
<1>3. ~ Arrives(t)
  <2>1. ~ (arrived' = [arrived EXCEPT ![t] = arrived[t] + 1])
    BY <1>1, <1>2
  <2>2. QED
    BY <2>1 DEF Arrives, Sync!Arrive
<1>4. ~ Leaves(t)
  BY <1>1 DEF Leaves, Sync!Leave
<1>5. Stays(t)
  BY <1>3, <1>4 DEF StepOf
<1>6. QED
  BY <1>1, <1>3, <1>5 DEF Works

LEMMA PartitionWorks ==
  ASSUME OrderInv, ShapesInv, NEW t \in Threads, StepOf(t), RadixPartition(t)
  PROVE  Works(t)
<1>1. /\ pc[t] = "partition" /\ UNCHANGED barrier
      /\ Stage(pc[t], side[t]) = "partition" /\ "partition" \in RadixStages
  BY DEF RadixPartition, Stage, RadixStages
<1>2. SUFFICES ASSUME NEW p, NEW D, p = Place(t), t \notin D, Holds(p, D, histograms, offsets, buf, idx)
               PROVE  Holds(p, D, histograms', offsets', buf', idx')
  BY <1>1, StayWorks
<1>3. PICK b, w, i, j : AtWork(t, D, b, w, i, j, "partition")
  BY <1>1, <1>2, WorkBegins
<1>4. /\ side[t] = w /\ w \in Sides /\ block[t].pass = i /\ i \in Passes(w)
      /\ PassInv(w, i, j, "partition", D, histograms[w], offsets[w], buf[w].old, idx)
      /\ b = BlockAt(w, i, j, offsets[w], buf[w].old) /\ InPass(b, w, i, j) /\ OnBlock(t, b, w)
  BY <1>3 DEF AtWork, Placed
<1>5. Moving(b, D, histograms[w], offsets[w][i], idx)
  BY <1>4 DEF PassInv
<1>6. IsBlock(b) /\ BlockDigits(b) \subseteq HashKeys(w)
  BY <1>4 DEF InPass
<1>7. PICK q : q = Border(b, t) + idx[t]
  OBVIOUS
<1>8. /\ ShareOfBlock(t).start + idx[t] = q /\ q < Border(b, t + 1)
      /\ q \in b.lo .. (b.hi - 1)
  <2>1. /\ ShareOfBlock(t).start = Border(b, t) /\ ShareOfBlock(t).items \in Nat
        /\ Border(b, t) + ShareOfBlock(t).items = Border(b, t + 1)
    BY <1>4 DEF OnBlock
  <2>2. idx[t] \in Nat
    BY <1>2, <1>5 DEF Moving
  <2>3. idx[t] < ShareOfBlock(t).items
    BY DEF RadixPartition
  <2>4. b.lo \in Nat /\ b.hi \in Nat /\ Border(b, t) \in b.lo .. b.hi /\ Border(b, t + 1) \in b.lo .. b.hi
    BY <1>6, Borders DEF IsBlock
  <2>5. PICK x, y, n, k : x = Border(b, t) /\ y = Border(b, t + 1) /\ n = ShareOfBlock(t).items /\ k = idx[t]
    OBVIOUS
  <2>6. x \in b.lo .. b.hi /\ y \in b.lo .. b.hi /\ x + n = y /\ n \in Nat /\ k \in Nat /\ k < n /\ q = x + k
    BY <1>7, <2>1, <2>2, <2>3, <2>4, <2>5
  <2>7. q < y /\ q \in b.lo .. (b.hi - 1)
    BY <2>4, <2>6
  <2>8. QED
    BY <1>7, <2>1, <2>5, <2>7
<1>9. PICK h : h = b.digit[q]
  OBVIOUS
<1>10. h \in BlockDigits(b) /\ h \in HashKeys(w) /\ Digit(t, buf[w].old[q]) = h
  BY <1>4, <1>6, <1>8, <1>9 DEF IsBlock, BlockDigits, OnBlock
<1>11. PICK hists2, bufs2, ix2 : hists2 = histograms' /\ bufs2 = buf' /\ ix2 = idx'
  OBVIOUS
<1>12. offsets' = offsets
  BY DEF RadixPartition
<1>13. /\ DOMAIN histograms = Sides /\ DOMAIN histograms[w] = Threads /\ DOMAIN histograms[w][t] = HashKeys(w)
       /\ DOMAIN buf = Sides /\ DOMAIN buf[w] = {"old", "new"} /\ DOMAIN idx = Threads
  BY <1>4, Shapes DEF ShapesInv, HistShape, OffsetShape
<1>14. hists2 = [histograms EXCEPT ![w][t][h] = histograms[w][t][h] + 1]
  BY <1>4, <1>8, <1>10, <1>11 DEF RadixPartition
<1>15. /\ \A v \in Sides \ {w} : hists2[v] = histograms[v]
       /\ \A u \in Threads \ {t} : hists2[w][u] = histograms[w][u]
       /\ \A k \in HashKeys(w) : hists2[w][t][k] = IF k = h THEN histograms[w][t][k] + 1 ELSE histograms[w][t][k]
  BY <1>4, <1>10, <1>13, <1>14
<1>16. bufs2[w].old = buf[w].old
  <2>1. PICK e : bufs2 = [buf EXCEPT ![w].new = e]
    BY <1>4, <1>11 DEF RadixPartition
  <2>2. QED
    BY <1>4, <1>13, <2>1
<1>17. \A u \in Threads : ix2[u] = IF u = t THEN idx[u] + 1 ELSE idx[u]
  BY <1>11, <1>13 DEF RadixPartition
<1>18. OnlyBlock(b, w, i, histograms[w], offsets[w], hists2[w], offsets[w])
  BY <1>10, <1>15 DEF OnlyBlock
<1>19. PICK hist, off, hist2 : hist = histograms[w] /\ off = offsets[w][i] /\ hist2 = hists2[w]
  OBVIOUS
<1>20. Moving(b, D, hist2, off, ix2)
  <2>1. \A k \in BlockDigits(b) : \A u \in Threads :
          hist2[u][k] = IF u = t /\ k = b.digit[Border(b, t) + idx[t]] THEN hist[u][k] + 1 ELSE hist[u][k]
    BY <1>6, <1>7, <1>9, <1>15, <1>19
  <2>2. Moving(b, D, hist, off, idx)
    BY <1>5, <1>19
  <2>3. Border(b, t) + idx[t] < Border(b, t + 1)
    BY <1>7, <1>8
  <2>4. QED
    BY <1>2, <1>6, <1>17, <2>1, <2>2, <2>3, PartitionStep
<1>21. StageInv("partition", b, D, hists2[w], offsets[w][i], ix2)
  BY <1>19, <1>20 DEF StageInv
<1>22. Holds(p, D, hists2, offsets, bufs2, ix2)
  BY <1>2, <1>3, <1>15, <1>16, <1>18, <1>21, WorkEnds
<1>23. QED
  BY <1>11, <1>12, <1>22

LEMMA ResetWorks ==
  ASSUME OrderInv, ShapesInv, NEW t \in Threads, StepOf(t), ResetHistogram(t)
  PROVE  Works(t)
<1>1. Stage(pc[t], side[t]) = "partition" /\ "partition" \in RadixStages /\ Sync!Arrive(t)
  BY DEF ResetHistogram, Stage, RadixStages
<1>2. SUFFICES ASSUME NEW p, NEW D, p = Place(t), t \notin D, Holds(p, D, histograms, offsets, buf, idx)
               PROVE  Holds(p, D \cup {t}, histograms', offsets', buf', idx')
  BY <1>1, ArriveWorks
<1>3. PICK b, w, i, j : AtWork(t, D, b, w, i, j, "partition")
  BY <1>1, <1>2, WorkBegins
<1>4. /\ side[t] = w /\ w \in Sides /\ block[t].pass = i /\ i \in Passes(w)
      /\ PassInv(w, i, j, "partition", D, histograms[w], offsets[w], buf[w].old, idx)
      /\ b = BlockAt(w, i, j, offsets[w], buf[w].old) /\ InPass(b, w, i, j) /\ OnBlock(t, b, w)
  BY <1>3 DEF AtWork, Placed
<1>5. Moving(b, D, histograms[w], offsets[w][i], idx)
  BY <1>4 DEF PassInv
<1>6. Digits(t) = BlockDigits(b) /\ BlockDigits(b) \subseteq HashKeys(w)
  BY <1>4 DEF OnBlock, InPass
<1>7. PICK hists2 : hists2 = histograms'
  OBVIOUS
<1>8. buf' = buf /\ offsets' = offsets /\ idx' = idx
  BY DEF ResetHistogram
<1>9. DOMAIN histograms = Sides /\ DOMAIN histograms[w] = Threads /\ DOMAIN histograms[w][t] = HashKeys(w)
  BY <1>4, Shapes DEF ShapesInv, HistShape, OffsetShape
<1>10. PICK e : e = [h \in DOMAIN histograms[w][t] |-> IF h \in Digits(t) THEN 0 ELSE histograms[w][t][h]]
  OBVIOUS
<1>11. hists2 = [histograms EXCEPT ![w][t] = e]
  BY <1>4, <1>7, <1>10 DEF ResetHistogram
<1>12. /\ hists2[w][t] = e
       /\ \A v \in Sides \ {w} : hists2[v] = histograms[v]
       /\ \A u \in Threads \ {t} : hists2[w][u] = histograms[w][u]
  BY <1>4, <1>9, <1>11, ExceptTwo
<1>13. \A h \in HashKeys(w) : e[h] = IF h \in BlockDigits(b) THEN 0 ELSE histograms[w][t][h]
  BY <1>6, <1>9, <1>10
<1>14. OnlyBlock(b, w, i, histograms[w], offsets[w], hists2[w], offsets[w])
  BY <1>12, <1>13 DEF OnlyBlock
<1>15. PICK hist, off, hist2 : hist = histograms[w] /\ off = offsets[w][i] /\ hist2 = hists2[w]
  OBVIOUS
<1>16. Moving(b, D \cup {t}, hist2, off, idx)
  <2>1. \A h \in BlockDigits(b) : \A u \in Threads : hist2[u][h] = IF u = t THEN 0 ELSE hist[u][h]
    BY <1>6, <1>12, <1>13, <1>15
  <2>2. Moving(b, D, hist, off, idx)
    BY <1>5, <1>15
  <2>3. QED
    BY <2>1, <2>2, ResetStep
<1>17. StageInv("partition", b, D \cup {t}, hists2[w], offsets[w][i], idx)
  BY <1>15, <1>16 DEF StageInv
<1>18. Holds(p, D \cup {t}, hists2, offsets, buf, idx)
  BY <1>2, <1>3, <1>12, <1>14, <1>17, WorkEnds
<1>19. QED
  BY <1>7, <1>8, <1>18

(* The arrays are swapped when the histograms are as the pass leaves them. *)
LEMMA SwapWorks ==
  ASSUME OrderInv, NEW t \in Threads, StepOf(t), SwapBuffers(t)
  PROVE  Works(t)
<1>1. Stage(pc[t], side[t]) = "swap" /\ "swap" \in RadixStages /\ Sync!Arrive(t)
  BY DEF SwapBuffers, Stage, RadixStages
<1>2. SUFFICES ASSUME NEW p, NEW D, p = Place(t), t \notin D, Holds(p, D, histograms, offsets, buf, idx)
               PROVE  Holds(p, D \cup {t}, histograms', offsets', buf', idx')
  BY <1>1, ArriveWorks
<1>3. p.stage = "swap"
  BY <1>1, <1>2 DEF Place, At
<1>4. histograms' = histograms /\ offsets' = offsets /\ idx' = idx
  BY DEF SwapBuffers
<1>5. PICK bufs2 : bufs2 = buf'
  OBVIOUS
<1>6. \A w, i, j, hist, offs, old, old2, ix, E :
        PassInv(w, i, j, "swap", D, hist, offs, old, ix) => PassInv(w, i, j, "swap", E, hist, offs, old2, ix)
  BY DEF PassInv
<1>7. Holds(p, D \cup {t}, histograms, offsets, bufs2, idx)
  BY <1>2, <1>3, <1>6 DEF Holds
<1>8. QED
  BY <1>4, <1>5, <1>7

LEMMA CopyWorks ==
  ASSUME OrderInv, NEW t \in Threads, StepOf(t), CopyShare(t)
  PROVE  Works(t)
<1>1. Stage(pc[t], side[t]) = "copy" /\ "copy" \notin RadixStages /\ Sync!Arrive(t)
  BY DEF CopyShare, Stage, RadixStages
<1>2. SUFFICES ASSUME NEW p, NEW D, p = Place(t), t \notin D, Holds(p, D, histograms, offsets, buf, idx)
               PROVE  Holds(p, D \cup {t}, histograms', offsets', buf', idx')
  BY <1>1, ArriveWorks
<1>3. p.stage \notin RadixStages
  BY <1>1, <1>2 DEF Place, At
<1>4. histograms' = histograms /\ offsets' = offsets
  BY DEF CopyShare
<1>5. PICK bufs2, ix2 : bufs2 = buf' /\ ix2 = idx'
  OBVIOUS
<1>6. Holds(p, D \cup {t}, histograms, offsets, bufs2, ix2)
  BY <1>2, <1>3, HoldsElsewhere
<1>7. QED
  BY <1>4, <1>5, <1>6


-----------------------------------------------------------------------------
(* The arrays keep their shapes.                                           *)

LEMMA ShapesFixed ==
  ASSUME UNCHANGED inputs, BufShape(buf'), HistShape(histograms'), OffsetShape(offsets'), IdxShape(idx')
  PROVE  ShapesInv'
BY FixedInputs DEF ShapesInv, BufShape, HistShape, OffsetShape, IdxShape

LEMMA BufChanges ==
  ASSUME NEW f, BufShape(f), NEW w \in Sides, NEW e
  PROVE  /\ BufShape([f EXCEPT ![w].old = e])
         /\ BufShape([f EXCEPT ![w].new = e])
         /\ BufShape([f EXCEPT ![w] = [old |-> f[w].new, new |-> f[w].old]])
<1>1. DOMAIN f = Sides /\ \A v \in Sides : f[v] = [old |-> f[v].old, new |-> f[v].new]
  BY DEF BufShape
<1>2. PICK g : g = [f EXCEPT ![w].old = e]
  OBVIOUS
<1>3. BufShape(g)
  BY <1>1, <1>2 DEF BufShape
<1>4. PICK k : k = [f EXCEPT ![w].new = e]
  OBVIOUS
<1>5. BufShape(k)
  BY <1>1, <1>4 DEF BufShape
<1>6. PICK l : l = [f EXCEPT ![w] = [old |-> f[w].new, new |-> f[w].old]]
  OBVIOUS
<1>7. BufShape(l)
  BY <1>1, <1>6 DEF BufShape
<1>8. QED
  BY <1>2, <1>3, <1>4, <1>5, <1>6, <1>7

LEMMA HistChanges ==
  ASSUME NEW f, HistShape(f), NEW w \in Sides
  PROVE  /\ \A t \in Threads : \A e :
              DOMAIN e = HashKeys(w) /\ e = [h \in DOMAIN e |-> e[h]] => HistShape([f EXCEPT ![w][t] = e])
         /\ \A t \in Threads : \A h : \A e : HistShape([f EXCEPT ![w][t][h] = e])
         /\ \A e : DOMAIN e = Threads /\ e = [t \in DOMAIN e |-> [h \in HashKeys(w) |-> e[t][h]]]
                     => HistShape([f EXCEPT ![w] = e])
<1>1. /\ DOMAIN f = Sides
      /\ \A v \in Sides : f[v] = [t \in Threads |-> [h \in HashKeys(v) |-> f[v][t][h]]]
  BY DEF HistShape
<1>2. \A v \in Sides : DOMAIN f[v] = Threads /\ \A t \in Threads : f[v][t] = [h \in HashKeys(v) |-> f[v][t][h]]
  BY <1>1
<1>4. ASSUME NEW t \in Threads, NEW e, DOMAIN e = HashKeys(w), e = [h \in DOMAIN e |-> e[h]]
      PROVE  HistShape([f EXCEPT ![w][t] = e])
  <2>1. PICK g : g = [f EXCEPT ![w][t] = e]
    OBVIOUS
  <2>2. /\ DOMAIN g = Sides /\ g = [v \in DOMAIN g |-> g[v]] /\ \A v \in Sides \ {w} : g[v] = f[v]
        /\ DOMAIN g[w] = Threads /\ g[w] = [u \in DOMAIN g[w] |-> g[w][u]]
        /\ \A u \in Threads : g[w][u] = IF u = t THEN e ELSE f[w][u]
    BY <1>1, <1>2, <2>1
  <2>3. \A u \in Threads : g[w][u] = [h \in HashKeys(w) |-> g[w][u][h]]
    <3> TAKE u \in Threads
    <3>1. CASE u = t
      <4>1. g[w][u] = e
        BY <2>2, <3>1
      <4>2. e = [h \in HashKeys(w) |-> e[h]]
        BY <1>4
      <4>3. QED
        BY <4>1, <4>2
    <3>2. CASE u # t
      <4>1. g[w][u] = f[w][u]
        BY <2>2, <3>2
      <4>2. f[w][u] = [h \in HashKeys(w) |-> f[w][u][h]]
        BY <1>2
      <4>3. QED
        BY <4>1, <4>2
    <3>3. QED
      BY <3>1, <3>2
  <2>4. \A v \in Sides : g[v] = [u \in Threads |-> [h \in HashKeys(v) |-> g[v][u][h]]]
    BY <1>1, <2>2, <2>3
  <2>5. HistShape(g)
    BY <2>2, <2>4 DEF HistShape
  <2>6. QED
    BY <2>1, <2>5
<1>5. ASSUME NEW t \in Threads, NEW h, NEW e PROVE HistShape([f EXCEPT ![w][t][h] = e])
  <2>1. PICK g : g = [f EXCEPT ![w][t][h] = e]
    OBVIOUS
  <2>2. /\ DOMAIN g = Sides /\ g = [v \in DOMAIN g |-> g[v]] /\ \A v \in Sides \ {w} : g[v] = f[v]
        /\ DOMAIN g[w] = Threads /\ g[w] = [u \in DOMAIN g[w] |-> g[w][u]]
        /\ \A u \in Threads : g[w][u] = IF u = t THEN [f[w][u] EXCEPT ![h] = e] ELSE f[w][u]
    BY <1>1, <1>2, <2>1
  <2>3. \A u \in Threads : g[w][u] = [k \in HashKeys(w) |-> g[w][u][k]]
    <3> TAKE u \in Threads
    <3>1. PICK l : l = f[w][u]
      OBVIOUS
    <3>2. DOMAIN l = HashKeys(w) /\ l = [k \in HashKeys(w) |-> l[k]]
      BY <1>2, <3>1
    <3>3. PICK m : m = g[w][u] /\ (m = [l EXCEPT ![h] = e] \/ m = l)
      BY <2>2, <3>1
    <3>4. m = [k \in HashKeys(w) |-> m[k]]
      BY <3>2, <3>3
    <3>5. QED
      BY <3>3, <3>4
  <2>4. \A v \in Sides : g[v] = [u \in Threads |-> [k \in HashKeys(v) |-> g[v][u][k]]]
    BY <1>1, <2>2, <2>3
  <2>5. HistShape(g)
    BY <2>2, <2>4 DEF HistShape
  <2>6. QED
    BY <2>1, <2>5
<1>6. ASSUME NEW e, DOMAIN e = Threads, e = [t \in DOMAIN e |-> [h \in HashKeys(w) |-> e[t][h]]]
      PROVE  HistShape([f EXCEPT ![w] = e])
  <2>1. PICK g : g = [f EXCEPT ![w] = e]
    OBVIOUS
  <2>2. DOMAIN g = Sides /\ g = [v \in DOMAIN g |-> g[v]] /\ g[w] = e /\ \A v \in Sides \ {w} : g[v] = f[v]
    BY <1>1, <2>1
  <2>3. g[w] = [t \in Threads |-> [h \in HashKeys(w) |-> g[w][t][h]]]
    BY <1>6, <2>2
  <2>4. \A v \in Sides : g[v] = [t \in Threads |-> [h \in HashKeys(v) |-> g[v][t][h]]]
    <3> TAKE v \in Sides
    <3>1. CASE v = w
      BY <2>3, <3>1
    <3>2. CASE v # w
      BY <1>1, <2>2, <3>2
    <3>3. QED
      BY <3>1, <3>2
  <2>5. HistShape(g)
    BY <2>2, <2>4 DEF HistShape
  <2>6. QED
    BY <2>1, <2>5
<1>7. QED
  BY <1>4, <1>5, <1>6

LEMMA OffsetChanges ==
  ASSUME NEW f, OffsetShape(f), NEW w \in Sides, NEW i, i \in Passes(w), NEW e,
         DOMAIN e = 0 .. (Blocks(i + 1) - 1), e = [o \in DOMAIN e |-> e[o]]
  PROVE  OffsetShape([f EXCEPT ![w][i] = e])
<1>1. /\ DOMAIN f = Sides
      /\ \A v \in Sides : f[v] = [k \in Passes(v) |-> [o \in 0 .. (Blocks(k + 1) - 1) |-> f[v][k][o]]]
  BY DEF OffsetShape
<1>2. \A v \in Sides : DOMAIN f[v] = Passes(v) /\ \A k \in Passes(v) : f[v][k] = [o \in 0 .. (Blocks(k + 1) - 1) |-> f[v][k][o]]
  BY <1>1
<1>3. PICK g : g = [f EXCEPT ![w][i] = e]
  OBVIOUS
<1>4. /\ DOMAIN g = Sides /\ g = [v \in DOMAIN g |-> g[v]] /\ \A v \in Sides \ {w} : g[v] = f[v]
      /\ DOMAIN g[w] = Passes(w) /\ g[w] = [k \in DOMAIN g[w] |-> g[w][k]]
      /\ \A k \in Passes(w) : g[w][k] = IF k = i THEN e ELSE f[w][k]
  BY <1>1, <1>2, <1>3
<1>5. \A k \in Passes(w) : g[w][k] = [o \in 0 .. (Blocks(k + 1) - 1) |-> g[w][k][o]]
  BY <1>2, <1>4
<1>6. \A v \in Sides : g[v] = [k \in Passes(v) |-> [o \in 0 .. (Blocks(k + 1) - 1) |-> g[v][k][o]]]
  BY <1>1, <1>4, <1>5
<1>7. OffsetShape(g)
  BY <1>4, <1>6 DEF OffsetShape
<1>8. QED
  BY <1>3, <1>7

LEMMA IdxChanges ==
  ASSUME NEW f, IdxShape(f), NEW t \in Threads, NEW e
  PROVE  IdxShape([f EXCEPT ![t] = e])
BY DEF IdxShape

-----------------------------------------------------------------------------
(* Every step of a thread idles or works.                                  *)

(* A step that has nothing to do with the radix partitioner. *)
LEMMA Elsewhere ==
  ASSUME ShapesInv, NEW t \in Threads, UNCHANGED inputs, UNCHANGED radix,
         idx' = idx \/ \E e : idx' = [idx EXCEPT ![t] = e],
         Stage(pc[t], side[t]) \in {"start", "temp", "return", "join"}
  PROVE  ShapesInv' /\ Idles(t)
<1>1. buf' = buf /\ histograms' = histograms /\ offsets' = offsets
  BY DEF radix
<1>2. BufShape(buf') /\ HistShape(histograms') /\ OffsetShape(offsets')
  BY <1>1 DEF ShapesInv, BufShape, HistShape, OffsetShape
<1>3. IdxShape(idx')
  BY IdxChanges DEF ShapesInv, IdxShape
<1>4. ShapesInv'
  BY <1>2, <1>3, ShapesFixed
<1>5. ASSUME NEW p, p = Place(t)
      PROVE  p.stage \notin RadixStages /\ After(p).stage \notin RadixStages
  <2>1. p.stage \in {"start", "temp", "return", "join"}
    BY <1>5 DEF Place, At
  <2>2. \A w : FirstStage(w) \in {"copy", "temp", "return"}
    BY DEF FirstStage
  <2>3. After(p).stage \in {"copy", "temp", "return", "join"}
    BY <2>1, <2>2 DEF After, At
  <2>4. QED
    BY <2>1, <2>3 DEF RadixStages
<1>6. QED
  BY <1>1, <1>4, <1>5 DEF Idles

(* A thread goes on behind a barrier of the radix partitioner. *)
LEMMA LeaveIdles ==
  ASSUME OrderInv, ShapesInv, NEW t \in Threads, StepOf(t), Sync!Leave(t), UNCHANGED <<radix, idx>>
  PROVE  ShapesInv' /\ Idles(t)
<1>1. buf' = buf /\ histograms' = histograms /\ offsets' = offsets /\ idx' = idx
  BY DEF radix
<1>2. UNCHANGED inputs
  BY DEF StepOf
<1>3. ShapesInv'
  <2>1. BufShape(buf') /\ HistShape(histograms') /\ OffsetShape(offsets') /\ IdxShape(idx')
    BY <1>1 DEF ShapesInv, BufShape, HistShape, OffsetShape, IdxShape
  <2>2. QED
    BY <1>2, <2>1, ShapesFixed
<1>4. left \in [Threads -> Nat]
  BY DEF OrderInv, WaitsInv
<1>5. left' # left
  <2>1. left' = [left EXCEPT ![t] = left[t] + 1]
    BY DEF Sync!Leave
  <2>2. left'[t] # left[t]
    BY <1>4, <2>1
  <2>3. QED
    BY <2>2
<1>6. Leaves(t)
  BY <1>5 DEF StepOf, Stays, Arrives, Sync!Arrive
<1>7. QED
  BY <1>1, <1>3, <1>6 DEF Idles

LEMMA StayIdles ==
  ASSUME NEW t, Stays(t), buf' = buf, histograms' = histograms, offsets' = offsets, idx' = idx
  PROVE  Idles(t)
BY DEF Idles

LEMMA PagewiseIdles ==
  ASSUME ShapesInv, NEW t \in Threads, PagewiseSplit(t)
  PROVE  ShapesInv' /\ Idles(t)
<1>1. /\ UNCHANGED <<inputs, radix, idx>>
      /\ pc[t] \in {"split_read", "split_take", "scan", "copy", "wait_temp", "concatenate"}
  <2>1. CASE SplitRead(t) \/ SplitTake(t) \/ SplitRetry(t)
    BY <2>1 DEF SplitRead, SplitTake, SplitRetry
  <2>2. CASE AllocateTuple(t) \/ CopyTuple(t) \/ AppendPrivately(t)
    BY <2>2 DEF AllocateTuple, CopyTuple, AppendPrivately
  <2>3. CASE EndSplit(t) \/ BeginConcatenate(t) \/ Concatenate(t)
    BY <2>3 DEF EndSplit, BeginConcatenate, Concatenate
  <2>4. QED
    BY <2>1, <2>2, <2>3 DEF PagewiseSplit
<1>2. Stage(pc[t], side[t]) \in {"temp", "return"}
  BY <1>1 DEF Stage
<1>3. QED
  BY <1>1, <1>2, Elsewhere

LEMMA JoinIdles ==
  ASSUME ShapesInv, NEW t \in Threads, Compute(t), ~ Splits(t)
  PROVE  ShapesInv' /\ Idles(t)
<1> USE DEF hands
<1>J. \A l \in JoinLabels \cup {"split"} : \A w : Stage(l, w) = "join"
  BY DEF JoinLabels, Stage
<1>E. {"split", "wait_split", "build_read", "build_take", "build", "allocate", "write", "wait_build",
       "probe_read", "probe_take", "probe", "wait_probe", "exited"} \subseteq JoinLabels \cup {"split"}
  BY DEF JoinLabels
<1>S. ASSUME pc[t] \in JoinLabels \cup {"split"}, UNCHANGED inputs, UNCHANGED radix,
             idx' = idx \/ \E e : idx' = [idx EXCEPT ![t] = e]
      PROVE  ShapesInv' /\ Idles(t)
  BY <1>S, <1>J, Elsewhere
<1>1. CASE ArriveAfterSplit(t)
  BY <1>1, <1>S, <1>E DEF ArriveAfterSplit
<1>2. CASE EnterBuild(t) \/ EnterProbe(t)
  BY <1>2, <1>S, <1>E DEF EnterBuild, EnterProbe, Enter
<1>3. ASSUME NEW w \in Sides, JoinParts(t, w) PROVE ShapesInv' /\ Idles(t)
  <2>0. Reading(w) \in JoinLabels /\ Taking(w) \in JoinLabels
    BY DEF Reading, Taking, JoinLabels
  <2>1. CASE ReadOwnPage(t, w)
    BY <2>0, <2>1, <1>S DEF ReadOwnPage
  <2>2. CASE ReadPage(t, w)
    BY <2>0, <2>2, <1>S DEF ReadPage
  <2>3. CASE TakePage(t, w)
    BY <2>0, <2>3, <1>S DEF TakePage
  <2>4. CASE RetryPage(t, w)
    BY <2>0, <2>4, <1>S DEF RetryPage
  <2>5. CASE NextPart(t, w)
    BY <2>0, <2>5, <1>S DEF NextPart
  <2>6. CASE EndParts(t, w)
    BY <2>0, <2>6, <1>S DEF EndParts
  <2>7. QED
    BY <1>3, <2>1, <2>2, <2>3, <2>4, <2>5, <2>6 DEF JoinParts
<1>5. CASE BeginSteal(t)
  BY <1>5, <1>S, <1>E DEF BeginSteal
<1>6. CASE LoadFree(t)
  BY <1>6, <1>S, <1>E DEF LoadFree
<1>7. CASE Allocate(t)
  BY <1>7, <1>S, <1>E DEF Allocate
<1>8. CASE WriteData(t)
  BY <1>8, <1>S, <1>E DEF WriteData
<1>9. CASE ProbeTuple(t)
  BY <1>9, <1>S, <1>E DEF ProbeTuple
<1>10. CASE PushResult(t)
  BY <1>10, <1>S, <1>E DEF PushResult
<1>11. QED
  BY <1>1, <1>2, <1>3, <1>5, <1>6, <1>7, <1>8, <1>9, <1>10 DEF Compute

LEMMA RadixIdlesOrWorks ==
  ASSUME OrderInv, ShapesInv, NEW t \in Threads, StepOf(t), RadixSplit(t)
  PROVE  ShapesInv' /\ (Idles(t) \/ Works(t))
<1> USE DEF hands
<1>0. UNCHANGED inputs
  BY DEF StepOf
<1>1. BufShape(buf) /\ HistShape(histograms) /\ OffsetShape(offsets) /\ IdxShape(idx)
  BY DEF ShapesInv
<1>2. /\ buf' = buf => BufShape(buf')
      /\ histograms' = histograms => HistShape(histograms')
      /\ offsets' = offsets => OffsetShape(offsets')
      /\ idx' = idx => IdxShape(idx')
  <2>1. buf' = buf => BufShape(buf')
    BY <1>1 DEF BufShape
  <2>2. histograms' = histograms => HistShape(histograms')
    BY <1>1 DEF HistShape
  <2>3. offsets' = offsets => OffsetShape(offsets')
    BY <1>1 DEF OffsetShape
  <2>4. idx' = idx => IdxShape(idx')
    BY <1>1 DEF IdxShape
  <2>5. QED
    BY <2>1, <2>2, <2>3, <2>4
<1>3. PICK w, i : w \in Sides /\ w = side[t] /\ i = block[t].pass
  BY DEF OrderInv, PlacesInv
<1>4. Stage(pc[t], w) \in RadixStages => i \in Passes(w)
  <2>1. Stage(pc[t], w) \in RadixStages => i \in Nat /\ i < conf.passes /\ Algorithm(w) = "radix"
    BY <1>3, PlacedAt DEF Placed
  <2>2. conf.passes \in Nat
    BY InputsType DEF OrderInv, PlacesInv
  <2>3. QED
    BY <2>1, <2>2 DEF Passes
<1>5. /\ DOMAIN offsets[w] = Passes(w) /\ w \in DOMAIN offsets
      /\ \A k \in Passes(w) : DOMAIN offsets[w][k] = 0 .. (Blocks(k + 1) - 1)
      /\ \A u \in Threads : DOMAIN histograms[w][u] = HashKeys(w)
  BY <1>1, <1>3, Shapes DEF OffsetShape
<1>6. CASE CopyShare(t)
  <2>1. PICK e : buf' = [buf EXCEPT ![w].old = e]
    BY <1>3, <1>6 DEF CopyShare
  <2>2. BufShape(buf')
    BY <1>1, <2>1, <1>3, BufChanges
  <2>3. histograms' = histograms /\ offsets' = offsets /\ idx' = idx
    BY <1>6 DEF CopyShare
  <2>4. QED
    BY <1>0, <1>2, <1>6, <2>2, <2>3, CopyWorks, ShapesFixed
<1>7. CASE CreateHistogram(t)
  <2>1. i \in Passes(w)
    BY <1>3, <1>4, <1>7 DEF CreateHistogram, Stage, RadixStages
  <2>2. buf' = buf /\ idx' = idx
    BY <1>7 DEF CreateHistogram
  <2>3. CASE t = LastThread
    <3>1. PICK e : /\ offsets' = [offsets EXCEPT ![w][i] = e]
                   /\ DOMAIN e = DOMAIN offsets[w][i] /\ e = [o \in DOMAIN e |-> e[o]]
      BY <1>3, <1>7, <2>3 DEF CreateHistogram
    <3>2. DOMAIN e = 0 .. (Blocks(i + 1) - 1) /\ e = [o \in DOMAIN e |-> e[o]]
      BY <1>5, <2>1, <3>1
    <3>3. OffsetShape([offsets EXCEPT ![w][i] = e])
      BY <1>1, <1>3, <2>1, <3>2, OffsetChanges
    <3>4. OffsetShape(offsets')
      BY <3>1, <3>3
    <3>5. histograms' = histograms
      BY <1>7, <2>3 DEF CreateHistogram
    <3>6. QED
      BY <1>0, <1>2, <1>7, <2>2, <3>4, <3>5, CreateWorks, ShapesFixed
  <2>4. CASE t # LastThread
    <3>1. PICK e : /\ histograms' = [histograms EXCEPT ![w][t + 1] = e]
                   /\ DOMAIN e = DOMAIN histograms[w][t + 1] /\ e = [h \in DOMAIN e |-> e[h]]
      BY <1>3, <1>7, <2>4 DEF CreateHistogram
    <3>2. t + 1 \in Threads
      BY <2>4, ThreadNumbers
    <3>3. HistShape(histograms') /\ offsets' = offsets
      BY <1>1, <1>5, <1>7, <2>4, <3>1, <3>2, <1>3, HistChanges DEF CreateHistogram
    <3>4. QED
      BY <1>0, <1>2, <1>7, <2>2, <3>3, CreateWorks, ShapesFixed
  <2>5. QED
    BY <2>3, <2>4
<1>8. CASE CombineHistogram(t)
  <2>1. i \in Passes(w)
    BY <1>3, <1>4, <1>8 DEF CombineHistogram, Stage, RadixStages
  <2>2. buf' = buf /\ idx' = idx
    BY <1>8 DEF CombineHistogram
  <2>3. PICK e : /\ offsets' = [offsets EXCEPT ![w][i] = e]
                 /\ DOMAIN e = DOMAIN offsets[w][i] /\ e = [o \in DOMAIN e |-> e[o]]
    <3>1. PICK e : e = [o \in DOMAIN offsets[w][i] |->
                          IF \E h \in Combined(t) : o = Global(t, h)
                          THEN offsets[w][i][o] + UpTo(w, LastThread, o - Global(t, 0)) ELSE offsets[w][i][o]]
      OBVIOUS
    <3>2. offsets' = [offsets EXCEPT ![w][i] = e]
      BY <1>3, <1>8, <3>1 DEF CombineHistogram
    <3>3. DOMAIN e = DOMAIN offsets[w][i] /\ e = [o \in DOMAIN e |-> e[o]]
      BY <3>1
    <3>4. QED
      BY <3>2, <3>3
  <2>4. OffsetShape(offsets')
    BY <1>1, <1>5, <2>1, <2>3, <1>3, OffsetChanges
  <2>5. PICK d : d = [u \in Threads |-> [h \in DOMAIN histograms[w][u] |->
                       IF h \in Combined(t) THEN UpTo(w, u, h) ELSE histograms[w][u][h]]]
    OBVIOUS
  <2>6. histograms' = [histograms EXCEPT ![w] = d]
    BY <1>3, <1>8, <2>5 DEF CombineHistogram
  <2>7. \A u \in Threads : d[u] = [h \in HashKeys(w) |-> d[u][h]]
    BY <1>5, <2>5
  <2>8. DOMAIN d = Threads /\ d = [u \in DOMAIN d |-> [h \in HashKeys(w) |-> d[u][h]]]
    BY <2>5, <2>7
  <2>9. HistShape(histograms')
    BY <1>1, <2>6, <2>8, <1>3, HistChanges
  <2>10. QED
    BY <1>0, <1>2, <1>8, <2>2, <2>4, <2>9, CombineWorks, ShapesFixed
<1>9. CASE SumHistogram(t)
  <2>1. i \in Passes(w)
    BY <1>3, <1>4, <1>9 DEF SumHistogram, Stage, RadixStages
  <2>2. buf' = buf /\ histograms' = histograms /\ idx' = [idx EXCEPT ![t] = 0]
    BY <1>9 DEF SumHistogram
  <2>3. CASE t # 0
    <3>1. offsets' = offsets
      BY <1>9, <2>3 DEF SumHistogram
    <3>2. IdxShape(idx')
      BY <1>1, <2>2, IdxChanges
    <3>3. QED
      BY <1>0, <1>2, <1>9, <2>2, <3>1, <3>2, SumWorks, ShapesFixed
  <2>4. CASE t = 0
    <3>1. PICK e : /\ offsets' = [offsets EXCEPT ![w][i] = e]
                   /\ DOMAIN e = DOMAIN offsets[w][i] /\ e = [o \in DOMAIN e |-> e[o]]
      <4>1. PICK e : e = [o \in DOMAIN offsets[w][i] |->
                            IF \E h \in Digits(t) : o = Global(t, h)
                            THEN BlockStart(t) + SumFunctionOnSet(offsets[w][i], Global(t, 0) .. o)
                            ELSE offsets[w][i][o]]
        OBVIOUS
      <4>2. offsets' = [offsets EXCEPT ![w][i] = e]
        BY <1>3, <1>9, <2>4, <4>1 DEF SumHistogram
      <4>3. DOMAIN e = DOMAIN offsets[w][i] /\ e = [o \in DOMAIN e |-> e[o]]
        BY <4>1
      <4>4. QED
        BY <4>2, <4>3
    <3>2. OffsetShape(offsets')
      BY <1>1, <1>5, <2>1, <3>1, <1>3, OffsetChanges
    <3>3. IdxShape(idx')
      BY <1>1, <2>2, IdxChanges
    <3>4. QED
      BY <1>0, <1>2, <1>9, <2>2, <3>2, <3>3, SumWorks, ShapesFixed
  <2>5. QED
    BY <2>3, <2>4
<1>10. CASE RadixPartition(t)
  <2>1. offsets' = offsets
    BY <1>10 DEF RadixPartition
  <2>2. PICK e : buf' = [buf EXCEPT ![w].new = e]
    BY <1>3, <1>10 DEF RadixPartition
  <2>3. PICK h, n : histograms' = [histograms EXCEPT ![w][t][h] = n]
    BY <1>3, <1>10 DEF RadixPartition
  <2>4. PICK k : idx' = [idx EXCEPT ![t] = k]
    BY <1>10 DEF RadixPartition
  <2>5. BufShape(buf') /\ HistShape(histograms') /\ IdxShape(idx')
    BY <1>1, <2>2, <2>3, <2>4, <1>3, BufChanges, HistChanges, IdxChanges
  <2>6. QED
    BY <1>0, <1>2, <1>10, <2>1, <2>5, PartitionWorks, ShapesFixed
<1>11. CASE ResetHistogram(t)
  <2>1. buf' = buf /\ offsets' = offsets /\ idx' = idx
    BY <1>11 DEF ResetHistogram
  <2>2. PICK e : /\ histograms' = [histograms EXCEPT ![w][t] = e]
                 /\ DOMAIN e = DOMAIN histograms[w][t] /\ e = [h \in DOMAIN e |-> e[h]]
    <3>1. PICK e : e = [h \in DOMAIN histograms[w][t] |-> IF h \in Digits(t) THEN 0 ELSE histograms[w][t][h]]
      OBVIOUS
    <3>2. histograms' = [histograms EXCEPT ![w][t] = e]
      BY <1>3, <1>11, <3>1 DEF ResetHistogram
    <3>3. DOMAIN e = DOMAIN histograms[w][t] /\ e = [h \in DOMAIN e |-> e[h]]
      BY <3>1
    <3>4. QED
      BY <3>2, <3>3
  <2>3. HistShape(histograms')
    BY <1>1, <1>5, <2>2, <1>3, HistChanges
  <2>4. QED
    BY <1>0, <1>2, <1>11, <2>1, <2>3, ResetWorks, ShapesFixed
<1>12. CASE SwapBuffers(t)
  <2>1. histograms' = histograms /\ offsets' = offsets /\ idx' = idx
    BY <1>12 DEF SwapBuffers
  <2>2. buf' = buf \/ buf' = [buf EXCEPT ![w] = [old |-> buf[w].new, new |-> buf[w].old]]
    BY <1>3, <1>12 DEF SwapBuffers
  <2>3. BufShape(buf')
    <3>1. BufShape([buf EXCEPT ![w] = [old |-> buf[w].new, new |-> buf[w].old]])
      BY <1>1, <1>3, BufChanges
    <3>2. QED
      BY <1>2, <2>2, <3>1
  <2>4. QED
    BY <1>0, <1>2, <1>12, <2>1, <2>3, SwapWorks, ShapesFixed
<1>13. CASE NextBlock(t) \/ NextPass(t) \/ GoOn(t)
  <2>1. Sync!Leave(t) /\ UNCHANGED <<radix, idx>>
    BY <1>13 DEF NextBlock, NextPass, GoOn
  <2>2. QED
    BY <2>1, LeaveIdles
<1>14. CASE PlaceCursors(t)
  <2>1. Stage(pc[t], side[t]) = "return" /\ UNCHANGED <<radix, idx>>
    BY <1>14 DEF PlaceCursors, Stage
  <2>2. QED
    BY <1>0, <2>1, Elsewhere
<1>15. QED
  BY <1>6, <1>7, <1>8, <1>9, <1>10, <1>11, <1>12, <1>13, <1>14 DEF RadixSplit

LEMMA SplitIdlesOrWorks ==
  ASSUME OrderInv, ShapesInv, NEW t \in Threads, StepOf(t), Splits(t)
  PROVE  ShapesInv' /\ (Idles(t) \/ Works(t))
<1>0. UNCHANGED inputs
  BY DEF StepOf
<1>1. CASE Start(t)
  <2>1. Stage(pc[t], side[t]) = "start" /\ UNCHANGED <<radix, idx>>
    BY <1>1 DEF Start, Stage
  <2>2. QED
    BY <1>0, <2>1, Elsewhere
<1>2. CASE EnterFirstSplit(t)
  <2>1. Sync!Leave(t) /\ UNCHANGED <<radix, idx>>
    BY <1>2 DEF EnterFirstSplit
  <2>2. QED
    BY <2>1, LeaveIdles
<1>3. CASE ReturnFromSplit(t)
  <2>1. Stage(pc[t], side[t]) = "return" /\ UNCHANGED radix /\ idx' = [idx EXCEPT ![t] = 0]
    BY <1>3 DEF ReturnFromSplit, Stage
  <2>2. QED
    BY <1>0, <2>1, Elsewhere
<1>4. CASE PushInput(t)
  <2>1. Stage(pc[t], side[t]) = "return" /\ UNCHANGED <<radix, idx>>
    BY <1>4 DEF PushInput, Stage
  <2>2. QED
    BY <1>0, <2>1, Elsewhere
<1>5. CASE PagewiseSplit(t)
  BY <1>5, PagewiseIdles
<1>6. CASE RadixSplit(t)
  BY <1>6, RadixIdlesOrWorks
<1>7. QED
  BY <1>1, <1>2, <1>3, <1>4, <1>5, <1>6 DEF Splits

LEMMA HistogramInvStep == HistogramInv /\ [Next]_vars => HistogramInv'
<1> SUFFICES ASSUME HistogramInv, [Next]_vars
             PROVE  HistogramInv'
  OBVIOUS
<1>1. OrderInv /\ ShapesInv
  BY DEF HistogramInv
<1>2. PlacesInv /\ \A t \in Threads : \A p : p = Place(t) => Valid(p)
  BY <1>1 DEF OrderInv
<1>3. ASSUME NEW t \in Threads, Compute(t) PROVE HistogramInv'
  <2>1. Begins(Place(t))
    BY <1>2 DEF Valid
  <2>2. StepOf(t)
    BY <1>2, <1>3, <2>1, SplitsPlaces, JoinPlaces
  <2>3. ShapesInv' /\ (Idles(t) \/ Works(t))
    BY <1>1, <1>3, <2>2, SplitIdlesOrWorks, JoinIdles
  <2>4. QED
    BY <2>2, <2>3, HistogramInvMove
<1>4. CASE UNCHANGED <<inputs, pc, side, block, barrier, radix, idx>>
  <2>1. PICK t \in Threads : TRUE
    BY PartitionersAssumption DEF Threads
  <2>2. StepOf(t)
    BY <1>2, <1>4, StepNowhere
  <2>3. /\ UNCHANGED inputs
        /\ buf' = buf /\ histograms' = histograms /\ offsets' = offsets /\ idx' = idx
    BY <1>4 DEF radix
  <2>4. ShapesInv'
    <3>1. BufShape(buf') /\ HistShape(histograms') /\ OffsetShape(offsets') /\ IdxShape(idx')
      BY <1>1, <2>3 DEF ShapesInv, BufShape, HistShape, OffsetShape, IdxShape
    <3>2. QED
      BY <2>3, <3>1, ShapesFixed
  <2>5. Stays(t)
    <3>1. arrived' = arrived /\ left' = left
      BY <1>4 DEF barrier
    <3>2. arrived \in [Threads -> Nat] /\ left \in [Threads -> Nat]
      BY <1>1 DEF OrderInv, WaitsInv
    <3>3. ~ Arrives(t) /\ ~ Leaves(t)
      <4>1. arrived' # [arrived EXCEPT ![t] = arrived[t] + 1] /\ left' # [left EXCEPT ![t] = left[t] + 1]
        BY <3>1, <3>2
      <4>2. QED
        BY <4>1 DEF Arrives, Leaves, Sync!Arrive, Sync!Leave
    <3>4. QED
      BY <2>2, <3>3 DEF StepOf
  <2>6. Idles(t)
    BY <2>3, <2>5, StayIdles
  <2>7. QED
    BY <2>2, <2>4, <2>6, HistogramInvMove
<1>5. QED
  BY <1>3, <1>4 DEF Next, CloseResults, Finished, vars, partitionVars

LEMMA HistogramInvInit == Init => HistogramInv
<1> SUFFICES ASSUME Init PROVE HistogramInv
  OBVIOUS
<1> USE DEF Init, PartitionInit, Sync!BarrierInit
<1>1. OrderInv
  BY OrderInvInit
<1>2. ShapesInv
  <2>1. BufShape(buf)
    <3>1. \A w \in Sides : buf[w] = [old |-> buf[w].old, new |-> buf[w].new]
      <4> TAKE w \in Sides
      <4>1. PICK e : buf[w] = [which \in {"old", "new"} |-> e]
        OBVIOUS
      <4>2. QED
        BY <4>1
    <3>2. buf = [w \in Sides |-> buf[w]]
      OBVIOUS
    <3>3. QED
      BY <3>1, <3>2 DEF BufShape
  <2>2. HistShape(histograms)
    BY DEF HistShape
  <2>3. OffsetShape(offsets)
    BY DEF OffsetShape
  <2>4. IdxShape(idx)
    BY DEF IdxShape
  <2>5. QED
    BY <2>1, <2>2, <2>3, <2>4 DEF ShapesInv
<1>3. ASSUME NEW w \in Sides PROVE Untouched(w, histograms, offsets)
  BY DEF Untouched
<1>4. \A t \in Threads : Place(t) = At("build", 0, 0, "start")
  BY DEF Place, Stage
<1>5. ASSUME NEW p, p = At("build", 0, 0, "start")
      PROVE  \A D : Holds(p, D, histograms, offsets, buf, idx)
  BY <1>3, <1>5 DEF Holds, At, RadixStages, Sides
<1>6. QED
  BY <1>1, <1>2, <1>4, <1>5 DEF HistogramInv


-----------------------------------------------------------------------------
(* What is left to be moved.                                               *)

LEMMA FutureIsSlots ==
  ASSUME NEW t \in Threads, NEW D, NEW b, NEW w, NEW i, NEW j, AtWork(t, D, b, w, i, j, "partition"),
         NEW p, p = Border(b, t) + idx[t]
  PROVE  /\ p \in Border(b, t) .. Border(b, t + 1)
         /\ \A h \in BlockDigits(b) :
              Destination(t, h) .. (Destination(t, h) + Remaining(t, h) - 1) = Slots(b, t, p, h)
<1>1. /\ side[t] = w /\ block[t].pass = i /\ t \notin D
      /\ PassInv(w, i, j, "partition", D, histograms[w], offsets[w], buf[w].old, idx)
      /\ b = BlockAt(w, i, j, offsets[w], buf[w].old) /\ InPass(b, w, i, j) /\ OnBlock(t, b, w)
  BY DEF AtWork, Placed
<1>2. Moving(b, D, histograms[w], offsets[w][i], idx)
  BY <1>1 DEF PassInv
<1>3. IsBlock(b)
  BY <1>1 DEF InPass
<1>4. PICK lo \in Nat, hi \in Nat : lo = b.lo /\ hi = b.hi /\ lo <= hi
  BY <1>3 DEF IsBlock
<1>5. PICK x, y, n, k : /\ x = Border(b, t) /\ y = Border(b, t + 1) /\ n = ShareOfBlock(t).items
                        /\ k = idx[t] /\ x \in lo .. hi /\ y \in lo .. hi /\ n \in Nat /\ k \in Nat
                        /\ x + n = y /\ x + k <= y /\ ShareOfBlock(t).start = x
  <2>1. Border(b, t) \in lo .. hi /\ Border(b, t + 1) \in lo .. hi
    BY <1>3, <1>4, Borders
  <2>2. /\ ShareOfBlock(t).start = Border(b, t) /\ ShareOfBlock(t).items \in Nat
        /\ Border(b, t) + ShareOfBlock(t).items = Border(b, t + 1)
    BY <1>1 DEF OnBlock
  <2>3. idx[t] \in Nat /\ Border(b, t) + idx[t] <= Border(b, t + 1)
    BY <1>1, <1>2 DEF Moving
  <2>4. QED
    BY <2>1, <2>2, <2>3
<1>6. p = x + k /\ p \in x .. y /\ p \in lo .. hi
  BY <1>4, <1>5
<1>7. ASSUME NEW h \in BlockDigits(b)
      PROVE  Destination(t, h) .. (Destination(t, h) + Remaining(t, h) - 1) = Slots(b, t, p, h)
  <2>1. PICK S : S = lo .. (hi - 1)
    OBVIOUS
  <2>2. h \in Nat /\ \A q \in S : b.digit[q] \in Nat
    BY <1>3, <1>4, <2>1 DEF BlockDigits, IsBlock
  <2>3. IsFiniteSet(S)
    <3>1. PICK c \in Int, d \in Int : c = lo /\ d = hi - 1
      OBVIOUS
    <3>2. QED
      BY <2>1, <3>1, FS_Interval
  <2>4. PICK F, B, T : /\ F = Fewer(b.digit, S, h) /\ B = Before(b, p, h)
                       /\ T = Times(b.digit, p .. (y - 1), h)
    OBVIOUS
  <2>5. F \in Nat
    BY <2>2, <2>3, <2>4, CountType
  <2>6. B \in Nat
    <3>1. \A q \in lo .. hi : Before(b, q, h) \in 0 .. (hi - lo)
      BY <1>3, <1>4, BlockCounts
    <3>2. QED
      BY <1>4, <1>6, <2>4, <3>1
  <2>7. (IF h # 0 THEN offsets[w][i][Global(t, h - 1)] ELSE BlockStart(t)) = lo + F
    <3>1. CASE h # 0
      <4>1. h - 1 \in BlockDigits(b) /\ (h - 1) + 1 = h
        BY <1>3, <2>2, <3>1 DEF BlockDigits, IsBlock
      <4>2. Global(t, h - 1) = b.base + (h - 1)
        BY <1>1, <4>1 DEF OnBlock
      <4>3. offsets[w][i][b.base + (h - 1)] = PartEnd(b, h - 1)
        BY <1>2, <4>1 DEF Moving
      <4>4. PartEnd(b, h - 1) = lo + F
        BY <1>4, <2>1, <2>4, <4>1 DEF PartEnd
      <4>5. QED
        BY <3>1, <4>2, <4>3, <4>4
    <3>2. CASE h = 0
      <4>1. Fewer(b.digit, S, 0) = 0
        BY <2>2, <2>3, FewerSplit
      <4>2. F = 0
        BY <2>4, <3>2, <4>1
      <4>3. BlockStart(t) = lo
        BY <1>1, <1>4 DEF OnBlock
      <4>4. QED
        BY <3>2, <4>2, <4>3
    <3>3. QED
      BY <3>1, <3>2
  <2>8. histograms[w][t][h] = B
    BY <1>1, <1>2, <2>4 DEF Moving
  <2>9. Destination(t, h) = lo + F + B
    BY <1>1, <2>7, <2>8 DEF Destination
  <2>10. Remaining(t, h) = T
    <3>1. PICK R : R = p .. (y - 1)
      OBVIOUS
    <3>2. (ShareOfBlock(t).start + idx[t]) .. (ShareOfBlock(t).start + ShareOfBlock(t).items - 1) = R
      BY <1>5, <1>6, <3>1
    <3>3. \A q \in R : q \in b.lo .. (b.hi - 1)
      <4>1. /\ lo \in Nat /\ hi \in Nat /\ p \in lo .. hi /\ y \in lo .. hi
        BY <1>5, <1>6
      <4>2. \A q \in p .. (y - 1) : q \in lo .. (hi - 1)
        BY <4>1
      <4>3. QED
        BY <1>4, <3>1, <4>2
    <3>4. \A q \in R : Digit(t, buf[w].old[q]) = b.digit[q]
      BY <1>1, <3>3 DEF OnBlock
    <3>5. {q \in R : Digit(t, buf[w].old[q]) = h} = {q \in R : b.digit[q] = h}
      BY <3>4
    <3>6. Remaining(t, h) = Cardinality({q \in R : Digit(t, buf[w].old[q]) = h})
      BY <1>1, <3>2 DEF Remaining
    <3>7. QED
      BY <2>4, <3>1, <3>5, <3>6 DEF Times
  <2>11. T \in Nat
    <3>1. PICK d, R : d \in Int /\ d = y - 1 /\ R = p .. d
      BY <1>5
    <3>2. IsFiniteSet(R)
      BY <1>6, <3>1, FS_Interval
    <3>3. QED
      BY <2>4, <3>1, <3>2, CountType
  <2>12. Before(b, Border(b, t + 1), h) = B + T
    <3>1. PICK c \in Int, d \in Int, e \in Int : c = lo /\ d = p /\ e = y /\ c <= d /\ d <= e
      BY <1>4, <1>5, <1>6
    <3>2. Times(b.digit, c .. (e - 1), h) = Times(b.digit, c .. (d - 1), h) + Times(b.digit, d .. (e - 1), h)
      BY <3>1, TimesSplit
    <3>3. QED
      BY <1>4, <1>5, <2>4, <3>1, <3>2 DEF Before
  <2>13. Slots(b, t, p, h) = (lo + F + B) .. (lo + F + (B + T) - 1)
    BY <1>4, <2>1, <2>4, <2>12 DEF Slots
  <2>14. (lo + F + B) .. (lo + F + B + T - 1) = (lo + F + B) .. (lo + F + (B + T) - 1)
    BY <2>5, <2>6, <2>11
  <2>15. QED
    BY <2>9, <2>10, <2>13, <2>14
<1>8. QED
  BY <1>5, <1>6, <1>7

(* A thread that partitions a block is in front, and not done with it. *)
LEMMA PartitionersWork ==
  ASSUME HistogramInv, NEW t \in Threads, pc[t] = "partition"
  PROVE  /\ \E b, w, i, j : AtWork(t, Done(t), b, w, i, j, "partition")
         /\ \A u \in Threads : pc[u] = "partition" => Place(u) = Place(t)
<1>1. OrderInv /\ WaitsInv
  BY DEF HistogramInv, OrderInv
<1>2. arrived[t] = left[t] /\ \A u \in Threads : left[u] <= left[t] /\ left[u] \in Nat
  BY <1>1 DEF WaitsInv
<1>3. InFront(t) /\ t \notin Done(t)
  BY <1>2 DEF InFront, Done
<1>4. Stage(pc[t], side[t]) = "partition" /\ "partition" \in RadixStages
  BY DEF Stage, RadixStages
<1>5. \E b, w, i, j : AtWork(t, Done(t), b, w, i, j, "partition")
  <2>1. PICK p : p = Place(t)
    OBVIOUS
  <2>2. Holds(p, Done(t), histograms, offsets, buf, idx)
    BY <1>3, <2>1 DEF HistogramInv
  <2>3. QED
    BY <1>1, <1>3, <1>4, <2>1, <2>2, WorkBegins
<1>6. ASSUME NEW u \in Threads, pc[u] = "partition" PROVE Place(u) = Place(t)
  <2>1. left[t] <= left[u]
    BY <1>1, <1>6 DEF WaitsInv
  <2>2. left[u] = left[t]
    BY <1>2, <2>1
  <2>3. QED
    BY <1>1, <2>2 DEF OrderInv
<1>7. QED
  BY <1>5, <1>6

LEMMA HistogramInvSlots == HistogramInv => SlotsApart
<1> SUFFICES ASSUME HistogramInv, NEW t \in Threads, pc[t] = "partition", NEW u \in Threads, pc[u] = "partition"
             PROVE  /\ FutureSlots(t) \subseteq BlockStart(t) .. (BlockEnd(t) - 1)
                    /\ t # u => FutureSlots(t) \cap FutureSlots(u) = {}
  BY DEF SlotsApart
<1>1. PICK b, w, i, j : AtWork(t, Done(t), b, w, i, j, "partition")
  BY PartitionersWork
<1>2. PICK c, v, k, l : AtWork(u, Done(u), c, v, k, l, "partition")
  BY PartitionersWork
<1>3. c = b /\ v = w
  <2>1. At(w, i, j, "partition") = At(v, k, l, "partition")
    BY <1>1, <1>2, PartitionersWork DEF AtWork, Placed
  <2>2. w = v /\ i = k /\ j = l
    BY <2>1 DEF At
  <2>3. QED
    BY <1>1, <1>2, <2>2 DEF AtWork
<1>4. /\ IsBlock(b) /\ Digits(t) = BlockDigits(b) /\ Digits(u) = BlockDigits(b)
      /\ BlockStart(t) = b.lo /\ BlockEnd(t) = b.hi
  BY <1>1, <1>2, <1>3 DEF AtWork, OnBlock, InPass
<1>5. PICK p, q : p = Border(b, t) + idx[t] /\ q = Border(b, u) + idx[u]
  OBVIOUS
<1>6. p \in Border(b, t) .. Border(b, t + 1) /\ q \in Border(b, u) .. Border(b, u + 1)
  BY <1>1, <1>2, <1>3, <1>5, FutureIsSlots
<1>7. /\ FutureSlots(t) = UNION {Slots(b, t, p, h) : h \in BlockDigits(b)}
      /\ FutureSlots(u) = UNION {Slots(b, u, q, h) : h \in BlockDigits(b)}
  <2>1. \A h \in BlockDigits(b) :
          /\ Destination(t, h) .. (Destination(t, h) + Remaining(t, h) - 1) = Slots(b, t, p, h)
          /\ Destination(u, h) .. (Destination(u, h) + Remaining(u, h) - 1) = Slots(b, u, q, h)
    BY <1>1, <1>2, <1>3, <1>5, FutureIsSlots
  <2>2. FutureSlots(t) = UNION {Slots(b, t, p, h) : h \in BlockDigits(b)}
    BY <1>4, <2>1 DEF FutureSlots
  <2>3. FutureSlots(u) = UNION {Slots(b, u, q, h) : h \in BlockDigits(b)}
    BY <1>4, <2>1 DEF FutureSlots
  <2>4. QED
    BY <2>2, <2>3
<1>8. \A h \in BlockDigits(b) : Slots(b, t, p, h) \subseteq b.lo .. (b.hi - 1)
  BY <1>4, <1>6, SlotsDisjoint
<1>9. ASSUME t # u, NEW h \in BlockDigits(b), NEW g \in BlockDigits(b)
      PROVE  Slots(b, t, p, h) \cap Slots(b, u, q, g) = {}
  <2>1. (h < g \/ g < h \/ h = g) /\ (t < u \/ u < t)
    <3>1. h \in Int /\ g \in Int
      BY <1>4 DEF BlockDigits, IsBlock
    <3>2. t \in Int /\ u \in Int
      BY ThreadNumbers
    <3>3. QED
      BY <1>9, <3>1, <3>2
  <2>2. CASE h < g \/ (h = g /\ t < u)
    BY <1>4, <1>6, <2>2, SlotsDisjoint
  <2>3. CASE g < h \/ (g = h /\ u < t)
    <3>1. Slots(b, u, q, g) \cap Slots(b, t, p, h) = {}
      BY <1>4, <1>6, <2>3, SlotsDisjoint
    <3>2. QED
      BY <3>1
  <2>4. QED
    BY <2>1, <2>2, <2>3
<1>10. FutureSlots(t) \subseteq BlockStart(t) .. (BlockEnd(t) - 1)
  BY <1>4, <1>7, <1>8
<1>11. t # u => FutureSlots(t) \cap FutureSlots(u) = {}
  BY <1>7, <1>9
<1>12. QED
  BY <1>10, <1>11

(* In every pass of the radix partitioner, with any number of threads, the *)
(* threads that move the tuples of a block (radixpartition() in            *)
(* partitioner.cpp) never put two of them in one place of the new array,   *)
(* nor one outside the block, though nothing but the sums of their         *)
(* histograms keeps them apart.                                            *)
THEOREM SlotsApartCorrect == Spec => []SlotsApart
<1>1. Init => HistogramInv
  BY HistogramInvInit
<1>2. HistogramInv /\ [Next]_vars => HistogramInv'
  BY HistogramInvStep
<1>3. HistogramInv => SlotsApart
  BY HistogramInvSlots
<1>4. QED
  BY <1>1, <1>2, <1>3, PTL DEF Spec

=============================================================================
