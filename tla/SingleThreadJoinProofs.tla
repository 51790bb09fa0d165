----------------------- MODULE SingleThreadJoinProofs -----------------------
(***************************************************************************)
(* The single-threaded join with its rehashes, for relations, buckets and  *)
(* numbers of columns of any size: no rehash loses a tuple, every tuple is *)
(* in the list its column hashes to, and the two buckets of a chain that   *)
(* an insertion looks at are the only ones that can have room.             *)
(***************************************************************************)
EXTENDS SingleThreadJoin, HashTableProofs, FoldTheorems, SequenceTheorems

-----------------------------------------------------------------------------
(* Sequences of sequences.  FlattenSeq is a recursive function that        *)
(* appends one sequence after the other; the proofs need how many elements *)
(* the result has and which, and how both change with one insertion.       *)

(* One round: what the first k sequences make. *)
Round(s, f, k) == IF k = 1 THEN s[k] ELSE f[k - 1] \o s[k]

Flat(s) == CHOOSE f : f = [k \in 1 .. Len(s) |-> Round(s, f, k)]

LEMMA FlattenIsFlat ==
  ASSUME NEW s, Len(s) # 0
  PROVE  FlattenSeq(s) = Flat(s)[Len(s)]
BY DEF FlattenSeq, Flat, Round

(* There is a function that appends round by round. *)
LEMMA FlatFacts ==
  ASSUME NEW S, NEW s \in Seq(Seq(S))
  PROVE  /\ Flat(s) \in [1 .. Len(s) -> Seq(S)]
         /\ 1 \in 1 .. Len(s) => Flat(s)[1] = s[1]
         /\ \A k \in 1 .. (Len(s) - 1) : Flat(s)[k + 1] = Flat(s)[k] \o s[k + 1]
<1> DEFINE D == 1 .. Len(s)
           Upto(f, m) == \A k \in D : k <= m => f[k] = Round(s, f, k)
           Bad == {m \in Nat : \A f \in [D -> Seq(S)] : ~Upto(f, m)}
<1>1. Len(s) \in Nat /\ \A k \in D : k \in Nat /\ k > 0 /\ s[k] \in Seq(S)
  BY ElementOfSeq, LenProperties
<1>2. ASSUME NEW f \in [D -> Seq(S)], NEW k \in D
      PROVE  Round(s, f, k) \in Seq(S)
  <2>1. CASE k = 1
    BY <1>1, <2>1 DEF Round
  <2>2. CASE k # 1
    <3>0. k - 1 \in D
      BY <1>1, <2>2
    <3>1. f[k - 1] \in Seq(S) /\ s[k] \in Seq(S)
      BY <1>1, <1>2, <3>0
    <3>2. f[k - 1] \o s[k] \in Seq(S)
      BY <3>1, ConcatProperties
    <3>3. QED
      BY <2>2, <3>2 DEF Round
  <2>3. QED
    BY <2>1, <2>2
<1>3. Bad = {}
  <2> SUFFICES ASSUME Bad # {}
               PROVE  FALSE
    OBVIOUS
  <2>1. PICK m \in Bad : \A k \in Bad : m <= k
    <3>1. Bad \in SUBSET Nat
      OBVIOUS
    <3> HIDE DEF Bad
    <3>2. QED
      BY <3>1, SmallestNumber
  <2>2. m \in Nat
    BY <2>1
  <2>3. CASE m = 0
    <3> DEFINE f == [k \in D |-> <<>>]
    <3>1. f \in [D -> Seq(S)]
      BY EmptySeq
    <3>2. Upto(f, m)
      BY <1>1, <2>3
    <3>3. QED
      BY <2>1, <3>1, <3>2
  <2>4. CASE m > 0
    <3>1. m - 1 \in Nat /\ m - 1 \notin Bad
      <4> HIDE DEF Bad
      <4>1. QED
        BY <2>1, <2>2, <2>4
    <3>2. PICK old \in [D -> Seq(S)] : Upto(old, m - 1)
      BY <3>1
    <3> DEFINE f == [k \in D |-> IF k = m THEN Round(s, old, k) ELSE old[k]]
    <3>3. f \in [D -> Seq(S)]
      BY <1>2
    <3>4. ASSUME NEW k \in D, k <= m
          PROVE  f[k] = Round(s, f, k)
      <4>1. k # 1 => f[k - 1] = old[k - 1]
        BY <1>1, <2>2, <3>4
      <4>2. Round(s, f, k) = Round(s, old, k)
        BY <4>1 DEF Round
      <4>3. k # m => old[k] = Round(s, old, k)
        BY <1>1, <2>2, <3>2, <3>4
      <4>4. QED
        BY <4>2, <4>3
    <3>5. Upto(f, m)
      BY <3>4
    <3>6. QED
      BY <2>1, <3>3, <3>5
  <2>5. QED
    BY <2>2, <2>3, <2>4
<1>4. PICK f \in [D -> Seq(S)] : Upto(f, Len(s))
  BY <1>1, <1>3
<1>5. f = [k \in 1 .. Len(s) |-> Round(s, f, k)]
  BY <1>1, <1>4
<1>6. Flat(s) = [k \in 1 .. Len(s) |-> Round(s, Flat(s), k)]
  BY <1>5 DEF Flat
<1>7. \A k \in D : Flat(s)[k] = Round(s, Flat(s), k)
  BY <1>6
<1>8. 1 \in D => Flat(s)[1] = s[1]
  BY <1>7 DEF Round
<1>9. ASSUME NEW k \in 1 .. (Len(s) - 1)
      PROVE  Flat(s)[k + 1] = Flat(s)[k] \o s[k + 1]
  <2>1. k + 1 \in D /\ k + 1 # 1 /\ (k + 1) - 1 = k
    BY <1>1
  <2>2. QED
    BY <1>7, <2>1 DEF Round
<1>10. ASSUME NEW k \in D
       PROVE  Flat(s)[k] \in Seq(S)
  <2> DEFINE B == {n \in D : Flat(s)[n] \notin Seq(S)}
  <2> SUFFICES ASSUME B # {}
               PROVE  FALSE
    BY <1>10
  <2>1. PICK n \in B : \A l \in B : n <= l
    <3>1. B \in SUBSET Nat
      BY <1>1
    <3> HIDE DEF B
    <3>2. QED
      BY <3>1, SmallestNumber
  <2>2. CASE n = 1
    BY <1>1, <1>8, <2>1, <2>2
  <2>3. CASE n # 1
    <3>1. n - 1 \in D /\ n - 1 \in 1 .. (Len(s) - 1) /\ (n - 1) + 1 = n /\ n \in D /\ ~(n <= n - 1)
      BY <1>1, <2>1, <2>3
    <3>2. n - 1 \notin B
      <4> HIDE DEF B
      <4>1. QED
        BY <2>1, <3>1
    <3>3. Flat(s)[n - 1] \in Seq(S) /\ s[n] \in Seq(S)
      BY <1>1, <3>1, <3>2
    <3>4. Flat(s)[n] = Flat(s)[n - 1] \o s[n]
      BY <1>9, <3>1
    <3>5. Flat(s)[n] \in Seq(S)
      BY <3>3, <3>4, ConcatProperties
    <3>6. QED
      BY <2>1, <3>5
  <2>4. QED
    BY <2>2, <2>3
<1>11. QED
  BY <1>6, <1>8, <1>9, <1>10

(* What a flattened sequence holds is what its parts hold. *)
LEMMA FlattenHolds ==
  ASSUME NEW S, NEW s \in Seq(Seq(S))
  PROVE  /\ FlattenSeq(s) \in Seq(S)
         /\ Range(FlattenSeq(s)) = UNION {Range(s[k]) : k \in 1 .. Len(s)}
<1> DEFINE D == 1 .. Len(s)
           Upto(n) == UNION {Range(s[k]) : k \in 1 .. n}
           B == {n \in D : Range(Flat(s)[n]) # Upto(n)}
<1>1. Len(s) \in Nat /\ \A k \in D : k \in Nat /\ k > 0 /\ s[k] \in Seq(S)
  BY ElementOfSeq, LenProperties
<1>2. /\ Flat(s) \in [D -> Seq(S)] /\ (1 \in D => Flat(s)[1] = s[1])
      /\ \A k \in 1 .. (Len(s) - 1) : Flat(s)[k + 1] = Flat(s)[k] \o s[k + 1]
  BY FlatFacts
<1>3. B = {}
  <2> SUFFICES ASSUME B # {}
               PROVE  FALSE
    OBVIOUS
  <2>1. PICK n \in B : \A l \in B : n <= l
    <3>1. B \in SUBSET Nat
      BY <1>1
    <3> HIDE DEF B
    <3>2. QED
      BY <3>1, SmallestNumber
  <2>2. CASE n = 1
    <3>1. Upto(1) = Range(s[1])
      OBVIOUS
    <3>2. QED
      BY <1>2, <2>1, <2>2, <3>1
  <2>3. CASE n # 1
    <3>1. n - 1 \in D /\ n - 1 \in 1 .. (Len(s) - 1) /\ (n - 1) + 1 = n /\ n \in D /\ ~(n <= n - 1)
      BY <1>1, <2>1, <2>3, SMTT(30)
    <3>2. n - 1 \notin B
      <4> HIDE DEF B
      <4>1. QED
        BY <2>1, <3>1
    <3>3. Flat(s)[n - 1] \in Seq(S) /\ s[n] \in Seq(S) /\ Flat(s)[n] = Flat(s)[n - 1] \o s[n]
      BY <1>1, <1>2, <3>1
    <3>4. Range(Flat(s)[n]) = Range(Flat(s)[n - 1]) \cup Range(s[n])
      BY <3>3, RangeConcatenation
    <3>5. Range(Flat(s)[n - 1]) = Upto(n - 1)
      BY <3>1, <3>2
    <3>6. Upto(n) = Upto(n - 1) \cup Range(s[n])
      <4>1. \A k : k \in 1 .. n <=> k \in 1 .. (n - 1) \/ k = n
        BY <1>1, <3>1, SMTT(30)
      <4>2. QED
        BY <4>1
    <3>7. QED
      BY <2>1, <3>4, <3>5, <3>6
  <2>4. QED
    BY <2>2, <2>3
<1>4. CASE Len(s) = 0
  <2>1. s = <<>> /\ FlattenSeq(s) = s
    BY <1>4, EmptySeq DEF FlattenSeq
  <2>2. Range(<<>>) = {} /\ <<>> \in Seq(S)
    BY EmptySeq DEF Range
  <2>3. D = {}
    BY <1>4
  <2>4. QED
    BY <2>1, <2>2, <2>3
<1>5. CASE Len(s) # 0
  <2>1. Len(s) \in D
    BY <1>1, <1>5
  <2>2. Range(Flat(s)[Len(s)]) = Upto(Len(s))
    BY <1>3, <2>1
  <2>3. QED
    BY <1>2, <1>5, <2>1, <2>2, FlattenIsFlat
<1>6. QED
  BY <1>4, <1>5

(* One element more in one of the sequences is one more in the result. *)
LEMMA FlattenGrows ==
  ASSUME NEW S, NEW s \in Seq(Seq(S)), NEW r \in Seq(Seq(S)), NEW g \in 1 .. Len(s),
         Len(r) = Len(s), Len(r[g]) = Len(s[g]) + 1,
         \A k \in (1 .. Len(s)) \ {g} : Len(r[k]) = Len(s[k])
  PROVE  Len(FlattenSeq(r)) = Len(FlattenSeq(s)) + 1
<1> DEFINE D == 1 .. Len(s)
           More(n) == IF n < g THEN 0 ELSE 1
           B == {n \in D : Len(Flat(r)[n]) # Len(Flat(s)[n]) + More(n)}
<1>1. /\ Len(s) \in Nat /\ \A k \in D : k \in Nat /\ k > 0
      /\ \A k \in D : s[k] \in Seq(S) /\ r[k] \in Seq(S)
      /\ \A k \in D : Len(s[k]) \in Nat
  BY ElementOfSeq, LenProperties
<1>2. /\ Flat(s) \in [D -> Seq(S)] /\ (1 \in D => Flat(s)[1] = s[1])
      /\ \A k \in 1 .. (Len(s) - 1) : Flat(s)[k + 1] = Flat(s)[k] \o s[k + 1]
  BY FlatFacts
<1>3. /\ Flat(r) \in [D -> Seq(S)] /\ (1 \in D => Flat(r)[1] = r[1])
      /\ \A k \in 1 .. (Len(s) - 1) : Flat(r)[k + 1] = Flat(r)[k] \o r[k + 1]
  BY FlatFacts
<1>4. B = {}
  <2> SUFFICES ASSUME B # {}
               PROVE  FALSE
    OBVIOUS
  <2>1. PICK n \in B : \A l \in B : n <= l
    <3>1. B \in SUBSET Nat
      BY <1>1
    <3> HIDE DEF B
    <3>2. QED
      BY <3>1, SmallestNumber
  <2>2. CASE n = 1
    BY <1>1, <1>2, <1>3, <2>1, <2>2
  <2>3. CASE n # 1
    <3>1. n - 1 \in D /\ n - 1 \in 1 .. (Len(s) - 1) /\ (n - 1) + 1 = n /\ n \in D /\ ~(n <= n - 1)
      BY <1>1, <2>1, <2>3
    <3>2. n - 1 \notin B
      <4> HIDE DEF B
      <4>1. QED
        BY <2>1, <3>1
    <3>3. /\ Flat(s)[n - 1] \in Seq(S) /\ s[n] \in Seq(S) /\ Flat(s)[n] = Flat(s)[n - 1] \o s[n]
          /\ Flat(r)[n - 1] \in Seq(S) /\ r[n] \in Seq(S) /\ Flat(r)[n] = Flat(r)[n - 1] \o r[n]
      BY <1>1, <1>2, <1>3, <3>1
    <3>4. /\ Len(Flat(s)[n]) = Len(Flat(s)[n - 1]) + Len(s[n])
          /\ Len(Flat(r)[n]) = Len(Flat(r)[n - 1]) + Len(r[n])
          /\ Len(Flat(s)[n - 1]) \in Nat /\ Len(s[n]) \in Nat
      BY <3>3, ConcatProperties, LenProperties
    <3>5. Len(Flat(r)[n - 1]) = Len(Flat(s)[n - 1]) + More(n - 1)
      BY <3>1, <3>2
    <3>6. Len(Flat(r)[n]) = Len(Flat(s)[n]) + More(n)
      <4>1. Len(r[n]) = Len(s[n]) + (IF n = g THEN 1 ELSE 0)
        <5>1. n = g => Len(r[n]) = Len(s[n]) + 1
          OBVIOUS
        <5>2. n # g => Len(r[n]) = Len(s[n])
          BY <3>1
        <5>3. \A l \in Nat : l = l + 0
          OBVIOUS
        <5>4. QED
          BY <3>4, <5>1, <5>2, <5>3, Zenon
      <4>2. More(n) = More(n - 1) + (IF n = g THEN 1 ELSE 0)
        BY <1>1, <3>1
      <4>3. More(n - 1) \in Nat /\ More(n) \in Nat
        OBVIOUS
      <4>4. PICK a, b, c, e \in Nat : /\ a = Len(Flat(s)[n - 1]) /\ b = Len(s[n])
                                      /\ c = More(n - 1) /\ e = IF n = g THEN 1 ELSE 0
        BY <3>4, <4>3
      <4> HIDE DEF More
      <4>5. /\ Len(Flat(r)[n]) = (a + c) + (b + e) /\ Len(Flat(s)[n]) = a + b
            /\ More(n) = c + e
        BY <3>4, <3>5, <4>1, <4>2, <4>4
      <4>6. (a + c) + (b + e) = (a + b) + (c + e)
        OBVIOUS
      <4>7. QED
        BY <4>5, <4>6
    <3>7. QED
      BY <2>1, <3>6
  <2>4. QED
    BY <2>2, <2>3
<1>5. Len(s) \in D /\ Len(s) # 0 /\ More(Len(s)) = 1
  BY <1>1
<1>6. Len(Flat(r)[Len(s)]) = Len(Flat(s)[Len(s)]) + 1
  BY <1>4, <1>5
<1>7. QED
  BY <1>5, <1>6, FlattenIsFlat

(* So is a sequence of one element that is put behind the first one. *)
LEMMA FlattenInserts ==
  ASSUME NEW S, NEW s \in Seq(Seq(S)), NEW r \in Seq(Seq(S)), Len(s) # 0,
         Len(r) = Len(s) + 1, Len(r[1]) = Len(s[1]), Len(r[2]) = 1,
         \A k \in 2 .. Len(s) : Len(r[k + 1]) = Len(s[k])
  PROVE  Len(FlattenSeq(r)) = Len(FlattenSeq(s)) + 1
<1> DEFINE D == 1 .. Len(s)
           B == {n \in D : Len(Flat(r)[n + 1]) # Len(Flat(s)[n]) + 1}
<1>1. /\ Len(s) \in Nat /\ \A k \in D : k \in Nat /\ k > 0
      /\ \A k \in D : s[k] \in Seq(S)
      /\ \A k \in 1 .. Len(r) : r[k] \in Seq(S)
      /\ \A k \in D : Len(s[k]) \in Nat
  BY ElementOfSeq, LenProperties
<1>2. /\ Flat(s) \in [D -> Seq(S)] /\ Flat(s)[1] = s[1]
      /\ \A k \in 1 .. (Len(s) - 1) : Flat(s)[k + 1] = Flat(s)[k] \o s[k + 1]
  <2>1. 1 \in 1 .. Len(s)
    BY <1>1
  <2>2. QED
    BY <2>1, FlatFacts
<1>3. /\ Flat(r) \in [1 .. Len(r) -> Seq(S)] /\ Flat(r)[1] = r[1]
      /\ \A k \in 1 .. Len(s) : Flat(r)[k + 1] = Flat(r)[k] \o r[k + 1]
  <2>1. 1 \in 1 .. Len(r) /\ 1 .. (Len(r) - 1) = 1 .. Len(s)
    BY <1>1
  <2>2. \A k \in 1 .. (Len(r) - 1) : Flat(r)[k + 1] = Flat(r)[k] \o r[k + 1]
    BY FlatFacts
  <2>3. QED
    BY <2>1, <2>2, FlatFacts
<1>4. B = {}
  <2> SUFFICES ASSUME B # {}
               PROVE  FALSE
    OBVIOUS
  <2>1. PICK n \in B : \A l \in B : n <= l
    <3>1. B \in SUBSET Nat
      BY <1>1
    <3> HIDE DEF B
    <3>2. QED
      BY <3>1, SmallestNumber
  <2>2. n \in D /\ n \in 1 .. Len(r) /\ n + 1 \in 1 .. Len(r)
    BY <1>1, <2>1
  <2>3. /\ Flat(r)[n] \in Seq(S) /\ r[n + 1] \in Seq(S) /\ Flat(r)[n + 1] = Flat(r)[n] \o r[n + 1]
    BY <1>1, <1>3, <2>2
  <2>4. Len(Flat(r)[n + 1]) = Len(Flat(r)[n]) + Len(r[n + 1]) /\ Len(Flat(r)[n]) \in Nat
    BY <2>3, ConcatProperties, LenProperties, SMTT(30)
  <2>5. CASE n = 1
    <3>1. n + 1 = 2
      BY <2>5
    <3>2. Len(Flat(r)[n + 1]) = Len(r[1]) + 1 /\ Len(Flat(s)[1]) = Len(s[1])
      BY <1>2, <1>3, <2>4, <2>5, <3>1
    <3>3. QED
      BY <2>1, <2>5, <3>2
  <2>6. CASE n # 1
    <3>1. /\ n - 1 \in D /\ n - 1 \in 1 .. (Len(s) - 1) /\ (n - 1) + 1 = n /\ n \in D /\ ~(n <= n - 1)
          /\ n \in 2 .. Len(s)
      BY <1>1, <2>1, <2>6
    <3>2. n - 1 \notin B
      <4> HIDE DEF B
      <4>1. QED
        BY <2>1, <3>1
    <3>3. /\ Flat(s)[n - 1] \in Seq(S) /\ s[n] \in Seq(S) /\ Flat(s)[n] = Flat(s)[n - 1] \o s[n]
      BY <1>1, <1>2, <3>1
    <3>4. /\ Len(Flat(s)[n]) = Len(Flat(s)[n - 1]) + Len(s[n])
          /\ Len(Flat(s)[n - 1]) \in Nat /\ Len(s[n]) \in Nat
      <4>1. Len(Flat(s)[n - 1] \o s[n]) = Len(Flat(s)[n - 1]) + Len(s[n])
        BY <3>3, ConcatProperties
      <4>2. QED
        BY <3>3, <4>1, LenProperties
    <3>5. Len(Flat(r)[n]) = Len(Flat(s)[n - 1]) + 1
      BY <3>1, <3>2
    <3>6. Len(Flat(r)[n + 1]) = Len(Flat(s)[n]) + 1
      <4>1. Len(r[n + 1]) = Len(s[n])
        BY <3>1
      <4>2. PICK a, b \in Nat : a = Len(Flat(s)[n - 1]) /\ b = Len(s[n])
        BY <3>4
      <4>3. Len(Flat(r)[n + 1]) = (a + 1) + b /\ Len(Flat(s)[n]) = a + b
        BY <2>4, <3>4, <3>5, <4>1, <4>2
      <4>4. (a + 1) + b = (a + b) + 1
        OBVIOUS
      <4>5. QED
        BY <4>3, <4>4
    <3>7. QED
      BY <2>1, <3>6
  <2>7. QED
    BY <2>5, <2>6
<1>5. Len(s) \in D
  BY <1>1
<1>6. Len(Flat(r)[Len(s) + 1]) = Len(Flat(s)[Len(s)]) + 1
  BY <1>4, <1>5
<1>7. Len(r) # 0
  BY <1>1
<1>8. QED
  BY <1>6, <1>7, FlattenIsFlat

(* Nothing but empty sequences makes an empty sequence. *)
LEMMA FlattenEmpty ==
  ASSUME NEW S, NEW s \in Seq(Seq(S)), \A k \in 1 .. Len(s) : s[k] = <<>>
  PROVE  FlattenSeq(s) = <<>>
<1>1. FlattenSeq(s) \in Seq(S) /\ Range(FlattenSeq(s)) = UNION {Range(s[k]) : k \in 1 .. Len(s)}
  BY FlattenHolds
<1>2. Range(<<>>) = {}
  BY DEF Range
<1>3. Range(FlattenSeq(s)) = {}
  BY <1>1, <1>2
<1>4. Len(FlattenSeq(s)) = 0
  <2>1. Len(FlattenSeq(s)) \in Nat /\ Range(FlattenSeq(s)) = {FlattenSeq(s)[k] : k \in 1 .. Len(FlattenSeq(s))}
    BY <1>1, LenProperties, RangeEquality
  <2>2. 1 \notin 1 .. Len(FlattenSeq(s))
    BY <1>3, <2>1
  <2>3. QED
    BY <2>1, <2>2
<1>5. QED
  BY <1>1, <1>4, EmptySeq

-----------------------------------------------------------------------------
(* Chains, and the insertion of a tuple.                                   *)

Entries == [id : Tuples, key : Values]

(* A chain has a bucket, and none of its buckets counts more tuples than   *)
(* it has slots.                                                           *)
Chains ==
  {c \in Seq(Seq(Entries)) : Len(c) > 0 /\ \A k \in 1 .. Len(c) : Len(c[k]) <= BucketSize}

(* Only the bucket of the table and the first overflow bucket have room,   *)
(* the former only if there is no overflow bucket.                         *)
Shaped(c) ==
  /\ Len(c) > 1 => Full(c[1])
  /\ \A k \in 2 .. Len(c) : c[k] # <<>>
  /\ \A k \in 3 .. Len(c) : Full(c[k])

(* What insertion of x into chain c has to yield. *)
Inserted(c, x, r) ==
  /\ r \in Chains
  /\ Len(FlattenSeq(r)) = Len(FlattenSeq(c)) + 1
  /\ Range(FlattenSeq(r)) = Range(FlattenSeq(c)) \cup {x}

LEMMA ChainTypes ==
  ASSUME NEW c \in Chains
  PROVE  /\ c \in Seq(Seq(Entries)) /\ Len(c) \in Nat /\ Len(c) > 0
         /\ \A k \in 1 .. Len(c) : c[k] \in Seq(Entries) /\ Len(c[k]) \in 0 .. BucketSize
<1>1. c \in Seq(Seq(Entries)) /\ Len(c) > 0 /\ \A k \in 1 .. Len(c) : Len(c[k]) <= BucketSize
  BY DEF Chains
<1>2. Len(c) \in Nat /\ \A k \in 1 .. Len(c) : c[k] \in Seq(Entries)
  BY <1>1, ElementOfSeq, LenProperties
<1>3. \A k \in 1 .. Len(c) : Len(c[k]) \in Nat
  BY <1>2, LenProperties
<1>4. BucketSize \in Nat
  BY HashTableAssumption
<1>5. QED
  BY <1>1, <1>2, <1>3, <1>4

(* A bucket with room takes the tuple. *)
LEMMA AppendInserts ==
  ASSUME NEW c \in Chains, NEW x \in Entries, NEW g \in 1 .. Len(c), ~Full(c[g])
  PROVE  Inserted(c, x, [c EXCEPT ![g] = Append(c[g], x)])
<1> DEFINE q == Append(c[g], x)
           r == [c EXCEPT ![g] = q]
<1>1. /\ c \in Seq(Seq(Entries)) /\ Len(c) \in Nat /\ Len(c) > 0
      /\ \A k \in 1 .. Len(c) : c[k] \in Seq(Entries) /\ Len(c[k]) \in 0 .. BucketSize
  BY ChainTypes
<1>2. /\ q \in Seq(Entries) /\ Len(q) = Len(c[g]) + 1 /\ Range(q) = Range(c[g]) \cup {x}
  <2>1. c[g] \in Seq(Entries) /\ <<x>> \in Seq(Entries) /\ Range(<<x>>) = {x}
    BY <1>1 DEF Range
  <2>2. q = c[g] \o <<x>> /\ q \in Seq(Entries) /\ Len(q) = Len(c[g]) + 1
    BY <2>1, AppendIsConcat, AppendProperties
  <2>3. Range(c[g] \o <<x>>) = Range(c[g]) \cup Range(<<x>>)
    BY <2>1, RangeConcatenation, ZenonT(60)
  <2>4. QED
    BY <2>1, <2>2, <2>3
<1>3. Len(q) <= BucketSize
  <2>1. Len(c[g]) \in 0 .. BucketSize /\ Len(c[g]) # BucketSize /\ BucketSize \in Nat
    BY <1>1, HashTableAssumption DEF Full
  <2>2. QED
    BY <1>2, <2>1
<1> HIDE DEF q
<1>4. /\ r \in Seq(Seq(Entries)) /\ Len(r) = Len(c)
      /\ r[g] = q /\ \A k \in (1 .. Len(c)) \ {g} : r[k] = c[k]
  BY <1>1, <1>2, ExceptSeq
<1> HIDE DEF r
<1>5. r \in Chains
  <2>1. ASSUME NEW k \in 1 .. Len(r)
        PROVE  Len(r[k]) <= BucketSize
    <3>1. CASE k = g
      BY <1>3, <1>4, <3>1
    <3>2. CASE k # g
      <4>1. k \in 1 .. Len(c) /\ r[k] = c[k]
        BY <1>4, <3>2
      <4>2. Len(c[k]) \in 0 .. BucketSize /\ BucketSize \in Nat
        BY <1>1, <4>1, HashTableAssumption
      <4>3. QED
        BY <4>1, <4>2
    <3>3. QED
      BY <3>1, <3>2
  <2>2. QED
    BY <1>1, <1>4, <2>1 DEF Chains
<1>6. Len(FlattenSeq(r)) = Len(FlattenSeq(c)) + 1
  BY <1>1, <1>2, <1>4, FlattenGrows
<1>7. Range(FlattenSeq(r)) = Range(FlattenSeq(c)) \cup {x}
  <2>1. /\ Range(FlattenSeq(c)) = UNION {Range(c[k]) : k \in 1 .. Len(c)}
        /\ Range(FlattenSeq(r)) = UNION {Range(r[k]) : k \in 1 .. Len(c)}
    BY <1>1, <1>4, FlattenHolds
  <2>2. \A k \in 1 .. Len(c) : Range(r[k]) = IF k = g THEN Range(c[k]) \cup {x} ELSE Range(c[k])
    BY <1>2, <1>4
  <2> DEFINE D == 1 .. Len(c)
  <2>3. g \in D
    OBVIOUS
  <2> HIDE DEF D
  <2>4. \A e : (\E k \in D : e \in Range(r[k])) <=> (\E k \in D : e \in Range(c[k])) \/ e = x
    BY <2>2, <2>3 DEF D
  <2>5. /\ \A e : e \in Range(FlattenSeq(r)) <=> \E k \in D : e \in Range(r[k])
        /\ \A e : e \in Range(FlattenSeq(c)) <=> \E k \in D : e \in Range(c[k])
    BY <2>1 DEF D
  <2>6. QED
    BY <2>4, <2>5
<1>8. QED
  BY <1>5, <1>6, <1>7 DEF Inserted, r, q

(* A new first overflow bucket takes it. *)
LEMMA NewBucketInserts ==
  ASSUME NEW c \in Chains, NEW x \in Entries, NEW r, r = <<c[1], <<x>> >> \o Tail(c)
  PROVE  /\ Inserted(c, x, r)
         /\ Len(r) = Len(c) + 1 /\ r[1] = c[1] /\ r[2] = <<x>>
         /\ \A k \in 3 .. Len(r) : r[k] = c[k - 1]
<1>1. /\ c \in Seq(Seq(Entries)) /\ Len(c) \in Nat /\ Len(c) > 0 /\ c # <<>>
      /\ \A k \in 1 .. Len(c) : c[k] \in Seq(Entries) /\ Len(c[k]) \in 0 .. BucketSize
  BY ChainTypes, EmptySeq
<1>2. <<x>> \in Seq(Entries) /\ Range(<<x>>) = {x} /\ Len(<<x>>) = 1
  BY DEF Range
<1>3. c[1] \in Seq(Entries)
  BY <1>1
<1>4. PICK h \in Seq(Seq(Entries)) : /\ h = <<c[1], <<x>> >> /\ Len(h) = 2
                                     /\ h[1] = c[1] /\ h[2] = <<x>>
  <2> DEFINE d == c[1]
             e == <<x>>
  <2>1. d \in Seq(Entries) /\ e \in Seq(Entries)
    BY <1>2, <1>3
  <2> HIDE DEF d, e
  <2>2. <<d, e>> \in Seq(Seq(Entries)) /\ Len(<<d, e>>) = 2 /\ <<d, e>>[1] = d /\ <<d, e>>[2] = e
    BY <2>1
  <2>3. QED
    BY <2>2 DEF d, e
<1>5. PICK q \in Seq(Seq(Entries)) : /\ q = Tail(c) /\ Len(q) = Len(c) - 1
                                     /\ \A k \in 1 .. Len(q) : q[k] = c[k + 1]
  BY <1>1, HeadTailProperties
<1>6. /\ r \in Seq(Seq(Entries)) /\ Len(r) = 2 + Len(q)
      /\ \A k \in 1 .. (2 + Len(q)) : r[k] = IF k <= 2 THEN h[k] ELSE q[k - 2]
  BY <1>4, <1>5, ConcatProperties
<1>7. Len(r) = Len(c) + 1 /\ r[1] = c[1] /\ r[2] = <<x>>
  BY <1>1, <1>4, <1>5, <1>6
<1>8. \A k \in 3 .. Len(r) : r[k] = c[k - 1]
  <2>1. ASSUME NEW k \in 3 .. Len(r)
        PROVE  r[k] = c[k - 1]
    <3>1. k \in 1 .. (2 + Len(q)) /\ ~(k <= 2) /\ k - 2 \in 1 .. Len(q) /\ (k - 2) + 1 = k - 1
      BY <1>1, <1>5, <1>7
    <3>2. r[k] = q[k - 2]
      BY <1>6, <3>1
    <3>3. QED
      BY <1>5, <3>1, <3>2
  <2>2. QED
    BY <2>1
<1>9. BucketSize \in Nat \ {0}
  BY HashTableAssumption
<1>10. r \in Chains
  <2>1. ASSUME NEW k \in 1 .. Len(r)
        PROVE  Len(r[k]) <= BucketSize
    <3>1. CASE k = 1
      BY <1>1, <1>7, <1>9, <3>1
    <3>2. CASE k = 2
      BY <1>2, <1>7, <1>9, <3>2
    <3>3. CASE k # 1 /\ k # 2
      <4>1. k \in 3 .. Len(r) /\ k - 1 \in 1 .. Len(c)
        BY <1>1, <1>7, <3>3
      <4>2. QED
        BY <1>1, <1>8, <1>9, <4>1
    <3>4. QED
      BY <3>1, <3>2, <3>3
  <2>2. Len(r) > 0
    BY <1>1, <1>7
  <2>3. QED
    BY <1>6, <2>1, <2>2 DEF Chains
<1>11. Len(FlattenSeq(r)) = Len(FlattenSeq(c)) + 1
  <2>1. \A k \in 2 .. Len(c) : r[k + 1] = c[k]
    BY <1>1, <1>7, <1>8
  <2>2. Len(c) # 0 /\ Len(r[1]) = Len(c[1]) /\ Len(r[2]) = 1
        /\ \A k \in 2 .. Len(c) : Len(r[k + 1]) = Len(c[k])
    BY <1>1, <1>2, <1>7, <2>1
  <2>3. QED
    BY <1>1, <1>6, <1>7, <2>2, FlattenInserts
<1>12. Range(FlattenSeq(r)) = Range(FlattenSeq(c)) \cup {x}
  <2>1. /\ Range(FlattenSeq(c)) = UNION {Range(c[k]) : k \in 1 .. Len(c)}
        /\ Range(FlattenSeq(r)) = UNION {Range(r[k]) : k \in 1 .. Len(r)}
    BY <1>1, <1>6, FlattenHolds
  <2>2. ASSUME NEW k \in 1 .. Len(c)
        PROVE  \E l \in 1 .. Len(r) : r[l] = c[k]
    <3>1. CASE k = 1
      BY <1>1, <1>7, <3>1
    <3>2. CASE k # 1
      <4>1. k + 1 \in 3 .. Len(r) /\ k + 1 \in 1 .. Len(r) /\ (k + 1) - 1 = k
        BY <1>1, <1>7, <3>2
      <4>2. r[k + 1] = c[k]
        BY <1>8, <4>1
      <4>3. QED
        BY <4>1, <4>2
    <3>3. QED
      BY <3>1, <3>2
  <2>3. ASSUME NEW l \in 1 .. Len(r)
        PROVE  r[l] = <<x>> \/ \E k \in 1 .. Len(c) : r[l] = c[k]
    <3>1. CASE l = 1
      BY <1>1, <1>7, <3>1
    <3>2. CASE l = 2
      BY <1>7, <3>2
    <3>3. CASE l # 1 /\ l # 2
      <4>1. l \in 3 .. Len(r) /\ l - 1 \in 1 .. Len(c)
        BY <1>1, <1>7, <3>3
      <4>2. QED
        BY <1>8, <4>1
    <3>4. QED
      BY <3>1, <3>2, <3>3
  <2>4. 2 \in 1 .. Len(r)
    BY <1>1, <1>7
  <2>5. ASSUME NEW y \in Range(FlattenSeq(r))
        PROVE  y \in Range(FlattenSeq(c)) \cup {x}
    <3>1. PICK l \in 1 .. Len(r) : y \in Range(r[l])
      BY <2>1, <2>5
    <3>2. QED
      BY <1>2, <2>1, <2>3, <3>1
  <2>6. ASSUME NEW y \in Range(FlattenSeq(c)) \cup {x}
        PROVE  y \in Range(FlattenSeq(r))
    <3>1. CASE y = x
      <4>1. y \in Range(r[2])
        BY <1>2, <1>7, <3>1
      <4>2. QED
        BY <2>1, <2>4, <4>1
    <3>2. CASE y \in Range(FlattenSeq(c))
      <4>1. PICK k \in 1 .. Len(c) : y \in Range(c[k])
        BY <2>1, <3>2
      <4>2. QED
        BY <2>1, <2>2, <4>1
    <3>3. QED
      BY <2>6, <3>1, <3>2
  <2>7. QED
    BY <2>5, <2>6
<1>13. QED
  BY <1>7, <1>8, <1>10, <1>11, <1>12 DEF Inserted

(* The insertion puts the tuple in, and keeps the shape of the chain. *)
LEMMA PlaceInserts ==
  ASSUME NEW c \in Chains, NEW x \in Entries
  PROVE  Inserted(c, x, Place(c, x)) /\ (Shaped(c) => Shaped(Place(c, x)))
<1>1. /\ c \in Seq(Seq(Entries)) /\ Len(c) \in Nat /\ Len(c) > 0
      /\ \A k \in 1 .. Len(c) : c[k] \in Seq(Entries) /\ Len(c[k]) \in 0 .. BucketSize
  BY ChainTypes
<1>2. ASSUME NEW g \in 1 .. Len(c), ~Full(c[g]), g = 1 \/ g = 2, g = 2 => Full(c[1]),
             Place(c, x) = [c EXCEPT ![g] = Append(c[g], x)]
      PROVE  Inserted(c, x, Place(c, x)) /\ (Shaped(c) => Shaped(Place(c, x)))
  <2> DEFINE r == [c EXCEPT ![g] = Append(c[g], x)]
  <2>1. Inserted(c, x, r)
    BY <1>2, AppendInserts
  <2>2. Append(c[g], x) \in Seq(Entries) /\ Append(c[g], x) # <<>>
    <3>1. c[g] \in Seq(Entries)
      BY <1>1
    <3>2. QED
      BY <3>1, AppendProperties
  <2>3. /\ Len(r) = Len(c) /\ r[g] # <<>> /\ \A k \in (1 .. Len(c)) \ {g} : r[k] = c[k]
    BY <1>1, <2>2, ExceptSeq
  <2> HIDE DEF r
  <2>4. ASSUME Shaped(c)
        PROVE  Shaped(r)
    <3>1. Len(c) > 1 => g = 2
      BY <1>2, <2>4 DEF Shaped
    <3>2. \A k \in 2 .. Len(c) : r[k] # <<>>
      BY <1>1, <2>3, <2>4 DEF Shaped
    <3>3. \A k \in 3 .. Len(c) : Full(r[k])
      BY <1>1, <1>2, <2>3, <2>4 DEF Shaped
    <3>4. Len(c) > 1 => Full(r[1])
      BY <1>1, <1>2, <2>3, <3>1
    <3>5. QED
      BY <2>3, <3>2, <3>3, <3>4 DEF Shaped
  <2>5. QED
    BY <1>2, <2>1, <2>4 DEF r
<1>3. CASE ~Full(c[1])
  <2>1. 1 \in 1 .. Len(c)
    BY <1>1
  <2>2. Place(c, x) = [c EXCEPT ![1] = Append(c[1], x)]
    BY <1>3 DEF Place
  <2>3. 1 # 2
    OBVIOUS
  <2>4. QED
    BY <1>2, <1>3, <2>1, <2>2, <2>3, Zenon
<1>4. CASE Full(c[1]) /\ Overflowing(c)
  <2> DEFINE r == Place(c, x)
  <2>1. r = <<c[1], <<x>> >> \o Tail(c)
    BY <1>4 DEF Place
  <2> HIDE DEF r
  <2>2. /\ Inserted(c, x, r)
        /\ Len(r) = Len(c) + 1 /\ r[1] = c[1] /\ r[2] = <<x>>
        /\ \A k \in 3 .. Len(r) : r[k] = c[k - 1]
    BY <2>1, NewBucketInserts, ZenonT(60)
  <2>3. ASSUME Shaped(c), NEW k \in 3 .. Len(r)
        PROVE  r[k] # <<>> /\ Full(r[k])
    <3>1. k - 1 \in 2 .. Len(c) /\ (k - 1 = 2 \/ k - 1 \in 3 .. Len(c)) /\ Len(c) # 1
      BY <1>1, <2>2
    <3>2. c[k - 1] # <<>>
      BY <2>3, <3>1 DEF Shaped
    <3>3. Full(c[k - 1])
      BY <1>4, <2>3, <3>1 DEF Shaped, Overflowing
    <3>4. QED
      BY <2>2, <3>2, <3>3
  <2>4. ASSUME Shaped(c)
        PROVE  Shaped(r)
    <3>1. \A k \in 2 .. Len(r) : k = 2 \/ k \in 3 .. Len(r)
      BY <1>1, <2>2
    <3>2. <<x>> # <<>>
      OBVIOUS
    <3>3. \A k \in 2 .. Len(r) : r[k] # <<>>
      BY <2>2, <2>3, <2>4, <3>1, <3>2
    <3>4. QED
      BY <1>4, <2>2, <2>3, <2>4, <3>3 DEF Shaped
  <2>5. QED
    BY <2>2, <2>4 DEF r
<1>5. CASE Full(c[1]) /\ ~Overflowing(c)
  <2>1. ~Full(c[2]) /\ Len(c) # 1
    BY <1>5 DEF Overflowing
  <2>2. 2 \in 1 .. Len(c)
    <3>1. Len(c) \in Nat /\ Len(c) > 0
      BY <1>1
    <3>2. Len(c) # 1
      BY <2>1
    <3>3. PICK n \in Nat : n = Len(c)
      BY <3>1
    <3>4. n > 1
      BY <3>1, <3>2, <3>3
    <3>5. 2 \in 1 .. n
      BY <3>4
    <3>6. QED
      BY <3>3, <3>5
  <2>3. Place(c, x) = [c EXCEPT ![2] = Append(c[2], x)]
    BY <1>5 DEF Place
  <2>4. ~Full(c[2]) /\ Full(c[1]) /\ (2 = 1 \/ 2 = 2)
    BY <1>5, <2>1
  <2>5. QED
    BY <1>2, <2>2, <2>3, <2>4, Zenon
<1>6. QED
  BY <1>3, <1>4, <1>5

-----------------------------------------------------------------------------
(* Tables.                                                                 *)

Tables == [Lists -> Chains]

(* The table with another chain for list h. *)
With(table, h, chain) == [table EXCEPT ![h] = chain]

ListsOf(table) == [h \in 1 .. NumBuckets |-> FlattenSeq(table[h - 1])]

LEMMA ListNumbers ==
  /\ NumBuckets \in Nat \ {0} /\ \A h \in Lists : h \in Nat /\ h + 1 \in 1 .. NumBuckets
  /\ \A n \in 1 .. NumBuckets : n \in Nat /\ n - 1 \in Lists
<1>1. NumBuckets \in Nat \ {0}
  BY NumBucketsType
<1>2. QED
  BY <1>1 DEF Lists

LEMMA ContentsHolds ==
  ASSUME NEW table \in Tables
  PROVE  /\ ListsOf(table) \in Seq(Seq(Entries)) /\ Len(ListsOf(table)) = NumBuckets
         /\ Contents(table) = FlattenSeq(ListsOf(table)) /\ Contents(table) \in Seq(Entries)
         /\ Range(Contents(table)) = UNION {Range(FlattenSeq(table[h])) : h \in Lists}
<1>1. ASSUME NEW h \in Lists
      PROVE  FlattenSeq(table[h]) \in Seq(Entries)
  BY <1>1, ChainTypes, FlattenHolds DEF Tables
<1>2. \A n \in 1 .. NumBuckets : FlattenSeq(table[n - 1]) \in Seq(Entries)
  BY <1>1, ListNumbers
<1>3. NumBuckets \in Nat
  BY ListNumbers
<1>4. ListsOf(table) \in Seq(Seq(Entries)) /\ Len(ListsOf(table)) = NumBuckets
  <2>1. ListsOf(table) \in [1 .. NumBuckets -> Seq(Entries)]
    BY <1>2 DEF ListsOf
  <2>2. QED
    BY <1>3, <2>1
<1>5. Contents(table) = FlattenSeq(ListsOf(table))
  BY DEF Contents, ListsOf
<1>6. /\ Contents(table) \in Seq(Entries)
      /\ Range(Contents(table)) = UNION {Range(ListsOf(table)[n]) : n \in 1 .. NumBuckets}
  BY <1>4, <1>5, FlattenHolds
<1>7. \A n \in 1 .. NumBuckets : ListsOf(table)[n] = FlattenSeq(table[n - 1])
  BY DEF ListsOf
<1>8. \A h \in Lists : ListsOf(table)[h + 1] = FlattenSeq(table[h])
  <2>1. ASSUME NEW h \in Lists
        PROVE  ListsOf(table)[h + 1] = FlattenSeq(table[h])
    <3>1. h + 1 \in 1 .. NumBuckets /\ (h + 1) - 1 = h
      BY ListNumbers
    <3>2. QED
      BY <1>7, <3>1
  <2>2. QED
    BY <2>1
<1>9. UNION {Range(ListsOf(table)[n]) : n \in 1 .. NumBuckets}
        = UNION {Range(FlattenSeq(table[h])) : h \in Lists}
  BY <1>7, <1>8, ListNumbers
<1>10. QED
  BY <1>4, <1>5, <1>6, <1>9

LEMMA ContentsInserts ==
  ASSUME NEW table \in Tables, NEW h \in Lists, NEW x \in Entries, NEW r, NEW new,
         Inserted(table[h], x, r), new = With(table, h, r)
  PROVE  /\ new \in Tables
         /\ Len(Contents(new)) = Len(Contents(table)) + 1
         /\ Range(Contents(new)) = Range(Contents(table)) \cup {x}
<1>1. /\ new \in Tables /\ new[h] = r
      /\ \A j \in Lists \ {h} : new[j] = table[j]
  BY DEF Tables, Inserted, With
<1>2. /\ Len(FlattenSeq(new[h])) = Len(FlattenSeq(table[h])) + 1
      /\ Range(FlattenSeq(new[h])) = Range(FlattenSeq(table[h])) \cup {x}
  BY <1>1 DEF Inserted
<1>3. Range(Contents(new)) = Range(Contents(table)) \cup {x}
  <2>1. /\ Range(Contents(table)) = UNION {Range(FlattenSeq(table[j])) : j \in Lists}
        /\ Range(Contents(new)) = UNION {Range(FlattenSeq(new[j])) : j \in Lists}
    BY <1>1, ContentsHolds
  <2> DEFINE Had(j) == Range(FlattenSeq(table[j]))
             Has(j) == Range(FlattenSeq(new[j]))
  <2>2. Has(h) = Had(h) \cup {x}
    BY <1>2
  <2>3. \A j \in Lists \ {h} : Has(j) = Had(j)
    BY <1>1
  <2> HIDE DEF Had, Has
  <2>4. \A y : (\E j \in Lists : y \in Has(j)) <=> (\E j \in Lists : y \in Had(j)) \/ y = x
    BY <2>2, <2>3
  <2>5. /\ \A y : y \in Range(Contents(table)) <=> \E j \in Lists : y \in Had(j)
        /\ \A y : y \in Range(Contents(new)) <=> \E j \in Lists : y \in Has(j)
    BY <2>1 DEF Had, Has
  <2>6. QED
    BY <2>4, <2>5
<1>4. Len(Contents(new)) = Len(Contents(table)) + 1
  <2> DEFINE s == ListsOf(table)
             q == ListsOf(new)
  <2>1. /\ s \in Seq(Seq(Entries)) /\ q \in Seq(Seq(Entries))
        /\ Len(s) = NumBuckets /\ Len(q) = NumBuckets
        /\ Contents(table) = FlattenSeq(s) /\ Contents(new) = FlattenSeq(q)
    BY <1>1, ContentsHolds
  <2>2. h + 1 \in 1 .. NumBuckets /\ (h + 1) - 1 = h
    BY ListNumbers
  <2>3. Len(q[h + 1]) = Len(s[h + 1]) + 1
    BY <1>2, <2>2 DEF ListsOf
  <2>4. ASSUME NEW n \in (1 .. NumBuckets) \ {h + 1}
        PROVE  q[n] = s[n]
    <3>1. n - 1 \in Lists \ {h}
      BY ListNumbers
    <3>2. QED
      BY <1>1, <3>1 DEF ListsOf
  <2> HIDE DEF s, q
  <2>5. h + 1 \in 1 .. Len(s) /\ \A n \in (1 .. Len(s)) \ {h + 1} : Len(q[n]) = Len(s[n])
    BY <2>1, <2>2, <2>4
  <2>6. PICK g \in 1 .. Len(s) : g = h + 1
    BY <2>5
  <2>7. Len(FlattenSeq(q)) = Len(FlattenSeq(s)) + 1
    BY <2>1, <2>3, <2>5, <2>6, FlattenGrows
  <2>8. QED
    BY <2>1, <2>7
<1>5. QED
  BY <1>1, <1>3, <1>4

LEMMA EmptyTableFacts ==
  /\ EmptyTable \in Tables /\ Contents(EmptyTable) = <<>>
  /\ \A h \in Lists : Shaped(EmptyTable[h]) /\ FlattenSeq(EmptyTable[h]) = <<>>
<1>1. /\ EmptyChain \in Seq(Seq(Entries)) /\ Len(EmptyChain) = 1 /\ EmptyChain[1] = <<>>
  <2>1. <<>> \in Seq(Entries)
    BY EmptySeq
  <2> DEFINE e == <<>>
  <2> HIDE DEF e
  <2>2. ASSUME e \in Seq(Entries)
        PROVE  <<e>> \in Seq(Seq(Entries)) /\ Len(<<e>>) = 1 /\ <<e>>[1] = e
    BY <2>2
  <2>3. QED
    BY <2>1, <2>2 DEF EmptyChain, e
<1>2. Len(<<>>) = 0 /\ BucketSize \in Nat
  BY EmptySeq, HashTableAssumption
<1>3. EmptyChain \in Chains /\ Shaped(EmptyChain)
  <2>1. \A k \in 1 .. Len(EmptyChain) : EmptyChain[k] = <<>>
    BY <1>1
  <2>2. EmptyChain \in Chains
    <3>1. \A k \in 1 .. Len(EmptyChain) : Len(EmptyChain[k]) <= BucketSize
      BY <1>2, <2>1
    <3>2. Len(EmptyChain) > 0
      BY <1>1
    <3>3. QED
      BY <1>1, <3>1, <3>2 DEF Chains
  <2>3. QED
    BY <1>1, <2>2 DEF Shaped
<1>4. FlattenSeq(EmptyChain) = <<>>
  BY <1>1, FlattenEmpty
<1>5. EmptyTable \in Tables /\ \A h \in Lists : EmptyTable[h] = EmptyChain
  BY <1>3 DEF EmptyTable, Tables
<1>6. Contents(EmptyTable) = <<>>
  <2>1. ListsOf(EmptyTable) \in Seq(Seq(Entries)) /\ Len(ListsOf(EmptyTable)) = NumBuckets
        /\ Contents(EmptyTable) = FlattenSeq(ListsOf(EmptyTable))
    BY <1>5, ContentsHolds
  <2>2. \A n \in 1 .. NumBuckets : ListsOf(EmptyTable)[n] = <<>>
    BY <1>4, <1>5, ListNumbers DEF ListsOf
  <2>3. QED
    BY <2>1, <2>2, FlattenEmpty
<1>7. QED
  BY <1>3, <1>4, <1>5, <1>6

-----------------------------------------------------------------------------
(* The inductive invariant.                                                *)

(* The loop of NPO_st() counts the column up in steps of 16, from 1.       *)
TypeInv ==
  /\ payload \in [Tuples -> [Columns -> Values]]
  /\ phase \in {"build", "loop", "rehash", "returned"}
  /\ i \in 0 .. NumR
  /\ column \in Nat
  /\ IF phase = "build" THEN column = 0 ELSE column % 16 = 1
  /\ phase = "rehash" => column <= LastColumn
  /\ ht \in Tables /\ newHt \in Tables
  /\ walk \in Seq(Entries)

TablesShaped == \A h \in Lists : Shaped(ht[h]) /\ Shaped(newHt[h])

(* All that a list holds is hashed there by column c. *)
Listed(table, c) ==
  \A h \in Lists : \A x \in Range(FlattenSeq(table[h])) : Hash(payload[x.id][c]) = h

(* The tuples inserted so far are held once each, with the key they have   *)
(* been built with.                                                        *)
Conserved ==
  /\ Len(Held) = i
  /\ {Held[k] : k \in 1 .. Len(Held)} = {[id |-> t, key |-> payload[t][0]] : t \in 1 .. i}

JoinInv ==
  /\ TypeInv /\ TablesShaped /\ Conserved
  /\ Listed(ht, HashedBy)
  /\ phase = "rehash" => Listed(newHt, column)

(* A tuple of R, hashed by a column of its payload, has a list. *)
LEMMA HashType ==
  ASSUME TypeInv, NEW t \in Tuples, NEW c \in Columns
  PROVE  payload[t][c] \in Values /\ Hash(payload[t][c]) \in Lists
<1>1. payload[t][c] \in Values
  BY DEF TypeInv
<1>2. payload[t][c] \in Nat
  BY <1>1, SingleThreadAssumption
<1>3. Hash(payload[t][c]) \in 0 .. (NumBuckets - 1)
  BY <1>2, HashInTable, Zenon
<1>4. QED
  BY <1>1, <1>3 DEF Lists

(* What insertion of x into its list does to a table. *)
LEMMA TableInserts ==
  ASSUME NEW table \in Tables, NEW h \in Lists, NEW x \in Entries, NEW c, NEW new,
         Hash(payload[x.id][c]) = h, Listed(table, c), \A j \in Lists : Shaped(table[j]),
         new = With(table, h, Place(table[h], x))
  PROVE  /\ new \in Tables
         /\ Len(Contents(new)) = Len(Contents(table)) + 1
         /\ Range(Contents(new)) = Range(Contents(table)) \cup {x}
         /\ Listed(new, c)
         /\ \A j \in Lists : Shaped(new[j])
<1>1. PICK r : r = Place(table[h], x)
  OBVIOUS
<1>2. Inserted(table[h], x, r) /\ Shaped(r)
  BY <1>1, PlaceInserts DEF Tables
<1>3. /\ new \in Tables
      /\ Len(Contents(new)) = Len(Contents(table)) + 1
      /\ Range(Contents(new)) = Range(Contents(table)) \cup {x}
  <2>1. new = With(table, h, r)
    BY <1>1
  <2>2. QED
    BY <1>2, <2>1, ContentsInserts
<1>4. new[h] = r /\ \A j \in Lists \ {h} : new[j] = table[j]
  BY <1>1 DEF Tables, With
<1>5. Listed(new, c)
  <2>1. ASSUME NEW j \in Lists, NEW y \in Range(FlattenSeq(new[j]))
        PROVE  Hash(payload[y.id][c]) = j
    <3>1. CASE j = h
      <4>1. y \in Range(FlattenSeq(table[h])) \/ y = x
        BY <1>2, <1>4, <2>1, <3>1 DEF Inserted
      <4>2. QED
        BY <3>1, <4>1 DEF Listed
    <3>2. CASE j # h
      <4>1. y \in Range(FlattenSeq(table[j]))
        BY <1>4, <2>1, <3>2
      <4>2. QED
        BY <4>1 DEF Listed
    <3>3. QED
      BY <3>1, <3>2
  <2>2. QED
    BY <2>1 DEF Listed
<1>6. \A j \in Lists : Shaped(new[j])
  BY <1>2, <1>4
<1>7. QED
  BY <1>3, <1>5, <1>6

(* A table that holds nothing lists all it holds by any column. *)
LEMMA EmptyListed == \A c : Listed(EmptyTable, c)
<1>1. Range(<<>>) = {}
  BY DEF Range
<1>2. QED
  BY <1>1, EmptyTableFacts DEF Listed

(* Conserved, said of the ranges. *)
LEMMA ConservedMeans ==
  ASSUME TypeInv
  PROVE  /\ Held \in Seq(Entries)
         /\ Conserved <=>
              Len(Held) = i /\ Range(Held) = {[id |-> t, key |-> payload[t][0]] : t \in 1 .. i}
<1>1. Held \in Seq(Entries)
  <2>1. Contents(ht) \in Seq(Entries) /\ Contents(newHt) \in Seq(Entries) /\ walk \in Seq(Entries)
    BY ContentsHolds DEF TypeInv
  <2>2. Contents(newHt) \o walk \in Seq(Entries)
    BY <2>1, ConcatProperties
  <2>3. QED
    BY <2>1, <2>2 DEF Held
<1>2. Range(Held) = {Held[k] : k \in 1 .. Len(Held)}
  BY <1>1, RangeEquality
<1>3. QED
  BY <1>1, <1>2 DEF Conserved

LEMMA ConservedNext ==
  ASSUME NEW held \in Seq(Entries), Held' = held, Len(held) = i',
         Range(held) = {[id |-> t, key |-> payload'[t][0]] : t \in 1 .. i'}
  PROVE  Conserved'
<1>1. Range(held) = {held[k] : k \in 1 .. Len(held)}
  BY RangeEquality
<1>2. QED
  BY <1>1 DEF Conserved

-----------------------------------------------------------------------------
(* Every step preserves it.                                                *)

LEMMA InitJoinInv == Init => JoinInv
<1> SUFFICES ASSUME Init
             PROVE  JoinInv
  OBVIOUS
<1>1. TypeInv
  BY EmptyTableFacts, EmptySeq, HashTableAssumption DEF Init, TypeInv
<1>2. TablesShaped
  BY EmptyTableFacts DEF Init, TablesShaped
<1>3. Conserved
  <2>1. Held = <<>> /\ i = 0
    BY EmptyTableFacts DEF Init, Held
  <2>2. Range(<<>>) = {} /\ Len(<<>>) = 0 /\ 1 .. 0 = {}
    BY EmptySeq DEF Range
  <2>3. QED
    BY <1>1, <2>1, <2>2, ConservedMeans
<1>4. Listed(ht, HashedBy)
  BY EmptyListed DEF Init
<1>5. QED
  BY <1>1, <1>2, <1>3, <1>4 DEF Init, JoinInv

LEMMA BuildInsertJoinInv == JoinInv /\ BuildInsert => JoinInv'
<1> SUFFICES ASSUME JoinInv, BuildInsert
             PROVE  JoinInv'
  OBVIOUS
<1> DEFINE x == [id |-> i + 1, key |-> payload[i + 1][0]]
<1>1. /\ TypeInv /\ phase = "build" /\ i < NumR /\ i \in Nat /\ NumR \in Nat
      /\ i + 1 \in Tuples /\ 0 \in Columns /\ i' = i + 1
      /\ UNCHANGED <<payload, phase, column, newHt, walk>>
  <2>1. /\ TypeInv /\ phase = "build" /\ i < NumR /\ i' = i + 1
        /\ UNCHANGED <<payload, phase, column, newHt, walk>>
    BY DEF JoinInv, BuildInsert
  <2>2. i \in 0 .. NumR /\ NumR \in Nat
    BY <2>1, HashTableAssumption DEF TypeInv
  <2>3. i \in Nat /\ i + 1 \in Tuples /\ 0 \in Columns
    BY <2>1, <2>2 DEF Tuples, Columns
  <2>4. QED
    BY <2>1, <2>2, <2>3
<1>2. /\ payload[i + 1][0] \in Values /\ Hash(payload[i + 1][0]) \in Lists
  BY <1>1, HashType
<1>3. x \in Entries /\ x.id = i + 1 /\ x.key = payload[i + 1][0]
  BY <1>1, <1>2 DEF Entries
<1>4. PICK h \in Lists : h = Hash(payload[i + 1][0]) /\ ht' = [ht EXCEPT ![h] = Place(ht[h], x)]
  <2>1. ht' = [ht EXCEPT ![Hash(x.key)] = Place(ht[Hash(x.key)], x)]
    BY DEF BuildInsert
  <2>2. QED
    BY <1>2, <1>3, <2>1
<1> HIDE DEF x
<1>5. Listed(ht, 0) /\ Hash(payload[x.id][0]) = h /\ ht \in Tables
  BY <1>1, <1>3, <1>4 DEF JoinInv, HashedBy, TypeInv
<1>6. /\ ht' \in Tables
      /\ Len(Contents(ht')) = Len(Contents(ht)) + 1
      /\ Range(Contents(ht')) = Range(Contents(ht)) \cup {x}
      /\ Listed(ht', 0)
      /\ \A j \in Lists : Shaped(ht'[j])
  <2>1. \A j \in Lists : Shaped(ht[j])
    BY DEF JoinInv, TablesShaped
  <2>2. PICK new : new = ht' /\ new = With(ht, h, Place(ht[h], x))
    BY <1>4 DEF With
  <2>3. /\ new \in Tables
        /\ Len(Contents(new)) = Len(Contents(ht)) + 1
        /\ Range(Contents(new)) = Range(Contents(ht)) \cup {x}
        /\ Listed(new, 0)
        /\ \A j \in Lists : Shaped(new[j])
    BY <1>3, <1>5, <2>1, <2>2, TableInserts
  <2>4. QED
    BY <2>2, <2>3
<1>7. TypeInv'
  BY <1>1, <1>6 DEF TypeInv
<1>8. TablesShaped'
  BY <1>1, <1>6 DEF JoinInv, TablesShaped
<1>9. Conserved'
  <2>1. Held' = Contents(ht') /\ Held = Contents(ht)
    BY <1>1 DEF Held, Contents
  <2>2. Contents(ht') \in Seq(Entries)
    BY <1>6, ContentsHolds
  <2>3. /\ Len(Held) = i
        /\ Range(Held) = {[id |-> t, key |-> payload[t][0]] : t \in 1 .. i}
    BY <1>1, ConservedMeans DEF JoinInv
  <2>4. {[id |-> t, key |-> payload[t][0]] : t \in 1 .. (i + 1)}
          = {[id |-> t, key |-> payload[t][0]] : t \in 1 .. i} \cup {x}
    <3>1. \A t : t \in 1 .. (i + 1) <=> t \in 1 .. i \/ t = i + 1
      BY <1>1
    <3>2. QED
      BY <3>1 DEF x
  <2>5. QED
    BY <1>1, <1>6, <2>1, <2>2, <2>3, <2>4, ConservedNext
<1>10. Listed(ht, HashedBy)'
  BY <1>1, <1>6 DEF Listed, HashedBy
<1>11. QED
  BY <1>1, <1>7, <1>8, <1>9, <1>10 DEF JoinInv

LEMMA MoveTupleJoinInv == JoinInv /\ MoveTuple => JoinInv'
<1> SUFFICES ASSUME JoinInv, MoveTuple
             PROVE  JoinInv'
  OBVIOUS
<1> DEFINE x == Head(walk)
<1>1. /\ TypeInv /\ phase = "rehash" /\ walk # <<>> /\ walk \in Seq(Entries)
      /\ walk' = Tail(walk) /\ newHt \in Tables
      /\ UNCHANGED <<payload, phase, i, column, ht>>
  BY DEF JoinInv, TypeInv, MoveTuple
<1>2. column \in Columns
  <2>1. column \in Nat /\ column % 16 = 1 /\ column <= LastColumn /\ LastColumn \in Nat
    BY <1>1, SingleThreadAssumption DEF TypeInv
  <2>2. column # 0
    BY <2>1
  <2>3. QED
    BY <2>1, <2>2 DEF Columns
<1>3. /\ x \in Entries /\ Tail(walk) \in Seq(Entries) /\ Len(Tail(walk)) = Len(walk) - 1
      /\ Range(walk) = Range(Tail(walk)) \cup {x}
  <2>1. /\ x \in Entries /\ Tail(walk) \in Seq(Entries) /\ Len(Tail(walk)) = Len(walk) - 1
        /\ \A k \in 1 .. Len(Tail(walk)) : Tail(walk)[k] = walk[k + 1]
    BY <1>1, HeadTailProperties
  <2>2. Len(walk) \in Nat \ {0} /\ x = walk[1]
    BY <1>1, EmptySeq
  <2>3. /\ Range(walk) = {walk[k] : k \in 1 .. Len(walk)}
        /\ Range(Tail(walk)) = {Tail(walk)[k] : k \in 1 .. Len(Tail(walk))}
    BY <1>1, <2>1, RangeEquality
  <2> HIDE DEF x
  <2>4. ASSUME NEW y \in Range(walk)
        PROVE  y \in Range(Tail(walk)) \cup {x}
    <3>1. PICK k \in 1 .. Len(walk) : y = walk[k]
      BY <2>3, <2>4
    <3>2. CASE k = 1
      BY <2>2, <3>1, <3>2
    <3>3. CASE k # 1
      <4>1. k - 1 \in 1 .. Len(Tail(walk)) /\ (k - 1) + 1 = k
        BY <2>1, <2>2, <3>1, <3>3
      <4>2. QED
        BY <2>1, <2>3, <3>1, <4>1
    <3>4. QED
      BY <3>2, <3>3
  <2>5. ASSUME NEW y \in Range(Tail(walk)) \cup {x}
        PROVE  y \in Range(walk)
    <3>1. CASE y = x
      BY <2>2, <2>3, <3>1
    <3>2. CASE y \in Range(Tail(walk))
      <4>1. PICK k \in 1 .. Len(Tail(walk)) : y = walk[k + 1]
        BY <2>1, <2>3, <3>2
      <4>2. k + 1 \in 1 .. Len(walk)
        BY <2>1, <2>2, <4>1
      <4>3. QED
        BY <2>3, <4>1, <4>2
    <3>3. QED
      BY <2>5, <3>1, <3>2
  <2>6. QED
    BY <2>1, <2>4, <2>5
<1>4. x.id \in Tuples /\ Hash(payload[x.id][column]) \in Lists
  <2>1. x.id \in Tuples
    BY <1>3 DEF Entries
  <2>2. QED
    BY <1>1, <1>2, <2>1, HashType
<1>5. PICK h \in Lists : /\ h = Hash(payload[x.id][column])
                         /\ newHt' = [newHt EXCEPT ![h] = Place(newHt[h], x)]
  BY <1>4 DEF MoveTuple
<1> HIDE DEF x
<1>6. /\ newHt' \in Tables
      /\ Len(Contents(newHt')) = Len(Contents(newHt)) + 1
      /\ Range(Contents(newHt')) = Range(Contents(newHt)) \cup {x}
      /\ Listed(newHt', column)
      /\ \A j \in Lists : Shaped(newHt'[j])
  <2>1. Listed(newHt, column) /\ \A j \in Lists : Shaped(newHt[j])
    BY <1>1 DEF JoinInv, TablesShaped
  <2>2. PICK new : new = newHt' /\ new = With(newHt, h, Place(newHt[h], x))
    BY <1>5 DEF With
  <2>3. /\ new \in Tables
        /\ Len(Contents(new)) = Len(Contents(newHt)) + 1
        /\ Range(Contents(new)) = Range(Contents(newHt)) \cup {x}
        /\ Listed(new, column)
        /\ \A j \in Lists : Shaped(new[j])
    BY <1>1, <1>3, <1>5, <2>1, <2>2, TableInserts
  <2>4. QED
    BY <2>2, <2>3
<1>7. TypeInv'
  BY <1>1, <1>3, <1>6 DEF TypeInv
<1>8. TablesShaped'
  BY <1>1, <1>6 DEF JoinInv, TablesShaped
<1>9. Conserved'
  <2> DEFINE before == Contents(newHt) \o walk
             after == Contents(newHt') \o Tail(walk)
  <2>1. Held = before /\ Held' = after
    BY <1>1 DEF Held, Contents
  <2>2. Contents(newHt) \in Seq(Entries) /\ Contents(newHt') \in Seq(Entries)
    BY <1>1, <1>6, ContentsHolds
  <2>3. /\ after \in Seq(Entries)
        /\ Len(before) = Len(Contents(newHt)) + Len(walk)
        /\ Len(after) = Len(Contents(newHt')) + Len(Tail(walk))
    BY <1>1, <1>3, <2>2, ConcatProperties
  <2>4. /\ Range(before) = Range(Contents(newHt)) \cup Range(walk)
        /\ Range(after) = Range(Contents(newHt')) \cup Range(Tail(walk))
    <3>1. Range(Contents(newHt) \o walk) = Range(Contents(newHt)) \cup Range(walk)
      BY <1>1, <2>2, RangeConcatenation
    <3>2. PICK p, q \in Seq(Entries) : p = Contents(newHt') /\ q = Tail(walk)
      BY <1>3, <2>2
    <3>3. Range(p \o q) = Range(p) \cup Range(q)
      BY RangeConcatenation
    <3>4. QED
      BY <3>1, <3>2, <3>3
  <2>5. Len(after) = Len(before)
    <3>1. Len(walk) \in Nat /\ Len(Contents(newHt)) \in Nat
      BY <1>1, <2>2, LenProperties
    <3>2. PICK m, n \in Nat : m = Len(walk) /\ n = Len(Contents(newHt))
      BY <3>1
    <3>3. Len(after) = (n + 1) + (m - 1) /\ Len(before) = n + m
      BY <1>3, <1>6, <2>3, <3>2
    <3>4. (n + 1) + (m - 1) = n + m
      OBVIOUS
    <3>5. QED
      BY <3>3, <3>4
  <2>6. Range(after) = Range(before)
    BY <1>3, <1>6, <2>4
  <2> HIDE DEF before, after
  <2>7. /\ Len(before) = i
        /\ Range(before) = {[id |-> t, key |-> payload[t][0]] : t \in 1 .. i}
    BY <1>1, <2>1, ConservedMeans DEF JoinInv
  <2>8. QED
    BY <1>1, <2>1, <2>3, <2>5, <2>6, <2>7, ConservedNext
<1>10. Listed(ht, HashedBy)' /\ Listed(newHt, column)'
  BY <1>1, <1>6 DEF JoinInv, Listed, HashedBy
<1>11. QED
  BY <1>1, <1>7, <1>8, <1>9, <1>10 DEF JoinInv

LEMMA EndBuildJoinInv == JoinInv /\ (EndBuild \/ Return) => JoinInv'
<1> SUFFICES ASSUME JoinInv, EndBuild \/ Return
             PROVE  JoinInv'
  OBVIOUS
<1>1. /\ TypeInv /\ UNCHANGED <<payload, i, ht, newHt, walk>>
      /\ phase # "rehash" /\ phase' # "rehash"
      /\ \/ phase = "build" /\ phase' = "loop" /\ column' = 1
         \/ phase = "loop" /\ phase' = "returned" /\ column' = column
  BY DEF JoinInv, EndBuild, Return
<1>2. TypeInv'
  BY <1>1 DEF TypeInv
<1>3. TablesShaped'
  BY <1>1 DEF JoinInv, TablesShaped
<1>4. Conserved'
  <2>1. Held' = Held
    BY <1>1 DEF Held, Contents
  <2>2. QED
    BY <1>1, <2>1 DEF JoinInv, Conserved
<1>5. Listed(ht, HashedBy)'
  <2>1. HashedBy' = HashedBy
    BY <1>1 DEF HashedBy
  <2>2. QED
    BY <1>1, <2>1 DEF JoinInv, Listed
<1>6. QED
  BY <1>1, <1>2, <1>3, <1>4, <1>5 DEF JoinInv

LEMMA BeginRehashJoinInv == JoinInv /\ BeginRehash => JoinInv'
<1> SUFFICES ASSUME JoinInv, BeginRehash
             PROVE  JoinInv'
  OBVIOUS
<1>1. /\ TypeInv /\ phase = "loop" /\ column <= LastColumn /\ phase' = "rehash"
      /\ newHt' = EmptyTable /\ walk' = Contents(ht) /\ ht \in Tables
      /\ UNCHANGED <<payload, i, column, ht>>
  BY DEF JoinInv, TypeInv, BeginRehash
<1>2. Contents(ht) \in Seq(Entries)
  BY <1>1, ContentsHolds
<1>3. TypeInv'
  BY <1>1, <1>2, EmptyTableFacts DEF TypeInv
<1>4. TablesShaped'
  BY <1>1, EmptyTableFacts DEF JoinInv, TablesShaped
<1>5. Conserved'
  <2>1. Held = Contents(ht) /\ Held' = Contents(EmptyTable) \o Contents(ht)
    BY <1>1 DEF Held, Contents
  <2>2. Contents(EmptyTable) \o Contents(ht) = Contents(ht)
    BY <1>2, EmptyTableFacts, ConcatEmptySeq
  <2>3. QED
    BY <1>1, <2>1, <2>2 DEF JoinInv, Conserved
<1>6. Listed(ht, HashedBy)' /\ Listed(newHt, column)'
  <2>1. HashedBy' = HashedBy
    BY <1>1 DEF HashedBy
  <2>2. Listed(ht, HashedBy)'
    BY <1>1, <2>1 DEF JoinInv, Listed
  <2>3. Range(<<>>) = {}
    BY DEF Range
  <2>4. Listed(newHt, column)'
    BY <1>1, <2>3, EmptyTableFacts DEF Listed
  <2>5. QED
    BY <2>2, <2>4
<1>7. QED
  BY <1>3, <1>4, <1>5, <1>6 DEF JoinInv

LEMMA EndRehashJoinInv == JoinInv /\ EndRehash => JoinInv'
<1> SUFFICES ASSUME JoinInv, EndRehash
             PROVE  JoinInv'
  OBVIOUS
<1>1. /\ TypeInv /\ phase = "rehash" /\ walk = <<>> /\ phase' = "loop"
      /\ column' = column + 16 /\ ht' = newHt /\ newHt \in Tables
      /\ UNCHANGED <<payload, i, newHt, walk>>
  BY DEF JoinInv, TypeInv, EndRehash
<1>2. column \in Nat /\ column % 16 = 1 /\ (column + 16) % 16 = 1
  BY <1>1 DEF TypeInv
<1>3. TypeInv'
  BY <1>1, <1>2 DEF TypeInv
<1>4. TablesShaped'
  BY <1>1 DEF JoinInv, TablesShaped
<1>5. Conserved'
  <2>1. Held = Contents(newHt) \o <<>> /\ Held' = Contents(newHt)
    BY <1>1 DEF Held, Contents
  <2>2. Contents(newHt) \o <<>> = Contents(newHt)
    <3>1. Contents(newHt) \in Seq(Entries)
      BY <1>1, ContentsHolds
    <3>2. QED
      BY <3>1, ConcatEmptySeq
  <2>3. QED
    BY <1>1, <2>1, <2>2 DEF JoinInv, Conserved
<1>6. Listed(ht, HashedBy)'
  <2>1. HashedBy' = column
    BY <1>1, <1>2 DEF HashedBy
  <2>2. QED
    BY <1>1, <2>1 DEF JoinInv, Listed
<1>7. QED
  BY <1>1, <1>3, <1>4, <1>5, <1>6 DEF JoinInv

LEMMA JoinInvCorrect == Spec => []JoinInv
<1>1. JoinInv /\ [Next]_vars => JoinInv'
  <2> SUFFICES ASSUME JoinInv, [Next]_vars
               PROVE  JoinInv'
    OBVIOUS
  <2>1. CASE UNCHANGED vars
    <3>1. TypeInv' /\ TablesShaped'
      BY <2>1 DEF JoinInv, vars, TypeInv, TablesShaped
    <3>2. Held' = Held /\ HashedBy' = HashedBy
      BY <2>1 DEF vars, Held, HashedBy, Contents
    <3>3. QED
      BY <2>1, <3>1, <3>2 DEF JoinInv, vars, Conserved, Listed
  <2>2. QED
    BY <2>1, BuildInsertJoinInv, EndBuildJoinInv, BeginRehashJoinInv, MoveTupleJoinInv,
       EndRehashJoinInv DEF Next, Finished
<1>2. QED
  BY <1>1, InitJoinInv, PTL DEF Spec

-----------------------------------------------------------------------------

(* Neither the build nor any of the rehashes loses a tuple or duplicates   *)
(* one, however many columns there are.                                    *)
THEOREM TuplesConservedCorrect == Spec => []TuplesConserved
<1>1. JoinInv => TuplesConserved
  <2> SUFFICES ASSUME JoinInv
               PROVE  TuplesConserved
    OBVIOUS
  <2>1. {Held[k] : k \in 1 .. Len(Held)} = {[id |-> t, key |-> payload[t][0]] : t \in 1 .. i}
    BY DEF JoinInv, Conserved
  <2>2. \A k \in 1 .. Len(Held) : Held[k].id \in 1 .. i
    BY <2>1
  <2>3. ASSUME NEW t \in 1 .. i
        PROVE  \E k \in 1 .. Len(Held) : Held[k].id = t
    <3>1. PICK k \in 1 .. Len(Held) : Held[k] = [id |-> t, key |-> payload[t][0]]
      BY <2>1
    <3>2. QED
      BY <3>1
  <2>4. {Held[k].id : k \in 1 .. Len(Held)} = 1 .. i
    <3> DEFINE Ids == {Held[k].id : k \in 1 .. Len(Held)}
    <3>1. Ids \subseteq 1 .. i
      BY <2>2
    <3>2. 1 .. i \subseteq Ids
      BY <2>3
    <3>3. QED
      BY <3>1, <3>2
  <2>5. Len(Held) = i
    BY DEF JoinInv, Conserved
  <2>6. QED
    BY <2>4, <2>5 DEF TuplesConserved
<1>2. QED
  BY <1>1, JoinInvCorrect, PTL

(* After the build, and after every rehash, each tuple is in the list that *)
(* the column of the table hashes it to.                                   *)
THEOREM TuplesInTheirListCorrect == Spec => []TuplesInTheirList
<1>1. JoinInv => TuplesInTheirList
  <2> SUFFICES ASSUME JoinInv
               PROVE  TuplesInTheirList
    OBVIOUS
  <2>1. ASSUME NEW table \in Tables, NEW c, Listed(table, c), NEW h \in Lists,
               NEW k \in 1 .. Len(FlattenSeq(table[h]))
        PROVE  Hash(payload[FlattenSeq(table[h])[k].id][c]) = h
    <3>1. FlattenSeq(table[h]) \in Seq(Entries)
      BY ChainTypes, FlattenHolds DEF Tables
    <3>2. FlattenSeq(table[h])[k] \in Range(FlattenSeq(table[h]))
      BY <3>1, RangeEquality
    <3>3. QED
      BY <2>1, <3>2 DEF Listed
  <2>2. ht \in Tables /\ newHt \in Tables
    BY DEF JoinInv, TypeInv
  <2>3. QED
    BY <2>1, <2>2 DEF JoinInv, TuplesInTheirList
<1>2. QED
  BY <1>1, JoinInvCorrect, PTL

(* To look at the bucket of the table and the first overflow bucket is     *)
(* enough to find the room there is, in the table that is built and in the *)
(* one that a rehash fills.                                                *)
THEOREM OnlyFirstOverflowHasRoomCorrect == Spec => []OnlyFirstOverflowHasRoom
<1>1. JoinInv => OnlyFirstOverflowHasRoom
  BY DEF JoinInv, TablesShaped, Shaped, OnlyFirstOverflowHasRoom
<1>2. QED
  BY <1>1, JoinInvCorrect, PTL

=============================================================================
