-------------------------- MODULE HashTableProofs --------------------------
(***************************************************************************)
(* The size of the hash table and the range of the hash function, for      *)
(* every size of R that the int32_t arithmetic of the code can round up.   *)
(***************************************************************************)
EXTENDS HashTable, TLAPS

LEMMA PowerValues ==
  /\ PowerOfTwo(0) = 1
  /\ PowerOfTwo(1) = 2
  /\ PowerOfTwo(2) = 4
  /\ PowerOfTwo(3) = 8
  /\ PowerOfTwo(4) = 16
  /\ PowerOfTwo(5) = 32
  /\ PowerOfTwo(6) = 64
  /\ PowerOfTwo(7) = 128
  /\ PowerOfTwo(8) = 256
  /\ PowerOfTwo(9) = 512
  /\ PowerOfTwo(10) = 1024
  /\ PowerOfTwo(11) = 2048
  /\ PowerOfTwo(12) = 4096
  /\ PowerOfTwo(13) = 8192
  /\ PowerOfTwo(14) = 16384
  /\ PowerOfTwo(15) = 32768
  /\ PowerOfTwo(16) = 65536
  /\ PowerOfTwo(17) = 131072
  /\ PowerOfTwo(18) = 262144
  /\ PowerOfTwo(19) = 524288
  /\ PowerOfTwo(20) = 1048576
  /\ PowerOfTwo(21) = 2097152
  /\ PowerOfTwo(22) = 4194304
  /\ PowerOfTwo(23) = 8388608
  /\ PowerOfTwo(24) = 16777216
  /\ PowerOfTwo(25) = 33554432
  /\ PowerOfTwo(26) = 67108864
  /\ PowerOfTwo(27) = 134217728
  /\ PowerOfTwo(28) = 268435456
  /\ PowerOfTwo(29) = 536870912
  /\ PowerOfTwo(30) = 1073741824
BY SMTT(30) DEF PowerOfTwo, Number, Byte

(* What is needed of the values: every power is twice the one before it,   *)
(* and the bits up to one of them make up the next power less one.         *)
LEMMA PowerDoubles ==
  \A k \in 0 .. 29 : PowerOfTwo(k + 1) = 2 * PowerOfTwo(k)
BY PowerValues, SMT

LEMMA PowerPositive == \A k \in Bits : PowerOfTwo(k) \in Nat \ {0}
BY PowerValues, SMT DEF Bits

LEMMA AllOnes == \A m \in 0 .. 30 : Number(0 .. m) = 2 * PowerOfTwo(m) - 1
BY SMT DEF Number, Byte, PowerOfTwo

LEMMA PowersRise ==
  ASSUME NEW j \in Bits, NEW k \in Bits, j < k
  PROVE  2 * PowerOfTwo(j) <= PowerOfTwo(k)
BY PowerValues, SMT DEF Bits

LEMMA PowersOfTwoPositive == PowersOfTwo \subseteq Nat \ {0}
BY PowerPositive DEF PowersOfTwo

(* The highest bit of a number below 2^30. *)
LEMMA HighestBit ==
  ASSUME NEW x \in Nat \ {0}, x < PowerOfTwo(30)
  PROVE  \E m \in 0 .. 29 : PowerOfTwo(m) <= x /\ x < 2 * PowerOfTwo(m)
BY PowerValues, SMT

LEMMA BitsUpToHighest ==
  ASSUME NEW x \in Nat \ {0}, NEW m \in 0 .. 29,
         PowerOfTwo(m) <= x, x < 2 * PowerOfTwo(m)
  PROVE  m \in BitsOf(x) /\ BitsOf(x) \subseteq 0 .. m
<1>1. \A a \in Nat, b \in Nat \ {0} : b <= a /\ a < 2 * b => a \div b = 1
  BY SMT
<1>2. \A a \in Nat, b \in Nat \ {0} : a < b => a \div b = 0
  BY SMT
<1>3. m \in Bits /\ PowerOfTwo(m) \in Nat \ {0}
  BY PowerPositive DEF Bits
<1>4. m \in BitsOf(x)
  BY <1>1, <1>3 DEF BitsOf
<1>5. ASSUME NEW k \in BitsOf(x), k > m
      PROVE  FALSE
  <2>1. k \in Bits /\ PowerOfTwo(k) \in Nat \ {0}
    BY PowerPositive DEF BitsOf
  <2>2. x < PowerOfTwo(k)
    BY <1>3, <1>5, <2>1, PowersRise
  <2>3. x \div PowerOfTwo(k) = 0
    BY <1>2, <2>1, <2>2
  <2>4. QED
    BY <2>3 DEF BitsOf
<1>6. QED
  BY <1>4, <1>5 DEF BitsOf, Bits

(* The bits of from are those that have a bit of bits at most d above them. *)
Spread(bits, from, d) ==
  /\ from \in SUBSET Nat
  /\ \A k \in Nat : k \in from <=> \E j \in bits : k <= j /\ j <= k + d

(* V |= V >> n sets the bits that are n below a set one. *)
LEMMA OrShiftedSpreads ==
  ASSUME NEW bits \in SUBSET Nat, NEW from,
         NEW d \in Nat, NEW n \in Nat, NEW e \in Nat, e = d + n, n <= d + 1,
         Spread(bits, from, d)
  PROVE  Spread(bits, OrShifted(from, n), e)
<1>1. OrShifted(from, n) \in SUBSET Nat
  <2>1. from \in SUBSET Nat /\ \A k \in from : k >= n => k - n \in Nat
    BY SMT DEF Spread
  <2>2. QED
    BY <2>1 DEF OrShifted
<1>2. \A k \in Nat : k \in OrShifted(from, n) <=> k \in from \/ k + n \in from
  BY SMT DEF OrShifted, Spread
<1>3. ASSUME NEW k \in Nat
      PROVE  k \in OrShifted(from, n) <=> \E j \in bits : k <= j /\ j <= k + e
  <2>1. k \in OrShifted(from, n) <=>
          \/ \E j \in bits : k <= j /\ j <= k + d
          \/ \E j \in bits : k + n <= j /\ j <= k + n + d
    BY <1>2 DEF Spread
  <2>2. QED
    BY <2>1, SMT
<1>4. QED
  BY <1>1, <1>3 DEF Spread

LEMMA SmearedIsAllOnes ==
  ASSUME NEW m \in 0 .. 30, NEW bits \in SUBSET (0 .. m), m \in bits
  PROVE  Smeared(bits) = 0 .. m
<1> DEFINE one == OrShifted(bits, 1)
           two == OrShifted(one, 2)
           four == OrShifted(two, 4)
           eight == OrShifted(four, 8)
           all == OrShifted(eight, 16)
<1>0. bits \in SUBSET Nat /\ m \in Nat
  OBVIOUS
<1>1. Spread(bits, bits, 0)
  BY <1>0, SMT DEF Spread
<1>7. all = Smeared(bits)
  BY DEF Smeared
<1>2. Spread(bits, one, 1)
  <2>1. 1 \in Nat /\ 0 \in Nat /\ 1 \in Nat /\ 1 = 0 + 1 /\ 1 <= 0 + 1
    OBVIOUS
  <2>2. QED
    BY <1>0, <1>1, <2>1, OrShiftedSpreads
<1> HIDE DEF one
<1>3. Spread(bits, two, 3)
  <2>1. 3 \in Nat /\ 1 \in Nat /\ 2 \in Nat /\ 3 = 1 + 2 /\ 2 <= 1 + 1
    OBVIOUS
  <2>2. QED
    BY <1>0, <1>2, <2>1, OrShiftedSpreads
<1> HIDE DEF two
<1>4. Spread(bits, four, 7)
  <2>1. 7 \in Nat /\ 3 \in Nat /\ 4 \in Nat /\ 7 = 3 + 4 /\ 4 <= 3 + 1
    OBVIOUS
  <2>2. QED
    BY <1>0, <1>3, <2>1, OrShiftedSpreads
<1> HIDE DEF four
<1>5. Spread(bits, eight, 15)
  <2>1. 15 \in Nat /\ 7 \in Nat /\ 8 \in Nat /\ 15 = 7 + 8 /\ 8 <= 7 + 1
    OBVIOUS
  <2>2. QED
    BY <1>0, <1>4, <2>1, OrShiftedSpreads
<1> HIDE DEF eight
<1>6. Spread(bits, all, 31)
  <2>1. 31 \in Nat /\ 15 \in Nat /\ 16 \in Nat /\ 31 = 15 + 16 /\ 16 <= 15 + 1
    OBVIOUS
  <2>2. QED
    BY <1>0, <1>5, <2>1, OrShiftedSpreads
<1> HIDE DEF all
<1>8. \A k \in Nat : k \in all <=> k <= m
  <2>1. SUFFICES ASSUME NEW k \in Nat
                 PROVE  (\E j \in bits : k <= j /\ j <= k + 31) <=> k <= m
    BY <1>6 DEF Spread
  <2>2. QED
    BY <1>0, SMT
<1>9. \A k : k \in all <=> k \in 0 .. m
  <2>1. all \subseteq Nat
    BY <1>6 DEF Spread
  <2>2. \A k : k \in 0 .. m <=> k \in Nat /\ k <= m
    BY <1>0
  <2>3. QED
    BY <1>8, <2>1, <2>2
<1>10. all = 0 .. m
  BY <1>9
<1>11. QED
  BY <1>7, <1>10

(* The shifts of NEXT_POW_2 round every v from 1 to 2^30 up to a power of  *)
(* two, the least that is not below v.                                     *)
THEOREM NextPow2Correct ==
  ASSUME NEW v \in Nat \ {0}, v <= PowerOfTwo(30)
  PROVE  /\ NextPow2(v) \in PowersOfTwo
         /\ v <= NextPow2(v)
         /\ \A p \in PowersOfTwo : v <= p => NextPow2(v) <= p
<1> DEFINE x == v - 1
<1>1. CASE x = 0
  <2>1. BitsOf(0) = {}
    <3>1. \A b \in Nat \ {0} : 0 \div b = 0
      BY SMT
    <3>2. QED
      BY <3>1, PowerPositive DEF BitsOf
  <2>2. Smeared({}) = {}
    BY DEF Smeared, OrShifted
  <2>3. Number({}) = 0
    BY SMT DEF Number, Byte
  <2>4. NextPow2(v) = 1
    BY <1>1, <2>1, <2>2, <2>3 DEF NextPow2
  <2>5. PowerOfTwo(0) = 1 /\ 0 \in Bits
    BY PowerValues, SMT DEF Bits
  <2>6. QED
    BY <1>1, <2>4, <2>5, PowersOfTwoPositive, SMT DEF PowersOfTwo
<1>2. CASE x # 0
  <2>1. x \in Nat \ {0} /\ x < PowerOfTwo(30)
    BY <1>2, PowerPositive, SMT DEF Bits
  <2>2. PICK m \in 0 .. 29 : PowerOfTwo(m) <= x /\ x < 2 * PowerOfTwo(m)
    BY <2>1, HighestBit
  <2>3. m \in BitsOf(x) /\ BitsOf(x) \in SUBSET (0 .. m)
    BY <2>1, <2>2, BitsUpToHighest
  <2>4. m \in 0 .. 30
    OBVIOUS
  <2>5. Smeared(BitsOf(x)) = 0 .. m
    BY <2>3, <2>4, SmearedIsAllOnes
  <2>6. m \in Bits /\ m + 1 \in Bits
    BY SMT DEF Bits
  <2>7. PowerOfTwo(m) \in Nat /\ PowerOfTwo(m + 1) \in Nat
    BY <2>6, PowerPositive
  <2>8. NextPow2(v) = PowerOfTwo(m + 1) /\ NextPow2(v) = 2 * PowerOfTwo(m)
    <3>1. NextPow2(v) = Number(0 .. m) + 1
      BY <2>5 DEF NextPow2
    <3>2. Number(0 .. m) = 2 * PowerOfTwo(m) - 1 /\ PowerOfTwo(m + 1) = 2 * PowerOfTwo(m)
      BY <2>4, AllOnes, PowerDoubles
    <3>3. QED
      BY <2>7, <3>1, <3>2
  <2>9. \A k \in Bits : v <= PowerOfTwo(k) => NextPow2(v) <= PowerOfTwo(k)
    <3>1. SUFFICES ASSUME NEW k \in Bits, v <= PowerOfTwo(k)
                   PROVE  NextPow2(v) <= PowerOfTwo(k)
      OBVIOUS
    <3>2. PowerOfTwo(k) \in Nat
      BY PowerPositive
    <3>3. CASE k > m
      BY <2>6, <2>8, <3>3, PowersRise
    <3>4. CASE k = m
      BY <2>2, <2>7, <3>1, <3>4
    <3>5. CASE k < m
      BY <2>2, <2>6, <2>7, <3>1, <3>2, <3>5, PowersRise
    <3>6. QED
      BY <3>3, <3>4, <3>5 DEF Bits
  <2>10. QED
    BY <2>2, <2>6, <2>7, <2>8, <2>9 DEF PowersOfTwo
<1>3. QED
  BY <1>1, <1>2

LEMMA NumBucketsType == NumBuckets \in Nat \ {0}
<1> DEFINE v == NumR \div BucketSize
<1>1. v \in Nat \ {0}
  BY HashTableAssumption
<1>2. v <= PowerOfTwo(30)
  BY HashTableAssumption
<1> HIDE DEF v
<1>3. NextPow2(v) \in Nat \ {0}
  BY <1>1, <1>2, NextPow2Correct, PowersOfTwoPositive
<1>4. QED
  BY <1>3 DEF NumBuckets, v

LEMMA HashMaskType == HashMask \in 0 .. (NumBuckets - 1)
<1> DEFINE n == NumBuckets - 1
<1>1. n \in Nat /\ ListSpread \in Nat \ {0}
  BY NumBucketsType, HashTableAssumption, PowersOfTwoPositive
<1>2. \A a \in Nat, b \in Nat \ {0} : a \div b \in 0 .. a
  OBVIOUS
<1> HIDE DEF n
<1>3. n \div ListSpread \in 0 .. n
  BY <1>1, <1>2
<1>4. QED
  BY <1>3 DEF HashMask, n

(* Every key is hashed to a bucket of the table. *)
THEOREM HashInTable == \A key \in Nat : Hash(key) \in 0 .. (NumBuckets - 1)
<1>1. \A a \in Nat, b \in Nat \ {0} : a % b \in 0 .. (b - 1)
  OBVIOUS
<1>2. HashMask + 1 \in Nat \ {0} /\ HashMask + 1 <= NumBuckets /\ NumBuckets \in Nat
  BY HashMaskType, NumBucketsType
<1>3. QED
  BY <1>1, <1>2 DEF Hash

=============================================================================
