----------------------------- MODULE HashTable -----------------------------
(***************************************************************************)
(* The size of the hash table of no_partitioning_join.c and the hash       *)
(* function on it: allocate_hashtable(), NEXT_POW_2 and HASH.              *)
(***************************************************************************)
EXTENDS Integers

CONSTANTS
  NumR,         (* number of tuples of R, the relation that is hashed      *)
  BucketSize,   (* BUCKET_SIZE, tuples in a bucket                         *)
  ListSpread    (* 2^list_p, by which the number of lists is divided       *)

(* A number below 2^31 as the set of its bits, and the number a set of bits *)
(* stands for, byte by byte.                                               *)
Bits == 0 .. 30

Byte(bits, k) ==
  LET bit(j) == IF k + j \in bits THEN 1 ELSE 0
  IN  bit(0) + 2 * bit(1) + 4 * bit(2) + 8 * bit(3)
        + 16 * bit(4) + 32 * bit(5) + 64 * bit(6) + 128 * bit(7)

Number(bits) ==
  Byte(bits, 0) + 256 * Byte(bits, 8) + 65536 * Byte(bits, 16) + 16777216 * Byte(bits, 24)

PowerOfTwo(k) == Number({k})
PowersOfTwo == {PowerOfTwo(k) : k \in Bits}

BitsOf(v) == {k \in Bits : (v \div PowerOfTwo(k)) % 2 = 1}

(* R fills at least one bucket: with fewer tuples the table would have no  *)
(* bucket at all, and any index into it would be outside of it.            *)
ASSUME HashTableAssumption ==
  /\ NumR \in Nat
  /\ BucketSize \in Nat \ {0}
  /\ NumR \div BucketSize > 0
  /\ NumR \div BucketSize <= PowerOfTwo(30)
  /\ ListSpread \in PowersOfTwo

(* V |= V >> n *)
OrShifted(bits, n) == bits \cup {k - n : k \in {b \in bits : b >= n}}

(* The five shifts copy the highest bit to every place below it. *)
Smeared(bits) ==
  OrShifted(OrShifted(OrShifted(OrShifted(OrShifted(bits, 1), 2), 4), 8), 16)

(* NEXT_POW_2: decremented, its bits smeared, incremented. *)
NextPow2(v) == Number(Smeared(BitsOf(v - 1))) + 1

NumBuckets == NextPow2(NumR \div BucketSize)

(* hash_mask is one less than a power of two, so masking with it is the    *)
(* remainder of the division by that power; skip_bits is 0.                *)
HashMask == (NumBuckets - 1) \div ListSpread
Hash(key) == key % (HashMask + 1)

=============================================================================
