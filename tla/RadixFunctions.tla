--------------------------- MODULE RadixFunctions ---------------------------
(***************************************************************************)
(* The pure parts of src/dynamic_hashjoin/src/parallel_radix_join.c: the   *)
(* digits a key is partitioned by, the placement of tuples by a histogram  *)
(* and its prefix sum, and the two functions that join a pair of           *)
(* partitions, bucket_chaining_join() and histogram_join().                *)
(*                                                                         *)
(* An array is a function on positions from 0.  A tuple is known by its    *)
(* key where only the key matters.                                         *)
(***************************************************************************)
EXTENDS Integers, Sequences, FiniteSets

CONSTANTS
  Bits1,   (* PASS1RADIXBITS *)
  Bits2    (* PASS2RADIXBITS *)

ASSUME RadixAssumption == Bits1 \in Nat /\ Bits2 \in Nat

NumRadixBits == Bits1 + Bits2
FanOut1 == 2 ^ Bits1
FanOut2 == 2 ^ Bits2

(* A cache line has 64 bytes, a tuple of one key and 50 payload columns    *)
(* 204: no padding is left between partitions.                             *)
SmallPaddingTuples == (3 * 64) \div 204
PaddingTuples == SmallPaddingTuples * (FanOut2 + 1)

(* HASH_BIT_MODULO with a mask for one of m values above the lowest r bits. *)
Digit(key, r, m) == (key \div 2 ^ r) % m

(* NEXT_POW_2, which decrements and increments again and so makes 0 of 0. *)
PowerAbove(n) ==
  IF n = 0 THEN 0 ELSE CHOOSE p \in {2 ^ i : i \in 0 .. n} : n <= p /\ p < 2 * n

(* How many of the positions P hold a digit below c. *)
Below(digit, P, c) == Cardinality({p \in P : digit[p] < c})

(* Where, behind the start of the output, the tuple at position p of the   *)
(* positions P is put: behind the clusters of the smaller digits, the      *)
(* padding between them, and the earlier tuples of its own cluster.        *)
Place(digit, P, pad, p) ==
  Below(digit, P, digit[p]) + digit[p] * pad
    + Cardinality({q \in P : q < p /\ digit[q] = digit[p]})

(* The array out after the tuples of array from at the positions P have    *)
(* been clustered by their digits into out, from position at onwards.      *)
Clustered(out, from, digit, P, pad, at) ==
  [x \in DOMAIN out |->
     IF \E p \in P : at + Place(digit, P, pad, p) = x
     THEN from[CHOOSE p \in P : at + Place(digit, P, pad, p) = x]
     ELSE out[x]]

-----------------------------------------------------------------------------
(* The joins of one partition of R with one of S, given as sequences of    *)
(* keys.  The result is the number of pairs found.                         *)

(* bucket[idx] is the last position, from 1, whose key falls into bucket   *)
(* idx; next leads to the one before it; 0 ends the chain.                 *)
BucketChainingJoin(r, s) ==
  LET n == PowerAbove(Len(r))
      Idx(key) == Digit(key, NumRadixBits, n)
      built[i \in 0 .. Len(r)] ==
        IF i = 0 THEN [bucket |-> [idx \in 0 .. (n - 1) |-> 0], next |-> <<>>]
        ELSE LET before == built[i - 1]
             IN  [bucket |-> [before.bucket EXCEPT ![Idx(r[i])] = i],
                  next |-> Append(before.next, before.bucket[Idx(r[i])])]
      bucket == built[Len(r)].bucket
      next == built[Len(r)].next
      chain[i \in 0 .. Len(r)] == IF i = 0 THEN {} ELSE {i} \cup chain[next[i]]
  IN  Cardinality({p \in (1 .. Len(r)) \X (1 .. Len(s)) :
                     p[1] \in chain[bucket[Idx(s[p[2]])]] /\ r[p[1]] = s[p[2]]})

(* get_hist_size() *)
HistSize(n) == LET m == PowerAbove(n) \div 4 IN IF m < 4 THEN 4 ELSE m

HistDigit(r) == [i \in 1 .. Len(r) |-> Digit(r[i], NumRadixBits, HistSize(Len(r)))]

(* The tuples of R reordered by their digit; those of digit idx are from    *)
(* hist[idx] to hist[idx + 1] - 1.                                          *)
HistogramJoin(r, s) ==
  LET P == 1 .. Len(r)
      digit == HistDigit(r)
      reordered == [x \in P |-> r[CHOOSE p \in P : 1 + Place(digit, P, 0, p) = x]]
      hist(idx) == 1 + Below(digit, P, idx)
      Idx(key) == Digit(key, NumRadixBits, HistSize(Len(r)))
  IN  Cardinality({p \in P \X (1 .. Len(s)) :
                     /\ hist(Idx(s[p[2]])) <= p[1] /\ p[1] < hist(Idx(s[p[2]]) + 1)
                     /\ reordered[p[1]] = s[p[2]]})

=============================================================================
