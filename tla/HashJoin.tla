------------------------------ MODULE HashJoin ------------------------------
(***************************************************************************)
(* What the no-partitioning join promises, without threads, buckets or     *)
(* latches: the tuples of R enter the table one by one, then every tuple   *)
(* of S is looked up once, and the answer is the number of lookups that    *)
(* found a tuple with their key.  A lookup stops at the first tuple it     *)
(* finds, so the answer counts tuples of S, not pairs.  The table goes     *)
(* when nothing is left to look up, and not before.                        *)
(***************************************************************************)
EXTENDS Integers

CONSTANTS Keys, NumR, NumS

VARIABLES
  relR, relS,   (* the keys of the two relations                           *)
  table,        (* tuples of R in the hash table                           *)
  probed,       (* tuples of S looked up                                   *)
  matches,      (* lookups that found a tuple                              *)
  answer        (* the reported result, -1 before the report               *)

joinVars == <<relR, relS, table, probed, matches, answer>>

Found(j) == \E i \in 1 .. NumR : relR[i] = relS[j]

JoinInit ==
  /\ relR \in [1 .. NumR -> Keys]
  /\ relS \in [1 .. NumS -> Keys]
  /\ table = {}
  /\ probed = {}
  /\ matches = 0
  /\ answer = -1

Insert(i) ==
  /\ i \notin table
  /\ probed = {}
  /\ table' = table \cup {i}
  /\ UNCHANGED <<relR, relS, probed, matches, answer>>

Lookup(j) ==
  /\ table = 1 .. NumR
  /\ j \notin probed
  /\ probed' = probed \cup {j}
  /\ matches' = IF Found(j) THEN matches + 1 ELSE matches
  /\ UNCHANGED <<relR, relS, table, answer>>

(* Tuples are discarded when nothing is left to look up, *)
Discard ==
  /\ probed = 1 .. NumS
  /\ table' \in SUBSET table
  /\ UNCHANGED <<relR, relS, probed, matches, answer>>

(* and all that are left with the report. *)
Report ==
  /\ probed = 1 .. NumS
  /\ answer = -1
  /\ answer' = matches
  /\ table' = {}
  /\ UNCHANGED <<relR, relS, probed, matches>>

JoinNext ==
  \/ \E i \in 1 .. NumR : Insert(i)
  \/ \E j \in 1 .. NumS : Lookup(j)
  \/ Discard
  \/ Report

JoinSpec == JoinInit /\ [][JoinNext]_joinVars

=============================================================================
