-------------------------- MODULE PartitionedJoin --------------------------
(***************************************************************************)
(* What a radix join promises, without threads, arrays or queues: the      *)
(* clusters, the sets of tuples of R and S whose keys agree in the radix   *)
(* bits, are joined one by one, each at most once, and the answer is the   *)
(* number of pairs of tuples with equal keys.                              *)
(***************************************************************************)
EXTENDS Integers, FiniteSets

CONSTANTS Keys, NumR, NumS, NumClusters

VARIABLES
  keyR, keyS,   (* the keys of the relations                               *)
  joined,       (* clusters joined so far                                  *)
  answer        (* the reported result, -1 before the report               *)

pairVars == <<keyR, keyS, joined, answer>>

Pairs ==
  {p \in (0 .. (NumR - 1)) \X (0 .. (NumS - 1)) : keyR[p[1]] = keyS[p[2]]}

ClusterOf(key) == key % NumClusters

PairInit ==
  /\ keyR \in [0 .. (NumR - 1) -> Keys]
  /\ keyS \in [0 .. (NumS - 1) -> Keys]
  /\ joined = {}
  /\ answer = -1

JoinCluster(c) ==
  /\ c \notin joined
  /\ answer = -1
  /\ joined' = joined \cup {c}
  /\ UNCHANGED <<keyR, keyS, answer>>

Report ==
  /\ answer = -1
  /\ \A p \in Pairs : ClusterOf(keyR[p[1]]) \in joined
  /\ answer' = Cardinality(Pairs)
  /\ UNCHANGED <<keyR, keyS, joined>>

PairNext ==
  \/ \E c \in 0 .. (NumClusters - 1) : JoinCluster(c)
  \/ Report

PairSpec == PairInit /\ [][PairNext]_pairVars

=============================================================================
