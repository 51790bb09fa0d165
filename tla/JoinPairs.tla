----------------------------- MODULE JoinPairs -----------------------------
(***************************************************************************)
(* What the join of two tables promises, without threads, pages or         *)
(* buckets: the tuples of the probe table are looked up one by one, each   *)
(* gives all its pairs with tuples of the build table that have its key,   *)
(* each pair once, and the join ends when all the pairs have been made.    *)
(***************************************************************************)
EXTENDS Integers, Sequences

VARIABLES
  buildKeys, probeKeys,   (* the keys of the two tables                    *)
  made,                   (* how often each pair has been made             *)
  ended                   (* whether the join has ended                    *)

pairsVars == <<buildKeys, probeKeys, made, ended>>

Pairs == (1 .. Len(buildKeys)) \X (1 .. Len(probeKeys))
Matching == {p \in Pairs : buildKeys[p[1]] = probeKeys[p[2]]}

PairsInit ==
  /\ made = [p \in Pairs |-> 0]
  /\ ended = FALSE

LookUp(y) ==
  /\ \A p \in Matching : p[2] = y => made[p] = 0
  /\ made' = [p \in Pairs |-> IF p \in Matching /\ p[2] = y THEN 1 ELSE made[p]]
  /\ UNCHANGED <<buildKeys, probeKeys, ended>>

End ==
  /\ \A p \in Matching : made[p] = 1
  /\ ended' = TRUE
  /\ UNCHANGED <<buildKeys, probeKeys, made>>

PairsNext == End \/ \E y \in 1 .. Len(probeKeys) : LookUp(y)

PairsSpec == PairsInit /\ [][PairsNext]_pairsVars

=============================================================================
