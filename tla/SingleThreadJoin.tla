-------------------------- MODULE SingleThreadJoin --------------------------
(***************************************************************************)
(* NPO_st of src/dynamic_hashjoin/src/no_partitioning_join.c, the          *)
(* algorithm the program runs by default.  R is hashed by payload[0];      *)
(* then, for payload columns 1, 17, 33 and 49, every tuple is moved to a   *)
(* new table where it is hashed by that column, and the old table is       *)
(* destroyed.  S is never looked up, so neither S nor the result, which is *)
(* always 0, is part of the state.                                         *)
(*                                                                         *)
(* A chain is the sequence of its buckets, the bucket of the table first;  *)
(* a bucket is the sequence of its counted slots; a slot holds the         *)
(* position of a tuple in R and its key field.                             *)
(***************************************************************************)
EXTENDS HashTable, FiniteSets, SequencesExt

CONSTANTS
  Values,        (* values of the payload columns                          *)
  LastColumn     (* bound of the loop over the columns: 49 in the code     *)

ASSUME SingleThreadAssumption ==
  /\ Values \subseteq Nat
  /\ LastColumn \in Nat

Tuples == 1 .. NumR
Lists == 0 .. (NumBuckets - 1)
Columns == {0} \cup {c \in 1 .. LastColumn : c % 16 = 1}

VARIABLES
  payload,     (* the columns of the tuples of R                           *)
  phase,       (* where NPO_st() is                                        *)
  i,           (* loop index of the build                                  *)
  column,      (* the column the tuples are being hashed by                *)
  ht,          (* the hash table                                           *)
  newHt,       (* new_ht of rehash_payload()                               *)
  walk         (* tuples of ht that rehash_payload() has yet to visit      *)

vars == <<payload, phase, i, column, ht, newHt, walk>>

EmptyChain == << <<>> >>
EmptyTable == [h \in Lists |-> EmptyChain]

(* What a walk of the whole table visits, in the order of the walk. *)
Contents(table) ==
  FlattenSeq([h \in 1 .. NumBuckets |-> FlattenSeq(table[h - 1])])

Full(bucket) == Len(bucket) = BucketSize

(* Whether the insertion into a chain allocates an overflow bucket. *)
Overflowing(chain) ==
  Full(chain[1]) /\ (Len(chain) = 1 \/ Full(chain[2]))

-----------------------------------------------------------------------------

(* Faulty: the test for a first overflow bucket that is full is missing and *)
(* its last slot is overwritten.                                            *)
PlaceOverwrites(chain, tuple) ==
  IF ~Full(chain[1]) THEN [chain EXCEPT ![1] = Append(@, tuple)]
  ELSE IF Len(chain) = 1 THEN <<chain[1], <<tuple>> >>
  ELSE IF Full(chain[2]) THEN [chain EXCEPT ![2][BucketSize] = tuple]
  ELSE [chain EXCEPT ![2] = Append(@, tuple)]

(* Faulty: a new overflow bucket goes to the end of the chain. *)
PlaceAtEnd(chain, tuple) ==
  IF ~Full(chain[1]) THEN [chain EXCEPT ![1] = Append(@, tuple)]
  ELSE IF Overflowing(chain) THEN Append(chain, <<tuple>>)
  ELSE [chain EXCEPT ![2] = Append(@, tuple)]

(* The insertion that the build and the rehash share: into the bucket of   *)
(* the table, else into the first overflow bucket, else into a new one     *)
(* that becomes the first.                                                 *)
Place(chain, tuple) ==
  IF ~Full(chain[1]) THEN [chain EXCEPT ![1] = Append(@, tuple)]
  ELSE IF Overflowing(chain) THEN <<chain[1], <<tuple>> >> \o Tail(chain)
  ELSE [chain EXCEPT ![2] = Append(@, tuple)]

Init ==
  /\ payload \in [Tuples -> [Columns -> Values]]
  /\ phase = "build"
  /\ i = 0
  /\ column = 0
  /\ ht = EmptyTable
  /\ newHt = EmptyTable
  /\ walk = <<>>

(* build_hashtable_st_payload(): payload[0] of the next tuple becomes its  *)
(* key, and the tuple is inserted by it.                                   *)
BuildInsert ==
  /\ phase = "build"
  /\ i < NumR
  /\ LET tuple == [id |-> i + 1, key |-> payload[i + 1][0]]
         h == Hash(tuple.key)
     IN  ht' = [ht EXCEPT ![h] = Place(@, tuple)]
  /\ i' = i + 1
  /\ UNCHANGED <<payload, phase, column, newHt, walk>>

(* NPO_st() calls rehash_payload() for the first column. *)
EndBuild ==
  /\ phase = "build"
  /\ i = NumR
  /\ phase' = "loop"
  /\ column' = 1
  /\ UNCHANGED <<payload, i, ht, newHt, walk>>

(* rehash_payload() allocates a table of the same size. *)
BeginRehash ==
  /\ phase = "loop"
  /\ column <= LastColumn
  /\ phase' = "rehash"
  /\ newHt' = EmptyTable
  /\ walk' = Contents(ht)
  /\ UNCHANGED <<payload, i, column, ht>>

(* Faulty: the tuple is hashed by the key it was built with. *)
MoveTupleByKey ==
  /\ phase = "rehash"
  /\ walk # <<>>
  /\ LET tuple == Head(walk)
         h == Hash(tuple.key)
     IN  newHt' = [newHt EXCEPT ![h] = Place(@, tuple)]
  /\ walk' = Tail(walk)
  /\ UNCHANGED <<payload, phase, i, column, ht>>

(* The next tuple of the walk is inserted by the column.  Its key field is *)
(* set to the column first, but then the whole tuple is copied over it:    *)
(* the table is hashed by the column, its tuples keep the first key.       *)
MoveTuple ==
  /\ phase = "rehash"
  /\ walk # <<>>
  /\ LET tuple == Head(walk)
         h == Hash(payload[tuple.id][column])
     IN  newHt' = [newHt EXCEPT ![h] = Place(@, tuple)]
  /\ walk' = Tail(walk)
  /\ UNCHANGED <<payload, phase, i, column, ht>>

(* destroy_hashtable() frees the array of the old table but not the        *)
(* overflow buckets behind it; the new table is the table of the next      *)
(* round.                                                                  *)
EndRehash ==
  /\ phase = "rehash"
  /\ walk = <<>>
  /\ phase' = "loop"
  /\ column' = column + 16
  /\ ht' = newHt
  /\ UNCHANGED <<payload, i, newHt, walk>>

(* The last table is destroyed, and the result NPO_st() began with, 0, is   *)
(* returned: no lookup has added to it.                                    *)
Return ==
  /\ phase = "loop"
  /\ column > LastColumn
  /\ phase' = "returned"
  /\ UNCHANGED <<payload, i, column, ht, newHt, walk>>

Finished == phase = "returned" /\ UNCHANGED vars

Next ==
  \/ BuildInsert
  \/ EndBuild
  \/ BeginRehash
  \/ MoveTuple
  \/ EndRehash
  \/ Return
  \/ Finished

Spec == Init /\ [][Next]_vars

-----------------------------------------------------------------------------

(* The tuples that are in the hands of NPO_st(), in the order of a walk:   *)
(* during a rehash, those moved and those still to be visited.             *)
Held == IF phase = "rehash" THEN Contents(newHt) \o walk ELSE Contents(ht)

(* No rehash loses or duplicates a tuple: those inserted so far are held   *)
(* once each.  (Nothing is claimed about the key a rehash leaves them.)    *)
TuplesConserved ==
  /\ Len(Held) = i
  /\ {Held[k].id : k \in 1 .. Len(Held)} = 1 .. i

(* The column the tuples of a complete table are hashed by. *)
HashedBy == IF phase = "build" THEN 0
            ELSE IF column = 1 THEN 0 ELSE column - 16

(* Every tuple of a table is in the list its column hashes to: the list a  *)
(* lookup by that column walks.  (A lookup compares keys as well, and a    *)
(* rehash leaves the key what it was: MoveTuple.)                          *)
TuplesInTheirList ==
  /\ \A h \in Lists : \A k \in 1 .. Len(FlattenSeq(ht[h])) :
        Hash(payload[FlattenSeq(ht[h])[k].id][HashedBy]) = h
  /\ phase = "rehash" =>
        \A h \in Lists : \A k \in 1 .. Len(FlattenSeq(newHt[h])) :
           Hash(payload[FlattenSeq(newHt[h])[k].id][column]) = h

(* Only the first overflow bucket of a chain has room: looking at two      *)
(* buckets of the chain is enough to place a tuple.                        *)
OnlyFirstOverflowHasRoom ==
  \A table \in {ht, newHt} : \A h \in Lists :
    LET chain == table[h]
    IN  /\ Len(chain) > 1 => Full(chain[1])
        /\ \A k \in 2 .. Len(chain) : chain[k] # <<>>
        /\ \A k \in 3 .. Len(chain) : Full(chain[k])

=============================================================================
