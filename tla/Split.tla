------------------------------- MODULE Split -------------------------------
(***************************************************************************)
(* What a partitioner promises the threads that call its split(): nobody   *)
(* returns before everybody has called, everybody returns the same parts,  *)
(* and these hold every tuple of the input once, in the part it hashes to. *)
(***************************************************************************)
EXTENDS Integers

CONSTANT Threads

VARIABLES
  partOf,             (* the part that each tuple hashes to                *)
  numParts,           (* how many parts there are                          *)
  called, returned,   (* threads that have called, and that have returned  *)
  copies              (* how often each part holds each tuple              *)

inputVars == <<partOf, numParts>>
splitVars == <<inputVars, called, returned, copies>>

NoCopies == [p \in 0 .. (numParts - 1) |-> [x \in DOMAIN partOf |-> 0]]
EachOnce ==
  [p \in 0 .. (numParts - 1) |-> [x \in DOMAIN partOf |-> IF p = partOf[x] THEN 1 ELSE 0]]

SplitInit ==
  /\ called = {}
  /\ returned = {}
  /\ copies = NoCopies

Call(t) ==
  /\ t \notin called
  /\ called' = called \cup {t}
  /\ UNCHANGED <<inputVars, returned, copies>>

Return(t) ==
  /\ called = Threads
  /\ t \notin returned
  /\ returned' = returned \cup {t}
  /\ copies' = EachOnce
  /\ UNCHANGED <<inputVars, called>>

SplitNext == \E t \in Threads : Call(t) \/ Return(t)

SplitSpec == SplitInit /\ [][SplitNext]_splitVars

=============================================================================
