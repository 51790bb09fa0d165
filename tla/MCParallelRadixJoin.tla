------------------------ MODULE MCParallelRadixJoin ------------------------
(***************************************************************************)
(* The inputs that ParallelRadixJoin is checked with.                      *)
(***************************************************************************)
EXTENDS ParallelRadixJoin

RelR == [0 .. (NumR - 1) -> Keys]
RelS == [0 .. (NumS - 1) -> Keys]

(* All keys, without skew handling, each thread on a node of its own. *)
PlainInputs == [skew : {FALSE}, regions : {2}, jf : JoinFunctions, r : RelR, s : RelS]

(* The keys of a relation, from a sequence. *)
KeyArray(keys) == [i \in 0 .. (Len(keys) - 1) |-> keys[i + 1]]

(* Without NUMA: the threads share the queues, and get tasks of two        *)
(* clusters of pass 1, or several of one.                                  *)
SharedQueueInputs ==
  [skew : {FALSE}, regions : {1}, jf : JoinFunctions,
   r : {KeyArray(<<0, 1, 2>>), KeyArray(<<0, 2, 4>>), KeyArray(<<2, 0, 2>>)}, s : RelS]

SkewInput(join, r, s) ==
  [skew : {TRUE}, regions : {1, 2}, jf : join, r : {KeyArray(r)}, s : {KeyArray(s)}]

(* A cluster of R, then of S, that is large in both passes, or one that is *)
(* so in the first only, next to one that is not skewed; two skewed ones;  *)
(* and a large cluster of S without tuples in R, which only                *)
(* histogram_join() can join.                                              *)
SkewInputs ==
  SkewInput(JoinFunctions, <<0, 0, 1>>, <<0, 1>>)
    \cup SkewInput(JoinFunctions, <<0, 2, 1>>, <<2, 0>>)
    \cup SkewInput(JoinFunctions, <<0, 4, 2>>, <<4, 4>>)
    \cup SkewInput(JoinFunctions, <<0, 1, 0>>, <<1, 1>>)
    \cup SkewInput({"histogram_join"}, <<0, 1, 1>>, <<2, 2>>)

MCInputs == PlainInputs \cup SharedQueueInputs \cup SkewInputs

=============================================================================
