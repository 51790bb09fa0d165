--------------------------- MODULE MCWisconsinJoin ---------------------------
(***************************************************************************)
(* Small tables, and the kinds of configuration of                         *)
(* src/dynamic_hashjoin/wisconsin-src/conf, for WisconsinJoin.             *)
(***************************************************************************)
EXTENDS WisconsinJoin

(* Keys have four bits: bit 0 is below the bits of the partitioners, bits  *)
(* 1 and 2 are theirs, and bit 3 is above those of the hash table.         *)
MCPartHash == [bits |-> 2, skipbits |-> 1]
MCTableHash == [bits |-> 3, skipbits |-> 0]

Both(algorithm, passes, pagesize, byparts) ==
  [algorithm |-> [w \in Sides |-> algorithm], passes |-> passes, pagesize |-> pagesize,
   partitionbuild |-> byparts, partitionprobe |-> byparts, steal |-> "no"]

Keys(r, s) == [build |-> r, probe |-> s]

(* Pages, and chunks of the table, of two tuples: three threads get a page *)
(* each, and a bucket takes up to three chunks.                            *)
Whole ==
  [conf : {Both("no", 1, 1, "no")},
   key : {Keys(<<0, 8, 0, 8, 0>>, <<0, 8, 1>>), Keys(<<0, 1, 0, 8>>, <<1, 0, 0, 8, 4>>)}]

Parallel ==
  [conf : {Both("parallel", 1, 1, "yes"), Both("parallel", 1, 2, "yes")},
   key : {Keys(<<0, 8, 0>>, <<0, 8, 1>>), Keys(<<2, 1, 0>>, <<0, 2, 0>>)}]

Independent ==
  [conf : {Both("independent", 1, NThreads, "yes")},
   key : {Keys(<<0, 2, 8>>, <<0>>)}]

(* Shares of the arrays of no tuple, of one and of two.                    *)
Radix ==
  [conf : {Both("radix", 1, 1, "yes"), Both("radix", 2, 1, "yes")},
   key : {Keys(r, s) : r \in {<<0, 8, 0, 2, 6>>, <<6, 2, 0>>, <<2>>},
                       s \in {<<0, 0, 0, 8, 2, 4, 0>>, <<6, 1, 2>>}}]

(* The whole build table is probed with the parts of the other.            *)
BuildWhole(c) == [c EXCEPT !.algorithm["build"] = "no", !.partitionbuild = "no"]

Mixed ==
  [conf : {BuildWhole(Both("parallel", 1, 1, "yes")), BuildWhole(Both("radix", 1, 1, "yes"))},
   key : {Keys(<<0, 8, 0>>, <<0, 8, 1>>)}]

(* conf/002048_radix1steal.conf *)
Stealing == BuildWhole([Both("radix", 1, 1, "yes") EXCEPT !.steal = "yes"])

(* Work stealing with tuples that have no partners: those that have may be *)
(* joined twice.                                                           *)
Stolen == [conf : {Stealing}, key : {Keys(<<0>>, <<1, 4>>)}]

MCInputs == Mixed \cup Whole \cup Parallel \cup Independent \cup Radix \cup Stolen

StealInputs == [conf : {Stealing}, key : {Keys(<<0>>, <<0, 4>>)}]

=============================================================================
