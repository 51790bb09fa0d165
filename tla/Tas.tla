-------------------------------- MODULE Tas --------------------------------
(***************************************************************************)
(* tas() of src/dynamic_hashjoin/src/lock.h, as the pair of its effects:   *)
(* the byte it stores into the latch and the value it returns, both as     *)
(* functions of the byte it read.                                          *)
(*                                                                         *)
(* On x86 the body is `lock xchgb` with 1 in the register: 1 is stored and *)
(* the old byte is returned.  On aarch64 it is ldaxrb / eor #1 / stlxrb,   *)
(* and the operand that is returned is the one eor wrote: the complement   *)
(* of the old byte is stored, and the complement is returned.              *)
(***************************************************************************)
EXTENDS Integers

CONSTANT Arch    (* the instruction set lock.h is compiled for *)

ASSUME ArchAssumption == Arch \in {"x86", "aarch64"}

Bit == {0, 1}

(* Faulty: the byte that was read is stored back. *)
TasStoredKeeps(old) == old

(* Faulty: the exchange counts, as a fetch-and-add would. *)
TasStoredCounts(old) == old + 1

TasStored(old) == IF Arch = "x86" THEN 1 ELSE 1 - old

TasReturned(old) == IF Arch = "x86" THEN old ELSE 1 - old

(* `while (tas(_l))`: lock() returns when tas() returned 0. *)
TasAcquires(old) == TasReturned(old) = 0

=============================================================================
