------------------------------- MODULE MCDevice -------------------------------
(* Small instances of Device and Getters for TLC, in units of 32 MB.       *)
EXTENDS Getters, TLC

MCTiers == {"LOW_END", "MID_RANGE", "HIGH_END"}

(* runtime.cpp:136-149 *)
MCWeightSize == [LOW_END |-> 8, MID_RANGE |-> 32, HIGH_END |-> 64]
MCKvSize     == [LOW_END |-> 1, MID_RANGE |-> 4,  HIGH_END |-> 8]

(* 512 MB, just under 4 GB, 4 GB, 16 GB; with a `long' of 2048 values, one *)
(* whose product is negative, and one whose product wraps to 4 GB.         *)
MCTotals == {16, 127, 128, 512, 1040, 2176}

(* Nothing; what leaves a 512 MB device with weights and KV cache exactly, *)
(* with the weights, and with less; what leaves a 16 GB one with exactly,  *)
(* and with less than, 4 GB.                                               *)
MCUsages == {0, 7, 8, 9, 384, 385}

(* All the detectors can report. *)
MCMachines ==
  UNION {{Detect(p, all, all - u) : u \in {v \in MCUsages : v <= all}} :
           p \in Platforms, all \in Totals}

MCBudgets == 0 .. 2176

Symmetry == Permutations(Addr)
=============================================================================
