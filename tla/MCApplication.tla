---------------------------- MODULE MCApplication ----------------------------
(* Small instances of Application for TLC, in units of 32 MB.              *)
EXTENDS Application, TLC

MCTiers == {"LOW_END", "MID_RANGE", "HIGH_END"}

(* runtime.cpp:136-149 *)
MCWeightSize == [LOW_END |-> 8, MID_RANGE |-> 32, HIGH_END |-> 64]
MCKvSize     == [LOW_END |-> 1, MID_RANGE |-> 4,  HIGH_END |-> 8]

(* 4 GB: LOW_END or MID_RANGE on Windows, by what others use.              *)
MCTotals == {128}

(* Nothing; the least that makes Windows LOW_END, which leaves room for    *)
(* two calls; what leaves room for exactly one, and for its weights alone, *)
(* both more than the half Linux leaves to others.                         *)
MCUsages == {0, 1, 119, 120}

MCMachines ==
  {Detect(p, all, all - u) : p \in Platforms, all \in MCTotals, u \in MCUsages}

MCBudgets == 0 .. 128

Symmetry == Permutations(Addr)
=============================================================================
