--------------------------- MODULE MCMemoryManager ---------------------------
(* Small instances of MemoryManager for TLC. *)
EXTENDS MemoryManager, TLC

MCBudgets == {0, 10}

(* 3 + 6 leaves exactly 10% free, 4 + 6 fills the budget, 5 is half of it; *)
(* 0 is a legal size; 30 wraps around the guard (5 + 30 = 3 mod 32).       *)
MCSizes == {0, 3, 5, 6, 30}

Symmetry == Permutations(Addr)
=============================================================================
