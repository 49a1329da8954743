------------------------------ MODULE MCRuntime ------------------------------
(* Small instances of Runtime for TLC.  Sizes are in units of 32 MB.       *)
EXTENDS Runtime, TLC

MCTiers == {"LOW_END", "MID_RANGE", "HIGH_END"}

(* runtime.cpp:136-149 *)
MCWeightSize == [LOW_END |-> 8, MID_RANGE |-> 32, HIGH_END |-> 64]
MCKvSize     == [LOW_END |-> 1, MID_RANGE |-> 4,  HIGH_END |-> 8]

Machine(t, a) == [tier |-> t, available |-> a]

(* On a LOW_END machine: nothing fits; the weights fit, the KV cache does  *)
(* not; one call fits exactly; two calls fit.  On the others, the least    *)
(* RAM the detectors put in that tier.                                     *)
MCMachines ==
  {Machine("LOW_END", 7), Machine("LOW_END", 8), Machine("LOW_END", 9),
   Machine("LOW_END", 18), Machine("MID_RANGE", 64), Machine("HIGH_END", 256)}

OneMachine == {Machine("LOW_END", 18)}

MCBudgets == {m.available : m \in MCMachines}

AllFaults  == {"bad_alloc", "push_back", "create", "init", "callback"}
AllReentry == {"generate", "streaming", "shutdown", "initialize"}

Symmetry == Permutations(Addr)
=============================================================================
