--------------------------- MODULE MCRuntimeService ---------------------------
(* Small instances of RuntimeService for TLC, in units of 32 MB.           *)
EXTENDS RuntimeService, TLC

MCTiers == {"LOW_END", "MID_RANGE", "HIGH_END"}

(* runtime.cpp:136-149 *)
MCWeightSize == [LOW_END |-> 8, MID_RANGE |-> 32, HIGH_END |-> 64]
MCKvSize     == [LOW_END |-> 1, MID_RANGE |-> 4,  HIGH_END |-> 8]

Machine(t, a) == [tier |-> t, available |-> a]

(* LOW_END: no RAM, too little for the weights, for the KV cache, exactly  *)
(* enough, more; MID_RANGE and HIGH_END.                                   *)
MCMachines ==
  {Machine("LOW_END", 0), Machine("LOW_END", 7), Machine("LOW_END", 8),
   Machine("LOW_END", 9), Machine("LOW_END", 18),
   Machine("MID_RANGE", 64), Machine("HIGH_END", 256)}

MCBudgets == {m.available : m \in MCMachines}
=============================================================================
