---------------------------- MODULE MCHttpService ----------------------------
(* Small instances of HttpService for TLC, in units of 32 MB.              *)
EXTENDS HttpService

MCTiers == {"LOW_END", "MID_RANGE", "HIGH_END"}

(* runtime.cpp:136-149 *)
MCWeightSize == [LOW_END |-> 8, MID_RANGE |-> 32, HIGH_END |-> 64]
MCKvSize     == [LOW_END |-> 1, MID_RANGE |-> 4,  HIGH_END |-> 8]

Machine(t, a) == [tier |-> t, available |-> a]

(* The weights fit and the KV cache does not; one call fits exactly.       *)
MCMachines == {Machine("LOW_END", 8), Machine("LOW_END", 9)}
MCBudgets  == {8, 9}

Ask(p, l) == [prompt |-> p, length |-> l]

MCRequests == {Ask("text", "exact"), Ask("text", "short"), Ask("text", "long"),
               Ask("text", "bad"), Ask("empty", "absent")}

LowerCase == {Ask("text", "lower")}
=============================================================================
