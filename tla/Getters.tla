-------------------------------- MODULE Getters --------------------------------
(***************************************************************************)
(* A program that asks the runtime before it calls it: get_device_spec and *)
(* get_memory_stats (src/core/runtime.cpp).                                *)
(*                                                                         *)
(* The getters return copies, which the program keeps while the runtime    *)
(* goes on.  Of hardware_spec_ Device has the tier, and mgr.max is its     *)
(* available_ram_bytes.  The three other getters of a manager return null  *)
(* pointers that nothing ever sets, and are left out.                      *)
(***************************************************************************)
EXTENDS Device

VARIABLES
  spec,      \* the client's copy of hardware_spec_; NULL before the first
  stats,     \* the client's copy of the MemoryStats, as old as `spec'
  foretold   \* the call (its place in the stack) that began, or is about to
             \* begin, right after the copies were taken; 0 for none

getterVars == << spec, stats, foretold >>
everything == << vars, deviceVars, getterVars >>

(* The members of HardwareSpec that have no constructor.                   *)
Numbers ==
  {"os", "cpu_cores", "cpu_frequency_mhz", "has_neon", "has_sve",
   "total_ram_bytes", "available_ram_bytes", "has_gpu", "gpu_vram_bytes",
   "is_battery_powered", "battery_percent",
   "current_temperature_celsius", "max_safe_temperature_celsius",
   "has_fpu", "has_int8_acceleration", "supports_simd", "tier"}

(* Those that detect() assigns on a platform.                              *)
Assigned(p) ==
  {"os", "cpu_cores", "total_ram_bytes", "available_ram_bytes", "tier"}
  \cup CASE p = "windows" -> {"cpu_frequency_mhz", "has_gpu", "has_fpu",
                              "has_int8_acceleration", "supports_simd"}
         [] p = "apple"   -> {"has_gpu"}
         [] p = "android" -> {"has_gpu", "is_battery_powered"}
         [] p \in {"linux", "fallback"} -> {}

(* Those that hold whatever memory held: `HardwareSpec spec;' is returned  *)
(* with the rest unwritten.  Before initialize make_unique has zeroed all. *)
Unset == IF mgr = NULL THEN {} ELSE Numbers \ Assigned(platform)

(* Faulty variant: without a specification there is no tier.               *)
TierShownOrNull == {tier}

(* What a reader finds in the tier; 0, before initialize, is LOW_END.      *)
TierShown ==
  IF "tier" \in Unset THEN Tiers
  ELSE {IF tier = NULL THEN "LOW_END" ELSE tier}

AvailableShown ==
  IF "available_ram_bytes" \in Unset THEN Bytes ELSE {MemoryStats.total}

SpecCopy  == [tier : Tiers, available : Bytes]
StatsCopy == [total : Bytes, allocated : Bytes, free : Bytes]

GettersInit ==
  /\ DeviceInit
  /\ spec = NULL
  /\ stats = NULL
  /\ foretold = 0

-----------------------------------------------------------------------------
(* The runtime runs.  Copies tell of the next call only, and are dropped   *)
(* when it is over.                                                        *)
Keep == spec' = spec /\ stats' = stats /\ foretold' = foretold
Drop == spec' = NULL /\ stats' = NULL /\ foretold' = 0

GettersRuns ==
  /\ DeviceInitialize \/ RuntimeRuns
  /\ IF Len(stack') < foretold THEN Drop ELSE Keep

GettersUseChanges ==
  /\ UseChanges
  /\ Keep

(* get_device_spec and get_memory_stats, by the client's own code: between *)
(* calls, or in on_token.                                                  *)
Look ==
  /\ phase = "alive"
  /\ stack # << >> => Last(stack).pc \in Tokens
  /\ spec' \in [tier : TierShown, available : AvailableShown]
  /\ stats' = [total |-> MemoryStats.total, allocated |-> MemoryStats.allocated,
               free |-> MemoryStats.free]
  /\ foretold' = Len(stack) + 1
  /\ UNCHANGED << vars, deviceVars >>

GettersNext == GettersRuns \/ GettersUseChanges \/ Look

GettersSpec == GettersInit /\ [][GettersNext]_everything

-----------------------------------------------------------------------------
GettersTypeOK ==
  /\ spec  \in SpecCopy  \cup {NULL}
  /\ stats \in StatsCopy \cup {NULL}
  /\ foretold \in 0 .. MaxDepth + 1

(* A client can ask first: a call made right after the copies were taken   *)
(* fails exactly if the weights and the KV cache of the tier they show are *)
(* more than the free bytes they show, which is to say more than the       *)
(* available RAM they show less what they show as allocated -- after       *)
(* exceptions that left blocks behind, after an initialize that made a new *)
(* budget over them, from inside on_token, and whatever nested calls and   *)
(* initializations do before the call ends.                                *)
CopiesForetell ==
  [][foretold = Len(stack) /\ Len(stack') < Len(stack) =>
       LET need == Demand(spec.tier)
       IN  /\ reply' = "ok"    => /\ need <= stats.free
                                  /\ stats.allocated + need <= spec.available
           /\ reply' = "error" => /\ need > stats.free
                                  /\ stats.allocated + need > spec.available]_everything
=============================================================================
