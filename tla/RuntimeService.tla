----------------------------- MODULE RuntimeService -----------------------------
(***************************************************************************)
(* The service program (src/launcher/runtime_service.cpp): it initializes  *)
(* a runtime, makes one call, and sleeps for as long as it lives, whatever *)
(* the call has left in memory.  Nothing catches an exception.             *)
(***************************************************************************)
EXTENDS Runtime

VARIABLE
  at  \* where main is: "start", "initialize", "generate", "generating",
      \* "asleep", or over: "exited", "terminated"

serviceVars == << vars, at >>

ServiceInit == Init /\ at = "start"

(* Without a model path, main prints its usage and returns 1.              *)
CheckUsage ==
  /\ at = "start"
  /\ at' \in {"initialize", "exited"}
  /\ UNCHANGED vars

(* create never returns null, and initialize never returns false.          *)
CreateAndInitialize ==
  /\ at = "initialize"
  /\ Initialize
  /\ at' = "generate"

Generate ==
  /\ at = "generate"
  /\ Call("generate")
  /\ at' = "generating"

(* The call ends with a response, which may be an error message, or by an  *)
(* exception, which ends the program.                                      *)
Generating ==
  /\ at = "generating"
  /\ Step
  /\ at' = IF stack' # << >> THEN "generating"
           ELSE IF reply' = "threw" THEN "terminated" ELSE "asleep"

ServiceNext ==
  \/ CheckUsage
  \/ CreateAndInitialize
  \/ Generate
  \/ Generating

ServiceSpec == ServiceInit /\ [][ServiceNext]_serviceVars

(* main has a thread to itself, which keeps running. *)
FairServiceSpec == ServiceSpec /\ WF_serviceVars(ServiceNext)

-----------------------------------------------------------------------------
(* The service sleeps lean: whichever way the call went -- refused at the  *)
(* weights or at the KV cache, no backend, a backend that does not         *)
(* initialize, an answer -- nothing of the model is in memory when the     *)
(* sleep begins that is never to end.                                      *)
SleepsLean ==
  at = "asleep" => heap = {} /\ Held = {} /\ ~ backend /\ MemoryStats.allocated = 0

(* The single call does not keep the service from its sleep: main gets     *)
(* there, or the program is over.                                          *)
Settles == <>(at \in {"asleep", "exited", "terminated"})

=============================================================================
