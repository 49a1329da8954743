------------------------------ MODULE Application ------------------------------
(***************************************************************************)
(* A program that uses the runtime on a device: what it gets from the      *)
(* runtime's getters, and the backend object behind them (src/hal).        *)
(*                                                                         *)
(* Device follows backend_ as far as it is set or not.  Here it is the     *)
(* object that BackendFactory makes and unload destroys, and the client    *)
(* keeps the raw pointer get_backend() gave it.  The client's code runs    *)
(* between calls and inside on_token, like everything else it does.        *)
(***************************************************************************)
EXTENDS Device

VARIABLES
  object,    \* *backend_; NULL when backend_ is not set
  handle,    \* the client's InferenceBackend*: "none", "null", "live" or
             \* "stale", when the object it points to is no more
  fetched,   \* get_backend was called inside that call (its place in the
             \* stack), which has not ended since; 0 otherwise
  client,    \* "running", or "crashed" by the use of its pointer
  usedThen   \* history: RAM that others used at the last initialize

appVars    == << object, handle, fetched, client, usedThen >>
clientVars == << handle, fetched, client >>
allVars    == << vars, deviceVars, appVars >>

(* What the platforms' detectors can name.                                 *)
BackendType ==
  {"CPU", "CUDA", "DIRECTML", "VULKAN", "METAL", "NNAPI", "COREML", "ONNX_MOBILE"}

(* CPUBackend: which of the two engines it names, and the context length   *)
(* it was initialized with (NULL before).                                  *)
CPUBackend(use_onnx) ==
  [device |-> "CPU", use_onnx |-> use_onnx, context |-> NULL]

Backend == [device : {"CPU"}, use_onnx : BOOLEAN, context : {NULL, 512, 2048}]

ASSUME BackendAssumption == NULL \notin Backend

(* CPUBackend::initialize prints the context length, and succeeds.         *)
WithContext(b, max_context_length) == [b EXCEPT !.context = max_context_length]

(* Faulty variant: the GPU is preferred.                                   *)
CreateOptimalOnGpu(supported) == [CPUBackend(FALSE) EXCEPT !.device = "CUDA"]

(* create_optimal: the list of backends is printed, and llama.cpp is it.   *)
CreateOptimal(supported) == CPUBackend(FALSE)

(* max_ctx *)
MaxContext(t) == IF t = "LOW_END" THEN 512 ELSE 2048

(* The detected backends, as the strings create_optimal is given.          *)
Supported == Detector(platform, total, total - others).backends

AppInit ==
  /\ DeviceInit
  /\ object = NULL
  /\ handle = "none"
  /\ fetched = 0
  /\ client = "running"
  /\ usedThen = 0

-----------------------------------------------------------------------------
AppInitialize ==
  /\ client = "running"
  /\ DeviceInitialize
  /\ usedThen' = others
  /\ UNCHANGED << object, clientVars >>

(* backend_ is assigned at `create', and with that the object it owned is  *)
(* destroyed; initialize is called on the new one at `init'; and whatever  *)
(* resets backend_ destroys it.                                            *)
AppRuns ==
  /\ client = "running"
  /\ RuntimeRuns
  /\ object' = CASE ~ backend'                    -> NULL
                 [] backend' /\ At("create")      -> CreateOptimal(Supported)
                 [] backend' /\ At("init")        -> WithContext(object, MaxContext(tier))
                 [] backend' /\ ~ (At("create") \/ At("init")) -> object
  /\ handle' = IF handle = "live" /\ (~ backend' \/ At("create"))
               THEN "stale" ELSE handle
  /\ fetched' = IF Len(stack') < fetched THEN 0 ELSE fetched
  /\ UNCHANGED << client, usedThen >>

AppUseChanges ==
  /\ client = "running"
  /\ UseChanges
  /\ UNCHANGED appVars

(* The client's own code has the thread. *)
ClientRuns ==
  /\ client = "running"
  /\ phase = "alive"
  /\ stack # << >> => Last(stack).pc \in Tokens

(* get_backend. *)
GetBackend ==
  /\ ClientRuns
  /\ handle' = IF object = NULL THEN "null" ELSE "live"
  /\ fetched' = Len(stack)
  /\ UNCHANGED << vars, deviceVars, object, client, usedThen >>

(* The client calls forward, forward_with_cache, prefill, decode or        *)
(* get_memory_usage through its pointer.  Each returns a constant and      *)
(* changes nothing.  On an object that was deleted the call is undefined:  *)
(* it may go unnoticed.                                                    *)
UseBackend ==
  /\ ClientRuns
  /\ handle # "none"
  /\ client' \in CASE handle = "live"  -> {"running"}
                   [] handle = "stale" -> {"running", "crashed"}
                   [] handle = "null"  -> {"crashed"}
  /\ UNCHANGED << vars, deviceVars, object, handle, fetched, usedThen >>

AppNext ==
  \/ AppInitialize
  \/ AppRuns
  \/ AppUseChanges
  \/ GetBackend
  \/ UseBackend

AppSpec == AppInit /\ [][AppNext]_allVars

-----------------------------------------------------------------------------
AppTypeOK ==
  /\ Supported \subseteq BackendType
  /\ object \in Backend \cup {NULL}
  /\ handle \in {"none", "null", "live", "stale"}
  /\ fetched \in 0 .. MaxDepth
  /\ client \in {"running", "crashed"}
  /\ usedThen \in Usages \cup {0}

(* A pointer fetched inside a call is good for the rest of that call, even *)
(* after calls that failed or were left by an exception: using it crashes  *)
(* only a client that has called the runtime from inside on_token.         *)
PointerLastsTheCall ==
  client = "crashed" => fetched = 0 \/ "reentry" \in upset

(* The device is one thing for the whole of a call: the blocks that answer *)
(* a call have the sizes of the tier detected last and the backend has its *)
(* context length -- although the tier changes at every initialize and an  *)
(* exception can leave blocks and a backend of an earlier tier behind.     *)
ServedAsDetected ==
  "reentry" \notin upset /\ stack # << >> /\ Last(stack).pc \in Tokens =>
    /\ [ptr |-> ram, size |-> WeightSize[tier]] \in ToSet(mgr.allocations)
    /\ [ptr |-> kv,  size |-> KvSize[tier]]     \in ToSet(mgr.allocations)
    /\ object.context = MaxContext(tier)

(* The budget is not read again before a call.  Still, where the detector  *)
(* measures, the model memory on the heap and the other processes together *)
(* exceed the RAM only if the others have taken more since initialize      *)
(* (Windows), or more than the half that is left to them (Linux, Apple).   *)
(* Two things take that away, and nothing else does: an initialize over    *)
(* live blocks, which the new manager knows nothing of, and a block lost   *)
(* by push_back; and so does a negative product, as in BudgetWithinRam.    *)
(* Blocks that exceptions and nested calls leave behind stay counted.      *)
OvercommitNeedsGrowth ==
  /\ platform \in Measuring
  /\ platform = "windows" \/ ~ Negative(total)
  /\ mgr # NULL
  /\ upset \cap {"reinit", "push_back"} = {}
  => /\ heap = Tracked(mgr)
     /\ mgr.allocated > total - others =>
          others > IF platform = "windows" THEN usedThen ELSE total \div 2

-----------------------------------------------------------------------------
(* What the invariants above need to be inductive.                         *)

DepthInv == Len(stack) <= MaxDepth

(* The object is there when backend_ is set, and a pointer that is good    *)
(* points to it.                                                           *)
ObjectInv ==
  /\ object # NULL <=> backend
  /\ object # NULL => ~ object.use_onnx
  /\ handle = "live" => backend

(* A pointer fetched inside a call is good, and the call is not over.      *)
PointerInv ==
  client = "running" /\ fetched > 0 /\ "reentry" \notin upset =>
    /\ handle = "live"
    /\ stack # << >>
    /\ Last(stack).pc \in Tokens \cup {"unload"}

(* What a call has been given so far, statement by statement.              *)
ServedInv ==
  "reentry" \notin upset /\ stack # << >> =>
    /\ Last(stack).pc # "weights" =>
         [ptr |-> ram, size |-> WeightSize[tier]] \in ToSet(mgr.allocations)
    /\ Last(stack).pc \notin {"weights", "kv"} =>
         [ptr |-> kv, size |-> KvSize[tier]] \in ToSet(mgr.allocations)
    /\ Last(stack).pc \in Tokens \cup {"unload"} =>
         object.context = MaxContext(tier)

(* What a measuring detector made of the RAM when it was asked last.       *)
BudgetInv ==
  platform \in Measuring /\ mgr # NULL =>
    mgr.max = IF platform = "windows" THEN total - usedThen ELSE Long(total) \div 2

(* Every live block is on the record of the manager there is now.          *)
RecordedInv ==
  mgr # NULL /\ upset \cap {"reinit", "push_back"} = {} => heap = Tracked(mgr)

AppIInv ==
  /\ AppTypeOK
  /\ DepthInv
  /\ ObjectInv
  /\ PointerInv
  /\ ServedInv
  /\ BudgetInv
  /\ RecordedInv
  /\ PointerLastsTheCall

=============================================================================
