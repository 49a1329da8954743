------------------------------- MODULE Runtime -------------------------------
(***************************************************************************)
(* LLMRuntimeImpl (src/core/runtime.cpp) and its client.                   *)
(*                                                                         *)
(* A call of generate or generate_streaming loads weights, KV cache and    *)
(* backend, answers, and unloads them.  The runtime starts no thread; what *)
(* interleaves with a call is the client's own code inside on_token, which *)
(* may call the runtime again or throw.  `stack' holds the calls under     *)
(* way, the innermost last; their pc names the statement they run next:    *)
(*                                                                         *)
(*   weights, kv, create, init   the steps of load_backend_resources       *)
(*   token1, token2, token3      on_token is running for that token        *)
(*   unload                      unload_backend_resources and return       *)
(*                                                                         *)
(* Exceptions are not caught anywhere in the runtime: one that new[] or    *)
(* on_token throws ends the call and skips what was left of it.            *)
(***************************************************************************)
EXTENDS HeapManager

CONSTANTS
  Tiers,       \* DeviceTier
  Machines,    \* what detect() can report: [tier, available_ram_bytes]
  WeightSize,  \* weight_size for each tier
  KvSize,      \* kv_size for each tier
  Reentry,     \* what on_token may call: "generate", "streaming",
               \* "shutdown", "initialize"
  Faults,      \* what may go wrong: "bad_alloc" and "push_back" (inside an
               \* allocation), "create" and "init" (the backend), "callback"
               \* (on_token throws)
  MaxDepth     \* bound: calls of generate/generate_streaming in progress

ASSUME MachinesAssumption == Machines \subseteq [tier : Tiers, available : Budgets]
ASSUME SizesAssumption ==
  WeightSize \in [Tiers -> Nat] /\ KvSize \in [Tiers -> Nat]
ASSUME DepthAssumption == MaxDepth \in Nat \ {0}
ASSUME NullPointerAssumption == NULL \notin Manager \cup Tiers

VARIABLES
  phase,    \* "alive"; "crashed" after a null pointer was dereferenced;
            \* "destroyed" once the unique_ptr<LLMRuntime> is gone
  tier,     \* hardware_spec_.tier; NULL before initialize
  mgr,      \* *memory_manager_; NULL before initialize
  heap,     \* addresses of the live blocks, whoever allocated them
  ram,      \* allocated_ram_ptr_
  kv,       \* allocated_kv_ptr_
  backend,  \* backend_ is set
  stack,    \* the calls in progress
  reply,    \* how the last operation to end, ended
  upset     \* history: which kinds of disturbance have happened

vars == << phase, tier, mgr, heap, ram, kv, backend, stack, reply, upset >>

Tokens  == {"token1", "token2", "token3"}
Loading == {"weights", "kv", "create", "init"}
Ops     == {"generate", "streaming"}
Frame   == [op : Ops, pc : Loading \cup Tokens \cup {"unload"}, on_token : BOOLEAN]

Init ==
  /\ phase = "alive"
  /\ tier = NULL
  /\ mgr = NULL
  /\ heap = {}
  /\ ram = NULL
  /\ kv = NULL
  /\ backend = FALSE
  /\ stack = << >>
  /\ reply = "none"
  /\ upset = {}

At(pc) == phase = "alive" /\ stack # << >> /\ Last(stack).pc = pc

Goto(pc) == stack' = [stack EXCEPT ![Len(stack)].pc = pc]

Return(r) == stack' = Front(stack) /\ reply' = r

(* The client calls the runtime: from outside, or from inside on_token.    *)
MayEnter(op) ==
  /\ phase = "alive"
  /\ stack # << >> => op \in Reentry /\ Last(stack).pc \in Tokens

(* The blocks the runtime has pointers to. *)
Held == {ram, kv} \ {NULL}

(* The call is made from inside on_token. *)
Nested == IF stack = << >> THEN {} ELSE {"reentry"}

-----------------------------------------------------------------------------
(* initialize: detect the machine, then replace the memory manager by one  *)
(* for the RAM available now.  The old manager goes without freeing the    *)
(* blocks in its vector (it has no destructor of its own).                 *)
InitializeOn(m) ==
  /\ MayEnter("initialize")
  /\ tier' = m.tier
  /\ mgr' = NewManager(m.available)
  /\ upset' = upset \cup Nested \cup IF heap = {} THEN {} ELSE {"reinit"}
  /\ reply' = "none"
  /\ UNCHANGED << phase, heap, ram, kv, backend, stack >>

Initialize == \E m \in Machines : InitializeOn(m)

(* generate and generate_streaming up to load_backend_resources; the first *)
(* thing they do, print_memory_stats, dereferences memory_manager_.        *)
Call(op) ==
  /\ MayEnter(op)
  /\ Len(stack) < MaxDepth
  /\ mgr # NULL
  /\ \E f \in [op : {op}, pc : {"weights"}, on_token : BOOLEAN] :
       /\ f.on_token => op = "streaming"
       /\ stack' = Append(stack, f)
  /\ upset' = upset \cup Nested \cup IF Held = {} THEN {} ELSE {"unclean"}
  /\ UNCHANGED << phase, tier, mgr, heap, ram, kv, backend, reply >>

CallTooEarly(op) ==
  /\ MayEnter(op)
  /\ mgr = NULL
  /\ phase' = "crashed"
  /\ upset' = upset \cup {"early"}
  /\ UNCHANGED << tier, mgr, heap, ram, kv, backend, stack, reply >>

(* An allocation of n bytes ends in an exception: new[] throws, or it      *)
(* hands out a block and push_back throws.                                 *)
AllocationThrows(n, marks) ==
  /\ ~ Refuses(mgr, n)
  /\ \/ /\ "bad_alloc" \in Faults
        /\ upset' = upset \cup marks
        /\ UNCHANGED heap
     \/ /\ "push_back" \in Faults
        /\ n <= HeapMax
        /\ \E p \in Addr \ heap : heap' = heap \cup {p}
        /\ upset' = upset \cup marks \cup {"push_back"}
  /\ Return("threw")
  /\ UNCHANGED << phase, tier, mgr, ram, kv, backend >>

(* Faulty variant: weights that are still there are used again.            *)
WeightsReused ==
  /\ At("weights")
  /\ ram = NULL => ~ Refuses(mgr, WeightSize[tier])
  /\ \E p \in Addr \ heap :
       /\ mgr'  = IF ram = NULL THEN Track(mgr, p, WeightSize[tier]) ELSE mgr
       /\ heap' = IF ram = NULL THEN heap \cup {p} ELSE heap
       /\ ram'  = IF ram = NULL THEN p ELSE ram
  /\ Goto("kv")
  /\ UNCHANGED << phase, tier, kv, backend, reply, upset >>

WeightsAllocated ==
  /\ At("weights")
  /\ ~ Refuses(mgr, WeightSize[tier])
  /\ WeightSize[tier] <= HeapMax
  /\ \E p \in Addr \ heap :
       /\ mgr' = Track(mgr, p, WeightSize[tier])
       /\ heap' = heap \cup {p}
       /\ ram' = p
  /\ Goto("kv")
  /\ UNCHANGED << phase, tier, kv, backend, reply, upset >>

WeightsRefused ==
  /\ At("weights")
  /\ Refuses(mgr, WeightSize[tier])
  /\ ram' = NULL
  /\ Return("error")
  /\ UNCHANGED << phase, tier, mgr, heap, kv, backend, upset >>

WeightsThrow == At("weights") /\ AllocationThrows(WeightSize[tier], {})

KvAllocated ==
  /\ At("kv")
  /\ ~ Refuses(mgr, KvSize[tier])
  /\ KvSize[tier] <= HeapMax
  /\ \E p \in Addr \ heap :
       /\ mgr' = Track(mgr, p, KvSize[tier])
       /\ heap' = heap \cup {p}
       /\ kv' = p
  /\ Goto("create")
  /\ UNCHANGED << phase, tier, ram, backend, reply, upset >>

(* Faulty variant: the weights stay when the KV cache does not fit.        *)
KvRefusedKeepingWeights ==
  /\ At("kv")
  /\ Refuses(mgr, KvSize[tier])
  /\ kv' = NULL
  /\ Return("error")
  /\ UNCHANGED << phase, tier, mgr, heap, ram, backend, upset >>

(* The KV cache does not fit: the weights are given back.                  *)
KvRefused ==
  /\ At("kv")
  /\ Refuses(mgr, KvSize[tier])
  /\ mgr' = Untrack(mgr, ram)
  /\ heap' = heap \ ({ram} \cap Tracked(mgr))
  /\ ram' = NULL
  /\ kv' = NULL
  /\ Return("error")
  /\ UNCHANGED << phase, tier, backend, upset >>

KvThrows == At("kv") /\ AllocationThrows(KvSize[tier], {"throw"})

-----------------------------------------------------------------------------
(* Faulty variants of the release: the pointers keep their values; only    *)
(* the weights are given back.                                             *)
ReleaseKeepingPointers ==
  /\ mgr' = IF mgr = NULL THEN NULL ELSE Untrack(Untrack(mgr, ram), kv)
  /\ heap' = IF mgr = NULL THEN heap ELSE heap \ ({ram, kv} \cap Tracked(mgr))
  /\ backend' = FALSE
  /\ UNCHANGED << ram, kv >>

ReleaseWeightsOnly ==
  /\ mgr' = IF mgr = NULL THEN NULL ELSE Untrack(mgr, ram)
  /\ heap' = IF mgr = NULL THEN heap ELSE heap \ ({ram} \cap Tracked(mgr))
  /\ ram' = NULL
  /\ kv' = NULL
  /\ backend' = FALSE

(* unload_backend_resources.  deallocate ignores a pointer its manager has *)
(* no record of: one from before the last initialize stays allocated.      *)
Release ==
  /\ mgr' = IF mgr = NULL THEN NULL ELSE Untrack(Untrack(mgr, ram), kv)
  /\ heap' = IF mgr = NULL THEN heap ELSE heap \ ({ram, kv} \cap Tracked(mgr))
  /\ ram' = NULL
  /\ kv' = NULL
  /\ backend' = FALSE

CreateBackend ==
  /\ At("create")
  /\ backend' = TRUE
  /\ Goto("init")
  /\ UNCHANGED << phase, tier, mgr, heap, ram, kv, reply, upset >>

(* Faulty variant: a null backend_ goes unnoticed.                         *)
CreateFailsUnnoticed ==
  /\ At("create")
  /\ "create" \in Faults
  /\ Goto("init")
  /\ UNCHANGED << phase, tier, mgr, heap, ram, kv, backend, reply, upset >>

(* create_optimal returned null: everything is released again.             *)
CreateFails ==
  /\ At("create")
  /\ "create" \in Faults
  /\ Release
  /\ Return("error")
  /\ upset' = upset \cup {"backend"}
  /\ UNCHANGED << phase, tier >>

(* backend_->initialize succeeded; generate forms its response and streams *)
(* nothing, generate_streaming makes its first on_token call if there is   *)
(* an on_token.                                                            *)
InitBackend ==
  /\ At("init")
  /\ Goto(IF Last(stack).on_token THEN "token1" ELSE "unload")
  /\ UNCHANGED << phase, tier, mgr, heap, ram, kv, backend, reply, upset >>

(* Faulty variant: try another backend instead of giving up.               *)
InitFailsRetrying ==
  /\ At("init")
  /\ "init" \in Faults
  /\ backend' = FALSE
  /\ Goto("create")
  /\ UNCHANGED << phase, tier, mgr, heap, ram, kv, reply, upset >>

(* backend_->initialize returned false: everything is released again.      *)
InitFails ==
  /\ At("init")
  /\ "init" \in Faults
  /\ Release
  /\ Return("error")
  /\ upset' = upset \cup {"backend"}
  /\ UNCHANGED << phase, tier >>

-----------------------------------------------------------------------------
(* Faulty variant: the name is all that is needed of the backend, which is *)
(* given up before the last token.                                         *)
TokenReturnsEarlyReset ==
  /\ \/ At("token1") /\ Goto("token2") /\ UNCHANGED backend
     \/ At("token2") /\ Goto("token3") /\ backend' = FALSE
     \/ At("token3") /\ Goto("unload") /\ UNCHANGED backend
  /\ UNCHANGED << phase, tier, mgr, heap, ram, kv, reply, upset >>

(* on_token returned.  The text of the third token asks the backend for    *)
(* its name, so it needs the backend that was loaded before the first.     *)
TokenReturns ==
  /\ \/ At("token1") /\ Goto("token2")
     \/ At("token2") /\ backend /\ Goto("token3")
     \/ At("token3") /\ Goto("unload")
  /\ UNCHANGED << phase, tier, mgr, heap, ram, kv, backend, reply, upset >>

ThirdTokenCrashes ==
  /\ At("token2")
  /\ ~ backend
  /\ phase' = "crashed"
  /\ UNCHANGED << tier, mgr, heap, ram, kv, backend, stack, reply, upset >>

(* on_token throws: the exception leaves generate_streaming at once.       *)
TokenThrows ==
  /\ \E pc \in Tokens : At(pc)
  /\ "callback" \in Faults
  /\ Return("threw")
  /\ upset' = upset \cup {"throw"}
  /\ UNCHANGED << phase, tier, mgr, heap, ram, kv, backend >>

Unload ==
  /\ At("unload")
  /\ Release
  /\ Return("ok")
  /\ UNCHANGED << phase, tier, upset >>

(* Faulty variant: only a runtime with a backend is unloaded.              *)
ShutdownWhenLoaded ==
  /\ MayEnter("shutdown")
  /\ IF backend THEN Release ELSE UNCHANGED << mgr, heap, ram, kv, backend >>
  /\ reply' = "shutdown"
  /\ upset' = upset \cup Nested
  /\ UNCHANGED << phase, tier, stack >>

Shutdown ==
  /\ MayEnter("shutdown")
  /\ Release
  /\ reply' = "shutdown"
  /\ upset' = upset \cup Nested
  /\ UNCHANGED << phase, tier, stack >>

(* The owner drops its unique_ptr<LLMRuntime>.  LLMRuntime has no virtual  *)
(* destructor: delete runs ~LLMRuntime and not ~LLMRuntimeImpl, so neither *)
(* shutdown() nor the members' destructors run.                            *)
Destroy ==
  /\ phase = "alive"
  /\ stack = << >>
  /\ phase' = "destroyed"
  /\ UNCHANGED << tier, mgr, heap, ram, kv, backend, stack, reply, upset >>

(* The steps of a call in progress, as opposed to those of the client.     *)
Step ==
  \/ WeightsAllocated \/ WeightsRefused \/ WeightsThrow
  \/ KvAllocated \/ KvRefused \/ KvThrows
  \/ CreateBackend \/ CreateFails
  \/ InitBackend \/ InitFails
  \/ TokenReturns \/ ThirdTokenCrashes \/ TokenThrows
  \/ Unload

Next ==
  \/ Initialize
  \/ \E op \in Ops : Call(op) \/ CallTooEarly(op)
  \/ Step
  \/ Shutdown
  \/ Destroy

Spec == Init /\ [][Next]_vars

(* The thread inside a call keeps running, and on_token ends.              *)
FairSpec == Spec /\ WF_vars(Step)

-----------------------------------------------------------------------------
(* get_memory_stats, as far as its fields are set. *)
MemoryStats ==
  IF mgr = NULL
  THEN [total |-> 0, allocated |-> 0, free |-> 0]
  ELSE [total |-> mgr.max, allocated |-> mgr.allocated, free |-> FreeBytes(mgr)]

(* What can make the runtime lose a block for good: a call begun while it  *)
(* still holds one (from inside on_token, or after an exception and before *)
(* a shutdown), a failed push_back, an initialize over live blocks.        *)
Losing == {"unclean", "push_back", "reinit"}

TypeOK ==
  /\ phase \in {"alive", "crashed", "destroyed"}
  /\ tier \in Tiers \cup {NULL}
  /\ mgr = NULL \/ mgr \in Manager
  /\ heap \subseteq Addr
  /\ ram \in Addr \cup {NULL}
  /\ kv \in Addr \cup {NULL}
  /\ backend \in BOOLEAN
  /\ stack \in Seq(Frame)
  /\ reply \in {"none", "ok", "error", "threw", "shutdown"}
  /\ upset \subseteq {"early", "reentry", "backend", "throw"} \cup Losing

(* No re-entry, exception or re-initialisation makes the runtime point at  *)
(* a freed block, or at the same block twice: a release is never a double  *)
(* delete.  And the current manager records live blocks only.              *)
NoDangling ==
  /\ Held \subseteq heap
  /\ ram = kv => ram = NULL
  /\ mgr # NULL => Tracked(mgr) \subseteq heap

(* The budget holds at every step, nested calls included.                  *)
BudgetKept ==
  mgr # NULL => mgr.allocated <= mgr.max /\ MemoryStats.free = mgr.max - mgr.allocated

(* The counter the stats report is the sum of the recorded sizes.          *)
StatsAddUp ==
  mgr # NULL =>
    MemoryStats.allocated
      = FoldSeq(LAMBDA b, total : b.size + total, 0, mgr.allocations)

(* Nothing else loses memory: an exception, a refusal, a failed backend or *)
(* a nested shutdown leaves every live block in ram or kv and charged to   *)
(* the current budget, so that a shutdown gives it back.                   *)
NothingLost ==
  upset \cap Losing = {} =>
    heap = Held /\ (mgr # NULL => Tracked(mgr) = Held)

(* Lazy allocation: between calls the runtime holds nothing, unless an     *)
(* exception ended a call or one of the above has happened.                *)
IdleHoldsNothing ==
  stack = << >> /\ upset \cap (Losing \cup {"throw"}) = {} =>
    heap = {} /\ Held = {} /\ ~ backend /\ MemoryStats.allocated = 0

(* Even after exceptions: a call that answers has its weights, its KV      *)
(* cache and (from init on) its backend.  Only re-entry can take them away.*)
ServingHoldsAll ==
  "reentry" \notin upset /\ stack # << >> =>
    /\ Last(stack).pc \notin {"weights"} => ram # NULL
    /\ Last(stack).pc \notin {"weights", "kv"} => kv # NULL
    /\ Last(stack).pc \in Tokens \cup {"init", "unload"} => backend

(* Calls crash only when made before initialize or from inside on_token.   *)
CrashNeedsMisuse ==
  phase = "crashed" => upset \cap {"early", "reentry"} # {}

(* What a call on a machine of tier t takes. *)
Demand(t) == WeightSize[t] + KvSize[t]

(* The reply tells the budget: an undisturbed call fails exactly on the    *)
(* machines whose available RAM does not cover weights plus KV cache.      *)
ReplyTellsBudget ==
  upset = {} /\ stack = << >> /\ mgr # NULL =>
    /\ reply = "error" => mgr.max < Demand(tier)
    /\ reply = "ok"    => mgr.max >= Demand(tier)

(* Every statement of a call brings it nearer to its end, in nested calls  *)
(* too: no path goes back to an earlier statement, and no error or         *)
(* exception leaves a call where it was.  With the steps left bounded,     *)
(* this is what CallsEnd rests on.                                         *)
StepsLeft ==
  [weights |-> 8, kv |-> 7, create |-> 6, init |-> 5,
   token1  |-> 4, token2 |-> 3, token3 |-> 2, unload |-> 1]

Remaining ==
  IF stack = << >> THEN 0 ELSE 8 * Len(stack) + StepsLeft[Last(stack).pc]

CallsAdvance == [][Step => Remaining' < Remaining \/ phase' = "crashed"]_vars

(* Every call ends, and what it allocated is given back.                   *)
CallsEnd        == stack # << >> ~> stack = << >>
MemoryComesBack == heap # {} ~> heap = {}

-----------------------------------------------------------------------------
(* The runtime seen from outside: how far the innermost call is, and what  *)
(* it takes.  After a lost block or a nested call only the budget is left. *)
Voided == upset \cap (Losing \cup {"reentry"}) # {}

Stage ==
  CASE Voided                   -> "void"
    [] ~ Voided /\ mgr = NULL   -> "new"
    [] ~ Voided /\ mgr # NULL /\ stack = << >> ->
         IF heap = {} THEN "idle" ELSE "abandoned"
    [] ~ Voided /\ mgr # NULL /\ stack # << >> ->
         IF Last(stack).pc \in Loading THEN "loading" ELSE "serving"

Lazy ==
  INSTANCE LazyLoading
  WITH Block  <- Addr,
       Needs  <- {Demand(t) : t \in Tiers},
       stage  <- Stage,
       budget <- MemoryStats.total,
       need   <- IF mgr = NULL THEN 0 ELSE Demand(tier),
       used   <- MemoryStats.allocated,
       blocks <- heap

(* The runtime implements lazy loading: a call answers only with weights   *)
(* and KV cache both charged, and is refused only by a budget smaller than *)
(* the two; a later call starts from an empty heap.  A call that begins    *)
(* over blocks an exception left, a nested one and a lost block void the   *)
(* promise: from then on only the budget is kept.                          *)
ImplementsLazyLoading == Lazy!Spec

-----------------------------------------------------------------------------
(* What the invariants above need to be inductive.                         *)

(* Before initialize there is nothing; after it the books are sound.       *)
ManagerInv ==
  /\ mgr = NULL => heap = {} /\ Held = {} /\ stack = << >> /\ ~ backend
  /\ mgr # NULL => tier \in Tiers /\ Consistent(mgr)

(* Every call but the innermost is waiting for its on_token.               *)
StackInv ==
  /\ \A i \in 1 .. Len(stack) - 1 : stack[i].pc \in Tokens
  /\ "reentry" \notin upset => Len(stack) <= 1

(* What a loading call holds, statement by statement.                      *)
LoadInv ==
  upset \cap Losing = {} =>
    /\ backend => kv # NULL
    /\ stack # << >> =>
         /\ Last(stack).pc = "weights" => Held = {}
         /\ Last(stack).pc = "kv"      => kv = NULL
         /\ Last(stack).pc = "create"  => kv # NULL
    /\ stack = << >> /\ "throw" \notin upset => Held = {}

(* What a loading call has been charged, statement by statement.  It rests *)
(* on IInv and is kept apart from it.                                      *)
ChargeInv ==
  ~ Voided /\ stack # << >> =>
    /\ Last(stack).pc = "weights" => mgr.allocated = 0
    /\ Last(stack).pc = "kv"      => mgr.allocated = WeightSize[tier]
    /\ Last(stack).pc \notin {"weights", "kv"} => mgr.allocated = Demand(tier)

(* What the outcome of the last call says of the budget, now and until the *)
(* next one ends.                                                          *)
OutcomeInv ==
  upset = {} /\ mgr # NULL =>
    /\ reply = "error" => mgr.max < Demand(tier)
    /\ reply = "ok"    => mgr.max >= Demand(tier)

ChargedInv == ChargeInv /\ OutcomeInv

IInv ==
  /\ TypeOK
  /\ NoDangling
  /\ ManagerInv
  /\ StackInv
  /\ LoadInv
  /\ NothingLost
  /\ ServingHoldsAll
  /\ CrashNeedsMisuse

-----------------------------------------------------------------------------
(* What the repository says and the code does not do.                      *)

(* "3. Deallocate memory immediately" (runtime.cpp:81): a streaming call   *)
(* that is over has released its memory.                                   *)
CallsRelease ==
  phase = "alive" /\ stack = << >> => MemoryStats.allocated = 0

(* "Shutdown and cleanup" (runtime.h:40): after it nothing is charged.     *)
ShutdownCleansUp ==
  reply = "shutdown" /\ stack = << >> => MemoryStats.allocated = 0

(* ~LLMRuntimeImpl calls shutdown (runtime.cpp:10-12).                     *)
DestroyedHoldsNothing ==
  phase = "destroyed" => Held = {}
=============================================================================
