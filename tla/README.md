# On-Device-LLM: TLA+ models, model checking and proofs

This directory holds a formal model of the runtime in this repository: how it
budgets memory, how it loads and unloads a model around each call, how it sizes
itself from the hardware, and how its HTTP service drives it. TLC checks the
models on small instances; TLAPS proves the safety properties, and the safety half of
liveness, for every value of the constants. Paths below are relative to the repository.

## 1. The system

### Components

| Component | State it keeps | Operations | Implemented? |
|---|---|---|---|
| `HeapMemoryManager` (`src/memory/memory_manager.*`) | budget `max_memory_`, counter `allocated_`, vector `allocations_`, `pressure_callback_` | `allocate_weights` (and `allocate_temp`, `allocate_kv_cache`, which call it), `deallocate`, `get_stats`, `register_pressure_callback`; `evict_inactive_modules` and `compress_kv_cache` do nothing | yes |
| `LLMRuntimeImpl` (`src/core/runtime.*`) | hardware spec, memory manager, backend, the two raw pointers `allocated_ram_ptr_` and `allocated_kv_ptr_` | `initialize`, `generate`, `generate_streaming`, `get_memory_stats`, `get_device_spec`, the other getters, `shutdown`, destructor | yes |
| Hardware detectors (`src/hardware/`, `platforms/windows/`) | none that matters (callbacks are stored, never called) | `detect`, `get_available_ram`, ... for Windows, Apple, Android, Linux, fallback | yes; several figures are placeholders |
| HAL and CPU backend (`src/hal/`) | the `CPUBackend` object that `backend_` owns | `create_optimal`, `initialize`, `get_name`, ... | CPU stub: every method returns true |
| HTTP service (`src/launcher/http_service.cpp`) | the accepted socket, the bytes read so far | one loop: accept, `recv_all`, `extract_prompt`, `generate`, `send`, close | yes |
| `runtime_service` (`src/launcher/runtime_service.cpp`) | where `main` is | one `initialize`, one `generate`, sleep | yes |
| Module system, adaptive scheduler, privacy manager (`src/modules`, `src/scheduler`, `src/privacy`) | - | headers with interfaces only | no |
| Quantization and export tools (`tools/`) | - | Python stubs that log and return | stubs |
| `config/default_config.json` | - | read by no source file | - |

### How they interact

`LLMRuntimeImpl::initialize` asks a detector for the tier and the available RAM
and makes a `HeapMemoryManager` with that RAM as its budget. Each `generate` or
`generate_streaming` loads (weights, KV cache, backend), answers, and unloads.
A client may keep the raw pointer `get_backend()` returns, while the object behind
it lives no longer than the call, and copies of the profile and the statistics, while the
runtime goes on. The HTTP service owns one runtime and calls it once per request;
`runtime_service` calls its own once and then sleeps.

Nothing in the repository starts a thread. What interleaves is

* client code that runs **inside** a call: the memory manager's pressure
  callback and `generate_streaming`'s `on_token`, which may call back or throw;
* **exceptions**, which no code of the repository catches: `new[]`, `push_back`,
  `std::stoi` and both callbacks can throw, and what is left of the functions
  in progress is skipped;
* **the device**: other processes use RAM between two `initialize` calls;
* **the network**: clients connect, send in pieces and hang up while the service
  is somewhere else in its loop.

### What makes each component correct, and what is hard about it

* *Memory manager.* The counter must be the sum of the recorded sizes, the budget
  must hold although the guard is computed in wrapping `uint64_t`, and every
  pointer must belong to one owner - while calls nest inside callbacks that run
  before the outer call has returned its pointer.
* *Runtime.* What a call loads it must give back on every path: refusal of the
  second block, backend failures, exceptions, calls inside `on_token`, a second
  `initialize` that replaces the manager under live blocks, destruction.
* *Detectors.* Tier thresholds (one file per platform) must fit the sizes the runtime
  picks per tier (another file), and RAM arithmetic, which is signed, must not give a
  budget the device does not have.
* *Getters.* The copies a client decides by must show what the next call will meet.
* *HAL.* What the tier detected last implies - block sizes, context length, engine -
  must be one thing for the whole of a call, and a pointer to the backend must not
  be used after the call that made the object.
* *HTTP service.* A request must be understood however it is cut into pieces and
  whatever length it announces, each client answered once and in turn, no model
  memory held between requests, no client's request changing the verdict of
  another's, and nobody left waiting.

`PROJECT.json` lists the hazards line by line with the properties that cover them.

## 2. The modules

| Module | Models | Depends on |
|---|---|---|
| `HeapManager` | the manager's data, and what each method does to it, as operators | - |
| `MemoryManager` | `HeapMemoryManager` alone, with clients, callback, exceptions | `HeapManager` |
| `BudgetLedger` | what a memory manager promises (abstract specification) | - |
| `Runtime` | `LLMRuntimeImpl` and its client, around a manager | `HeapManager` |
| `LazyLoading` | what the runtime promises its client about memory (abstract specification) | - |
| `Device` | the platforms' detectors and other processes' RAM use, composed with `Runtime` | `Runtime` |
| `Application` | the backend object (`src/hal`), and a program that keeps a pointer to it while the device changes | `Device` |
| `Getters` | a program that decides by copies of profile and statistics | `Device` |
| `RuntimeService` | `runtime_service.cpp`, composed with `Runtime` | `Runtime` |
| `WaitingLine` | what a server that takes one customer at a time promises (abstract specification) | - |
| `HttpService` | `http_service.cpp`, clients and network, composed with `Runtime` | `Runtime` |
| `MC*` | small instances for TLC | the module named |
| `*Proofs` | theorems and proofs | the module named |

Operators named as *faulty variants* are not part of the models. Each is a
plausible bug that the property beside it in `PROJECT.json` ("mutants") detects.

### MemoryManager

`mgr` is the record (`max`, `allocated`, `allocations`); `heap` is the set of live
addresses, which the code does not store; `stack` holds the calls whose callback
is running, with the pointer each will return. A call is cut at one place only,
the callback: `Allocate` does everything up to it (`memory_manager.cpp:10-20`),
`CallbackReturns` and `CallbackThrows` are the two ways out of it. `NewThrows` and
`PushBackThrows` are the exceptions of lines 17 and 18; the second leaves a live
block on no record. `owned` is who holds which pointer, `told` is the last level
the callback got.

`Register` (`register_pressure_callback`) may be called at any time, from inside the
callback too, and may set an empty function. What such a call does to the manager is
modelled; what it does to the captured variables of a lambda that is executing is the
client's and is not.

### Runtime

`stack` holds the calls of `generate`/`generate_streaming` in progress, each with the
statement it runs next; only the innermost moves, the others wait in `on_token`.
Statements between two calls that can fail are one action: `WeightsAllocated`,
`KvAllocated`, `CreateBackend`, `InitBackend`, the three tokens, `Unload`, with
one action for every way each can fail. `Release` is `unload_backend_resources`:
it asks the *current* manager, which ignores pointers it has no record of.
`Initialize` replaces the manager and leaves the old manager's blocks live
(`HeapMemoryManager` has no destructor). `upset` is a history variable: which
disturbances have happened, so that the properties can say precisely which of
them can cost what.

Backend creation and initialization may fail, as their interface and the
runtime's own error paths allow; the CPU stub never does. `Destroy` keeps
everything: `LLMRuntime` has no virtual destructor, deleting through it is
undefined, and what compilers make of it is to run `~LLMRuntime` only.

`LazyLoading` is the runtime seen from outside. It knows no manager, no pointers and no
statements, only a `stage`, a budget, what a call needs and what is in use. `Stage` maps
the program counter of the innermost call to it: loading up to the statement `init`,
serving after it. An exception makes the stage `abandoned` if blocks are left behind, and only
a shutdown ends that. `Void` gives the promise up: it is taken when a block is lost
(`Losing`) or the runtime is called from inside a call, and from then on only the budget is
promised. What is promised until then is strong: an answer needs all of the
memory, a refusal needs a machine too small for any call or a missing backend, and both
end with nothing in use.

### Device

`platform`, `total`, `others` describe the machine. Each detector is a record of what
its `detect()` returns (`WindowsDetector`, ...), `Detector` is `CreateNativeHardwareDetector`,
and `Detect` is what `initialize` takes of it. `Long` is the signed product
`pages * page_size` in a `long` of `LongRange` values (2^64, or 2^32 on a 32-bit build):
it wraps, and a negative one (`Negative`) becomes a large `uint64_t`. `DeviceInitialize` reads the device at that moment;
`UseChanges` changes it and tells nobody, as in the code.

### Application

`object` is what `backend_` points to. It is made at the statement `create`, given its
context length at `init`, and destroyed wherever `Runtime` resets `backend` or creates the
next one; `AppRuns` conjoins `Device`'s step with these effects. `GetBackend` and
`UseBackend` are the client's, between calls or inside `on_token`. Using a pointer to an
object that is gone is undefined: in the model it either goes unnoticed or crashes the
client. `fetched` remembers during which call the pointer was fetched, and `usedThen` what
others used of the RAM when the budget was read.

### Getters

`Look` is `get_device_spec` and `get_memory_stats`, called between calls or inside `on_token`;
the copies stay as they are while the runtime goes on, and are dropped when the call they
foretell is over. `foretold` is that call: the one that comes right after them. The tier and
the budget of `hardware_spec_` are `Runtime`'s. `Numbers` are the members of `HardwareSpec`
without a constructor, `Unset` those that `detect()` returns unwritten on the platform there is:
a reader finds anything in them.

### RuntimeService

`at` is where `main` is; `Generating` is one `Step` of its only call. An exception ends the
program, everything else ends in the sleep.

### HttpService

`at` is where `main` is; the runtime's variables are those of `Runtime`, whose
actions the service's actions conjoin (`GenerateStarts` is `Call("generate")`,
`GenerateRuns` is one `Step`, ...). An exception that leaves `generate` or
`std::stoi` ends the process (`at = "terminated"`). A request is five pieces: two
of headers, and the body cut at the places where `extract_prompt` reacts
differently to a missing rest (before the value, inside it, and the end). `Announced` is
how far `recv_all` reads: to the length announced, which may be less than the body (a
client that counts characters where the service counts bytes) or more than the client will
ever send, or not into the body at all. Spellings of Content-Length are told apart only as
far as the code does. Whitespace before the colon and escaped quotes inside the value
change *which text* is extracted and are abstracted.

`WaitingLine` is the service seen from the street: a line that grows at its end and whose
head is answered. In the refinement mapping the client being served is still at the head
of the line, and `answered` are those that were sent a reply.

## 3. What the runs check

| Run | Question | Result |
|---|---|---|
| `memory_manager` | Do books, ownership and reports stay right with nested and throwing callbacks, failing allocations and wrapping requests; is it a ledger? | holds |
| `runtime` | Which disturbance can lose memory, leave it behind, or crash - and does nothing else? Does every statement bring a call nearer to its end? Is it lazy loading? | holds |
| `runtime_fair` | Do calls end and memory come back? | holds |
| `runtime_release` | "Deallocate memory immediately" (`runtime.cpp:81`) | violated: `on_token` throws |
| `runtime_shutdown` | "Shutdown and cleanup" (`runtime.h:40`) | violated: a generate inside `on_token` overwrote the pointers |
| `runtime_destroy` | `~LLMRuntimeImpl` calls `shutdown` (`runtime.cpp:10-12`) | violated: it does not run |
| `device` | Do tiers fit budgets, whatever the RAM in use? Can a budget exceed the RAM? Do the copies a client takes foretell its next call? | holds (a budget exceeds the RAM only by a negative product) |
| `device_tier` | Tiers by RAM (`hardware_detector.h:12-14`) | violated: Windows uses free RAM |
| `application` | Does a fetched backend pointer last, is a call served as detected, and when is the device overcommitted? | holds |
| `runtime_service` | Does the service reach its sleep, and with nothing in memory? | holds |
| `http_service` | Requests in pieces, of any announced length, hang-ups, queueing: is everyone answered, right, once, in turn? | holds |
| `http_service_case` | "read Content-Length bytes if present" (`http_service.cpp:18`) | violated: `content-length:` |

The properties worth reading first:

* `HoldersAreBacked` (MemoryManager): pointers held, or in flight inside a callback,
  are live, charged and have one owner. `LossNeedsFault`: the *only* two ways to
  lose memory.
* `ImplementsLedger`: the vector, the callbacks and the wrapping arithmetic refine
  a ledger that reserves exactly when the free bytes cover the request.
* `NoDangling` (Runtime): no re-entry, exception or re-initialization makes a
  release free a block twice, or anything point to a freed block. This is not
  obvious from the code; it holds because pointers are cleared at every release
  and because a manager ignores what it does not know.
* `NothingLost`: outside three named disturbances (`Losing`) every live block is in
  one of the two pointers and charged to the current manager. In particular a
  throwing `on_token` loses nothing for good, and a `shutdown` after it suffices.
* `ServingHoldsAll`, `CrashNeedsMisuse`: the null dereferences of the third token
  (`runtime.cpp:78`) and of `print_memory_stats` need a call from inside `on_token`
  or before `initialize`.
* `ImplementsLazyLoading`: everything a client can rely on, in one specification; the
  invariants above say why it holds.
* `CallsAdvance` (Runtime) and `RequestsAdvance` (HttpService): no error path, exception or
  nested call puts a call back to an earlier statement, and nothing a client sends, or
  fails to send, makes a request longer for the service. They are the variants on which `CallsEnd`
  and `EveryoneServed` rest: with them, a server that goes on is a server that finishes.
* `ChunksAreHarmless` (HttpService): for a client that announces its length and
  stays, the way its bytes are cut never changes the answer.
* `LeanBetweenRequests`: the service holds no model memory outside `generate` - because
  the only exits of `generate` that skip the unload end the process. `SameVerdict` is what
  clients see of it: with the backend available, all prompts succeed or none does.
* `ImplementsLine`: clients are answered once each, in the order in which they connected,
  whoever hangs up. It is the safety part of the promise; `EveryoneServed` is the other one.
* `PointerLastsTheCall` (Application): a backend pointer fetched inside a call is good for
  the rest of it, even if the runtime still held an older backend after an exception. Only
  a client that calls the runtime from inside `on_token` can lose it.
* `ServedAsDetected`: no stale block, context length or engine from before the last
  `initialize` ever serves a call, although exceptions leave all three behind.
* `OvercommitNeedsGrowth`: the budget is read once. Until an `initialize` runs over live
  blocks, or `push_back` loses one, every live block is charged to it, and all of them
  together exceed what is free only if others took more since (Windows), or more than the
  half the budget leaves them (Linux, Apple). After such an `initialize` it is false: the old
  blocks are live, and a full budget is there beside them.
* `BudgetWithinRam` (Device): with a 32-bit `long` a budget can exceed the RAM; the
  property says exactly when, a product with its sign bit set. A product that wraps to a
  positive number gives a small budget.
* `CopiesForetell` (Getters): free bytes and tier, read right before a call, tell how it ends.
  Blocks that exceptions left count against the call and are shown; blocks a nested call or a new
  budget leaves behind do neither.
* `SleepsLean` (RuntimeService): none of the ways its one call can end leaves anything in
  memory for the rest of the program's life.

Remarks that are not findings, because no run would show more than the lines themselves do:

* the header describes CRITICAL as under 10% available, and the code reports it at exactly
  10% too; the comment of the unit test agrees with the code;
* the pressure callback is called after every operation, with an unchanged level too,
  although `memory_manager.h:65` says "for memory pressure changes";
* "available RAM" (`runtime.cpp:24`) is half or all of a placeholder outside Windows, and
  `get_available_ram` returns 0 on Linux and Apple (`hardware_detector.h:79`: "current");
* where a `long` has 32 bits, 2 GB of RAM are a negative product and a HIGH_END device, while
  `README.md:37` has the low tier under 4 GB;
* a HIGH_END device gets 2048 tokens of context (`runtime.cpp:196`); `README.md:48` says 4096;
* a LOW_END call is charged 288 MB (`runtime.cpp:136-149`); its backend's own estimate, which
  nobody asks for, is 512 MB (`cpu_backend.cpp:44`);
* `get_stats` leaves `weights_bytes`, `kv_cache_bytes` and `temp_buffer_bytes` unset
  (`memory_manager.cpp:54`), and `detect()` on Linux sets 5 of 17 numbers;
* module manager, scheduler and privacy manager are null; the examples of `README.md:205-215` and
  `README.md:280-284` call through them;
* `runtime_service` prints the response of its call "to verify everything works" and does not look at it.

### Bounds

* **Width.** `uint64_t` has `Width` values, 32 in `MCMemoryManager` so that size 30
  wraps around the guard, 1024 or 4096 elsewhere. `HeapMax`, the largest object
  `new[]` can return, keeps a budget plus an object below `Width` as 2^63 does
  for real. `WidthAssumption` states that: it is why a request that wraps past the guard fails in `new[]`.
* **Units.** Runtime sizes are in units of 32 MB, the greatest common divisor
  of the sizes and thresholds in the code, so all comparisons keep their outcome.
* **Pressure.** The code compares a `float` ratio with 0.5, 0.7 and 0.9. The model
  compares integers exactly; a rounded ratio can differ from it only within a
  few parts in 10^8 of a threshold.
* **Addr.** The heap has 2 to 4 addresses. A call that needs one more is not
  explored (it is not an out-of-memory error: `NewThrows` and "bad_alloc" can
  happen at any allocation). Four is what two nested calls need, and three what
  one call needs on top of a block left behind.
* **MaxDepth.** Two calls or callbacks in progress in `Runtime`, `Device`, `Getters` and
  `Application`; one in `HttpService` and `RuntimeService`, where nothing re-enters. A third
  level repeats what the second does to the same two pointers. The theorems hold for every depth.
* **Machines.** `MCRuntime`: budgets just below, at and above each sum the runtime
  compares with; `Device`: 512 MB, just under 4 GB, 4 GB and 16 GB, with uses
  that put the free RAM on both sides of each threshold.
* **LongRange.** A `long` of 64 bits wraps at no amount of RAM there is, and one of 32 bits
  at 4 GB, below the thresholds. The `device` run puts the wrap above them: with `LongRange`
  = 2048 (64 GB) all totals above are exact, and two more are not: 1040, whose product
  is negative, and 2176, whose product wraps to 4 GB. `application` has `LongRange` = `Width`, where none of
  its totals wraps; the theorems hold for every `LongRange`.
* **Application.** A 4 GB machine, on Windows (measured free RAM) and Linux (half the
  total): other processes use nothing, the least that makes Windows LOW_END,
  what leaves room for exactly one call, and for its weights alone. `on_token` may
  call `generate_streaming` and `initialize`, and throw; the backend may fail to
  initialize. Four addresses, so that two calls and a block left behind exist at once.
* **Getters.** The machines of `Device`: no room for a call, room for exactly one, for two, and more;
  the tier changes with an `initialize` inside `on_token`.
* **RuntimeService.** LOW_END budgets of nothing, below the weights, of the weights alone, exact and
  more, and the two larger tiers, with every failure an allocation and the backend have.
* **HttpService.** Two clients (one served, one waiting), five pieces, the kinds of
  request that differ in the path they take (`MCRequests`; "lower" is in the
  `http_service_case` run), and the two LOW_END machines on which every call fails for its
  KV cache and on which one call fits exactly. Each client sends one request, as the
  service closes the connection after it.
* **Symmetry** is over `Addr` and only in runs without liveness properties; none
  of the definitions orders addresses.

`CHECK_DEADLOCK FALSE` is set where the program does stop: a crashed or destroyed runtime, a
service that has exited, or whose clients are all done. `MemoryManager` never
stops and is checked for deadlock.

### Fairness

`Runtime`: `WF(Step)`. A call is straight-line code on one thread, so it goes on;
`on_token` is assumed to return. The client's own calls have no fairness.

`RuntimeService`: `WF(ServiceNext)`, for the same reason; `main` passes no callback.

`HttpService`: `WF(Server)`, one thread that goes on whenever it is not waiting
for the network; `WF(Arrive(c))`, a connected client sends its whole request
unless it hangs up; and a client that announced more than it sends hangs up in the
end. The last two are real conditions: `recv` has no timeout, and without them a silent
client blocks everyone. `accept` failing, other clients hanging up, and connecting have no
fairness.

## 4. What is proved

TLAPS proves the following for all values of the constants that satisfy the named
assumptions (each is evaluated by TLC on the small instances):

* **HeapManagerProofs**: `Refuses` is exact below `Width`; `Track` and `Untrack`
  keep a manager `Consistent` and change `Tracked` by exactly the block they name.
  "The counter is the sum of the sizes" is awkward to carry through a step as a fold.
  `Consistent` therefore says that a running total exists (`IsRunningTotal`), and the lemmas
  exhibit the new one: extended for `Track`, cut and shifted for `Untrack`.
* **MemoryManagerProofs**: `TypeOK`, `LedgerSound`, `HoldersAreBacked`,
  `LossNeedsFault`, `ToldIsCurrent`, `OnlyOwnersFree`, and `ImplementsLedger`, the
  refinement. The invariants are inductive together: that a released pointer is on
  record needs `HoldersAreBacked`, and that the subtraction does not borrow needs
  `Consistent`.
* **RuntimeProofs**: `TypeOK`, `NoDangling`, `BudgetKept`, `NothingLost`,
  `IdleHoldsNothing`, `ServingHoldsAll`, `CrashNeedsMisuse`, `ReplyTellsBudget`. The
  inductive invariant `IInv` adds three parts: `ManagerInv` (books are sound; nothing exists
  before `initialize`), `StackInv` (only the innermost call moves; two calls mean
  re-entry) and `LoadInv` (what a loading call holds, statement by statement).
  `NothingLost` alone is not inductive: an allocation overwrites a pointer, and
  only `LoadInv` says that pointer was null. `ReplyTellsBudget` rests on `ChargedInv`: what
  a call has been charged at each statement (`ChargeInv`, which exceptions and backend failures
  leave intact), and what the last outcome says of the budget (`OutcomeInv`).
  `CallsGetNearer` proves the action property `CallsAdvance`: `Remaining` is a bounded
  number that every `Step` lowers, since a returning call takes 8 with it and the
  caller's statement adds less. `MemoryFollowsCalls` proves that `MemoryComesBack` needs nothing but
  `CallsEnd`, for the clients of `runtime_fair`: callbacks that return, no re-entry, no
  failing allocation.
* **StatsProofs**: `StatsAddUp`, as `StatsAreSums`: the fold over the vector that
  `get_memory_stats` is compared with equals the running total of `Consistent`. The fold of
  the community modules is a recursive function over the *set* of indices, so the
  proof shows that every order of adding up a finite set gives one sum (`SumAnyOrder`), by
  induction on its cardinality (`SetInduction`: the predicate is a set of numbers, since a
  theorem about an operator is out of the prover's reach).
* **LazyLoadingProofs**: the refinement `RefinesLazyLoading`, with one lemma per action of the
  runtime naming the abstract action it is. `View` spells out the mapped state and
  `Viewed` the mapped step, so that the lemmas do not expand the instance; `NewIsSound`
  says that nothing is lost before `initialize`. It needs `IInv` for what is on the heap and
  `ChargedInv` for what has been charged.
* **DeviceProofs**: `DeviceTypeOK`; `BudgetWithinRam` for every width of `long` (the
  assumption on `LongRange` is only that it is positive and at most `Width`): a product
  without its sign bit is at most the RAM (`LongBound`), so half of it is. And
  `BigTiersServe` and `LowEndIsSmall`, from `DetectedInv` (tier and budget are of one
  detection), the thresholds and budgets of each platform (`TiersFitBudgets`) and
  `TierSizesAssumption`: the MID_RANGE blocks fit 2 GB and the HIGH_END blocks 8 GB. The lemma
  `DeviceRunsRuntime`, which holds by the way the actions are composed, carries the theorems
  about `Runtime` over.
* **ApplicationProofs**: `AppTypeOK`, `PointerLastsTheCall`, `ServedAsDetected` and
  `OvercommitNeedsGrowth`. All four rest on `RunsCases`, which lists what a step of a call can be
  when nobody re-enters. `PointerLastsTheCall` is not inductive: `PointerInv` says how far
  the call has got. `OvercommitNeedsGrowth` needs `BudgetInv` (what the budget was made
  from) and `RecordedInv` (no live block is off the record of the manager there is).
  `ApplicationLoadsLazily`: the application's runtime implements `LazyLoading`.
* **HttpProofs**: `HttpTypeOK`,
  `EachInOnePlace`, `ChunksAreHarmless`, `LeanBetweenRequests`, `SameVerdict`, and the refinement
  `ImplementsLine`. `QuietInv` is the key to the second half: `main` disturbs the runtime by
  nothing but a failing backend, so `IdleHoldsNothing` and `ChargedInv` apply.
  `RequestsGetNearer` proves `RequestsAdvance`, with `Remaining` as the measure
  inside `generate`, and `ServiceLoadsLazily` that the service's runtime implements `LazyLoading`.

Every invariant, action property and refinement that the passing runs check of these modules
is a theorem. Only model-checked: what is said of `Getters` (`CopiesForetell`, its type
invariant) and of `RuntimeService` (`SleepsLean`, which `IdleHoldsNothing` all but implies), which have no proof modules;
and liveness under fairness (`CallsEnd`, `EveryoneServed`, `Settles`), because fairness is
defined with ENABLED, which the prover cannot expand. The part of it that does not need
fairness is proved: `CallsAdvance` and `RequestsAdvance` say that steps get somewhere, and only "a step
is taken while there is one" is left to TLC. The theorems assume no bound but `MaxDepth`, which may be any number.

## 5. Not modelled

* Module system, scheduler, privacy manager: interfaces without implementation; the runtime's
  getters for them are in `Getters`.
* `BackendFactory::create` and its other backends: called by nobody. The CPU backend's
  inference methods are stubs without state.
* A `deallocate` of a pointer its caller does not own, in `MemoryManager`: clients free what they were
  given, once. The branch for a pointer that is not on record (`memory_manager.cpp:42`) is `Untrack`'s,
  and `Runtime` takes it after every `initialize` over live blocks.
* Tools and configuration: stubs, and a file nothing reads.
* The detectors' other getters (battery, temperature, foreground): constants or
  readings no code uses. State-change callbacks are stored and never called.
* The contents of prompts and responses, logging, JSON formatting.
* `Device` and `HttpService` composed: the service initializes once and never looks at
  the device again, so the composition has the behaviours of `HttpService` with the
  device's machines, which its theorems cover for every set of machines.
* RAM of model blocks against the device's free RAM: `new[]` blocks are never written to, and
  what they take of physical RAM is up to the operating system.
* `CMakeLists.txt` names platform files that do not exist, so only Windows builds as it
  stands; the other detectors are modelled from `hardware_detector.cpp`.
* `On-Device LLM/` is an identical copy of the sources; `build/` is generated.

## 6. Plan

Done, in this order: `HeapManager`, `MemoryManager` with `BudgetLedger`, `Runtime`, `Device`,
`HttpService` with `WaitingLine`, `Application`, the proofs of all of them,
`LazyLoading` with the refinement by the runtime, the service and the application, and
`Getters` and `RuntimeService`.

Left: a proof of `CopiesForetell`, which needs the invariant that ties the copies to the budget
while the call they foretell loads; larger instances of `Application` (a third amount of RAM that
crosses HIGH_END).
