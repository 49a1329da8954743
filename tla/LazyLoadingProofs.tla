-------------------------- MODULE LazyLoadingProofs --------------------------
(***************************************************************************)
(* The runtime implements LazyLoading, for every machine, tier, fault and  *)
(* callback: each of its steps is a step of the abstract call, or changes  *)
(* nothing the client can tell.                                            *)
(*                                                                         *)
(* The statements of a call map as their charge says (ChargeInv): before   *)
(* the weights nothing is charged, so a refusal is the machine's; at the   *)
(* first token everything is.  That a call gives everything back is        *)
(* NothingLost after the release: nothing held means nothing live.         *)
(***************************************************************************)
EXTENDS RuntimeProofs

(* What the abstract variables are, case by case. *)
View ==
  /\ Voided => Stage = "void"
  /\ ~ Voided /\ mgr = NULL => Stage = "new"
  /\ ~ Voided /\ mgr # NULL /\ stack = << >> =>
       Stage = IF heap = {} THEN "idle" ELSE "abandoned"
  /\ ~ Voided /\ mgr # NULL /\ stack # << >> =>
       Stage = IF Last(stack).pc \in Loading THEN "loading" ELSE "serving"
  /\ mgr = NULL => MemoryStats.total = 0 /\ MemoryStats.allocated = 0
  /\ mgr # NULL => MemoryStats.total = mgr.max /\ MemoryStats.allocated = mgr.allocated

LEMMA Viewed == View /\ View'
BY DEF View, Stage, MemoryStats

(* Nothing is given up before initialize. *)
NewIsSound == mgr = NULL => ~ Voided

LEMMA SpecNewIsSound == Spec => []NewIsSound
<1>1. Init => NewIsSound
  BY DEF Init, NewIsSound, Voided
<1>2. IInv /\ NewIsSound /\ [Next]_vars => NewIsSound'
  <2>1. SUFFICES ASSUME IInv, NewIsSound, [Next]_vars, mgr' = NULL
                 PROVE  ~ Voided'
    BY DEF NewIsSound
  <2>2. CASE Initialize
    <3>1. PICK m \in Machines : mgr' = NewManager(m.available)
      BY <2>2 DEF Initialize, InitializeOn
    <3>2. m.available \in Budgets
      BY MachinesAssumption
    <3> QED BY <2>1, <3>1, <3>2, NewManagerConsistent, ManagerNotNull
  <2>3. CASE UNCHANGED vars
    BY <2>1, <2>3 DEF NewIsSound, Voided, vars
  <2>4. CASE \/ \E op \in Ops : Call(op) \/ CallTooEarly(op)
             \/ Step \/ Shutdown \/ Destroy
    <3>1. IInv'
      BY <2>1, NextIInv
    <3>2. mgr = NULL
      BY <2>1, <2>4, <3>1, MachineUnchanged
    <3>3. stack = << >> /\ ~ Voided
      BY <2>1, <3>2 DEF IInv, ManagerInv, NewIsSound
    <3>4. ~ Step /\ \A op \in Ops : ~ Call(op)
      BY <3>2, <3>3 DEF Step, WeightsAllocated, WeightsRefused, WeightsThrow,
         KvAllocated, KvRefused, KvThrows, CreateBackend, CreateFails,
         InitBackend, InitFails, TokenReturns, ThirdTokenCrashes, TokenThrows,
         Unload, At, Call
    <3>5. upset' \subseteq upset \cup {"early"}
      BY <2>4, <3>3, <3>4 DEF CallTooEarly, Shutdown, Destroy, Nested
    <3> QED BY <3>3, <3>5 DEF Voided, Losing
  <2> QED BY <2>1, <2>2, <2>3, <2>4 DEF Next
<1> QED BY <1>1, <1>2, SpecIInv, PTL DEF Spec

(* What a release leaves behind when nothing was lost. *)
LEMMA AllGivenBack ==
  ASSUME IInv', ~ Voided', mgr' # NULL, Held' = {}
  PROVE  heap' = {} /\ mgr'.allocated = 0
<1>1. heap' = {} /\ Tracked(mgr') = {}
  BY DEF IInv, NothingLost, Voided
<1>2. Consistent(mgr')
  BY DEF IInv, ManagerInv
<1> QED BY <1>1, <1>2, EmptyIsUncharged

(* A step after which the promise is given up, still within the budget.    *)
LEMMA VoidLazily ==
  ASSUME IInv', NewIsSound', Voided'
  PROVE  Lazy!Void
<1>1. mgr' # NULL /\ Consistent(mgr') /\ tier' \in Tiers
  BY DEF NewIsSound, IInv, ManagerInv
<1>2. /\ Stage' = "void"
      /\ MemoryStats.total' = mgr'.max /\ MemoryStats.allocated' = mgr'.allocated
  BY <1>1, Viewed DEF View
<1>3. mgr'.max \in Budgets /\ mgr'.allocated \in 0 .. mgr'.max
  BY <1>1, WidthAssumption DEF Consistent, Manager, Bytes
<1>4. /\ heap' \subseteq Addr
      /\ reply' \in {"none", "ok", "error", "threw", "shutdown"}
  BY DEF IInv, TypeOK
<1>5. Demand(tier') \in {Demand(t) : t \in Tiers}
  BY <1>1
<1> QED BY <1>1, <1>2, <1>3, <1>4, <1>5 DEF Lazy!Void

(* What the steps below have in common: the promise still stands.          *)
LEMMA StillSound ==
  ASSUME [Next]_vars, ~ Voided'
  PROVE  ~ Voided /\ "reentry" \notin upset' /\ upset' \cap Losing = {}
BY UpsetGrows DEF Voided

(* initialize with nothing in use: a machine is chosen. *)
LEMMA InitializeLazily ==
  ASSUME IInv, IInv', Initialize, ~ Voided'
  PROVE  Lazy!Configure
<1>1. PICK m \in Machines :
        /\ tier' = m.tier /\ mgr' = NewManager(m.available)
        /\ upset' = upset \cup Nested \cup IF heap = {} THEN {} ELSE {"reinit"}
        /\ reply' = "none" /\ UNCHANGED << heap, stack >>
  BY DEF Initialize, InitializeOn
<1>2. /\ m.tier \in Tiers /\ m.available \in Budgets
      /\ mgr'.max = m.available /\ mgr'.allocated = 0 /\ mgr' # NULL
  BY <1>1, MachinesAssumption, NewManagerConsistent, ManagerNotNull DEF NewManager
<1>3. /\ ~ Voided /\ "reentry" \notin upset' /\ upset' \cap Losing = {}
      /\ stack = << >> /\ heap = {}
  BY <1>1, StillSound DEF Next, Nested, Losing
<1>4. Stage \in {"new", "idle"} /\ MemoryStats.allocated = 0
  BY <1>3, Viewed, UnchargedWhenEmpty DEF View
<1>5. /\ Stage' = "idle"
      /\ MemoryStats.total' = m.available /\ MemoryStats.allocated' = 0
  BY <1>1, <1>2, <1>3, Viewed DEF View
<1>6. Demand(tier') \in {Demand(t) : t \in Tiers}
  BY <1>1, <1>2
<1> QED BY <1>1, <1>2, <1>4, <1>5, <1>6 DEF Lazy!Configure

(* A call begins on an idle runtime. *)
LEMMA CallLazily ==
  ASSUME IInv, NEW op \in Ops, Call(op), ~ Voided'
  PROVE  Lazy!Begin
<1>1. /\ mgr # NULL /\ UNCHANGED << tier, mgr, heap, reply >>
      /\ upset' = upset \cup Nested \cup IF Held = {} THEN {} ELSE {"unclean"}
  BY DEF Call
<1>2. ~ Voided /\ "reentry" \notin upset' /\ upset' \cap Losing = {}
  BY StillSound DEF Next
<1>3. stack = << >> /\ Held = {}
  BY <1>1, <1>2 DEF Nested, Losing
<1>4. Last(stack').pc = "weights" /\ stack' # << >>
  BY <1>3 DEF Call, Last
<1>5. heap = {}
  BY <1>1, <1>2, <1>3, UnchargedWhenEmpty
<1>6. Stage = "idle" /\ Stage' = "loading"
  BY <1>1, <1>2, <1>3, <1>4, <1>5, Viewed DEF View, Loading
<1>7. UNCHANGED << MemoryStats.total, MemoryStats.allocated >>
  BY <1>1, Viewed DEF View
<1> QED BY <1>1, <1>6, <1>7 DEF Lazy!Begin

(* Weights or KV cache are allocated: one block more, within the budget.   *)
LEMMA AllocateLazily ==
  ASSUME IInv, IInv', ChargeInv, WeightsAllocated \/ KvAllocated, ~ Voided'
  PROVE  Lazy!Reserve
<1>1. /\ stack # << >> /\ mgr # NULL /\ mgr' # NULL /\ mgr'.max = mgr.max
      /\ tier \in Tiers /\ tier' = tier /\ reply' = reply
  BY MachineUnchanged DEF Step, WeightsAllocated, KvAllocated, At, IInv, ManagerInv
<1>2. PICK pc \in {"kv", "create"} : Goto(pc)
  BY DEF WeightsAllocated, KvAllocated
<1>3. stack' # << >> /\ Last(stack').pc = pc
  BY <1>1, <1>2, GotoStack, PcFacts DEF IInv, TypeOK
<1>4. \E p \in Addr \ heap : heap' = heap \cup {p}
  BY DEF WeightsAllocated, KvAllocated
<1>5. ~ Voided
  BY StillSound DEF Next, Step
<1>6. Stage = "loading" /\ Stage' = "loading"
  BY <1>1, <1>2, <1>3, <1>5, Viewed
     DEF View, WeightsAllocated, KvAllocated, At, Loading
<1>7. mgr'.allocated \in mgr.allocated .. Demand(tier)
  <2>1. /\ WeightSize[tier] \in Nat /\ KvSize[tier] \in Nat
        /\ Demand(tier) = WeightSize[tier] + KvSize[tier]
    BY <1>1, DemandFacts
  <2>2. /\ WeightsAllocated => mgr'.allocated = WeightSize[tier]
        /\ KvAllocated => mgr'.allocated = Demand(tier)
    BY <1>5, AllocationCharge
  <2>3. /\ WeightsAllocated => mgr.allocated = 0
        /\ KvAllocated => mgr.allocated = WeightSize[tier]
    BY <1>1, <1>5 DEF ChargeInv, WeightsAllocated, KvAllocated, At
  <2> QED BY <2>1, <2>2, <2>3
<1>8. mgr'.allocated <= mgr.max
  BY <1>1 DEF IInv, ManagerInv, Consistent
<1>9. /\ MemoryStats.total = mgr.max /\ MemoryStats.total' = mgr.max
      /\ MemoryStats.allocated = mgr.allocated
      /\ MemoryStats.allocated' = mgr'.allocated
  BY <1>1, Viewed DEF View
<1> QED BY <1>1, <1>4, <1>6, <1>7, <1>8, <1>9 DEF Lazy!Reserve

(* The step of a call that ends it with everything given back.             *)
LEMMA GiveBackLazily ==
  ASSUME IInv, IInv', ~ Voided', NEW r, reply' = r, mgr # NULL, Held' = {},
         stack' = << >>, Step \/ Shutdown
  PROVE  Lazy!GiveBack(r)
<1>1. mgr' # NULL /\ mgr'.max = mgr.max /\ tier' = tier
  BY MachineUnchanged
<1>2. heap' = {} /\ mgr'.allocated = 0
  BY <1>1, AllGivenBack
<1>3. /\ Stage' = "idle"
      /\ MemoryStats.total = mgr.max /\ MemoryStats.total' = mgr.max
      /\ MemoryStats.allocated' = 0
  BY <1>1, <1>2, Viewed DEF View
<1> QED BY <1>1, <1>2, <1>3 DEF Lazy!GiveBack

(* The steps that end a call and release what it holds. *)
LEMMA EndLazily ==
  ASSUME IInv, IInv', ChargeInv, ~ Voided',
         WeightsRefused \/ KvRefused \/ CreateFails \/ InitFails \/ Unload
  PROVE  Lazy!Refuse \/ Lazy!Unavailable \/ Lazy!Finish
<1>1. /\ stack # << >> /\ stack' = Front(stack) /\ mgr # NULL
      /\ Step /\ [Next]_vars
  BY DEF WeightsRefused, KvRefused, CreateFails, InitFails, Unload, At, Return,
     IInv, ManagerInv, Step, Next
<1>2. ~ Voided /\ stack' = << >>
  BY <1>1, StillSound, ReturnEmpties
<1>3. /\ MemoryStats.total = mgr.max /\ MemoryStats.allocated = mgr.allocated
      /\ Stage = IF Last(stack).pc \in Loading THEN "loading" ELSE "serving"
  BY <1>1, <1>2, Viewed DEF View
<1>4. Release => Held' = {}
  BY DEF Release, Held
<1>5. CASE WeightsRefused \/ KvRefused
  <2>1. Held' = {}
    BY <1>1, <1>2, <1>5
       DEF WeightsRefused, KvRefused, At, Held, IInv, LoadInv, Voided
  <2>2. mgr.max < Demand(tier) /\ reply' = "error" /\ Stage = "loading"
    BY <1>2, <1>3, <1>5, RefusedForWant
       DEF WeightsRefused, KvRefused, At, Return, Loading
  <2>3. Lazy!GiveBack("error")
    BY <1>1, <1>2, <2>1, <2>2, GiveBackLazily
  <2>4. Demand(tier) > mgr.max
    <3>1. tier \in Tiers /\ Consistent(mgr)
      BY <1>1 DEF IInv, ManagerInv
    <3>2. Demand(tier) \in Nat /\ mgr.max \in Nat
      BY <3>1, DemandFacts, WidthAssumption DEF Consistent
    <3> QED BY <2>2, <3>2
  <2> QED BY <1>1, <1>3, <2>2, <2>3, <2>4 DEF Lazy!Refuse
<1>6. CASE CreateFails \/ InitFails
  <2>1. reply' = "error" /\ Stage = "loading" /\ Held' = {}
    BY <1>3, <1>4, <1>6 DEF CreateFails, InitFails, At, Return, Loading
  <2>2. mgr.allocated = Demand(tier)
    BY <1>1, <1>2, <1>6 DEF CreateFails, InitFails, At, ChargeInv
  <2>3. Lazy!GiveBack("error")
    BY <1>1, <1>2, <2>1, GiveBackLazily
  <2> QED BY <1>1, <1>3, <2>1, <2>2, <2>3 DEF Lazy!Unavailable
<1>7. CASE Unload
  <2>1. reply' = "ok" /\ Stage = "serving" /\ Held' = {}
    BY <1>3, <1>4, <1>7 DEF Unload, At, Return, Loading
  <2>2. Lazy!GiveBack("ok")
    BY <1>1, <1>2, <2>1, GiveBackLazily
  <2> QED BY <2>1, <2>2 DEF Lazy!Finish
<1> QED BY <1>5, <1>6, <1>7

(* An exception: out of an allocation that lost no block, or of on_token.  *)
LEMMA ThrowLazily ==
  ASSUME IInv, IInv', ~ Voided', WeightsThrow \/ KvThrows \/ TokenThrows
  PROVE  Lazy!Throw
<1>1. /\ stack # << >> /\ stack' = Front(stack) /\ mgr # NULL
      /\ reply' = "threw" /\ UNCHANGED << tier, mgr >>
      /\ Step /\ [Next]_vars
  BY DEF WeightsThrow, KvThrows, TokenThrows, AllocationThrows, At, Return,
     IInv, ManagerInv, Step, Next
<1>2. ~ Voided /\ stack' = << >> /\ upset' \cap Losing = {}
  BY <1>1, StillSound, ReturnEmpties
<1>3. heap' = heap
  BY <1>2 DEF WeightsThrow, KvThrows, TokenThrows, AllocationThrows, Losing
<1>4. /\ Stage \in {"loading", "serving"}
      /\ Stage' = IF heap = {} THEN "idle" ELSE "abandoned"
      /\ UNCHANGED << MemoryStats.total, MemoryStats.allocated >>
  BY <1>1, <1>2, <1>3, Viewed DEF View
<1> QED BY <1>1, <1>3, <1>4 DEF Lazy!Throw

(* The backend is ready: with everything charged, the call may answer.     *)
LEMMA InitBackendLazily ==
  ASSUME IInv, ChargeInv, InitBackend, ~ Voided'
  PROVE  Lazy!Serve
<1>1. /\ stack # << >> /\ Last(stack).pc = "init" /\ mgr # NULL
      /\ UNCHANGED << tier, mgr, heap, reply >>
  BY DEF InitBackend, At, IInv, ManagerInv
<1>2. PICK pc \in {"token1", "unload"} : Goto(pc)
  BY DEF InitBackend
<1>3. stack' # << >> /\ Last(stack').pc = pc
  BY <1>1, <1>2, GotoStack, PcFacts DEF IInv, TypeOK, Tokens
<1>4. ~ Voided
  BY StillSound DEF Next, Step
<1>5. mgr.allocated = Demand(tier)
  BY <1>1, <1>4 DEF ChargeInv
<1>6. /\ Stage = "loading" /\ Stage' = "serving"
      /\ MemoryStats.allocated = mgr.allocated
      /\ UNCHANGED << MemoryStats.total, MemoryStats.allocated >>
  BY <1>1, <1>2, <1>3, <1>4, Viewed DEF View, Loading
<1> QED BY <1>1, <1>5, <1>6 DEF Lazy!Serve

(* shutdown between calls: everything goes back, also what an exception    *)
(* left behind.                                                            *)
LEMMA ShutdownLazily ==
  ASSUME IInv, IInv', ~ Voided', Shutdown
  PROVE  Lazy!Shutdown
<1>1. /\ Release /\ reply' = "shutdown" /\ UNCHANGED << tier, stack >>
      /\ ~ Voided /\ stack = << >> /\ Held' = {}
  <2>1. ~ Voided /\ "reentry" \notin upset'
    BY StillSound DEF Next
  <2> QED BY <2>1 DEF Shutdown, Nested, Release, Held
<1>2. CASE mgr = NULL
  <2>1. mgr' = NULL /\ heap' = heap
    BY <1>1, <1>2 DEF Release
  <2>2. /\ Stage = "new" /\ Stage' = "new"
        /\ UNCHANGED << MemoryStats.total, MemoryStats.allocated >>
    BY <1>1, <1>2, <2>1, Viewed DEF View
  <2> QED BY <1>1, <1>2, <2>1, <2>2 DEF Lazy!Shutdown
<1>3. CASE mgr # NULL
  <2>1. Stage \in {"idle", "abandoned"}
    BY <1>1, <1>3, Viewed DEF View
  <2>2. Lazy!GiveBack("shutdown")
    BY <1>1, <1>3, GiveBackLazily
  <2> QED BY <2>1, <2>2 DEF Lazy!Shutdown
<1> QED BY <1>2, <1>3

(* What the client cannot tell from nothing: the creation of the backend,  *)
(* the tokens after the first, a crash, the end of the runtime.            *)
LEMMA StutterLazily ==
  ASSUME IInv, ~ Voided', [Next]_vars,
         \/ CreateBackend \/ TokenReturns \/ ThirdTokenCrashes \/ Destroy
         \/ \E op \in Ops : CallTooEarly(op)
         \/ UNCHANGED vars
  PROVE  UNCHANGED Lazy!vars
<1>1. /\ UNCHANGED << tier, mgr, heap, reply >> /\ ~ Voided
      /\ UNCHANGED << MemoryStats.total, MemoryStats.allocated >>
  BY StillSound, Viewed
     DEF View, CreateBackend, TokenReturns, ThirdTokenCrashes, Destroy,
         CallTooEarly, vars
<1>2. CASE UNCHANGED stack
  BY <1>1, <1>2, Viewed DEF View, Lazy!vars
<1>3. CASE CreateBackend \/ TokenReturns
  <2>1. stack # << >> /\ mgr # NULL
    BY <1>3 DEF CreateBackend, TokenReturns, At, IInv, ManagerInv
  <2>2. PICK pc \in Pcs : /\ Goto(pc)
                          /\ pc \in Loading <=> Last(stack).pc \in Loading
    BY <1>3 DEF CreateBackend, TokenReturns, At, Pcs, Loading, Tokens
  <2>3. stack' # << >> /\ Last(stack').pc = pc
    BY <2>1, <2>2, GotoStack DEF IInv, TypeOK
  <2>4. Stage' = Stage
    BY <1>1, <2>1, <2>2, <2>3, Viewed DEF View
  <2> QED BY <1>1, <2>4 DEF Lazy!vars
<1> QED BY <1>2, <1>3 DEF ThirdTokenCrashes, Destroy, CallTooEarly, vars

-----------------------------------------------------------------------------
(* Every step of the runtime and its client is one of the promise's.       *)
LEMMA LazyStep ==
  ASSUME IInv, IInv', ChargeInv, NewIsSound', [Next]_vars
  PROVE  [Lazy!Next]_(Lazy!vars)
<1>1. CASE Voided'
  BY <1>1, VoidLazily DEF Lazy!Next
<1>2. CASE ~ Voided'
  <2>1. CASE Initialize
    BY <1>2, <2>1, InitializeLazily DEF Lazy!Next
  <2>2. ASSUME NEW op \in Ops, Call(op)
        PROVE  Lazy!Next
    BY <1>2, <2>2, CallLazily DEF Lazy!Next
  <2>3. CASE WeightsAllocated \/ KvAllocated
    BY <1>2, <2>3, AllocateLazily DEF Lazy!Next
  <2>4. CASE WeightsRefused \/ KvRefused \/ CreateFails \/ InitFails \/ Unload
    BY <1>2, <2>4, EndLazily DEF Lazy!Next
  <2>5. CASE WeightsThrow \/ KvThrows \/ TokenThrows
    BY <1>2, <2>5, ThrowLazily DEF Lazy!Next
  <2>6. CASE InitBackend
    BY <1>2, <2>6, InitBackendLazily DEF Lazy!Next
  <2>7. CASE Shutdown
    BY <1>2, <2>7, ShutdownLazily DEF Lazy!Next
  <2>8. CASE \/ CreateBackend \/ TokenReturns \/ ThirdTokenCrashes \/ Destroy
             \/ \E op \in Ops : CallTooEarly(op)
             \/ UNCHANGED vars
    BY <1>2, <2>8, StutterLazily
  <2> QED BY <2>1, <2>2, <2>3, <2>4, <2>5, <2>6, <2>7, <2>8 DEF Next, Step
<1> QED BY <1>1, <1>2

(* The runtime keeps the promise of LazyLoading: nothing before a call,    *)
(* all of it while one answers, nothing after, refusals only for want of   *)
(* memory, and blocks an exception left behind only until a shutdown.      *)
THEOREM RefinesLazyLoading == Spec => ImplementsLazyLoading
<1>1. Init => Lazy!Init
  BY DEF Init, Lazy!Init, Stage, Voided, MemoryStats
<1>2. /\ IInv /\ IInv' /\ ChargedInv /\ NewIsSound' /\ [Next]_vars
      => [Lazy!Next]_(Lazy!vars)
  BY LazyStep DEF ChargedInv
<1> QED BY <1>1, <1>2, SpecIInv, SpecCharged, SpecNewIsSound, PTL
        DEF Spec, ImplementsLazyLoading, Lazy!Spec
=============================================================================
