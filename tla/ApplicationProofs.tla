--------------------------- MODULE ApplicationProofs ---------------------------
(***************************************************************************)
(* A program on any device, with any tier sizes, whatever on_token does    *)
(* and whatever fails: which pointer to the backend is good, that a call   *)
(* is served as the device was detected, and what overcommits the RAM.     *)
(*                                                                         *)
(* The application is a device and so a runtime, whose invariant IInv is   *)
(* used throughout: without re-entry there is one call at most (StackInv)  *)
(* and it has its backend from init on (ServingHoldsAll).  ServedInv says  *)
(* what that call has got, statement by statement; it needs no word of     *)
(* what earlier calls left behind, because every step of a call writes     *)
(* what it will use.                                                       *)
(***************************************************************************)
EXTENDS Application, DeviceProofs

(* Every step of the application is one of the device, or none. *)
LEMMA AppStepIsDeviceStep ==
  ASSUME [AppNext]_allVars
  PROVE  [DeviceNext]_<< vars, deviceVars >>
<1>1. CASE AppInitialize \/ AppRuns \/ AppUseChanges
  BY <1>1 DEF AppInitialize, AppRuns, AppUseChanges, DeviceNext
<1>2. CASE GetBackend \/ UseBackend \/ UNCHANGED allVars
  BY <1>2 DEF GetBackend, UseBackend, allVars
<1> QED BY <1>1, <1>2 DEF AppNext

(* The application uses the runtime as a device runs it: what is proved of *)
(* Device and Runtime can be used below.                                   *)
LEMMA ApplicationRunsDevice == AppSpec => DeviceSpec
<1>1. AppInit => DeviceInit
  BY DEF AppInit
<1> QED BY <1>1, AppStepIsDeviceStep, PTL DEF AppSpec, DeviceSpec

-----------------------------------------------------------------------------
(* A backend appears at one statement only. *)
LEMMA BackendMade ==
  ASSUME RuntimeRuns, backend', ~ backend
  PROVE  At("create")
<1>1. Release => ~ backend'
  BY DEF Release
<1> QED BY <1>1 DEF RuntimeRuns, Call, CallTooEarly, Shutdown, Destroy, Step,
           WeightsAllocated, WeightsRefused, WeightsThrow, KvAllocated,
           KvRefused, KvThrows, AllocationThrows, CreateBackend, CreateFails,
           InitBackend, InitFails, TokenReturns, ThirdTokenCrashes,
           TokenThrows, Unload

(* A block just recorded is on record, and so is what was before. *)
LEMMA TrackRecords ==
  ASSUME NEW m, Consistent(m), NEW p \in Addr, NEW n \in Nat, n <= HeapMax
  PROVE  /\ [ptr |-> p, size |-> n] \in ToSet(Track(m, p, n).allocations)
         /\ ToSet(m.allocations) \subseteq ToSet(Track(m, p, n).allocations)
<1> DEFINE e == [ptr |-> p, size |-> n]
           a == m.allocations
<1>0. n \in Bytes
  <2>1. m.max \in Nat /\ m.max + HeapMax < Width /\ HeapMax \in Nat /\ Width \in Nat
    BY WidthAssumption DEF Consistent
  <2> QED BY <2>1 DEF Bytes
<1>1. a \in Seq([ptr : Addr, size : Bytes]) /\ e \in [ptr : Addr, size : Bytes]
  BY <1>0 DEF Consistent, Manager
<1>2. Track(m, p, n).allocations = Append(a, e)
  BY DEF Track
<1> HIDE DEF e, a
<1>3. /\ DOMAIN Append(a, e) = 1 .. Len(a) + 1 /\ Len(a) \in Nat /\ DOMAIN a = 1 .. Len(a)
      /\ Append(a, e)[Len(a) + 1] = e
      /\ \A i \in 1 .. Len(a) : Append(a, e)[i] = a[i]
  BY <1>1, PushFacts
<1>4. /\ Len(a) + 1 \in DOMAIN Append(a, e)
      /\ \A i \in DOMAIN a : i \in DOMAIN Append(a, e)
  BY <1>3
<1> QED BY <1>2, <1>3, <1>4 DEF ToSet, e, a

(* A call of the runtime, seen statement by statement, as long as no code  *)
(* has called from inside on_token and the call has not ended.             *)
LEMMA RunsCases ==
  ASSUME IInv, RuntimeRuns, "reentry" \notin upset', stack' # << >>
  PROVE  /\ "reentry" \notin upset /\ tier' = tier
         /\ \/ stack = << >> /\ Last(stack').pc = "weights"
            \/ /\ At("weights") /\ Last(stack').pc = "kv"
               /\ [ptr |-> ram', size |-> WeightSize[tier]] \in ToSet(mgr'.allocations)
            \/ /\ At("kv") /\ Last(stack').pc = "create" /\ ram' = ram
               /\ [ptr |-> kv', size |-> KvSize[tier]] \in ToSet(mgr'.allocations)
               /\ ToSet(mgr.allocations) \subseteq ToSet(mgr'.allocations)
            \/ /\ At("create") /\ Last(stack').pc = "init" /\ backend'
               /\ UNCHANGED << ram, kv, mgr >>
            \/ /\ At("init") /\ Last(stack').pc \in Tokens \cup {"unload"}
               /\ UNCHANGED << ram, kv, mgr, backend >>
            \/ /\ \E pc \in Tokens : At(pc)
               /\ Last(stack').pc \in Tokens \cup {"unload"}
               /\ UNCHANGED << ram, kv, mgr, backend >>
<1>1. /\ stack \in Seq(Frame) /\ TypeOK /\ StackInv
      /\ stack # << >> => Consistent(mgr) /\ tier \in Tiers
  BY DEF IInv, TypeOK, ManagerInv
<1>2. upset \subseteq upset'
  BY DEF RuntimeRuns, Call, CallTooEarly, Shutdown, Destroy, Step,
         WeightsAllocated, WeightsRefused, WeightsThrow, KvAllocated,
         KvRefused, KvThrows, AllocationThrows, CreateBackend, CreateFails,
         InitBackend, InitFails, TokenReturns, ThirdTokenCrashes,
         TokenThrows, Unload
<1>3. "reentry" \notin upset
  BY <1>2
<1>4. \A r : stack # << >> => ~ Return(r)
  BY <1>1, <1>2, ReturnStack DEF Return
<1>5. ASSUME NEW pc \in Pcs, Goto(pc), stack # << >>
      PROVE  Last(stack').pc = pc
  BY <1>1, <1>5, GotoStack
<1>6. CASE \E op \in Ops : Call(op) \/ CallTooEarly(op)
  <2>1. PICK op \in Ops : Call(op) \/ CallTooEarly(op)
    BY <1>6
  <2>2. stack = << >>
    <3>1. Nested \subseteq upset' \/ CallTooEarly(op)
      BY <2>1 DEF Call
    <3>2. ~ CallTooEarly(op)
      BY DEF CallTooEarly, IInv, ManagerInv
    <3> QED BY <3>1, <3>2 DEF Nested
  <2>3. Call(op)
    BY <2>1, <2>2 DEF CallTooEarly
  <2>4. PICK f \in [op : {op}, pc : {"weights"}, on_token : BOOLEAN] :
          stack' = Append(stack, f)
    BY <2>3 DEF Call
  <2>5. Last(stack').pc = "weights"
    BY <2>2, <2>4 DEF Last
  <2> QED BY <1>3, <2>2, <2>3, <2>5 DEF Call
<1>7. CASE WeightsAllocated
  <2>1. PICK p \in Addr \ heap :
          mgr' = Track(mgr, p, WeightSize[tier]) /\ ram' = p
    BY <1>7 DEF WeightsAllocated
  <2>2. At("weights") /\ stack # << >> /\ tier' = tier /\ Goto("kv")
    BY <1>7 DEF WeightsAllocated, At
  <2>3. WeightSize[tier] <= HeapMax /\ WeightSize[tier] \in Nat
    BY <1>1, <1>7, <2>2, SizesAssumption DEF WeightsAllocated
  <2> QED BY <1>1, <1>3, <1>5, <2>1, <2>2, <2>3, TrackRecords DEF Pcs, Loading
<1>8. CASE KvAllocated
  <2>1. PICK p \in Addr \ heap :
          mgr' = Track(mgr, p, KvSize[tier]) /\ kv' = p
    BY <1>8 DEF KvAllocated
  <2>2. At("kv") /\ stack # << >> /\ tier' = tier /\ ram' = ram /\ Goto("create")
    BY <1>8 DEF KvAllocated, At
  <2>3. KvSize[tier] <= HeapMax /\ KvSize[tier] \in Nat
    BY <1>1, <1>8, <2>2, SizesAssumption DEF KvAllocated
  <2> QED BY <1>1, <1>3, <1>5, <2>1, <2>2, <2>3, TrackRecords DEF Pcs, Loading
<1>9. CASE CreateBackend
  BY <1>3, <1>5, <1>9 DEF CreateBackend, At, Pcs, Loading
<1>10. CASE InitBackend
  <2>1. PICK pc \in Tokens \cup {"unload"} : Goto(pc)
    BY <1>10 DEF InitBackend, Tokens
  <2> QED BY <1>3, <1>5, <1>10, <2>1 DEF InitBackend, At, Pcs
<1>11. CASE TokenReturns
  <2>1. PICK pc \in Tokens \cup {"unload"} : Goto(pc)
    BY <1>11 DEF TokenReturns, Tokens
  <2> QED BY <1>3, <1>5, <1>11, <2>1 DEF TokenReturns, At, Pcs, Tokens
<1>12. CASE ThirdTokenCrashes
  <2>1. backend
    BY <1>3, <1>12 DEF ThirdTokenCrashes, At, IInv, ServingHoldsAll, Tokens
  <2> QED BY <1>12, <2>1 DEF ThirdTokenCrashes
<1>13. CASE \/ WeightsRefused \/ WeightsThrow \/ KvRefused \/ KvThrows
            \/ CreateFails \/ InitFails \/ TokenThrows \/ Unload
  BY <1>4, <1>13 DEF WeightsRefused, WeightsThrow, KvRefused, KvThrows,
     AllocationThrows, CreateFails, InitFails, TokenThrows, Unload, At
<1>14. CASE Shutdown
  <2>1. stack' = stack /\ Nested \subseteq upset'
    BY <1>14 DEF Shutdown
  <2> QED BY <2>1 DEF Nested
<1>15. CASE Destroy
  BY <1>15 DEF Destroy
<1> QED BY <1>6, <1>7, <1>8, <1>9, <1>10, <1>11, <1>12, <1>13, <1>14, <1>15
        DEF RuntimeRuns, Step

-----------------------------------------------------------------------------
(* There are never more calls than the bound says. *)
LEMMA DepthStep ==
  ASSUME IInv, DepthInv, [Next]_vars
  PROVE  DepthInv'
<1>1. stack \in Seq(Frame) /\ MaxDepth \in Nat /\ Len(stack) \in Nat
  BY DepthAssumption DEF IInv, TypeOK
<1>2. \A pc : Goto(pc) => Len(stack') = Len(stack)
  BY <1>1 DEF Goto
<1>3. \A r : stack # << >> /\ Return(r) => Len(stack') <= MaxDepth
  BY <1>1, PopFacts DEF Return, DepthInv
<1>4. CASE \E op \in Ops : Call(op)
  <2>1. PICK op \in Ops : Call(op)
    BY <1>4
  <2>2. PICK f \in [op : {op}, pc : {"weights"}, on_token : BOOLEAN] :
          stack' = Append(stack, f)
    BY <2>1 DEF Call
  <2>3. f \in Frame
    BY DEF Frame, Loading
  <2>4. Len(stack') = Len(stack) + 1
    BY <1>1, <2>2, <2>3, PushFacts
  <2>5. Len(stack) < MaxDepth
    BY <2>1 DEF Call
  <2> QED BY <1>1, <2>4, <2>5 DEF DepthInv
<1>5. CASE \/ WeightsAllocated \/ KvAllocated \/ CreateBackend \/ InitBackend
           \/ TokenReturns
  BY <1>2, <1>5 DEF DepthInv, WeightsAllocated, KvAllocated, CreateBackend,
     InitBackend, TokenReturns
<1>6. CASE \/ WeightsRefused \/ WeightsThrow \/ KvRefused \/ KvThrows
           \/ CreateFails \/ InitFails \/ TokenThrows \/ Unload
  BY <1>3, <1>6 DEF DepthInv, WeightsRefused, WeightsThrow, KvRefused, KvThrows,
     AllocationThrows, CreateFails, InitFails, TokenThrows, Unload, At
<1>7. CASE UNCHANGED stack
  BY <1>7 DEF DepthInv
<1> QED BY <1>4, <1>5, <1>6, <1>7
        DEF Next, Step, Initialize, InitializeOn, CallTooEarly,
            ThirdTokenCrashes, Shutdown, Destroy, vars

(* The object behind backend_, and the pointer to it. *)
LEMMA ObjectStep ==
  ASSUME IInv, IInv', object \in Backend \cup {NULL}, ObjectInv, [AppNext]_allVars
  PROVE  object' \in Backend \cup {NULL} /\ ObjectInv'
<1>0. NULL \notin Backend
  BY BackendAssumption
<1>1. CASE AppRuns
  <2>1. backend \in BOOLEAN /\ backend' \in BOOLEAN
    BY DEF IInv, TypeOK
  <2>2. ~ At("create") /\ backend' => backend
    BY <1>1, <2>1, BackendMade DEF AppRuns
  <2>3. CASE ~ backend'
    <3>1. object' = NULL /\ handle' # "live"
      BY <1>1, <2>3 DEF AppRuns, At
    <3> QED BY <2>3, <3>1 DEF ObjectInv
  <2>4. CASE backend' /\ At("create")
    <3>1. object' = CPUBackend(FALSE) /\ handle' # "live"
      BY <1>1, <2>4 DEF AppRuns, At, CreateOptimal
    <3>2. CPUBackend(FALSE) \in Backend /\ ~ CPUBackend(FALSE).use_onnx
      BY DEF CPUBackend, Backend
    <3> QED BY <1>0, <2>4, <3>1, <3>2 DEF ObjectInv
  <2>5. CASE backend' /\ At("init")
    <3>1. ~ At("create")
      BY <2>5 DEF At
    <3>2. object' = [object EXCEPT !.context = MaxContext(tier)]
      BY <1>1, <2>5, <3>1 DEF AppRuns, WithContext
    <3>3. object \in Backend /\ ~ object.use_onnx
      BY <2>2, <2>5, <3>1 DEF ObjectInv
    <3>4. MaxContext(tier) \in {NULL, 512, 2048}
      BY DEF MaxContext
    <3>5. object' \in Backend /\ ~ object'.use_onnx
      BY <3>2, <3>3, <3>4 DEF Backend
    <3> QED BY <1>0, <2>5, <3>5 DEF ObjectInv
  <2>6. CASE backend' /\ ~ (At("create") \/ At("init"))
    <3>1. object' = object
      BY <1>1, <2>6 DEF AppRuns
    <3> QED BY <2>2, <2>6, <3>1 DEF ObjectInv
  <2> QED BY <2>3, <2>4, <2>5, <2>6
<1>2. CASE GetBackend
  BY <1>2 DEF GetBackend, ObjectInv, vars
<1>3. CASE UseBackend
  BY <1>3 DEF UseBackend, ObjectInv, vars
<1>4. CASE AppInitialize
  BY <1>4 DEF AppInitialize, DeviceInitialize, InitializeOn, ObjectInv, clientVars
<1>5. CASE AppUseChanges \/ UNCHANGED allVars
  BY <1>5 DEF AppUseChanges, UseChanges, ObjectInv, allVars, appVars, vars
<1> QED BY <1>1, <1>2, <1>3, <1>4, <1>5 DEF AppNext

(* The pointer of a call in progress stays good. *)
LEMMA PointerStep ==
  ASSUME IInv, IInv', ObjectInv, fetched \in Nat, PointerInv, PointerLastsTheCall,
         [AppNext]_allVars
  PROVE  PointerInv' /\ PointerLastsTheCall'
<1>1. CASE AppRuns
  <2>1. client' = client /\ client = "running" /\ RuntimeRuns
    BY <1>1 DEF AppRuns
  <2>2. ASSUME fetched' > 0, "reentry" \notin upset'
        PROVE  /\ handle' = "live"
               /\ stack' # << >>
               /\ Last(stack').pc \in Tokens \cup {"unload"}
    <3>1. fetched > 0 /\ Len(stack') >= fetched
      <4>1. Len(stack') \in Nat
        BY DEF IInv, TypeOK
      <4>2. fetched' = IF Len(stack') < fetched THEN 0 ELSE fetched
        BY <1>1 DEF AppRuns
      <4> QED BY <2>2, <4>1, <4>2
    <3>2. stack' # << >>
      BY <3>1, EmptySeq
    <3>3. "reentry" \notin upset
      BY <2>1, <2>2, <3>2, RunsCases
    <3>4. handle = "live" /\ stack # << >> /\ Last(stack).pc \in Tokens \cup {"unload"}
      BY <2>1, <3>1, <3>3 DEF PointerInv
    <3>5. ~ At("create") /\ ~ At("weights") /\ ~ At("kv") /\ ~ At("init")
      BY <3>4, PcFacts DEF At
    <3>6. Last(stack').pc \in Tokens \cup {"unload"} /\ backend' = backend
      BY <2>1, <2>2, <3>2, <3>4, <3>5, RunsCases
    <3>7. handle' = "live"
      BY <1>1, <3>4, <3>5, <3>6 DEF AppRuns, ObjectInv
    <3> QED BY <3>2, <3>6, <3>7
  <2> QED BY <2>1, <2>2 DEF PointerInv, PointerLastsTheCall
<1>2. CASE AppInitialize
  <2>1. /\ Nested \subseteq upset' /\ upset \subseteq upset'
        /\ client' = "running" /\ UNCHANGED << fetched, client >>
    BY <1>2 DEF AppInitialize, DeviceInitialize, InitializeOn, clientVars
  <2> QED BY <2>1 DEF PointerInv, PointerLastsTheCall, Nested
<1>3. CASE GetBackend
  <2>1. /\ UNCHANGED << stack, upset, client >> /\ client = "running"
        /\ fetched' = Len(stack)
        /\ handle' = IF object = NULL THEN "null" ELSE "live"
        /\ stack # << >> => Last(stack).pc \in Tokens
    BY <1>3 DEF GetBackend, ClientRuns, vars
  <2>2. ASSUME fetched' > 0, "reentry" \notin upset
        PROVE  stack # << >> /\ object # NULL
    <3>1. stack # << >>
      BY <2>1, <2>2, EmptySeq
    <3>2. backend
      BY <2>1, <2>2, <3>1 DEF IInv, ServingHoldsAll
    <3> QED BY <3>1, <3>2 DEF ObjectInv
  <2> QED BY <2>1, <2>2 DEF PointerInv, PointerLastsTheCall
<1>4. CASE UseBackend
  <2>1. /\ UNCHANGED << stack, upset, handle, fetched >> /\ client = "running"
        /\ handle = "live" => client' = "running"
    BY <1>4 DEF UseBackend, ClientRuns, vars
  <2> QED BY <2>1 DEF PointerInv, PointerLastsTheCall
<1>5. CASE AppUseChanges \/ UNCHANGED allVars
  BY <1>5 DEF AppUseChanges, UseChanges, allVars, appVars, vars,
              PointerInv, PointerLastsTheCall
<1> QED BY <1>1, <1>2, <1>3, <1>4, <1>5 DEF AppNext

(* A call keeps what it was given. *)
LEMMA ServedStep ==
  ASSUME IInv, IInv', object \in Backend \cup {NULL}, ObjectInv, ServedInv,
         [AppNext]_allVars
  PROVE  ServedInv'
<1>1. CASE AppRuns
  <2>1. RuntimeRuns
    BY <1>1 DEF AppRuns
  <2>2. SUFFICES ASSUME "reentry" \notin upset', stack' # << >>
                 PROVE  ServedInv'
    BY DEF ServedInv
  <2>3. "reentry" \notin upset /\ tier' = tier
    BY <2>1, <2>2, RunsCases
  <2> DEFINE W == [ptr |-> ram, size |-> WeightSize[tier]]
             K == [ptr |-> kv, size |-> KvSize[tier]]
             on == ToSet(mgr.allocations)
  <2>4. CASE stack = << >> /\ Last(stack').pc = "weights"
    BY <2>4, PcFacts DEF ServedInv
  <2>5. CASE /\ At("weights") /\ Last(stack').pc = "kv"
             /\ [ptr |-> ram', size |-> WeightSize[tier]] \in ToSet(mgr'.allocations)
    BY <2>3, <2>5, PcFacts DEF ServedInv
  <2>6. CASE /\ At("kv") /\ Last(stack').pc = "create" /\ ram' = ram
             /\ [ptr |-> kv', size |-> KvSize[tier]] \in ToSet(mgr'.allocations)
             /\ ToSet(mgr.allocations) \subseteq ToSet(mgr'.allocations)
    <3>1. W \in on
      BY <2>3, <2>6 DEF ServedInv, At
    <3> QED BY <2>3, <2>6, <3>1, PcFacts DEF ServedInv
  <2>7. CASE /\ At("create") /\ Last(stack').pc = "init" /\ backend'
             /\ UNCHANGED << ram, kv, mgr >>
    <3>1. W \in on /\ K \in on
      BY <2>3, <2>7 DEF ServedInv, At
    <3> QED BY <2>3, <2>7, <3>1, PcFacts DEF ServedInv
  <2>8. CASE /\ At("init") /\ Last(stack').pc \in Tokens \cup {"unload"}
             /\ UNCHANGED << ram, kv, mgr, backend >>
    <3>1. W \in on /\ K \in on
      BY <2>3, <2>8 DEF ServedInv, At
    <3>2. backend
      BY <2>3, <2>8 DEF IInv, ServingHoldsAll, At
    <3>3. object' = [object EXCEPT !.context = MaxContext(tier)] /\ object \in Backend
      BY <1>1, <2>8, <3>2 DEF AppRuns, At, ObjectInv, WithContext
    <3>4. object'.context = MaxContext(tier)
      BY <3>3 DEF Backend
    <3> QED BY <2>3, <2>8, <3>1, <3>4 DEF ServedInv
  <2>9. CASE /\ \E pc \in Tokens : At(pc)
             /\ Last(stack').pc \in Tokens \cup {"unload"}
             /\ UNCHANGED << ram, kv, mgr, backend >>
    <3>1. stack # << >> /\ Last(stack).pc \in Tokens
      BY <2>9 DEF At
    <3>2. W \in on /\ K \in on /\ object.context = MaxContext(tier) /\ backend
      BY <2>3, <3>1, PcFacts DEF ServedInv, IInv, ServingHoldsAll
    <3>3. ~ (At("create") \/ At("init"))
      BY <3>1, PcFacts DEF At
    <3>4. object' = object
      BY <1>1, <2>9, <3>2, <3>3 DEF AppRuns
    <3> QED BY <2>3, <2>9, <3>2, <3>4 DEF ServedInv
  <2> HIDE DEF W, K, on
  <2> QED BY <2>1, <2>2, <2>4, <2>5, <2>6, <2>7, <2>8, <2>9, RunsCases
<1>2. CASE AppInitialize
  <2>1. stack' = stack /\ Nested \subseteq upset'
    BY <1>2 DEF AppInitialize, DeviceInitialize, InitializeOn
  <2> QED BY <2>1 DEF ServedInv, Nested
<1>3. CASE GetBackend \/ UseBackend \/ AppUseChanges \/ UNCHANGED allVars
  BY <1>3 DEF GetBackend, UseBackend, AppUseChanges, UseChanges, allVars,
              appVars, vars, ServedInv
<1> QED BY <1>1, <1>2, <1>3 DEF AppNext

(* The budget is what was free when it was read, or half of the product.   *)
LEMMA BudgetReadStep ==
  ASSUME IInv, IInv', DeviceTypeOK, BudgetInv, [AppNext]_allVars
  PROVE  BudgetInv'
<1>1. CASE AppInitialize
  <2>2. /\ mgr' = NewManager(Detect(platform, total, total - others).available)
        /\ platform' = platform /\ total' = total /\ usedThen' = others
    BY <1>1 DEF AppInitialize, DeviceInitialize, InitializeOn, deviceVars
  <2>3. mgr'.max = Detect(platform, total, total - others).available
    BY <2>2 DEF NewManager
  <2>4. CASE platform = "windows"
    BY <2>2, <2>3, <2>4 DEF Detect, Detector, WindowsDetector, BudgetInv
  <2>5. CASE platform = "apple"
    BY <2>2, <2>3, <2>5 DEF Detect, Detector, AppleDetector, BudgetInv
  <2>6. CASE platform = "linux"
    BY <2>2, <2>3, <2>6 DEF Detect, Detector, LinuxDetector, BudgetInv
  <2>7. CASE platform \notin Measuring
    BY <2>2, <2>7 DEF BudgetInv
  <2> QED BY <2>4, <2>5, <2>6, <2>7 DEF Measuring
<1>2. CASE AppRuns
  BY <1>2, MachineUnchanged DEF AppRuns, RuntimeRuns, deviceVars, BudgetInv
<1>3. CASE GetBackend \/ UseBackend \/ AppUseChanges \/ UNCHANGED allVars
  BY <1>3 DEF GetBackend, UseBackend, AppUseChanges, UseChanges, allVars,
              appVars, vars, deviceVars, BudgetInv
<1> QED BY <1>1, <1>2, <1>3 DEF AppNext

(* Live blocks stay on record, unless one is lost to push_back or to an    *)
(* initialize that replaces the record.                                    *)
LEMMA RecordedStep ==
  ASSUME IInv, RecordedInv, [Next]_vars
  PROVE  RecordedInv'
<1>0. /\ mgr # NULL => Consistent(mgr) /\ tier \in Tiers
      /\ mgr = NULL => heap = {} /\ Held = {} /\ stack = << >>
      /\ mgr # NULL => Tracked(mgr) \subseteq heap
  BY DEF IInv, ManagerInv, NoDangling
<1>1. upset \subseteq upset'
  BY UpsetGrows
<1>2. SUFFICES ASSUME mgr' # NULL, upset' \cap {"reinit", "push_back"} = {}
               PROVE  heap' = Tracked(mgr')
  BY DEF RecordedInv
<1>3. mgr # NULL => heap = Tracked(mgr)
  BY <1>1, <1>2 DEF RecordedInv
<1>4. CASE Initialize
  <2>1. PICK m \in Machines : InitializeOn(m)
    BY <1>4 DEF Initialize
  <2>2. m.available \in Budgets /\ mgr' = NewManager(m.available) /\ heap' = heap
    BY <2>1, MachinesAssumption DEF InitializeOn
  <2>3. Tracked(mgr') = {}
    BY <2>2, NewManagerConsistent
  <2>4. heap = {}
    BY <1>2, <2>1 DEF InitializeOn
  <2> QED BY <2>2, <2>3, <2>4
<1>5. CASE WeightsAllocated
  <2>1. PICK p \in Addr \ heap :
          mgr' = Track(mgr, p, WeightSize[tier]) /\ heap' = heap \cup {p}
    BY <1>5 DEF WeightsAllocated
  <2>2. mgr # NULL /\ WeightSize[tier] \in Nat /\ WeightSize[tier] <= HeapMax
        /\ ~ Refuses(mgr, WeightSize[tier])
    BY <1>0, <1>5, SizesAssumption DEF WeightsAllocated, At
  <2> QED BY <1>3, <2>1, <2>2, AllocateFacts
<1>6. CASE KvAllocated
  <2>1. PICK p \in Addr \ heap :
          mgr' = Track(mgr, p, KvSize[tier]) /\ heap' = heap \cup {p}
    BY <1>6 DEF KvAllocated
  <2>2. mgr # NULL /\ KvSize[tier] \in Nat /\ KvSize[tier] <= HeapMax
        /\ ~ Refuses(mgr, KvSize[tier])
    BY <1>0, <1>6, SizesAssumption DEF KvAllocated, At
  <2> QED BY <1>3, <2>1, <2>2, AllocateFacts
<1>7. CASE KvRefused
  <2>1. mgr # NULL /\ mgr' = Untrack(mgr, ram) /\ heap' = heap \ ({ram} \cap Tracked(mgr))
    BY <1>0, <1>7 DEF KvRefused, At
  <2>2. Tracked(mgr') = Tracked(mgr) \ {ram}
    BY <1>0, <2>1, UntrackConsistent
  <2> QED BY <1>3, <2>1, <2>2
<1>8. CASE CreateFails \/ InitFails \/ Unload \/ Shutdown
  <2>1. Release
    BY <1>8 DEF CreateFails, InitFails, Unload, Shutdown
  <2>2. mgr # NULL
    BY <1>2, <2>1 DEF Release
  <2> QED BY <1>3, <2>1, <2>2, ReleaseFacts
<1>9. CASE WeightsThrow \/ KvThrows
  <2>1. UNCHANGED << mgr, heap >>
    BY <1>2, <1>9 DEF WeightsThrow, KvThrows, AllocationThrows
  <2> QED BY <1>2, <1>3, <2>1 DEF Tracked
<1>10. CASE UNCHANGED << mgr, heap >>
  BY <1>2, <1>3, <1>10 DEF Tracked
<1> QED BY <1>4, <1>5, <1>6, <1>7, <1>8, <1>9, <1>10
        DEF Next, Step, Call, CallTooEarly, WeightsRefused, CreateBackend,
            InitBackend, TokenReturns, ThirdTokenCrashes, TokenThrows, Destroy, vars

(* Every platform's detector names backends there are. *)
LEMMA DetectorTyped ==
  ASSUME NEW p \in Platforms, NEW all, NEW free
  PROVE  Detector(p, all, free).backends \subseteq BackendType
<1>1. p \in AllPlatforms
  BY DeviceAssumption
<1> QED BY <1>1 DEF AllPlatforms, Detector, WindowsDetector, AppleDetector,
         AndroidDetector, LinuxDetector, FallbackDetector, BackendType

(* The client's variables keep their types. *)
LEMMA ClientTyped ==
  ASSUME IInv, DeviceTypeOK, DepthInv, AppTypeOK, [AppNext]_allVars
  PROVE  /\ handle' \in {"none", "null", "live", "stale"}
         /\ fetched' \in 0 .. MaxDepth
         /\ client' \in {"running", "crashed"}
         /\ usedThen' \in Usages \cup {0}
<1>0. Len(stack) \in 0 .. MaxDepth /\ MaxDepth \in Nat
  BY DepthAssumption DEF IInv, TypeOK, DepthInv
<1>1. CASE AppRuns
  BY <1>0, <1>1 DEF AppRuns, AppTypeOK
<1>2. CASE AppInitialize
  BY <1>2 DEF AppInitialize, AppTypeOK, clientVars, DeviceTypeOK
<1>3. CASE GetBackend
  BY <1>0, <1>3 DEF GetBackend, AppTypeOK
<1>4. CASE UseBackend
  BY <1>4 DEF UseBackend, AppTypeOK
<1>5. CASE AppUseChanges \/ UNCHANGED allVars
  BY <1>5 DEF AppUseChanges, AppTypeOK, allVars, appVars
<1> QED BY <1>1, <1>2, <1>3, <1>4, <1>5 DEF AppNext

-----------------------------------------------------------------------------
(* The invariant of the application. *)
LEMMA ApplicationIInv == AppSpec => []AppIInv
<1>1. AppInit => AppIInv
  <2>1. SUFFICES ASSUME AppInit PROVE AppIInv
    OBVIOUS
  <2>2. stack = << >> /\ Len(stack) = 0 /\ MaxDepth \in Nat
    BY <2>1, DepthAssumption DEF AppInit, DeviceInit, Init
  <2>3. DeviceTypeOK
    BY <2>1 DEF AppInit, DeviceInit, DeviceTypeOK
  <2>4. AppTypeOK
    BY <2>1, <2>2, <2>3, DetectorTyped DEF AppInit, AppTypeOK, DeviceTypeOK, Supported
  <2>5. DepthInv /\ ObjectInv /\ PointerInv /\ ServedInv /\ BudgetInv /\ RecordedInv
        /\ PointerLastsTheCall
    BY <2>1, <2>2 DEF AppInit, DeviceInit, Init, DepthInv, ObjectInv, PointerInv,
       ServedInv, BudgetInv, RecordedInv, PointerLastsTheCall
  <2> QED BY <2>4, <2>5 DEF AppIInv
<1>2. AppIInv /\ IInv /\ IInv' /\ DeviceTypeOK /\ DeviceTypeOK' /\ [AppNext]_allVars
        => AppIInv'
  <2>1. SUFFICES ASSUME AppIInv, IInv, IInv', DeviceTypeOK, DeviceTypeOK',
                        [AppNext]_allVars
                 PROVE  AppIInv'
    OBVIOUS
  <2>2. [Next]_vars
    BY <2>1, AppStepIsDeviceStep, DeviceStepIsRuntimeStep
  <2>3. object \in Backend \cup {NULL} /\ fetched \in Nat
    BY <2>1, DepthAssumption DEF AppIInv, AppTypeOK
  <2>4. object' \in Backend \cup {NULL} /\ ObjectInv'
    BY <2>1, <2>3, ObjectStep DEF AppIInv
  <2>5. DepthInv'
    BY <2>1, <2>2, DepthStep DEF AppIInv
  <2>6. PointerInv' /\ PointerLastsTheCall'
    BY <2>1, <2>3, PointerStep DEF AppIInv
  <2>7. ServedInv'
    BY <2>1, <2>3, ServedStep DEF AppIInv
  <2>8. BudgetInv'
    BY <2>1, BudgetReadStep DEF AppIInv
  <2>9. RecordedInv'
    BY <2>1, <2>2, RecordedStep DEF AppIInv
  <2>10. AppTypeOK'
    <3>1. Supported' \subseteq BackendType
      BY <2>1, DetectorTyped DEF DeviceTypeOK, Supported
    <3>2. /\ handle' \in {"none", "null", "live", "stale"}
          /\ fetched' \in 0 .. MaxDepth
          /\ client' \in {"running", "crashed"}
          /\ usedThen' \in Usages \cup {0}
      BY <2>1, ClientTyped DEF AppIInv
    <3> QED BY <2>4, <3>1, <3>2 DEF AppTypeOK
  <2> QED BY <2>4, <2>5, <2>6, <2>7, <2>8, <2>9, <2>10 DEF AppIInv
<1>3. AppSpec => []IInv /\ []DeviceTypeOK
  BY ApplicationRunsDevice, DeviceRunsRuntime, DeviceTypeCorrect, SpecIInv, PTL
<1> QED BY <1>1, <1>2, <1>3, PTL DEF AppSpec

(* The application's variables keep their types. *)
THEOREM ApplicationTypeCorrect == AppSpec => []AppTypeOK
<1>1. AppIInv => AppTypeOK
  BY DEF AppIInv
<1> QED BY <1>1, ApplicationIInv, PTL

(* A pointer get_backend gave inside a call is good until the call ends,   *)
(* whatever fails or throws, unless on_token calls the runtime.            *)
THEOREM PointersLast == AppSpec => []PointerLastsTheCall
<1>1. AppIInv => PointerLastsTheCall
  BY DEF AppIInv
<1> QED BY <1>1, ApplicationIInv, PTL

(* Whatever earlier calls left behind: a call that answers does so with    *)
(* blocks of the sizes of the tier detected last and with its context      *)
(* length.                                                                 *)
THEOREM CallsServedAsDetected == AppSpec => []ServedAsDetected
<1>1. AppIInv => ServedAsDetected
  BY PcFacts DEF AppIInv, ServedInv, ServedAsDetected
<1> QED BY <1>1, ApplicationIInv, PTL

(* Where RAM is measured, all model memory on the heap is on the record of *)
(* the manager, and only growth of the other processes makes it exceed     *)
(* what is free -- unless initialize replaced the record of live blocks,   *)
(* or push_back lost one.                                                  *)
THEOREM OnlyGrowthOvercommits == AppSpec => []OvercommitNeedsGrowth
<1>1. AppIInv /\ IInv /\ DeviceTypeOK /\ BudgetKept => OvercommitNeedsGrowth
  <2>1. SUFFICES ASSUME AppIInv, IInv, DeviceTypeOK, BudgetKept,
                        platform \in Measuring, mgr # NULL,
                        platform = "windows" \/ ~ Negative(total),
                        upset \cap {"reinit", "push_back"} = {}
                 PROVE  /\ heap = Tracked(mgr)
                        /\ mgr.allocated > total - others =>
                             others > IF platform = "windows" THEN usedThen ELSE total \div 2
    BY DEF OvercommitNeedsGrowth
  <2>2. heap = Tracked(mgr)
    BY <2>1 DEF AppIInv, RecordedInv
  <2>3. SUFFICES ASSUME mgr.allocated > total - others
                 PROVE  others > IF platform = "windows" THEN usedThen ELSE total \div 2
    BY <2>2
  <2>4. /\ total \in Nat /\ others \in Nat /\ usedThen \in Nat
        /\ mgr.allocated \in Nat /\ mgr.max \in Nat /\ mgr.allocated <= mgr.max
    <3>1. mgr.allocated \in Nat /\ mgr.max \in Nat
      BY <2>1, WidthAssumption DEF IInv, ManagerInv, Consistent, Manager, Bytes
    <3>2. total \in Nat /\ others \in Nat /\ usedThen \in Nat
      BY <2>1, DeviceAssumption DEF DeviceTypeOK, AppIInv, AppTypeOK
    <3> QED BY <2>1, <3>1, <3>2 DEF BudgetKept
  <2>5. mgr.max = IF platform = "windows" THEN total - usedThen ELSE Long(total) \div 2
    BY <2>1 DEF AppIInv, BudgetInv
  <2>6. CASE platform = "windows"
    BY <2>3, <2>4, <2>5, <2>6
  <2>7. CASE platform # "windows"
    <3>1. Long(total) \in Nat /\ Long(total) <= total
      BY <2>1, <2>4, <2>7, LongBound
    <3>2. \A t \in Nat, n \in Nat : n <= t => t - (n \div 2) >= t \div 2
      OBVIOUS
    <3>3. total - (Long(total) \div 2) >= total \div 2
      BY <2>4, <3>1, <3>2
    <3>4. total - others < Long(total) \div 2
      BY <2>3, <2>4, <2>5, <2>7, <3>1
    <3> QED BY <2>4, <2>7, <3>1, <3>3, <3>4
  <2> QED BY <2>6, <2>7
<1>2. AppSpec => []IInv /\ []DeviceTypeOK /\ []BudgetKept
  BY ApplicationRunsDevice, DeviceRunsRuntime, DeviceTypeCorrect, SpecIInv,
     WithinBudget, PTL
<1> QED BY <1>1, <1>2, ApplicationIInv, PTL

(* So does the one the application uses: whatever the application does     *)
(* with its pointers, its callbacks and its machine's memory.              *)
THEOREM ApplicationLoadsLazily == AppSpec => ImplementsLazyLoading
BY ApplicationRunsDevice, DeviceRunsRuntime, RefinesLazyLoading, PTL
=============================================================================
