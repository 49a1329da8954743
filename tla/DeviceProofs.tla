----------------------------- MODULE DeviceProofs -----------------------------
(***************************************************************************)
(* A device runs the runtime Runtime describes (so everything proved of    *)
(* Runtime holds on every device), and its budget stays within its RAM     *)
(* unless pages * page_size is negative.  The budget changes in initialize *)
(* only, and there the detector's figure is at most the RAM: a remainder   *)
(* is no larger than what was divided (LongBound), and other processes use *)
(* no RAM that is not there (DeviceTypeOK).  How the product wraps is left *)
(* open: `long' may be as short as it likes.                               *)
(* The backend chosen fits that budget because its tier was decided from   *)
(* the same figure (DetectedInv) and the tiers' sizes are at most their    *)
(* thresholds (TierSizesAssumption).                                       *)
(***************************************************************************)
EXTENDS Device, LazyLoadingProofs

(* pages * page_size is some amount of RAM, whatever wraps. *)
LEMMA LongNat ==
  ASSUME NEW n \in Nat
  PROVE  Long(n) \in Nat
<1>1. LongRange \in Nat \ {0} /\ Width \in Nat /\ LongRange <= Width
  BY UnitsAssumption, WidthAssumption
<1>2. n % LongRange \in Nat
  BY <1>1
<1> QED BY <1>1, <1>2 DEF Long, Product

(* Unless it is negative, it is no more than there is. *)
LEMMA LongBound ==
  ASSUME NEW n \in Nat, ~ Negative(n)
  PROVE  Long(n) \in Nat /\ Long(n) <= n
<1>1. LongRange \in Nat \ {0}
  BY UnitsAssumption
<1>2. n % LongRange \in Nat /\ n % LongRange <= n
  BY <1>1
<1>3. Long(n) = n % LongRange
  BY <1>1, <1>2 DEF Long, Product, Negative
<1> QED BY <1>2, <1>3

(* No measuring detector reports more than there is, or else the product   *)
(* is negative.                                                            *)
LEMMA DetectBound ==
  ASSUME NEW p \in Measuring, NEW all \in Totals, NEW used \in Nat, used <= all,
         p = "windows" \/ ~ Negative(all)
  PROVE  Detect(p, all, all - used).available <= all
<1>1. all \in Nat
  BY DeviceAssumption
<1>2. CASE p = "windows"
  BY <1>1, <1>2 DEF Detect, Detector, WindowsDetector
<1>3. CASE p # "windows"
  <2>1. Long(all) \in Nat /\ Long(all) <= all
    BY <1>1, <1>3, LongBound
  <2>2. Long(all) \div 2 <= all
    BY <1>1, <2>1
  <2> QED BY <1>3, <2>2 DEF Measuring, Detect, Detector, AppleDetector, LinuxDetector
<1> QED BY <1>2, <1>3

(* What a detector reports is one of Runtime's machines. *)
LEMMA DeviceInitializes ==
  ASSUME DeviceTypeOK, DeviceInitialize
  PROVE  Initialize
BY DetectAssumption DEF DeviceTypeOK, DeviceInitialize, Initialize

(* The device's own variables keep their types. *)
LEMMA DeviceTyped ==
  ASSUME DeviceTypeOK, [DeviceNext]_<< vars, deviceVars >>
  PROVE  DeviceTypeOK'
<1>1. CASE UNCHANGED deviceVars
  BY <1>1 DEF DeviceTypeOK, deviceVars
<1>2. CASE UseChanges
  BY <1>2 DEF DeviceTypeOK, UseChanges
<1> QED BY <1>1, <1>2 DEF DeviceNext, DeviceInitialize, RuntimeRuns, vars, deviceVars

(* Every step of a device is a step of the runtime, or none. *)
LEMMA DeviceStepIsRuntimeStep ==
  ASSUME DeviceTypeOK, [DeviceNext]_<< vars, deviceVars >>
  PROVE  [Next]_vars
<1>1. CASE DeviceInitialize
  BY <1>1, DeviceInitializes DEF Next
<1>2. CASE RuntimeRuns
  BY <1>2 DEF RuntimeRuns, Next
<1>3. CASE UseChanges \/ UNCHANGED << vars, deviceVars >>
  BY <1>3 DEF UseChanges, vars
<1> QED BY <1>1, <1>2, <1>3 DEF DeviceNext

(* The budget stays within the RAM in every step. *)
LEMMA BudgetStep ==
  ASSUME IInv, IInv', DeviceTypeOK, BudgetWithinRam, [DeviceNext]_<< vars, deviceVars >>
  PROVE  BudgetWithinRam'
<1>1. CASE DeviceInitialize
  <2>1. /\ mgr' = NewManager(Detect(platform, total, total - others).available)
        /\ platform' = platform /\ total' = total
    BY <1>1 DEF DeviceInitialize, InitializeOn, deviceVars
  <2>2. total \in Totals /\ others \in Nat /\ others <= total
    BY DeviceAssumption DEF DeviceTypeOK
  <2>3. mgr'.max = Detect(platform, total, total - others).available
    BY <2>1 DEF NewManager
  <2>4. SUFFICES ASSUME platform \in Measuring, mgr'.max > total,
                        platform = "windows" \/ ~ Negative(total)
                 PROVE  FALSE
    BY <2>1 DEF BudgetWithinRam
  <2>5. Detect(platform, total, total - others).available <= total
    BY <2>2, <2>4, DetectBound
  <2>6. total \in Nat /\ mgr'.max \in Nat
    <3>1. mgr' # NULL
      BY <2>1, <2>2, DetectAssumption, MachinesAssumption, NewManagerConsistent,
         ManagerNotNull DEF DeviceTypeOK
    <3> QED BY <2>2, <3>1, DeviceAssumption, WidthAssumption
            DEF IInv, ManagerInv, Consistent
  <2> QED BY <2>3, <2>4, <2>5, <2>6
<1>2. CASE RuntimeRuns
  BY <1>2, MachineUnchanged DEF RuntimeRuns, BudgetWithinRam, deviceVars
<1>3. CASE UseChanges \/ UNCHANGED << vars, deviceVars >>
  BY <1>3 DEF UseChanges, BudgetWithinRam, vars, deviceVars
<1> QED BY <1>1, <1>2, <1>3 DEF DeviceNext

(* Tier and budget stay those of one detection. *)
LEMMA DetectedStep ==
  ASSUME IInv, IInv', DeviceTypeOK, DetectedInv, [DeviceNext]_<< vars, deviceVars >>
  PROVE  DetectedInv'
<1>1. CASE DeviceInitialize
  <2>1. /\ mgr' = NewManager(Detect(platform, total, total - others).available)
        /\ tier' = Detect(platform, total, total - others).tier
        /\ platform' = platform /\ total' = total
    BY <1>1 DEF DeviceInitialize, InitializeOn, deviceVars
  <2>2. total \in Nat /\ others \in Nat /\ others <= total
    BY DeviceAssumption DEF DeviceTypeOK
  <2>3. total - others \in 0 .. total
    BY <2>2
  <2>4. /\ mgr'.max = Detect(platform, total, total - others).available
        /\ mgr' # NULL
    <3>1. Detect(platform, total, total - others) \in [tier : Tiers, available : Budgets]
      BY DetectAssumption, MachinesAssumption DEF DeviceTypeOK
    <3>2. Detect(platform, total, total - others).available \in Budgets
      BY <3>1
    <3> QED BY <2>1, <3>2, NewManagerConsistent, ManagerNotNull DEF NewManager
  <2> QED BY <2>1, <2>3, <2>4 DEF DetectedInv
<1>2. CASE RuntimeRuns
  <2>1. /\ tier' = tier /\ (mgr # NULL <=> mgr' # NULL)
        /\ mgr # NULL => mgr'.max = mgr.max
        /\ platform' = platform /\ total' = total
    BY <1>2, MachineUnchanged DEF RuntimeRuns, deviceVars
  <2> QED BY <2>1 DEF DetectedInv
<1>3. CASE UseChanges \/ UNCHANGED << vars, deviceVars >>
  BY <1>3 DEF UseChanges, DetectedInv, vars, deviceVars
<1> QED BY <1>1, <1>2, <1>3 DEF DeviceNext

(* Half of at least 2n is at least n. *)
LEMMA Halves ==
  /\ \A all \in Nat, n \in Nat : all >= 2 * n => all \div 2 >= n
  /\ \A all \in Nat, n \in Nat : all < 2 * n => all \div 2 < n
OBVIOUS

(* Thresholds and budgets, platform by platform. *)
LEMMA TiersFitBudgets ==
  ASSUME NEW p \in Platforms, NEW all \in Totals, NEW free \in 0 .. all
  PROVE  LET d == Detect(p, all, free) IN
         /\ d.tier = "LOW_END"   => d.available < 4 * GB
         /\ d.tier = "MID_RANGE" => d.available >= 2 * GB
         /\ d.tier = "HIGH_END"  => d.available >= 8 * GB
<1>1. /\ p \in AllPlatforms /\ all \in Nat /\ free \in Nat /\ Long(all) \in Nat
      /\ GB \in Nat \ {0}
  BY DeviceAssumption, UnitsAssumption, LongNat
<1>2. /\ Long(all) \div 2 \in Nat
      /\ 2 * GB \in Nat /\ 4 * GB \in Nat /\ 8 * GB \in Nat /\ 16 * GB \in Nat
      /\ 4 * GB = 2 * (2 * GB) /\ 16 * GB = 2 * (8 * GB)
  BY <1>1
<1>3. CASE p = "windows"
  BY <1>1, <1>3 DEF Detect, Detector, WindowsDetector, Tier
<1>4. CASE p = "apple"
  BY <1>1, <1>2, <1>4 DEF Detect, Detector, AppleDetector, Tier
<1>5. CASE p = "android"
  BY <1>1, <1>5 DEF Detect, Detector, AndroidDetector, Tier
<1>6. CASE p = "linux"
  <2>1. /\ Long(all) < 4 * GB => Long(all) \div 2 < 4 * GB
        /\ Long(all) >= 4 * GB => Long(all) \div 2 >= 2 * GB
        /\ Long(all) >= 16 * GB => Long(all) \div 2 >= 8 * GB
    BY <1>1, <1>2, Halves
  <2> QED BY <1>1, <1>2, <1>6, <2>1 DEF Detect, Detector, LinuxDetector, Tier
<1>7. CASE p = "fallback"
  BY <1>1, <1>7 DEF Detect, Detector, FallbackDetector, Tier
<1> QED BY <1>1, <1>3, <1>4, <1>5, <1>6, <1>7 DEF AllPlatforms

-----------------------------------------------------------------------------
(* The device's own state keeps its type. *)
THEOREM DeviceTypeCorrect == DeviceSpec => []DeviceTypeOK
<1>1. DeviceInit => DeviceTypeOK
  BY DEF DeviceInit, DeviceTypeOK
<1> QED BY <1>1, DeviceTyped, PTL DEF DeviceSpec

(* A device does nothing to the runtime that Runtime does not allow: what  *)
(* is proved of Runtime can be used below.                                 *)
LEMMA DeviceRunsRuntime == DeviceSpec => Spec
<1>1. DeviceInit => Init
  BY DEF DeviceInit
<1> QED BY <1>1, DeviceTypeCorrect, DeviceStepIsRuntimeStep, PTL
        DEF DeviceSpec, Spec

(* Whatever `long' the build has and however much RAM the device: a        *)
(* measured budget exceeds the RAM only where the product is negative, and *)
(* never on Windows.                                                       *)
THEOREM BudgetNeverExceedsRam == DeviceSpec => []BudgetWithinRam
<1>1. DeviceInit => BudgetWithinRam
  BY DEF DeviceInit, Init, BudgetWithinRam
<1>2. DeviceSpec => []IInv
  BY DeviceRunsRuntime, SpecIInv, PTL
<1> QED BY <1>1, <1>2, DeviceTypeCorrect, BudgetStep, PTL DEF DeviceSpec

(* Tier and budget are always of one detection. *)
LEMMA DetectedAtOnce == DeviceSpec => []DetectedInv
<1>1. DeviceInit => DetectedInv
  BY DEF DeviceInit, Init, DetectedInv
<1>2. DeviceSpec => []IInv
  BY DeviceRunsRuntime, SpecIInv, PTL
<1> QED BY <1>1, <1>2, DeviceTypeCorrect, DetectedStep, PTL DEF DeviceSpec

(* What the hardware test asserts: a LOW_END device has less than 4 GB,    *)
(* whichever platform's thresholds classed it.                             *)
THEOREM LowEndStaysSmall == DeviceSpec => []LowEndIsSmall
<1>1. DeviceTypeOK /\ DetectedInv => LowEndIsSmall
  <2>1. NULL # "LOW_END"
    BY TiersAssumption, NullPointerAssumption
  <2>2. SUFFICES ASSUME DeviceTypeOK, DetectedInv, tier = "LOW_END"
                 PROVE  mgr.max < 4 * GB
    BY DEF LowEndIsSmall
  <2>3. PICK free \in 0 .. total : /\ tier    = Detect(platform, total, free).tier
                                   /\ mgr.max = Detect(platform, total, free).available
    BY <2>1, <2>2 DEF DetectedInv
  <2> QED BY <2>2, <2>3, TiersFitBudgets DEF DeviceTypeOK
<1> QED BY <1>1, DeviceTypeCorrect, DetectedAtOnce, PTL

(* On every platform an undisturbed call on a MID_RANGE or HIGH_END device *)
(* succeeds: the detectors' thresholds and the runtime's sizes, written in *)
(* different files, fit together.                                          *)
THEOREM LargeDevicesServe == DeviceSpec => []BigTiersServe
<1>1. IInv /\ DeviceTypeOK /\ DetectedInv /\ ChargedInv => BigTiersServe
  <2>1. NULL \notin {"MID_RANGE", "HIGH_END"}
    BY TiersAssumption, NullPointerAssumption
  <2>2. SUFFICES ASSUME IInv, DeviceTypeOK, DetectedInv, ChargedInv, upset = {},
                        tier \in {"MID_RANGE", "HIGH_END"}, reply = "error"
                 PROVE  FALSE
    BY DEF BigTiersServe
  <2>3. mgr # NULL
    BY <2>1, <2>2 DEF DetectedInv
  <2>4. PICK free \in 0 .. total : /\ tier    = Detect(platform, total, free).tier
                                   /\ mgr.max = Detect(platform, total, free).available
    BY <2>2, <2>3 DEF DetectedInv
  <2>5. /\ mgr.max \in Nat /\ GB \in Nat
        /\ WeightSize[tier] \in Nat /\ KvSize[tier] \in Nat
    BY <2>2, <2>3, WidthAssumption, SizesAssumption, UnitsAssumption
       DEF IInv, ManagerInv, Consistent
  <2>6. mgr.max < WeightSize[tier] + KvSize[tier]
    BY <2>2, <2>3 DEF ChargedInv, OutcomeInv, Demand
  <2>7. /\ tier = "MID_RANGE" => mgr.max >= 2 * GB
        /\ tier = "HIGH_END"  => mgr.max >= 8 * GB
    BY <2>2, <2>4, TiersFitBudgets DEF DeviceTypeOK
  <2> QED BY <2>2, <2>5, <2>6, <2>7, TierSizesAssumption
<1>2. DeviceSpec => []IInv /\ []ChargedInv
  BY DeviceRunsRuntime, SpecIInv, SpecCharged, PTL
<1> QED BY <1>1, <1>2, DeviceTypeCorrect, DetectedAtOnce, PTL
=============================================================================
