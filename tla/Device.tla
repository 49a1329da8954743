-------------------------------- MODULE Device --------------------------------
(***************************************************************************)
(* The runtime on a device: the platforms' HardwareDetectors               *)
(* (src/hardware/hardware_detector.cpp, platforms/windows/hardware_win.cpp) *)
(* and RAM that other processes use while the runtime runs.                *)
(*                                                                         *)
(* Runtime takes what detect() reports from a set; here it is computed     *)
(* from the device, and each initialize reads the device anew.             *)
(***************************************************************************)
EXTENDS Runtime

CONSTANTS
  GB,         \* bytes in a gigabyte, in the unit of all sizes
  LongRange,  \* number of values of `long': 2^64, or 2^32 on a 32-bit build
  Platforms,  \* the platforms to look at
  Totals,     \* amounts of physical RAM a device may have
  Usages      \* amounts of RAM other processes may use

AllPlatforms == {"windows", "apple", "android", "linux", "fallback"}

(* The detectors that ask the operating system for the amount of RAM; the  *)
(* others return placeholders.                                             *)
Measuring == {"windows", "apple", "linux"}

(* Signed overflow of pages * page_size: the product wraps, and a negative *)
(* one is sign-extended when it is stored in a uint64_t.                   *)
Product(range, n) ==
  LET low == n % range
  IN  IF 2 * low < range THEN low ELSE (low + Width) - range

Long(n) == Product(LongRange, n)

(* The product of n bytes of RAM has its sign bit set. *)
Negative(n) == 2 * (n % LongRange) >= LongRange

(* classify_tier: two thresholds. *)
Tier(bytes, mid, high) ==
  IF bytes < mid * GB THEN "LOW_END"
  ELSE IF bytes < high * GB THEN "MID_RANGE" ELSE "HIGH_END"

(* A detector, as what the runtime takes from its detect() with `all'      *)
(* bytes of RAM of which `free' are not in use.  Its other methods return  *)
(* constants that nobody reads (get_available_ram the free RAM on Windows, *)
(* 0 on Apple and Linux), and it never calls the state-change callback it  *)
(* is given.                                                               *)
WindowsDetector(all, free) ==
  [available |-> free,
   tier      |-> Tier(free, 4, 16),
   backends  |-> {"CPU", "DIRECTML", "CUDA"}]

AppleDetector(all, free) ==
  [available |-> Long(all) \div 2,
   tier      |-> Tier(Long(all) \div 2, 2, 8),
   backends  |-> {"CPU", "COREML", "METAL"}]

AndroidDetector(all, free) ==
  [available |-> GB,
   tier      |-> Tier(2 * GB, 3, 8),
   backends  |-> {"CPU", "NNAPI", "VULKAN"}]

(* Faulty variant: one GB is left to the system, subtracted unsigned.      *)
LinuxDetectorReserving(all, free) ==
  [available |-> Minus(Long(all), GB) \div 2,
   tier      |-> Tier(Long(all), 4, 16),
   backends  |-> {"CPU", "CUDA", "VULKAN"}]

LinuxDetector(all, free) ==
  [available |-> Long(all) \div 2,
   tier      |-> Tier(Long(all), 4, 16),
   backends  |-> {"CPU", "CUDA", "VULKAN"}]

FallbackDetector(all, free) ==
  [available |-> 2 * GB,
   tier      |-> "MID_RANGE",
   backends  |-> {"CPU"}]

(* Faulty variants: a Linux budget of a quarter of the RAM; no LOW_END     *)
(* devices on Windows short of RAM; a budget of all the RAM there is.      *)
DetectorQuarter(p, all, free) ==
  [LinuxDetector(all, free) EXCEPT !.available = all \div 4]

DetectorGenerous(p, all, free) ==
  [WindowsDetector(all, free) EXCEPT !.tier = Tier(free, 8, 16)]

DetectorOfTotal(p, all, free) ==
  [WindowsDetector(all, free) EXCEPT !.available = all]

(* CreateNativeHardwareDetector. *)
Detector(p, all, free) ==
  CASE p = "windows"  -> WindowsDetector(all, free)
    [] p = "apple"    -> AppleDetector(all, free)
    [] p = "android"  -> AndroidDetector(all, free)
    [] p = "linux"    -> LinuxDetector(all, free)
    [] p = "fallback" -> FallbackDetector(all, free)

(* What initialize takes from the specification it detects.                *)
Detect(p, all, free) ==
  [tier      |-> Detector(p, all, free).tier,
   available |-> Detector(p, all, free).available]

ASSUME UnitsAssumption ==
  /\ GB \in Nat \ {0}
  /\ LongRange \in Nat \ {0}
  /\ LongRange <= Width

ASSUME TiersAssumption == Tiers = {"LOW_END", "MID_RANGE", "HIGH_END"}

(* The larger tiers' blocks fit the least memory they are meant for.       *)
ASSUME TierSizesAssumption ==
  /\ WeightSize["MID_RANGE"] + KvSize["MID_RANGE"] <= 2 * GB
  /\ WeightSize["HIGH_END"] + KvSize["HIGH_END"] <= 8 * GB

ASSUME DeviceAssumption ==
  /\ Platforms \subseteq AllPlatforms
  /\ Totals \subseteq Nat
  /\ Usages \subseteq Nat

(* Whatever a detector can report is a machine of Runtime's. *)
ASSUME DetectAssumption ==
  \A p \in Platforms, all \in Totals :
    \A u \in Usages : u <= all => Detect(p, all, all - u) \in Machines

VARIABLES
  platform,  \* which detector CreateNativeHardwareDetector returns
  total,     \* physical RAM
  others     \* what other processes use of it

deviceVars == << platform, total, others >>

DeviceInit ==
  /\ Init
  /\ platform \in Platforms
  /\ total \in Totals
  /\ others \in {u \in Usages : u <= total}

(* Faulty variant: the budget is taken from the system at once.            *)
DeviceInitializeEagerly ==
  LET m == Detect(platform, total, total - others) IN
  /\ InitializeOn(m)
  /\ others' = others + m.available
  /\ UNCHANGED << platform, total >>

(* initialize creates a detector, reads the device, and sizes the budget.  *)
DeviceInitialize ==
  /\ InitializeOn(Detect(platform, total, total - others))
  /\ UNCHANGED deviceVars

(* Everything else the runtime does, it does without looking at the device.*)
RuntimeRuns ==
  /\ \/ \E op \in Ops : Call(op) \/ CallTooEarly(op)
     \/ Step
     \/ Shutdown
     \/ Destroy
  /\ UNCHANGED deviceVars

(* Other processes take or give back RAM.  No one is told: the detectors   *)
(* never call a state-change callback, and the runtime registers none.     *)
UseChanges ==
  /\ others' \in {u \in Usages : u <= total}
  /\ UNCHANGED << platform, total, vars >>

DeviceNext == DeviceInitialize \/ RuntimeRuns \/ UseChanges

DeviceSpec == DeviceInit /\ [][DeviceNext]_<< vars, deviceVars >>

-----------------------------------------------------------------------------
DeviceTypeOK ==
  /\ platform \in Platforms
  /\ total \in Totals
  /\ others \in Usages
  /\ others <= total

(* Where RAM is measured, one thing only makes a budget exceed the RAM     *)
(* there is: a product pages * page_size with its sign bit set.  Products  *)
(* that wrap otherwise, what other processes use, and an initialize over   *)
(* the blocks of a call that was left never do.                            *)
BudgetWithinRam ==
  platform \in Measuring /\ mgr # NULL /\ mgr.max > total =>
    platform # "windows" /\ Negative(total)

(* Tier thresholds and tier sizes fit together on every platform: a device *)
(* not classed LOW_END has the budget for its tier's weights and KV cache, *)
(* so that an undisturbed call on it does not fail.                        *)
BigTiersServe ==
  tier \in {"MID_RANGE", "HIGH_END"} /\ upset = {} => reply # "error"

(* What the hardware test asserts of every device.                         *)
LowEndIsSmall ==
  tier = "LOW_END" => mgr.max < 4 * GB

-----------------------------------------------------------------------------
(* Tier and budget are of one detection, made with some amount of RAM free.*)
DetectedInv ==
  /\ tier # NULL => mgr # NULL
  /\ mgr # NULL =>
       \E free \in 0 .. total :
         /\ tier    = Detect(platform, total, free).tier
         /\ mgr.max = Detect(platform, total, free).available

-----------------------------------------------------------------------------
(* What the repository says and the code does not do.                      *)

(* hardware_detector.h:12-14 gives the tiers by RAM: under 4 GB, 4 to 16,  *)
(* and 16 GB or more.                                                      *)
TierAsDocumented ==
  platform \in Measuring /\ tier # NULL => tier = Tier(total, 4, 16)
=============================================================================
