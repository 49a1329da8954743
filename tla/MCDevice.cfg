SPECIFICATION GettersSpec
CONSTANTS
  GB = 32
  Width = 4096
  LongRange = 2048
  HeapMax = 1024
  Budgets <- MCBudgets
  Addr = {a1, a2, a3, a4}
  NULL = NULL
  Tiers <- MCTiers
  Machines <- MCMachines
  WeightSize <- MCWeightSize
  KvSize <- MCKvSize
  Reentry = {"streaming", "initialize"}
  Faults = {"callback"}
  MaxDepth = 2
  Platforms = {"windows", "apple", "android", "linux", "fallback"}
  Totals <- MCTotals
  Usages <- MCUsages
SYMMETRY Symmetry
INVARIANTS
  DeviceTypeOK
  GettersTypeOK
  BigTiersServe
  LowEndIsSmall
  BudgetWithinRam
PROPERTY CopiesForetell
CHECK_DEADLOCK FALSE
