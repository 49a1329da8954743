SPECIFICATION AppSpec
CONSTANTS
  GB = 32
  Width = 4096
  LongRange = 4096
  HeapMax = 1024
  Budgets <- MCBudgets
  Addr = {a1, a2, a3, a4}
  NULL = NULL
  Tiers <- MCTiers
  Machines <- MCMachines
  WeightSize <- MCWeightSize
  KvSize <- MCKvSize
  Reentry = {"streaming", "initialize"}
  Faults = {"callback", "init"}
  MaxDepth = 2
  Platforms = {"windows", "linux"}
  Totals <- MCTotals
  Usages <- MCUsages
SYMMETRY Symmetry
INVARIANTS
  AppTypeOK
  PointerLastsTheCall
  ServedAsDetected
  OvercommitNeedsGrowth
CHECK_DEADLOCK FALSE
