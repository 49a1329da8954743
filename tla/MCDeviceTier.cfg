SPECIFICATION GettersSpec
CONSTANTS
  GB = 32
  Width = 4096
  LongRange = 2048
  HeapMax = 1024
  Budgets <- MCBudgets
  Addr = {a1, a2, a3, a4}
  NULL = NULL
  Tiers <- MCTiers
  Machines <- MCMachines
  WeightSize <- MCWeightSize
  KvSize <- MCKvSize
  Reentry = {}
  Faults = {}
  MaxDepth = 1
  Platforms = {"windows"}
  Totals <- MCTotals
  Usages <- MCUsages
SYMMETRY Symmetry
INVARIANT TierAsDocumented
CHECK_DEADLOCK FALSE
