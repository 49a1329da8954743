SPECIFICATION FairServiceSpec
CONSTANTS
  Width = 1024
  HeapMax = 512
  Budgets <- MCBudgets
  Addr = {a1, a2, a3}
  NULL = NULL
  Tiers <- MCTiers
  Machines <- MCMachines
  WeightSize <- MCWeightSize
  KvSize <- MCKvSize
  Reentry = {}
  Faults = {"bad_alloc", "push_back", "create", "init"}
  MaxDepth = 1
INVARIANT SleepsLean
PROPERTY Settles
CHECK_DEADLOCK FALSE
