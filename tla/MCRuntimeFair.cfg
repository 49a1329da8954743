SPECIFICATION FairSpec
CONSTANTS
  Width = 1024
  HeapMax = 512
  Budgets <- MCBudgets
  Addr = {a1, a2}
  NULL = NULL
  Tiers <- MCTiers
  Machines <- MCMachines
  WeightSize <- MCWeightSize
  KvSize <- MCKvSize
  Reentry = {}
  Faults = {"create", "init"}
  MaxDepth = 2
PROPERTIES
  CallsEnd
  MemoryComesBack
CHECK_DEADLOCK FALSE
