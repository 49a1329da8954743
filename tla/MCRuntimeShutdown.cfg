SPECIFICATION Spec
CONSTANTS
  Width = 1024
  HeapMax = 512
  Budgets <- MCBudgets
  Addr = {a1, a2, a3, a4}
  NULL = NULL
  Tiers <- MCTiers
  Machines <- OneMachine
  WeightSize <- MCWeightSize
  KvSize <- MCKvSize
  Reentry = {"generate"}
  Faults = {}
  MaxDepth = 2
INVARIANT ShutdownCleansUp
CHECK_DEADLOCK FALSE
