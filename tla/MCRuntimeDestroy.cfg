SPECIFICATION Spec
CONSTANTS
  Width = 1024
  HeapMax = 512
  Budgets <- MCBudgets
  Addr = {a1, a2, a3, a4}
  NULL = NULL
  Tiers <- MCTiers
  Machines <- OneMachine
  WeightSize <- MCWeightSize
  KvSize <- MCKvSize
  Reentry = {}
  Faults = {"callback"}
  MaxDepth = 2
INVARIANT DestroyedHoldsNothing
CHECK_DEADLOCK FALSE
