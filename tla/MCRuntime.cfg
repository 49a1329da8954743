SPECIFICATION Spec
CONSTANTS
  Width = 1024
  HeapMax = 512
  Budgets <- MCBudgets
  Addr = {a1, a2, a3, a4}
  NULL = NULL
  Tiers <- MCTiers
  Machines <- MCMachines
  WeightSize <- MCWeightSize
  KvSize <- MCKvSize
  Reentry <- AllReentry
  Faults <- AllFaults
  MaxDepth = 2
SYMMETRY Symmetry
INVARIANTS
  TypeOK
  NoDangling
  BudgetKept
  StatsAddUp
  NothingLost
  IdleHoldsNothing
  ServingHoldsAll
  CrashNeedsMisuse
  ReplyTellsBudget
PROPERTIES
  CallsAdvance
  ImplementsLazyLoading
CHECK_DEADLOCK FALSE
