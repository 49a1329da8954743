SPECIFICATION HttpSpec
CONSTANTS
  Width = 1024
  HeapMax = 512
  Budgets <- MCBudgets
  Addr = {a1, a2}
  NULL = NULL
  Tiers <- MCTiers
  Machines <- MCMachines
  WeightSize <- MCWeightSize
  KvSize <- MCKvSize
  Reentry = {}
  Faults = {}
  MaxDepth = 1
  Clients = {c1}
  Requests <- LowerCase
  NetFaults = {}
INVARIANT ReadsAnnouncedBody
CHECK_DEADLOCK FALSE
