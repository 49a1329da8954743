SPECIFICATION FairHttpSpec
CONSTANTS
  Width = 1024
  HeapMax = 512
  Budgets <- MCBudgets
  Addr = {a1, a2}
  NULL = NULL
  Tiers <- MCTiers
  Machines <- MCMachines
  WeightSize <- MCWeightSize
  KvSize <- MCKvSize
  Reentry = {}
  Faults = {"bad_alloc", "init"}
  MaxDepth = 1
  Clients = {c1, c2}
  Requests <- MCRequests
  NetFaults = {"setup", "accept"}
INVARIANTS
  HttpTypeOK
  ChunksAreHarmless
  EachInOnePlace
  LeanBetweenRequests
  SameVerdict
PROPERTIES
  RequestsAdvance
  EveryoneServed
  ImplementsLine
CHECK_DEADLOCK FALSE
