SPECIFICATION Spec
CONSTANTS
  Width = 32
  HeapMax = 15
  Budgets <- MCBudgets
  Addr = {a1, a2, a3}
  NULL = NULL
  Sizes <- MCSizes
  MaxDepth = 2
SYMMETRY Symmetry
INVARIANTS
  TypeOK
  LedgerSound
  HoldersAreBacked
  LossNeedsFault
  ToldIsCurrent
PROPERTIES
  OnlyOwnersFree
  ImplementsLedger
