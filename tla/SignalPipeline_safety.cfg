SPECIFICATION Spec
CONSTANTS
  Signals = {s1, s2}
  Bad = {}
  Calls = {c1, c2}
  Drains = {d1, d2}
  NoCall = NoCall
  MaxRows = 2
  DrainBatch = 2
  MaxDay = 1
  MaxFaults = 2
CHECK_DEADLOCK FALSE
SYMMETRY Symmetry
INVARIANTS
  TypeOK
  NoLoss
  BudgetNeverOvercounts
PROPERTIES
  LedgerSpec
