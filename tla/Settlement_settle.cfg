SPECIFICATION FairSpec
CONSTANTS
  s1 = s1
  s2 = s2
  free = free
  paid = paid
  v1 = v1
  None = None
  Signals = {s1, s2}
  Passes = {p1, p2}
  Kinds <- MCKinds
  Claims = {"win", "loss", "void"}
  Size = 15
  KeepDays = 2
  Week = 1
  RefreshDays = 2
  MaxHeld = 1
  MaxPending = 1
  MaxDay = 3
CHECK_DEADLOCK FALSE
INVARIANTS
  PruneKeepsTheNumbers
  StatsAgree
PROPERTIES
  SettledOnce
  EverySignalCounts
