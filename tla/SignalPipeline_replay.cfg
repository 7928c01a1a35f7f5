SPECIFICATION FairSpec
CONSTANTS
  Signals = {s1, s2}
  Bad = {s2}
  Calls = {c1}
  Drains = {d1, d2}
  NoCall = NoCall
  MaxRows = 2
  DrainBatch = 1
  MaxDay = 1
  MaxFaults = 2
CHECK_DEADLOCK FALSE
PROPERTIES
  ReplayCompletes
