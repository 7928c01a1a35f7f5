SPECIFICATION Spec
CONSTANTS
  Tabs = {t1}
  Setups = {s1, s2}
  None = None
  Near = 96
  VeryClose = 98
  Fired = 100
  MaxMoves = 2
  MaxMounts = 1
  MaxSwitches = 2
INVARIANT ReloadStaysQuiet
CHECK_DEADLOCK FALSE
