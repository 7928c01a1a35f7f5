SPECIFICATION Spec
CONSTANTS
  Accounts = {a1, a2}
  Devices = {d1, d2}
  NoAccount = NoAccount
  NoTime = 9
  MaxInValues = 2
  MaxLimit = 1
  BatchSize = 1
  All = All
  DefaultLimit = 1
  MaxLimitService = 3
  Bound <- SignInBound
CHECK_DEADLOCK FALSE
PROPERTIES
  DeviceLock
