SPECIFICATION AdminSpec
CONSTANTS
  Accounts = {a1, a2}
  Devices = {d1}
  NoAccount = NoAccount
  NoTime = 9
  MaxInValues = 1
  MaxLimit = 1
  BatchSize = 1
  All = All
  DefaultLimit = 1
  MaxLimitService = 2
  Bound <- BusyBound
  Tabs = {t1, t2}
  Texts = {"", "a", "@a"}
  Blank = ""
  Bad = "@a"
  Absent = Absent
  Unread = Unread
  MaxEdits = 2
  MaxSaves = 2
  MaxFaults = 1
  MaxShown = 1
  MaxLoads = 1
SYMMETRY AdminSymmetry
CHECK_DEADLOCK FALSE
INVARIANTS
  GrantMeansEverybody
  ReadsMeanWhatTheySay
  WritesStayInScope
  RowsSayWhatWasChosen
  ClosedMeansThisOffer
PROPERTIES
  DecisionsStand
