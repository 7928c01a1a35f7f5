SPECIFICATION Spec
CONSTANTS
  Addresses = {"origin", "worker"}
  Origin = "origin"
  Worker = "worker"
  Catalogue = 2
  Servers <- MCServers
  Panels <- MCPanels
  Debounce = 1
  Nothing = Nothing
  Accounts = {"a1", "a2"}
  Pairs = {"p", "q"}
  Nobody = Nobody
  MaxOpens = 2
  MaxChoices = 2
  MaxToggles = 2
  MaxLosses = 1
  Unread = Unread
  MaxPresses = 2
  MaxOthers = 1
  MaxFaults = 1
  MinTrades = 2
  MaxAsked = 4
  MaxGuesses = 1
  Tabs = {"t1", "t2"}
  Versions = {"v1"}
  Recorded <- MCRecorded
INVARIANT GreenMeansServed
INVARIANT SwitchMeansWhatItSays
 
CHECK_DEADLOCK FALSE
