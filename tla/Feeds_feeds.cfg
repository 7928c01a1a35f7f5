SPECIFICATION Spec
CONSTANTS
  Blank = Blank
  Empty = Empty
  Unanswered = Unanswered
  MaxNamed = 1
  MaxWrites = 2
  MaxDrops = 2
  MaxReads = 2
  Period = 4
  MaxWindow = 2
  KeptFor = 8
  None = None
  LastTick = 12
  MaxFlights = 2
  Ttl = 9
  Poll = 20
  PricePoll = 10
  Timeout = 8
  UnhealthyAfter = 2
  Nothing = Nothing
  Prices = {1, 2}
  Clients = {"c1", "c2"}
  Unknown = Unknown
  MaxBatches = 2
  MaxLeaves = 2
  NoSocket = NoSocket
  MaxSockets = 3
  MaxTimers = 1
  MaxLoads = 2
  MaxEvents = 2
  Symbols = {"EURUSD_otc", "XAUUSD"}
  Closable = {"XAUUSD"}
  Candle = 4
  Stranded = 4
  EndOfWatch = 13
  MaxSwitches = 2
  MaxPresses = 1
  MaxFailures = 1
INVARIANT StaleOnlyForAReason
INVARIANT WindowIsTheServers
INVARIANT StatusCatchesUp
INVARIANT EveryoneSeesTheLatest
INVARIANT ListensOrWillListen
 
INVARIANT EveryTradeEnds
CHECK_DEADLOCK FALSE
