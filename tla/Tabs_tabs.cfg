SPECIFICATION Spec
CONSTANTS
  t1 = t1
  t2 = t2
  Many = {t1, t2, t3}
  Few = {t1, t2}
  NoTab = NoTab
  Ttl = 6
  Beat = 3
  Settle = 1
  MaxLate = 1
  Sessions = {t1, t2}
  Swings <- MCSwings
  Candles <- TwoCandles
  Room = 2
  Window = 12
  MaxCandle = 5
  Charts = {TRUE, FALSE}
  MaxRegains = 0
INVARIANT OneOwner
INVARIANT OverlapEnds
 
 
 
PROPERTY SomebodyWatches
CHECK_DEADLOCK FALSE
