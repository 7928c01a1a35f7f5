-------------------------------- MODULE MCFeeds --------------------------------
(* The five feeds of an open page, and the watch it keeps on them, one at a     *)
(* time: `which` says which one a behaviour is about, and they share the names  *)
(* of their variables.                                                          *)
EXTENDS Integers, Sequences, FiniteSets

CONSTANTS
  Blank, Empty, Unanswered, MaxNamed, MaxWrites, MaxDrops, MaxReads,   \* LiveRows
  Period, MaxWindow, KeptFor, None, LastTick, MaxFlights,             \* CandleFeed
  Ttl, Poll, PricePoll, Timeout, UnhealthyAfter, Nothing,             \* StatusFeed
  Prices, Clients, Unknown, MaxBatches, MaxLeaves,                    \* PriceHub
  NoSocket, MaxSockets, MaxTimers, MaxLoads, MaxEvents,               \* ChartFeed
  Symbols,
  Closable, Candle, Stranded, EndOfWatch, MaxSwitches, MaxPresses, MaxFailures  \* WatchLoop

Row == [configs |-> "maintenance", proxy |-> "proxy_server_url", users |-> "me", pairs |-> "a"]
OtherIds == {"another"}
Screens == {{r} : r \in DOMAIN Row}
TtlOf == [chart |-> 1, bulk |-> 1]   \* 15 s and 10 s, in ticks of 15 s
StaleOf == [chart |-> 4, bulk |-> 0] \* 60 s and none
GiveUp == [chart |-> 1, bulk |-> 2]  \* 8 s and 16 s

VARIABLES which, hub, net, app

Rows == INSTANCE LiveRows
Candles == INSTANCE CandleFeed
Status == INSTANCE StatusFeed
Hub == INSTANCE PriceHub
Chart == INSTANCE ChartFeed
Watch == INSTANCE WatchLoop WITH Pairs <- Symbols, LastTick <- EndOfWatch
ASSUME InstancesAssumption ==
  /\ Rows!RowsAssumption /\ Candles!CandleAssumption /\ Status!StatusAssumption
  /\ Chart!ChartAssumption /\ Watch!WatchAssumption

Init ==
  \/ which = "rows" /\ Rows!Init
  \/ which = "candles" /\ Candles!Init
  \/ which = "status" /\ Status!Init
  \/ which = "hub" /\ Hub!Init
  \/ which = "chart" /\ Chart!Init
  \/ which = "watch" /\ Watch!Init
Next ==
  /\ UNCHANGED which
  /\ \/ which = "rows" /\ Rows!Next
     \/ which = "candles" /\ Candles!Next
     \/ which = "status" /\ Status!Next
     \/ which = "hub" /\ Hub!Next
     \/ which = "chart" /\ Chart!Next
     \/ which = "watch" /\ Watch!Next
Spec == Init /\ [][Next]_<<which, hub, net, app>>

\* The properties, each where it is about something.
StaleOnlyForAReason == which = "rows" => Rows!StaleOnlyForAReason
WindowIsTheServers == which = "candles" => Candles!WindowIsTheServers
StatusCatchesUp == which = "status" => Status!StatusCatchesUp
EveryoneSeesTheLatest == which = "hub" => Hub!EveryoneSeesTheLatest
ListensOrWillListen == which = "chart" => Chart!ListensOrWillListen
OwnPairOnly == which = "chart" => Chart!OwnPairOnly
EveryTradeEnds == which = "watch" => Watch!EveryTradeEnds
================================================================================
