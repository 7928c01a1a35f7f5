--------------------------------- MODULE MCTabs ---------------------------------
(* Tabs of one browser, in three instances; `which` says which one a behaviour  *)
(* is about.  The lease among tabs that no browser freezes; under fairness, the *)
(* lease among tabs of which one may come back from the back/forward cache; and *)
(* tabs that hand a pair's trades on to each other.                             *)
EXTENDS Integers

CONSTANTS
  t1, t2, Many, Few, NoTab, Ttl, Beat, Settle, MaxLate,   \* WatchLease
  Sessions, Swings, Candles, Room, Window, MaxCandle, Charts, MaxRegains  \* TradeCycle

VARIABLES
  which,
  holder, age, life, owned, runs, beatIn, settling, about, overlap,   \* WatchLease
  now, feed, owner, program, rows, card, stored, cache, regains, opened  \* TradeCycle, with life

\* Two legs that ended before the first candle, and the candles that tell them
\* apart.  The newer one, a down-leg, is adopted first and fires on a touch;
\* the older one is touched without holding, or broken.
Older == [origin |-> -5, end |-> -4, direction |-> "CALL"]
Newer == [origin |-> -4, end |-> -2, direction |-> "PUT"]
MCSwings == {Older, Newer}
Candle(older, newer, closes) ==
  [meets |-> [sw \in MCSwings |-> IF sw = Older THEN older ELSE newer], closes |-> closes]
TwoCandles == {Candle("misses", "fires", "up"), Candle("refused", "misses", "down")}

Three == INSTANCE WatchLease WITH Tabs <- Many, Cacheable <- {}
Two == INSTANCE WatchLease WITH Tabs <- Few, Cacheable <- {t1}
Cycle == INSTANCE TradeCycle WITH NoSession <- NoTab
ASSUME InstancesAssumption ==
  Three!LeaseAssumption /\ Two!LeaseAssumption /\ Cycle!CycleAssumption

leaseVars == <<holder, age, owned, runs, beatIn, settling, about, overlap>>
cycleVars == <<now, feed, owner, program, rows, card, stored, cache, regains, opened>>
OfBoth(x) == [t \in {t1, t2} |-> x]
NoLease == /\ holder = NoTab /\ age = Ttl /\ owned = OfBoth(FALSE) /\ runs = OfBoth(TRUE) /\ beatIn = OfBoth(Beat)
           /\ settling = OfBoth({}) /\ about = OfBoth("nothing") /\ overlap = 0
NoCycle == /\ now = 0 /\ feed = {} /\ owner = NoTab /\ program = {} /\ rows = {} /\ card = {}
           /\ stored = {} /\ cache = {} /\ regains = 0 /\ opened = {}

\* Sessions differ in nothing but their names: the first to mount is t1.
FirstIsT1 == life'[t2] # "new" => life[t1] # "new"

Init ==
  \/ which = "three" /\ Three!Init /\ NoCycle
  \/ which = "two" /\ Two!Init /\ NoCycle
  \/ which = "cycle" /\ Cycle!Init /\ NoLease
Next ==
  /\ UNCHANGED which
  /\ \/ which = "three" /\ Three!Next /\ UNCHANGED cycleVars
     \/ which = "two" /\ Two!Next /\ UNCHANGED cycleVars
     \/ which = "cycle" /\ Cycle!Next /\ FirstIsT1 /\ UNCHANGED leaseVars
Spec ==
  /\ Init /\ [][Next]_<<which, Three!vars, Cycle!vars>>
  /\ SF_Two!vars(which = "two" /\ Two!PassTime)
  /\ \A t \in Few : SF_Two!vars(which = "two" /\ Two!TabStep(t))

\* The properties of both modules, each where it is about something.
OneOwner == which = "three" => Three!OneOwner
OverlapEnds == which = "two" => Two!OverlapEnds
SomebodyWatches == which = "two" => Two!SomebodyWatches
OneTradePerSwing == which = "cycle" => Cycle!OneTradePerSwing
OneTradeAtATime == which = "cycle" => Cycle!OneTradeAtATime
StoresAgree == which = "cycle" => Cycle!StoresAgree
=================================================================================
