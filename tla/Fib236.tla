-------------------------------- MODULE Fib236 --------------------------------
(***************************************************************************)
(* The strategy program of packages/engine/src/programs/fib236.ts as       *)
(* functions of the candles, the clock and the state it remembers.         *)
(*                                                                         *)
(* A candle is [time, open, high, low, close]; times count candles and     *)
(* prices count ticks, about 40000 of them.  The 23.6% level of a leg is   *)
(* held in thousandths of a tick, so every comparison of the code is one   *)
(* of integers (DEPTH_SLACK_BPS, which only absorbs rounding, is gone).    *)
(***************************************************************************)
EXTENDS Integers, Sequences, SequencesExt, FiniteSetsExt

CONSTANT Absent   \* null

Fib == 236             \* thousandths of the leg
MinDepthBps == 3
FiredMemory == 32
Room == 11             \* candles a swing and its retracement need

Blank == [examined |-> 0, shape |-> 0, tooSmall |-> 0, swingTouched |-> 0, broken |-> 0, alreadyFired |-> 0,
          armed |-> FALSE, retiredBroken |-> FALSE, retiredAged |-> FALSE]
Fresh == [cycle |-> Absent, armed |-> Absent, firedKeys |-> << >>, last |-> -1]
NoEvent == [settled |-> Absent, signal |-> Absent, cycleEnd |-> Absent, diagnostics |-> Absent]

-----------------------------------------------------------------------------
(* Reading candles. *)

Touches(b, level) == 1000 * b.low <= level /\ level <= 1000 * b.high

\* How far beyond the level a price is, in ten-thousandths of a tick, and
\* whether that is at least as many basis points of the price.
Beyond(direction, level, price) == IF direction = "CALL" THEN level - 1000 * price ELSE 1000 * price - level
DeepEnough(direction, level, price) == 10 * Beyond(direction, level, price) >= MinDepthBps * price

\* Variant: the newest candle of the buffer, closed or not.
NewestIndex(c, now) == Len(c)

LastClosedIndex(c, now) == Max({0} \union {i \in DOMAIN c : c[i].time + 1 <= now})

ContiguousTail(c, end) == Max({1} \union {i \in 2..end : c[i].time - c[i - 1].time # 1})

Peak(c, i) == \A d \in {-2, -1, 1, 2} : c[i].high > c[i + d].high
Trough(c, i) == \A d \in {-2, -1, 1, 2} : c[i].low < c[i + d].low

\* Oldest first; a candle that is both is a high and then a low.
ConfirmedPivots(c, from, upTo) ==
  FlattenSeq([k \in 1..Max({0, upTo - from - 1}) |->
    LET i == from + 1 + k
    IN (IF Peak(c, i) THEN <<[kind |-> "high", at |-> i, price |-> c[i].high]>> ELSE << >>)
       \o (IF Trough(c, i) THEN <<[kind |-> "low", at |-> i, price |-> c[i].low]>> ELSE << >>)])

\* The candle went past the end of the leg.
Passes(b, direction, endPrice) ==
  IF direction = "CALL" THEN b.high > endPrice ELSE b.low < endPrice
BrokenAfter(c, end, direction, upTo) == \E j \in (end.at + 1)..upTo : Passes(c[j], direction, end.price)

-----------------------------------------------------------------------------
(* Choosing a swing and keeping it. *)

Magnitude(x) == IF x < 0 THEN -x ELSE x
Level(origin, end) == 1000 * end.price + Fib * (origin.price - end.price)
TieEpsilonTimes(price, k) == <<k * price, 200000>>     \* k * tieEpsilon(price), as a ratio
Setup(c, origin, end) ==
  [direction |-> IF origin.kind = "low" THEN "CALL" ELSE "PUT", level |-> Level(origin, end),
   endPrice |-> end.price, endTime |-> c[end.at].time, key |-> <<c[origin.at].time, c[end.at].time>>]

\* What findSetup says of two neighbouring pivots, in the order it asks.
Judged(c, n, firedKeys, origin, end) ==
  LET s == Setup(c, origin, end)
      range == Magnitude(end.price - origin.price)
      floor == TieEpsilonTimes(end.price, 10)
  IN IF origin.kind = end.kind \/ range = 0 THEN "shape"
     ELSE IF range * floor[2] < floor[1] THEN "tooSmall"
     ELSE IF Touches(c[origin.at], s.level) \/ Touches(c[end.at], s.level) THEN "swingTouched"
     ELSE IF BrokenAfter(c, end, s.direction, n) THEN "broken"
     ELSE IF Contains(firedKeys, s.key) THEN "alreadyFired" ELSE "passes"

\* The newest pair that passes, and how many newer ones were refused for what.
Weighed(c, pivots, verdict, chosen) ==
  LET examined == Max({2, chosen})..Len(pivots)
      refused(why) == Cardinality({i \in examined : verdict[i] = why})
  IN [setup |-> IF chosen = 1 THEN Absent ELSE Setup(c, pivots[chosen - 1], pivots[chosen]),
      diagnostics |-> [Blank EXCEPT !.examined = Cardinality(examined), !.shape = refused("shape"),
        !.tooSmall = refused("tooSmall"), !.swingTouched = refused("swingTouched"), !.broken = refused("broken"),
        !.alreadyFired = refused("alreadyFired"), !.armed = chosen # 1]]
FindSetup(c, from, n, firedKeys) ==
  LET newest(verdict) == Max({1} \union {i \in DOMAIN verdict : verdict[i] = "passes"})
      weigh(pivots, verdict) == Weighed(c, pivots, verdict, newest(verdict))
      judge(pivots) == weigh(pivots, [i \in 2..Len(pivots) |-> Judged(c, n, firedKeys, pivots[i - 1], pivots[i])])
  IN judge(ConfirmedPivots(c, from, n - 2))

StillValid(armed, c, from, n) ==
  IF armed.endTime < c[from].time THEN "aged"
  ELSE IF \E j \in from..n : c[j].time > armed.endTime /\ Passes(c[j], armed.direction, armed.endPrice)
  THEN "broken" ELSE "valid"

Remembered(firedKeys, key) ==
  IF Len(firedKeys) < FiredMemory THEN Append(firedKeys, key) ELSE Append(Tail(firedKeys), key)

-----------------------------------------------------------------------------
(* One closed candle. *)

OutcomeFor(direction, entry, exit) ==
  LET diff == exit - entry  tie == TieEpsilonTimes(entry, 1)
  IN IF Magnitude(diff) * tie[2] <= tie[1] THEN "TIE"
     ELSE IF (diff > 0) = (direction = "CALL") THEN "WIN" ELSE "LOSS"

Opens(direction, stage, time) == [direction |-> direction, stage |-> stage, entry |-> time]

\* The candle of an open trade, a candle before it, or one after a missing one.
OnTradesCandle(s, b) ==
  LET cycle == s.cycle
      result == OutcomeFor(cycle.direction, b.open, b.close)
      settled == [result |-> result, stage |-> cycle.stage, direction |-> cycle.direction]
      double == Opens(cycle.direction, "martingale", b.time + 1)
      done(how) == [state |-> [s EXCEPT !.cycle = Absent], event |-> [NoEvent EXCEPT !.settled = settled, !.cycleEnd = how]]
  IN CASE b.time < cycle.entry -> [state |-> s, event |-> NoEvent]
       [] b.time > cycle.entry -> [state |-> [s EXCEPT !.cycle = Absent], event |-> [NoEvent EXCEPT !.cycleEnd = "ABORTED"]]
       [] b.time = cycle.entry /\ result = "LOSS" /\ cycle.stage = "primary" ->
            [state |-> [s EXCEPT !.cycle = double], event |-> [NoEvent EXCEPT !.settled = settled, !.signal = double]]
       [] b.time = cycle.entry /\ cycle.stage = "primary" /\ result # "LOSS" -> done(result)
       [] OTHER -> done(CASE result = "WIN" -> "RECOVERED" [] result = "TIE" -> "RECOVERED_TIE" [] OTHER -> "FINAL_LOSS")

HeldToClose(armed, b) == Beyond(armed.direction, armed.level, b.close) >= 0

\* A candle while nothing is open: retire, adopt, or meet the level.
OnWatchedCandle(s, c, n) ==
  LET b == c[n]
      from == ContiguousTail(c, n)
      verdict == IF s.armed = Absent THEN "none" ELSE StillValid(s.armed, c, from, n)
      consumed == [s EXCEPT !.armed = Absent, !.firedKeys = Remembered(@, s.armed.key)]
      trade == Opens(s.armed.direction, "primary", b.time + 1)
      silent(state, d) == [state |-> state, event |-> [NoEvent EXCEPT !.diagnostics = d]]
      adopt(found) == silent([s EXCEPT !.armed = found.setup],
        [found.diagnostics EXCEPT !.retiredBroken = verdict = "broken", !.retiredAged = verdict = "aged"])
  IN CASE n - from < Room -> silent(s, Blank)
       [] n - from >= Room /\ verdict # "valid" -> adopt(FindSetup(c, from, n, s.firedKeys))
       [] OTHER ->
            IF b.time <= s.armed.endTime \/ ~Touches(b, s.armed.level) THEN silent(s, Blank)
            ELSE IF ~HeldToClose(s.armed, b) \/ ~DeepEnough(s.armed.direction, s.armed.level, b.close)
            THEN silent(consumed, Blank)
            ELSE [state |-> [consumed EXCEPT !.cycle = trade],
                  event |-> [NoEvent EXCEPT !.signal = trade, !.diagnostics = Blank]]

OnCandleClose(c, now, s) ==
  LET n == LastClosedIndex(c, now)
      read == [s EXCEPT !.last = c[n].time]
  IN IF n = 0 \/ (n > 0 /\ c[n].time <= s.last) THEN [state |-> s, event |-> NoEvent]
     ELSE IF s.cycle # Absent THEN OnTradesCandle(read, c[n])
     ELSE OnWatchedCandle(read, c, n)

-----------------------------------------------------------------------------
(* How far a pair has got: the lower end of the band setupProgress answers   *)
(* with.  Within a band the number climbs with the price and the clock, and  *)
(* never reaches the next one.                                               *)
Progress(s, diagnostics, price, touched) ==
  CASE s.cycle # Absent -> 100
    [] s.cycle = Absent /\ s.armed # Absent ->
         IF ~touched THEN 50
         ELSE IF Beyond(s.armed.direction, s.armed.level, price) < 0 THEN 90
         ELSE IF DeepEnough(s.armed.direction, s.armed.level, price) THEN 98 ELSE 95
    [] OTHER ->
         IF diagnostics = Absent THEN 0
         ELSE IF diagnostics.swingTouched + diagnostics.broken + diagnostics.alreadyFired > 0 THEN 30
         ELSE IF diagnostics.examined > 0 THEN 15 ELSE 0
Ready == 98
=============================================================================
