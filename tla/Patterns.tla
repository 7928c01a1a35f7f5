------------------------------- MODULE Patterns -------------------------------
(***************************************************************************)
(* The candlestick and chart patterns (packages/engine/src/indicators/     *)
(* patterns.ts) and the structure readings (structure.ts) of the analysis  *)
(* screen and of the parametric scorer.  A label is "bullish", "bearish"   *)
(* or what the code calls it.  A price is a whole number of ticks of       *)
(* 0.0005, so the absolute tolerances 0.0015 and 0.0020 are 3 and 4 ticks. *)
(***************************************************************************)
EXTENDS Indicators

CONSTANTS Near,        \* 0.0015 in ticks
          NearRange    \* 0.0020 in ticks, for rectangles

ASSUME NearAssumption == Near \in Nat /\ NearRange \in Nat

Nth(s, k) == s[Len(s) - k + 1]        \* the k-th from the end
Body(b) == Magnitude(b.close - b.open)
RisesOrStands(b) == b.close >= b.open        \* a mutant of Rises
Rises(b) == b.close > b.open
Falls(b) == b.close < b.open
Least(W, f(_)) == Min({f(i) : i \in W})
Most(W, f(_)) == Max({f(i) : i \in W})

(* Peaks and troughs with str strictly lower (higher) candles on both sides. *)
Turning(c, from, str) ==
  LET inner == [k \in 1..Max({0, Len(c) - str - from + 1}) |-> from + k - 1]
      peak(i) == \A k \in 1..str : c[i].high > c[i - k].high /\ c[i].high > c[i + k].high
      trough(i) == \A k \in 1..str : c[i].low < c[i - k].low /\ c[i].low < c[i + k].low
      highOf(i) == c[i].high
      lowOf(i) == c[i].low
  IN [h |-> [k \in DOMAIN SelectSeq(inner, peak) |-> highOf(SelectSeq(inner, peak)[k])],
      l |-> [k \in DOMAIN SelectSeq(inner, trough) |-> lowOf(SelectSeq(inner, trough)[k])]]

SwingPoints(c, lookback, str) == Turning(c, Max({str, Len(c) - lookback}) + 1, str)

AvgBody(c) == <<Total(DOMAIN c, LAMBDA i : Body(c[i])), Len(c)>>

(* The first pattern that matches, in this order. *)
CandlePatterns(c) ==
  LET last == Nth(c, 1)  prev == Nth(c, 2)  prev2 == Nth(c, 3)
      range == last.high - last.low
      lower == Min({last.open, last.close}) - last.low
      upper == last.high - Max({last.open, last.close})
      big == 10 * Body(last) > range
      star == 10 * Body(prev) < 4 * Body(last)
      middle2 == prev2.open + prev2.close
      named == <<
        <<"doji", 10 * Body(last) < range>>,
        <<"bullish_engulfing", Falls(prev) /\ Rises(last) /\ last.open <= prev.close /\ last.close >= prev.open>>,
        <<"bearish_engulfing", Rises(prev) /\ Falls(last) /\ last.open >= prev.close /\ last.close <= prev.open>>,
        <<"hammer", 10 * lower > 6 * range /\ 100 * upper < 15 * range /\ big>>,
        <<"shooting_star", 10 * upper > 6 * range /\ 100 * lower < 15 * range /\ big>>,
        <<"morning_star", Falls(prev2) /\ star /\ Rises(last) /\ 2 * last.close > middle2>>,
        <<"evening_star", Rises(prev2) /\ star /\ Falls(last) /\ 2 * last.close < middle2>>,
        <<"three_white_soldiers", Rises(prev2) /\ Rises(prev) /\ Rises(last)
                                  /\ prev.close > prev2.close /\ last.close > prev.close>>,
        <<"three_black_crows", Falls(prev2) /\ Falls(prev) /\ Falls(last)
                               /\ prev.close < prev2.close /\ last.close < prev.close>>,
        <<"pin_bar_bullish", 100 * lower > 65 * range>>,
        <<"pin_bar_bearish", 100 * upper > 65 * range>> >>
      matching == SelectSeq(named, LAMBDA p : p[2])
  IN IF Len(c) < 3 THEN "none"
     ELSE IF range = 0 \/ matching = << >> THEN "none" ELSE matching[1][1]

(* A chart pattern needs a length of history and some turning points; then   *)
(* the last two of each kind decide.                                         *)
Label(cond, name) == IF cond THEN name ELSE "none"

DoubleTop(c, price) ==
  LET h == SwingPoints(c, 40, 2).h
  IN Label(Len(c) >= 20 /\ Len(h) >= 2 /\ Magnitude(Nth(h, 1) - Nth(h, 2)) < Near
             /\ price < Nth(h, 1) - Near, "bearish")

DoubleBottom(c, price) ==
  LET l == SwingPoints(c, 40, 2).l
  IN Label(Len(c) >= 20 /\ Len(l) >= 2 /\ Magnitude(Nth(l, 1) - Nth(l, 2)) < Near
             /\ price > Nth(l, 1) + Near, "bullish")

Shoulders(s) == Nth(s, 3) + Nth(s, 1)         \* twice their average
Level3(s) == 2000 * Magnitude(Nth(s, 3) - Nth(s, 1)) < 3 * Shoulders(s)

HeadAndShoulders(c, price) ==
  LET h == SwingPoints(c, 60, 2).h
      above(s) == 1000 * Nth(h, 2) > 1002 * s
  IN Label(Len(c) >= 30 /\ Len(h) >= 3 /\ above(Nth(h, 3)) /\ above(Nth(h, 1)) /\ Level3(h)
             /\ 2 * price < Shoulders(h), "bearish")

InverseHeadAndShoulders(c, price) ==
  LET l == SwingPoints(c, 60, 2).l
      below(s) == 1000 * Nth(l, 2) < 998 * s
  IN Label(Len(c) >= 30 /\ Len(l) >= 3 /\ below(Nth(l, 3)) /\ below(Nth(l, 1)) /\ Level3(l)
             /\ 2 * price > Shoulders(l), "bullish")

(* The last two highs and lows of 30 candles, newest first. *)
Corners(c) ==
  LET p == SwingPoints(c, 30, 2)
  IN [h1 |-> Nth(p.h, 1), h2 |-> Nth(p.h, 2), l1 |-> Nth(p.l, 1), l2 |-> Nth(p.l, 2)]
Shaped(c) == Len(c) >= 20 /\ LET p == SwingPoints(c, 30, 2) IN Len(p.h) >= 2 /\ Len(p.l) >= 2

AscendingTriangle(c, price) ==
  Label(Shaped(c) /\ LET k == Corners(c)
                     IN Magnitude(k.h1 - k.h2) < Near /\ k.l1 > k.l2 /\ price > k.h1, "bullish")

DescendingTriangle(c, price) ==
  Label(Shaped(c) /\ LET k == Corners(c)
                     IN Magnitude(k.l1 - k.l2) < Near /\ k.h1 < k.h2 /\ price < k.l1, "bearish")

(* Which side of the newest corners the price has left by. *)
BreakoutSide(k, price) ==
  IF price > k.h1 THEN "bullish" ELSE IF price < k.l1 THEN "bearish" ELSE "none"

SymmetricalTriangle(c, price) ==
  IF Shaped(c) /\ Corners(c).h1 < Corners(c).h2 /\ Corners(c).l1 > Corners(c).l2
  THEN BreakoutSide(Corners(c), price) ELSE "none"

Rectangle(c, price) ==
  IF Shaped(c) /\ LET k == Corners(c)
                  IN Magnitude(k.h1 - k.h2) < NearRange /\ Magnitude(k.l1 - k.l2) < NearRange
  THEN BreakoutSide(Corners(c), price) ELSE "none"

Climbing(c) == Shaped(c) /\ Corners(c).h1 > Corners(c).h2 /\ Corners(c).l1 > Corners(c).l2
Sinking(c) == Shaped(c) /\ Corners(c).h1 < Corners(c).h2 /\ Corners(c).l1 < Corners(c).l2

(* A rising wedge resolves downwards, and a falling one upwards. *)
Wedge(c, price, rising) ==
  IF rising THEN Label(Climbing(c) /\ price < Corners(c).l1, "bearish")
  ELSE Label(Sinking(c) /\ price > Corners(c).h1, "bullish")

Channel(c, up) == IF up THEN Label(Climbing(c), "bullish") ELSE Label(Sinking(c), "bearish")

(* An impulse over the ten candles before the last five, which consolidate. *)
Flag(c, price, bull) ==
  LET from == c[Max({1, Len(c) - 14})].close
      to == c[Len(c) - 5].close
      impulse == IF bull THEN to - from ELSE from - to
      hi == Highest(c, Window(c, 5))
      lo == Lowest(c, Window(c, 5))
      flies == impulse * Len(c) > 5 * AvgBody(c)[1] /\ 10 * (hi - lo) < 4 * impulse
  IN IF Len(c) < 15 THEN "none"
     ELSE IF bull THEN Label(flies /\ price > hi, "bullish")
     ELSE Label(flies /\ price < lo, "bearish")

-----------------------------------------------------------------------------
(* structure.ts *)

(* The first of the levels that is nearest to the price, and how well the    *)
(* distance fits into three average true ranges.                             *)
LiquidityZones(c, price) ==
  LET volume == Total(DOMAIN c, LAMBDA i : c[i].volume)
      heavy == SelectSeq(c, LAMBDA b : 2 * b.volume * Len(c) > 3 * volume)
      sr == SupportResistance(c, price)
      levels == [k \in DOMAIN heavy |-> <<heavy[k].high + heavy[k].low, 2>>]
                \o <<sr.support, sr.resistance, Vwap(c, price)>>
      dist(l) == LET d == Minus(Whole(price), l) IN <<Magnitude(d[1]), d[2]>>
      nearer(l, best) == IF Less(dist(l), dist(best)) THEN l ELSE best
      nearest == FoldLeft(LAMBDA best, l : nearer(l, best), levels[1], levels)
      atr == Atr(c, 14, price)
      share == <<dist(nearest)[1] * atr[2], dist(nearest)[2] * 3 * atr[1]>>
      score == IF atr[1] = 0 THEN Whole(50)
               ELSE Scaled(100, Minus(Whole(1), Clamp(share, Whole(0), Whole(1))))
  IN IF Len(c) < 10 THEN [score |-> Whole(50), zone |-> "Neutral"]
     ELSE [score |-> score,
           zone |-> IF Less(Whole(75), score)
                    THEN IF AtMost(Whole(price), nearest) THEN "Demand" ELSE "Supply"
                    ELSE IF Less(Whole(40), score) THEN "Transition" ELSE "LowLiquidity"]

(* The average leaves the last candle out. *)
VolumeProfileStats(c) ==
  LET before == Max({1, Len(c) - 10})..(Len(c) - 1)
      sum == Total(before, LAMBDA i : c[i].volume)
      ratio == IF sum > 0 THEN <<c[Len(c)].volume * Cardinality(before), sum>> ELSE Whole(1)
      drift == Total(Max({2, Len(c) - 4})..Len(c),
                     LAMBDA i : IF Change(c, i) > 0 THEN c[i].volume ELSE -c[i].volume)
  IN IF Len(c) < 10 THEN [spike |-> FALSE, ratio |-> Whole(1), trend |-> "flat"]
     ELSE [spike |-> Less(<<18, 10>>, ratio), ratio |-> ratio,
           trend |-> IF drift > 0 THEN "bullish" ELSE IF drift < 0 THEN "bearish" ELSE "flat"]

MarketStructure(c, price) ==
  LET p == Turning(c, 3, 2)
      higher(k) == Nth(p.h, k) > Nth(p.h, k + 1) /\ Nth(p.l, k) > Nth(p.l, k + 1)
      lower(k) == Nth(p.h, k) < Nth(p.h, k + 1) /\ Nth(p.l, k) < Nth(p.l, k + 1)
      deep == Len(p.h) >= 3 /\ Len(p.l) >= 3
      named == <<
        <<"change_of_character_bullish", deep /\ lower(2) /\ higher(1)>>,
        <<"change_of_character_bearish", deep /\ higher(2) /\ lower(1)>>,
        <<"break_of_structure_bullish", deep /\ higher(1) /\ price > Nth(p.h, 2)>>,
        <<"break_of_structure_bearish", deep /\ lower(1) /\ price < Nth(p.l, 2)>>,
        <<"higher_high_higher_low", higher(1)>>,
        <<"lower_low_lower_high", lower(1)>> >>
      holding == SelectSeq(named, LAMBDA n : n[2])
  IN IF Len(c) < 20 \/ Len(p.h) < 2 \/ Len(p.l) < 2 THEN "none"
     ELSE IF holding = << >> THEN "none" ELSE holding[1][1]

(* The last opposite candle before the newest impulse whose block holds the  *)
(* price.                                                                    *)
OrderBlock(c, price) ==
  LET total == Total(DOMAIN c, LAMBDA i : Body(c[i]))
      impulses == {i \in 6..(Len(c) - 1) : 2 * Len(c) * Body(c[i]) >= 3 * total}
      opposite(i, b) == IF Rises(c[i]) THEN Falls(b) ELSE Rises(b)
      blocks(i) == {j \in Max({1, i - 5})..(i - 1) : opposite(i, c[j])}
      held == {i \in impulses : blocks(i) # {}
                 /\ LET ob == c[Max(blocks(i))] IN ob.low <= price /\ price <= ob.high}
  IN IF Len(c) < 10 \/ held = {} THEN "none"
     ELSE IF Rises(c[Max(held)]) THEN "bullish" ELSE "bearish"

FairValueGap(c, price) ==
  LET up(i) == c[i].low > c[i - 2].high /\ c[i - 2].high <= price /\ price <= c[i].low
      down(i) == c[i].high < c[i - 2].low /\ c[i].high <= price /\ price <= c[i - 2].low
      gaps == {i \in 3..Len(c) : up(i) \/ down(i)}
  IN IF Len(c) < 5 \/ gaps = {} THEN "none"
     ELSE IF up(Max(gaps)) THEN "bullish" ELSE "bearish"

(* The fifteen candles before the last three, and the last three. *)
Reference(c) == Max({1, Len(c) - 17})..(Len(c) - 3)
Last3(c) == Window(c, 3)
DipsUnder(c, price) == Lowest(c, Last3(c)) < Lowest(c, Reference(c)) /\ price > Lowest(c, Reference(c))
PokesOver(c, price) == Highest(c, Last3(c)) > Highest(c, Reference(c)) /\ price < Highest(c, Reference(c))

LiquiditySweep(c, price) ==
  IF Len(c) < 15 THEN "none"
  ELSE IF DipsUnder(c, price) THEN "sell_side"
  ELSE IF PokesOver(c, price) THEN "buy_side" ELSE "none"

WyckoffSpring(c, price) ==
  Label(Len(c) >= 20 /\ DipsUnder(c, price)
          /\ LET support == Lowest(c, Reference(c))
             IN 1000 * (support - Lowest(c, Last3(c))) < 3 * support, "bullish")

WyckoffUpthrust(c, price) ==
  Label(Len(c) >= 20 /\ PokesOver(c, price)
          /\ LET resist == Highest(c, Reference(c))
             IN 1000 * (Highest(c, Last3(c)) - resist) < 3 * resist, "bearish")

SessionOpen(c, price) ==
  IF Len(c) < 3 THEN "none"
  ELSE IF 10000 * price > 10002 * c[1].open THEN "above"
  ELSE IF 10000 * price < 9998 * c[1].open THEN "below" ELSE "at"

OpeningRange(c, price) ==
  IF Len(c) < 10 THEN "none"
  ELSE IF price > Highest(c, 1..10) THEN "breakout_up"
  ELSE IF price < Lowest(c, 1..10) THEN "breakout_down" ELSE "inside"

(* Averages of the two halves of the last closes and of their 14-step RSI.   *)
(* No loss reads rs = 100, that is 100 - 100/101.                            *)
RsiDivergence(c) ==
  LET back == Min({15, Len(c) - 5})
      W == Window(c, back)
      rsi(i) == LET loss == Total(i - 13..i, LAMBDA j : Max({-Change(c, j), 0}))
                    gain == Total(i - 13..i, LAMBDA j : Max({Change(c, j), 0}))
                IN IF i < 16 THEN Whole(50)
                   ELSE IF loss = 0 THEN <<10000, 101>> ELSE <<100 * gain, gain + loss>>
      first == {i \in W : i < Min(W) + back \div 2}
      closes(S) == <<Total(S, LAMBDA i : c[i].close), Cardinality(S)>>
      strength(S) == LET in1000(i) == (1000 * rsi(i)[1]) \div rsi(i)[2]
                     IN <<Total(S, in1000), Cardinality(S)>>
  IN IF Len(c) < 20 THEN "none"
     ELSE IF Less(closes(W \ first), closes(first))
             /\ Less(Plus(strength(first), Whole(3000)), strength(W \ first)) THEN "bullish"
     ELSE IF Less(closes(first), closes(W \ first))
             /\ Less(strength(W \ first), Minus(strength(first), Whole(3000))) THEN "bearish"
     ELSE "none"

-----------------------------------------------------------------------------
(* Readings of the clock: the hour is UTC, the weekday local, Monday = 1. *)

KillZone(hour) ==
  IF hour \in 2..4 THEN "asian_killzone" ELSE IF hour \in 8..10 THEN "london_killzone"
  ELSE IF hour \in 13..15 THEN "newyork_killzone" ELSE "none"

SessionOverlap(hour) ==
  IF hour = 8 THEN "asian_london" ELSE IF hour \in 13..16 THEN "london_newyork" ELSE "none"

SessionHours == [london_newyork_overlap |-> 13..16, london |-> 8..15, new_york |-> 13..21, tokyo |-> 0..8]
TimeSession(session, hour) ==
  IF session \in DOMAIN SessionHours /\ hour \in SessionHours[session] THEN "active" ELSE "inactive"

JudasSwing(c, price, hour) ==
  LET rec == SubSeq(c, Max({1, Len(c) - 5}), Len(c))
      atr == Atr(c, 5, price)
      mid == rec[(Len(rec) \div 2) + 1].close
      far(d) == 2 * d * atr[2] > 3 * atr[1]
  IN IF Len(c) < 8 \/ hour \notin (8..9) \union (13..14) \union (2..3) THEN "none"
     ELSE IF far(rec[1].close - Lowest(rec, DOMAIN rec)) /\ price > mid THEN "bullish"
     ELSE IF far(Highest(rec, DOMAIN rec) - rec[1].close) /\ price < mid THEN "bearish"
     ELSE "none"
=============================================================================
