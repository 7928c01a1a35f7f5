------------------------------- MODULE Strategy -------------------------------
(***************************************************************************)
(* What decides a trade when no program does: the confirmed swing and the  *)
(* Fibonacci and support/resistance readings taken from it (levels.ts),    *)
(* the registry with its cache (registry.ts), a rule's condition           *)
(* (conditions.ts), the flat scorer of a rule strategy (strategy.ts) and   *)
(* the parametric scorer used when there is none (scoring.ts).             *)
(***************************************************************************)
EXTENDS Patterns

CONSTANTS SwingLookback,   \* 100 in levels.ts
          ShortestWindow,  \* 12 in levels.ts
          Absent           \* a rule parameter that is null

ASSUME LookbackAssumption == SwingLookback \in Nat /\ ShortestWindow \in Nat

(* Ratios in thousandths of the swing, in the order of FIB_LEVELS. *)
FibLevels == <<0, 236, 382, 500, 618, 786, 886, 1000, 1272, 1414, 1618, 2000, 2618, 3618, 4236>>
FibTolerance == 5                    \* percent of the swing
SrTolerance == <<15, 100>>           \* percent of the price

-----------------------------------------------------------------------------
(* The swing. *)

(* The peaks of a series of prices: above two neighbours on each side.      *)
Fractals(prices) ==
  SelectSeq([k \in 1..Max({0, Len(prices) - 4}) |-> [at |-> k + 2, price |-> prices[k + 2]]],
            LAMBDA p : \A d \in {-2, -1, 1, 2} : p.price > prices[p.at + d])

(* The newest fractal that beats its neighbours; the last one has no         *)
(* neighbour yet and is not taken.                                           *)
LastIntermediate(pivots) ==
  LET beating == {i \in 2..(Len(pivots) - 1) :
                    pivots[i].price > pivots[i - 1].price /\ pivots[i].price > pivots[i + 1].price}
  IN IF beating = {} THEN Absent ELSE pivots[Max(beating)]

Crests(c) == [i \in DOMAIN c |-> c[i].high]
Troughs(c) == [i \in DOMAIN c |-> -c[i].low]
Recent(c, n) == SubSeq(c, Max({1, Len(c) - n + 1}), Len(c))

DetectSwing(c, period) ==
  LET window == Recent(c, Max({period, SwingLookback}))
      top == LastIntermediate(Fractals(Crests(window)))
      bottom == LastIntermediate(Fractals(Troughs(window)))
  IN IF Len(window) < ShortestWindow \/ top = Absent \/ bottom = Absent THEN Absent
     ELSE IF top.price + bottom.price <= 0 THEN Absent
     ELSE [high |-> top.price, low |-> -bottom.price, up |-> bottom.at < top.at,
           range |-> top.price + bottom.price]

(* Thousandths of the swing, from the end it ran to. *)
Retracement(swing, price) ==
  <<1000 * (IF swing.up THEN swing.high - price ELSE price - swing.low), swing.range>>
(* A thousand times the price at a ratio. *)
PriceAt(swing, ratio) ==
  IF swing.up THEN 1000 * swing.high - swing.range * ratio ELSE 1000 * swing.low + swing.range * ratio

-----------------------------------------------------------------------------
(* The registered indicators.  A rule is a record [indicator, condition,     *)
(* signal, score, enabled, period, tolerance, value, pattern].               *)

Inside(pct) == AtMost(Whole(0), pct) /\ AtMost(pct, Whole(1000))

FibRetracement(swing, price) ==
  IF swing = Absent THEN Whole(-1)
  ELSE LET pct == Retracement(swing, price) IN IF Inside(pct) THEN <<pct[1], 10 * pct[2]>> ELSE Whole(-1)

FibExtension(swing, price) ==
  IF swing = Absent THEN Whole(-1)
  ELSE LET pct == Retracement(swing, price)
       IN IF Inside(pct) THEN Whole(-1)
          ELSE IF pct[1] < 0 THEN Plus(<<-pct[1], 10 * pct[2]>>, Whole(100)) ELSE <<pct[1], 10 * pct[2]>>

Or(v, default) == IF v = Absent THEN default ELSE v
Off(swing, price, ratio) == 1000 * price - PriceAt(swing, ratio)
NearestRatio(swing, price) ==
  LET off(k) == Magnitude(Off(swing, price, FibLevels[k]))
      best == Min({off(k) : k \in DOMAIN FibLevels})
  IN FibLevels[Min({k \in DOMAIN FibLevels : off(k) = best})]

(* The label is the ratio; -1 is 'none'. *)
FibLevel(swing, price, tolerance) ==
  IF swing = Absent THEN -1
  ELSE LET ratio == NearestRatio(swing, price)
       IN IF Magnitude(Off(swing, price, ratio)) <= 10 * swing.range * Or(tolerance, FibTolerance)
          THEN ratio ELSE -1

FibZone(swing, price) ==
  IF swing = Absent THEN "none"
  ELSE IF price > swing.high THEN IF swing.up THEN "extension" ELSE "above_high"
  ELSE IF price < swing.low THEN IF swing.up THEN "below_low" ELSE "extension"
  ELSE LET pct == Retracement(swing, price)
       IN IF Less(pct, Whole(382)) THEN "shallow" ELSE IF AtMost(pct, Whole(618)) THEN "golden" ELSE "deep"

(* The last candle reached the level and closed back away from it. *)
FibBounce(c, swing, price, ratio, tolerance) ==
  LET last == Nth(c, 1)
      level == PriceAt(swing, Or(ratio, 618))
      band == 10 * swing.range * Or(tolerance, FibTolerance)
  IN IF swing = Absent \/ Len(c) < 2 THEN "none"
     ELSE IF 1000 * last.low <= level + band /\ 1000 * last.close > level /\ Rises(last)
             /\ 1000 * price > level THEN "bullish"
     ELSE IF 1000 * last.high >= level - band /\ 1000 * last.close < level /\ Falls(last)
             /\ 1000 * price < level THEN "bearish"
     ELSE "none"

FibDistance(swing, price) ==
  IF swing = Absent THEN Whole(0)
  ELSE <<Off(swing, price, NearestRatio(swing, price)), 10 * swing.range>>

(* Within a percentage of the PRICE of a level. *)
AtPrice(price, level, tolerance) ==
  LET t == IF tolerance = Absent THEN SrTolerance ELSE Whole(tolerance)
  IN Magnitude(price - level) * 100 * t[2] <= price * t[1]

SrPosition(swing, price, tolerance) ==
  IF swing = Absent THEN "none"
  ELSE IF AtPrice(price, swing.low, tolerance) THEN "at_support"
  ELSE IF AtPrice(price, swing.high, tolerance) THEN "at_resistance"
  ELSE IF price < swing.low THEN "below_support"
  ELSE IF price > swing.high THEN "above_resistance" ELSE "between"

SrBounce(c, swing, price, tolerance) ==
  LET last == Nth(c, 1)
      t == IF tolerance = Absent THEN SrTolerance ELSE Whole(tolerance)
      reach(gap) == gap * 100 * t[2] <= price * t[1]
  IN IF swing = Absent \/ Len(c) < 2 THEN "none"
     ELSE IF reach(last.low - swing.low) /\ last.close > swing.low /\ Rises(last) THEN "bullish"
     ELSE IF reach(swing.high - last.high) /\ last.close < swing.high /\ Falls(last) THEN "bearish"
     ELSE "none"

Registry == {"fib_retracement", "fib_extension", "fib_level", "fib_zone", "fib_bounce",
             "fib_distance", "sr_position", "sr_bounce"}
Numeric == {"fib_retracement", "fib_extension", "fib_distance"}

(* A reading: text has the text, a number the fraction; a name nobody        *)
(* registered reads 0.                                                       *)
Text(t) == [text |-> TRUE, is |-> t]
Number(f) == [text |-> FALSE, is |-> f]
Compute(c, r, price) ==
  LET swing == DetectSwing(c, r.period)
  IN CASE r.indicator = "fib_retracement" -> Number(FibRetracement(swing, price))
       [] r.indicator = "fib_extension" -> Number(FibExtension(swing, price))
       [] r.indicator = "fib_distance" -> Number(FibDistance(swing, price))
       [] r.indicator = "fib_level" -> Text(ToString(FibLevel(swing, price, r.tolerance)))
       [] r.indicator = "fib_zone" -> Text(FibZone(swing, price))
       [] r.indicator = "fib_bounce" -> Text(FibBounce(c, swing, price, r.value, r.tolerance))
       [] r.indicator = "sr_position" -> Text(SrPosition(swing, price, r.tolerance))
       [] r.indicator = "sr_bounce" -> Text(SrBounce(c, swing, price, r.tolerance))
       [] OTHER -> Number(Whole(0))

(* Two rules of one strategy share a reading exactly when their keys agree. *)
CacheKeyOfDart(r) == <<r.indicator, r.period>>     \* a mutant of CacheKey, the key before the fix
CacheKey(r) == <<r.indicator, r.period, r.tolerance, r.value>>

BullishNames == {"bullish", "hammer", "bullish_engulfing", "morning_star", "three_white_soldiers",
                 "pin_bar_bullish", "change_of_character_bullish", "break_of_structure_bullish"}
BearishNamesShort == {"bearish", "shooting_star", "bearish_engulfing"}     \* a mutant of BearishNames
BearishNames == {"bearish", "shooting_star", "bearish_engulfing", "evening_star", "three_black_crows",
                 "pin_bar_bearish", "change_of_character_bearish", "break_of_structure_bearish"}

(* An unknown condition on a text asks for that text; on a number it fails.  *)
CheckText(r, raw) ==
  LET target == IF r.pattern # Absent THEN r.pattern ELSE IF r.value # Absent THEN ToString(r.value) ELSE ""
  IN CASE r.condition = "eq" -> raw = target
       [] r.condition = "neq" -> raw # target
       [] r.condition = "bullish" -> raw \in BullishNames
       [] r.condition = "bearish" -> raw \in BearishNames
       [] OTHER -> raw = r.condition

CheckNumber(r, v) ==
  LET bound == Whole(Or(r.value, 0))
  IN CASE r.condition = "gt" -> Less(bound, v)
       [] r.condition = "lt" -> Less(v, bound)
       [] r.condition = "gte" -> AtMost(bound, v)
       [] r.condition = "lte" -> AtMost(v, bound)
       [] r.condition = "eq" -> SameAs(v, bound)
       [] r.condition = "neq" -> ~SameAs(v, bound)
       [] r.condition = "between" -> AtMost(Whole(Or(r.valueMin, 0)), v) /\ AtMost(v, Whole(Or(r.valueMax, 0)))
       [] r.condition = "bullish" -> v[1] > 0
       [] r.condition = "bearish" -> v[1] < 0
       [] r.condition = "is_true" -> v[1] # 0
       [] r.condition = "is_false" -> v[1] = 0
       [] r.condition = "gt_average" -> Less(Whole(1), v)
       [] r.condition = "lt_average" -> Less(v, Whole(1))
       [] OTHER -> FALSE

CheckCondition(r, raw) == IF raw.text THEN CheckText(r, raw.is) ELSE CheckNumber(r, raw.is)

-----------------------------------------------------------------------------
(* The flat scorer. *)

(* One rule's turn: the reading comes from the cache when a rule with the    *)
(* same key was computed before it.                                          *)
Step(c, price, acc, r) ==
  LET known == {e \in acc.cache : e.key = CacheKey(r)}
      raw == IF known # {} THEN (CHOOSE e \in known : TRUE).is ELSE Compute(c, r, price)
      toCall == r.signal = "CALL" \/ (r.signal \in {"dominant", "confirm"} /\ acc.call >= acc.put)
      toPut == r.signal = "PUT" \/ (r.signal \in {"dominant", "confirm"} /\ acc.call < acc.put)
      fires == CheckCondition(r, raw)
  IN IF ~r.enabled THEN acc
     ELSE [call |-> acc.call + IF fires /\ toCall THEN r.score ELSE 0,
           put |-> acc.put + IF fires /\ toPut THEN r.score ELSE 0,
           cache |-> IF r.indicator \in Registry THEN acc.cache \union {[key |-> CacheKey(r), is |-> raw]}
                     ELSE acc.cache]

EvaluateRules(c, price, rules) ==
  LET end == FoldLeft(LAMBDA acc, r : Step(c, price, acc, r), [call |-> 0, put |-> 0, cache |-> {}], rules)
  IN end.call - end.put

EffectiveMaxScore(maxScore, rules) ==
  LET on == SelectSeq(rules, LAMBDA r : r.enabled)
      sum == FoldSeq(LAMBDA r, s : Magnitude(r.score) + s, 0, on)
  IN IF maxScore > 0 THEN maxScore ELSE IF sum > 0 THEN sum ELSE 1

-----------------------------------------------------------------------------
(* The parametric scorer, over the readings of one moment.  Weights are      *)
(* sixtieths, so that every share of a weight is whole; a reading already    *)
(* stands on the code's scale, the thresholds are the defaults of config.ts. *)
(* A vote is signed: positive for CALL.                                      *)

W1 == 180
W2 == 150
W3 == 120
W4 == 120
W5 == 90

(* An extreme, a strong and a mild band, above and below a middle: the first *)
(* that holds votes.                                                         *)
First(bands) ==
  LET holding == SelectSeq(bands, LAMBDA b : b[1])
  IN IF holding = << >> THEN 0 ELSE holding[1][2]

TrendVotes(r) == <<
  First(<< <<r.ema1 > r.ema2 /\ r.ema2 > r.ema3, W1>>, <<r.ema1 < r.ema2 /\ r.ema2 < r.ema3, -W1>>,
           <<r.ema1 > r.ema2, W1 \div 2>>, <<TRUE, -(W1 \div 2)>> >>),
  First(<< <<r.hist > 0, W1>>, <<r.hist < 0, -W1>>, <<TRUE, -(W1 \div 2)>> >>),
  LET w == IF r.adx > 25 THEN W1 ELSE IF r.adx > 15 THEN W1 \div 3 ELSE 0
  IN IF r.plusDi > r.minusDi THEN w ELSE -w >>

MomentumVotes(r) == <<
  First(<< <<r.rsi < 25, W2>>, <<r.rsi > 75, -W2>>, <<r.rsi < 35, (3 * W2) \div 5>>, <<r.rsi > 65, -((3 * W2) \div 5)>>,
           <<r.rsi > 55, W2 \div 5>>, <<r.rsi < 45, -(W2 \div 5)>> >>),
  First(<< <<r.divergence = "bullish", W2>>, <<r.divergence = "bearish", -W2>> >>),
  First(<< <<r.k < 15, W2>>, <<r.k > 85, -W2>>, <<r.k > r.d /\ r.k < 50, (3 * W2) \div 5>>,
           <<r.k < r.d /\ r.k > 50, -((3 * W2) \div 5)>>, <<r.k > 50, W2 \div 5>>, <<TRUE, -(W2 \div 5)>> >>),
  First(<< <<r.cci > 150, -W2>>, <<r.cci < -150, W2>>, <<r.cci > 100, (2 * W2) \div 5>>,
           <<r.cci < -100, -((2 * W2) \div 5)>>, <<r.cci > 0, W2 \div 5>>, <<TRUE, -(W2 \div 5)>> >>) >>

(* cmf in thousandths *)
FlowVotes(r) == <<
  First(<< <<r.mfi < 20, W3>>, <<r.mfi > 80, -W3>>, <<r.mfi > 60, W3 \div 2>>, <<r.mfi < 40, -(W3 \div 2)>> >>),
  First(<< <<r.cmf > 100, W3>>, <<r.cmf < -100, -W3>>, <<r.cmf > 30, (3 * W3) \div 5>>,
           <<r.cmf < -30, -((3 * W3) \div 5)>>, <<r.cmf > 0, W3 \div 4>>, <<TRUE, -(W3 \div 4)>> >>),
  First(<< <<r.delta > 25, W3>>, <<r.delta < -25, -W3>>, <<r.delta > 10, W3 \div 2>>, <<r.delta < -10, -(W3 \div 2)>> >>),
  First(<< <<r.flow = "bullish", W3>>, <<r.flow = "bearish", -W3>> >>) >>

(* Where the price is: in the Bollinger bands (percent), at support, at      *)
(* resistance, off the VWAP (hundredths of a percent), in a liquidity zone.  *)
PriceVotes(r) == <<
  First(<< <<r.band <= 0, W4>>, <<r.band >= 100, -W4>>, <<r.band > 75, -(W4 \div 2)>>, <<r.band < 25, W4 \div 2>> >>),
  (IF r.atSupport THEN W4 ELSE 0) - (IF r.atResistance THEN W4 ELSE 0),
  LET w == IF Magnitude(r.offVwap) > 10 THEN W4 ELSE W4 \div 2 IN IF r.offVwap > 0 THEN w ELSE -w,
  First(<< <<r.zone = "Demand", W4>>, <<r.zone = "Supply", -W4>> >>) >>

ConfirmVotes(r) == <<
  First(<< <<r.pattern \in BullishNames, W5>>, <<r.pattern \in BearishNames, -W5>> >>),
  First(<< <<r.williams > -20, -W5>>, <<r.williams < -80, W5>>, <<r.williams > -50, W5 \div 3>>, <<TRUE, -(W5 \div 3)>> >>),
  First(<< <<r.roc > 100, W5>>, <<r.roc < -100, -W5>>, <<r.roc > 0, W5 \div 3>>, <<TRUE, -(W5 \div 3)>> >>) >>

Sum(votes) == FoldSeq(LAMBDA v, s : v + s, 0, votes)

(* The volume spike strengthens the side that leads when it is read, before  *)
(* the price is looked at; then two filters damp both sides, by tenths.      *)
ScoreV2(r) ==
  LET sofar == Sum(TrendVotes(r)) + Sum(MomentumVotes(r)) + Sum(FlowVotes(r))
      spike == IF ~r.spike THEN 0 ELSE IF sofar > 0 THEN W3 ELSE -W3
      all == sofar + spike + Sum(PriceVotes(r)) + Sum(ConfirmVotes(r))
      damp(cond, tenths) == IF cond THEN tenths ELSE 10
  IN all * damp(r.ratio < 60, 7) * damp(r.adx < 15, 8)

(* What a full house would score. *)
FullScore == 100 * (3 * W1 + 4 * W2 + 5 * W3 + 4 * W4 + 3 * W5)
=============================================================================
