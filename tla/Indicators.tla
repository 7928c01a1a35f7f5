------------------------------ MODULE Indicators ------------------------------
(***************************************************************************)
(* The indicator arithmetic of packages/engine/src/indicators/math.ts.     *)
(* Prices and volumes are integers and a result is a fraction <<n, d>>     *)
(* with d > 0, so that a comparison is exact: rounding is left out.        *)
(* Candles are records [open, high, low, close, volume], oldest first.     *)
(***************************************************************************)
EXTENDS Integers, Sequences, FiniteSetsExt, SequencesExt

Whole(n) == <<n, 1>>
Less(a, b) == a[1] * b[2] < b[1] * a[2]
AtMost(a, b) == ~Less(b, a)
SameAs(a, b) == a[1] * b[2] = b[1] * a[2]
Plus(a, b) == IF a[2] = b[2] THEN <<a[1] + b[1], a[2]>>
              ELSE <<a[1] * b[2] + b[1] * a[2], a[2] * b[2]>>
Scaled(k, a) == <<k * a[1], a[2]>>
Minus(a, b) == Plus(a, Scaled(-1, b))
Magnitude(n) == IF n < 0 THEN -n ELSE n
Clamp(v, lo, hi) == IF Less(v, lo) THEN lo ELSE IF Less(hi, v) THEN hi ELSE v
Mean(fs) == LET s == FoldSeq(Plus, Whole(0), fs) IN <<s[1], s[2] * Len(fs)>>

(* The last n positions of c, and what is summed or bounded over positions. *)
Window(c, n) == (Len(c) - n + 1)..Len(c)
Total(W, f(_)) == MapThenSumSet(f, W)
Highest(c, W) == Max({c[i].high : i \in W})
Lowest(c, W) == Min({c[i].low : i \in W})
Change(c, i) == c[i].close - c[i - 1].close
Typical(c, i) == c[i].high + c[i].low + c[i].close    \* three times the typical price

(* A window in which nothing fell reads 100, also when nothing rose. *)
Rsi(c, period) ==
  LET W == Window(c, period)
      gain == Total(W, LAMBDA i : Max({Change(c, i), 0}))
      loss == Total(W, LAMBDA i : Max({-Change(c, i), 0}))
  IN IF Len(c) <= period THEN Whole(50)
     ELSE IF loss = 0 THEN Whole(100) ELSE <<100 * gain, gain + loss>>

Sma(c, period, price) ==
  IF Len(c) < period THEN Whole(price)
  ELSE <<Total(Window(c, period), LAMBDA i : c[i].close), period>>

(* Seeded with the mean of the FIRST period candles. *)
Ema(c, period, price) ==
  LET seed == <<Total(1..period, LAMBDA i : c[i].close), period>>
      weigh(v, candle) == <<2 * candle.close * v[2] + (period - 1) * v[1], (period + 1) * v[2]>>
  IN IF Len(c) < period THEN Whole(price)
     ELSE FoldLeft(weigh, seed, SubSeq(c, period + 1, Len(c)))

SupportResistance(c, price) ==
  LET inner == 2..(Len(c) - 1)
      peaks == {i \in inner : c[i].high > c[i - 1].high /\ c[i].high > c[i + 1].high}
      valleys == {i \in inner : c[i].low < c[i - 1].low /\ c[i].low < c[i + 1].low}
      among(S) == IF S = {} THEN DOMAIN c ELSE S
  IN IF Len(c) < 10 THEN [support |-> <<995 * price, 1000>>, resistance |-> <<1005 * price, 1000>>]
     ELSE [support |-> Whole(Lowest(c, among(valleys))), resistance |-> Whole(Highest(c, among(peaks)))]

(* The bands are compared by their squares, with no square root: on which   *)
(* side of mid -+ mult * stdDev the price is.                               *)
BollingerSide(c, period, price, mult) ==
  LET mid == Sma(c, period, price)
      off == price * period - mid[1]                         \* period * (price - mid)
      square == Total(Window(c, period),
                      LAMBDA i : (c[i].close * period - mid[1]) * (c[i].close * period - mid[1]))
      beyond == off * off * period >= mult * mult * square
  IN IF Len(c) < period \/ ~beyond THEN "inside" ELSE IF off <= 0 THEN "lower" ELSE "upper"

(* The code's periods are fast = 12, slow = 26 and lookback = 9; the signal *)
(* line is a mean of differences of simple means.                           *)
FullMacd(c, fast, slow, lookback, price) ==
  LET line == Minus(Ema(c, fast, price), Ema(c, slow, price))
      meanTo(i, n) == LET from == Max({1, i - n + 1})
                      IN <<Total(from..i, LAMBDA j : c[j].close), i - from + 1>>
      first == Max({1, Len(c) - lookback + 1})
      signal == IF Len(c) < slow THEN Whole(0)
                ELSE Mean([k \in 1..(Len(c) - first + 1) |->
                             Minus(meanTo(first + k - 1, fast), meanTo(first + k - 1, slow))])
  IN [macd |-> line, signal |-> signal, histogram |-> Minus(line, signal)]

TrueRange(c, i) ==
  Max({c[i].high - c[i].low, Magnitude(c[i].high - c[i - 1].close), Magnitude(c[i].low - c[i - 1].close)})

Atr(c, period, price) ==
  IF Len(c) < period + 1 THEN <<price, 1000>>
  ELSE <<Total(Window(c, period), LAMBDA i : TrueRange(c, i)), period>>

(* Where a price lies between the extremes of the positions W, in percent. *)
RangeK(c, W, price) ==
  LET hh == Highest(c, W) ll == Lowest(c, W)
  IN IF hh = ll THEN Whole(50) ELSE <<100 * (price - ll), hh - ll>>

(* %K mixes the ticker with closes; %D drops the newest sample. *)
Stochastic(c, period, smoothK, price) ==
  LET raw == Clamp(RangeK(c, Window(c, period), price), Whole(0), Whole(100))
      samples == [k \in 1..Min({smoothK, Len(c) - period}) |->
                    LET end == Len(c) - k + 1
                    IN RangeK(c, (end - period + 1)..end, c[end].close)]
      k == Mean(<<raw>> \o samples)
  IN IF Len(c) < period THEN [k |-> Whole(50), d |-> Whole(50)]
     ELSE [k |-> Clamp(k, Whole(0), Whole(100)),
           d |-> Clamp(IF samples = << >> THEN k ELSE Mean(samples), Whole(0), Whole(100))]

Sign(n) == IF n > 0 THEN 1 ELSE IF n < 0 THEN -1 ELSE 0

Obv(c) == Total(2..Len(c), LAMBDA i : Sign(Change(c, i)) * c[i].volume)

Vwap(c, price) ==
  LET volume == Total(DOMAIN c, LAMBDA i : c[i].volume)
  IN IF volume = 0 THEN Whole(price)
     ELSE <<Total(DOMAIN c, LAMBDA i : Typical(c, i) * c[i].volume), 3 * volume>>

(* Only how far the close is off the low: a mutant of CloseLocation.        *)
CloseAboveLow(candle) ==
  IF candle.high = candle.low THEN Whole(0) ELSE <<candle.close - candle.low, candle.high - candle.low>>

(* How far the close is towards the high (1) or the low (-1). *)
CloseLocation(candle) ==
  IF candle.high = candle.low THEN Whole(0)
  ELSE <<2 * candle.close - candle.low - candle.high, candle.high - candle.low>>
MoneyFlow(c, W) ==
  FoldSeq(LAMBDA i, s : Plus(Scaled(c[i].volume, CloseLocation(c[i])), s), Whole(0), SetToSeq(W))

Cmf(c, period) ==
  LET W == Window(c, period)
      flow == MoneyFlow(c, W)
      volume == Total(W, LAMBDA i : c[i].volume)
  IN IF Len(c) < period \/ volume = 0 THEN Whole(0)
     ELSE Clamp(<<flow[1], flow[2] * volume>>, Whole(-1), Whole(1))

(* Buying less selling volume of five candles: the share bought is           *)
(* (close - low) / (high - low), so their difference is the close location.  *)
VolumeDelta(c) ==
  LET W == Window(c, 5)
      flow == MoneyFlow(c, W)
      volume == Total(W, LAMBDA i : c[i].volume)
  IN IF Len(c) < 5 \/ volume = 0 THEN Whole(0) ELSE <<100 * flow[1], flow[2] * volume>>

WilliamsR(c, period, price) ==
  LET W == Window(c, period)
  IN IF Len(c) < period \/ Highest(c, W) = Lowest(c, W) THEN Whole(-50)
     ELSE <<-100 * (Highest(c, W) - price), Highest(c, W) - Lowest(c, W)>>

Cci(c, period) ==
  LET W == Window(c, period)
      sum == Total(W, LAMBDA i : Typical(c, i))                    \* period times the mean
      deviation == Total(W, LAMBDA i : Magnitude(period * Typical(c, i) - sum))
  IN IF Len(c) < period \/ deviation = 0 THEN Whole(0)
     ELSE <<200 * period * (period * Typical(c, Len(c)) - sum), 3 * deviation>>

(* A typical price that did not move counts as falling. *)
Mfi(c, period) ==
  LET W == Window(c, period)
      rose(i) == Typical(c, i) > Typical(c, i - 1)
      up == Total({i \in W : rose(i)}, LAMBDA i : Typical(c, i) * c[i].volume)
      down == Total({i \in W : ~rose(i)}, LAMBDA i : Typical(c, i) * c[i].volume)
  IN IF Len(c) < period + 1 THEN Whole(50)
     ELSE IF down = 0 THEN Whole(100) ELSE <<100 * up, up + down>>

Roc(c, period, price) ==
  LET past == c[Len(c) - period].close
  IN IF Len(c) < period + 1 THEN Whole(0)
     ELSE IF past = 0 THEN Whole(0) ELSE <<100 * (price - past), past>>

(* A directional move of one window, neither smoothed nor averaged. *)
AdxFull(c, period) ==
  LET W == Window(c, period)
      up(i) == c[i].high - c[i - 1].high
      down(i) == c[i - 1].low - c[i].low
      plus == Total({i \in W : up(i) > down(i) /\ up(i) > 0}, up)
      minus == Total({i \in W : down(i) > up(i) /\ down(i) > 0}, down)
      range == Total(W, LAMBDA i : TrueRange(c, i))
      di(n) == <<100 * n, range>>
  IN IF Len(c) < period + 1 THEN [adx |-> Whole(25), plusDi |-> Whole(50), minusDi |-> Whole(50)]
     ELSE IF range = 0 THEN [adx |-> Whole(25), plusDi |-> Whole(50), minusDi |-> Whole(50)]
     ELSE [adx |-> IF plus + minus = 0 THEN Whole(25)
                   ELSE Clamp(<<100 * Magnitude(plus - minus), plus + minus>>, Whole(0), Whole(100)),
           plusDi |-> di(plus), minusDi |-> di(minus)]
=============================================================================
