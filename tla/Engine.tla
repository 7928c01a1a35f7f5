-------------------------------- MODULE Engine --------------------------------
(***************************************************************************)
(* A market shown candle by candle to the readings and scorers of          *)
(* packages/engine.  The feed is the environment; every reading is a       *)
(* function of the candles shown and of the ticker.                        *)
(***************************************************************************)
EXTENDS Strategy

CONSTANTS Markets,    \* the candle sequences the feed may show
          Ticks,      \* how far the ticker may be from the last close
          RuleSets,   \* rule strategies that are evaluated
          Moments,    \* readings for the parametric scorer
          Ceiling,    \* prices are mirrored at half of this
          LongMarket  \* a market of at least this many candles is read for patterns

VARIABLES candles,    \* shown so far
          coming,     \* not shown yet
          price,      \* _currentPrice
          moment      \* the readings the parametric scorer was given, if any

vars == <<candles, coming, price, moment>>

Init == /\ candles = << >>
        /\ price = 0
        /\ \/ coming \in Markets /\ moment = Absent
           \/ coming = << >> /\ moment \in Moments

ShowCandle ==
  /\ coming # << >>
  /\ candles' = Append(candles, Head(coming))
  /\ coming' = Tail(coming)
  /\ \E t \in Ticks : price' = Head(coming).close + t
  /\ UNCHANGED moment

Next == ShowCandle
Spec == Init /\ [][Next]_vars

-----------------------------------------------------------------------------
(* The mirror image of a market: what rose falls. *)
Flip(p) == Ceiling - p
FlipCandle(b) == [open |-> Flip(b.open), high |-> Flip(b.low), low |-> Flip(b.high),
                  close |-> Flip(b.close), volume |-> b.volume]
Mirror(c) == << >> \o [i \in DOMAIN c |-> FlipCandle(c[i])]
Long == Len(candles) + Len(coming) >= LongMarket

Opposite(label) ==
  LET pairs == {<<"bullish", "bearish">>, <<"bullish_engulfing", "bearish_engulfing">>,
                <<"hammer", "shooting_star">>, <<"morning_star", "evening_star">>,
                <<"three_white_soldiers", "three_black_crows">>, <<"pin_bar_bullish", "pin_bar_bearish">>,
                <<"change_of_character_bullish", "change_of_character_bearish">>,
                <<"break_of_structure_bullish", "break_of_structure_bearish">>,
                <<"higher_high_higher_low", "lower_low_lower_high">>, <<"sell_side", "buy_side">>,
                <<"above", "below">>, <<"breakout_up", "breakout_down">>, <<"extension", "extension">>,
                <<"above_high", "below_low">>, <<"at_support", "at_resistance">>,
                <<"below_support", "above_resistance">>}
      other == {p[2] : p \in {q \in pairs : q[1] = label}} \union {p[1] : p \in {q \in pairs : q[2] = label}}
  IN IF other = {} THEN label ELSE CHOOSE o \in other : TRUE

(* The oscillators of math.ts read a mirrored market as the mirror of the    *)
(* market: around their own middle, or with plus and minus exchanged.  An    *)
(* RSI does not where nothing moved, for it reads 100 without a loss         *)
(* (math.ts:32); an MFI weighs a candle by its price and only keeps its      *)
(* scale.                                                                    *)
AroundMiddle(a, b, sum) == SameAs(Plus(a, b), Whole(sum))
ReadingsMirror ==
  Len(candles) >= 1 /\ ~Long =>
    LET c == candles  m == Mirror(candles)  q == Flip(price)
        moved == \E i \in Window(c, 2) : i > 1 /\ Change(c, i) # 0
        macd == FullMacd(c, 2, 3, 2, price)
        macdM == FullMacd(m, 2, 3, 2, q)
        adx == AdxFull(c, 2)
        adxM == AdxFull(m, 2)
        k == Stochastic(c, 2, 2, price)
        kM == Stochastic(m, 2, 2, q)
    IN /\ moved => AroundMiddle(Rsi(c, 2), Rsi(m, 2), 100)
       /\ AroundMiddle(Sma(c, 2, price), Sma(m, 2, q), Ceiling)
       /\ AroundMiddle(Ema(c, 2, price), Ema(m, 2, q), Ceiling)
       /\ AroundMiddle(Vwap(c, price), Vwap(m, q), Ceiling)
       /\ AroundMiddle(macd.macd, macdM.macd, 0) /\ AroundMiddle(macd.signal, macdM.signal, 0)
       /\ AroundMiddle(macd.histogram, macdM.histogram, 0)
       /\ <<BollingerSide(c, 3, price, 1), BollingerSide(m, 3, q, 1)>>
            \in {<<"inside", "inside">>, <<"lower", "upper">>, <<"upper", "lower">>, <<"lower", "lower">>}
       /\ Len(c) > 2 => SameAs(Atr(c, 2, price), Atr(m, 2, q))
       /\ AroundMiddle(k.k, kM.k, 100) /\ AroundMiddle(k.d, kM.d, 100)
       /\ AroundMiddle(WilliamsR(c, 2, price), WilliamsR(m, 2, q), -100)
       /\ Obv(c) = -Obv(m)
       /\ AroundMiddle(Cmf(c, 3), Cmf(m, 3), 0)
       /\ AroundMiddle(VolumeDelta(c), VolumeDelta(m), 0)
       /\ AroundMiddle(Cci(c, 3), Cci(m, 3), 0)
       /\ AtMost(Whole(0), Mfi(c, 2)) /\ AtMost(Mfi(c, 2), Whole(100))
       /\ SameAs(adx.adx, adxM.adx) /\ SameAs(adx.plusDi, adxM.minusDi)

(* Every pattern and every structure reading names in a mirrored market the  *)
(* opposite of what it names in the market: no direction is found more       *)
(* easily than the other, whatever the order the patterns are tried in.      *)
PatternsMirror ==
  LET c == candles  m == Mirror(candles)  p == price  q == Flip(price)
      same(a, b) == b = Opposite(a)
  IN /\ same(CandlePatterns(c), CandlePatterns(m))
     /\ Long /\ Len(c) >= 20 =>
          /\ same(DoubleTop(c, p), DoubleBottom(m, q)) /\ same(DoubleBottom(c, p), DoubleTop(m, q))
          /\ same(HeadAndShoulders(c, p), InverseHeadAndShoulders(m, q))
          /\ same(AscendingTriangle(c, p), DescendingTriangle(m, q))
          /\ same(SymmetricalTriangle(c, p), SymmetricalTriangle(m, q))
          /\ same(Rectangle(c, p), Rectangle(m, q))
          /\ same(Wedge(c, p, TRUE), Wedge(m, q, FALSE)) /\ same(Wedge(c, p, FALSE), Wedge(m, q, TRUE))
          /\ same(Channel(c, TRUE), Channel(m, FALSE))
          /\ same(Flag(c, p, TRUE), Flag(m, q, FALSE))
          /\ same(MarketStructure(c, p), MarketStructure(m, q))
          /\ same(OrderBlock(c, p), OrderBlock(m, q))
          /\ same(FairValueGap(c, p), FairValueGap(m, q))
          /\ same(LiquiditySweep(c, p), LiquiditySweep(m, q))
             \/ (DipsUnder(c, p) /\ PokesOver(c, p))
          /\ same(WyckoffSpring(c, p), WyckoffUpthrust(m, q))
          /\ same(OpeningRange(c, p), OpeningRange(m, q))
          /\ same(SessionOpen(c, p), SessionOpen(m, q))
          /\ same(RsiDivergence(c), RsiDivergence(m))
          /\ LET s == DetectSwing(c, 14)  sM == DetectSwing(m, 14)
             IN /\ s = Absent <=> sM = Absent
                /\ same(FibZone(s, p), FibZone(sM, q))
                /\ FibLevel(s, p, Absent) = FibLevel(sM, q, Absent)
                /\ SameAs(FibRetracement(s, p), FibRetracement(sM, q))
                /\ SameAs(FibExtension(s, p), FibExtension(sM, q))
                /\ AroundMiddle(FibDistance(s, p), FibDistance(sM, q), 0)
                   \/ SameAs(FibDistance(s, p), FibDistance(sM, q))
                /\ same(FibBounce(c, s, p, Absent, Absent), FibBounce(m, sM, q, Absent, Absent))

(* Sharing readings through the cache changes no score: two rules with one   *)
(* key ask the same question of the same candles.  (registry.ts:105-113      *)
(* tells of a key without value and tolerance, where it did.)  And whatever  *)
(* dominant rules do to it, the score fits the bar it is drawn in.           *)
Uncached(rules) ==
  LET end == FoldLeft(LAMBDA acc, r : Step(candles, price, [acc EXCEPT !.cache = {}], r),
                      [call |-> 0, put |-> 0, cache |-> {}], rules)
  IN end.call - end.put
AtTheEnd == Long /\ coming = << >> /\ candles # << >>
CacheIsTransparent ==
  AtTheEnd => \A rules \in RuleSets :
    /\ EvaluateRules(candles, price, rules) = Uncached(rules)
    /\ Magnitude(Uncached(rules)) <= EffectiveMaxScore(0, rules)

(* The parametric scorer is as ready to sell as to buy: exchanging up and    *)
(* down in every reading turns the score round, and a score is never more    *)
(* than a full house.  Readings that stand exactly on a divide are left out, *)
(* where the code's ELSE goes to PUT.                                        *)
FlipMoment(r) ==
  [r EXCEPT !.ema1 = -@, !.ema2 = -@, !.ema3 = -@, !.hist = -@, !.plusDi = r.minusDi, !.minusDi = r.plusDi,
            !.rsi = 100 - @, !.divergence = Opposite(@), !.k = 100 - @, !.d = 100 - @, !.cci = -@,
            !.mfi = 100 - @, !.cmf = -@, !.delta = -@, !.flow = Opposite(@), !.band = 100 - @,
            !.atSupport = r.atResistance, !.atResistance = r.atSupport, !.offVwap = -@,
            !.zone = CASE @ = "Demand" -> "Supply" [] @ = "Supply" -> "Demand" [] OTHER -> @,
            !.pattern = Opposite(@), !.williams = -100 - @, !.roc = -@]
Divided(r) ==
  /\ r.ema1 # r.ema2 /\ r.hist # 0 /\ r.plusDi # r.minusDi /\ r.k # 50 /\ r.k # r.d /\ r.cci # 0
  /\ r.cmf # 0 /\ r.offVwap # 0 /\ r.williams # -50 /\ r.roc # 0
  /\ r.spike => Sum(TrendVotes(r)) + Sum(MomentumVotes(r)) + Sum(FlowVotes(r)) # 0
ScorerMirrors ==
  moment # Absent =>
    /\ Divided(moment) => ScoreV2(FlipMoment(moment)) = -ScoreV2(moment)
    /\ Magnitude(ScoreV2(moment)) <= FullScore

(* Nothing in the engine makes one direction easier to find than the other:  *)
(* the readings, the patterns and the scorer all turn round with the market. *)
EverythingMirrors == ReadingsMirror /\ PatternsMirror /\ ScorerMirrors
=============================================================================
