------------------------------- MODULE MCEngine -------------------------------
(* Short markets of four candles of a few shapes for the arithmetic, and     *)
(* zigzags of eight legs of four candles for swings and chart patterns.      *)
(* Beside them, and apart from them, one pair that is watched and replayed,  *)
(* and whole backtests of several pairs.                                     *)
EXTENDS Engine

CONSTANTS QuietSteps, MaxMinutes
VARIABLES feed, minute, app, replay, answer, done, report

Shape(o, h, l, k, v) == [open |-> o, high |-> h, low |-> l, close |-> k, volume |-> v]
Shapes == {Shape(5, 5, 5, 5, 1), Shape(2, 9, 1, 8, 2), Shape(8, 9, 1, 2, 1), Shape(5, 8, 2, 5, 1),
           Shape(7, 9, 1, 9, 1), Shape(3, 9, 1, 1, 2), Shape(5, 6, 4, 6, 1), Shape(4, 8, 2, 3, 1)}
Stairs == {Shape(a, Max({a, b}), Min({a, b}), b, 1) : a \in {1, 3, 5}, b \in {3, 5, 7}} \union
          {Shape(b, Max({a, b}), Min({a, b}), a, 1) : a \in {1, 3, 5}, b \in {3, 5, 7}}
Shorts == [1..4 -> Shapes] \union [1..3 -> Stairs]

(* A leg goes to its pivot in four closes; the pivot's candle has a wick. *)
Leg(a, b) == [k \in 1..4 |->
  LET from == a + ((b - a) * (k - 1)) \div 4
      to == a + ((b - a) * k) \div 4
      open == from + Sign(b - a)
  IN Shape(open, Max({open, to}) + IF k = 4 /\ b > a THEN 1 ELSE 0,
           Min({open, to}) - IF k = 4 /\ b < a THEN 1 ELSE 0, to, IF k = 4 THEN 2 ELSE 1)]
Highs == {2012, 2017}
Lows == {1983, 1988}
Zigzag(p) == FlattenSeq([k \in 1..8 |-> Leg(IF k = 1 THEN 2000 ELSE p[k - 1], p[k])])
Zigzags == {Zigzag(p) : p \in {f \in [1..8 -> Highs \union Lows] :
                                 /\ \A k \in 1..8 : f[k] \in IF k % 2 = 1 THEN Highs ELSE Lows
                                 /\ f[1] = Max(Highs)}}
(* A quiet market, an impulse, a consolidation and a breakout, both ways.    *)
Quiet == [k \in 1..10 |-> Shape(2000, 2001, 1999, 2000 + (k % 2), 1)]
Impulse == [k \in 1..10 |-> IF k = 1 THEN Shape(2000, 2000, 1998, 1998, 1)
                            ELSE Shape(1998 + 4 * (k - 2), 1998 + 4 * (k - 1), 1998 + 4 * (k - 2), 1998 + 4 * (k - 1), 2)]
Consolidation == [k \in 1..5 |-> Shape(2030, 2033, 2029, 2031, 1)]
After(last) == <<Shape(2031, Max({2031, last}), Min({2031, last}), last, 1)>>
Runs == {Quiet \o Impulse \o Consolidation \o After(last) : last \in {2036, 1999, 2031}}
MCMarkets == Shorts \union Zigzags \union Runs \union {Mirror(r) : r \in Runs}
MCTicks == {0, 6}

Ask(indicator, condition, signal, score, tolerance, value, pattern) ==
  [indicator |-> indicator, condition |-> condition, signal |-> signal, score |-> score, enabled |-> TRUE,
   period |-> 14, tolerance |-> tolerance, value |-> value, valueMin |-> Absent, valueMax |-> Absent,
   pattern |-> pattern]
Pool == {Ask("fib_level", "neq", "CALL", 3, Absent, Absent, "-1"), Ask("fib_level", "neq", "PUT", 2, 20, Absent, "-1"),
         Ask("fib_bounce", "bullish", "dominant", 2, 10, 382, Absent), Ask("fib_bounce", "bearish", "PUT", 4, 10, 618, Absent),
         Ask("fib_retracement", "lte", "CALL", 2, Absent, 50, Absent), Ask("fib_extension", "gt_average", "PUT", -3, Absent, Absent, Absent),
         Ask("sr_position", "at_support", "CALL", 1, Absent, Absent, Absent), Ask("sr_bounce", "bearish", "confirm", 2, 1, Absent, Absent),
         Ask("fib_distance", "bearish", "dominant", -1, Absent, Absent, Absent), Ask("supertrend", "is_false", "PUT", 1, Absent, Absent, Absent),
         [Ask("fib_zone", "golden", "CALL", 5, Absent, Absent, Absent) EXCEPT !.enabled = FALSE]}
MCRuleSets == [1..2 -> Pool]

(* Every pair of readings away from a calm moment and from a busy one. *)
Calm == [ema1 |-> 2, ema2 |-> 1, ema3 |-> 3, hist |-> 1, adx |-> 20, plusDi |-> 2, minusDi |-> 1, rsi |-> 50,
         divergence |-> "none", k |-> 60, d |-> 70, cci |-> 10, mfi |-> 50, cmf |-> 10, delta |-> 0, flow |-> "flat",
         spike |-> FALSE, ratio |-> 100, band |-> 50, atSupport |-> FALSE, atResistance |-> FALSE, offVwap |-> 5,
         zone |-> "Transition", pattern |-> "none", williams |-> -40, roc |-> 10]
Busy == [Calm EXCEPT !.ema3 = 0, !.adx = 30, !.rsi = 20, !.divergence = "bullish", !.k = 10, !.spike = TRUE,
                     !.ratio = 50, !.band = -5, !.offVwap = 20]
Values == [ema1 |-> {0, 2}, ema3 |-> {0, 1, 3}, hist |-> {-1, 0, 1}, adx |-> {10, 15, 20, 30}, plusDi |-> {0, 2},
           rsi |-> {20, 30, 40, 50, 60, 70, 80}, divergence |-> {"bullish", "bearish"}, k |-> {10, 40, 60, 90},
           d |-> {30, 80}, cci |-> {-160, -120, -10, 10, 120, 160}, mfi |-> {10, 30, 70, 90},
           cmf |-> {-150, -50, -10, 10, 50, 150}, delta |-> {-30, -15, 15, 30}, flow |-> {"bullish", "bearish"},
           spike |-> {TRUE, FALSE}, ratio |-> {50, 100}, band |-> {0, 10, 80, 100}, atSupport |-> {TRUE},
           atResistance |-> {TRUE}, offVwap |-> {-20, -5, 5, 20}, zone |-> {"Demand", "Supply"},
           pattern |-> {"hammer", "evening_star", "doji"}, williams |-> {-90, -60, -40, -10}, roc |-> {-150, -10, 10, 150}]
Changed(r, f) == {[r EXCEPT ![f] = v] : v \in Values[f]}
MCMoments == UNION {UNION {Changed(r, g) : r \in Changed(base, f)} :
                      <<base, f, g>> \in {Calm, Busy} \X (DOMAIN Values) \X (DOMAIN Values)}

-----------------------------------------------------------------------------
(* The watched pair.  Closes go from one price to the next in equal steps,   *)
(* and a turn has a wick.                                                    *)
Stretch(a, b, n) == [k \in 1..n |-> [close |-> a + ((b - a) * k) \div n, wick |-> IF k = n THEN 1 ELSE 0]]
PastOf(legs, start, times) ==
  LET flat == FlattenSeq(legs)
      open(i) == IF i = 1 THEN start ELSE flat[i - 1].close
  IN [i \in DOMAIN flat |->
        [time |-> times[i], open |-> open(i), high |-> Max({open(i), flat[i].close}) + flat[i].wick,
         low |-> Min({open(i), flat[i].close}) - flat[i].wick, close |-> flat[i].close]]
Minutes(n) == [i \in 1..n |-> i]
\* An up-swing to 40201, which waits for 40153.6; its mirror image.
UpSwing == PastOf(<<Stretch(40100, 40000, 5), Stretch(40000, 40200, 8), Stretch(40200, 40180, 3)>>, 40100, Minutes(16))
Turned(p) == 80310 - p
DownSwing == [i \in DOMAIN UpSwing |->
  [time |-> i, open |-> Turned(UpSwing[i].open), high |-> Turned(UpSwing[i].low),
   low |-> Turned(UpSwing[i].high), close |-> Turned(UpSwing[i].close)]]
\* An up-swing behind a hole; one with smaller legs after it.
Holed == PastOf(<<Stretch(40300, 40100, 4), Stretch(40100, 40000, 5), Stretch(40000, 40200, 8), Stretch(40200, 40180, 3)>>,
                40100, [i \in 1..20 |-> IF i <= 4 THEN i ELSE i + 3])
Crowded == PastOf(<<Stretch(40100, 40000, 3), Stretch(40000, 40200, 4), Stretch(40200, 40170, 3), Stretch(40170, 40190, 3),
                 Stretch(40190, 40180, 3)>>, 40100, Minutes(16))
MCPasts == {UpSwing, DownSwing, Holed, Crowded}
\* Past the end of the leg, short of the level, just past it, just deep enough.
UpSteps == {40210, 40180, 40142, 40141}
MCSteps == [CALL |-> UpSteps, PUT |-> {Turned(p) : p \in UpSteps}]

(* Histories for the backtest: a swing, the touch or not, and what the two   *)
(* candles of the trades come to; then the same behind holes, after a piece  *)
(* too short to keep, and thirty pairs with so many winners among them.      *)
Walk(closes) == PastOf(<<Stretch(40100, 40000, 5), Stretch(40000, 40200, 8), Stretch(40200, 40180, 3),
                         [k \in DOMAIN closes |-> [close |-> closes[k], wick |-> 0]]>>, 40100, Minutes(16 + Len(closes)))
Later(c, by) == [i \in DOMAIN c |-> [c[i] EXCEPT !.time = @ + by]]
Winner == Walk(<<40141, 40150, 40150, 40150>>)
Loser == Walk(<<40141, 40130, 40120, 40120>>)
Histories == {Walk(<<touch, first, second, 40141>>) :
                touch \in {40141, 40150, 40180}, first \in {40130, 40141, 40150}, second \in {40130, 40141, 40150}}
Behind(c, d) == c \o Later(d, Last(c).time + 3)
MCAnswers ==
  {<<h>> : h \in Histories} \union {<<h, Absent, Winner>> : h \in Histories}
    \union {<<Behind(h, Loser), UpSwing>> : h \in Histories} \union {<<Behind(Behind(Winner, UpSwing), h)>> : h \in Histories}
    \union {<<Behind(UpSwing, SubSeq(UpSwing, 1, 10)), Winner>>}
    \union {[p \in 1..30 |-> IF p <= winners THEN Winner ELSE Loser] : winners \in {20, 21, 22, 30}}

Pair == INSTANCE Backtest WITH Pasts <- MCPasts, Steps <- MCSteps, Answers <- MCAnswers
reportVars == <<answer, done, report>>
NoReport == answer = << >> /\ done = 0 /\ report = Absent
pairVars == <<feed, minute, app, replay>>
NoPair == feed = << >> /\ minute = << >> /\ app = Absent /\ replay = Absent
NoMarket == candles = << >> /\ coming = << >> /\ price = 0 /\ moment = Absent

EitherInit ==
  \/ Init /\ NoPair /\ NoReport
  \/ NoMarket /\ Pair!Init /\ NoReport
  \/ NoMarket /\ NoPair /\ Pair!BacktestInit
EitherNext ==
  \/ feed = << >> /\ answer = << >> /\ Next /\ UNCHANGED <<pairVars, reportVars>>
  \/ feed # << >> /\ Pair!Next /\ UNCHANGED <<vars, reportVars>>
  \/ answer # << >> /\ Pair!ReplayPair /\ UNCHANGED <<vars, pairVars>>
EitherSpec == EitherInit /\ [][EitherNext]_<<vars, pairVars, reportVars>>

ReadyMeansItFires == feed # << >> => Pair!ReadyMeansItFires
ReplayIsLive ==
  /\ feed # << >> => Pair!ReplayIsLive
  /\ answer # << >> => Pair!ReportIsTheRecord
=============================================================================
