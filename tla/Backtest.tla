------------------------------- MODULE Backtest -------------------------------
(***************************************************************************)
(* The backtest of the strategy page (apps/web/lib/backtest.ts): one       *)
(* request for every pair, then pair after pair, piece after piece between *)
(* the holes, candle after candle.  A rate is kept as the two counts it is *)
(* made of.                                                                *)
(***************************************************************************)
EXTENDS Watching

CONSTANT Answers    \* what the request may bring: for each pair its candles, or Absent

VARIABLES answer,   \* what it brought
          done,     \* pairs gone through, as the progress bar shows
          report

reportVars == <<answer, done, report>>

MinTradesToJudge == 30
BreakevenLow == 526     \* thousandths
BreakevenHigh == 556

-----------------------------------------------------------------------------
(* The loop over the pairs. *)

\* A piece ends at a hole; one too short to fill the warm-up is dropped.
Pieces(c) ==
  LET starts == SetToSortSeq({1} \union {i \in 2..Len(c) : c[i].time - c[i - 1].time > GapTolerance}, <)
  IN [k \in DOMAIN starts |-> SubSeq(c, starts[k], IF k = Len(starts) THEN Len(c) ELSE starts[k + 1] - 1)]
LongEnough(c) == Len(c) >= Warmup + 5
ContiguousRuns(c) == SelectSeq(Pieces(c), LongEnough)

\* Each piece is met with a fresh mind.
ReplaysRun(r, piece) ==
  LET candles == [k \in 1..(Len(piece) - Warmup) |-> Warmup + k]
      end == FoldLeft(LAMBDA acc, i : Replays(acc, SubSeq(piece, 1, i)),
                      [r.replay EXCEPT !.state = Fresh, !.log = << >>], candles)
  IN [r EXCEPT !.replay = end, !.runs = Append(@, end.log), !.evaluated = @ + Len(candles)]

NoReport == [replay |-> StartReplay, runs |-> << >>, evaluated |-> 0, used |-> 0, gaps |-> 0, dropped |-> 0,
             times |-> {}]

\* fetchCandlesBulk(): a request that fails leaves every pair out.
BacktestInit ==
  /\ done = 0 /\ report = NoReport
  /\ \E a \in Answers : answer \in {a, [p \in DOMAIN a |-> Absent]}

\* Holes are only counted where they cost a candle.
ReplayPair ==
  /\ done < Len(answer)
  /\ done' = done + 1
  /\ \E c \in {answer[done + 1]} :
       IF c = Absent \/ ~LongEnough(c) THEN UNCHANGED report
       ELSE \E runs \in {ContiguousRuns(c)} : \E dropped \in {Len(c) - Len(FlattenSeq(runs))} :
              report' = FoldLeft(ReplaysRun,
                [report EXCEPT !.times = @ \union {c[i].time : i \in DOMAIN c},
                               !.gaps = @ + (IF dropped > 0 THEN Max({0, Len(runs) - 1}) ELSE 0),
                               !.dropped = @ + dropped, !.used = @ + (IF runs = << >> THEN 0 ELSE 1)], runs)
  /\ UNCHANGED answer

-----------------------------------------------------------------------------
(* The figures of a finished report. *)

Trades == report.replay.trades
Cycles == report.replay.cycles
Wins == Trades["primary"].WIN + Trades["martingale"].WIN
Losses == Trades["primary"].LOSS + Trades["martingale"].LOSS
Ties == Trades["primary"].TIE + Trades["martingale"].TIE
CyclesWon == Cycles.WIN + Cycles.RECOVERED
CyclesDecided == CyclesWon + Cycles.FINAL_LOSS
PrimarySignals(direction) ==
  SumFunction([k \in DOMAIN report.runs |->
    Len(SelectSeq(report.runs[k], LAMBDA e :
      e.signal # Absent /\ e.signal.stage = "primary" /\ e.signal.direction = direction))])
SpanMs == IF report.times = {} THEN 0 ELSE Max(report.times) - Min(report.times) + 1

\* wilson(): the low end of its interval is above p exactly when the rate is, by
\* more than 1.96 deviations at p.  (1.96^2 * 139 * 111 = 59272.0464)
LowEndAboveBreakeven(wins, decided) ==
  LET margin == 250 * wins - 139 * decided
  IN margin > 0 /\ margin * margin > 59272 * decided + (464 * decided) \div 10000
AtLeast(wins, decided, bar) == 1000 * wins >= bar * decided

\* verdict() of the strategy page, and verdictFor() of the signals page.
Verdict(trades, wins, decided) ==
  CASE trades = 0 -> "bad"
    [] trades # 0 /\ decided < MinTradesToJudge -> "ok"
    [] OTHER -> IF LowEndAboveBreakeven(wins, decided) THEN "good"
                ELSE IF AtLeast(wins, decided, BreakevenHigh) THEN "ok" ELSE "bad"
VerdictFor(wins, decided) ==
  CASE decided < MinTradesToJudge -> "insufficient"
    [] decided >= MinTradesToJudge /\ ~AtLeast(wins, decided, BreakevenLow) -> "losing"
    [] decided >= MinTradesToJudge /\ AtLeast(wins, decided, BreakevenLow) /\ ~AtLeast(wins, decided, BreakevenHigh) ->
         "breakeven"
    [] OTHER -> IF LowEndAboveBreakeven(wins, decided) THEN "proven" ELSE "above"
Tone == [insufficient |-> "ok", losing |-> "bad", breakeven |-> "bad", above |-> "ok", proven |-> "good"]

-----------------------------------------------------------------------------
(* A page that watched the pair through each of these pieces, its buffer with *)
(* the holes behind it and the candle forming in front.                       *)
LiveLog(c, from, to) ==
  LET minutes == [k \in 1..(to - from + 1 - Warmup) |-> from - 1 + Warmup + k]
      buffer(i) == Append(SubSeq(c, 1, i), Built(c[i].time + 1, <<c[i].close>>))
  IN FoldLeft(LAMBDA page, i : TickThrough(page, buffer(i), c[i].time + 1), Page, minutes).log
LiveLogs(c) ==
  LET pieces == Pieces(c)
      start(k) == 1 + SumFunction([j \in 1..(k - 1) |-> Len(pieces[j])])
      kept == SelectSeq([k \in DOMAIN pieces |-> k], LAMBDA k : LongEnough(pieces[k]))
  IN [j \in DOMAIN kept |-> LiveLog(c, start(kept[j]), start(kept[j]) + Len(pieces[kept[j]]) - 1)]

(* A finished report is the record of the page that watched the same candles; *)
(* its cycles, tallied apart, are its trades, first ones and doubles; every   *)
(* candle was judged, was warm-up or was dropped; no piece cuts a trade in    *)
(* two; and the page of the live signals would say the same of these trades.  *)
(* The cycles never look worse than the trades (the comment at                *)
(* backtest.ts:271-275 has the trades as the more flattering).                *)
Kept == SelectSeq(answer, LAMBDA c : c # Absent /\ LongEnough(c))
ReportIsTheRecord ==
  done = Len(answer) =>
    /\ report.runs = FlattenSeq([p \in DOMAIN Kept |-> LiveLogs(Kept[p])])
    /\ Cycles.WIN = Trades["primary"].WIN /\ Cycles.RECOVERED = Trades["martingale"].WIN
    /\ Cycles.FINAL_LOSS = Trades["martingale"].LOSS /\ Cycles.TIE = Ties /\ Cycles.ABORTED = 0
    /\ PrimarySignals("CALL") + PrimarySignals("PUT") - Cycles.WIN - Cycles.TIE - Cycles.RECOVERED - Cycles.FINAL_LOSS
         \in 0..Len(report.runs)
    /\ report.evaluated + Warmup * Len(report.runs) + report.dropped = Len(FlattenSeq(Kept))
    /\ CyclesWon * (Wins + Losses) >= Wins * CyclesDecided
    /\ Verdict(Wins + Losses + Ties, Wins, Wins + Losses)
         = IF Wins + Losses + Ties = 0 THEN "bad" ELSE Tone[VerdictFor(Wins, Wins + Losses)]
=============================================================================
