------------------------------- MODULE Watching -------------------------------
(***************************************************************************)
(* One pair under watch (apps/web/lib/useSignalEngine.ts) beside a replay  *)
(* of the same candles (apps/web/lib/backtest.ts).                         *)
(*                                                                         *)
(* The live side gives the program a buffer whose last candle may be one   *)
(* that is still forming, and between two candles shows how near a trade   *)
(* is from the prices it happens to see.  The replay gives it one closed   *)
(* candle after the other.  A trade's minute is one candle; the watch ticks *)
(* at every close (useMonitoring.ts).                                      *)
(***************************************************************************)
EXTENDS Fib236

CONSTANTS Pasts,        \* the candles there were when the watch began
          Steps,        \* what the price of a minute may be, by the direction waited for
          QuietSteps,   \* the same in a minute with nothing armed
          MaxMinutes    \* bound: minutes watched after the first tick

Warmup == 15
GapTolerance == 1       \* 1.5 steps: one whole step, with times in steps

VARIABLES feed,    \* closed candles
          minute,  \* prices of the candle now forming, in order
          app,     \* the page
          replay   \* the backtest

vars == <<feed, minute, app, replay>>

-----------------------------------------------------------------------------
Built(time, path) ==
  [time |-> time, open |-> path[1], high |-> Max(Range(path)), low |-> Min(Range(path)), close |-> Last(path)]
Forming == Built(Last(feed).time + 1, minute)
MovesOf(s) == IF s.armed = Absent THEN 2 ELSE 4

-----------------------------------------------------------------------------
(* The page between two closes: touchedNow and the reading made of it.  A    *)
(* record that is null in the code is Absent.                                *)

Widened(range, candle, price) ==
  IF range # Absent /\ range.candle = candle
  THEN [range EXCEPT !.high = Max({@, price}), !.low = Min({@, price})]
  ELSE [candle |-> candle, high |-> price, low |-> price]

\* Variant: price past the level counts as a touch.
HitOneSided(armed, range) ==
  IF armed.direction = "CALL" THEN 1000 * range.low <= armed.level ELSE armed.level <= 1000 * range.high
Hit(armed, range) == ~Passes(range, armed.direction, armed.endPrice) /\ Touches(range, armed.level)

TouchedNow(page, price) ==
  LET armed == page.program.armed
      range == Widened(page.range, page.candle, price)
      held == page.touched
      same == held # Absent /\ armed # Absent /\ held.key = armed.key /\ held.candle = page.candle
  IN IF armed = Absent THEN [page EXCEPT !.range = Absent, !.touched = Absent]
     ELSE IF same /\ held.hit THEN [page EXCEPT !.range = range]
     ELSE [page EXCEPT !.range = range,
                       !.touched = [key |-> armed.key, candle |-> page.candle, hit |-> Hit(armed, range)]]

\* A price arrives: from the poll, the socket or the candle request.
Reads(page, price) ==
  LET show(p) == [p EXCEPT !.price = price,
                           !.shown = Progress(p.program, p.diagnostics, price, p.touched # Absent /\ p.touched.hit)]
  IN show(TouchedNow(page, price))

\* applyEvent's part in this, then rankWatched.
TickThrough(page, buffer, now) ==
  LET apply(end) ==
        Reads([page EXCEPT !.program = end.state, !.candle = Last(buffer).time, !.log = Append(@, end.event),
                           !.diagnostics = IF end.event.diagnostics = Absent THEN @ ELSE end.event.diagnostics],
              Last(buffer).close)
  IN apply(OnCandleClose(buffer, now, page.program))

-----------------------------------------------------------------------------
(* The replay. *)

\* The piece after the last hole, met before it is known how long it becomes.
ContiguousRun(c) ==
  SubSeq(c, Max({1} \union {i \in 2..Len(c) : c[i].time - c[i - 1].time > GapTolerance}), Len(c))

NoCycles == [WIN |-> 0, RECOVERED |-> 0, FINAL_LOSS |-> 0, TIE |-> 0, ABORTED |-> 0]
TallyCycle(t, how) == IF how = Absent THEN t ELSE [t EXCEPT ![IF how = "RECOVERED_TIE" THEN "TIE" ELSE how] = @ + 1]
NoSearch == [f \in DOMAIN Blank |-> 0]
Flags == {"armed", "retiredBroken", "retiredAged"}
AddDiagnostics(t, d) ==
  IF d = Absent THEN t
  ELSE [f \in DOMAIN t |-> t[f] + (IF f \notin Flags THEN d[f] ELSE IF d[f] THEN 1 ELSE 0)]
NoTrades == [stage \in {"primary", "martingale"} |-> [result \in {"WIN", "LOSS", "TIE"} |-> 0]]
TallyTrade(t, settled) == IF settled = Absent THEN t ELSE [t EXCEPT ![settled.stage][settled.result] = @ + 1]

StartReplay == [state |-> Fresh, log |-> << >>, cycles |-> NoCycles, search |-> NoSearch, trades |-> NoTrades]
\* The candle that just closed is the last one of the window.
Replays(r, window) ==
  LET count(end) ==
        [state |-> end.state, log |-> Append(r.log, end.event), cycles |-> TallyCycle(r.cycles, end.event.cycleEnd),
         search |-> AddDiagnostics(r.search, end.event.diagnostics), trades |-> TallyTrade(r.trades, end.event.settled)]
  IN count(OnCandleClose(window, Last(window).time + 1, r.state))

-----------------------------------------------------------------------------
(* Behaviour.  Both begin on the candle that fills the warm-up.              *)

Page == [program |-> Fresh, diagnostics |-> Absent, candle |-> -1, range |-> Absent, touched |-> Absent,
         price |-> Absent, shown |-> 0, log |-> << >>, sawAll |-> TRUE]

Init ==
  /\ feed \in Pasts
  /\ app = TickThrough(Page, feed, Last(feed).time + 1)
  /\ replay = Replays(StartReplay, ContiguousRun(feed))
  /\ minute = << >>

\* The price moves, or a minute begins where the last one ended; the page may
\* or may not have asked.
PriceMoves(price) ==
  /\ Len(app.log) <= MaxMinutes
  /\ Len(minute) < MovesOf(app.program)
  /\ minute = << >> => price = Last(feed).close
  /\ minute' = Append(minute, price)
  /\ \/ app' = Reads(app, price)
     \/ app' = [app EXCEPT !.sawAll = FALSE]
  /\ UNCHANGED <<feed, replay>>

\* The minute is over and the watch ticks.  The answer ends with the candle
\* that has just begun, if its first price is in.
MinuteEnds(first) ==
  /\ Len(minute) = MovesOf(app.program)
  /\ minute' = first
  /\ \E b \in {Forming} : \E closed \in {Append(feed, b)} : \E run \in {ContiguousRun(closed)} :
     \E buffer \in {IF first = << >> THEN closed ELSE Append(closed, Built(b.time + 1, first))} :
       /\ feed' = closed
       /\ app' = TickThrough([app EXCEPT !.sawAll = TRUE], buffer, b.time + 1)
       /\ replay' = Replays(replay, run)

Next ==
  \/ \E p \in IF app.program.armed = Absent THEN QuietSteps ELSE Steps[app.program.armed.direction] : PriceMoves(p)
  \/ MinuteEnds(<< >>)
  \/ \E p \in QuietSteps : MinuteEnds(<<p>>)
Spec == Init /\ [][Next]_vars

-----------------------------------------------------------------------------
(* "98 and above would fire if the minute ended now" (fib236.ts:744), read at *)
(* a minute's last price.  Two exceptions, both of touchedNow: a break of the *)
(* leg between two prices it saw, and one after the touch, which it no longer *)
(* looks for (useSignalEngine.ts:765).  The other way round a trade that     *)
(* comes is shown, if every price was seen.                                  *)
AboutToEnd == minute # << >> /\ Len(minute) = MovesOf(app.program)
Fires == LET event == OnCandleClose(Append(feed, Forming), Forming.time + 1, app.program).event
         IN event.signal # Absent /\ event.signal.stage = "primary"
BrokeUnnoticed ==
  LET armed == app.program.armed
  IN Passes(Forming, armed.direction, armed.endPrice)
     /\ (app.sawAll => \E i \in DOMAIN minute :
           /\ Passes(Built(0, SubSeq(minute, 1, i)), armed.direction, armed.endPrice)
           /\ \E j \in 1..(i - 1) : Hit(armed, Built(0, SubSeq(minute, 1, j))))
ReadyMeansItFires ==
  AboutToEnd /\ app.program.armed # Absent /\ app.price = Last(minute) =>
    /\ app.shown = Ready => Fires \/ BrokeUnnoticed
    /\ Fires /\ app.sawAll => app.shown = Ready

(* The replay opens, settles and counts exactly the trades the page did: a   *)
(* candle that has not closed, or one before a hole, changes nothing.        *)
(* ("Same inputs, same event, every time", types.ts:31-35.)                  *)
CountOf(log) ==
  [cycles |-> FoldLeft(TallyCycle, NoCycles, [i \in DOMAIN log |-> log[i].cycleEnd]),
   trades |-> FoldLeft(TallyTrade, NoTrades, [i \in DOMAIN log |-> log[i].settled])]
ReplayIsLive ==
  /\ replay.log = app.log
  /\ replay.cycles = CountOf(app.log).cycles /\ replay.trades = CountOf(app.log).trades
=============================================================================
