------------------------------- MODULE WatchLoop -------------------------------
(* The watch of an open page and the trades it leaves behind: the button         *)
(* (web/app/app/page.tsx, SignalPanel.tsx), the loop that judges every candle    *)
(* (useMonitoring.ts), the forced account's trades (tradeWindow.ts), and the two *)
(* polls that see every open trade to its end, on the chart's pair and on the    *)
(* others (useSignalEngine.ts).  What the strategy decides is in Fib236 and      *)
(* TradeCycle; here it may or may not open a trade.                              *)
EXTENDS Naturals, FiniteSets

CONSTANTS
  Pairs,
  Closable,   \* those whose market can close: the others trade round the clock
  Candle,     \* a candle, in ticks of CANDLE_POLL_MS
  Stranded,   \* STRANDED_AFTER_MS, in the same ticks
  LastTick,   \* bounds of a behaviour, this one and the next
  MaxSwitches, MaxPresses, MaxFailures,
  Nothing     \* no trade, no request

\* A candle lasts; Nothing is no trade and no set of pairs.
WatchAssumption ==
  /\ Candle \in Nat \ {0} /\ Stranded \in Nat
  /\ Nothing \notin [entry : Nat, unheard : BOOLEAN] /\ \A pairs \in SUBSET Pairs : pairs # Nothing

VARIABLES
  hub,   \* [now, candles: pair |-> those the feed has begun, shut: closed markets, mute: pairs without a feed]
  net,   \* [sync, sweep: pairs asked for, tick: pairs the evaluation asked for]
  app    \* the page

vars == <<hub, net, app>>

Now == hub.now \div Candle   \* the candle that is forming
Candles == 0..(LastTick \div Candle)
Trades(a) == {p \in Pairs : a.open[p] # Nothing}
Strays(a) == Trades(a) \ {a.chart}

\* timeframe and boundary: the end of the candle that is forming.
NextBoundary == (Now + 1) * Candle
\* nextCandleWindow(): a forced trade runs on the next candle.
NextCandle == Now + 1
Placed(entry) == [entry |-> entry, unheard |-> FALSE]
Expiry(trade) == (trade.entry + 1) * Candle

Watch(on) == [active |-> on, next |-> NextBoundary]

Init ==
  /\ hub = [now |-> 0, candles |-> [p \in Pairs |-> {0}], shut |-> {}, mute |-> {}]
  /\ net = [sync |-> Nothing, sweep |-> Nothing, tick |-> Nothing]
  /\ \E forced \in BOOLEAN, chart \in Pairs, list \in SUBSET Pairs :
       app = [forced |-> forced, chart |-> chart, watched |-> list, loaded |-> FALSE,
              open |-> [p \in Pairs |-> Nothing], placed |-> {}, watch |-> [active |-> FALSE, next |-> 0],
              pressed |-> FALSE, switches |-> 0, presses |-> 0, failures |-> 0]

-------------------------------------------------------------------------------
(* The end of a trade.                                                          *)

\* reconcileOpenTrade(): settled from its own candle once a later one exists,
\* and given up, unresolved, when that has not happened for long after its end.
Over(trade, candles) ==
  \/ trade.entry \in candles /\ \E c \in candles : c > trade.entry
  \/ hub.now >= Expiry(trade) + Stranded
Reconciled(a, seen) ==
  LET ended == {p \in DOMAIN seen : a.open[p] # Nothing /\ Over(a.open[p], seen[p])} IN
  [a EXCEPT !.open = [p \in Pairs |-> IF p \in ended THEN Nothing ELSE @[p]],
            !.placed = @ \ {<<p, a.open[p]>> : p \in ended}]
Seen(pairs) == [p \in pairs |-> hub.candles[p]]
Unseen(pairs) == [p \in pairs |-> {}]

\* The effects of the page: a change of the chart's pair calls off its request and
\* asks for the new one's; a change of the chart or of the set of open trades does
\* the same to the sweep.
Asks(a, n, again) ==
  [n EXCEPT !.sync = IF again \/ a.chart # app.chart THEN {a.chart} ELSE @,
            !.sweep = IF Strays(a) = {} THEN Nothing
                      ELSE IF again \/ a.chart # app.chart \/ Trades(a) # Trades(app) THEN Strays(a) ELSE @]
Becomes(a, n) == app' = a /\ net' = Asks(a, n, FALSE)

Fewer(a) == IF a.failures < MaxFailures THEN {[a EXCEPT !.failures = @ + 1]} ELSE {}

\* The chart's candles. A request that fails keeps the buffer, and judges nothing.
SyncAnswered ==
  /\ net.sync # Nothing
  /\ \E n \in {[net EXCEPT !.sync = Nothing]} :
       \/ \E a \in {Reconciled(app, Seen(net.sync))} : Becomes([a EXCEPT !.loaded = TRUE], n)
       \/ \E f \in Fewer(app) :
            Becomes([f EXCEPT !.open[f.chart] = IF @ = Nothing THEN @ ELSE [@ EXCEPT !.unheard = TRUE],
                              !.placed = {IF r[1] = f.chart /\ r[2] = f.open[f.chart]
                                          THEN <<r[1], [r[2] EXCEPT !.unheard = TRUE]>> ELSE r : r \in @}], n)
  /\ UNCHANGED hub

\* The sweep of the others: of a pair it had nothing for, the time is still up.
\* Mutant: a pair without candles is passed over.
Unswept(a, pairs) == a
Swept(a, pairs) == Reconciled(a, Unseen(pairs))
SweepAnswered ==
  /\ net.sweep # Nothing
  /\ \E n \in {[net EXCEPT !.sweep = Nothing]} :
       \/ \E a \in {Reconciled(app, Seen(net.sweep))} : Becomes(a, n)
       \/ \E f \in Fewer(app) : \E a \in {Swept(f, net.sweep)} : Becomes(a, n)
  /\ UNCHANGED hub

-------------------------------------------------------------------------------
(* The watch.                                                                   *)

\* Pairs chosen, and open for all the feed says.
WatchSymbols(a) == a.watched \ hub.shut

\* A trade placed on a pair; the card is what the page can still see of it.
Opened(a, p, entry) ==
  [a EXCEPT !.open[p] = Placed(entry), !.placed = @ \cup {<<p, Placed(entry)>>}]

\* forcedSignal() on the chart's pair, unless a trade runs on it.
Forced(a) == IF a.open[a.chart] = Nothing /\ a.loaded THEN Opened(a, a.chart, NextCandle) ELSE a

\* applyEvent() of the pairs an evaluation has read: what has ended is settled
\* first; a pair without a trade may get one, on the candle that is forming.
Applied(a, pairs) ==
  LET r == Reconciled(a, Seen(pairs)) IN
  {[r EXCEPT !.open = [p \in Pairs |-> IF p \in new THEN Placed(Now) ELSE @[p]],
             !.placed = @ \cup {<<p, Placed(Now)>> : p \in new}] :
     new \in SUBSET (pairs \ Trades(r))}
\* The chart follows one of the pairs that fired.
Followed(a, b) ==
  LET new == {p \in Pairs : b.open[p] # Nothing /\ b.open[p] # a.open[p]} \ {a.chart} IN
  IF new = {} THEN {b} ELSE {[b EXCEPT !.chart = p] : p \in new}

\* tickProgram() of every watched pair: in flight, or nothing to ask for.
TickAsked(n, a) == [n EXCEPT !.tick = IF WatchSymbols(a) = {} THEN Nothing ELSE WatchSymbols(a)]

\* The button is there while nothing is watched and no trade runs anywhere.
Ready == ~app.watch.active /\ ~app.pressed /\ Trades(app) = {} /\ app.watched # {}
         /\ WatchSymbols(app) # {} /\ app.loaded /\ app.chart \notin hub.shut
\* "A frozen price": it is read once, so one that is there is taken for still,
\* unless one of the pairs never closes.
TakenForClosed(pairs, priced) == pairs \subseteq Closable /\ priced

\* requestSignal(): refused as closed, or a trade for a forced account, on the
\* pair the chart showed before, or the program's first look.
RequestSignal(a, priced) ==
  \/ TakenForClosed(WatchSymbols(a), priced) /\ Becomes(a, net)
  \/ ~TakenForClosed(WatchSymbols(a), priced) /\ a.forced
     /\ Becomes([Opened(a, app.chart, NextCandle) EXCEPT !.watch = Watch(TRUE)], net)
  \/ ~TakenForClosed(WatchSymbols(a), priced) /\ ~a.forced
     /\ Becomes([a EXCEPT !.pressed = TRUE], TickAsked(net, a))

\* analyseAndSignal(): the chart goes to a chosen pair first. The watch starts
\* after the first look.
Press ==
  /\ Ready /\ app.presses < MaxPresses
  /\ \E chart \in IF app.chart \in WatchSymbols(app) THEN {app.chart} ELSE WatchSymbols(app), priced \in BOOLEAN :
       RequestSignal([app EXCEPT !.chart = chart, !.presses = @ + 1], priced)
  /\ UNCHANGED hub

\* The cancel button. An evaluation under way goes on.
Cancel ==
  /\ app.watch.active
  /\ app' = [app EXCEPT !.watch = [active |-> FALSE, next |-> 0]]
  /\ UNCHANGED <<hub, net>>

\* The loop at a boundary: one evaluation, then the boundary after it; a closed
\* market ends the watch instead.
Due == app.watch.active /\ hub.now >= app.watch.next /\ net.tick = Nothing
Judge ==
  /\ Due /\ app.chart \notin hub.shut
  /\ IF app.forced
     THEN Becomes([Forced(app) EXCEPT !.watch = Watch(TRUE)], net)
     ELSE IF WatchSymbols(app) = {} THEN app' = [app EXCEPT !.watch = Watch(TRUE)] /\ UNCHANGED net
     ELSE app' = app /\ net' = TickAsked(net, app)
  /\ UNCHANGED hub
Shut ==
  /\ app.watch.active /\ app.chart \in hub.shut
  /\ app' = [app EXCEPT !.watch = [active |-> FALSE, next |-> 0]]
  /\ UNCHANGED <<hub, net>>

\* The evaluation's answer: of all its pairs, of the chart's alone when the bulk
\* request failed, or of none. It schedules whatever watch there is by then.
Scheduled(a) == [a EXCEPT !.pressed = FALSE, !.watch = IF a.pressed \/ @.active THEN Watch(TRUE) ELSE @]
Judged ==
  /\ net.tick # Nothing
  /\ \E n \in {[net EXCEPT !.tick = Nothing]} :
       \/ \E b \in Applied(app, net.tick) : \E a \in Followed(app, b) : Becomes(Scheduled(a), n)
       \/ \E f \in Fewer(app) :
            \/ Becomes(Scheduled(f), n)
            \/ \E b \in Applied(f, {f.chart}) : Becomes(Scheduled(b), n)
  /\ UNCHANGED hub

-------------------------------------------------------------------------------
(* The user, the market and the clock.                                          *)

\* By hand, from the list, a card, a notification.
SwitchToPair(p) ==
  /\ p # app.chart /\ app.switches < MaxSwitches
  /\ Becomes([app EXCEPT !.chart = p, !.switches = @ + 1], net)
  /\ UNCHANGED hub
ChoosePairs(list) ==
  /\ list # app.watched /\ app.switches < MaxSwitches
  /\ app' = [app EXCEPT !.watched = list, !.switches = @ + 1]
  /\ UNCHANGED <<hub, net>>
MarketTurns(p) ==
  /\ app.switches < MaxSwitches
  /\ \/ hub' = [hub EXCEPT !.shut = IF p \in @ THEN @ \ {p} ELSE @ \cup {p}]
     \/ hub' = [hub EXCEPT !.mute = IF p \in @ THEN @ \ {p} ELSE @ \cup {p}]
  /\ app' = [app EXCEPT !.switches = @ + 1]
  /\ UNCHANGED net

\* A tick of the polls. Timers are on time, and what was asked at the tick before
\* has been answered or given up; an evaluation takes two ticks at most, of which
\* a candle has more. The feed begins the candle of the hour, unless it is mute.
Tick ==
  /\ hub.now < LastTick /\ net.sync = Nothing /\ net.sweep = Nothing
  /\ ~Due /\ ~(net.tick # Nothing /\ app.watch.active /\ hub.now > app.watch.next)
  /\ hub' = [hub EXCEPT !.now = @ + 1,
                        !.candles = [p \in Pairs |-> IF p \in hub.mute THEN @[p] ELSE @[p] \cup {(hub.now + 1) \div Candle}]]
  /\ net' = Asks(app, net, TRUE)
  /\ UNCHANGED app

Next ==
  \/ SyncAnswered \/ SweepAnswered \/ Press \/ Cancel \/ Judge \/ Shut \/ Judged \/ Tick
  \/ \E p \in Pairs : SwitchToPair(p) \/ MarketTurns(p)
  \/ \E list \in SUBSET Pairs : ChoosePairs(list)
Spec == Init /\ [][Next]_vars

-------------------------------------------------------------------------------
(* Whatever the user does to the watch, the chart and the list, every trade the  *)
(* page has placed keeps its card until it has a result, and has one within      *)
(* Stranded of its end, out of sight and without a feed included                 *)
(* (useSignalEngine.ts:1366-1388, 1402-1407).  The one exception is a trade on   *)
(* the chart's pair, whose failed requests are not even asked for the time.      *)
EveryTradeEnds ==
  \A r \in app.placed :
    /\ app.open[r[1]] = r[2]
    /\ hub.now <= Expiry(r[2]) + Stranded \/ r[2].unheard
===============================================================================
