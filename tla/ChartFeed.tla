------------------------------ MODULE ChartFeed ------------------------------
(* The chart's own feed (web/public/chart.js, driven by components/PriceChart): *)
(* the socket with its reconnects, the candle loads and the status poll of one  *)
(* chart, through pair switches, moved addresses and a hidden tab. Of a candle  *)
(* only the pair it belongs to is kept, of a price the pair it is about.        *)
EXTENDS Naturals, FiniteSets

CONSTANTS
  Symbols,
  NoSocket,
  MaxSockets,  \* bound of the runs: sockets there are at one time
  MaxTimers,   \* bound of the runs: reconnects booked at one time
  MaxLoads,    \* bound of the runs: candle requests under way
  MaxEvents    \* bound of the runs: switches of pair or address

\* No socket is none of them.
ChartAssumption == NoSocket \notin 1 .. MaxSockets

VARIABLES
  hub, \* [open: pairs whose market is open, viaHub: a price hub is configured, events]
  net, \* [sockets: id |-> [state, viaHub, paused, sub], loads: requests as [symbol, delta]]
  app  \* the chart, see Init

vars == <<hub, net, app>>

\* timer: the reconnect that _wsTimer holds; strays: those booked before it and
\* overwritten. closedFirst: the first candles of this pair met a closed market.
\* crossed: candles asked for one pair were taken for another's.
Init ==
  /\ \E open \in SUBSET Symbols, s \in Symbols :
       /\ hub = [open |-> open, viaHub |-> FALSE, events |-> 0]
       /\ net = [sockets |-> [i \in {} |-> 0], loads |-> {[symbol |-> s, delta |-> FALSE]}]
       /\ app = [symbol |-> s, loaded |-> FALSE, candles |-> {}, poClosed |-> FALSE, hidden |-> FALSE,
                 listening |-> FALSE, wanted |-> FALSE, ws |-> NoSocket, timer |-> FALSE, strays |-> 0,
                 destroyed |-> FALSE, closedFirst |-> FALSE, crossed |-> FALSE]

Ids == 1..MaxSockets
Free(n) == Ids \ DOMAIN n.sockets
With(sockets, i, v) == [j \in DOMAIN sockets \union {i} |-> IF j = i THEN v ELSE sockets[j]]
Without(sockets, i) == [j \in DOMAIN sockets \ {i} |-> sockets[j]]
Bounded == hub.events < MaxEvents /\ ~app.destroyed

-------------------------------------------------------------------------------
(* The socket. Closing one is asked for now and reported by its onclose later.  *)

CloseCurrent(n) ==
  IF app.ws = NoSocket THEN n ELSE [n EXCEPT !.sockets[app.ws].state = "closing"]

\* connect(): at the address of the moment; it replaces _ws whatever that held
Connect(n, a, viaHub) ==
  IF a.destroyed \/ ~a.wanted
  THEN net' = n /\ app' = a
  ELSE LET i == CHOOSE j \in Free(n) : \A k \in Free(n) : j <= k
       IN  /\ Free(n) # {}
           /\ net' = [n EXCEPT !.sockets = With(@, i, [state |-> "opening", viaHub |-> viaHub,
                                                       paused |-> FALSE, sub |-> {}])]
           /\ app' = [a EXCEPT !.ws = i]

Opened(i) == \* the proxy is asked for this pair, the hub sends every pair
  /\ net.sockets[i].state = "opening"
  /\ net' = [net EXCEPT !.sockets[i] = [@ EXCEPT !.state = "open",
               !.sub = IF net.sockets[i].viaHub THEN Symbols ELSE {app.symbol}]]
  /\ UNCHANGED <<hub, app>>

\* A reconnect is booked for every close of a chart that wants its socket. The
\* handler does not ask which socket it was, nor whether one is booked already.
BookedUnlessHidden(a) == IF a.hidden THEN a ELSE [a EXCEPT !.timer = TRUE, !.strays = IF a.timer THEN @ + 1 ELSE @]
Booked(a) == [a EXCEPT !.timer = TRUE, !.strays = IF a.timer THEN @ + 1 ELSE @]

OnClose(i) == \* a drop, or the report of a close asked for
  /\ app.timer => app.strays < MaxTimers
  /\ net' = [net EXCEPT !.sockets = Without(@, i)]
  /\ app' = LET a == [app EXCEPT !.ws = NoSocket]
            IN  IF a.destroyed \/ ~a.wanted THEN a ELSE Booked(a)
  /\ UNCHANGED hub

TimerFires ==
  /\ \/ app.timer /\ Connect(net, [app EXCEPT !.timer = FALSE], hub.viaHub)
     \/ app.strays > 0 /\ Connect(net, [app EXCEPT !.strays = @ - 1], hub.viaHub)
  /\ UNCHANGED hub

\* _startPriceTick, on the first candles of a pair
StartPriceTick(n, a) ==
  Connect(CloseCurrent(n), [a EXCEPT !.ws = NoSocket, !.timer = FALSE, !.wanted = TRUE, !.listening = TRUE],
          hub.viaHub)

\* A live price of any pair. The name in the frame decides whether it is ours.
AnyPrice(s) == TRUE
OurPrice(s) == s = app.symbol

Tick(i, s) ==
  /\ net.sockets[i].state = "open" /\ ~net.sockets[i].paused /\ s \in net.sockets[i].sub
  /\ ~app.destroyed /\ OurPrice(s)
  /\ app' = [app EXCEPT !.candles = @ \union {s}]
  /\ UNCHANGED <<hub, net>>

-------------------------------------------------------------------------------
(* Candles and status.                                                           *)

\* A delta is asked for when candles are held. (load in _fetchOtcCandles)
Asked(n, a) == [n EXCEPT !.loads = @ \union {[symbol |-> a.symbol, delta |-> a.loaded /\ a.candles # {}]}]

Load == \* every fifteen seconds
  /\ ~app.destroyed /\ Cardinality(net.loads) < MaxLoads
  /\ net' = Asked(net, app)
  /\ UNCHANGED <<hub, app>>

\* The first answer is adopted whole and opens the socket, unless the market is
\* closed; a later one replaces or extends. Nothing says which pair it is about.
Loaded(q, full) ==
  LET left == [net EXCEPT !.loads = @ \ {q}]
      merges == q.delta /\ ~full /\ app.loaded /\ app.candles # {}
      a == [app EXCEPT !.candles = {q.symbol} \union IF merges THEN @ ELSE {}, !.loaded = TRUE,
                       !.crossed = q.symbol # app.symbol \/ (merges /\ @),
                       !.closedFirst = IF app.loaded THEN @ ELSE app.poClosed]
  IN  /\ IF app.destroyed THEN net' = left /\ app' = app
         ELSE IF app.loaded \/ app.poClosed THEN net' = left /\ app' = a
         ELSE StartPriceTick(left, a)
      /\ UNCHANGED hub

LoadFails(q) ==
  /\ net' = [net EXCEPT !.loads = @ \ {q}]
  /\ UNCHANGED <<hub, app>>

\* _onOtcData: a closed market takes the canvas, an open one feeds its price.
StatusPolled ==
  /\ ~app.destroyed
  /\ app' = IF app.symbol \in hub.open
            THEN [app EXCEPT !.poClosed = FALSE, !.candles = @ \union {app.symbol}]
            ELSE [app EXCEPT !.poClosed = TRUE]
  /\ UNCHANGED <<hub, net>>

\* _visHandler, there since the first socket: only the current socket is told,
\* and coming back loads the history at once.
See(hidden) ==
  /\ app.hidden # hidden
  /\ LET told == /\ app.listening /\ ~app.destroyed /\ app.ws # NoSocket
                 /\ net.sockets[app.ws].state = "open"
         n == IF told THEN [net EXCEPT !.sockets[app.ws].paused = hidden] ELSE net
     IN  net' = IF told /\ ~hidden /\ Cardinality(net.loads) < MaxLoads THEN Asked(n, app) ELSE n
  /\ app' = [app EXCEPT !.hidden = hidden]
  /\ UNCHANGED hub

-------------------------------------------------------------------------------
(* What the page asks of the chart.                                              *)

Event(viaHub) == hub' = [hub EXCEPT !.events = @ + 1, !.viaHub = viaHub]
Reset(a) == [a EXCEPT !.ws = NoSocket, !.timer = FALSE, !.loaded = FALSE, !.closedFirst = FALSE]

\* update(): another pair. What the socket was wanted for, and whether the market
\* was closed, are not reset.
Update(s) ==
  /\ Bounded /\ s # app.symbol /\ Cardinality(net.loads) < MaxLoads
  /\ LET a == [Reset(app) EXCEPT !.symbol = s, !.candles = {}, !.crossed = FALSE]
     IN  app' = a /\ net' = Asked(CloseCurrent(net), a)
  /\ Event(hub.viaHub)

SetProxy ==
  /\ Bounded /\ Cardinality(net.loads) < MaxLoads
  /\ app' = Reset(app)
  /\ net' = Asked(CloseCurrent(net), Reset(app))
  /\ Event(hub.viaHub)

SetHubUrl ==
  /\ Bounded
  /\ Connect(CloseCurrent(net), [app EXCEPT !.ws = NoSocket, !.wanted = TRUE], ~hub.viaHub)
  /\ Event(~hub.viaHub)

Destroy ==
  /\ Bounded
  /\ app' = [app EXCEPT !.destroyed = TRUE, !.wanted = FALSE, !.ws = NoSocket, !.timer = FALSE]
  /\ net' = CloseCurrent(net)
  /\ Event(hub.viaHub)

MarketTurns(s) ==
  /\ Bounded
  /\ hub' = [hub EXCEPT !.events = @ + 1, !.open = IF s \in @ THEN @ \ {s} ELSE @ \union {s}]
  /\ UNCHANGED <<net, app>>

Next ==
  \/ \E i \in DOMAIN net.sockets : Opened(i) \/ OnClose(i) \/ \E s \in Symbols : Tick(i, s)
  \/ \E q \in net.loads : LoadFails(q) \/ \E full \in BOOLEAN : Loaded(q, full)
  \/ \E s \in Symbols : Update(s) \/ MarketTurns(s)
  \/ \E hidden \in BOOLEAN : See(hidden)
  \/ TimerFires \/ Load \/ StatusPolled \/ SetProxy \/ SetHubUrl \/ Destroy
Spec == Init /\ [][Next]_vars

-------------------------------------------------------------------------------
(* A chart on screen that has its candles is never left deaf: a socket brings it *)
(* this pair's prices, or one is opening, or the close that books the next one   *)
(* is still to be reported, or a reconnect is booked. The exception is a pair    *)
(* whose first candles met a closed market (chart.js:383-390, 611-619, 777-782). *)
ListensOrWillListen ==
  app.loaded /\ ~app.destroyed /\ ~app.hidden /\ ~app.closedFirst =>
    \/ app.timer \/ app.strays > 0
    \/ \E i \in DOMAIN net.sockets :
         LET w == net.sockets[i] IN \/ w.state # "open" \/ (~w.paused /\ app.symbol \in w.sub)

(* Nothing of another market is drawn into this pair's candles, whichever sockets *)
(* are still open and whatever they send. The exception is a candle load asked    *)
(* for before a switch and answered after it (chart.js:594-602, 745-775).         *)
OwnPairOnly == app.crossed \/ app.candles \subseteq {app.symbol}
===============================================================================
