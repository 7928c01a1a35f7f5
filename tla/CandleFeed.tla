------------------------------ MODULE CandleFeed ------------------------------
(* A pair's candle window in the browser (web/lib/candles.ts): two fetchers     *)
(* extend one held window by deltas, and the edge (worker/src/index.ts) answers *)
(* them with copies of its own age. A candle is its number, its contents the    *)
(* moment of the last price in them; the scraper's store is external.           *)
EXTENDS Integers, FiniteSets, Functions

CONSTANTS
  Period,      \* ticks in a candle
  MaxWindow,   \* candles a window keeps (100)
  TtlOf, StaleOf,  \* kind of request |-> ticks a copy is fresh, and served stale after that
  GiveUp,     \* kind of request |-> ticks after which the browser gives up
  KeptFor,     \* ticks the edge keeps a copy (max-age=120)
  None,        \* no candle held
  \* bounds of the runs
  LastTick, MaxFlights

CandleAssumption == Period \in Nat \ {0} /\ MaxWindow \in Nat \ {0}

VARIABLES
  hub, \* [now]
  net, \* requests under way: [kind, since, held, pure, born]
  app  \* [held: candle |-> contents, pure]

vars == <<hub, net, app>>
Kinds == {"chart", "bulk"}
NoCandles == [k \in {} |-> 0]
Newest(w) == IF w = NoCandles THEN None ELSE CHOOSE k \in DOMAIN w : \A j \in DOMAIN w : j <= k

\* The last n candles
Later(w, k) == Cardinality({j \in DOMAIN w : j > k})
Tail_(w, n) == [k \in {j \in DOMAIN w : Later(w, j) < n} |-> w[k]]

\* The origin's window at a moment: the forming candle and those before it.
Window(t) ==
  Tail_([k \in 0..(t \div Period) |-> IF k = t \div Period THEN t ELSE (k + 1) * Period - 1], MaxWindow)

\* Its answer to ?since, made at a moment: the whole window when it was not asked
\* for a part, or has rolled past the candle it was asked from.
Reply(since, t) ==
  LET w == Window(t)
      full == since = None \/ since \notin DOMAIN w
  IN  [full |-> full, candles |-> IF full THEN w ELSE [k \in {j \in DOMAIN w : j >= since} |-> w[k]]]

-------------------------------------------------------------------------------
(* The edge. Anybody may have asked the same question, and had the answer kept,  *)
(* at any moment since the candle in it exists.                                  *)

Asked(since) == {t \in 0..hub.now : since = None \/ since * Period <= t}
Fresh(kind, since) == \* a copy within its time, or one made now
  {t \in Asked(since) : hub.now - t < TtlOf[kind]} \union {hub.now}
ServedStale(kind, since) ==
  {t \in Asked(since) : StaleOf[kind] > 0 /\ hub.now - t < TtlOf[kind] + StaleOf[kind]}
LastResort(since) == {t \in Asked(since) : hub.now - t < KeptFor} \* the origin is down

EdgeAnswers(kind, since) ==
  {Reply(since, t) : t \in Fresh(kind, since) \union ServedStale(kind, since) \union LastResort(since)}

-------------------------------------------------------------------------------
(* The browser.                                                                  *)

Init ==
  /\ hub = [now |-> 0]
  /\ net = {}
  /\ app = [held |-> NoCandles, pure |-> TRUE]

\* Both ask from the newest candle held; fetchCandles keeps what it saw.
Ask(kind) ==
  /\ Cardinality(net) < MaxFlights
  /\ net' = net \union {[kind |-> kind, since |-> Newest(app.held), held |-> app.held,
                         pure |-> app.pure, born |-> hub.now]}
  /\ UNCHANGED <<hub, app>>

\* The overlap candle is replaced, not kept.
MergeKeepsOurs(held, delta) == Tail_([k \in DOMAIN held \union DOMAIN delta |->
  IF k \in DOMAIN held THEN held[k] ELSE delta[k]], MaxWindow)
MergeWindow(held, delta) == Tail_([k \in DOMAIN held \union DOMAIN delta |->
  IF k \in DOMAIN delta THEN delta[k] ELSE held[k]], MaxWindow)

\* fetchCandles merges onto the window it asked from, fetchCandlesBulk onto the
\* one held now. `pure` notes whether that window is the one it asked from.
MergedOnto(q) == IF q.kind = "chart" THEN q.held ELSE app.held
MergedPurely(q) == IF q.kind = "chart" THEN q.pure ELSE app.pure /\ app.held = q.held

Receive(q) ==
  /\ net' = net \ {q}
  /\ \E reply \in EdgeAnswers(q.kind, q.since) :
       LET onto == MergedOnto(q)
           whole == reply.full \/ onto = NoCandles
       IN  app' = [held |-> IF whole THEN reply.candles ELSE MergeWindow(onto, reply.candles),
                   pure |-> whole \/ MergedPurely(q)]
  /\ UNCHANGED hub

\* An error, a timeout or a pair switched away and back: nothing is kept of it.
Fail(q) ==
  /\ net' = net \ {q}
  /\ UNCHANGED <<hub, app>>

Tick ==
  /\ hub.now < LastTick
  /\ \A q \in net : hub.now - q.born < GiveUp[q.kind]
  /\ hub' = [hub EXCEPT !.now = @ + 1]
  /\ UNCHANGED <<net, app>>

Next == Tick \/ (\E kind \in Kinds : Ask(kind)) \/ (\E q \in net : Receive(q) \/ Fail(q))
Spec == Init /\ [][Next]_vars

-------------------------------------------------------------------------------
(* The strategy reads a window the server had at some moment: no candle missing, *)
(* none from another moment, none the server has rolled off, however stale the   *)
(* copy and however late the answer. The exception is a bulk answer merged onto  *)
(* a window other than the one it was asked from (candles.ts:25-35, 82-93).      *)
WindowIsTheServers ==
  app.held = NoCandles \/ ~app.pure \/ \E t \in 0..hub.now : app.held = Window(t)
===============================================================================
