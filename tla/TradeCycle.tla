------------------------------ MODULE TradeCycle ------------------------------
(***************************************************************************)
(* One pair's trades: the strategy program and the hook that runs it       *)
(* (packages/engine/src/programs/fib236.ts; apps/web/lib/useSignalEngine.ts*)
(* programState.ts, signalHistoryStore.ts).                                *)
(*                                                                         *)
(* A session is one mounted engine, so a reload is a new session.  The     *)
(* session that holds the watch lease fetches candles and gives them to    *)
(* the program, which adopts a swing, waits for the touch, opens a trade   *)
(* on the next candle and, after a loss, a martingale on the one after.    *)
(* The program's state is kept in memory and stored while a cycle is open; *)
(* the history is kept in memory and cached; the card shows an open trade. *)
(*                                                                         *)
(* Candles are numbered, and a number is also the moment its candle        *)
(* begins.  Prices are abstracted to how a candle meets each swing's level *)
(* and where it closes relative to its open.  A fetch and the script that  *)
(* reads its answer are one step: an older answer is a feed that is late,  *)
(* a failed one changes nothing, and one that outlives the lease belongs   *)
(* to WatchLease.                                                          *)
(***************************************************************************)
EXTENDS Integers, Sequences, FiniteSets, FiniteSetsExt

CONSTANTS Sessions,    \* mounted engines, a new one for every reload
          NoSession,   \* nobody holds the lease
          Swings,      \* legs of alternating pivots: [origin, end, direction]
          Candles,     \* what a finished candle can be: [meets, closes]
          Room,        \* candles a leg and its retracement need (11)
          Window,      \* candles the proxy serves (100)
          MaxCandle,   \* bound: the last candle that begins
          Charts,      \* bound: whether a chart may show this pair, another, or either
          MaxRegains   \* bound: times a session that ran the program takes the lease again

Meetings == {"misses", "refused", "fires", "breaks"}
Closings == {"up", "down", "flat"}

\* What the constants may be; the module that instantiates this one assumes it.
CycleAssumption ==
  /\ NoSession \notin Sessions
  /\ \A sw \in Swings : /\ sw.origin \in Int /\ sw.end \in Int
                        /\ sw.origin < sw.end /\ sw.end < 0
                        /\ sw.direction \in {"CALL", "PUT"}
  /\ \A sw, tw \in Swings : sw.end = tw.end => sw = tw
  /\ Candles \subseteq [meets : [Swings -> Meetings], closes : Closings]
  /\ Room \in Nat /\ Window \in Nat \ {0}
  /\ MaxCandle \in Nat \ {0} /\ MaxRegains \in Nat /\ Charts \subseteq BOOLEAN

VARIABLES
  now,       \* the candle that is forming by the clock
  feed,      \* the proxy's candles; the last one is still forming
  owner,     \* the session that holds the lease
  life,      \* of a session: "new", "open" or "gone"
  program,   \* its memory: programStatesRef
  rows,      \* its memory: historyRef
  card,      \* its openTrades[symbol]
  stored,    \* localStorage: programState.ts
  cache,     \* localStorage: signalHistoryStore.ts
  regains,
  opened     \* observer: every trade ever opened, with its swing

market == <<now, feed>>
storage == <<stored, cache>>
lease == <<owner, regains>>
memory == <<program, rows, card>>
vars == <<now, feed, owner, life, program, rows, card, stored, cache,
          regains, opened>>

-------------------------------------------------------------------------------
(* Values *)

NoSwing == [origin |-> 0, end |-> 0, direction |-> "none"]
NoTrade == [entry |-> 0, direction |-> "none", stage |-> "none"]
Gap == [meets |-> [sw \in Swings |-> "misses"], closes |-> "gap"]

\* A ProgramState; `last` is the newest candle read.
Fresh == [cycle |-> NoTrade, armed |-> NoSwing, fired |-> {}, last |-> -1]
Unloaded == [Fresh EXCEPT !.last = -2]

Trades == [entry : 1 .. MaxCandle, direction : {"CALL", "PUT"},
           stage : {"primary", "martingale"}]

Statuses == {"ACTIVE", "PENDING", "WIN", "LOSS", "TIE", "UNRESOLVED"}
Settled(row) == row.status \notin {"ACTIVE", "PENDING"}

\* A row of the history: a trade, its status, and whether it names its symbol.
Row(trade) == [trade |-> trade, status |-> "ACTIVE", symbol |-> TRUE]
NoCard == [trade |-> NoTrade, status |-> "none", symbol |-> FALSE]
Rows == [trade : Trades, status : Statuses, symbol : BOOLEAN]

\* identityOf
SameTrade(row, other) == /\ row.trade.entry = other.trade.entry
                         /\ row.trade.direction = other.trade.direction

\* outcomeFor
Outcome(direction, candle) ==
  CASE candle.closes = "flat" -> "TIE"
    [] candle.closes = "up"   -> IF direction = "CALL" THEN "WIN" ELSE "LOSS"
    [] candle.closes = "down" -> IF direction = "CALL" THEN "LOSS" ELSE "WIN"

\* The trade's minute is not over; its minute and STRANDED_AFTER_MS are over.
Running(trade) == trade.entry >= now
Stranded(trade) == trade.entry + 2 <= now

-------------------------------------------------------------------------------
(* The candles of an answer: the feed up to candle k, which was still forming  *)
(* and stood at `reading`.  Nothing happened on the candles before 1.          *)

\* A candle still forming may close anywhere yet, but cannot untouch a level.
Readings(k) ==
  IF k = 0 THEN {Gap}
  ELSE {c \in Candles : \A sw \in Swings :
          /\ c.meets[sw] = "breaks" => feed[k].meets[sw] = "breaks"
          /\ c.meets[sw] \in {"refused", "fires"} => feed[k].meets[sw] # "misses"}

View(k, reading) == [i \in 1 .. k |-> IF i = k THEN reading ELSE feed[i]]

Held(view) == {i \in DOMAIN view : view[i] # Gap}

\* By the clock: an answer's last candle counts as closed once its minute is over.
LastClosed(view) == Max({0} \cup {i \in Held(view) : i < now})

\* contiguousTail, within the window the proxy serves.
ContiguousTail(view, n) ==
  Max({n - Window + 1} \cup {i + 1 : i \in {j \in 1 .. n : j \notin Held(view)}})

Breaks(sw, view, n) == \E i \in 1 .. n : view[i].meets[sw] = "breaks"
Touches(sw, candle) == candle.meets[sw] \in {"refused", "fires"}

\* findSetup: the newest leg that passes every check.
Candidates(view, n, fired) ==
  {sw \in Swings : /\ sw.origin >= ContiguousTail(view, n) + 2 /\ sw.end <= n - 2
                   /\ ~Breaks(sw, view, n)
                   /\ sw \notin fired}

FindSetup(candidates) ==
  IF candidates = {} THEN NoSwing
  ELSE CHOOSE sw \in candidates : \A other \in candidates : other.end <= sw.end

\* stillValid
StillValid(sw, view, n) == sw.end >= ContiguousTail(view, n) /\ ~Breaks(sw, view, n)

-------------------------------------------------------------------------------
(* onCandleClose: from a state and candle n, the event and the state after it. *)

Nothing(p) == [state |-> p, settled |-> "none", signal |-> NoTrade, ends |-> FALSE]

\* Variant: a losing martingale is followed by another.
OwesMartingaleAgain(cycle) == TRUE

\* After a loss: a primary is followed by a martingale, a martingale by nothing.
OwesMartingale(cycle) == cycle.stage = "primary"

\* An open cycle owns the engine.
CycleEvent(p, candle, n) ==
  LET cycle == p.cycle
      result == Outcome(cycle.direction, candle)
      again == [entry |-> n + 1, direction |-> cycle.direction, stage |-> "martingale"]
      over == [Nothing([p EXCEPT !.cycle = NoTrade]) EXCEPT !.ends = TRUE]
  IN  CASE n < cycle.entry -> Nothing(p)
        [] n > cycle.entry -> over
        [] n = cycle.entry /\ result = "LOSS" /\ OwesMartingale(cycle) ->
             [Nothing([p EXCEPT !.cycle = again]) EXCEPT !.settled = result, !.signal = again]
        [] OTHER -> [over EXCEPT !.settled = result]

\* Watching: retire a dead setup, else adopt one, else fire on a touch that holds.
WatchEvent(p, view, n) ==
  LET armed == IF p.armed # NoSwing /\ StillValid(p.armed, view, n) THEN p.armed ELSE NoSwing
      trade == [entry |-> n + 1, direction |-> armed.direction, stage |-> "primary"]
      spent == [p EXCEPT !.armed = NoSwing, !.fired = @ \cup {armed}]
  IN  CASE n - ContiguousTail(view, n) < Room -> Nothing(p)
        [] n - ContiguousTail(view, n) >= Room /\ armed = NoSwing ->
             Nothing([p EXCEPT !.armed = FindSetup(Candidates(view, n, p.fired))])
        [] OTHER ->
             IF ~Touches(armed, view[n]) THEN Nothing(p)
             ELSE IF view[n].meets[armed] = "refused" THEN Nothing(spent)
             ELSE [Nothing([spent EXCEPT !.cycle = trade]) EXCEPT !.signal = trade]

OnCandleClose(state, view) ==
  LET n == LastClosed(view)
      p == [state EXCEPT !.last = n]
  IN  CASE n <= state.last -> Nothing(state)
        [] n > state.last /\ p.cycle # NoTrade -> CycleEvent(p, view[n], n)
        [] OTHER -> WatchEvent(p, view, n)

-------------------------------------------------------------------------------
(* The hook's history and card *)

\* mergeHistories([row], history)
Commit(row, history) ==
  IF ~Settled(row) /\ \E old \in history : SameTrade(old, row) /\ Settled(old)
  THEN history
  ELSE {old \in history : ~SameTrade(old, row)} \cup {row}

\* reconcileOpenTrade: the card's verdict from these candles, or "none".
Reconcile(open, view) ==
  LET entry == open.trade.entry
      finished == entry \in Held(view) /\ \E i \in Held(view) : i > entry
  IN  CASE open = NoCard -> "none"
        [] open # NoCard /\ finished -> Outcome(open.trade.direction, view[entry])
        [] OTHER -> IF Stranded(open.trade) THEN "UNRESOLVED" ELSE "none"

\* What a program's verdict is written to: the card, or the newest open row.
Target(s) ==
  IF card[s] # NoCard THEN card[s]
  ELSE LET active == {row \in rows[s] : row.status = "ACTIVE"}
       IN  IF active = {} THEN NoCard
           ELSE CHOOSE row \in active :
                  \A other \in active : other.trade.entry <= row.trade.entry

\* settleTo
SettleTo(target, verdict, history) ==
  IF target = NoCard \/ verdict = "none" THEN history
  ELSE Commit([target EXCEPT !.status = verdict], history)

\* Variants: stored while a cycle is open, or when it ends, but not both.
WorthAtTheEnd(event) == event.ends

\* Only a cycle is worth storing, and that it is over.
WorthStoring(event) == event.state.cycle # NoTrade \/ event.ends

\* Variant: the list as last rendered, without the write of this tick.
HistoryRendered(s, written) == rows[s]

\* historyRef: the list that the next write of the same tick is made on.
HistoryRef(s, written) == written

\* Both settlements of applyEvent read the card as last rendered; the history
\* is written through, so the second is made on top of the first.
ApplyEvent(s, view) ==
  LET state == IF program[s] = Unloaded THEN stored ELSE program[s]
      event == OnCandleClose(state, view)
      verdict == Reconcile(card[s], view)
      closed == SettleTo(card[s], verdict, SettleTo(Target(s), event.settled, rows[s]))
      trade == Row(event.signal)
      signals == event.signal # NoTrade
      settles == \/ Target(s) # NoCard /\ event.settled # "none"
                 \/ verdict # "none"
      history == IF signals THEN Commit(trade, HistoryRef(s, closed)) ELSE closed
  IN  /\ program' = [program EXCEPT ![s] = event.state]
      /\ stored' = IF WorthStoring(event) THEN event.state ELSE stored
      /\ rows' = [rows EXCEPT ![s] = history]
      /\ cache' = IF settles \/ signals THEN history ELSE cache
      /\ card' = [card EXCEPT ![s] = IF signals THEN trade ELSE IF settles THEN NoCard ELSE @]
      /\ opened' = IF signals THEN opened \cup {[trade |-> event.signal, swing |-> state.armed]}
                   ELSE opened

\* reviveSignal: an unresolved row is not read back, and no row's symbol is.
Revive(history) ==
  {[row EXCEPT !.symbol = FALSE] : row \in {r \in history : r.status # "UNRESOLVED"}}

\* resolveOpenTrades, on a chart that shows this pair or another one.
ResolveOpenTrades(history, here, active) ==
  {IF row.status = "ACTIVE" /\ ~(here /\ (SameTrade(row, active) \/ Running(row.trade)))
   THEN [row EXCEPT !.status = "PENDING"] ELSE row : row \in history}

\* The resume effect: a running trade that names its symbol gets its card back.
Resumed(history, open) ==
  LET resumable == {row \in history : row.status = "ACTIVE" /\ Running(row.trade) /\ row.symbol}
  IN  IF open # NoCard \/ resumable = {} THEN open ELSE CHOOSE row \in resumable : TRUE

-------------------------------------------------------------------------------
(* The market and the lease *)

\* The clock.
NextCandle ==
  /\ now < MaxCandle
  /\ now' = now + 1
  /\ UNCHANGED <<feed, life, opened>> /\ UNCHANGED <<lease, memory, storage>>

\* The feed begins candle i, perhaps late, perhaps after missing some.
FeedBegins(i) ==
  /\ Len(feed) < i
  /\ \E candle \in Candles :
       feed' = [j \in 1 .. i |-> IF j <= Len(feed) THEN feed[j]
                                 ELSE IF j < i THEN Gap ELSE candle]
  /\ UNCHANGED <<now, life, opened>> /\ UNCHANGED <<lease, memory, storage>>

\* A live page takes the lease, free or from a live owner whose timers were late.
TakeLease(s) ==
  /\ owner # s /\ life[s] = "open"
  /\ program[s] # Unloaded => regains < MaxRegains
  /\ regains' = IF program[s] # Unloaded THEN regains + 1 ELSE regains
  /\ owner' = s
  /\ UNCHANGED <<life, opened>> /\ UNCHANGED <<market, memory, storage>>

-------------------------------------------------------------------------------
(* The sessions *)

\* The history effect: mount, and every change of the chart's pair.
Restore(s, here) ==
  LET history == ResolveOpenTrades(Revive(cache), here, card[s])
  IN  /\ rows' = IF Revive(cache) = {} THEN rows ELSE [rows EXCEPT ![s] = history]
      /\ cache' = IF Revive(cache) = {} THEN cache ELSE history
      /\ card' = [card EXCEPT ![s] = Resumed(rows'[s], @)]
      /\ UNCHANGED <<stored, program, opened>> /\ UNCHANGED <<market, lease>>

Mount(s) ==
  /\ life[s] = "new"
  /\ life' = [life EXCEPT ![s] = "open"]
  /\ \E here \in Charts : Restore(s, here)

SwitchPair(s) ==
  /\ life[s] = "open"
  /\ \E here \in Charts : Restore(s, here)
  /\ UNCHANGED life

\* Reload, close or crash: memory is lost.
Unmount(s) ==
  /\ life[s] = "open"
  /\ life' = [life EXCEPT ![s] = "gone"]
  /\ owner' = IF owner = s THEN NoSession ELSE owner
  /\ program' = [program EXCEPT ![s] = Unloaded]
  /\ rows' = [rows EXCEPT ![s] = {}]
  /\ card' = [card EXCEPT ![s] = NoCard]
  /\ UNCHANGED <<regains, opened>> /\ UNCHANGED <<market, storage>>

\* tickProgram and its answer.
Tick(s) ==
  /\ life[s] = "open" /\ owner = s
  /\ \E reading \in Readings(Len(feed)) : ApplyEvent(s, View(Len(feed), reading))
  /\ UNCHANGED life /\ UNCHANGED <<market, lease>>

\* The 15-second poll of the chart, or of the other pairs with a card, which takes
\* a failed request for an empty answer.
Poll(s) ==
  /\ life[s] = "open" /\ card[s] # NoCard
  /\ \E view \in {View(Len(feed), reading) : reading \in Readings(Len(feed))} \cup {<<>>} :
       LET verdict == Reconcile(card[s], view)
           history == SettleTo(card[s], verdict, rows[s])
       IN  /\ verdict # "none"
           /\ rows' = [rows EXCEPT ![s] = history]
           /\ cache' = history
           /\ card' = [card EXCEPT ![s] = NoCard]
  /\ UNCHANGED <<life, program, stored, opened>> /\ UNCHANGED <<market, lease>>

-------------------------------------------------------------------------------
Init ==
  /\ now = 1 /\ feed = <<>>
  /\ owner = NoSession /\ regains = 0
  /\ life = [s \in Sessions |-> "new"]
  /\ program = [s \in Sessions |-> Unloaded]
  /\ rows = [s \in Sessions |-> {}]
  /\ card = [s \in Sessions |-> NoCard]
  /\ stored = Fresh /\ cache = {}
  /\ opened = {}

SessionNext(s) ==
  \/ TakeLease(s) \/ Mount(s) \/ SwitchPair(s) \/ Unmount(s)
  \/ Tick(s) \/ Poll(s)

Next ==
  \/ NextCandle
  \/ \E i \in {now - 1, now} \ {0} : FeedBegins(i)
  \/ \E s \in Sessions : SessionNext(s)

Spec == Init /\ [][Next]_vars

-------------------------------------------------------------------------------
(* Properties *)

\* A swing is traded at most once, also across reloads and changes of the owner:
\* its key is remembered before the trade and stored with the cycle (fib236.ts, A4).
OneTradePerSwing ==
  \A o, q \in opened : o.swing # NoSwing /\ o.swing = q.swing => o = q

\* Never two trades on one candle, by whichever session, and a martingale only on
\* the candle after its primary and in the same direction ("No overlapping
\* signals", fib236.ts:434-436).
OneTradeAtATime ==
  /\ \A o, q \in opened : o.trade.entry = q.trade.entry => o = q
  /\ \A o \in opened : o.trade.stage = "martingale" =>
       [o.trade EXCEPT !.stage = "primary", !.entry = @ - 1] \in {q.trade : q \in opened}

\* Nothing open is known to a part of the page alone.  Whoever takes over finds the
\* owner's cycle in localStorage, and finds none when it has ended
\* (useSignalEngine.ts:650-654, 1029-1032); an open trade in a session's list has its
\* card, so something will look at it again (the list has one owner, 455-473).
StoresAgree ==
  /\ owner # NoSession /\ program[owner] # Unloaded => stored.cycle = program[owner].cycle
  /\ \A s \in Sessions : \A row \in rows[s] :
       row.status = "ACTIVE" /\ row.symbol => card[s] = row

\* useSignalEngine.ts:938: "A candle is finished when a LATER one exists."  A
\* recorded verdict is the verdict of the finished candle.
VerdictIsTheCandles ==
  \A s \in Sessions : \A row \in rows[s] :
    row.status \in {"WIN", "LOSS", "TIE"} /\ row.trade.entry < Len(feed)
      => row.status = Outcome(row.trade.direction, feed[row.trade.entry])

\* useSignalEngine.ts:990, of a trade recorded when it opens: "no placed trade can
\* vanish".
NoTradeVanishes ==
  \A o \in opened : \E row \in cache : row.trade = o.trade

\* useSignalEngine.ts:570-573: a reload puts a trade that is still running back into
\* `openTrades`.  (The session is alone, so the trade is nobody else's.)
RunningTradesResume ==
  \A s \in Sessions : (\A t \in Sessions \ {s} : life[t] # "open") =>
    \A row \in rows[s] : row.status = "ACTIVE" /\ Running(row.trade) => card[s] # NoCard

===============================================================================
