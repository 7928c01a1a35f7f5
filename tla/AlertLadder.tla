------------------------------ MODULE AlertLadder ------------------------------
(* The notifications a page raises itself (web/lib/signalNotify.ts), for one     *)
(* pair: a rung is announced when a setup comes near its level, very near, and   *)
(* when it fires, never twice.  Tabs of one browser share what has been          *)
(* announced in localStorage, and a page that mounts forgets it                  *)
(* (useSignalEngine.ts:808-816).  Prices, and what a candle does to a setup, are *)
(* the market's choice.                                                          *)
EXTENDS Naturals, Sequences

CONSTANTS
  Tabs, Setups,
  None,        \* no setup, no entry
  Near, VeryClose, Fired,           \* ALERT_NEAR, ALERT_VERY_CLOSE, ALERT_FIRED
  MaxMoves, MaxMounts, MaxSwitches  \* bounds of a behaviour

VARIABLES
  market,   \* [reading: setup |-> its percentage, gone: setups broken or too old, moves]
  store,    \* localStorage: the pair's entry in the ladder, the switch, the pause, the fired keys
  tabs,     \* [armed: tab |-> its setup, loaded: tabs with a program state, owner: of the lease, mounts, switches]
  shown     \* what the user was told, in order: [setup, rung]

vars == <<market, store, tabs, shown>>

NoEntry == [setup |-> None, highest |-> 0]

Init ==
  /\ market = [reading |-> [s \in Setups |-> 0], gone |-> {}, moves |-> 0]
  /\ store = [ladder |-> NoEntry, alerts |-> TRUE, paused |-> FALSE, fired |-> {}]
  /\ tabs = [armed |-> [t \in Tabs |-> None], loaded |-> {}, owner |-> None, mounts |-> 0, switches |-> 0]
  /\ shown = << >>

-------------------------------------------------------------------------------
(* The ladder.                                                                  *)

\* notify(): nothing while the switch is off or the signals are paused, and it
\* is dropped, not queued.
Told(s, setup, rung) ==
  IF s.alerts /\ ~s.paused THEN <<[setup |-> setup, rung |-> rung]>> ELSE << >>

Highest(s, setup) == IF s.ladder.setup = setup THEN s.ladder.highest ELSE 0
RungOf(percent) == IF percent >= VeryClose THEN VeryClose ELSE IF percent >= Near THEN Near ELSE 0

\* notifyStage(): <<the store after it, what it told>>. No setup, no entry.
NotifyStage(s, setup, rung) ==
  IF setup = None THEN <<[s EXCEPT !.ladder = NoEntry], << >>>>
  ELSE IF rung = 0 \/ rung <= Highest(s, setup) THEN <<s, << >>>>
  ELSE <<[s EXCEPT !.ladder = [setup |-> setup, highest |-> rung]], Told(s, setup, rung)>>

Says(s) == store' = s[1] /\ shown' = shown \o s[2]

\* The one-second reading, in every tab that has a state for the pair, whether it
\* holds the lease or not.
Second(t) ==
  /\ t \in tabs.loaded
  /\ Says(NotifyStage(store, tabs.armed[t],
                      IF tabs.armed[t] = None THEN 0 ELSE RungOf(market.reading[tabs.armed[t]])))
  /\ UNCHANGED <<market, tabs>>

-------------------------------------------------------------------------------
(* The program, at a closed candle, in the tab with the lease: stateFor() gives  *)
(* a page that has none a state without a setup, and applyEvent() tells of the   *)
(* end of a setup and of a signal.                                               *)

Becomes(t, setup) ==
  tabs' = [tabs EXCEPT !.armed[t] = setup, !.loaded = @ \cup {t}]

Nothing(t) == Becomes(t, tabs.armed[t]) /\ UNCHANGED <<store, shown>>
Adopt(t) ==
  /\ tabs.armed[t] = None
  /\ \E s \in Setups \ (market.gone \cup store.fired) : Becomes(t, s)
  /\ UNCHANGED <<store, shown>>
Retire(t) ==
  /\ tabs.armed[t] \in market.gone
  /\ Becomes(t, None) /\ Says(NotifyStage(store, None, 0))
Fire(t) ==
  /\ tabs.armed[t] \in Setups \ market.gone
  /\ market.reading[tabs.armed[t]] >= VeryClose
  /\ Becomes(t, None)
  /\ \E s \in {NotifyStage(NotifyStage(store, None, 0)[1], tabs.armed[t], Fired)} :
       Says(<<[s[1] EXCEPT !.fired = @ \cup {tabs.armed[t]}], s[2]>>)
Candle(t) ==
  /\ t = tabs.owner
  /\ Nothing(t) \/ Adopt(t) \/ Retire(t) \/ Fire(t)
  /\ UNCHANGED market

-------------------------------------------------------------------------------
(* The pages, the user and the market.                                          *)

\* A page mounts, or is reloaded, or changes its account or its timeframe: the
\* states are dropped, and resetLadders() with them.
Mount(t) ==
  /\ tabs.mounts < MaxMounts
  /\ tabs' = [tabs EXCEPT !.mounts = @ + 1, !.armed[t] = None, !.loaded = @ \ {t}]
  /\ store' = [store EXCEPT !.ladder = NoEntry]
  /\ UNCHANGED <<market, shown>>

LeaseMoves(t) ==
  /\ t # tabs.owner /\ tabs.switches < MaxSwitches
  /\ tabs' = [tabs EXCEPT !.owner = t, !.switches = @ + 1]
  /\ UNCHANGED <<market, store, shown>>

\* setAlertsEnabled(), and the daily quota.
SwitchAlerts ==
  /\ tabs.switches < MaxSwitches
  /\ tabs' = [tabs EXCEPT !.switches = @ + 1]
  /\ \/ store' = [store EXCEPT !.alerts = ~@]
     \/ store' = [store EXCEPT !.paused = ~@]
  /\ UNCHANGED <<market, shown>>

PriceMoves ==
  /\ market.moves < MaxMoves
  /\ \E s \in Setups :
       \/ \E percent \in {0, Near, VeryClose} :
            market' = [market EXCEPT !.reading[s] = percent, !.moves = @ + 1]
       \/ market' = [market EXCEPT !.gone = @ \cup {s}, !.reading[s] = 0, !.moves = @ + 1]
  /\ UNCHANGED <<store, tabs, shown>>

Next ==
  \/ SwitchAlerts \/ PriceMoves
  \/ \E t \in Tabs : Second(t) \/ Candle(t) \/ Mount(t) \/ LeaseMoves(t)
Spec == Init /\ [][Next]_vars

-------------------------------------------------------------------------------
(* The ladder is "persisted, so a reload does not re-announce an opportunity in  *)
(* progress" (signalNotify.ts:192), by the rule that "a rung is sent only if it  *)
(* is HIGHER than the highest already sent for that setup" (171-173): of one     *)
(* setup the user is told of rungs in their order, each once.                    *)
ReloadStaysQuiet ==
  \A i, j \in DOMAIN shown :
    i < j /\ shown[i].setup = shown[j].setup => shown[i].rung < shown[j].rung
===============================================================================
