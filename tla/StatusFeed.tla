------------------------------ MODULE StatusFeed ------------------------------
(* The market state of the active pair: two pollers share one request and its   *)
(* answer (web/lib/candles.ts:277-380), one of them shows the market's state    *)
(* and the reconnecting banner (useOtcStatus.ts), the other is the engine's     *)
(* price poll (useSignalEngine.ts). Times are seconds left or seconds gone.     *)
EXTENDS Naturals

CONSTANTS
  Symbols,
  Ttl,            \* an answer younger than this is reused (9)
  Poll,           \* the banner asks this often (20)
  PricePoll,      \* the engine asks this often (10)
  Timeout,        \* a request is given up after this (8)
  UnhealthyAfter, \* bad polls before the banner shows (2)
  Nothing         \* no request, no answer

\* A poll of the banner is answered, and that answer too old for reuse, by the next.
StatusAssumption ==
  {Ttl, Poll, PricePoll, Timeout} \subseteq Nat /\ Ttl + Timeout <= Poll

VARIABLES
  hub, \* [bannerIn, engineIn: seconds to the next poll]
  net, \* the request under way: [about, age, banner: the shown pair's poll waits for it]
  app  \* [symbol, shared, status, badPolls, good, twice]

vars == <<hub, net, app>>

\* statusValue, with its age and whether the banner has counted it already
Shared(v) == [about |-> v.about, healthy |-> v.healthy, age |-> 0, counted |-> FALSE]

Init ==
  /\ \E s \in Symbols :
       app = [symbol |-> s, shared |-> Nothing, status |-> [about |-> s, healthy |-> TRUE],
              badPolls |-> 0, good |-> 0, twice |-> FALSE]
  /\ hub = [bannerIn |-> 0, engineIn |-> 0]
  /\ net = Nothing

ReusableForLong(shared) == shared # Nothing /\ shared.age < 3 * Ttl
Reusable(shared) == shared # Nothing /\ shared.age < Ttl

\* What the banner makes of a poll's outcome: a failure leaves everything but the
\* health as it was, a bad reading below the threshold everything but its verdict.
Seen(a, v, counted) ==
  LET bad == IF v = Nothing \/ ~v.healthy THEN a.badPolls + 1 ELSE 0
      shown == bad >= UnhealthyAfter
  IN  [a EXCEPT !.badPolls = IF shown THEN UnhealthyAfter ELSE bad,
                !.good = IF v # Nothing /\ @ < 2 THEN @ + 1 ELSE @,
                !.twice = @ \/ (shown /\ counted),
                !.status = IF v # Nothing THEN [about |-> v.about, healthy |-> ~shown]
                           ELSE [about |-> @.about, healthy |-> @.healthy /\ ~shown]]

\* fetchOtcStatus: join the request under way, reuse a young answer, or ask.
Fetch(banner, a) ==
  IF net # Nothing
  THEN /\ net' = [net EXCEPT !.banner = @ \/ banner]
       /\ app' = a
  ELSE IF Reusable(a.shared)
  THEN /\ app' = IF banner THEN [Seen(a, a.shared, a.shared.counted) EXCEPT !.shared.counted = TRUE]
                           ELSE a
       /\ UNCHANGED net
  ELSE /\ net' = [about |-> a.symbol, age |-> 0, banner |-> banner]
       /\ app' = a

BannerPolls == hub.bannerIn = 0 /\ hub' = [hub EXCEPT !.bannerIn = Poll] /\ Fetch(TRUE, app)
EnginePolls == hub.engineIn = 0 /\ hub' = [hub EXCEPT !.engineIn = PricePoll] /\ Fetch(FALSE, app)

Answered(v) ==
  /\ net # Nothing
  /\ LET kept == IF v = Nothing THEN app
                 ELSE [app EXCEPT !.shared = [Shared(v) EXCEPT !.counted = net.banner]]
     IN  app' = IF net.banner THEN Seen(kept, v, FALSE) ELSE kept
  /\ net' = Nothing
  /\ UNCHANGED hub

\* Another pair: the effect starts over and polls at once; what is shown stays.
Switch(s) ==
  /\ s # app.symbol
  /\ app' = [app EXCEPT !.symbol = s, !.badPolls = 0, !.good = 0,
                        !.shared = IF @ = Nothing THEN @ ELSE [@ EXCEPT !.counted = FALSE]]
  /\ net' = IF net = Nothing THEN net ELSE [net EXCEPT !.banner = FALSE]
  /\ hub' = [hub EXCEPT !.bannerIn = 0]

\* A second passes once the polls that are due have been made.
Tick ==
  /\ hub.bannerIn > 0 /\ hub.engineIn > 0
  /\ net # Nothing => net.age < Timeout
  /\ hub' = [bannerIn |-> hub.bannerIn - 1, engineIn |-> hub.engineIn - 1]
  /\ net' = IF net = Nothing THEN net ELSE [net EXCEPT !.age = @ + 1]
  /\ app' = IF Reusable(app.shared) THEN [app EXCEPT !.shared.age = @ + 1] ELSE app

Next ==
  \/ BannerPolls \/ EnginePolls \/ Tick
  \/ Answered(Nothing)
  \/ \E healthy \in BOOLEAN : net # Nothing /\ Answered([about |-> net.about, healthy |-> healthy])
  \/ \E s \in Symbols : Switch(s)
Spec == Init /\ [][Next]_vars

-------------------------------------------------------------------------------
(* After a switch of pairs the market state may be the other pair's for one poll *)
(* and no longer: the second answer is about the pair on screen, whoever asked   *)
(* for it (candles.ts:305-309, 325-329). And no reading is counted twice on the  *)
(* way to the banner (candles.ts:311-312).                                       *)
StatusCatchesUp ==
  /\ app.good = 2 => app.status.about = app.symbol
  /\ ~app.twice
===============================================================================
