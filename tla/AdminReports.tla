----------------------------- MODULE AdminReports -----------------------------
(* Two pages of the admin that ask long questions: what the recorded signals    *)
(* came to (web/app/admin/signals/page.tsx, lib/signalStats.ts) and what a       *)
(* strategy would have done (web/app/admin/strategy/page.tsx). The question can  *)
(* be changed while its answer is on its way.                                    *)
EXTENDS Naturals, FiniteSets, FiniteSetsExt

CONSTANTS
  Nothing,     \* no answer shown
  Versions,    \* the removed strategies whose rows are still there
  MinTrades,   \* decided trades from which the analysis may be asked for (30)
  Recorded,    \* the hub: range |-> origin of the rows, "current" or a version |-> decided trades
  MaxAsked, MaxFaults   \* bounds: loads and runs asked for, requests that fail

VARIABLES
  hub,   \* the pairs that are enabled (the strategy page's question is about them)
  net,   \* the loads, analyses and backtests under way
  app    \* the page

vars == <<hub, net, app>>

Ranges == DOMAIN Recorded
Filters == [range : Ranges, version : {""} \cup Versions]
Programs == [plan : {"free", "paid"}, timeframe : {"1m", "5m"}]
Questions == [signals |-> Filters, strategy |-> Programs]

-------------------------------------------------------------------------------
(* The statistics (fetchStats, fetchEraSplit, fetchSignals).                     *)

\* Rows of one origin, "current" for those that carry no version, under a filter.
Bucket(f, origin) == IF f.version \in {"", origin} THEN Recorded[f.range][origin] ELSE 0

\* The running strategy's number, and one line for all that were removed. A filter on
\* a version leaves no current rows.
EraSplit(f) == [of |-> f, current |-> IF f.version = "" THEN Bucket(f, "current") ELSE 0,
                legacy |-> MapThenSumSet(LAMBDA v : Bucket(f, v), Versions)]

\* What a load or a run answers to its question.
AnswerTo(q) == IF app.page = "signals" THEN EraSplit(q) ELSE [of |-> q, current |-> hub, legacy |-> 0]

-------------------------------------------------------------------------------

Decided == IF app.shown = Nothing THEN 0 ELSE app.shown.current

Init ==
  /\ hub = 1
  /\ \E page \in {"signals", "strategy"} : \E q \in {x \in Questions[page] : page = "signals" => x.version = ""} :
       /\ app = [page |-> page, asks |-> q, shown |-> Nothing, busy |-> page = "signals", error |-> FALSE,
                 analysing |-> FALSE, analysis |-> Nothing, asked |-> 1, landed |-> 0,
                 faults |-> 0, excused |-> FALSE]
       /\ net = IF page = "signals" THEN {[n |-> 1, does |-> "load", about |-> q, beside |-> Nothing]}
                                    ELSE {}

\* A question goes out, with the numbers shown beside it.
Asks(a, does) ==
  /\ a.asked < MaxAsked
  /\ net' = net \cup {[n |-> a.asked + 1, does |-> does, about |-> a.asks, beside |-> a.shown]}
  /\ app' = [a EXCEPT !.asked = @ + 1]
  /\ UNCHANGED hub

\* load(): the page is loading, and shows what it showed.
Loading(a) == [a EXCEPT !.busy = TRUE, !.error = FALSE]

\* A filter is changed: the page loads, whatever is on its way. The analysis stays.
ChooseFilter(f) ==
  /\ app.page = "signals" /\ f # app.asks
  /\ Asks(Loading([app EXCEPT !.asks = f]), "load")
Refresh == app.page = "signals" /\ ~app.busy /\ Asks(Loading(app), "load")

\* analyse(): from enough trades on, the losing and the winning rows of the filter,
\* and the numbers that are on the screen, go into one prompt.
Analyse ==
  /\ app.page = "signals" /\ ~app.analysing /\ Decided >= MinTrades
  /\ Asks([app EXCEPT !.analysing = TRUE, !.analysis = Nothing], "analyse")

\* Variant: the chips leave the report where it is.
LeftThere(a) == a
\* A plan or a timeframe is chosen: the report goes, a run under way goes on.
Cleared(a) == [a EXCEPT !.shown = Nothing]
ChooseProgram(p) ==
  /\ app.page = "strategy" /\ p # app.asks /\ (p.plan = app.asks.plan) # (p.timeframe = app.asks.timeframe)
  /\ app.asked < MaxAsked
  /\ app' = [Cleared(app) EXCEPT !.asks = p, !.asked = @ + 1, !.excused = @ \/ app.busy]
  /\ UNCHANGED <<hub, net>>

\* run(), of the program selected now.
Run ==
  /\ app.page = "strategy" /\ ~app.busy
  /\ Asks([app EXCEPT !.busy = TRUE, !.shown = Nothing, !.error = FALSE, !.excused = FALSE], "run")

\* Another page enables the first pair, or disables the last.
PairsChange == app.page = "strategy" /\ hub' = 1 - hub /\ UNCHANGED <<net, app>>

-------------------------------------------------------------------------------
(* The answers.                                                                  *)

\* Promise.all has its six answers: the last load to land is the one that is shown,
\* and the first to end says that loading is over.
Loaded(r) ==
  /\ r.does = "load" /\ net' = net \ {r} /\ UNCHANGED hub
  /\ app' = [app EXCEPT !.shown = AnswerTo(r.about), !.busy = FALSE,
                        !.excused = r.n < app.landed, !.landed = IF r.n > @ THEN r.n ELSE @]

\* Every enabled pair is replayed; there may be none.
Reported(r) ==
  /\ r.does = "run" /\ net' = net \ {r} /\ UNCHANGED hub
  /\ app' = [app EXCEPT !.busy = FALSE, !.error = hub = 0,
                        !.shown = IF hub = 0 THEN @ ELSE AnswerTo(r.about)]

\* What Gemini says of the prompt.
Analysed(r) ==
  /\ r.does = "analyse" /\ net' = net \ {r} /\ UNCHANGED hub
  /\ app' = [app EXCEPT !.analysing = FALSE, !.analysis = [rows |-> r.about, numbers |-> r.beside.of]]

\* One of the requests fails.
Fails(r) ==
  /\ app.faults < MaxFaults /\ net' = net \ {r} /\ UNCHANGED hub
  /\ app' = IF r.does = "analyse"
            THEN [app EXCEPT !.faults = @ + 1, !.analysing = FALSE]
            ELSE [app EXCEPT !.faults = @ + 1, !.busy = FALSE, !.error = TRUE, !.excused = TRUE,
                             !.landed = IF r.n > @ THEN r.n ELSE @]

Next ==
  \/ \E f \in Filters : ChooseFilter(f)
  \/ \E p \in Programs : ChooseProgram(p)
  \/ Refresh \/ Analyse \/ Run \/ PairsChange
  \/ \E r \in net : Loaded(r) \/ Reported(r) \/ Analysed(r) \/ Fails(r)

Spec == Init /\ [][Next]_vars

-------------------------------------------------------------------------------
(* What stands under a question answers that question, once nothing is under way *)
(* about it, unless a request failed, an older load landed last, or the program  *)
(* was changed during the run: then the page shows the one under the other's     *)
(* name.                                                                         *)
AnswersTheQuestion ==
  /\ app.shown # Nothing /\ (\A r \in net : r.does = "analyse") =>
       app.shown.of = app.asks \/ app.excused
  /\ net = {} => ~app.busy /\ ~app.analysing
===============================================================================
