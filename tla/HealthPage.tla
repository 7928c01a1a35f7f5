------------------------------ MODULE HealthPage ------------------------------
(* The admin's health page (web/app/admin/health/page.tsx, web/lib/healthChecks.ts): *)
(* its checks of the price proxy, the edge worker and the scraper behind them,  *)
(* the runs and re-checks that carry them out, the banner made of the results,  *)
(* and the repairs, which write the rows every device follows.                  *)
EXTENDS Integers, Sequences, FiniteSets, TLC

CONSTANTS
  Addresses,   \* base addresses prices can be served from
  Servers,     \* the address's condition at first, but for one of them
  Origin,      \* K_ORIGIN
  Worker,      \* K_WORKER
  Catalogue,   \* CATALOGUE_SYMBOLS
  Panels,      \* [checks, scenes, most]: checks looked at together, conditions of their
               \* servers, and the bounds of a behaviour: most.runs, changes, presses, faults
  Debounce,    \* ALERT_DEBOUNCE_MS, in live ticks of 30 s
  Nothing      \* no answer, no address, no re-check

VARIABLES
  hub,   \* [config: the address in configs/proxy_server_url, server: condition of
         \*  each address, scan: configs/otc_scan]
  net,   \* [run: the scan under way, rechecks, fix: the repair under way]
  app    \* the page; with it hubStats.errors, what is spent, and `calm`

vars == <<hub, net, app>>

-------------------------------------------------------------------------------
(* What a check can find. Every one reads the world when it runs.                *)

Found(status) == [status |-> status, fix |-> Nothing]
Offered(status, fix) == [status |-> status, fix |-> fix]

Answering(h, a) == h.server[a].answers # "no"
Healthy(h, a) == h.server[a].answers = "yes"

\* otcStatus(): the six numbers, or nothing unless the reply is a 200.
OtcStatus(h, a) == IF Healthy(h, a) THEN h.server[a] ELSE Nothing
Count(st) == IF st = Nothing THEN -1 ELSE st.count
Age(st) == IF st = Nothing \/ st.count = 0 THEN Nothing ELSE st.age
AgeOr999(st) == IF Age(st) = Nothing THEN 999 ELSE Age(st)

ProxyServes(h, c) ==
  LET n == Count(OtcStatus(h, c.active)) IN
  CASE n = -1 -> Found("fail")
    [] n = 0 -> Offered("fail", "switch_origin")
    [] n > 0 /\ n # Catalogue -> Found("warn")
    [] OTHER -> Found("ok")
ProxyAlive(h, c) ==
  Found(IF ~Healthy(h, c.active) THEN "fail" ELSE IF h.server[c.active].slow THEN "warn" ELSE "ok")
ProxyEndpoints(h, c) == Found(IF Healthy(h, c.active) THEN "ok" ELSE "fail")
ProxyRestart(h, c) == IF c.ops THEN Offered("ok", "restart_proxy") ELSE Found("na")

\* Any answer of the worker counts, an error included.
WorkerAlive(h, c) == IF Answering(h, Worker) THEN Found("ok") ELSE Offered("fail", "switch_origin")
WorkerActive(h, c) ==
  IF c.active = Worker THEN Offered("ok", "switch_origin") ELSE Offered("warn", "switch_worker")
WorkerCache(h, c) ==
  Found(IF Answering(h, Worker) /\ h.server[Worker].tag = "HIT" THEN "ok" ELSE "warn")
WorkerMatch(h, c) ==
  LET w == OtcStatus(h, Worker)  o == OtcStatus(h, Origin) IN
  IF w = Nothing \/ o = Nothing THEN Found("warn")
  ELSE IF Count(w) # Count(o) THEN Offered("fail", "switch_origin") ELSE Found("ok")
WorkerSocket(h, c) == IF c.wsOk THEN Found("ok") ELSE Offered("fail", "switch_origin")
WorkerCors(h, c) == Found(IF Answering(h, Worker) /\ h.server[Worker].cors THEN "ok" ELSE "warn")

Fresh(h, c) ==
  LET age == Age(OtcStatus(h, c.active)) IN
  IF age = Nothing THEN Found("fail")
  ELSE IF age > 90 THEN Offered("fail", "nudge_scraper")
  ELSE IF age > 30 THEN Found("warn") ELSE Found("ok")
CountCheck(h, c) ==
  LET n == Count(OtcStatus(h, c.active)) IN
  Found(IF n <= 0 THEN "fail" ELSE IF n # Catalogue THEN "warn" ELSE "ok")
Anomalies(h, c) ==
  LET st == OtcStatus(h, c.active) IN
  Found(IF st = Nothing THEN "warn" ELSE IF st.odd > 0 THEN "fail" ELSE "ok")
CandlesCheck(h, c) == Found(IF Healthy(h, c.active) /\ h.server[c.active].candles THEN "ok" ELSE "warn")
MarketCheck(h, c) ==
  LET st == OtcStatus(h, c.active) IN
  Found(IF st = Nothing \/ (st.count > st.closed /\ AgeOr999(st) > 90) THEN "warn" ELSE "ok")
EngineCheck(h, c) == Found(IF AgeOr999(OtcStatus(h, c.active)) <= 90 THEN "ok" ELSE "warn")

TokenCheck(h, c) ==
  LET st == OtcStatus(h, c.active) IN Found(IF st = Nothing \/ st.auth < 200 THEN "fail" ELSE "ok")
LastCheck(h, c) == Found(IF AgeOr999(OtcStatus(h, c.active)) <= 90 THEN "ok" ELSE "warn")
CaptchaBalance(h, c) ==
  Found(IF ~Healthy(h, Origin) THEN "na"
        ELSE IF h.server[Origin].balance <= 0 THEN "fail"
        ELSE IF h.server[Origin].balance < 2 THEN "warn" ELSE "ok")
\* hubStats: a read or a write that failed since the page was opened.
DataSource(errors) == Found(IF errors > 0 THEN "fail" ELSE "ok")
UsersCheck(answers) == Found(IF answers THEN "ok" ELSE "warn")
WinSocketOfWorker(h, c) == IF c.wsOk THEN Found("ok") ELSE Offered("fail", "switch_origin")
WinSocket(h, c) == IF c.wsOkActive THEN Found("ok") ELSE Offered("fail", "switch_origin")
PushCheck(answers) == Found(IF answers THEN "ok" ELSE "warn")
EnvCheck(h, c) ==
  LET st == OtcStatus(h, c.active)
      env == IF st = Nothing THEN "unknown" ELSE st.env
  IN  Found(CASE env = "unknown" -> "warn" [] env = "partial" -> "fail" [] OTHER -> "ok")

\* The list of checks, in the page's order.
CHECKS ==
  << "proxy_serves", "proxy_alive", "proxy_endpoints", "proxy_restart", "wk_alive", "wk_active",
     "wk_cache", "wk_match", "wk_ws", "wk_cors", "d_fresh", "d_count", "d_anom", "d_candles",
     "d_market", "d_engine", "po_token", "po_last", "cap_bal", "data_source", "g_users", "g_ws",
     "a_ver", "a_push", "a_env" >>

\* The checks that ask nobody: they read the context, or what the page has counted.
Immediate == {"proxy_restart", "wk_active", "wk_ws", "data_source", "g_ws"}

\* runOne(): what a check says of this world, in this context.
RunOne(check, h, c, errors, answers) ==
  CASE check = "proxy_serves" -> ProxyServes(h, c)   [] check = "proxy_alive" -> ProxyAlive(h, c)
    [] check = "proxy_endpoints" -> ProxyEndpoints(h, c) [] check = "proxy_restart" -> ProxyRestart(h, c)
    [] check = "wk_alive" -> WorkerAlive(h, c)       [] check = "wk_active" -> WorkerActive(h, c)
    [] check = "wk_cache" -> WorkerCache(h, c)       [] check = "wk_match" -> WorkerMatch(h, c)
    [] check = "wk_ws" -> WorkerSocket(h, c)         [] check = "wk_cors" -> WorkerCors(h, c)
    [] check = "d_fresh" -> Fresh(h, c)              [] check = "d_count" -> CountCheck(h, c)
    [] check = "d_anom" -> Anomalies(h, c)           [] check = "d_candles" -> CandlesCheck(h, c)
    [] check = "d_market" -> MarketCheck(h, c)       [] check = "d_engine" -> EngineCheck(h, c)
    [] check = "po_token" -> TokenCheck(h, c)        [] check = "po_last" -> LastCheck(h, c)
    [] check = "cap_bal" -> CaptchaBalance(h, c)     [] check = "data_source" -> DataSource(errors)
    [] check = "g_users" -> UsersCheck(answers)      [] check = "g_ws" -> WinSocket(h, c)
    [] check = "a_ver" -> Found("ok")                [] check = "a_push" -> PushCheck(answers)
    [] check = "a_env" -> EnvCheck(h, c)

-------------------------------------------------------------------------------
(* The page.                                                                    *)

Context(active, ops, wsOk, wsOkActive) ==
  [active |-> active, ops |-> ops, wsOk |-> wsOk, wsOkActive |-> wsOkActive]
AtRest == [stage |-> "idle", c |-> Context(Origin, FALSE, FALSE, FALSE), todo |-> {}]
Checking == [status |-> "checking", fix |-> Nothing]
NoRecheck == Nothing
NoFix == [todo |-> <<>>, then |-> "nothing", c |-> Nothing, late |-> FALSE]

Scanning(page) == page.run.stage # "idle"
With(status, results) == {check \in DOMAIN results : results[check].status = status}

\* `overall`: what is being checked counts as neither red nor yellow.
Overall(results) ==
  IF With("fail", results) # {} THEN "fail" ELSE IF With("warn", results) # {} THEN "warn" ELSE "ok"

\* The page opens with a scan.
Init ==
  /\ \E panel \in Panels, address \in {Nothing, Worker} :
     \E bad \in Addresses, scene \in panel.scenes :
       /\ hub = [config |-> address, server |-> [Servers EXCEPT ![bad] = scene], scenes |-> panel.scenes,
                 scan |-> [asked |-> FALSE, others |-> TRUE]]
       /\ net = [run |-> [AtRest EXCEPT !.stage = "address"],
                 rechecks |-> [check \in panel.checks |-> NoRecheck], fix |-> NoFix]
       /\ app = [results |-> [check \in panel.checks |-> Checking], active |-> Origin, ops |-> FALSE,
                 live |-> FALSE, since |-> Debounce, confirm |-> <<>>, errors |-> 0, calm |-> FALSE,
                 most |-> panel.most,
                 runs |-> 1, changes |-> 0, presses |-> 0, faults |-> 0]

Spent(b, a) == IF a[b] < a.most[b] THEN {[a EXCEPT ![b] = @ + 1]} ELSE {}
\* A database call that fails is counted by hubStats.
Failing(a) == {[f EXCEPT !.errors = @ + 1] : f \in Spent("faults", a)}

\* runAll(): not beside another one.
Started(n, a) ==
  IF Scanning(n) \/ a.runs = a.most.runs THEN {<<n, a>>}
  ELSE {<<[n EXCEPT !.run.stage = "address"],
          [a EXCEPT !.results = [check \in DOMAIN @ |-> Checking], !.runs = @ + 1]>>}
Pressed(a) == Spent("presses", a)
Start ==
  /\ ~Scanning(net) /\ app.runs < app.most.runs
  /\ \E a \in Pressed(app) : \E s \in Started(net, a) : net' = s[1] /\ app' = s[2]
  /\ UNCHANGED hub

\* What was asked before a scan learnt what it goes by is late from there on.
Outdated(n) ==
  [n EXCEPT !.rechecks = [check \in DOMAIN @ |->
                            IF @[check] = NoRecheck THEN NoRecheck ELSE [@[check] EXCEPT !.late = TRUE]],
            !.fix = IF @.c = Nothing THEN @ ELSE [@ EXCEPT !.late = TRUE]]

\* readActiveProxy(): no row, and no answer, are the origin.
ReadAddress ==
  /\ net.run.stage = "address"
  /\ \E read \in {<<IF hub.config = Nothing THEN Origin ELSE hub.config, app>>}
                 \cup {<<Origin, failed>> : failed \in Failing(app)} :
       /\ net' = [Outdated(net) EXCEPT !.run =
                    [stage |-> "ops", c |-> Context(read[1], FALSE, FALSE, FALSE), todo |-> {}]]
       /\ app' = [read[2] EXCEPT !.active = read[1], !.calm = TRUE]
  /\ UNCHANGED hub

\* loadOps(), and checkWebSocket() of the worker and of the active address. Then
\* the checks begin together; those that wait for nothing are done at once.
Prime ==
  /\ net.run.stage = "ops"
  /\ \E c \in {Context(net.run.c.active, Healthy(hub, Origin), hub.server[Worker].socket,
                       hub.server[net.run.c.active].socket)} :
       /\ net' = [Outdated(net) EXCEPT !.run =
                    [stage |-> "checks", c |-> c, todo |-> DOMAIN app.results \ Immediate]]
       /\ app' = [app EXCEPT !.ops = c.ops,
                             !.results = [check \in DOMAIN @ |->
                               IF check \in Immediate THEN RunOne(check, hub, c, app.errors, TRUE) ELSE @[check]]]
  /\ UNCHANGED hub

\* One check of the scan is done, or was given 20 s and is not.
Finish(check) ==
  /\ check \in net.run.todo
  /\ net' = [net EXCEPT !.run.todo = @ \ {check}]
  /\ \/ \E answers \in BOOLEAN :
          app' = [app EXCEPT !.results[check] = RunOne(check, hub, net.run.c, app.errors, answers)]
     \/ \E slow \in Spent("faults", app) : app' = [slow EXCEPT !.results[check] = Found("warn")]
  /\ UNCHANGED hub

\* The scan is over; red results are announced, at most once in a while.
Finished ==
  /\ net.run.stage = "checks" /\ net.run.todo = {}
  /\ net' = [net EXCEPT !.run = AtRest]
  /\ app' = IF With("fail", app.results) # {} /\ app.since = Debounce
            THEN [app EXCEPT !.since = 0] ELSE app
  /\ UNCHANGED hub

\* Live monitoring, and the clock of the alerts.
Switch ==
  /\ \E a \in Pressed(app) : app' = [a EXCEPT !.live = ~@]
  /\ UNCHANGED <<hub, net>>
Tick ==
  \E a \in {[app EXCEPT !.since = IF @ < Debounce THEN @ + 1 ELSE @]} :
    /\ \E s \in IF app.live THEN Started(net, a) ELSE {<<net, a>>} : net' = s[1] /\ app' = s[2]
    /\ UNCHANGED hub

\* The context of a re-check is what the page shows: the last scan's address, and
\* the socket results in place of the sockets.
Shown(a) ==
  Context(a.active, a.ops, "wk_ws" \in With("ok", a.results), "g_ws" \in With("ok", a.results))
Recheck(check) ==
  /\ net.rechecks[check] = NoRecheck
  /\ \E a \in Pressed(app) :
       /\ net' = [net EXCEPT !.rechecks[check] = [c |-> Shown(app), late |-> FALSE]]
       /\ app' = [a EXCEPT !.results[check] = Checking]
  /\ UNCHANGED hub
Rechecked(check) ==
  /\ net.rechecks[check] # NoRecheck
  /\ net' = [net EXCEPT !.rechecks[check] = NoRecheck]
  /\ \E answers \in BOOLEAN :
       app' = [app EXCEPT !.results[check] = RunOne(check, hub, net.rechecks[check].c, app.errors, answers),
                          !.calm = @ /\ ~net.rechecks[check].late]
  /\ UNCHANGED hub

-------------------------------------------------------------------------------
(* The repairs.                                                                 *)

Dangerous == {"switch_origin", "switch_worker", "restart_proxy"}

\* The buttons that ask first ("elsewhere": caches, live channel, token, none of
\* which a check looks at): those of the page, of a check, and "fix all red",
\* which takes each red check's repair once, in the page's order.
RedFixes(results) ==
  LET reds == SelectSeq(CHECKS, LAMBDA check : check \in With("fail", results))
      fixes == [i \in DOMAIN reds |-> results[reds[i]].fix]
      first == {i \in DOMAIN reds : fixes[i] # Nothing /\ \A j \in 1..(i - 1) : fixes[j] # fixes[i]}
  IN  SelectSeq([i \in DOMAIN reds |-> IF i \in first THEN fixes[i] ELSE Nothing], LAMBDA f : f # Nothing)
Buttons(results) ==
  {<<"switch_worker">>, <<"switch_origin">>, <<"nudge_scraper">>, <<"elsewhere">>}
  \cup {<<results[check].fix>> : check \in {x \in DOMAIN results : results[x].fix \in Dangerous}}
  \cup (IF RedFixes(results) = <<>> \/ Scanning(net) THEN {} ELSE {RedFixes(results)})
Ask(fixes) ==
  /\ app.confirm = <<>>
  /\ \E a \in Pressed(app) : app' = [a EXCEPT !.confirm = fixes]
  /\ UNCHANGED <<hub, net>>
Cancel == app.confirm # <<>> /\ app' = [app EXCEPT !.confirm = <<>>] /\ UNCHANGED <<hub, net>>
Confirm ==
  /\ app.confirm # <<>> /\ net.fix = NoFix
  /\ app' = [app EXCEPT !.confirm = <<>>]
  /\ net' = [net EXCEPT !.fix = [todo |-> app.confirm, then |-> "scan", c |-> Nothing, late |-> FALSE]]
  /\ UNCHANGED hub

\* doFix() of a repair that is not dangerous: at once, and then this check again.
FixNow(check) ==
  /\ app.results[check].fix \notin Dangerous \cup {Nothing} /\ net.fix = NoFix
  /\ \E a \in Pressed(app) : app' = a
  /\ net' = [net EXCEPT !.fix = [todo |-> <<app.results[check].fix>>, then |-> check,
                                 c |-> Shown(app), late |-> FALSE]]
  /\ UNCHANGED hub

\* What a repair writes. Nobody looks at the answer of a write; a nudge keeps the
\* other fields of the row it read, and of a row it could not read, none.
Written(fix, h, read) ==
  CASE fix = "switch_origin" -> [h EXCEPT !.config = Origin]
    [] fix = "switch_worker" -> [h EXCEPT !.config = Worker]
    [] fix = "nudge_scraper" -> [h EXCEPT !.scan = [asked |-> TRUE, others |-> @.others /\ read]]
    [] OTHER -> h
Repair ==
  /\ net.fix.todo # <<>>
  /\ \E fix \in {Head(net.fix.todo)} :
       \/ hub' = Written(fix, hub, TRUE) /\ app' = [app EXCEPT !.calm = @ /\ hub'.config = hub.config]
       \/ \E failed \in Failing(app) :
            /\ hub' \in {hub} \cup (IF fix = "nudge_scraper" THEN {Written(fix, hub, FALSE)} ELSE {})
            /\ app' = failed
  /\ net' = [net EXCEPT !.fix.todo = Tail(@)]

\* After the last one: a scan, unless one is under way; or the check again.
Repaired ==
  /\ net.fix # NoFix /\ net.fix.todo = <<>>
  /\ \E n \in {[net EXCEPT !.fix = NoFix]} :
       IF net.fix.then = "scan"
       THEN \E s \in Started(n, app) : net' = s[1] /\ app' = s[2]
       ELSE /\ net' = [n EXCEPT !.rechecks[net.fix.then] = [c |-> net.fix.c, late |-> net.fix.late]]
            /\ app' = [app EXCEPT !.results[net.fix.then] = Checking]
  /\ UNCHANGED hub

\* A server, or the scraper behind it, changes its condition.
Change(a, scene) ==
  /\ hub.server[a] # scene
  /\ \E b \in Spent("changes", app) : app' = [b EXCEPT !.calm = FALSE]
  /\ hub' = [hub EXCEPT !.server[a] = scene]
  /\ UNCHANGED net

Next ==
  \/ Start \/ ReadAddress \/ Prime \/ Finished
  \/ Switch \/ Tick \/ Cancel \/ Confirm \/ Repair \/ Repaired
  \/ \E check \in DOMAIN app.results : Finish(check) \/ Recheck(check) \/ Rechecked(check) \/ FixNow(check)
  \/ \E fixes \in Buttons(app.results) : Ask(fixes)
  \/ \E a \in Addresses, scene \in hub.scenes : Change(a, scene)
Spec == Init /\ [][Next]_vars

-------------------------------------------------------------------------------
(* A page at rest that is green about the prices means that the address every   *)
(* device follows serves the whole catalogue, fresh, over an open socket, unless *)
(* something changed since its scan read the address, or a re-check asked before *)
(* the scan had looked at address and sockets came in after it (that of g_ws     *)
(* asks no socket, it repeats what the page shows: page.tsx:172-181). A read of  *)
(* the address that fails is answered with the origin, and a repair's write that *)
(* fails is announced as done (healthChecks.ts:332-345, 522-528): it is the      *)
(* count of failed calls (994-1003) that keeps the page from being green about   *)
(* the wrong address.                                                            *)
Serving(h) ==
  \E a \in {IF h.config = Nothing THEN Origin ELSE h.config} :
    /\ Healthy(h, a) /\ h.server[a].count = Catalogue
    /\ h.server[a].age <= 30 /\ h.server[a].socket
Settled == ~Scanning(net) /\ net.fix = NoFix /\ \A check \in DOMAIN net.rechecks : net.rechecks[check] = NoRecheck
GreenMeansServed ==
  Settled /\ app.calm /\ {"proxy_serves", "d_fresh", "data_source", "g_ws"} \subseteq With("ok", app.results)
    => Serving(hub)
===============================================================================
