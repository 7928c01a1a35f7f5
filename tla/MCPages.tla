-------------------------------- MODULE MCPages --------------------------------
(* Five pages, one at a time: the admin's health page, the sheet of alerts, the  *)
(* admin's lists, reports and gate.                                              *)
(* `which` says which one a behaviour is about; they share the names of their   *)
(* variables.                                                                   *)
EXTENDS Integers, Sequences, FiniteSets

CONSTANTS
  Addresses, Origin, Worker, Catalogue, Servers, Panels, Debounce, Nothing, \* HealthPage
  Accounts, Pairs, Nobody, MaxOpens, MaxChoices, MaxToggles, MaxLosses, \* PushAlerts
  Unread, MaxPresses, MaxOthers, MaxFaults,                             \* AdminLists
  Versions, Recorded, MinTrades, MaxAsked,                              \* AdminReports
  Tabs, MaxGuesses                                                      \* AdminGate

VARIABLES which, hub, net, app

\* A server in order, and what may become of it and of the scraper behind it.
Good == [answers |-> "yes", slow |-> FALSE, count |-> 2, age |-> 2, odd |-> 0, closed |-> 0,
         auth |-> 300, env |-> "all", candles |-> TRUE, socket |-> TRUE, tag |-> "HIT", cors |-> TRUE, balance |-> 5]
Scenes ==
  [good |-> Good,
   down |-> [Good EXCEPT !.answers = "no", !.socket = FALSE],
   error |-> [Good EXCEPT !.answers = "error"],
   empty |-> [Good EXCEPT !.count = 0, !.socket = FALSE],
   part |-> [Good EXCEPT !.count = 1, !.slow = TRUE, !.odd = 1],
   extra |-> [Good EXCEPT !.count = 3, !.tag = "STALE", !.cors = FALSE],
   late |-> [Good EXCEPT !.age = 60, !.auth = 150, !.balance = 1],
   frozen |-> [Good EXCEPT !.age = 120, !.auth = 0, !.env = "partial"],
   closed |-> [Good EXCEPT !.age = 120, !.closed = 2, !.env = "unknown", !.balance = 0],
   mute |-> [Good EXCEPT !.socket = FALSE, !.candles = FALSE]]
Panel(checks, names, presses, changes, faults) ==
  [checks |-> checks, scenes |-> {Scenes[n] : n \in names},
   most |-> [runs |-> 2, changes |-> changes, presses |-> presses, faults |-> faults]]
\* The four checks the banner is trusted for, together, and once more with a press for
\* a re-check that answers from another one's answer; the others in small groups.
MCPanels ==
  { Panel({"proxy_serves", "d_fresh", "data_source", "g_ws"}, {"good", "down", "mute"}, 2, 1, 1),
    Panel({"proxy_serves", "d_fresh", "data_source", "g_ws"}, {"mute"}, 3, 1, 0),
    Panel({"proxy_serves", "d_fresh", "wk_active"}, {"frozen"}, 2, 0, 1),
    Panel({"proxy_alive", "proxy_endpoints", "proxy_restart"}, {"error", "part"}, 1, 0, 1),
    Panel({"wk_alive", "wk_cache", "wk_ws"}, {"down", "extra"}, 1, 0, 1),
    Panel({"wk_match", "wk_cors", "wk_active"}, {"empty", "extra"}, 1, 0, 1),
    Panel({"d_count", "d_anom", "d_candles"}, {"empty", "part", "mute"}, 1, 0, 1),
    Panel({"d_market", "d_engine", "po_last"}, {"closed", "late", "down"}, 1, 0, 1),
    Panel({"po_token", "a_env", "cap_bal"}, {"late", "frozen", "closed"}, 1, 0, 1),
    Panel({"g_users", "a_push", "a_ver"}, {"good"}, 1, 0, 1) }

MCServers == [a \in {"origin", "worker"} |-> Good]

Health == INSTANCE HealthPage
\* Origin and worker are two of the addresses, a condition counts and ages in numbers and
\* has a socket that opens or not, and nothing is no context.
Numbered(server) == server.count \in Nat /\ server.age \in Int /\ server.socket \in BOOLEAN
ASSUME ServersAssumption ==
  /\ Origin \in Addresses /\ Worker \in Addresses /\ DOMAIN Servers = Addresses
  /\ \A a \in Addresses : Numbered(Servers[a])
  /\ \A panel \in Panels : \A scene \in panel.scenes : Numbered(scene)
  /\ \A a \in Addresses, ops, wsOk, wsOkActive \in BOOLEAN :
       Health!Context(a, ops, wsOk, wsOkActive) # Nothing
Alerts == INSTANCE PushAlerts
Lists == INSTANCE AdminLists WITH Names <- Pairs
Reports == INSTANCE AdminReports
\* A month with current and old rows, and one of old rows only.
MCRecorded == << [current |-> 3, v1 |-> 1], [current |-> 1, v1 |-> 2] >>
Gate == INSTANCE AdminGate
ASSUME GuessesAssumption == MaxGuesses \in Nat
ASSUME TogglesAssumption == MaxToggles \in Nat

\* Accounts differ in nothing but their names: a behaviour begins with one.
Init ==
  \/ which = "health" /\ Health!Init
  \/ which = "alerts" /\ Alerts!Init /\ app.account = "a1"
  \/ which = "lists" /\ Lists!Init
  \/ which = "reports" /\ Reports!Init
  \/ which = "gate" /\ Gate!Init
Next ==
  /\ UNCHANGED which
  /\ \/ which = "health" /\ Health!Next
     \/ which = "alerts" /\ Alerts!Next
     \/ which = "lists" /\ Lists!Next
     \/ which = "reports" /\ Reports!Next
     \/ which = "gate" /\ Gate!Next
Spec == Init /\ [][Next]_<<which, hub, net, app>>

\* The pages' properties, each where it is about something.
GreenMeansServed == which = "health" => Health!GreenMeansServed
SwitchMeansWhatItSays == which = "alerts" => Alerts!SwitchMeansWhatItSays
\* A list is its table, what stands under a question answers it, and a page that was
\* let in holds the secret the hub accepts.
PagesTellTheTruth ==
  /\ which = "lists" => Lists!ListIsTheTable
  /\ which = "reports" => Reports!AnswersTheQuestion
  /\ which = "gate" => Gate!GateOpensToTheSecret
================================================================================
