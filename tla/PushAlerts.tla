------------------------------ MODULE PushAlerts ------------------------------
(* One device's choice of pairs and its alerts: the settings sheet              *)
(* (web/components/WatchSettings.tsx, PushPairPicker.tsx), the list kept for     *)
(* each account (web/lib/watchedPairs.ts), and the subscription that the browser *)
(* and the proxy each hold a half of (web/lib/webPush.ts).                       *)
EXTENDS Naturals, FiniteSets

CONSTANTS
  Accounts, Pairs,
  Nobody,      \* no list stored; the page a request belonged to is gone
  MaxOpens, MaxChoices, MaxToggles, MaxLosses   \* bounds of a behaviour

VARIABLES
  hub,   \* the proxy's push_subscriptions: endpoint |-> [account, symbols]
  net,   \* requests under way, each with its number in the order of asking
  app    \* the browser, its storage and the page

vars == <<hub, net, app>>

Endpoints == 1..(MaxToggles + 1)
NoRow == [account |-> Nobody, symbols |-> {}]

Init ==
  /\ hub = [e \in Endpoints |-> NoRow]
  /\ net = {}
  /\ \E a \in Accounts :
       app = [account |-> a, watched |-> {}, alerts |-> FALSE, push |-> "unknown", step |-> "idle",
              permission |-> "default", sub |-> 0, subs |-> 0,
              lists |-> [x \in Accounts |-> Nobody], legacy |-> Nobody, stored |-> FALSE,
              asked |-> 0, opens |-> 0, choices |-> 0, toggles |-> 0, losses |-> 0, excused |-> FALSE]

\* A request: its number, what it asks, of which endpoint, and who waits for it.
Request(op, a, by) ==
  [n |-> a.asked + 1, op |-> op, endpoint |-> a.sub, row |-> [account |-> a.account, symbols |-> a.watched], by |-> by]

\* refreshPush(): at every change of the list, the account, or of `push` to on.
Refreshed(a) ==
  IF a.push = "on" /\ a.watched # {} /\ a.permission = "granted" /\ a.sub # 0
  THEN <<[a EXCEPT !.asked = @ + 1], {Request("subscribe", a, Nobody)}>>
  ELSE <<a, {}>>
\* Variant: the effect does not depend on the list.
Unrefreshed(a) == <<a, {}>>
\* The page with changes that may call for a refresh.
Shows(a) == \E r \in {Refreshed(a)} : app' = r[1] /\ net' = net \cup r[2]
Chosen(a) == Refreshed(a)

-------------------------------------------------------------------------------
(* The sheet.                                                                   *)

\* loadWatched(): the account's own list, else what the older key says.
Loaded(a) ==
  IF a.lists[a.account] # Nobody THEN a.lists[a.account] ELSE IF a.legacy # Nobody THEN a.legacy ELSE {}

\* The page is opened again, perhaps by another account: nobody waits for what the
\* page before had asked, and a switch in mid-course is left half done.
Open(account) ==
  /\ app.opens < MaxOpens
  /\ net' = {[r EXCEPT !.by = Nobody] : r \in net}
  /\ \E a \in {[app EXCEPT !.account = account, !.opens = @ + 1,
                           !.excused = @ \/ app.step # "idle"]} :
       app' = [a EXCEPT !.watched = Loaded(a), !.alerts = a.stored, !.push = "unknown", !.step = "idle"]
  /\ UNCHANGED hub

\* pushState(), when the page has opened. The server's key may not be had.
PushKnown ==
  /\ app.push = "unknown"
  /\ \E state \in IF app.permission = "denied" THEN {"denied"}
               ELSE {"unavailable", IF app.sub = 0 THEN "off" ELSE "on"} :
       Shows([app EXCEPT !.push = state])
  /\ UNCHANGED hub

\* savePairs(): what the picker ends with, after its second question for many
\* pairs; never an empty list. The older key is retired.
Choose(list) ==
  /\ app.choices < MaxChoices /\ list # app.watched
  /\ \E r \in {Chosen([app EXCEPT !.watched = list, !.lists[app.account] = list, !.legacy = Nobody,
                                  !.choices = @ + 1])} :
       app' = r[1] /\ net' = net \cup r[2]
  /\ UNCHANGED hub

\* toggleAlerts(), shown only while the browser can be subscribed; not beside
\* itself (busy).
SwitchShown == app.push \in {"on", "off"} /\ app.step = "idle" /\ app.toggles < MaxToggles
TurnOn ==
  /\ SwitchShown /\ ~app.alerts /\ app.watched # {}
  /\ app' = [app EXCEPT !.alerts = TRUE, !.stored = TRUE, !.step = "key", !.toggles = @ + 1]
  /\ UNCHANGED <<hub, net>>
TurnOff ==
  /\ SwitchShown /\ app.alerts
  /\ \E a \in {[app EXCEPT !.alerts = FALSE, !.stored = FALSE, !.toggles = @ + 1]} :
       IF a.sub = 0 THEN app' = [a EXCEPT !.push = "off"] /\ UNCHANGED net
       ELSE /\ app' = [a EXCEPT !.step = "off", !.asked = @ + 1]
            /\ net' = net \cup {Request("unsubscribe", a, "page")}
  /\ UNCHANGED hub

\* enablePush(): the server's key, the one prompt, the subscription, the proxy.
Ended(a, push) == Shows([a EXCEPT !.push = push, !.step = "idle"])
KeyRead ==
  /\ app.step = "key"
  /\ \/ Ended(app, "unavailable")
     \/ /\ app' = [app EXCEPT !.step = "permission"]
        /\ UNCHANGED net
  /\ UNCHANGED hub
Asked ==
  /\ app.step = "permission"
  /\ \E answer \in IF app.permission = "default" THEN {"granted", "denied", "default"} ELSE {app.permission} :
     \E a \in {[app EXCEPT !.permission = answer]} :
       \/ answer = "denied" /\ Ended(a, "denied")
       \/ answer = "default" /\ Ended(a, "off")
       \/ answer = "granted" /\ a.sub = 0 /\ Ended(a, "off")   \* subscribe() throws
       \/ /\ answer = "granted"
          /\ \E s \in {IF a.sub = 0 THEN [a EXCEPT !.sub = a.subs + 1, !.subs = @ + 1] ELSE a} :
               /\ app' = [s EXCEPT !.step = "on", !.asked = @ + 1]
               /\ net' = net \cup {Request("subscribe", s, "page")}
  /\ UNCHANGED hub

-------------------------------------------------------------------------------
(* The proxy, and what becomes of a request.                                    *)

\* A request that arrives while an older one about the same endpoint is still
\* under way may be followed by it.
Lands(r) ==
  /\ hub' = [hub EXCEPT ![r.endpoint] = IF r.op = "subscribe" THEN r.row ELSE NoRow]
  /\ \E a \in {[app EXCEPT !.excused = @ \/ \E o \in net : o.endpoint = r.endpoint /\ o.n < r.n]} :
       CASE r.by = Nobody -> app' = a /\ net' = net \ {r}
         \* rememberSymbols() writes the key that watchedPairs.ts retires
         [] r.op = "subscribe" /\ r.by # Nobody ->
              \E s \in {Refreshed([a EXCEPT !.push = "on", !.step = "idle", !.legacy = r.row.symbols])} :
                app' = s[1] /\ net' = (net \ {r}) \cup s[2]
         [] OTHER -> app' = [a EXCEPT !.sub = 0, !.push = "off", !.step = "idle"] /\ net' = net \ {r}

\* No answer, or an error: the request may still arrive. A subscription the proxy
\* is not known to have is undone, the user's own off is kept either way.
Fails(r) ==
  /\ app.losses < MaxLosses
  /\ net' \in {net \ {r}, (net \ {r}) \cup {[r EXCEPT !.by = Nobody]}}
  /\ \E a \in {[app EXCEPT !.losses = @ + 1, !.excused = TRUE]} :
       app' = IF r.by = Nobody THEN a ELSE [a EXCEPT !.sub = 0, !.push = "off", !.step = "idle"]
  /\ UNCHANGED hub

\* The browser refuses to give up the subscription: what the page shows is off.
Kept(r) ==
  /\ r.op = "unsubscribe" /\ r.by # Nobody /\ app.losses < MaxLosses
  /\ hub' = [hub EXCEPT ![r.endpoint] = NoRow]
  /\ app' = [app EXCEPT !.losses = @ + 1, !.excused = TRUE, !.push = "off", !.step = "idle"]
  /\ net' = net \ {r}

Next ==
  \/ PushKnown \/ TurnOn \/ TurnOff \/ KeyRead \/ Asked
  \/ \E account \in Accounts : Open(account)
  \/ \E list \in (SUBSET Pairs) \ {{}} : Choose(list)
  \/ \E r \in net : Lands(r) \/ Fails(r) \/ Kept(r)
Spec == Init /\ [][Next]_vars

-------------------------------------------------------------------------------
(* Once everything asked has arrived, in order and answered, the switch says     *)
(* what happens: on, with the browser able, means the proxy sends this browser   *)
(* exactly the pairs this account watches (webPush.ts:254-260, WatchSettings.tsx *)
(* :89-93); off means it sends it nothing (webPush.ts:220-226), whatever the     *)
(* user did to list, account and switch on the way.                              *)
Arriving == IF app.sub = 0 THEN NoRow ELSE hub[app.sub]
SwitchMeansWhatItSays ==
  net = {} /\ app.step = "idle" /\ ~app.excused =>
    /\ app.alerts /\ app.push = "on" /\ app.watched # {} =>
         Arriving = [account |-> app.account, symbols |-> app.watched]
    /\ ~app.alerts => Arriving = NoRow
===============================================================================
