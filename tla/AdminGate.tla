------------------------------- MODULE AdminGate -------------------------------
(* The secret of the admin: the gate in front of the admin's pages              *)
(* (web/components/AdminGate.tsx), the browser's store that all its tabs share  *)
(* (web/lib/adminAuth.ts), and what the hub makes of a credential               *)
(* (data-hub/src/index.ts). A secret is stored to be checked, and every request *)
(* of the browser, the public pages' too, carries whatever the store holds.     *)
EXTENDS Naturals, FiniteSets

CONSTANTS
  Tabs,          \* the tabs of one browser
  MaxGuesses,    \* wrong secrets an address may present in a minute (10)
  MaxPresses, MaxFaults   \* bounds: secrets typed in, requests that fail

VARIABLES
  hub,   \* [guesses]: what the cache counts of this address
  net,   \* the checks under way
  app    \* [store, old, blocked, pages, presses, faults, left]

vars == <<hub, net, app>>

\* A request's credentials: a right secret is never throttled, a wrong one is nobody's.
Identify(secret) == [right |-> "admin", wrong |-> "bad", none |-> "public"][secret]

\* A wrong one is counted first; an address that has spent its guesses is told so.
OverAuthLimit == hub.guesses >= MaxGuesses
Refusal(secret) == IF Identify(secret) = "bad" /\ OverAuthLimit THEN "throttled" ELSE "refused"

\* The gate's check is a read that only the admin may make; `fails` is a hub out of reach
\* or a database that answers an error.
HubAcceptsAdmin(secret, fails) ==
  IF fails THEN "failed" ELSE IF Identify(secret) = "admin" THEN "ok" ELSE Refusal(secret)

\* countWrongGuess: a count that races another, or cannot be written, is lost
Counts(verdict, secret) ==
  IF verdict = "refused" /\ Identify(secret) = "bad"
  THEN \E more \in {0, 1} : hub' = [hub EXCEPT !.guesses = @ + more] ELSE UNCHANGED hub

-------------------------------------------------------------------------------
(* The store. A secret older than thirty days goes when it is next looked at.   *)

AdminSecret == IF app.old THEN "none" ELSE app.store
SignedIn(a, secret) == IF a.blocked THEN a ELSE [a EXCEPT !.store = secret, !.old = FALSE]
SignedOut(a) == [a EXCEPT !.store = "none", !.old = FALSE]
Looked(a) == IF a.old THEN SignedOut(a) ELSE a

\* Every tab but t may have lost, or been given, another's secret.
Beside(t, a) == [a EXCEPT !.pages = [u \in Tabs |-> [a.pages[u] EXCEPT !.excused = @ \/ u # t]]]

Screen(name) == [screen |-> name, error |-> "none", tried |-> "none", excused |-> FALSE]

Init ==
  /\ hub = [guesses |-> 0]
  /\ net = {}
  /\ \E blocked \in BOOLEAN :
       app = [store |-> "none", old |-> FALSE, blocked |-> blocked, presses |-> 0, faults |-> 0,
              left |-> FALSE, pages |-> [t \in Tabs |-> Screen("form")]]

\* A page of the admin is loaded: it asks the store alone. What it had asked is lost.
Open(t) ==
  /\ net' = {r \in net : r.tab # t}
  /\ app' = [Looked(app) EXCEPT
              !.left = @ \/ \E r \in net : r.tab = t,
              !.pages[t] = [Screen(IF AdminSecret = "none" THEN "form" ELSE "in")
                            EXCEPT !.excused = net # {}]]
  /\ UNCHANGED hub

\* submit(): stored first, because the check has to carry it; a store that is blocked
\* holds nothing, and then nothing is asked.
Submit(t, secret) ==
  /\ app.pages[t].screen = "form" /\ app.presses < MaxPresses /\ \A r \in net : r.tab # t
  /\ LET typed == [Beside(t, SignedIn(app, secret)) EXCEPT !.presses = @ + 1,
                                             !.pages[t] = [Screen("form") EXCEPT !.tried = secret,
                                                                                 !.excused = net # {}]]
     IN  IF app.blocked
         THEN app' = [SignedOut(typed) EXCEPT !.pages[t].error = "unreachable"] /\ UNCHANGED net
         ELSE app' = typed /\ net' = net \cup {[tab |-> t, secret |-> secret]}
  /\ UNCHANGED hub

\* What the page says of a verdict.
ReasonFor(verdict) ==
  [refused |-> "wrong password", throttled |-> "too many", failed |-> "unreachable"][verdict]

\* The check is answered: in, or what the store holds by now is not kept.
Answered(r) ==
  \E fails \in BOOLEAN :
    LET verdict == HubAcceptsAdmin(r.secret, fails)
        a == [app EXCEPT !.faults = @ + IF fails THEN 1 ELSE 0]
    IN  /\ a.faults <= MaxFaults
        /\ net' = net \ {r}
        /\ Counts(verdict, r.secret)
        /\ app' = IF verdict = "ok" THEN [a EXCEPT !.pages[r.tab].screen = "in"]
                  ELSE [SignedOut(a) EXCEPT !.pages[r.tab].error = ReasonFor(verdict)]

\* Any other request of this browser, the badge of the waiting messages on the gate itself
\* among them, carries the store's secret.
Works(t) ==
  /\ app' = Looked(app)
  /\ Counts(HubAcceptsAdmin(AdminSecret, FALSE), AdminSecret)
  /\ UNCHANGED net

\* layout.tsx: the sign-out button, and the page is loaded again
SignOut(t) ==
  /\ app.pages[t].screen = "in"
  /\ app' = [Beside(t, SignedOut(app)) EXCEPT !.pages[t] = Screen("form")]
  /\ UNCHANGED <<hub, net>>

\* The count of a minute, and the thirty days, run out.
MinutePasses == hub.guesses > 0 /\ hub' = [hub EXCEPT !.guesses = 0] /\ UNCHANGED <<net, app>>
MonthPasses ==
  /\ app.store # "none" /\ ~app.old
  /\ app' = [app EXCEPT !.old = TRUE, !.pages = [u \in Tabs |-> [app.pages[u] EXCEPT !.excused = TRUE]]]
  /\ UNCHANGED <<hub, net>>

Next ==
  \/ \E t \in Tabs : Open(t) \/ SignOut(t) \/ Works(t)
  \/ \E t \in Tabs, secret \in {"right", "wrong"} : Submit(t, secret)
  \/ \E r \in net : Answered(r)
  \/ MinutePasses \/ MonthPasses

Spec == Init /\ [][Next]_vars

-------------------------------------------------------------------------------
(* AdminGate.tsx:75, "not accepted, so it is not kept": once no check is under   *)
(* way the store holds no secret the hub refuses, and a page that was let in can *)
(* do what it shows, unless another tab typed or signed out beside it, the month *)
(* ran out, or a page was left in the middle of its check: then the refused      *)
(* secret stays and opens the gate. A right secret is never called wrong.        *)
GateOpensToTheSecret ==
  /\ net = {} /\ ~app.left => app.store # "wrong"
  /\ hub.guesses <= MaxGuesses
  /\ \A t \in Tabs : LET p == app.pages[t] IN
       /\ p.screen = "in" /\ ~p.excused /\ ~app.left => app.store = "right"
       /\ p.error \in {"wrong password", "too many"} => p.tried = "wrong"
===============================================================================
