------------------------------ MODULE PagesProofs ------------------------------
(* What MCPages states of its five pages, proved for every value of its          *)
(* constants. A behaviour is about one page; each has an inductive invariant of  *)
(* its own (GateInv, ReportInv, ListInv, AlertInv, HealthInv), a lemma for its   *)
(* initial states, one for its steps and one that says what it tells.            *)
EXTENDS MCPages, TLAPS

-------------------------------------------------------------------------------
(* The gate: a page that was let in holds the secret                       *)

Secrets == {"right", "wrong"}
GatePage(p) == DOMAIN p = {"screen", "error", "tried", "excused"} /\ p.excused \in BOOLEAN
Screens(screens) ==
  screens = [u \in Tabs |-> screens[u]] /\ \A u \in Tabs : GatePage(screens[u])
GateFields == {"store", "old", "blocked", "pages", "presses", "faults", "left"}

\* A check stands behind a page that waits for it. While it does, any other page is
\* excused, or has neither been let in nor asked.
ChecksOK ==
  /\ net \subseteq [tab : Tabs, secret : Secrets]
  /\ \A r \in net : app.pages[r.tab].screen = "form" /\ app.pages[r.tab].tried = r.secret
  /\ \A r, s \in net : r.tab = s.tab => r = s
  /\ \A r \in net, u \in Tabs : u # r.tab =>
       \/ app.pages[u].excused
       \/ app.pages[u].screen = "form" /\ \A s \in net : s.tab # u

\* What the store holds is a secret being checked, or one that was accepted.
OldExcused == app.old => \A u \in Tabs : app.pages[u].excused
WrongIsChecked == ~app.left /\ app.store = "wrong" => \E r \in net : r.secret = "wrong"
CheckedIsStored == ~app.left => \A r \in net : app.pages[r.tab].excused \/ app.store = r.secret
InIsRight ==
  ~app.left => \A u \in Tabs : app.pages[u].screen = "in" => app.pages[u].excused \/ app.store = "right"
ErrorIsTrue ==
  \A u \in Tabs : app.pages[u].error \in {"wrong password", "too many"} => app.pages[u].tried = "wrong"

GateTypes ==
  /\ DOMAIN hub = {"guesses"} /\ hub.guesses \in 0..MaxGuesses
  /\ DOMAIN app = GateFields /\ app.old \in BOOLEAN /\ app.left \in BOOLEAN
  /\ app.store \in Secrets \cup {"none"} /\ Screens(app.pages)
GateInv ==
  /\ GateTypes /\ ChecksOK
  /\ OldExcused /\ WrongIsChecked /\ CheckedIsStored /\ InIsRight /\ ErrorIsTrue

LEMMA ScreenIs ==
  ASSUME NEW name
  PROVE  LET p == Gate!Screen(name) IN
         GatePage(p) /\ p.screen = name /\ p.error = "none" /\ p.tried = "none" /\ p.excused = FALSE
BY DEF Gate!Screen, GatePage

LEMMA GateStarts == Gate!Init => GateInv
<1> SUFFICES ASSUME Gate!Init PROVE GateInv
  OBVIOUS
<1>1. PICK blocked \in BOOLEAN :
        app = [store |-> "none", old |-> FALSE, blocked |-> blocked, presses |-> 0, faults |-> 0,
               left |-> FALSE, pages |-> [t \in Tabs |-> Gate!Screen("form")]]
  BY DEF Gate!Init
<1>2. /\ DOMAIN app = GateFields /\ app.store = "none" /\ app.old = FALSE /\ app.left = FALSE
      /\ app.pages = [t \in Tabs |-> Gate!Screen("form")]
  BY <1>1 DEF GateFields
<1>3. DOMAIN hub = {"guesses"} /\ hub.guesses \in 0..MaxGuesses /\ net = {}
  BY GuessesAssumption DEF Gate!Init
<1>4. \A u \in Tabs : /\ GatePage(app.pages[u]) /\ app.pages[u].screen = "form"
                      /\ app.pages[u].error = "none"
  BY <1>2, ScreenIs
<1> QED
  BY <1>2, <1>3, <1>4
  DEF GateInv, GateTypes, Screens, ChecksOK, OldExcused, WrongIsChecked, CheckedIsStored,
      InIsRight, ErrorIsTrue

\* What a wrong secret may add to the count.
LEMMA CountsStay ==
  ASSUME DOMAIN hub = {"guesses"}, hub.guesses \in 0..MaxGuesses,
         NEW secret \in Secrets \cup {"none"}, NEW fails \in BOOLEAN,
         Gate!Counts(Gate!HubAcceptsAdmin(secret, fails), secret)
  PROVE  DOMAIN hub' = {"guesses"} /\ hub'.guesses \in 0..MaxGuesses
<1>1. CASE UNCHANGED hub
  BY <1>1
<1>2. CASE /\ Gate!HubAcceptsAdmin(secret, fails) = "refused" /\ Gate!Identify(secret) = "bad"
           /\ \E more \in {0, 1} : hub' = [hub EXCEPT !.guesses = @ + more]
  <2>1. hub.guesses < MaxGuesses
    BY <1>2, GuessesAssumption
    DEF Gate!HubAcceptsAdmin, Gate!Refusal, Gate!OverAuthLimit, Gate!Identify
  <2> QED
    BY <1>2, <2>1, GuessesAssumption
<1> QED
  BY <1>1, <1>2 DEF Gate!Counts

LEMMA Verdicts ==
  ASSUME NEW secret \in Secrets, NEW fails \in BOOLEAN
  PROVE  /\ Gate!HubAcceptsAdmin(secret, fails) \in {"ok", "refused", "throttled", "failed"}
         /\ Gate!HubAcceptsAdmin(secret, fails) = "ok" => secret = "right"
         /\ Gate!HubAcceptsAdmin(secret, fails) \in {"refused", "throttled"} => secret = "wrong"
BY DEF Secrets, Gate!HubAcceptsAdmin, Gate!Refusal, Gate!Identify

\* A page is loaded, and asks the store.
LEMMA OpenHolds ==
  ASSUME GateInv, GateTypes', NEW t \in Tabs,
         app'.pages[t].screen = IF app.old \/ app.store = "none" THEN "form" ELSE "in",
         app'.pages[t].error = "none", net # {} => app'.pages[t].excused,
         \A u \in Tabs \ {t} : app'.pages[u] = app.pages[u],
         net' = {r \in net : r.tab # t}, app'.left <=> app.left \/ \E r \in net : r.tab = t,
         app'.store = (IF app.old THEN "none" ELSE app.store), app'.old = FALSE
  PROVE  GateInv'
<1>1. net' \subseteq net /\ (~app'.left => net' = net /\ ~app.left) /\ \A r \in net' : r.tab # t
  OBVIOUS
<1>2. net' # {} => app'.pages[t].excused
  OBVIOUS
<1>3. ChecksOK'
  BY <1>1, <1>2 DEF GateInv, ChecksOK
<1>4. WrongIsChecked'
  BY <1>1 DEF GateInv, WrongIsChecked
<1>5. CheckedIsStored'
  BY <1>1 DEF GateInv, CheckedIsStored, OldExcused, ChecksOK
<1>6. ASSUME ~app'.left, NEW u \in Tabs, app'.pages[u].screen = "in"
      PROVE  app'.pages[u].excused \/ app'.store = "right"
  <2>1. CASE u # t
    BY <1>1, <1>6, <2>1 DEF GateInv, OldExcused, InIsRight
  <2>2. CASE u = t
    <3>1. ~app.old /\ app.store # "none"
      BY <1>6, <2>2
    <3>2. net # {} \/ app.store # "wrong"
      BY <1>1, <1>6 DEF GateInv, WrongIsChecked
    <3> QED
      BY <2>2, <3>1, <3>2 DEF Secrets, GateInv, GateTypes
  <2> QED
    BY <2>1, <2>2
<1>7. ErrorIsTrue'
  BY DEF GateInv, ErrorIsTrue
<1> QED
  BY <1>3, <1>4, <1>5, <1>6, <1>7 DEF GateInv, OldExcused, InIsRight

\* A secret is typed in: it is checked, or the store does not hold it.
LEMMA SubmitHolds ==
  ASSUME GateInv, GateTypes', NEW t \in Tabs, NEW secret \in Secrets,
         app.pages[t].screen = "form", \A r \in net : r.tab # t,
         \/ net' = net \cup {[tab |-> t, secret |-> secret]} /\ app'.store = secret
         \/ net' = net /\ app'.store = "none",
         app'.old = FALSE, app'.left = app.left,
         app'.pages[t].screen = "form", app'.pages[t].tried = secret,
         net # {} => app'.pages[t].excused,
         app'.pages[t].error \notin {"wrong password", "too many"},
         \A u \in Tabs \ {t} : /\ app'.pages[u].screen = app.pages[u].screen
                               /\ app'.pages[u].tried = app.pages[u].tried
                               /\ app'.pages[u].error = app.pages[u].error /\ app'.pages[u].excused
  PROVE  GateInv'
<1>1. PICK asked : asked = [tab |-> t, secret |-> secret]
  OBVIOUS
<1>2. asked.tab = t /\ asked.secret = secret /\ asked \in [tab : Tabs, secret : Secrets]
  BY <1>1
<1>3. net' \subseteq net \cup {asked} /\ (net' = net \/ app'.store = secret)
  BY <1>1
<1>4. /\ net \subseteq [tab : Tabs, secret : Secrets] /\ \A r, s \in net : r.tab = s.tab => r = s
      /\ \A r \in net : r.tab \in Tabs \ {t}
  BY DEF GateInv, ChecksOK
<1>5. \A r \in net : app'.pages[r.tab].excused
  BY <1>4
<1>6. ChecksOK'
  <2>1. net' \subseteq [tab : Tabs, secret : Secrets]
    BY <1>2, <1>3, <1>4
  <2>2. ASSUME NEW r \in net', NEW s \in net', r.tab = s.tab PROVE r = s
    <3>1. CASE r = asked /\ s = asked
      BY <3>1
    <3>2. CASE r \in net /\ s \in net
      BY <1>4, <2>2, <3>2
    <3>3. CASE r = asked /\ s \in net
      BY <1>2, <1>4, <2>2, <3>3
    <3>4. CASE r \in net /\ s = asked
      BY <1>2, <1>4, <2>2, <3>4
    <3> QED
      BY <1>3, <3>1, <3>2, <3>3, <3>4
  <2>3. ASSUME NEW r \in net'
        PROVE  app'.pages[r.tab].screen = "form" /\ app'.pages[r.tab].tried = r.secret
    <3>1. CASE r = asked
      BY <1>2, <3>1
    <3>2. CASE r \in net
      BY <1>4, <3>2 DEF GateInv, ChecksOK
    <3> QED
      BY <1>3, <3>1, <3>2
  <2>4. ASSUME NEW r \in net', NEW u \in Tabs, u # r.tab PROVE app'.pages[u].excused
    <3>1. CASE r = asked
      BY <1>2, <2>4, <3>1
    <3>2. CASE r \in net
      BY <3>2
    <3> QED
      BY <1>3, <3>1, <3>2
  <2> QED
    BY <2>1, <2>2, <2>3, <2>4 DEF ChecksOK
<1>7. ErrorIsTrue'
  BY DEF GateInv, ErrorIsTrue
<1>8. InIsRight' /\ OldExcused'
  BY DEF InIsRight, OldExcused
<1>9. WrongIsChecked'
  <2>1. CASE net' = net \cup {asked} /\ app'.store = secret
    BY <1>2, <2>1 DEF WrongIsChecked
  <2>2. CASE app'.store = "none"
    BY <2>2 DEF WrongIsChecked
  <2> QED
    BY <1>1, <2>1, <2>2
<1>10. CheckedIsStored'
  <2>1. ASSUME NEW r \in net', ~app'.pages[r.tab].excused PROVE app'.store = r.secret
    <3>1. r = asked /\ r \notin net
      BY <1>3, <1>5, <2>1
    <3> QED
      BY <1>2, <1>3, <3>1
  <2> QED
    BY <2>1 DEF CheckedIsStored
<1> QED
  BY <1>6, <1>7, <1>8, <1>9, <1>10 DEF GateInv

\* A check is answered: the page is let in, or the store holds nothing any more.
LEMMA AnswerHolds ==
  ASSUME GateInv, GateTypes', NEW r \in net, net' = net \ {r}, app'.left = app.left,
         \A u \in Tabs \ {r.tab} : app'.pages[u] = app.pages[u],
         app'.pages[r.tab].tried = app.pages[r.tab].tried,
         app'.pages[r.tab].excused = app.pages[r.tab].excused,
         \/ /\ r.secret = "right" /\ app'.pages[r.tab].screen = "in"
            /\ app'.pages[r.tab].error = app.pages[r.tab].error
            /\ app'.store = app.store /\ app'.old = app.old
         \/ /\ app'.pages[r.tab].screen = "form"
            /\ app'.pages[r.tab].error \in {"wrong password", "too many"} => r.secret = "wrong"
            /\ app'.store = "none" /\ app'.old = FALSE
  PROVE  GateInv'
<1>1. /\ r.tab \in Tabs /\ app.pages[r.tab].screen = "form" /\ app.pages[r.tab].tried = r.secret
      /\ \A s \in net' : s.tab \in Tabs /\ s.tab # r.tab
  BY DEF GateInv, ChecksOK
<1>2. \A s \in net' : app'.pages[s.tab].excused /\ app'.pages[r.tab].excused
  BY <1>1 DEF GateInv, ChecksOK
<1>3. ChecksOK'
  <2>1. /\ net' \subseteq [tab : Tabs, secret : Secrets]
        /\ \A s, q \in net' : s.tab = q.tab => s = q
    BY DEF GateInv, ChecksOK
  <2>2. ASSUME NEW s \in net'
        PROVE  app'.pages[s.tab].screen = "form" /\ app'.pages[s.tab].tried = s.secret
    <3>1. app.pages[s.tab].screen = "form" /\ app.pages[s.tab].tried = s.secret
      BY DEF GateInv, ChecksOK
    <3> QED
      BY <1>1, <3>1
  <2>3. ASSUME NEW s \in net', NEW u \in Tabs, u # s.tab
        PROVE  \/ app'.pages[u].excused
               \/ app'.pages[u].screen = "form" /\ \A q \in net' : q.tab # u
    <3>1. CASE u = r.tab
      BY <1>2, <3>1
    <3>2. CASE u # r.tab
      <4>1. \/ app.pages[u].excused
            \/ app.pages[u].screen = "form" /\ \A q \in net : q.tab # u
        BY <2>3 DEF GateInv, ChecksOK
      <4> QED
        BY <3>2, <4>1
    <3> QED
      BY <3>1, <3>2
  <2> QED
    BY <2>1, <2>2, <2>3 DEF ChecksOK
<1>4. CheckedIsStored'
  BY <1>2 DEF CheckedIsStored
<1>5. CASE /\ r.secret = "right" /\ app'.pages[r.tab].screen = "in"
           /\ app'.pages[r.tab].error = app.pages[r.tab].error
           /\ app'.store = app.store /\ app'.old = app.old
  <2>1. OldExcused'
    BY <1>1, <1>5 DEF GateInv, OldExcused
  <2>2. WrongIsChecked'
    BY <1>5 DEF GateInv, WrongIsChecked
  <2>3. InIsRight'
    BY <1>1, <1>5 DEF GateInv, InIsRight, CheckedIsStored
  <2>4. ErrorIsTrue'
    BY <1>1, <1>5 DEF GateInv, ErrorIsTrue
  <2> QED
    BY <1>3, <1>4, <2>1, <2>2, <2>3, <2>4 DEF GateInv
<1>6. CASE /\ app'.pages[r.tab].screen = "form"
           /\ app'.pages[r.tab].error \in {"wrong password", "too many"} => r.secret = "wrong"
           /\ app'.store = "none" /\ app'.old = FALSE
  <2>1. OldExcused' /\ WrongIsChecked'
    BY <1>6 DEF OldExcused, WrongIsChecked
  <2>2. InIsRight'
    BY <1>1, <1>6 DEF GateInv, InIsRight, ChecksOK
  <2>3. ErrorIsTrue'
    BY <1>1, <1>6 DEF GateInv, ErrorIsTrue
  <2> QED
    BY <1>3, <1>4, <2>1, <2>2, <2>3 DEF GateInv
<1> QED
  BY <1>5, <1>6

LEMMA SignOutHolds ==
  ASSUME GateInv, GateTypes', NEW t \in Tabs, app.pages[t].screen = "in", net' = net,
         app'.store = "none", app'.old = FALSE, app'.left = app.left,
         app'.pages[t].screen = "form", app'.pages[t].error = "none",
         \A u \in Tabs \ {t} : /\ app'.pages[u].screen = app.pages[u].screen
                               /\ app'.pages[u].tried = app.pages[u].tried
                               /\ app'.pages[u].error = app.pages[u].error /\ app'.pages[u].excused
  PROVE  GateInv'
<1>1. \A r \in net : r.tab \in Tabs /\ r.tab # t
  BY DEF GateInv, ChecksOK
<1>2. ChecksOK'
  <2>1. /\ net \subseteq [tab : Tabs, secret : Secrets]
        /\ \A r, s \in net : r.tab = s.tab => r = s
    BY DEF GateInv, ChecksOK
  <2>2. \A r \in net : app'.pages[r.tab].screen = "form" /\ app'.pages[r.tab].tried = r.secret
    BY <1>1 DEF GateInv, ChecksOK
  <2>3. \A r \in net, u \in Tabs : u # r.tab =>
          app'.pages[u].excused \/ (app'.pages[u].screen = "form" /\ \A s \in net : s.tab # u)
    BY <1>1
  <2> QED
    BY <2>1, <2>2, <2>3 DEF ChecksOK
<1>3. CheckedIsStored' /\ InIsRight' /\ OldExcused' /\ WrongIsChecked'
  BY <1>1 DEF CheckedIsStored, InIsRight, OldExcused, WrongIsChecked
<1>4. ErrorIsTrue'
  BY DEF GateInv, ErrorIsTrue
<1> QED
  BY <1>2, <1>3, <1>4 DEF GateInv

\* A secret older than a month is looked at, or becomes that old.
LEMMA LookHolds ==
  ASSUME GateInv, GateTypes', net' = net, app'.pages = app.pages, app'.left = app.left,
         app'.old = FALSE, app'.store = IF app.old THEN "none" ELSE app.store
  PROVE  GateInv'
<1>1. ChecksOK'
  BY DEF GateInv, ChecksOK
<1>2. ErrorIsTrue' /\ OldExcused'
  BY DEF GateInv, ErrorIsTrue, OldExcused
<1>3. WrongIsChecked' /\ CheckedIsStored' /\ InIsRight'
  BY DEF GateInv, ChecksOK, WrongIsChecked, CheckedIsStored, InIsRight, OldExcused
<1> QED
  BY <1>1, <1>2, <1>3 DEF GateInv

LEMMA MonthHolds ==
  ASSUME GateInv, GateTypes', net' = net, app'.left = app.left, app'.store = app.store,
         \A u \in Tabs : /\ app'.pages[u].screen = app.pages[u].screen
                         /\ app'.pages[u].tried = app.pages[u].tried
                         /\ app'.pages[u].error = app.pages[u].error /\ app'.pages[u].excused
  PROVE  GateInv'
<1>1. \A r \in net : r.tab \in Tabs
  BY DEF GateInv, ChecksOK
<1>2. ChecksOK'
  BY <1>1 DEF GateInv, ChecksOK
<1>3. ErrorIsTrue' /\ OldExcused' /\ CheckedIsStored' /\ InIsRight' /\ WrongIsChecked'
  BY <1>1 DEF GateInv, ErrorIsTrue, OldExcused, CheckedIsStored, InIsRight, WrongIsChecked
<1> QED
  BY <1>2, <1>3 DEF GateInv

\* Every tab but t, after t has changed the store.
LEMMA BesideIs ==
  ASSUME Screens(app.pages), NEW t \in Tabs, NEW p, GatePage(p), NEW screens,
         screens = [u \in Tabs |-> IF u = t THEN p ELSE
                    [app.pages[u] EXCEPT !.excused = app.pages[u].excused \/ u # t]]
  PROVE  /\ screens[t] = p /\ Screens(screens)
         /\ \A u \in Tabs \ {t} : /\ screens[u].screen = app.pages[u].screen
                                  /\ screens[u].tried = app.pages[u].tried
                                  /\ screens[u].error = app.pages[u].error /\ screens[u].excused
<1>1. ASSUME NEW u \in Tabs \ {t}
      PROVE  /\ GatePage(screens[u]) /\ screens[u].screen = app.pages[u].screen
             /\ screens[u].tried = app.pages[u].tried /\ screens[u].error = app.pages[u].error
             /\ screens[u].excused
  <2>1. PICK excused \in BOOLEAN : excused = (app.pages[u].excused \/ u # t)
    OBVIOUS
  <2>2. screens[u] = [app.pages[u] EXCEPT !.excused = excused] /\ GatePage(app.pages[u]) /\ excused
    BY <2>1 DEF Screens
  <2> QED
    BY <2>2 DEF GatePage
<1>2. screens[t] = p /\ screens = [u \in Tabs |-> screens[u]]
  OBVIOUS
<1> QED
  BY <1>1, <1>2 DEF Screens

LEMMA OpenIsKept ==
  ASSUME GateInv, NEW t \in Tabs, Gate!Open(t)
  PROVE  GateInv'
<1> DEFINE looked == Gate!Looked(app)
<1>1. PICK p : p = [Gate!Screen(IF Gate!AdminSecret = "none" THEN "form" ELSE "in")
                    EXCEPT !.excused = net # {}]
  OBVIOUS
<1>2. PICK left \in BOOLEAN : left = (app.left \/ \E r \in net : r.tab = t)
  BY DEF GateInv, GateTypes
<1>3. /\ GatePage(p) /\ p.error = "none" /\ (net # {} => p.excused)
      /\ p.screen = IF app.old \/ app.store = "none" THEN "form" ELSE "in"
  <2>1. PICK base : base = Gate!Screen(IF Gate!AdminSecret = "none" THEN "form" ELSE "in")
    OBVIOUS
  <2>2. /\ GatePage(base) /\ base.error = "none"
        /\ base.screen = IF Gate!AdminSecret = "none" THEN "form" ELSE "in"
    BY <2>1, ScreenIs
  <2>3. Gate!AdminSecret = IF app.old THEN "none" ELSE app.store
    BY DEF Gate!AdminSecret
  <2>4. PICK excused \in BOOLEAN : excused = (net # {})
    OBVIOUS
  <2>5. p = [base EXCEPT !.excused = excused]
    BY <1>1, <2>1, <2>4
  <2>6. GatePage(p) /\ p.error = base.error /\ p.excused = excused /\ p.screen = base.screen
    BY <2>2, <2>5 DEF GatePage
  <2> QED
    BY <2>2, <2>3, <2>4, <2>6
<1>4. /\ DOMAIN looked = GateFields /\ looked.store = (IF app.old THEN "none" ELSE app.store)
      /\ looked.old = FALSE /\ looked.left = app.left /\ looked.pages = app.pages
  BY DEF Gate!Looked, Gate!SignedOut, GateInv, GateTypes, GateFields
<1>5. net' = {r \in net : r.tab # t} /\ UNCHANGED hub
  BY DEF Gate!Open
<1>6. app' = [looked EXCEPT !.left = looked.left \/ \E r \in net : r.tab = t,
                            !.pages = [looked.pages EXCEPT ![t] = p]]
  BY <1>1 DEF Gate!Open
<1> HIDE DEF looked
<1>7. app' = [looked EXCEPT !.left = left, !.pages = [app.pages EXCEPT ![t] = p]]
  BY <1>2, <1>4, <1>6
<1>8. /\ DOMAIN app' = GateFields /\ app'.store = (IF app.old THEN "none" ELSE app.store)
      /\ app'.old = FALSE /\ app'.left = left /\ app'.pages = [app.pages EXCEPT ![t] = p]
  BY <1>4, <1>7 DEF GateFields
<1>9. Screens(app'.pages) /\ app'.pages[t] = p /\ \A u \in Tabs \ {t} : app'.pages[u] = app.pages[u]
  BY <1>3, <1>8 DEF GateInv, GateTypes, Screens
<1>10. GateTypes'
  BY <1>5, <1>8, <1>9 DEF GateInv, GateTypes
<1> QED
  BY <1>2, <1>3, <1>5, <1>8, <1>9, <1>10, OpenHolds

LEMMA SubmitIsKept ==
  ASSUME GateInv, NEW t \in Tabs, NEW secret \in Secrets, Gate!Submit(t, secret)
  PROVE  GateInv'
<1> DEFINE in == Gate!SignedIn(app, secret)
<1>1. PICK p : p = [Gate!Screen("form") EXCEPT !.tried = secret, !.excused = net # {}]
  OBVIOUS
<1>2. PICK beside : beside = [u \in Tabs |-> [app.pages[u] EXCEPT
                                              !.excused = app.pages[u].excused \/ u # t]]
  OBVIOUS
<1>3. PICK typed : typed = [Gate!Beside(t, in) EXCEPT !.presses = Gate!Beside(t, in).presses + 1,
                                                     !.pages[t] = p]
  OBVIOUS
<1>4. /\ IF app.blocked
         THEN app' = [Gate!SignedOut(typed) EXCEPT !.pages[t].error = "unreachable"] /\ UNCHANGED net
         ELSE app' = typed /\ net' = net \cup {[tab |-> t, secret |-> secret]}
      /\ UNCHANGED hub
  BY <1>1, <1>3 DEF Gate!Submit
<1>5. app.pages[t].screen = "form" /\ \A r \in net : r.tab # t
  BY DEF Gate!Submit
<1>6. /\ GatePage(p) /\ p.screen = "form" /\ p.tried = secret /\ (net # {} => p.excused)
      /\ p.error = "none"
  <2>1. PICK base : base = Gate!Screen("form")
    OBVIOUS
  <2>2. GatePage(base) /\ base.error = "none" /\ base.screen = "form"
    BY <2>1, ScreenIs
  <2>3. PICK excused \in BOOLEAN : excused = (net # {})
    OBVIOUS
  <2>4. p = [base EXCEPT !.tried = secret, !.excused = excused]
    BY <1>1, <2>1, <2>3
  <2>5. /\ GatePage(p) /\ p.error = base.error /\ p.excused = excused /\ p.screen = base.screen
        /\ p.tried = secret
    BY <2>2, <2>4 DEF GatePage
  <2> QED
    BY <2>2, <2>3, <2>5
<1>7. PICK lost : lost = [p EXCEPT !.error = "unreachable"]
  OBVIOUS
<1>8. /\ GatePage(lost) /\ lost.screen = "form" /\ lost.tried = secret
      /\ (net # {} => lost.excused) /\ lost.error = "unreachable"
  BY <1>6, <1>7 DEF GatePage
<1>9. /\ DOMAIN in = GateFields /\ in.store = (IF app.blocked THEN app.store ELSE secret)
      /\ in.old = (IF app.blocked THEN app.old ELSE FALSE)
      /\ in.left = app.left /\ in.pages = app.pages
  BY DEF Gate!SignedIn, GateInv, GateTypes, GateFields
<1>10. Gate!Beside(t, in) = [in EXCEPT !.pages = beside]
  BY <1>2, <1>9 DEF Gate!Beside
<1> HIDE DEF in
<1>11. PICK shown : shown = IF app.blocked THEN lost ELSE p
  OBVIOUS
<1>12. PICK screens : screens = [beside EXCEPT ![t] = shown]
  OBVIOUS
<1>13. /\ screens[t] = shown /\ Screens(screens)
       /\ \A u \in Tabs \ {t} : /\ screens[u].screen = app.pages[u].screen
                                /\ screens[u].tried = app.pages[u].tried
                                /\ screens[u].error = app.pages[u].error /\ screens[u].excused
  <2>1. screens = [u \in Tabs |-> IF u = t THEN shown ELSE
                    [app.pages[u] EXCEPT !.excused = app.pages[u].excused \/ u # t]]
    BY <1>2, <1>12
  <2>2. GatePage(shown) /\ Screens(app.pages)
    BY <1>6, <1>8, <1>11 DEF GateInv, GateTypes
  <2> QED
    BY <2>1, <2>2, BesideIs
<1>14. /\ DOMAIN typed = GateFields /\ typed.store = in.store /\ typed.old = in.old
       /\ typed.left = app.left /\ typed.pages = [beside EXCEPT ![t] = p]
  BY <1>3, <1>9, <1>10 DEF GateFields
<1>15. /\ DOMAIN app' = GateFields /\ app'.old = FALSE /\ app'.left = app.left
       /\ app'.pages = screens
       /\ app'.store = IF app.blocked THEN "none" ELSE secret
  <2>1. CASE ~app.blocked
    BY <1>4, <1>9, <1>11, <1>12, <1>14, <2>1
  <2>2. CASE app.blocked
    <3>1. PICK out : out = Gate!SignedOut(typed)
      OBVIOUS
    <3>2. /\ DOMAIN out = GateFields /\ out.store = "none" /\ out.old = FALSE
          /\ out.left = app.left /\ out.pages = [beside EXCEPT ![t] = p]
      BY <1>14, <3>1 DEF Gate!SignedOut, GateFields
    <3>3. out.pages[t] = p
      BY <1>2, <3>2
    <3>4. [out.pages EXCEPT ![t] = lost] = screens
      BY <1>2, <1>11, <1>12, <2>2, <3>2
    <3>5. app' = [out EXCEPT !.pages = [out.pages EXCEPT ![t] =
                                          [out.pages[t] EXCEPT !.error = "unreachable"]]]
      BY <1>4, <2>2, <3>1, <3>2
    <3>6. app' = [out EXCEPT !.pages = screens]
      BY <1>7, <3>3, <3>4, <3>5
    <3> QED
      BY <2>2, <3>2, <3>6 DEF GateFields
  <2> QED
    BY <2>1, <2>2
<1>16. GateTypes'
  BY <1>4, <1>13, <1>15 DEF GateInv, GateTypes
<1>17. /\ app'.pages[t].screen = "form" /\ app'.pages[t].tried = secret
       /\ net # {} => app'.pages[t].excused
  BY <1>6, <1>8, <1>11, <1>13, <1>15
<1>18. app'.pages[t].error \notin {"wrong password", "too many"}
  BY <1>6, <1>8, <1>11, <1>13, <1>15
<1>19. \/ net' = net \cup {[tab |-> t, secret |-> secret]} /\ app'.store = secret
       \/ net' = net /\ app'.store = "none"
  BY <1>4, <1>15
<1> QED
  BY <1>5, <1>13, <1>15, <1>16, <1>17, <1>18, <1>19, SubmitHolds

LEMMA AnsweredIsKept ==
  ASSUME GateInv, NEW r \in net, Gate!Answered(r)
  PROVE  GateInv'
<1> DEFINE t == r.tab
<1>1. PICK fails \in BOOLEAN :
        LET verdict == Gate!HubAcceptsAdmin(r.secret, fails)
            a == [app EXCEPT !.faults = app.faults + IF fails THEN 1 ELSE 0]
        IN  /\ net' = net \ {r}
            /\ Gate!Counts(verdict, r.secret)
            /\ app' = IF verdict = "ok" THEN [a EXCEPT !.pages[r.tab].screen = "in"]
                      ELSE [Gate!SignedOut(a) EXCEPT !.pages[r.tab].error = Gate!ReasonFor(verdict)]
  BY DEF Gate!Answered
<1>2. PICK verdict : verdict = Gate!HubAcceptsAdmin(r.secret, fails)
  OBVIOUS
<1>3. PICK a : a = [app EXCEPT !.faults = app.faults + IF fails THEN 1 ELSE 0]
  OBVIOUS
<1>4. /\ r.secret \in Secrets /\ t \in Tabs /\ app.pages[t].screen = "form"
      /\ Screens(app.pages) /\ GatePage(app.pages[t])
  BY DEF GateInv, ChecksOK, GateTypes, Screens
<1>5. /\ verdict \in {"ok", "refused", "throttled", "failed"}
      /\ verdict = "ok" => r.secret = "right"
      /\ verdict \in {"refused", "throttled"} => r.secret = "wrong"
  BY <1>2, <1>4, Verdicts
<1>6. /\ DOMAIN a = GateFields /\ a.store = app.store /\ a.old = app.old /\ a.left = app.left
      /\ a.pages = app.pages
  BY <1>3 DEF GateInv, GateTypes, GateFields
<1>7. net' = net \ {r} /\ DOMAIN hub' = {"guesses"} /\ hub'.guesses \in 0..MaxGuesses
  <2>1. Gate!Counts(Gate!HubAcceptsAdmin(r.secret, fails), r.secret)
    BY <1>1
  <2> QED
    BY <1>1, <1>4, <2>1, CountsStay DEF GateInv, GateTypes
<1>8. CASE verdict = "ok"
  <2>1. app' = [a EXCEPT !.pages[r.tab].screen = "in"]
    BY <1>1, <1>2, <1>3, <1>8
  <2>2. PICK p : p = [app.pages[t] EXCEPT !.screen = "in"]
    OBVIOUS
  <2>3. app' = [a EXCEPT !.pages = [app.pages EXCEPT ![t] = p]]
    BY <1>6, <2>1, <2>2
  <2>4. /\ DOMAIN app' = GateFields /\ app'.store = app.store /\ app'.old = app.old
        /\ app'.left = app.left /\ app'.pages = [app.pages EXCEPT ![t] = p]
    BY <1>6, <2>3 DEF GateFields
  <2>5. /\ GatePage(p) /\ p.screen = "in" /\ p.error = app.pages[t].error
        /\ p.tried = app.pages[t].tried /\ p.excused = app.pages[t].excused
    BY <1>4, <2>2 DEF GatePage
  <2>6. Screens(app'.pages) /\ app'.pages[t] = p /\ \A u \in Tabs \ {t} : app'.pages[u] = app.pages[u]
    BY <1>4, <2>4, <2>5 DEF Screens
  <2>7. GateTypes'
    BY <1>7, <2>4, <2>6 DEF GateInv, GateTypes
  <2> QED
    BY <1>5, <1>7, <1>8, <2>4, <2>5, <2>6, <2>7, AnswerHolds
<1>9. CASE verdict # "ok"
  <2>1. PICK reason : reason = Gate!ReasonFor(verdict)
    OBVIOUS
  <2>2. reason \in {"wrong password", "too many"} => r.secret = "wrong"
    <3>1. CASE verdict = "failed"
      BY <2>1, <3>1 DEF Gate!ReasonFor
    <3>2. CASE verdict # "failed"
      BY <1>5, <1>9, <3>2
    <3> QED
      BY <3>1, <3>2
  <2>3. PICK out : out = Gate!SignedOut(a)
    OBVIOUS
  <2>4. /\ DOMAIN out = GateFields /\ out.store = "none" /\ out.old = FALSE
        /\ out.left = app.left /\ out.pages = app.pages
    BY <1>6, <2>3 DEF Gate!SignedOut, GateFields
  <2>5. app' = [out EXCEPT !.pages[r.tab].error = reason]
    BY <1>1, <1>2, <1>3, <1>9, <2>1, <2>3
  <2>6. PICK p : p = [app.pages[t] EXCEPT !.error = reason]
    OBVIOUS
  <2>7. app' = [out EXCEPT !.pages = [app.pages EXCEPT ![t] = p]]
    BY <2>4, <2>5, <2>6
  <2>8. /\ DOMAIN app' = GateFields /\ app'.store = "none" /\ app'.old = FALSE
        /\ app'.left = app.left /\ app'.pages = [app.pages EXCEPT ![t] = p]
    BY <2>4, <2>7 DEF GateFields
  <2>9. /\ GatePage(p) /\ p.screen = "form" /\ p.error = reason
        /\ p.tried = app.pages[t].tried /\ p.excused = app.pages[t].excused
    BY <1>4, <2>6 DEF GatePage
  <2>10. Screens(app'.pages) /\ app'.pages[t] = p /\ \A u \in Tabs \ {t} : app'.pages[u] = app.pages[u]
    BY <1>4, <2>8, <2>9 DEF Screens
  <2>11. GateTypes'
    BY <1>7, <2>8, <2>10 DEF GateInv, GateTypes
  <2> QED
    BY <1>7, <2>2, <2>8, <2>9, <2>10, <2>11, AnswerHolds
<1> QED
  BY <1>8, <1>9

LEMMA WorksIsKept ==
  ASSUME GateInv, NEW t \in Tabs, Gate!Works(t)
  PROVE  GateInv'
<1>1. /\ DOMAIN app' = GateFields /\ app'.store = (IF app.old THEN "none" ELSE app.store)
      /\ app'.old = FALSE /\ app'.left = app.left /\ app'.pages = app.pages
  <2>1. app' = Gate!Looked(app)
    BY DEF Gate!Works
  <2> QED
    BY <2>1 DEF Gate!Looked, Gate!SignedOut, GateInv, GateTypes, GateFields
<1>2. net' = net /\ Gate!Counts(Gate!HubAcceptsAdmin(Gate!AdminSecret, FALSE), Gate!AdminSecret)
  BY DEF Gate!Works
<1>3. PICK secret \in Secrets \cup {"none"} : secret = Gate!AdminSecret
  BY DEF Gate!AdminSecret, GateInv, GateTypes
<1>4. Gate!Counts(Gate!HubAcceptsAdmin(secret, FALSE), secret)
  BY <1>2, <1>3
<1>5. DOMAIN hub' = {"guesses"} /\ hub'.guesses \in 0..MaxGuesses
  BY <1>4, CountsStay DEF GateInv, GateTypes
<1>6. GateTypes'
  BY <1>1, <1>5 DEF GateInv, GateTypes
<1> QED
  BY <1>1, <1>2, <1>6, LookHolds

LEMMA SignOutIsKept ==
  ASSUME GateInv, NEW t \in Tabs, Gate!SignOut(t)
  PROVE  GateInv'
<1>1. PICK p : p = Gate!Screen("form")
  OBVIOUS
<1>2. GatePage(p) /\ p.screen = "form" /\ p.error = "none"
  BY <1>1, ScreenIs
<1>3. PICK out : out = Gate!SignedOut(app)
  OBVIOUS
<1>4. /\ DOMAIN out = GateFields /\ out.store = "none" /\ out.old = FALSE /\ out.left = app.left
      /\ out.pages = app.pages
  BY <1>3 DEF Gate!SignedOut, GateInv, GateTypes, GateFields
<1>5. PICK beside : beside = [u \in Tabs |-> [app.pages[u] EXCEPT
                                              !.excused = app.pages[u].excused \/ u # t]]
  OBVIOUS
<1>6. Gate!Beside(t, out) = [out EXCEPT !.pages = beside]
  BY <1>4, <1>5 DEF Gate!Beside
<1>7. PICK screens : screens = [beside EXCEPT ![t] = p]
  OBVIOUS
<1>8. PICK after : after = Gate!Beside(t, out)
  OBVIOUS
<1>9. DOMAIN after = GateFields /\ after.store = "none" /\ after.old = FALSE /\ after.left = app.left
      /\ after.pages = beside
  BY <1>4, <1>6, <1>8 DEF GateFields
<1>10. app.pages[t].screen = "in" /\ UNCHANGED <<hub, net>> /\ app' = [after EXCEPT !.pages[t] = p]
  BY <1>1, <1>3, <1>8 DEF Gate!SignOut
<1>11. app' = [after EXCEPT !.pages = screens]
  BY <1>7, <1>9, <1>10
<1>12. /\ DOMAIN app' = GateFields /\ app'.store = "none" /\ app'.old = FALSE
       /\ app'.left = app.left /\ app'.pages = screens
  BY <1>9, <1>11 DEF GateFields
<1>13. /\ screens[t] = p /\ Screens(screens)
       /\ \A u \in Tabs \ {t} : /\ screens[u].screen = app.pages[u].screen
                                /\ screens[u].tried = app.pages[u].tried
                                /\ screens[u].error = app.pages[u].error /\ screens[u].excused
  <2>1. screens = [u \in Tabs |-> IF u = t THEN p ELSE
                    [app.pages[u] EXCEPT !.excused = app.pages[u].excused \/ u # t]]
    BY <1>5, <1>7
  <2>2. Screens(app.pages)
    BY DEF GateInv, GateTypes
  <2> QED
    BY <1>2, <2>1, <2>2, BesideIs
<1>14. GateTypes'
  BY <1>10, <1>12, <1>13 DEF GateInv, GateTypes
<1> QED
  BY <1>2, <1>10, <1>12, <1>13, <1>14, SignOutHolds

LEMMA MinutePassesIsKept ==
  ASSUME GateInv, Gate!MinutePasses
  PROVE  GateInv'
<1>1. UNCHANGED <<net, app>> /\ DOMAIN hub' = {"guesses"} /\ hub'.guesses \in 0..MaxGuesses
  BY GuessesAssumption DEF Gate!MinutePasses, GateInv, GateTypes
<1>2. GateTypes' /\ ChecksOK'
  BY <1>1 DEF GateInv, GateTypes, ChecksOK
<1>3. OldExcused' /\ WrongIsChecked' /\ CheckedIsStored' /\ InIsRight' /\ ErrorIsTrue'
  BY <1>1 DEF GateInv, OldExcused, WrongIsChecked, CheckedIsStored, InIsRight, ErrorIsTrue
<1> QED
  BY <1>2, <1>3 DEF GateInv

LEMMA MonthPassesIsKept ==
  ASSUME GateInv, Gate!MonthPasses
  PROVE  GateInv'
<1>1. PICK screens : screens = [u \in Tabs |-> [app.pages[u] EXCEPT !.excused = TRUE]]
  OBVIOUS
<1>2. app' = [app EXCEPT !.old = TRUE, !.pages = screens] /\ UNCHANGED <<hub, net>>
  BY <1>1 DEF Gate!MonthPasses
<1>3. /\ DOMAIN app' = GateFields /\ app'.store = app.store /\ app'.old = TRUE
      /\ app'.left = app.left /\ app'.pages = screens
  BY <1>2 DEF GateInv, GateTypes, GateFields
<1>4. \A u \in Tabs : /\ GatePage(screens[u]) /\ screens[u].screen = app.pages[u].screen
                      /\ screens[u].tried = app.pages[u].tried
                      /\ screens[u].error = app.pages[u].error /\ screens[u].excused
  BY <1>1 DEF GateInv, GateTypes, Screens, GatePage
<1>5. Screens(screens)
  BY <1>1, <1>4 DEF Screens
<1>6. GateTypes'
  BY <1>2, <1>3, <1>5 DEF GateInv, GateTypes
<1> QED
  BY <1>2, <1>3, <1>4, <1>6, MonthHolds

LEMMA GateStep == GateInv /\ Gate!Next => GateInv'
<1> SUFFICES ASSUME GateInv, Gate!Next PROVE GateInv'
  OBVIOUS
<1>1. CASE \E t \in Tabs : Gate!Open(t) \/ Gate!SignOut(t) \/ Gate!Works(t)
  BY <1>1, OpenIsKept, SignOutIsKept, WorksIsKept
<1>2. CASE \E t \in Tabs, secret \in {"right", "wrong"} : Gate!Submit(t, secret)
  BY <1>2, SubmitIsKept DEF Secrets
<1>3. CASE \E r \in net : Gate!Answered(r)
  BY <1>3, AnsweredIsKept
<1>4. CASE Gate!MinutePasses \/ Gate!MonthPasses
  BY <1>4, MinutePassesIsKept, MonthPassesIsKept
<1> QED
  BY <1>1, <1>2, <1>3, <1>4 DEF Gate!Next

LEMMA GateTells == GateInv => Gate!GateOpensToTheSecret
<1> SUFFICES ASSUME GateInv PROVE Gate!GateOpensToTheSecret
  OBVIOUS
<1>1. net = {} /\ ~app.left => app.store # "wrong"
  BY DEF GateInv, WrongIsChecked
<1>2. hub.guesses <= MaxGuesses
  BY GuessesAssumption DEF GateInv, GateTypes
<1>3. ASSUME NEW t \in Tabs
      PROVE  LET p == app.pages[t] IN
             /\ p.screen = "in" /\ ~p.excused /\ ~app.left => app.store = "right"
             /\ p.error \in {"wrong password", "too many"} => p.tried = "wrong"
  BY DEF GateInv, InIsRight, ErrorIsTrue
<1> QED
  BY <1>1, <1>2, <1>3 DEF Gate!GateOpensToTheSecret

-------------------------------------------------------------------------------
(* The reports: what stands under a question answers it                         *)

ReportFields == {"page", "asks", "shown", "busy", "error", "analysing", "analysis", "asked",
                 "landed", "faults", "excused"}
ReportTypes ==
  /\ DOMAIN app = ReportFields /\ app.page \in {"signals", "strategy"}
  /\ app.busy \in BOOLEAN /\ app.excused \in BOOLEAN
  /\ app.asked \in Nat /\ app.landed \in 0..app.asked

\* Every question has a number of its own. Loads and analyses are asked on one page, runs
\* on the other.
QuestionsOK ==
  /\ \A r \in net : r.n \in 1..app.asked
  /\ \A r, s \in net : r.n = s.n => r = s
  /\ app.page = "signals" => \A r \in net : r.does \in {"load", "analyse"}
  /\ app.page = "strategy" => \A r \in net : r.does = "run"
BusyIsAsked ==
  /\ app.busy => \E r \in net : r.does # "analyse"
  /\ app.analysing => \E r \in net : r.does = "analyse"

\* Shown is what was asked, or excused.
ShownAnswers == app.shown = Nothing \/ app.shown.of = app.asks \/ app.excused

\* The last load asked for is about the filter chosen, and no later one has landed; or it
\* has landed itself, and every load under way is an older one.
LoadsAnswer ==
  app.page = "signals" =>
    \/ \E r \in net : /\ r.does = "load" /\ r.about = app.asks /\ r.n > app.landed
                      /\ \A s \in net : s.does = "load" => s.n <= r.n
    \/ ShownAnswers /\ \A s \in net : s.does = "load" => s.n < app.landed
\* One run at a time, and nothing is shown meanwhile.
RunsAnswer ==
  app.page = "strategy" =>
    /\ \A r, s \in net : r = s
    /\ net # {} => app.busy /\ app.shown = Nothing
    /\ \A r \in net : r.about = app.asks \/ app.excused
    /\ ShownAnswers
ReportInv == ReportTypes /\ QuestionsOK /\ BusyIsAsked /\ LoadsAnswer /\ RunsAnswer

LEMMA ReportTells == ReportInv => Reports!AnswersTheQuestion
<1> SUFFICES ASSUME ReportInv PROVE Reports!AnswersTheQuestion
  OBVIOUS
<1>1. net = {} => ~app.busy /\ ~app.analysing
  BY DEF ReportInv, BusyIsAsked
<1>2. ASSUME app.shown # Nothing, \A r \in net : r.does = "analyse"
      PROVE  app.shown.of = app.asks \/ app.excused
  BY <1>2 DEF ReportInv, ReportTypes, LoadsAnswer, RunsAnswer, ShownAnswers
<1> QED
  BY <1>1, <1>2 DEF Reports!AnswersTheQuestion

\* What is answered is what was asked.
LEMMA AnswerIs ==
  ASSUME NEW q
  PROVE  Reports!AnswerTo(q).of = q
<1>1. Reports!EraSplit(q).of = q
  BY DEF Reports!EraSplit
<1> QED
  BY <1>1 DEF Reports!AnswerTo

LEMMA ReportsStart == Reports!Init => ReportInv
<1> SUFFICES ASSUME Reports!Init PROVE ReportInv
  OBVIOUS
<1>1. PICK page \in {"signals", "strategy"} :
        \E q : /\ app = [page |-> page, asks |-> q, shown |-> Nothing, busy |-> page = "signals",
                         error |-> FALSE, analysing |-> FALSE, analysis |-> Nothing, asked |-> 1,
                         landed |-> 0, faults |-> 0, excused |-> FALSE]
               /\ net = IF page = "signals"
                        THEN {[n |-> 1, does |-> "load", about |-> q, beside |-> Nothing]} ELSE {}
  BY DEF Reports!Init
<1>2. PICK q :
        /\ app = [page |-> page, asks |-> q, shown |-> Nothing, busy |-> page = "signals",
                  error |-> FALSE, analysing |-> FALSE, analysis |-> Nothing, asked |-> 1,
                  landed |-> 0, faults |-> 0, excused |-> FALSE]
        /\ net = IF page = "signals"
                 THEN {[n |-> 1, does |-> "load", about |-> q, beside |-> Nothing]} ELSE {}
  BY <1>1
<1>3. PICK busy \in BOOLEAN : busy = (page = "signals")
  OBVIOUS
<1>4. /\ DOMAIN app = ReportFields /\ app.page = page /\ app.busy = busy /\ app.excused = FALSE
      /\ app.asked = 1 /\ app.landed = 0 /\ app.asks = q /\ app.shown = Nothing
      /\ app.analysing = FALSE
  BY <1>2, <1>3 DEF ReportFields
<1>5. ReportTypes
  <2>1. app.busy \in BOOLEAN /\ app.excused \in BOOLEAN /\ app.page \in {"signals", "strategy"}
    BY <1>1, <1>3, <1>4
  <2>2. app.asked \in Nat /\ app.landed \in 0..app.asked
    BY <1>4
  <2> QED
    BY <1>4, <2>1, <2>2 DEF ReportTypes
<1>6. CASE page = "signals"
  <2>1. PICK r : r = [n |-> 1, does |-> "load", about |-> q, beside |-> Nothing]
    OBVIOUS
  <2>2. net = {r} /\ r.n = 1 /\ r.does = "load" /\ r.about = q
    BY <1>2, <1>6, <2>1
  <2>3. BusyIsAsked /\ RunsAnswer /\ LoadsAnswer
    BY <1>4, <1>6, <2>2 DEF BusyIsAsked, RunsAnswer, LoadsAnswer
  <2>4. QuestionsOK
    BY <1>4, <1>6, <2>2 DEF QuestionsOK
  <2> QED
    BY <1>5, <2>3, <2>4 DEF ReportInv
<1>7. CASE page = "strategy"
  <2>1. net = {} /\ ~busy
    BY <1>1, <1>3, <1>7
  <2>2. QuestionsOK /\ LoadsAnswer
    BY <1>4, <1>7, <2>1 DEF QuestionsOK, LoadsAnswer
  <2>3. BusyIsAsked
    BY <1>3, <1>4, <1>7 DEF BusyIsAsked
  <2>4. RunsAnswer
    BY <1>4, <2>1 DEF RunsAnswer, ShownAnswers
  <2> QED
    BY <1>5, <2>2, <2>3, <2>4 DEF ReportInv
<1> QED
  BY <1>1, <1>6, <1>7

\* A load is asked for, of the filter there is now.
LEMMA LoadAskedHolds ==
  ASSUME ReportInv, ReportTypes', NEW r, net' = net \cup {r}, r.n = app.asked + 1, r.does = "load",
         r.about = app'.asks, app.page = "signals", app'.page = "signals",
         app'.asked = app.asked + 1, app'.landed = app.landed, app'.analysing = app.analysing
  PROVE  ReportInv'
<1>1. app.asked \in Nat /\ app.landed <= app.asked /\ app.landed \in Nat
  BY DEF ReportInv, ReportTypes
<1>2. QuestionsOK'
  <2>1. \A s \in net : s.n \in 1..app.asked /\ s.n # r.n
    BY <1>1 DEF ReportInv, QuestionsOK
  <2> QED
    BY <1>1, <2>1 DEF ReportInv, QuestionsOK
<1>3. BusyIsAsked'
  BY DEF ReportInv, BusyIsAsked
<1>4. LoadsAnswer'
  <2>1. \A s \in net : s.n <= r.n
    BY <1>1 DEF ReportInv, QuestionsOK
  <2>2. r.n > app'.landed /\ r \in net' /\ \A s \in net' : s.n <= r.n
    BY <1>1, <2>1
  <2> QED
    BY <2>2 DEF LoadsAnswer
<1>5. RunsAnswer'
  BY DEF RunsAnswer
<1> QED
  BY <1>2, <1>3, <1>4, <1>5 DEF ReportInv

LEMMA AnalysisAskedHolds ==
  ASSUME ReportInv, ReportTypes', NEW r, net' = net \cup {r}, r.n = app.asked + 1,
         r.does = "analyse", app.page = "signals", app'.page = "signals",
         app'.asked = app.asked + 1, app'.landed = app.landed, app'.busy = app.busy,
         app'.asks = app.asks, app'.shown = app.shown, app'.excused = app.excused
  PROVE  ReportInv'
<1>1. app.asked \in Nat /\ app.landed <= app.asked /\ app.landed \in Nat
  BY DEF ReportInv, ReportTypes
<1>2. QuestionsOK'
  <2>1. \A s \in net : s.n \in 1..app.asked /\ s.n # r.n
    BY <1>1 DEF ReportInv, QuestionsOK
  <2> QED
    BY <1>1, <2>1 DEF ReportInv, QuestionsOK
<1>3. BusyIsAsked'
  BY DEF ReportInv, BusyIsAsked
<1>4. LoadsAnswer'
  BY DEF ReportInv, LoadsAnswer, ShownAnswers
<1>5. RunsAnswer'
  BY DEF RunsAnswer
<1> QED
  BY <1>2, <1>3, <1>4, <1>5 DEF ReportInv

\* A run is asked for.
LEMMA RunAskedHolds ==
  ASSUME ReportInv, ReportTypes', NEW r, net' = net \cup {r}, r.n = app.asked + 1, r.does = "run",
         r.about = app.asks, app.page = "strategy", app'.page = "strategy", ~app.busy, app'.busy,
         app'.asked = app.asked + 1, app'.analysing = app.analysing,
         app'.asks = app.asks, app'.shown = Nothing
  PROVE  ReportInv'
<1>1. net = {} /\ net' = {r}
  BY DEF ReportInv, RunsAnswer
<1>2. app.asked \in Nat /\ app.asked + 1 \in 1..(app.asked + 1)
  BY DEF ReportInv, ReportTypes
<1>3. QuestionsOK' /\ LoadsAnswer' /\ RunsAnswer'
  BY <1>1, <1>2 DEF QuestionsOK, LoadsAnswer, RunsAnswer, ShownAnswers
<1>4. BusyIsAsked'
  BY <1>1 DEF ReportInv, BusyIsAsked
<1> QED
  BY <1>3, <1>4 DEF ReportInv

\* A load lands, or fails.
LEMMA LoadLandsHolds ==
  ASSUME ReportInv, ReportTypes', NEW r \in net, net' = net \ {r}, r.does = "load",
         app.page = "signals", app'.page = "signals", app'.asked = app.asked,
         app'.asks = app.asks, app'.analysing = app.analysing, ~app'.busy,
         app'.landed = (IF r.n > app.landed THEN r.n ELSE app.landed),
         \/ app'.excused
         \/ app'.shown.of = r.about /\ r.n >= app.landed
  PROVE  ReportInv'
<1>1. app.asked \in Nat /\ app.landed \in Nat /\ \A s \in net : s.n \in Nat
  BY DEF ReportInv, ReportTypes, QuestionsOK
<1>2. QuestionsOK' /\ BusyIsAsked' /\ RunsAnswer'
  BY DEF ReportInv, QuestionsOK, BusyIsAsked, RunsAnswer
<1>3. \A s \in net' : s.n # r.n
  BY DEF ReportInv, QuestionsOK
<1>4. LoadsAnswer'
  <2>1. CASE \E q \in net : /\ q.does = "load" /\ q.about = app.asks /\ q.n > app.landed
                            /\ \A s \in net : s.does = "load" => s.n <= q.n
    <3>1. PICK q \in net : /\ q.does = "load" /\ q.about = app.asks /\ q.n > app.landed
                           /\ \A s \in net : s.does = "load" => s.n <= q.n
      BY <2>1
    <3>2. CASE q = r
      <4>1. ShownAnswers'
        BY <3>1, <3>2 DEF ShownAnswers
      <4>2. \A s \in net' : s.does = "load" => s.n < app'.landed
        BY <1>1, <1>3, <3>1, <3>2
      <4> QED
        BY <4>1, <4>2 DEF LoadsAnswer
    <3>3. CASE q # r
      <4>1. q \in net' /\ r.n <= q.n /\ r.n # q.n
        BY <1>3, <3>1, <3>3
      <4>2. q.n > app'.landed
        BY <1>1, <3>1, <4>1
      <4> QED
        BY <3>1, <4>1, <4>2 DEF LoadsAnswer
    <3> QED
      BY <3>2, <3>3
  <2>2. CASE ShownAnswers /\ \A s \in net : s.does = "load" => s.n < app.landed
    <3>1. r.n < app.landed
      BY <2>2
    <3>2. app'.excused /\ app'.landed = app.landed
      BY <1>1, <3>1
    <3> QED
      BY <2>2, <3>2 DEF LoadsAnswer, ShownAnswers
  <2> QED
    BY <2>1, <2>2 DEF ReportInv, LoadsAnswer
<1> QED
  BY <1>2, <1>4 DEF ReportInv

\* An analysis ends, of whatever it was about.
LEMMA AnalysisEndsHolds ==
  ASSUME ReportInv, ReportTypes', NEW r \in net, net' = net \ {r}, r.does = "analyse",
         app'.page = app.page, app'.asked = app.asked, app'.landed = app.landed,
         app'.asks = app.asks, app'.shown = app.shown, app'.busy = app.busy,
         app'.excused = app.excused, ~app'.analysing
  PROVE  ReportInv'
<1>1. app.page = "signals"
  BY DEF ReportInv, ReportTypes, QuestionsOK
<1>2. QuestionsOK' /\ RunsAnswer'
  BY <1>1 DEF ReportInv, QuestionsOK, RunsAnswer
<1>3. BusyIsAsked'
  BY DEF ReportInv, BusyIsAsked
<1>4. LoadsAnswer'
  BY <1>1 DEF ReportInv, LoadsAnswer, ShownAnswers
<1> QED
  BY <1>2, <1>3, <1>4 DEF ReportInv

\* A run ends.
LEMMA RunEndsHolds ==
  ASSUME ReportInv, ReportTypes', NEW r \in net, net' = net \ {r},
         app.page = "strategy", app'.page = "strategy", app'.asked = app.asked,
         app'.asks = app.asks, ~app'.busy, app'.analysing = app.analysing,
         app'.shown = app.shown \/ app'.shown.of = r.about,
         app'.excused = app.excused \/ app'.excused
  PROVE  ReportInv'
<1>1. net' = {} /\ app.shown = Nothing
  BY DEF ReportInv, RunsAnswer
<1>2. app.analysing => FALSE
  BY DEF ReportInv, BusyIsAsked, QuestionsOK
<1>3. QuestionsOK' /\ BusyIsAsked' /\ LoadsAnswer'
  BY <1>1, <1>2 DEF QuestionsOK, BusyIsAsked, LoadsAnswer
<1>4. RunsAnswer'
  BY <1>1 DEF ReportInv, RunsAnswer, ShownAnswers
<1> QED
  BY <1>3, <1>4 DEF ReportInv

LEMMA AsksIs ==
  ASSUME NEW a, NEW does, DOMAIN a = ReportFields, Reports!Asks(a, does)
  PROVE  \E r : /\ net' = net \cup {r} /\ r.n = a.asked + 1 /\ r.does = does /\ r.about = a.asks
                /\ DOMAIN app' = ReportFields /\ app'.asked = a.asked + 1
                /\ app'.page = a.page /\ app'.asks = a.asks /\ app'.shown = a.shown
                /\ app'.busy = a.busy /\ app'.analysing = a.analysing
                /\ app'.landed = a.landed /\ app'.excused = a.excused
<1>1. PICK r : r = [n |-> a.asked + 1, does |-> does, about |-> a.asks, beside |-> a.shown]
  OBVIOUS
<1>2. net' = net \cup {r} /\ app' = [a EXCEPT !.asked = a.asked + 1]
  BY <1>1 DEF Reports!Asks
<1>3. r.n = a.asked + 1 /\ r.does = does /\ r.about = a.asks
  BY <1>1
<1>4. /\ DOMAIN app' = ReportFields /\ app'.asked = a.asked + 1
      /\ app'.page = a.page /\ app'.asks = a.asks /\ app'.shown = a.shown
      /\ app'.busy = a.busy /\ app'.analysing = a.analysing
      /\ app'.landed = a.landed /\ app'.excused = a.excused
  BY <1>2 DEF ReportFields
<1> QED
  BY <1>2, <1>3, <1>4

\* A filter is changed, or the page is loaded again.
LEMMA LoadIsKept ==
  ASSUME ReportInv, app.page = "signals", NEW a, DOMAIN a = ReportFields,
         a.page = app.page, a.asked = app.asked, a.landed = app.landed, a.shown = app.shown,
         a.analysing = app.analysing, a.excused = app.excused, a.busy = TRUE,
         Reports!Asks(a, "load")
  PROVE  ReportInv'
<1>1. PICK r : /\ net' = net \cup {r} /\ r.n = a.asked + 1 /\ r.does = "load" /\ r.about = a.asks
               /\ DOMAIN app' = ReportFields /\ app'.asked = a.asked + 1
               /\ app'.page = a.page /\ app'.asks = a.asks /\ app'.shown = a.shown
               /\ app'.busy = a.busy /\ app'.analysing = a.analysing
               /\ app'.landed = a.landed /\ app'.excused = a.excused
  BY AsksIs
<1>2. app'.page \in {"signals", "strategy"} /\ app'.busy \in BOOLEAN /\ app'.excused \in BOOLEAN
  BY <1>1 DEF ReportInv, ReportTypes
<1>3. app'.asked \in Nat /\ app'.landed \in 0..app'.asked
  BY <1>1 DEF ReportInv, ReportTypes
<1>4. ReportTypes'
  BY <1>1, <1>2, <1>3 DEF ReportTypes
<1> QED
  BY <1>1, <1>4, LoadAskedHolds

LEMMA ChooseFilterIsKept ==
  ASSUME ReportInv, NEW f, Reports!ChooseFilter(f)
  PROVE  ReportInv'
<1>1. PICK a : a = Reports!Loading([app EXCEPT !.asks = f])
  OBVIOUS
<1>2. /\ DOMAIN a = ReportFields /\ a.page = app.page /\ a.asked = app.asked
      /\ a.landed = app.landed /\ a.shown = app.shown /\ a.analysing = app.analysing
      /\ a.excused = app.excused /\ a.busy = TRUE
  BY <1>1 DEF Reports!Loading, ReportInv, ReportTypes, ReportFields
<1>3. app.page = "signals" /\ Reports!Asks(a, "load")
  BY <1>1 DEF Reports!ChooseFilter
<1> QED
  BY <1>2, <1>3, LoadIsKept

LEMMA RefreshIsKept ==
  ASSUME ReportInv, Reports!Refresh
  PROVE  ReportInv'
<1>1. PICK a : a = Reports!Loading(app)
  OBVIOUS
<1>2. /\ DOMAIN a = ReportFields /\ a.page = app.page /\ a.asked = app.asked
      /\ a.landed = app.landed /\ a.shown = app.shown /\ a.analysing = app.analysing
      /\ a.excused = app.excused /\ a.busy = TRUE
  BY <1>1 DEF Reports!Loading, ReportInv, ReportTypes, ReportFields
<1>3. app.page = "signals" /\ Reports!Asks(a, "load")
  BY <1>1 DEF Reports!Refresh
<1> QED
  BY <1>2, <1>3, LoadIsKept

LEMMA AnalyseIsKept ==
  ASSUME ReportInv, Reports!Analyse
  PROVE  ReportInv'
<1>1. PICK a : a = [app EXCEPT !.analysing = TRUE, !.analysis = Nothing]
  OBVIOUS
<1>2. /\ DOMAIN a = ReportFields /\ a.page = app.page /\ a.asked = app.asked
      /\ a.landed = app.landed /\ a.shown = app.shown /\ a.asks = app.asks
      /\ a.excused = app.excused /\ a.busy = app.busy
  BY <1>1 DEF ReportInv, ReportTypes, ReportFields
<1>3. app.page = "signals" /\ Reports!Asks(a, "analyse")
  BY <1>1 DEF Reports!Analyse
<1>4. PICK r : /\ net' = net \cup {r} /\ r.n = a.asked + 1 /\ r.does = "analyse" /\ r.about = a.asks
               /\ DOMAIN app' = ReportFields /\ app'.asked = a.asked + 1
               /\ app'.page = a.page /\ app'.asks = a.asks /\ app'.shown = a.shown
               /\ app'.busy = a.busy /\ app'.analysing = a.analysing
               /\ app'.landed = a.landed /\ app'.excused = a.excused
  BY <1>2, <1>3, AsksIs
<1>5. app'.page \in {"signals", "strategy"} /\ app'.busy \in BOOLEAN /\ app'.excused \in BOOLEAN
  BY <1>2, <1>4 DEF ReportInv, ReportTypes
<1>6. app'.asked \in Nat /\ app'.landed \in 0..app'.asked
  BY <1>2, <1>4 DEF ReportInv, ReportTypes
<1>7. ReportTypes'
  BY <1>4, <1>5, <1>6 DEF ReportTypes
<1> QED
  BY <1>2, <1>3, <1>4, <1>7, AnalysisAskedHolds

LEMMA RunIsKept ==
  ASSUME ReportInv, Reports!Run
  PROVE  ReportInv'
<1>1. PICK a : a = [app EXCEPT !.busy = TRUE, !.shown = Nothing, !.error = FALSE, !.excused = FALSE]
  OBVIOUS
<1>2. /\ DOMAIN a = ReportFields /\ a.page = app.page /\ a.asked = app.asked
      /\ a.landed = app.landed /\ a.shown = Nothing /\ a.asks = app.asks
      /\ a.excused = FALSE /\ a.busy = TRUE /\ a.analysing = app.analysing
  BY <1>1 DEF ReportInv, ReportTypes, ReportFields
<1>3. app.page = "strategy" /\ ~app.busy /\ Reports!Asks(a, "run")
  BY <1>1 DEF Reports!Run
<1>4. PICK r : /\ net' = net \cup {r} /\ r.n = a.asked + 1 /\ r.does = "run" /\ r.about = a.asks
               /\ DOMAIN app' = ReportFields /\ app'.asked = a.asked + 1
               /\ app'.page = a.page /\ app'.asks = a.asks /\ app'.shown = a.shown
               /\ app'.busy = a.busy /\ app'.analysing = a.analysing
               /\ app'.landed = a.landed /\ app'.excused = a.excused
  BY <1>2, <1>3, AsksIs
<1>5. app'.page \in {"signals", "strategy"} /\ app'.busy \in BOOLEAN /\ app'.excused \in BOOLEAN
  BY <1>2, <1>4 DEF ReportInv, ReportTypes
<1>6. app'.asked \in Nat /\ app'.landed \in 0..app'.asked
  BY <1>2, <1>4 DEF ReportInv, ReportTypes
<1>7. ReportTypes'
  BY <1>4, <1>5, <1>6 DEF ReportTypes
<1>8. app'.busy
  BY <1>2, <1>4
<1> QED
  BY <1>2, <1>3, <1>4, <1>7, <1>8, RunAskedHolds

\* The program is changed: nothing is shown, and a run under way is excused.
LEMMA ChooseProgramIsKept ==
  ASSUME ReportInv, NEW p, Reports!ChooseProgram(p)
  PROVE  ReportInv'
<1>1. PICK excused \in BOOLEAN : excused = (app.excused \/ app.busy)
  BY DEF ReportInv, ReportTypes
<1>2. PICK cleared : cleared = Reports!Cleared(app)
  OBVIOUS
<1>3. /\ DOMAIN cleared = ReportFields /\ cleared.page = app.page /\ cleared.asked = app.asked
      /\ cleared.landed = app.landed /\ cleared.shown = Nothing /\ cleared.busy = app.busy
      /\ cleared.analysing = app.analysing /\ cleared.excused = app.excused
  BY <1>2 DEF Reports!Cleared, ReportInv, ReportTypes, ReportFields
<1>4. app.page = "strategy" /\ UNCHANGED net
  BY DEF Reports!ChooseProgram
<1>5. app' = [cleared EXCEPT !.asks = p, !.asked = app.asked + 1, !.excused = excused]
  BY <1>1, <1>2, <1>3 DEF Reports!ChooseProgram
<1>6. /\ DOMAIN app' = ReportFields /\ app'.page = app.page /\ app'.asked = app.asked + 1
      /\ app'.landed = app.landed /\ app'.shown = Nothing /\ app'.busy = app.busy
      /\ app'.analysing = app.analysing /\ app'.excused = excused
  BY <1>3, <1>5 DEF ReportFields
<1>7. app'.page \in {"signals", "strategy"} /\ app'.busy \in BOOLEAN /\ app'.excused \in BOOLEAN
  BY <1>6 DEF ReportInv, ReportTypes
<1>8. app'.asked \in Nat /\ app'.landed \in 0..app'.asked
  BY <1>6 DEF ReportInv, ReportTypes
<1>9. ReportTypes'
  BY <1>6, <1>7, <1>8 DEF ReportTypes
<1>10. QuestionsOK' /\ BusyIsAsked' /\ LoadsAnswer'
  <2>1. \A r \in net : r.n \in 1..app'.asked
    BY <1>6 DEF ReportInv, ReportTypes, QuestionsOK
  <2> QED
    BY <1>4, <1>6, <2>1 DEF ReportInv, QuestionsOK, BusyIsAsked, LoadsAnswer
<1>11. RunsAnswer'
  <2>1. net # {} => app'.excused
    BY <1>1, <1>4, <1>6 DEF ReportInv, RunsAnswer
  <2> QED
    BY <1>4, <1>6, <2>1 DEF ReportInv, RunsAnswer, ShownAnswers
<1> QED
  BY <1>9, <1>10, <1>11 DEF ReportInv

LEMMA LoadedIsKept ==
  ASSUME ReportInv, NEW r \in net, Reports!Loaded(r)
  PROVE  ReportInv'
<1>1. PICK answer : answer = Reports!AnswerTo(r.about)
  OBVIOUS
<1>2. answer.of = r.about
  BY <1>1, AnswerIs
<1>3. /\ app.asked \in Nat /\ app.landed \in 0..app.asked /\ r.n \in 1..app.asked
  BY DEF ReportInv, ReportTypes, QuestionsOK
<1>4. PICK excused \in BOOLEAN : excused = (r.n < app.landed) /\ (excused <=> r.n < app.landed)
  <2>1. CASE r.n < app.landed
    <3>1. (r.n < app.landed) = TRUE
      BY <2>1
    <3> QED
      BY <2>1, <3>1
  <2>2. CASE ~(r.n < app.landed)
    <3>1. (r.n < app.landed) = FALSE
      BY <2>2
    <3> QED
      BY <2>2, <3>1
  <2> QED
    BY <2>1, <2>2
<1>5. /\ r.does = "load" /\ net' = net \ {r}
      /\ app' = [app EXCEPT !.shown = answer, !.busy = FALSE, !.excused = excused,
                            !.landed = IF r.n > app.landed THEN r.n ELSE app.landed]
  BY <1>1, <1>4 DEF Reports!Loaded
<1>6. /\ DOMAIN app' = ReportFields /\ app'.page = app.page /\ app'.asked = app.asked
      /\ app'.asks = app.asks /\ app'.shown = answer /\ app'.busy = FALSE
      /\ app'.analysing = app.analysing /\ app'.excused = excused
      /\ app'.landed = (IF r.n > app.landed THEN r.n ELSE app.landed)
  BY <1>5 DEF ReportInv, ReportTypes, ReportFields
<1>7. app.page = "signals"
  BY <1>5 DEF ReportInv, ReportTypes, QuestionsOK
<1>8. app'.page \in {"signals", "strategy"} /\ app'.busy \in BOOLEAN /\ app'.excused \in BOOLEAN
  BY <1>6, <1>7
<1>9. app'.asked \in Nat /\ app'.landed \in 0..app'.asked
  BY <1>6, <1>3
<1>10. ReportTypes'
  BY <1>6, <1>8, <1>9 DEF ReportTypes
<1>11. app'.excused \/ (app'.shown.of = r.about /\ r.n >= app.landed)
  BY <1>2, <1>4, <1>6, <1>3
<1>12. ~app'.busy
  BY <1>6
<1> QED
  BY <1>5, <1>6, <1>7, <1>10, <1>11, <1>12, LoadLandsHolds

LEMMA ReportedIsKept ==
  ASSUME ReportInv, NEW r \in net, Reports!Reported(r)
  PROVE  ReportInv'
<1>1. PICK answer : answer = Reports!AnswerTo(r.about)
  OBVIOUS
<1>2. answer.of = r.about
  BY <1>1, AnswerIs
<1>3. PICK error : error = (hub = 0)
  OBVIOUS
<1>4. PICK shown : shown = IF hub = 0 THEN app.shown ELSE answer
  OBVIOUS
<1>5. /\ r.does = "run" /\ net' = net \ {r}
      /\ app' = [app EXCEPT !.busy = FALSE, !.error = error, !.shown = shown]
  BY <1>1, <1>3, <1>4 DEF Reports!Reported
<1>6. /\ DOMAIN app' = ReportFields /\ app'.page = app.page /\ app'.asked = app.asked
      /\ app'.asks = app.asks /\ app'.shown = shown /\ app'.busy = FALSE
      /\ app'.analysing = app.analysing /\ app'.excused = app.excused
      /\ app'.landed = app.landed
  BY <1>5 DEF ReportInv, ReportTypes, ReportFields
<1>7. app.page = "strategy"
  BY <1>5 DEF ReportInv, ReportTypes, QuestionsOK
<1>8. app'.page \in {"signals", "strategy"} /\ app'.busy \in BOOLEAN /\ app'.excused \in BOOLEAN
  BY <1>6 DEF ReportInv, ReportTypes
<1>9. app'.asked \in Nat /\ app'.landed \in 0..app'.asked
  BY <1>6 DEF ReportInv, ReportTypes
<1>10. ReportTypes'
  BY <1>6, <1>8, <1>9 DEF ReportTypes
<1>11. ~app'.busy /\ (app'.shown = app.shown \/ app'.shown.of = r.about)
  BY <1>2, <1>4, <1>6
<1> QED
  BY <1>5, <1>6, <1>7, <1>10, <1>11, RunEndsHolds

LEMMA AnalysedIsKept ==
  ASSUME ReportInv, NEW r \in net, Reports!Analysed(r)
  PROVE  ReportInv'
<1>1. PICK analysis : analysis = [rows |-> r.about, numbers |-> r.beside.of]
  OBVIOUS
<1>2. /\ r.does = "analyse" /\ net' = net \ {r}
      /\ app' = [app EXCEPT !.analysing = FALSE, !.analysis = analysis]
  BY <1>1 DEF Reports!Analysed
<1>3. /\ DOMAIN app' = ReportFields /\ app'.page = app.page /\ app'.asked = app.asked
      /\ app'.asks = app.asks /\ app'.shown = app.shown /\ app'.busy = app.busy
      /\ app'.analysing = FALSE /\ app'.excused = app.excused /\ app'.landed = app.landed
  BY <1>2 DEF ReportInv, ReportTypes, ReportFields
<1>4. ReportTypes'
  BY <1>3 DEF ReportInv, ReportTypes
<1>5. ~app'.analysing
  BY <1>3
<1> QED
  BY <1>2, <1>3, <1>4, <1>5, AnalysisEndsHolds

LEMMA FailsIsKept ==
  ASSUME ReportInv, NEW r \in net, Reports!Fails(r)
  PROVE  ReportInv'
<1>1. net' = net \ {r}
  BY DEF Reports!Fails
<1>2. CASE r.does = "analyse"
  <2>1. app' = [app EXCEPT !.faults = app.faults + 1, !.analysing = FALSE]
    BY <1>2 DEF Reports!Fails
  <2>2. /\ DOMAIN app' = ReportFields /\ app'.page = app.page /\ app'.asked = app.asked
        /\ app'.asks = app.asks /\ app'.shown = app.shown /\ app'.busy = app.busy
        /\ app'.analysing = FALSE /\ app'.excused = app.excused /\ app'.landed = app.landed
    BY <2>1 DEF ReportInv, ReportTypes, ReportFields
  <2>3. ReportTypes'
    BY <2>2 DEF ReportInv, ReportTypes
  <2>4. ~app'.analysing
    BY <2>2
  <2> QED
    BY <1>1, <1>2, <2>2, <2>3, <2>4, AnalysisEndsHolds
<1>3. CASE r.does # "analyse"
  <2>1. app' = [app EXCEPT !.faults = app.faults + 1, !.busy = FALSE, !.error = TRUE,
                           !.excused = TRUE,
                           !.landed = IF r.n > app.landed THEN r.n ELSE app.landed]
    BY <1>3 DEF Reports!Fails
  <2>2. /\ DOMAIN app' = ReportFields /\ app'.page = app.page /\ app'.asked = app.asked
        /\ app'.asks = app.asks /\ app'.shown = app.shown /\ app'.busy = FALSE
        /\ app'.analysing = app.analysing /\ app'.excused = TRUE
        /\ app'.landed = (IF r.n > app.landed THEN r.n ELSE app.landed)
    BY <2>1 DEF ReportInv, ReportTypes, ReportFields
  <2>3. /\ app.asked \in Nat /\ app.landed \in 0..app.asked /\ r.n \in 1..app.asked
    BY DEF ReportInv, ReportTypes, QuestionsOK
  <2>4. app'.page \in {"signals", "strategy"} /\ app'.busy \in BOOLEAN /\ app'.excused \in BOOLEAN
    BY <2>2 DEF ReportInv, ReportTypes
  <2>5. app'.asked \in Nat /\ app'.landed \in 0..app'.asked
    BY <2>2, <2>3
  <2>6. ReportTypes'
    BY <2>2, <2>4, <2>5 DEF ReportTypes
  <2>7. ~app'.busy /\ app'.excused
    BY <2>2
  <2>8. CASE app.page = "signals"
    <3>1. r.does = "load"
      BY <1>3, <2>8 DEF ReportInv, QuestionsOK
    <3> QED
      BY <1>1, <2>2, <2>6, <2>7, <2>8, <3>1, LoadLandsHolds
  <2>9. CASE app.page = "strategy"
    BY <1>1, <2>2, <2>6, <2>7, <2>9, RunEndsHolds
  <2> QED
    BY <2>8, <2>9 DEF ReportInv, ReportTypes
<1> QED
  BY <1>2, <1>3

LEMMA ReportsStep == ReportInv /\ Reports!Next => ReportInv'
<1> SUFFICES ASSUME ReportInv, Reports!Next PROVE ReportInv'
  OBVIOUS
<1>1. CASE \E f \in Reports!Filters : Reports!ChooseFilter(f)
  BY <1>1, ChooseFilterIsKept
<1>2. CASE \E p \in Reports!Programs : Reports!ChooseProgram(p)
  BY <1>2, ChooseProgramIsKept
<1>3. CASE Reports!Refresh \/ Reports!Analyse \/ Reports!Run
  BY <1>3, RefreshIsKept, AnalyseIsKept, RunIsKept
<1>4. CASE Reports!PairsChange
  <2>1. UNCHANGED <<net, app>>
    BY <1>4 DEF Reports!PairsChange
  <2>2. ReportTypes' /\ QuestionsOK' /\ BusyIsAsked'
    BY <2>1 DEF ReportInv, ReportTypes, QuestionsOK, BusyIsAsked
  <2>3. LoadsAnswer' /\ RunsAnswer'
    BY <2>1 DEF ReportInv, LoadsAnswer, RunsAnswer, ShownAnswers
  <2> QED
    BY <2>2, <2>3 DEF ReportInv
<1>5. CASE \E r \in net : Reports!Loaded(r) \/ Reports!Reported(r) \/ Reports!Analysed(r) \/ Reports!Fails(r)
  BY <1>5, LoadedIsKept, ReportedIsKept, AnalysedIsKept, FailsIsKept
<1> QED
  BY <1>1, <1>2, <1>3, <1>4, <1>5 DEF Reports!Next

-------------------------------------------------------------------------------
(* The lists: when nothing is under way, a list is its table                    *)

ListFields == {"page", "list", "library", "dialog", "busy", "asked", "presses", "others",
               "faults", "missed", "seen", "landed", "good"}
HandlerFields == {"n", "does", "name", "to", "step", "list", "at"}
ReadSteps == {"read", "answered", "unanswered"}
ListTypes ==
  /\ DOMAIN app = ListFields /\ app.good \in BOOLEAN
  /\ app.asked \in Nat /\ app.landed \in 0..app.asked
  /\ app.missed \in Nat /\ app.seen \in 0..app.missed
HandlersOK ==
  \A r \in net : /\ DOMAIN r = HandlerFields /\ r.n \in 0..app.asked /\ r.at \in 0..app.missed
                 /\ r.does = "library" => r.step \in ReadSteps
BusyIsHandled == app.busy # {} => \E r \in net : r.does # "load"

\* A write has been done whose handler will load the list, or a load of it that was asked
\* for after the k-th question is under way.
Later(k) ==
  \E s \in net : s.does # "library" /\ (s.step = "done" \/ (s.step \in ReadSteps /\ s.n > k))

\* The list shown, or one that may still be shown, is the table, unless a later one is to
\* come or the table has been changed behind the page.
ShownIsTable == app.good /\ ~(app.seen < app.missed) => app.list = hub \/ Later(app.landed)
ReadIsTable ==
  \A r \in net : r.step = "answered" /\ r.n > app.landed /\ ~(r.at < app.missed) =>
                   r.list = hub \/ Later(r.n)
ListInv == ListTypes /\ HandlersOK /\ BusyIsHandled /\ ShownIsTable /\ ReadIsTable

LEMMA ListTells == ListInv => Lists!ListIsTheTable
<1> SUFFICES ASSUME ListInv, net = {} PROVE Lists!ListIsTheTable
  BY DEF Lists!ListIsTheTable
<1>1. app.busy = {}
  BY DEF ListInv, BusyIsHandled
<1>2. app.list = hub \/ ~app.good \/ app.seen < app.missed
  BY DEF ListInv, ShownIsTable, Later
<1> QED
  BY <1>1, <1>2 DEF Lists!ListIsTheTable, Lists!Free

LEMMA ListsStart == Lists!Init => ListInv
<1> SUFFICES ASSUME Lists!Init PROVE ListInv
  OBVIOUS
<1>1. PICK page :
        app = [page |-> page, list |-> Unread, library |-> FALSE, dialog |-> Unread, busy |-> {},
               asked |-> 1, presses |-> 0, others |-> 0, faults |-> 0,
               missed |-> 0, seen |-> 0, landed |-> 0, good |-> TRUE]
  BY DEF Lists!Init
<1>2. /\ DOMAIN app = ListFields /\ app.busy = {} /\ app.asked = 1 /\ app.missed = 0
      /\ app.seen = 0 /\ app.landed = 0 /\ app.good = TRUE
  BY <1>1 DEF ListFields
<1>3. PICK r : r = [n |-> 1, does |-> "load", name |-> Unread, to |-> "on", step |-> "read",
                    list |-> Lists!NoRows, at |-> 0]
  OBVIOUS
<1>4. /\ net = {r} /\ DOMAIN r = HandlerFields /\ r.n = 1 /\ r.at = 0 /\ r.does = "load"
      /\ r.step = "read"
  BY <1>3 DEF Lists!Init, HandlerFields
<1>5. ListTypes
  <2>1. app.asked \in Nat /\ app.landed \in 0..app.asked
    BY <1>2
  <2>2. app.missed \in Nat /\ app.seen \in 0..app.missed
    BY <1>2
  <2>3. app.good \in BOOLEAN
    BY <1>2
  <2> QED
    BY <1>2, <2>1, <2>2, <2>3 DEF ListTypes
<1>6. HandlersOK /\ BusyIsHandled /\ ReadIsTable
  <2>1. r.n \in 0..app.asked /\ r.at \in 0..app.missed
    BY <1>2, <1>4
  <2>2. HandlersOK
    BY <1>4, <2>1 DEF HandlersOK
  <2> QED
    BY <1>2, <1>4, <2>2 DEF BusyIsHandled, ReadIsTable
<1>7. Later(0)
  <2>1. r.does # "library" /\ r.step \in ReadSteps /\ r.n > 0 /\ r \in net
    BY <1>4 DEF ReadSteps
  <2> QED
    BY <2>1 DEF Later
<1>8. ShownIsTable
  BY <1>2, <1>7 DEF ShownIsTable
<1> QED
  BY <1>5, <1>6, <1>8 DEF ListInv

\* A handler starts, or a dialog opens or closes: the list and the table stay.
LEMMA StartHolds ==
  ASSUME ListInv, ListTypes', NEW r, net' = net \cup {r}, DOMAIN r = HandlerFields,
         r.n = app'.asked, r.at = 0, r.does # "load",
         r.step = "write" \/ (r.step = "read" /\ r.does = "library"),
         r.does = "library" => r.step = "read",
         hub' = hub, app'.asked = app.asked + 1, app'.landed = app.landed,
         app'.missed = app.missed, app'.seen = app.seen, app'.list = app.list,
         app'.good = app.good
  PROVE  ListInv'
<1>1. HandlersOK'
  <2>1. \A s \in net : s.n \in 0..app'.asked
    BY DEF ListInv, ListTypes, HandlersOK
  <2>2. r.n \in 0..app'.asked /\ r.at \in 0..app'.missed
    BY DEF ListTypes
  <2> QED
    BY <2>1, <2>2 DEF ListInv, HandlersOK, ReadSteps
<1>2. BusyIsHandled'
  BY DEF BusyIsHandled
<1>3. ASSUME NEW k PROVE Later(k) => Later(k)'
  BY DEF Later
<1>4. ShownIsTable'
  BY <1>3 DEF ListInv, ShownIsTable
<1>5. ReadIsTable'
  BY <1>3 DEF ListInv, ReadIsTable
<1> QED
  BY <1>1, <1>2, <1>4, <1>5 DEF ListInv

\* A write is done, refused, or its answer is lost: then it counts as missed.
LEMMA WriteHolds ==
  ASSUME ListInv, ListTypes', NEW r \in net, r.step = "write", NEW q,
         net' = (net \ {r}) \cup {q}, DOMAIN q = HandlerFields,
         q.n = r.n, q.at = r.at, q.does = r.does, q.step \in {"done", "refused", "thrown"},
         \/ hub' = hub /\ app'.missed = app.missed
         \/ q.step = "done" /\ app'.missed = app.missed
         \/ app'.missed = app.missed + 1,
         app'.asked = app.asked, app'.landed = app.landed, app'.busy = app.busy,
         app'.seen = app.seen, app'.list = app.list, app'.good = app.good
  PROVE  ListInv'
<1>1. r.does # "library" /\ r.n \in 0..app.asked /\ r.at \in 0..app.missed
  BY DEF ListInv, HandlersOK, ReadSteps
<1>2. app.missed \in Nat /\ app.seen \in 0..app.missed /\ \A s \in net : s.at \in 0..app.missed
  BY DEF ListInv, ListTypes, HandlersOK
<1>3. HandlersOK'
  BY <1>1, <1>2 DEF ListInv, HandlersOK
<1>4. BusyIsHandled'
  BY DEF ListInv, BusyIsHandled
<1>5. ASSUME NEW k, Later(k) PROVE Later(k)'
  <2>1. PICK s \in net : s.does # "library" /\ (s.step = "done" \/ (s.step \in ReadSteps /\ s.n > k))
    BY <1>5 DEF Later
  <2>2. s # r
    BY <2>1 DEF ReadSteps
  <2> QED
    BY <2>1, <2>2 DEF Later
<1>6. CASE hub' = hub /\ app'.missed = app.missed
  <2>1. ShownIsTable'
    BY <1>5, <1>6 DEF ListInv, ShownIsTable
  <2>2. ReadIsTable'
    BY <1>5, <1>6 DEF ListInv, ReadIsTable
  <2> QED
    BY <1>3, <1>4, <2>1, <2>2 DEF ListInv
<1>7. CASE q.step = "done"
  <2>1. ASSUME NEW k PROVE Later(k)'
    BY <1>1, <1>7 DEF Later
  <2> QED
    BY <1>3, <1>4, <2>1 DEF ListInv, ShownIsTable, ReadIsTable
<1>8. CASE app'.missed = app.missed + 1
  <2>1. app'.seen < app'.missed
    BY <1>2, <1>8
  <2>2. \A s \in net' : s.at < app'.missed
    BY <1>1, <1>2, <1>8
  <2> QED
    BY <1>3, <1>4, <2>1, <2>2 DEF ListInv, ShownIsTable, ReadIsTable
<1> QED
  BY <1>6, <1>7, <1>8

\* A read is answered with the table, or fails.
LEMMA ReadHolds ==
  ASSUME ListInv, ListTypes', NEW r \in net, r.step = "read", NEW q,
         net' = (net \ {r}) \cup {q}, DOMAIN q = HandlerFields, q.n = r.n, q.does = r.does,
         \/ q.step = "answered" /\ q.list = hub /\ q.at = app.missed
         \/ q.step = "unanswered" /\ q.at = r.at,
         hub' = hub, app'.missed = app.missed,
         app'.asked = app.asked, app'.landed = app.landed, app'.busy = app.busy,
         app'.seen = app.seen, app'.list = app.list, app'.good = app.good
  PROVE  ListInv'
<1>1. app.missed \in Nat /\ r.n \in 0..app.asked /\ r.at \in 0..app.missed
  BY DEF ListInv, ListTypes, HandlersOK
<1>2. HandlersOK'
  <2>1. q.at = app.missed \/ q.at = r.at
    OBVIOUS
  <2>2. q.at \in 0..app'.missed
    BY <1>1, <2>1
  <2> QED
    BY <1>1, <2>2 DEF ListInv, HandlersOK, ReadSteps
<1>3. BusyIsHandled'
  BY DEF ListInv, BusyIsHandled
<1>4. ASSUME NEW k, Later(k) PROVE Later(k)'
  <2>1. PICK s \in net : s.does # "library" /\ (s.step = "done" \/ (s.step \in ReadSteps /\ s.n > k))
    BY <1>4 DEF Later
  <2>2. CASE s = r
    BY <2>1, <2>2 DEF Later, ReadSteps
  <2>3. CASE s # r
    BY <2>1, <2>3 DEF Later
  <2> QED
    BY <2>2, <2>3
<1>5. ShownIsTable'
  BY <1>4 DEF ListInv, ShownIsTable
<1>6. ReadIsTable'
  BY <1>4 DEF ListInv, ReadIsTable
<1> QED
  BY <1>2, <1>3, <1>5, <1>6 DEF ListInv

\* A write has been answered, and the list is loaded again.
LEMMA ReloadHolds ==
  ASSUME ListInv, ListTypes', NEW r \in net, r.step \in {"done", "refused", "thrown"}, NEW q,
         net' = (net \ {r}) \cup {q}, DOMAIN q = HandlerFields,
         q.n = app.asked + 1, q.at = r.at, q.does = r.does, q.step = "read",
         hub' = hub, app'.missed = app.missed,
         app'.asked = app.asked + 1, app'.landed = app.landed, app'.busy = app.busy,
         app'.seen = app.seen, app'.list = app.list, app'.good = app.good
  PROVE  ListInv'
<1>1. /\ app.asked \in Nat /\ app.landed \in 0..app.asked /\ r.at \in 0..app.missed
      /\ r.does # "library" /\ \A s \in net : s.n \in 0..app.asked
  BY DEF ListInv, ListTypes, HandlersOK, ReadSteps
<1>2. HandlersOK'
  <2>1. q.n \in 0..app'.asked /\ \A s \in net : s.n \in 0..app'.asked
    BY <1>1
  <2> QED
    BY <1>1, <2>1 DEF ListInv, HandlersOK, ReadSteps
<1>3. BusyIsHandled'
  BY DEF ListInv, BusyIsHandled
<1>4. ASSUME NEW k \in 0..app.asked PROVE Later(k)'
  <2>1. q \in net' /\ q.does # "library" /\ q.step \in ReadSteps
    BY <1>1 DEF ReadSteps
  <2>2. q.n > k
    BY <1>1
  <2> QED
    BY <2>1, <2>2 DEF Later
<1>5. ShownIsTable'
  BY <1>1, <1>4 DEF ShownIsTable
<1>6. ReadIsTable'
  <2>1. ASSUME NEW s \in net', s.step = "answered" PROVE s \in net
    BY <2>1
  <2> QED
    BY <1>1, <1>4, <2>1 DEF ReadIsTable
<1> QED
  BY <1>2, <1>3, <1>5, <1>6 DEF ListInv

\* A handler ends with the answer to its write.
LEMMA EndHolds ==
  ASSUME ListInv, ListTypes', NEW r \in net, r.step \in {"refused", "thrown"}, net' = net \ {r},
         hub' = hub, app'.missed = app.missed, app'.busy = {},
         app'.asked = app.asked, app'.landed = app.landed,
         app'.seen = app.seen, app'.list = app.list, app'.good = app.good
  PROVE  ListInv'
<1>1. HandlersOK' /\ BusyIsHandled'
  BY DEF ListInv, HandlersOK, BusyIsHandled
<1>2. ASSUME NEW k, Later(k) PROVE Later(k)'
  BY <1>2 DEF Later, ReadSteps
<1>3. ShownIsTable'
  BY <1>2 DEF ListInv, ShownIsTable
<1>4. ReadIsTable'
  BY <1>2 DEF ListInv, ReadIsTable
<1> QED
  BY <1>1, <1>3, <1>4 DEF ListInv

\* The scraper's catalogue lands.
LEMMA LibraryHolds ==
  ASSUME ListInv, ListTypes', NEW r \in net, r.does = "library", net' = net \ {r},
         hub' = hub, app'.missed = app.missed, app'.busy = {},
         app'.asked = app.asked, app'.landed = app.landed,
         app'.seen = app.seen, app'.list = app.list, app'.good = app.good
  PROVE  ListInv'
<1>1. HandlersOK' /\ BusyIsHandled'
  BY DEF ListInv, HandlersOK, BusyIsHandled
<1>2. ASSUME NEW k, Later(k) PROVE Later(k)'
  BY <1>2 DEF Later
<1>3. ShownIsTable'
  BY <1>2 DEF ListInv, ShownIsTable
<1>4. ReadIsTable'
  BY <1>2 DEF ListInv, ReadIsTable
<1> QED
  BY <1>1, <1>3, <1>4 DEF ListInv

\* A list lands, and takes the shown one's place.
LEMMA LandHolds ==
  ASSUME ListInv, ListTypes', NEW r \in net, r.step \in {"answered", "unanswered"},
         r.does # "library", net' = net \ {r}, hub' = hub, app'.missed = app.missed,
         app'.busy = (IF r.does = "load" THEN app.busy ELSE {}),
         app'.asked = app.asked,
         app'.landed = (IF r.n > app.landed THEN r.n ELSE app.landed),
         app'.seen = r.at, app'.list = r.list,
         app'.good => r.step = "answered" /\ r.n > app.landed
  PROVE  ListInv'
<1>1. app.landed \in Nat /\ \A s \in net : s.n \in Nat
  <2>1. app.asked \in Nat /\ app.landed \in 0..app.asked /\ \A s \in net : s.n \in 0..app.asked
    BY DEF ListInv, ListTypes, HandlersOK
  <2> QED
    BY <2>1
<1>2. HandlersOK' /\ BusyIsHandled'
  BY DEF ListInv, HandlersOK, BusyIsHandled
<1>3. ASSUME NEW k, r.n <= k, k \in Nat, Later(k) PROVE Later(k)'
  <2>1. PICK s \in net : s.does # "library" /\ (s.step = "done" \/ (s.step \in ReadSteps /\ s.n > k))
    BY <1>3 DEF Later
  <2>2. s # r
    <3>1. CASE s.step = "done"
      BY <3>1
    <3>2. CASE s.n > k
      BY <1>1, <1>3, <3>2
    <3> QED
      BY <2>1, <3>1, <3>2
  <2> QED
    BY <2>1, <2>2 DEF Later
<1>4. ShownIsTable'
  <2>1. ASSUME app'.good, ~(app'.seen < app'.missed)
        PROVE  app'.list = hub' \/ Later(app.landed)'
    <3>1. r.step = "answered" /\ r.n > app.landed /\ app'.landed = r.n
      BY <2>1
    <3>2. r.list = hub \/ Later(r.n)
      BY <2>1, <3>1 DEF ListInv, ReadIsTable
    <3>3. r.n \in Nat /\ r.n <= r.n
      BY <1>1
    <3>4. PICK k \in Nat : k = r.n
      BY <3>3
    <3>5. Later(k) => Later(k)'
      BY <1>3, <3>3, <3>4
    <3>6. Later(k)' => Later(app.landed)'
      BY <3>1, <3>4 DEF Later
    <3> QED
      BY <3>2, <3>4, <3>5, <3>6
  <2> QED
    BY <2>1 DEF ShownIsTable
<1>5. ReadIsTable'
  <2> SUFFICES ASSUME NEW s \in net', s.step = "answered", s.n > app'.landed, ~(s.at < app'.missed)
               PROVE  s.list = hub' \/ Later(s.n)'
    BY DEF ReadIsTable
  <2>1. s.n > app.landed /\ r.n <= s.n /\ s \in net
    <3>1. s \in net /\ s.n \in Nat /\ r.n \in Nat
      BY <1>1
    <3>2. CASE r.n > app.landed
      BY <1>1, <3>1, <3>2
    <3>3. CASE ~(r.n > app.landed)
      BY <1>1, <3>1, <3>3
    <3> QED
      BY <3>1, <3>2, <3>3
  <2>2. s.list = hub \/ Later(s.n)
    BY <2>1 DEF ListInv, ReadIsTable
  <2> QED
    BY <1>1, <1>3, <2>1, <2>2
<1> QED
  BY <1>2, <1>4, <1>5 DEF ListInv

\* The table is changed behind the page.
LEMMA ElsewhereHolds ==
  ASSUME ListInv, ListTypes', net' = net, app'.missed = app.missed + 1, app'.busy = app.busy,
         app'.asked = app.asked, app'.landed = app.landed, app'.seen = app.seen
  PROVE  ListInv'
<1>1. app.missed \in Nat /\ app.seen \in 0..app.missed /\ \A s \in net : s.at \in 0..app.missed
  BY DEF ListInv, ListTypes, HandlersOK
<1>2. HandlersOK' /\ BusyIsHandled'
  BY <1>1 DEF ListInv, HandlersOK, BusyIsHandled
<1>3. app'.seen < app'.missed /\ \A s \in net' : s.at < app'.missed
  BY <1>1
<1> QED
  BY <1>2, <1>3 DEF ListInv, ShownIsTable, ReadIsTable

LEMMA StartsIsKept ==
  ASSUME ListInv, NEW does, NEW name, NEW to, NEW step, Lists!Starts(does, name, to, step),
         does # "load", step = "write" \/ (step = "read" /\ does = "library"),
         does = "library" => step = "read"
  PROVE  ListInv'
<1>1. PICK r : r = [n |-> app.asked + 1, does |-> does, name |-> name, to |-> to,
                    step |-> step, list |-> Lists!NoRows, at |-> 0]
  OBVIOUS
<1>2. PICK busy : busy = IF app.page = "users" THEN {name} ELSE Pairs
  OBVIOUS
<1>3. /\ net' = net \cup {r} /\ hub' = hub
      /\ app' = [app EXCEPT !.asked = app.asked + 1, !.presses = app.presses + 1, !.busy = busy]
  BY <1>1, <1>2 DEF Lists!Starts
<1>4. /\ DOMAIN r = HandlerFields /\ r.n = app.asked + 1 /\ r.at = 0 /\ r.does = does
      /\ r.step = step
  BY <1>1 DEF HandlerFields
<1>5. /\ DOMAIN app' = ListFields /\ app'.asked = app.asked + 1 /\ app'.landed = app.landed
      /\ app'.missed = app.missed /\ app'.seen = app.seen /\ app'.list = app.list
      /\ app'.good = app.good
  BY <1>3 DEF ListInv, ListTypes, ListFields
<1>6. ListTypes'
  BY <1>5 DEF ListInv, ListTypes
<1> QED
  BY <1>3, <1>4, <1>5, <1>6, StartHolds

LEMMA DialogIsKept ==
  ASSUME ListInv, NEW dialog, app' = [app EXCEPT !.dialog = dialog], UNCHANGED <<hub, net>>
  PROVE  ListInv'
<1>1. /\ DOMAIN app' = ListFields /\ app'.asked = app.asked /\ app'.landed = app.landed
      /\ app'.missed = app.missed /\ app'.seen = app.seen /\ app'.list = app.list
      /\ app'.good = app.good /\ app'.busy = app.busy
  BY DEF ListInv, ListTypes, ListFields
<1>2. ListTypes' /\ HandlersOK' /\ BusyIsHandled'
  BY <1>1 DEF ListInv, ListTypes, HandlersOK, BusyIsHandled
<1>3. ASSUME NEW k, Later(k) PROVE Later(k)'
  BY <1>3 DEF Later
<1>4. ShownIsTable'
  BY <1>1, <1>3 DEF ListInv, ShownIsTable
<1>5. ReadIsTable'
  BY <1>1, <1>3 DEF ListInv, ReadIsTable
<1> QED
  BY <1>2, <1>4, <1>5 DEF ListInv

LEMMA WriteIsKept ==
  ASSUME ListInv, NEW r \in net, Lists!Write(r)
  PROVE  ListInv'
<1>1. PICK step \in {"done", "refused"} :
        /\ net' = (net \ {r}) \cup {[r EXCEPT !.step = step]}
        /\ step = "done" \/ hub' = hub
  BY DEF Lists!Write
<1>2. r.step = "write" /\ UNCHANGED app
  BY DEF Lists!Write
<1>3. PICK q : q = [r EXCEPT !.step = step]
  OBVIOUS
<1>4. DOMAIN q = HandlerFields /\ q.n = r.n /\ q.at = r.at /\ q.does = r.does /\ q.step = step
  BY <1>3 DEF ListInv, HandlersOK, HandlerFields
<1>5. ListTypes'
  BY <1>2 DEF ListInv, ListTypes
<1>6. net' = (net \ {r}) \cup {q} /\ q.step \in {"done", "refused", "thrown"}
  BY <1>1, <1>3, <1>4
<1>7. \/ hub' = hub /\ app'.missed = app.missed
      \/ q.step = "done" /\ app'.missed = app.missed
  BY <1>1, <1>2, <1>4
<1> QED
  BY <1>2, <1>4, <1>5, <1>6, <1>7, WriteHolds

LEMMA WriteFailsIsKept ==
  ASSUME ListInv, NEW r \in net, Lists!WriteFails(r)
  PROVE  ListInv'
<1>1. PICK step \in {"refused", "thrown"} :
        /\ net' = (net \ {r}) \cup {[r EXCEPT !.step = step]}
        /\ step = "thrown" \/ hub' = hub
        /\ app' = [app EXCEPT !.faults = app.faults + 1,
                              !.missed = app.missed + (IF step = "thrown" THEN 1 ELSE 0)]
  BY DEF Lists!WriteFails
<1>2. r.step = "write"
  BY DEF Lists!WriteFails
<1>3. PICK q : q = [r EXCEPT !.step = step]
  OBVIOUS
<1>4. DOMAIN q = HandlerFields /\ q.n = r.n /\ q.at = r.at /\ q.does = r.does /\ q.step = step
  BY <1>3 DEF ListInv, HandlersOK, HandlerFields
<1>5. PICK missed : missed = app.missed + (IF step = "thrown" THEN 1 ELSE 0)
  OBVIOUS
<1>6. app.missed \in Nat /\ app.seen \in 0..app.missed
  BY DEF ListInv, ListTypes
<1>7. missed \in Nat /\ app.seen \in 0..missed /\ missed \in {app.missed, app.missed + 1}
  BY <1>5, <1>6
<1>8. app' = [app EXCEPT !.faults = app.faults + 1, !.missed = missed]
  BY <1>1, <1>5
<1>9. /\ DOMAIN app' = ListFields /\ app'.asked = app.asked /\ app'.landed = app.landed
      /\ app'.missed = missed /\ app'.seen = app.seen /\ app'.list = app.list
      /\ app'.good = app.good /\ app'.busy = app.busy
  BY <1>8 DEF ListInv, ListTypes, ListFields
<1>10. ListTypes'
  BY <1>7, <1>9 DEF ListInv, ListTypes
<1>11. net' = (net \ {r}) \cup {q} /\ q.step \in {"done", "refused", "thrown"}
  BY <1>1, <1>3, <1>4
<1>12. \/ hub' = hub /\ app'.missed = app.missed
       \/ app'.missed = app.missed + 1
  <2>1. CASE step = "thrown"
    BY <1>5, <1>9, <2>1
  <2>2. CASE step # "thrown"
    BY <1>1, <1>5, <1>6, <1>9, <2>2
  <2> QED
    BY <2>1, <2>2
<1> QED
  BY <1>2, <1>4, <1>9, <1>10, <1>11, <1>12, WriteHolds

LEMMA ReadIsKept ==
  ASSUME ListInv, NEW r \in net, Lists!Read(r)
  PROVE  ListInv'
<1>1. r.step = "read" /\ hub' = hub /\ DOMAIN r = HandlerFields
  BY DEF Lists!Read, ListInv, HandlersOK
<1>2. CASE /\ net' = (net \ {r}) \cup {[r EXCEPT !.step = "answered", !.list = hub, !.at = app.missed]}
           /\ UNCHANGED app
  <2>1. PICK q : q = [r EXCEPT !.step = "answered", !.list = hub, !.at = app.missed]
    OBVIOUS
  <2>2. /\ DOMAIN q = HandlerFields /\ q.n = r.n /\ q.does = r.does /\ q.step = "answered"
        /\ q.list = hub /\ q.at = app.missed
    BY <1>1, <2>1 DEF HandlerFields
  <2>3. ListTypes'
    BY <1>2 DEF ListInv, ListTypes
  <2>4. net' = (net \ {r}) \cup {q}
    BY <1>2, <2>1
  <2> QED
    BY <1>1, <1>2, <2>2, <2>3, <2>4, ReadHolds
<1>3. CASE /\ app' = [app EXCEPT !.faults = app.faults + 1]
           /\ net' = (net \ {r}) \cup {[r EXCEPT !.step = "unanswered", !.list = Lists!NoRows]}
  <2>1. PICK q : q = [r EXCEPT !.step = "unanswered", !.list = Lists!NoRows]
    OBVIOUS
  <2>2. /\ DOMAIN q = HandlerFields /\ q.n = r.n /\ q.does = r.does /\ q.step = "unanswered"
        /\ q.at = r.at
    BY <1>1, <2>1 DEF HandlerFields
  <2>3. /\ DOMAIN app' = ListFields /\ app'.asked = app.asked /\ app'.landed = app.landed
        /\ app'.missed = app.missed /\ app'.seen = app.seen /\ app'.list = app.list
        /\ app'.good = app.good /\ app'.busy = app.busy
    BY <1>3 DEF ListInv, ListTypes, ListFields
  <2>4. ListTypes'
    BY <2>3 DEF ListInv, ListTypes
  <2>5. net' = (net \ {r}) \cup {q}
    BY <1>3, <2>1
  <2> QED
    BY <1>1, <2>2, <2>3, <2>4, <2>5, ReadHolds
<1> QED
  BY <1>2, <1>3 DEF Lists!Read

LEMMA AnswerEndsOrReloads ==
  ASSUME ListInv, NEW r \in net, Lists!Answered(r)
  PROVE  ListInv'
<1>1. r.step \in {"done", "refused", "thrown"} /\ hub' = hub /\ DOMAIN r = HandlerFields
  BY DEF Lists!Answered, ListInv, HandlersOK
<1>2. CASE Lists!Reloads(r)
  <2>1. PICK q : q = [r EXCEPT !.step = "read", !.n = app.asked + 1]
    OBVIOUS
  <2>2. PICK dialog : dialog = IF r.does \in {"save", "colour"} THEN Unread ELSE app.dialog
    OBVIOUS
  <2>3. /\ net' = (net \ {r}) \cup {q}
        /\ app' = [app EXCEPT !.asked = app.asked + 1, !.dialog = dialog]
    BY <1>2, <2>1, <2>2 DEF Lists!Answered
  <2>4. /\ DOMAIN q = HandlerFields /\ q.n = app.asked + 1 /\ q.does = r.does /\ q.step = "read"
        /\ q.at = r.at
    BY <1>1, <2>1 DEF HandlerFields
  <2>5. /\ DOMAIN app' = ListFields /\ app'.asked = app.asked + 1 /\ app'.landed = app.landed
        /\ app'.missed = app.missed /\ app'.seen = app.seen /\ app'.list = app.list
        /\ app'.good = app.good /\ app'.busy = app.busy
    BY <2>3 DEF ListInv, ListTypes, ListFields
  <2>6. ListTypes'
    BY <2>5 DEF ListInv, ListTypes
  <2> QED
    BY <1>1, <2>3, <2>4, <2>5, <2>6, ReloadHolds
<1>3. CASE ~Lists!Reloads(r)
  <2>1. net' = net \ {r} /\ app' = [app EXCEPT !.busy = {}]
    BY <1>3 DEF Lists!Answered
  <2>2. r.step \in {"refused", "thrown"}
    BY <1>1, <1>3 DEF Lists!Reloads
  <2>3. /\ DOMAIN app' = ListFields /\ app'.asked = app.asked /\ app'.landed = app.landed
        /\ app'.missed = app.missed /\ app'.seen = app.seen /\ app'.list = app.list
        /\ app'.good = app.good /\ app'.busy = {}
    BY <2>1 DEF ListInv, ListTypes, ListFields
  <2>4. ListTypes'
    BY <2>3 DEF ListInv, ListTypes
  <2> QED
    BY <1>1, <2>1, <2>2, <2>3, <2>4, EndHolds
<1> QED
  BY <1>2, <1>3

LEMMA LandedIsKept ==
  ASSUME ListInv, NEW r \in net, Lists!Landed(r)
  PROVE  ListInv'
<1>1. r.step \in {"answered", "unanswered"} /\ net' = net \ {r} /\ hub' = hub
  BY DEF Lists!Landed
<1>2. CASE r.does = "library"
  <2>1. PICK library : library = (r.step = "answered")
    OBVIOUS
  <2>2. app' = [app EXCEPT !.library = library, !.busy = {}]
    BY <1>2, <2>1 DEF Lists!Landed
  <2>3. /\ DOMAIN app' = ListFields /\ app'.asked = app.asked /\ app'.landed = app.landed
        /\ app'.missed = app.missed /\ app'.seen = app.seen /\ app'.list = app.list
        /\ app'.good = app.good /\ app'.busy = {}
    BY <2>2 DEF ListInv, ListTypes, ListFields
  <2>4. ListTypes'
    BY <2>3 DEF ListInv, ListTypes
  <2> QED
    BY <1>1, <1>2, <2>3, <2>4, LibraryHolds
<1>3. CASE r.does # "library"
  <2>1. PICK busy : busy = IF r.does = "load" THEN app.busy ELSE {}
    OBVIOUS
  <2>2. PICK landed : landed = IF r.n > app.landed THEN r.n ELSE app.landed
    OBVIOUS
  <2>3. PICK good \in BOOLEAN : good = (r.step = "answered" /\ r.n > app.landed)
    OBVIOUS
  <2>4. app' = [app EXCEPT !.list = r.list, !.busy = busy, !.seen = r.at, !.landed = landed,
                           !.good = good]
    BY <1>3, <2>1, <2>2, <2>3 DEF Lists!Landed
  <2>5. /\ DOMAIN app' = ListFields /\ app'.asked = app.asked /\ app'.landed = landed
        /\ app'.missed = app.missed /\ app'.seen = r.at /\ app'.list = r.list
        /\ app'.good = good /\ app'.busy = busy
    BY <2>4 DEF ListInv, ListTypes, ListFields
  <2>6. /\ app.asked \in Nat /\ app.landed \in 0..app.asked /\ r.n \in 0..app.asked
        /\ app.missed \in Nat /\ r.at \in 0..app.missed
    BY DEF ListInv, ListTypes, HandlersOK
  <2>7. landed \in 0..app.asked
    BY <2>2, <2>6
  <2>8. ListTypes'
    BY <2>5, <2>6, <2>7 DEF ListTypes
  <2>9. app'.good => r.step = "answered" /\ r.n > app.landed
    BY <2>3, <2>5
  <2> QED
    BY <1>1, <1>3, <2>1, <2>2, <2>5, <2>8, <2>9, LandHolds
<1> QED
  BY <1>2, <1>3

LEMMA ElsewhereIsKept ==
  ASSUME ListInv, Lists!Elsewhere
  PROVE  ListInv'
<1>1. /\ app' = [app EXCEPT !.others = app.others + 1, !.missed = app.missed + 1]
      /\ net' = net
  BY DEF Lists!Elsewhere
<1>2. /\ DOMAIN app' = ListFields /\ app'.asked = app.asked /\ app'.landed = app.landed
      /\ app'.missed = app.missed + 1 /\ app'.seen = app.seen /\ app'.list = app.list
      /\ app'.good = app.good /\ app'.busy = app.busy
  BY <1>1 DEF ListInv, ListTypes, ListFields
<1>3. app.missed \in Nat /\ app.seen \in 0..app.missed
  BY DEF ListInv, ListTypes
<1>4. app'.missed \in Nat /\ app'.seen \in 0..app'.missed
  BY <1>2, <1>3
<1>5. ListTypes'
  BY <1>2, <1>4 DEF ListInv, ListTypes
<1> QED
  BY <1>1, <1>2, <1>5, ElsewhereHolds

LEMMA ListsStep == ListInv /\ Lists!Next => ListInv'
<1> SUFFICES ASSUME ListInv, Lists!Next PROVE ListInv'
  OBVIOUS
<1>1. CASE \E r \in net : \/ Lists!Write(r) \/ Lists!WriteFails(r) \/ Lists!Read(r)
                          \/ Lists!Answered(r) \/ Lists!Landed(r)
  BY <1>1, WriteIsKept, WriteFailsIsKept, ReadIsKept, AnswerEndsOrReloads, LandedIsKept
<1>2. ASSUME NEW name, Lists!OpenDialog(name) PROVE ListInv'
  BY <1>2, DialogIsKept DEF Lists!OpenDialog
<1>3. ASSUME NEW name, Lists!RemoveBroker(name) \/ Lists!RemovePair(name) PROVE ListInv'
  BY <1>3, StartsIsKept DEF Lists!RemoveBroker, Lists!RemovePair
<1>4. ASSUME NEW name, Lists!SaveQuickColor(name) \/ Lists!PatchUser(name) \/ Lists!Patch(name)
      PROVE  ListInv'
  BY <1>4, StartsIsKept DEF Lists!SaveQuickColor, Lists!PatchUser, Lists!Patch
<1>5. ASSUME NEW name, Lists!GrantVip(name) \/ Lists!ImportPair(name) PROVE ListInv'
  BY <1>5, StartsIsKept DEF Lists!GrantVip, Lists!ImportPair
<1>6. CASE Lists!CloseDialog
  BY <1>6, DialogIsKept DEF Lists!CloseDialog
<1>7. CASE Lists!Save
  BY <1>7, StartsIsKept DEF Lists!Save
<1>8. CASE Lists!LoadLibrary
  BY <1>8, StartsIsKept DEF Lists!LoadLibrary
<1>9. CASE Lists!Elsewhere
  BY <1>9, ElsewhereIsKept
<1> QED
  BY <1>1, <1>2, <1>3, <1>4, <1>5, <1>6, <1>7, <1>8, <1>9 DEF Lists!Next

-------------------------------------------------------------------------------
(* The alerts: the switch says what the proxy will send                         *)

AlertFields == {"account", "watched", "alerts", "push", "step", "permission", "sub", "subs",
                "lists", "legacy", "stored", "asked", "opens", "choices", "toggles", "losses",
                "excused"}
RequestFields == {"n", "op", "endpoint", "row", "by"}

\* A subscription is made while the switch is being turned on, one for every turn at most.
BrowserOK(h, a) ==
  /\ DOMAIN h = Alerts!Endpoints /\ DOMAIN a = AlertFields
  /\ a.asked \in Nat /\ a.subs \in Nat /\ a.toggles \in 0..MaxToggles
  /\ a.sub \in 0..a.subs /\ a.subs <= a.toggles
  /\ a.step \in {"key", "permission"} => a.subs < a.toggles
\* A browser that is subscribed was allowed to be, and is wanted to be.
SwitchOK(a) ==
  /\ a.alerts \in BOOLEAN /\ a.stored = a.alerts /\ a.excused \in BOOLEAN
  /\ a.sub # 0 => a.permission = "granted"
  /\ a.push = "on" \/ a.step = "on" => a.sub # 0
  /\ a.step \in {"key", "permission", "on"} => a.alerts
  /\ ~a.excused /\ a.sub # 0 => a.alerts \/ a.step = "off"
\* Requests have numbers of their own, and the page waits for one of them at most.
RequestsOK(a, N) ==
  /\ \A r \in N : DOMAIN r = RequestFields /\ r.n \in 1..a.asked
  /\ \A r, s \in N : r.n = s.n => r = s
  /\ \A r, s \in N : r.by # Nobody /\ s.by # Nobody => r = s
  /\ \A r \in N : r.by # Nobody => a.step = IF r.op = "subscribe" THEN "on" ELSE "off"
\* The last thing asked about the browser's subscription is to be sent this row, or nothing
\* is asked about it and the proxy has the row.
WillArrive(h, a, N, row) ==
  \/ \E r \in N : /\ r.endpoint = a.sub /\ r.op = "subscribe" /\ r.row = row
                  /\ \A s \in N : s.endpoint = a.sub => s.n <= r.n
  \/ h[a.sub] = row /\ \A s \in N : s.endpoint # a.sub
Wanted(a) == [account |-> a.account, symbols |-> a.watched]
OnIsSent(h, a, N) ==
  ~a.excused /\ a.step = "idle" /\ a.alerts /\ a.push = "on" /\ a.watched # {} =>
    WillArrive(h, a, N, Wanted(a))
AlertInv ==
  BrowserOK(hub, app) /\ SwitchOK(app) /\ RequestsOK(app, net) /\ OnIsSent(hub, app, net)

LEMMA AlertsTell == AlertInv => Alerts!SwitchMeansWhatItSays
<1> SUFFICES ASSUME AlertInv, net = {}, app.step = "idle", ~app.excused
             PROVE  /\ app.alerts /\ app.push = "on" /\ app.watched # {} =>
                         Alerts!Arriving = [account |-> app.account, symbols |-> app.watched]
                    /\ ~app.alerts => Alerts!Arriving = Alerts!NoRow
  BY DEF Alerts!SwitchMeansWhatItSays
<1>1. ASSUME app.alerts, app.push = "on", app.watched # {}
      PROVE  Alerts!Arriving = [account |-> app.account, symbols |-> app.watched]
  <2>1. app.sub # 0
    BY <1>1 DEF AlertInv, SwitchOK
  <2>2. hub[app.sub] = Wanted(app)
    BY <1>1 DEF AlertInv, OnIsSent, WillArrive
  <2> QED
    BY <2>1, <2>2 DEF Alerts!Arriving, Wanted
<1>2. ASSUME ~app.alerts PROVE Alerts!Arriving = Alerts!NoRow
  <2>1. app.sub = 0
    BY <1>2 DEF AlertInv, SwitchOK
  <2> QED
    BY <2>1 DEF Alerts!Arriving
<1> QED
  BY <1>1, <1>2

LEMMA AlertsStart == Alerts!Init => AlertInv
<1> SUFFICES ASSUME Alerts!Init PROVE AlertInv
  OBVIOUS
<1>1. PICK lists, account :
        app = [account |-> account, watched |-> {}, alerts |-> FALSE, push |-> "unknown",
               step |-> "idle", permission |-> "default", sub |-> 0, subs |-> 0,
               lists |-> lists, legacy |-> Nobody, stored |-> FALSE, asked |-> 0, opens |-> 0,
               choices |-> 0, toggles |-> 0, losses |-> 0, excused |-> FALSE]
  BY DEF Alerts!Init
<1>2. /\ DOMAIN app = AlertFields /\ app.watched = {} /\ app.alerts = FALSE /\ app.push = "unknown"
      /\ app.step = "idle" /\ app.sub = 0 /\ app.subs = 0 /\ app.stored = FALSE
      /\ app.asked = 0 /\ app.toggles = 0 /\ app.excused = FALSE
  BY <1>1 DEF AlertFields
<1>3. net = {} /\ DOMAIN hub = Alerts!Endpoints
  BY DEF Alerts!Init
<1>4. BrowserOK(hub, app)
  BY <1>2, <1>3, TogglesAssumption DEF BrowserOK
<1>5. SwitchOK(app)
  BY <1>2 DEF SwitchOK
<1>6. RequestsOK(app, net) /\ OnIsSent(hub, app, net)
  BY <1>2, <1>3 DEF RequestsOK, OnIsSent
<1> QED
  BY <1>4, <1>5, <1>6 DEF AlertInv

\* Whatever has changed, the refresh makes good what is asked.
LEMMA RefreshHolds ==
  ASSUME NEW h, NEW a, NEW N, NEW b, NEW m, BrowserOK(h, a), SwitchOK(a), RequestsOK(a, N),
         NEW sent, sent = Alerts!Refreshed(a), b = sent[1], m = N \cup sent[2]
  PROVE  BrowserOK(h, b) /\ SwitchOK(b) /\ RequestsOK(b, m) /\ OnIsSent(h, b, m)
<1>1. CASE a.push = "on" /\ a.watched # {} /\ a.permission = "granted" /\ a.sub # 0
  <2>1. PICK r : r = Alerts!Request("subscribe", a, Nobody)
    OBVIOUS
  <2>2. b = [a EXCEPT !.asked = a.asked + 1] /\ m = N \cup {r}
    BY <1>1, <2>1 DEF Alerts!Refreshed
  <2>3. /\ DOMAIN b = AlertFields /\ b.asked = a.asked + 1 /\ b.account = a.account
        /\ b.watched = a.watched /\ b.alerts = a.alerts /\ b.push = a.push /\ b.step = a.step
        /\ b.permission = a.permission /\ b.sub = a.sub /\ b.subs = a.subs
        /\ b.stored = a.stored /\ b.toggles = a.toggles /\ b.excused = a.excused
    BY <2>2 DEF BrowserOK, AlertFields
  <2>4. /\ DOMAIN r = RequestFields /\ r.n = a.asked + 1 /\ r.op = "subscribe"
        /\ r.endpoint = a.sub /\ r.row = Wanted(a) /\ r.by = Nobody
    BY <2>1 DEF Alerts!Request, RequestFields, Wanted
  <2>5. BrowserOK(h, b)
    BY <2>3 DEF BrowserOK
  <2>6. SwitchOK(b)
    BY <2>3 DEF SwitchOK
  <2>7. a.asked \in Nat /\ \A s \in N : s.n \in 1..a.asked
    BY DEF BrowserOK, RequestsOK
  <2>8. r.n \in 1..b.asked /\ \A s \in N : s.n \in 1..b.asked /\ s.n # r.n /\ s.n <= r.n
    BY <2>3, <2>4, <2>7
  <2>9. RequestsOK(b, m)
    BY <2>2, <2>3, <2>4, <2>8 DEF RequestsOK
  <2>10. Wanted(b) = Wanted(a)
    BY <2>3 DEF Wanted
  <2>11. r.n <= r.n
    BY <2>4, <2>7
  <2>12. OnIsSent(h, b, m)
    BY <2>2, <2>3, <2>4, <2>8, <2>10, <2>11 DEF OnIsSent, WillArrive
  <2> QED
    BY <2>5, <2>6, <2>9, <2>12
<1>2. CASE ~(a.push = "on" /\ a.watched # {} /\ a.permission = "granted" /\ a.sub # 0)
  <2>1. b = a /\ m = N
    BY <1>2 DEF Alerts!Refreshed
  <2>2. ~(a.push = "on" /\ a.watched # {})
    BY <1>2 DEF SwitchOK
  <2>3. OnIsSent(h, b, m)
    BY <2>1, <2>2 DEF OnIsSent
  <2> QED
    BY <2>1, <2>3
<1> QED
  BY <1>1, <1>2

LEMMA ShowsHolds ==
  ASSUME NEW a, BrowserOK(hub, a), SwitchOK(a), RequestsOK(a, net), Alerts!Shows(a), hub' = hub
  PROVE  AlertInv'
<1>1. PICK sent : sent = Alerts!Refreshed(a) /\ app' = sent[1] /\ net' = net \cup sent[2]
  BY DEF Alerts!Shows
<1>2. PICK b : b = app'
  OBVIOUS
<1>3. PICK m : m = net'
  OBVIOUS
<1>4. BrowserOK(hub, b) /\ SwitchOK(b) /\ RequestsOK(b, m) /\ OnIsSent(hub, b, m)
  BY <1>1, <1>2, <1>3, RefreshHolds
<1> QED
  BY <1>2, <1>3, <1>4 DEF AlertInv

LEMMA OpenPageIsKept ==
  ASSUME AlertInv, NEW account, Alerts!Open(account)
  PROVE  AlertInv'
<1>1. PICK excused \in BOOLEAN : excused = (app.excused \/ app.step # "idle")
  BY DEF AlertInv, SwitchOK
<1>2. PICK a : a = [app EXCEPT !.account = account, !.opens = app.opens + 1, !.excused = excused]
  OBVIOUS
<1>3. /\ DOMAIN a = AlertFields /\ a.alerts = app.alerts /\ a.stored = app.stored
      /\ a.permission = app.permission /\ a.sub = app.sub /\ a.subs = app.subs
      /\ a.asked = app.asked /\ a.toggles = app.toggles /\ a.excused = excused
  BY <1>2 DEF AlertInv, BrowserOK, AlertFields
<1>4. PICK watched : watched = Alerts!Loaded(a)
  OBVIOUS
<1>5. /\ app' = [a EXCEPT !.watched = watched, !.alerts = a.stored, !.push = "unknown",
                          !.step = "idle"]
      /\ net' = {[r EXCEPT !.by = Nobody] : r \in net} /\ hub' = hub
  BY <1>1, <1>2, <1>4 DEF Alerts!Open
<1>6. /\ DOMAIN app' = AlertFields /\ app'.alerts = app.stored /\ app'.stored = app.stored
      /\ app'.permission = app.permission /\ app'.sub = app.sub /\ app'.subs = app.subs
      /\ app'.asked = app.asked /\ app'.toggles = app.toggles /\ app'.excused = excused
      /\ app'.push = "unknown" /\ app'.step = "idle"
  BY <1>3, <1>5 DEF AlertFields
<1>7. BrowserOK(hub', app')
  BY <1>5, <1>6 DEF AlertInv, BrowserOK
<1>8. SwitchOK(app')
  BY <1>1, <1>6 DEF AlertInv, SwitchOK
<1>9. ASSUME NEW q \in net'
      PROVE  \E r \in net : q = [r EXCEPT !.by = Nobody] /\ q.n = r.n /\ q.by = Nobody
                            /\ DOMAIN q = RequestFields
  <2>1. PICK r \in net : q = [r EXCEPT !.by = Nobody]
    BY <1>5
  <2> QED
    BY <2>1 DEF AlertInv, RequestsOK, RequestFields
<1>10. RequestsOK(app', net')
  <2>1. \A r \in net' : DOMAIN r = RequestFields /\ r.n \in 1..app'.asked /\ r.by = Nobody
    BY <1>6, <1>9 DEF AlertInv, RequestsOK
  <2>2. ASSUME NEW r \in net', NEW s \in net', r.n = s.n PROVE r = s
    <3>1. PICK u \in net : r = [u EXCEPT !.by = Nobody] /\ r.n = u.n
      BY <1>9
    <3>2. PICK v \in net : s = [v EXCEPT !.by = Nobody] /\ s.n = v.n
      BY <1>9
    <3>3. u = v
      BY <2>2, <3>1, <3>2 DEF AlertInv, RequestsOK
    <3> QED
      BY <3>1, <3>2, <3>3
  <2> QED
    BY <2>1, <2>2 DEF RequestsOK
<1>11. OnIsSent(hub', app', net')
  BY <1>6 DEF OnIsSent
<1> QED
  BY <1>7, <1>8, <1>10, <1>11 DEF AlertInv

LEMMA PushKnownIsKept ==
  ASSUME AlertInv, Alerts!PushKnown
  PROVE  AlertInv'
<1>1. PICK state : /\ state = "on" => app.sub # 0
                   /\ Alerts!Shows([app EXCEPT !.push = state])
  BY DEF Alerts!PushKnown
<1>2. PICK a : a = [app EXCEPT !.push = state]
  OBVIOUS
<1>3. /\ DOMAIN a = AlertFields /\ a.alerts = app.alerts /\ a.stored = app.stored
      /\ a.permission = app.permission /\ a.sub = app.sub /\ a.subs = app.subs
      /\ a.asked = app.asked /\ a.toggles = app.toggles /\ a.excused = app.excused
      /\ a.push = state /\ a.step = app.step
  BY <1>2 DEF AlertInv, BrowserOK, AlertFields
<1>4. BrowserOK(hub, a) /\ RequestsOK(a, net)
  BY <1>3 DEF AlertInv, BrowserOK, RequestsOK
<1>5. SwitchOK(a)
  BY <1>1, <1>3 DEF AlertInv, SwitchOK
<1> QED
  BY <1>1, <1>2, <1>4, <1>5, ShowsHolds DEF Alerts!PushKnown

LEMMA ChooseIsKept ==
  ASSUME AlertInv, NEW list, Alerts!Choose(list)
  PROVE  AlertInv'
<1>1. PICK a : a = [app EXCEPT !.watched = list, !.lists[app.account] = list, !.legacy = Nobody,
                               !.choices = app.choices + 1]
  OBVIOUS
<1>2. Alerts!Shows(a) /\ hub' = hub
  BY <1>1 DEF Alerts!Choose, Alerts!Chosen, Alerts!Shows
<1>3. PICK lists : lists = [app.lists EXCEPT ![app.account] = list]
  OBVIOUS
<1>4. a = [app EXCEPT !.watched = list, !.lists = lists, !.legacy = Nobody,
                      !.choices = app.choices + 1]
  BY <1>1, <1>3 DEF AlertInv, BrowserOK, AlertFields
<1>5. /\ DOMAIN a = AlertFields /\ a.alerts = app.alerts /\ a.stored = app.stored
      /\ a.permission = app.permission /\ a.sub = app.sub /\ a.subs = app.subs
      /\ a.asked = app.asked /\ a.toggles = app.toggles /\ a.excused = app.excused
      /\ a.push = app.push /\ a.step = app.step
  BY <1>4 DEF AlertInv, BrowserOK, AlertFields
<1>6. BrowserOK(hub, a) /\ RequestsOK(a, net)
  BY <1>5 DEF AlertInv, BrowserOK, RequestsOK
<1>7. SwitchOK(a)
  BY <1>5 DEF AlertInv, SwitchOK
<1> QED
  BY <1>2, <1>6, <1>7, ShowsHolds

LEMMA TurnOnIsKept ==
  ASSUME AlertInv, Alerts!TurnOn
  PROVE  AlertInv'
<1>1. /\ app.step = "idle" /\ app.toggles < MaxToggles /\ net' = net /\ hub' = hub
      /\ app' = [app EXCEPT !.alerts = TRUE, !.stored = TRUE, !.step = "key",
                            !.toggles = app.toggles + 1]
  BY DEF Alerts!TurnOn, Alerts!SwitchShown
<1>2. /\ DOMAIN app' = AlertFields /\ app'.alerts = TRUE /\ app'.stored = TRUE
      /\ app'.permission = app.permission /\ app'.sub = app.sub /\ app'.subs = app.subs
      /\ app'.asked = app.asked /\ app'.toggles = app.toggles + 1 /\ app'.excused = app.excused
      /\ app'.push = app.push /\ app'.step = "key"
  BY <1>1 DEF AlertInv, BrowserOK, AlertFields
<1>3. /\ app.toggles \in 0..MaxToggles /\ app.subs \in Nat /\ app.subs <= app.toggles
      /\ app.sub \in 0..app.subs
  BY DEF AlertInv, BrowserOK
<1>4. app'.toggles \in 0..MaxToggles /\ app'.subs < app'.toggles /\ app'.subs <= app'.toggles
  BY <1>1, <1>2, <1>3, TogglesAssumption
<1>5. BrowserOK(hub', app')
  BY <1>1, <1>2, <1>4 DEF AlertInv, BrowserOK
<1>6. SwitchOK(app')
  BY <1>2 DEF AlertInv, SwitchOK
<1>7. RequestsOK(app', net')
  BY <1>1, <1>2 DEF AlertInv, RequestsOK
<1>8. OnIsSent(hub', app', net')
  BY <1>2 DEF OnIsSent
<1> QED
  BY <1>5, <1>6, <1>7, <1>8 DEF AlertInv

LEMMA TurnOffIsKept ==
  ASSUME AlertInv, Alerts!TurnOff
  PROVE  AlertInv'
<1>1. PICK a : a = [app EXCEPT !.alerts = FALSE, !.stored = FALSE, !.toggles = app.toggles + 1]
  OBVIOUS
<1>2. /\ app.step = "idle" /\ app.toggles < MaxToggles /\ hub' = hub
      /\ IF a.sub = 0 THEN app' = [a EXCEPT !.push = "off"] /\ UNCHANGED net
         ELSE /\ app' = [a EXCEPT !.step = "off", !.asked = a.asked + 1]
              /\ net' = net \cup {Alerts!Request("unsubscribe", a, "page")}
  BY <1>1 DEF Alerts!TurnOff, Alerts!SwitchShown
<1>3. /\ DOMAIN a = AlertFields /\ a.alerts = FALSE /\ a.stored = FALSE
      /\ a.permission = app.permission /\ a.sub = app.sub /\ a.subs = app.subs
      /\ a.asked = app.asked /\ a.toggles = app.toggles + 1 /\ a.excused = app.excused
      /\ a.push = app.push /\ a.step = app.step
  BY <1>1 DEF AlertInv, BrowserOK, AlertFields
<1>4. /\ app.toggles \in 0..MaxToggles /\ app.subs \in Nat /\ app.subs <= app.toggles
      /\ app.sub \in 0..app.subs /\ app.asked \in Nat
  BY DEF AlertInv, BrowserOK
<1>5. a.toggles \in 0..MaxToggles /\ a.subs <= a.toggles
  BY <1>2, <1>3, <1>4, TogglesAssumption
<1>6. \A r \in net : r.by = Nobody
  BY <1>2 DEF AlertInv, RequestsOK
<1>7. CASE a.sub = 0
  <2>1. app' = [a EXCEPT !.push = "off"] /\ net' = net
    BY <1>2, <1>7
  <2>2. /\ DOMAIN app' = AlertFields /\ app'.alerts = FALSE /\ app'.stored = FALSE
        /\ app'.permission = app.permission /\ app'.sub = 0 /\ app'.subs = app.subs
        /\ app'.asked = app.asked /\ app'.toggles = a.toggles /\ app'.excused = app.excused
        /\ app'.push = "off" /\ app'.step = "idle"
    BY <1>2, <1>3, <1>7, <2>1 DEF AlertFields
  <2>3. BrowserOK(hub', app')
    BY <1>2, <1>3, <1>4, <1>5, <2>2 DEF AlertInv, BrowserOK
  <2>4. SwitchOK(app')
    BY <2>2 DEF AlertInv, SwitchOK
  <2>5. RequestsOK(app', net')
    BY <1>6, <2>1, <2>2 DEF AlertInv, RequestsOK
  <2>6. OnIsSent(hub', app', net')
    BY <2>2 DEF OnIsSent
  <2> QED
    BY <2>3, <2>4, <2>5, <2>6 DEF AlertInv
<1>8. CASE a.sub # 0
  <2>1. PICK r : r = Alerts!Request("unsubscribe", a, "page")
    OBVIOUS
  <2>2. app' = [a EXCEPT !.step = "off", !.asked = a.asked + 1] /\ net' = net \cup {r}
    BY <1>2, <1>8, <2>1
  <2>3. DOMAIN r = RequestFields /\ r.n = app.asked + 1 /\ r.op = "unsubscribe"
    BY <1>3, <2>1 DEF Alerts!Request, RequestFields
  <2>4. /\ DOMAIN app' = AlertFields /\ app'.alerts = FALSE /\ app'.stored = FALSE
        /\ app'.permission = app.permission /\ app'.sub = app.sub /\ app'.subs = app.subs
        /\ app'.asked = app.asked + 1 /\ app'.toggles = a.toggles
        /\ app'.excused = app.excused /\ app'.push = app.push /\ app'.step = "off"
    BY <1>3, <2>2 DEF AlertFields
  <2>5. BrowserOK(hub', app')
    BY <1>2, <1>3, <1>4, <1>5, <2>4 DEF AlertInv, BrowserOK
  <2>6. SwitchOK(app')
    BY <2>4 DEF AlertInv, SwitchOK
  <2>7. r.n \in 1..app'.asked /\ \A s \in net : s.n \in 1..app'.asked /\ s.n # r.n
    <3>1. \A s \in net : s.n \in 1..app.asked
      BY DEF AlertInv, RequestsOK
    <3> QED
      BY <1>4, <2>3, <2>4, <3>1
  <2>8. RequestsOK(app', net')
    BY <1>6, <2>2, <2>3, <2>4, <2>7 DEF AlertInv, RequestsOK
  <2>9. OnIsSent(hub', app', net')
    BY <2>4 DEF OnIsSent
  <2> QED
    BY <2>5, <2>6, <2>8, <2>9 DEF AlertInv
<1> QED
  BY <1>7, <1>8

\* Turning on ends without a subscription.
LEMMA EndedHolds ==
  ASSUME AlertInv, app.step \in {"key", "permission"}, NEW a, NEW push, push # "on",
         DOMAIN a = AlertFields, a.alerts = app.alerts, a.stored = app.stored,
         app.sub # 0 => a.permission = "granted", a.sub = app.sub, a.subs = app.subs,
         a.asked = app.asked, a.toggles = app.toggles, a.excused = app.excused,
         Alerts!Ended(a, push), hub' = hub
  PROVE  AlertInv'
<1>1. PICK b : b = [a EXCEPT !.push = push, !.step = "idle"]
  OBVIOUS
<1>2. /\ DOMAIN b = AlertFields /\ b.alerts = app.alerts /\ b.stored = app.stored
      /\ b.permission = a.permission /\ b.sub = app.sub /\ b.subs = app.subs
      /\ b.asked = app.asked /\ b.toggles = app.toggles /\ b.excused = app.excused
      /\ b.push = push /\ b.step = "idle"
  BY <1>1 DEF AlertFields
<1>3. BrowserOK(hub, b)
  BY <1>2 DEF AlertInv, BrowserOK
<1>4. SwitchOK(b)
  BY <1>2 DEF AlertInv, SwitchOK
<1>5. \A r \in net : r.by = Nobody
  BY DEF AlertInv, RequestsOK
<1>6. RequestsOK(b, net)
  BY <1>2, <1>5 DEF AlertInv, RequestsOK
<1>7. Alerts!Shows(b)
  BY <1>1 DEF Alerts!Ended
<1> QED
  BY <1>3, <1>4, <1>6, <1>7, ShowsHolds

LEMMA KeyReadIsKept ==
  ASSUME AlertInv, Alerts!KeyRead
  PROVE  AlertInv'
<1>1. app.step = "key" /\ hub' = hub
  BY DEF Alerts!KeyRead
<1>2. CASE Alerts!Ended(app, "unavailable")
  <2>1. PICK push : push = "unavailable"
    OBVIOUS
  <2>2. push # "on" /\ Alerts!Ended(app, push)
    BY <1>2, <2>1
  <2>3. DOMAIN app = AlertFields /\ (app.sub # 0 => app.permission = "granted")
    BY DEF AlertInv, BrowserOK, SwitchOK
  <2> QED
    BY <1>1, <2>2, <2>3, EndedHolds
<1>3. CASE app' = [app EXCEPT !.step = "permission"] /\ UNCHANGED net
  <2>1. /\ DOMAIN app' = AlertFields /\ app'.alerts = app.alerts /\ app'.stored = app.stored
        /\ app'.permission = app.permission /\ app'.sub = app.sub /\ app'.subs = app.subs
        /\ app'.asked = app.asked /\ app'.toggles = app.toggles /\ app'.excused = app.excused
        /\ app'.push = app.push /\ app'.step = "permission"
    BY <1>3 DEF AlertInv, BrowserOK, AlertFields
  <2>2. BrowserOK(hub', app')
    BY <1>1, <2>1 DEF AlertInv, BrowserOK
  <2>3. SwitchOK(app')
    BY <1>1, <2>1 DEF AlertInv, SwitchOK
  <2>4. RequestsOK(app', net')
    BY <1>1, <1>3, <2>1 DEF AlertInv, RequestsOK
  <2>5. OnIsSent(hub', app', net')
    BY <2>1 DEF OnIsSent
  <2> QED
    BY <2>2, <2>3, <2>4, <2>5 DEF AlertInv
<1> QED
  BY <1>2, <1>3 DEF Alerts!KeyRead

LEMMA AskedIsKept ==
  ASSUME AlertInv, Alerts!Asked
  PROVE  AlertInv'
<1>1. PICK answer, a :
        /\ app.permission # "default" => answer = app.permission
        /\ a = [app EXCEPT !.permission = answer]
        /\ \/ answer = "denied" /\ Alerts!Ended(a, "denied")
           \/ answer = "default" /\ Alerts!Ended(a, "off")
           \/ answer = "granted" /\ a.sub = 0 /\ Alerts!Ended(a, "off")
           \/ /\ answer = "granted"
              /\ \E s \in {IF a.sub = 0 THEN [a EXCEPT !.sub = a.subs + 1, !.subs = @ + 1] ELSE a} :
                   /\ app' = [s EXCEPT !.step = "on", !.asked = @ + 1]
                   /\ net' = net \cup {Alerts!Request("subscribe", s, "page")}
  <2>1. PICK answer \in IF app.permission = "default" THEN {"granted", "denied", "default"}
                        ELSE {app.permission} :
          \E a \in {[app EXCEPT !.permission = answer]} :
             \/ answer = "denied" /\ Alerts!Ended(a, "denied")
             \/ answer = "default" /\ Alerts!Ended(a, "off")
             \/ answer = "granted" /\ a.sub = 0 /\ Alerts!Ended(a, "off")
             \/ /\ answer = "granted"
                /\ \E s \in {IF a.sub = 0 THEN [a EXCEPT !.sub = a.subs + 1, !.subs = @ + 1] ELSE a} :
                     /\ app' = [s EXCEPT !.step = "on", !.asked = @ + 1]
                     /\ net' = net \cup {Alerts!Request("subscribe", s, "page")}
    BY DEF Alerts!Asked
  <2> QED
    BY <2>1, Zenon
<1>2. app.step = "permission" /\ hub' = hub
  BY DEF Alerts!Asked
<1>3. /\ DOMAIN a = AlertFields /\ a.alerts = app.alerts /\ a.stored = app.stored
      /\ a.permission = answer /\ a.sub = app.sub /\ a.subs = app.subs
      /\ a.asked = app.asked /\ a.toggles = app.toggles /\ a.excused = app.excused
      /\ a.push = app.push /\ a.step = app.step
  BY <1>1 DEF AlertInv, BrowserOK, AlertFields
<1>4. app.sub # 0 => a.permission = "granted"
  BY <1>1, <1>3 DEF AlertInv, SwitchOK
<1>5. CASE \E push \in {"denied", "off"} : Alerts!Ended(a, push)
  <2>1. PICK push : push # "on" /\ Alerts!Ended(a, push)
    BY <1>5
  <2> QED
    BY <1>2, <1>3, <1>4, <2>1, EndedHolds
<1>6. CASE /\ answer = "granted"
           /\ \E s \in {IF a.sub = 0 THEN [a EXCEPT !.sub = a.subs + 1, !.subs = @ + 1] ELSE a} :
                /\ app' = [s EXCEPT !.step = "on", !.asked = @ + 1]
                /\ net' = net \cup {Alerts!Request("subscribe", s, "page")}
  <2>1. PICK s : /\ s = IF a.sub = 0 THEN [a EXCEPT !.sub = a.subs + 1, !.subs = a.subs + 1] ELSE a
                 /\ app' = [s EXCEPT !.step = "on", !.asked = s.asked + 1]
                 /\ net' = net \cup {Alerts!Request("subscribe", s, "page")}
    BY <1>6
  <2>2. /\ app.asked \in Nat /\ app.subs \in Nat /\ app.toggles \in 0..MaxToggles
        /\ app.sub \in 0..app.subs /\ app.subs < app.toggles
    BY <1>2 DEF AlertInv, BrowserOK
  <2>3. /\ DOMAIN s = AlertFields /\ s.alerts = app.alerts /\ s.stored = app.stored
        /\ s.permission = answer /\ s.sub = (IF app.sub = 0 THEN app.subs + 1 ELSE app.sub)
        /\ s.subs = (IF app.sub = 0 THEN app.subs + 1 ELSE app.subs)
        /\ s.asked = app.asked /\ s.toggles = app.toggles /\ s.excused = app.excused
        /\ s.push = app.push
    BY <1>3, <2>1 DEF AlertFields
  <2>4. /\ s.subs \in Nat /\ s.sub \in 0..s.subs /\ s.subs <= s.toggles /\ s.sub # 0
    BY <2>2, <2>3
  <2>5. /\ DOMAIN app' = AlertFields /\ app'.alerts = app.alerts /\ app'.stored = app.stored
        /\ app'.permission = answer /\ app'.sub = s.sub /\ app'.subs = s.subs
        /\ app'.asked = app.asked + 1 /\ app'.toggles = app.toggles
        /\ app'.excused = app.excused /\ app'.push = app.push /\ app'.step = "on"
    BY <2>1, <2>3 DEF AlertFields
  <2>6. PICK r : r = Alerts!Request("subscribe", s, "page")
    OBVIOUS
  <2>7. /\ net' = net \cup {r} /\ DOMAIN r = RequestFields /\ r.n = app.asked + 1
        /\ r.op = "subscribe"
    BY <2>1, <2>3, <2>6 DEF Alerts!Request, RequestFields
  <2>8. \A q \in net : q.by = Nobody /\ q.n \in 1..app.asked
    BY <1>2 DEF AlertInv, RequestsOK
  <2>9. r.n \in 1..app'.asked /\ \A q \in net : q.n \in 1..app'.asked /\ q.n # r.n
    BY <2>2, <2>5, <2>7, <2>8
  <2>10. RequestsOK(app', net')
    BY <2>5, <2>7, <2>8, <2>9 DEF AlertInv, RequestsOK
  <2>11. BrowserOK(hub', app')
    BY <1>2, <2>2, <2>3, <2>4, <2>5 DEF AlertInv, BrowserOK
  <2>12. SwitchOK(app')
    BY <1>2, <1>6, <2>4, <2>5 DEF AlertInv, SwitchOK
  <2>13. OnIsSent(hub', app', net')
    BY <2>5 DEF OnIsSent
  <2> QED
    BY <2>10, <2>11, <2>12, <2>13 DEF AlertInv
<1> QED
  BY <1>1, <1>5, <1>6

\* A request that the page waited for has ended, and what the page shows is off.
LEMMA OffHolds ==
  ASSUME AlertInv, DOMAIN hub' = DOMAIN hub, DOMAIN app' = AlertFields,
         app'.alerts = app.alerts, app'.stored = app.stored, app'.permission = app.permission,
         app'.subs = app.subs, app'.sub = 0 \/ (app'.excused /\ app'.sub = app.sub),
         app'.asked = app.asked, app'.toggles = app.toggles, app'.excused \in BOOLEAN,
         app'.push = "off", app'.step = "idle", RequestsOK(app', net')
  PROVE  AlertInv'
<1>1. app.sub \in 0..app.subs /\ app.subs \in Nat
  BY DEF AlertInv, BrowserOK
<1>2. app'.sub \in 0..app'.subs
  BY <1>1
<1>3. BrowserOK(hub', app')
  BY <1>2 DEF AlertInv, BrowserOK
<1>4. SwitchOK(app')
  BY DEF AlertInv, SwitchOK
<1>5. OnIsSent(hub', app', net')
  BY DEF OnIsSent
<1> QED
  BY <1>3, <1>4, <1>5 DEF AlertInv

\* A request is gone: those left are as they were, and the page may wait for none.
LEMMA GoneIs ==
  ASSUME NEW a, NEW N, NEW r \in N, NEW b, RequestsOK(a, N), b.asked = a.asked,
         b.step = a.step \/ r.by # Nobody
  PROVE  RequestsOK(b, N \ {r})
BY DEF RequestsOK

LEMMA LandsIsKept ==
  ASSUME AlertInv, NEW r \in net, Alerts!Lands(r)
  PROVE  AlertInv'
<1>1. PICK row : row = IF r.op = "subscribe" THEN r.row ELSE Alerts!NoRow
  OBVIOUS
<1>2. PICK excused \in BOOLEAN :
        excused = (app.excused \/ \E o \in net : o.endpoint = r.endpoint /\ o.n < r.n)
  BY DEF AlertInv, SwitchOK
<1>3. PICK a : a = [app EXCEPT !.excused = excused]
  OBVIOUS
<1>4. PICK h : h = hub'
  OBVIOUS
<1>5. /\ h = [hub EXCEPT ![r.endpoint] = row]
      /\ CASE r.by = Nobody -> app' = a /\ net' = net \ {r}
           [] r.op = "subscribe" /\ r.by # Nobody ->
                \E s \in {Alerts!Refreshed([a EXCEPT !.push = "on", !.step = "idle", !.legacy = r.row.symbols])} :
                  app' = s[1] /\ net' = (net \ {r}) \cup s[2]
           [] OTHER -> app' = [a EXCEPT !.sub = 0, !.push = "off", !.step = "idle"] /\ net' = net \ {r}
  BY <1>1, <1>2, <1>3, <1>4 DEF Alerts!Lands
<1>6. /\ DOMAIN a = AlertFields /\ a.alerts = app.alerts /\ a.stored = app.stored
      /\ a.permission = app.permission /\ a.sub = app.sub /\ a.subs = app.subs
      /\ a.asked = app.asked /\ a.toggles = app.toggles /\ a.excused = excused
      /\ a.push = app.push /\ a.step = app.step
      /\ a.watched = app.watched /\ a.account = app.account
  BY <1>3 DEF AlertInv, BrowserOK, AlertFields
<1>7. DOMAIN h = DOMAIN hub /\ (app.excused => excused)
  BY <1>2, <1>5
<1>8. CASE r.by = Nobody
  <2>1. app' = a /\ net' = net \ {r}
    BY <1>5, <1>8
  <2>2. BrowserOK(h, a)
    BY <1>6, <1>7 DEF AlertInv, BrowserOK
  <2>3. SwitchOK(a)
    BY <1>6, <1>7 DEF AlertInv, SwitchOK
  <2>4. RequestsOK(a, net \ {r})
    BY <1>6, GoneIs DEF AlertInv
  <2>5. ASSUME ~excused, app.sub \in DOMAIN hub, NEW wanted, WillArrive(hub, app, net, wanted)
        PROVE  WillArrive(h, a, net \ {r}, wanted)
    <3>1. CASE hub[app.sub] = wanted /\ \A s \in net : s.endpoint # app.sub
      BY <1>5, <1>6, <3>1 DEF WillArrive
    <3>2. CASE \E w \in net : /\ w.endpoint = app.sub /\ w.op = "subscribe" /\ w.row = wanted
                              /\ \A s \in net : s.endpoint = app.sub => s.n <= w.n
      <4>1. PICK w \in net : /\ w.endpoint = app.sub /\ w.op = "subscribe" /\ w.row = wanted
                             /\ \A s \in net : s.endpoint = app.sub => s.n <= w.n
        BY <3>2
      <4>2. CASE w = r
        <5>1. h[app.sub] = wanted
          BY <1>1, <1>5, <2>5, <4>1, <4>2
        <5>2. ASSUME NEW s \in net \ {r} PROVE s.endpoint # app.sub
          <6>1. SUFFICES ASSUME s.endpoint = app.sub PROVE FALSE
            OBVIOUS
          <6>2. s.n <= r.n /\ ~(s.n < r.n)
            BY <1>2, <2>5, <4>1, <4>2, <6>1
          <6>3. s.n \in 1..app.asked /\ r.n \in 1..app.asked /\ s.n # r.n /\ app.asked \in Nat
            BY DEF AlertInv, RequestsOK, BrowserOK
          <6> QED
            BY <6>2, <6>3
        <5> QED
          BY <1>6, <5>1, <5>2 DEF WillArrive
      <4>3. CASE w # r
        <5>1. w \in net \ {r} /\ \A s \in net \ {r} : s.endpoint = app.sub => s.n <= w.n
          BY <4>1, <4>3
        <5> QED
          BY <1>6, <4>1, <5>1 DEF WillArrive
      <4> QED
        BY <4>2, <4>3
    <3> QED
      BY <2>5, <3>1, <3>2 DEF WillArrive
  <2>6. OnIsSent(h, a, net \ {r})
    <3> SUFFICES ASSUME ~excused, a.step = "idle", a.alerts, a.push = "on", a.watched # {}
                 PROVE  WillArrive(h, a, net \ {r}, Wanted(a))
      BY <1>6 DEF OnIsSent
    <3>1. Wanted(a) = Wanted(app)
      BY <1>6 DEF Wanted
    <3>2. WillArrive(hub, app, net, Wanted(app))
      BY <1>6, <1>7 DEF AlertInv, OnIsSent
    <3>3. app.sub # 0
      BY <1>6 DEF AlertInv, SwitchOK
    <3>4. app.sub \in DOMAIN hub
      <4>1. /\ app.subs \in Nat /\ app.toggles \in 0..MaxToggles /\ app.sub \in 0..app.subs
            /\ app.subs <= app.toggles /\ DOMAIN hub = Alerts!Endpoints
        BY DEF AlertInv, BrowserOK
      <4> QED
        BY <3>3, <4>1, TogglesAssumption DEF Alerts!Endpoints
    <3> QED
      BY <2>5, <3>1, <3>2, <3>4
  <2> QED
    BY <1>4, <2>1, <2>2, <2>3, <2>4, <2>6 DEF AlertInv
<1>9. CASE r.by # Nobody /\ r.op = "subscribe"
  <2>1. PICK symbols : symbols = r.row.symbols
    OBVIOUS
  <2>2. PICK on : on = [a EXCEPT !.push = "on", !.step = "idle", !.legacy = symbols]
    OBVIOUS
  <2>3. PICK s : s = Alerts!Refreshed(on) /\ app' = s[1] /\ net' = (net \ {r}) \cup s[2]
    BY <1>5, <1>9, <2>1, <2>2
  <2>4. /\ DOMAIN on = AlertFields /\ on.alerts = app.alerts /\ on.stored = app.stored
        /\ on.permission = app.permission /\ on.sub = app.sub /\ on.subs = app.subs
        /\ on.asked = app.asked /\ on.toggles = app.toggles /\ on.excused = excused
        /\ on.push = "on" /\ on.step = "idle"
    BY <1>6, <2>2 DEF AlertFields
  <2>5. app.step = "on"
    BY <1>9 DEF AlertInv, RequestsOK
  <2>6. BrowserOK(h, on)
    BY <1>7, <2>4 DEF AlertInv, BrowserOK
  <2>7. SwitchOK(on)
    BY <1>7, <2>4, <2>5 DEF AlertInv, SwitchOK
  <2>8. RequestsOK(on, net \ {r})
    BY <1>9, <2>4, GoneIs DEF AlertInv
  <2>9. PICK left : left = net \ {r}
    OBVIOUS
  <2>10. PICK b : b = app'
    OBVIOUS
  <2>11. PICK m : m = net'
    OBVIOUS
  <2>12. RequestsOK(on, left) /\ b = s[1] /\ m = left \cup s[2]
    BY <2>3, <2>8, <2>9, <2>10, <2>11
  <2>13. BrowserOK(h, b) /\ SwitchOK(b) /\ RequestsOK(b, m) /\ OnIsSent(h, b, m)
    BY <2>3, <2>6, <2>7, <2>12, RefreshHolds
  <2> QED
    BY <1>4, <2>10, <2>11, <2>13 DEF AlertInv
<1>10. CASE r.by # Nobody /\ r.op # "subscribe"
  <2>1. app' = [a EXCEPT !.sub = 0, !.push = "off", !.step = "idle"] /\ net' = net \ {r}
    BY <1>5, <1>10
  <2>2. /\ DOMAIN app' = AlertFields /\ app'.alerts = app.alerts /\ app'.stored = app.stored
        /\ app'.permission = app.permission /\ app'.subs = app.subs /\ app'.sub = 0
        /\ app'.asked = app.asked /\ app'.toggles = app.toggles /\ app'.excused = excused
        /\ app'.push = "off" /\ app'.step = "idle"
    BY <1>6, <2>1 DEF AlertFields
  <2>3. RequestsOK(app', net')
    BY <1>10, <2>1, <2>2 DEF AlertInv, RequestsOK
  <2> QED
    BY <1>4, <1>7, <2>2, <2>3, OffHolds
<1> QED
  BY <1>8, <1>9, <1>10

LEMMA RequestFailsIsKept ==
  ASSUME AlertInv, NEW r \in net, Alerts!Fails(r)
  PROVE  AlertInv'
<1>1. PICK a : a = [app EXCEPT !.losses = app.losses + 1, !.excused = TRUE]
  OBVIOUS
<1>2. /\ app' = IF r.by = Nobody THEN a ELSE [a EXCEPT !.sub = 0, !.push = "off", !.step = "idle"]
      /\ net' \in {net \ {r}, (net \ {r}) \cup {[r EXCEPT !.by = Nobody]}} /\ hub' = hub
  BY <1>1 DEF Alerts!Fails
<1>3. /\ DOMAIN a = AlertFields /\ a.alerts = app.alerts /\ a.stored = app.stored
      /\ a.permission = app.permission /\ a.sub = app.sub /\ a.subs = app.subs
      /\ a.asked = app.asked /\ a.toggles = app.toggles /\ a.excused = TRUE
      /\ a.push = app.push /\ a.step = app.step
  BY <1>1 DEF AlertInv, BrowserOK, AlertFields
<1>4. PICK q : q = [r EXCEPT !.by = Nobody]
  OBVIOUS
<1>5. DOMAIN q = RequestFields /\ q.n = r.n /\ q.by = Nobody /\ r.n \in 1..app.asked
  BY <1>4 DEF AlertInv, RequestsOK, RequestFields
<1>6. net' \subseteq (net \ {r}) \cup {q}
  BY <1>2, <1>4
<1>7. CASE r.by = Nobody
  <2>1. app' = a
    BY <1>2, <1>7
  <2>2. BrowserOK(hub', app')
    BY <1>2, <1>3, <2>1 DEF AlertInv, BrowserOK
  <2>3. SwitchOK(app')
    BY <1>3, <2>1 DEF AlertInv, SwitchOK
  <2>4. RequestsOK(app', net')
    BY <1>3, <1>5, <1>6, <2>1 DEF AlertInv, RequestsOK
  <2>5. OnIsSent(hub', app', net')
    BY <1>3, <2>1 DEF OnIsSent
  <2> QED
    BY <2>2, <2>3, <2>4, <2>5 DEF AlertInv
<1>8. CASE r.by # Nobody
  <2>1. app' = [a EXCEPT !.sub = 0, !.push = "off", !.step = "idle"]
    BY <1>2, <1>8
  <2>2. /\ DOMAIN app' = AlertFields /\ app'.alerts = app.alerts /\ app'.stored = app.stored
        /\ app'.permission = app.permission /\ app'.subs = app.subs /\ app'.sub = 0
        /\ app'.asked = app.asked /\ app'.toggles = app.toggles /\ app'.excused = TRUE
        /\ app'.push = "off" /\ app'.step = "idle"
    BY <1>3, <2>1 DEF AlertFields
  <2>3. RequestsOK(app', net')
    BY <1>5, <1>6, <1>8, <2>2 DEF AlertInv, RequestsOK
  <2> QED
    BY <1>2, <2>2, <2>3, OffHolds
<1> QED
  BY <1>7, <1>8

LEMMA KeptIsKept ==
  ASSUME AlertInv, NEW r \in net, Alerts!Kept(r)
  PROVE  AlertInv'
<1>1. /\ r.by # Nobody /\ net' = net \ {r} /\ DOMAIN hub' = DOMAIN hub
      /\ app' = [app EXCEPT !.losses = app.losses + 1, !.excused = TRUE, !.push = "off",
                            !.step = "idle"]
  BY DEF Alerts!Kept
<1>2. /\ DOMAIN app' = AlertFields /\ app'.alerts = app.alerts /\ app'.stored = app.stored
      /\ app'.permission = app.permission /\ app'.subs = app.subs /\ app'.sub = app.sub
      /\ app'.asked = app.asked /\ app'.toggles = app.toggles /\ app'.excused = TRUE
      /\ app'.push = "off" /\ app'.step = "idle"
  BY <1>1 DEF AlertInv, BrowserOK, AlertFields
<1>3. RequestsOK(app', net')
  BY <1>1, <1>2 DEF AlertInv, RequestsOK
<1> QED
  BY <1>1, <1>2, <1>3, OffHolds

LEMMA AlertsStep == AlertInv /\ Alerts!Next => AlertInv'
<1> SUFFICES ASSUME AlertInv, Alerts!Next PROVE AlertInv'
  OBVIOUS
<1>1. CASE Alerts!PushKnown \/ Alerts!TurnOn \/ Alerts!TurnOff \/ Alerts!KeyRead \/ Alerts!Asked
  BY <1>1, PushKnownIsKept, TurnOnIsKept, TurnOffIsKept, KeyReadIsKept, AskedIsKept
<1>2. CASE \E account \in Accounts : Alerts!Open(account)
  BY <1>2, OpenPageIsKept
<1>3. CASE \E list \in (SUBSET Pairs) \ {{}} : Alerts!Choose(list)
  BY <1>3, ChooseIsKept
<1>4. CASE \E r \in net : Alerts!Lands(r) \/ Alerts!Fails(r) \/ Alerts!Kept(r)
  BY <1>4, LandsIsKept, RequestFailsIsKept, KeptIsKept
<1> QED
  BY <1>1, <1>2, <1>3, <1>4 DEF Alerts!Next

-------------------------------------------------------------------------------
(* The health page: green means served                                          *)

Cur(h) == IF h.config = Nothing THEN Origin ELSE h.config
PageFields == {"results", "active", "ops", "live", "since", "confirm", "errors", "calm", "most",
               "runs", "changes", "presses", "faults"}

WorldOK(h) ==
  /\ DOMAIN h = {"config", "server", "scenes", "scan"} /\ Cur(h) \in Addresses
  /\ DOMAIN h.server = Addresses
  /\ \A x \in Addresses : Numbered(h.server[x])
  /\ \A scene \in h.scenes : Numbered(scene)
\* What a scan goes by is the address it has shown.
ScanOK(n, a) ==
  /\ DOMAIN n = {"run", "rechecks", "fix"} /\ DOMAIN n.run = {"stage", "c", "todo"}
  /\ DOMAIN n.rechecks = DOMAIN a.results
  /\ n.run.stage \in {"idle", "address", "ops", "checks"}
  /\ n.run.todo \subseteq DOMAIN a.results \ Health!Immediate
  /\ n.run.stage # "checks" => n.run.todo = {}
  /\ n.run.stage \in {"ops", "checks"} => n.run.c.active = a.active
PageOK(a) ==
  /\ DOMAIN a = PageFields /\ a.active \in Addresses /\ a.ops \in BOOLEAN /\ a.calm \in BOOLEAN
  /\ a.errors \in Nat
\* A scan that has looked at address and sockets is done with this check, or is over.
Known(check, n) == n.run.stage = "idle" \/ (n.run.stage = "checks" /\ check \notin n.run.todo)
Looked(n) == n.run.stage \in {"idle", "checks"}
\* What the checks the property trusts mean, when they are green, of this address.
Means(check, h, x) ==
  /\ check = "proxy_serves" => Health!Healthy(h, x) /\ h.server[x].count = Catalogue
  /\ check = "d_fresh" => h.server[x].age <= 30
  /\ check = "data_source" => x = Cur(h)
  /\ check = "g_ws" => h.server[x].socket
\* A read that failed is counted.
AddressOK(h, a) == a.calm /\ a.errors = 0 => a.active = Cur(h)
GreenOK(h, n, a) ==
  a.calm => \A check \in DOMAIN a.results :
    Known(check, n) /\ a.results[check].status = "ok" => Means(check, h, a.active)
\* What a re-check in time was asked with is still so.
Trusty(c, h, n, a) ==
  c.active = a.active /\ (a.calm /\ Looked(n) /\ c.wsOkActive => h.server[a.active].socket)
RechecksOK(h, n, a) ==
  \A check \in DOMAIN n.rechecks :
    n.rechecks[check] # Nothing =>
      /\ DOMAIN n.rechecks[check] = {"c", "late"} /\ n.rechecks[check].late \in BOOLEAN
      /\ ~n.rechecks[check].late => Trusty(n.rechecks[check].c, h, n, a)
FixOK(h, n, a) ==
  /\ DOMAIN n.fix = {"todo", "then", "c", "late"} /\ n.fix.late \in BOOLEAN
  /\ \/ n.fix = Health!NoFix \/ n.fix.then = "scan"
     \/ n.fix.then \in DOMAIN a.results /\ n.fix.c # Nothing /\ (~n.fix.late => Trusty(n.fix.c, h, n, a))
HealthOK(h, n, a) ==
  /\ WorldOK(h) /\ ScanOK(n, a) /\ PageOK(a)
  /\ AddressOK(h, a) /\ GreenOK(h, n, a) /\ RechecksOK(h, n, a) /\ FixOK(h, n, a)
HealthInv == HealthOK(hub, net, app)

LEMMA HealthTells == HealthInv => Health!GreenMeansServed
<1> SUFFICES ASSUME HealthInv, Health!Settled, app.calm,
                    {"proxy_serves", "d_fresh", "data_source", "g_ws"} \subseteq Health!With("ok", app.results)
             PROVE  Health!Serving(hub)
  BY DEF Health!GreenMeansServed
<1>1. net.run.stage = "idle"
  BY DEF Health!Settled, Health!Scanning
<1>2. \A check \in {"proxy_serves", "d_fresh", "data_source", "g_ws"} : Means(check, hub, app.active)
  BY <1>1 DEF HealthInv, HealthOK, GreenOK, Known, Health!With
<1>3. Means("proxy_serves", hub, app.active) /\ Means("d_fresh", hub, app.active)
      /\ Means("data_source", hub, app.active) /\ Means("g_ws", hub, app.active)
  BY <1>2
<1> QED
  BY <1>3 DEF Means, Health!Serving, Cur

\* A green check means what it says of the address it was asked about, whoever asks.
LEMMA GreenMeans ==
  ASSUME NEW h, NEW c, NEW errors \in Nat, NEW answers, NEW check, WorldOK(h), c.active \in Addresses,
         check = "g_ws" /\ c.wsOkActive => h.server[c.active].socket,
         errors = 0 => c.active = Cur(h),
         Health!RunOne(check, h, c, errors, answers).status = "ok"
  PROVE  Means(check, h, c.active)
<1>1. PICK s : s = h.server[c.active]
  OBVIOUS
<1>2. s.count \in Nat /\ s.age \in Int
  BY <1>1 DEF WorldOK, Numbered
<1>3. CASE check = "proxy_serves"
  <2>1. Health!ProxyServes(h, c).status = "ok"
    BY <1>3 DEF Health!RunOne
  <2>2. PICK n : n = Health!Count(Health!OtcStatus(h, c.active))
    OBVIOUS
  <2>3. n # -1 /\ n # 0 /\ ~(n > 0 /\ n # Catalogue)
    BY <2>1, <2>2 DEF Health!ProxyServes, Health!Found, Health!Offered
  <2>4. Health!Healthy(h, c.active) /\ n = s.count
    BY <1>1, <2>2, <2>3 DEF Health!Count, Health!OtcStatus
  <2> QED
    BY <1>1, <1>2, <1>3, <2>3, <2>4 DEF Means
<1>4. CASE check = "d_fresh"
  <2>1. Health!Fresh(h, c).status = "ok"
    BY <1>4 DEF Health!RunOne
  <2>2. PICK n : n = Health!Age(Health!OtcStatus(h, c.active))
    OBVIOUS
  <2>3. n # Nothing /\ ~(n > 90) /\ ~(n > 30)
    BY <2>1, <2>2 DEF Health!Fresh, Health!Found, Health!Offered
  <2>4. n = s.age
    BY <1>1, <2>2, <2>3 DEF Health!Age, Health!OtcStatus
  <2> QED
    BY <1>1, <1>2, <1>4, <2>3, <2>4 DEF Means
<1>5. CASE check = "data_source"
  <2>1. Health!DataSource(errors).status = "ok"
    BY <1>5 DEF Health!RunOne
  <2>2. errors = 0
    BY <2>1 DEF Health!DataSource, Health!Found
  <2> QED
    BY <1>5, <2>2 DEF Means
<1>6. CASE check = "g_ws"
  <2>1. Health!WinSocket(h, c).status = "ok"
    BY <1>6 DEF Health!RunOne
  <2>2. c.wsOkActive
    BY <2>1 DEF Health!WinSocket, Health!Found, Health!Offered
  <2> QED
    BY <1>6, <2>2 DEF Means
<1>7. CASE check \notin {"proxy_serves", "d_fresh", "data_source", "g_ws"}
  BY <1>7 DEF Means
<1> QED
  BY <1>3, <1>4, <1>5, <1>6, <1>7

LEMMA HealthStart == Health!Init => HealthInv
<1> SUFFICES ASSUME Health!Init PROVE HealthInv
  OBVIOUS
<1>1. PICK panel \in Panels, address \in {Nothing, Worker}, bad \in Addresses :
      \E scene \in panel.scenes :
       /\ hub = [config |-> address, server |-> [Servers EXCEPT ![bad] = scene], scenes |-> panel.scenes,
                 scan |-> [asked |-> FALSE, others |-> TRUE]]
       /\ net = [run |-> [Health!AtRest EXCEPT !.stage = "address"],
                 rechecks |-> [check \in panel.checks |-> Health!NoRecheck], fix |-> Health!NoFix]
       /\ app = [results |-> [check \in panel.checks |-> Health!Checking], active |-> Origin, ops |-> FALSE,
                 live |-> FALSE, since |-> Debounce, confirm |-> <<>>, errors |-> 0, calm |-> FALSE,
                 most |-> panel.most,
                 runs |-> 1, changes |-> 0, presses |-> 0, faults |-> 0]
  BY DEF Health!Init
<1>2. PICK scene \in panel.scenes :
       /\ hub = [config |-> address, server |-> [Servers EXCEPT ![bad] = scene], scenes |-> panel.scenes,
                 scan |-> [asked |-> FALSE, others |-> TRUE]]
       /\ net = [run |-> [Health!AtRest EXCEPT !.stage = "address"],
                 rechecks |-> [check \in panel.checks |-> Health!NoRecheck], fix |-> Health!NoFix]
       /\ app = [results |-> [check \in panel.checks |-> Health!Checking], active |-> Origin, ops |-> FALSE,
                 live |-> FALSE, since |-> Debounce, confirm |-> <<>>, errors |-> 0, calm |-> FALSE,
                 most |-> panel.most,
                 runs |-> 1, changes |-> 0, presses |-> 0, faults |-> 0]
  BY <1>1
<1>3. /\ DOMAIN hub = {"config", "server", "scenes", "scan"} /\ hub.config = address
      /\ hub.server = [Servers EXCEPT ![bad] = scene] /\ hub.scenes = panel.scenes
  BY <1>2
<1>4. WorldOK(hub)
  <2>1. Cur(hub) \in Addresses
    BY <1>3, ServersAssumption DEF Cur
  <2>2. DOMAIN hub.server = Addresses
    BY <1>3, ServersAssumption
  <2>3. \A x \in Addresses : Numbered(hub.server[x])
    BY <1>3, ServersAssumption
  <2>4. \A s \in hub.scenes : Numbered(s)
    BY <1>3, ServersAssumption
  <2> QED
    BY <1>3, <2>1, <2>2, <2>3, <2>4 DEF WorldOK
<1>5. /\ DOMAIN app = PageFields /\ app.active = Origin /\ app.ops = FALSE /\ app.errors = 0
      /\ app.calm = FALSE /\ app.results = [check \in panel.checks |-> Health!Checking]
  BY <1>2 DEF PageFields
<1>6. PageOK(app)
  <2>1. app.errors \in Nat
    BY <1>5
  <2>2. app.calm \in BOOLEAN /\ app.ops \in BOOLEAN
    BY <1>5
  <2>3. app.active \in Addresses
    BY <1>5, ServersAssumption
  <2> QED
    BY <1>5, <2>1, <2>2, <2>3, Zenon DEF PageOK
<1>7. /\ DOMAIN net = {"run", "rechecks", "fix"} /\ net.run = [Health!AtRest EXCEPT !.stage = "address"]
      /\ net.rechecks = [check \in panel.checks |-> Health!NoRecheck] /\ net.fix = Health!NoFix
  BY <1>2
<1>8. DOMAIN net.run = {"stage", "c", "todo"} /\ net.run.stage = "address" /\ net.run.todo = {}
  BY <1>7 DEF Health!AtRest
<1>9. ScanOK(net, app)
  BY <1>5, <1>7, <1>8 DEF ScanOK
<1>10. AddressOK(hub, app) /\ GreenOK(hub, net, app)
  BY <1>5 DEF AddressOK, GreenOK
<1>11. RechecksOK(hub, net, app)
  BY <1>7 DEF RechecksOK, Health!NoRecheck
<1>12. FixOK(hub, net, app)
  BY <1>7 DEF FixOK, Health!NoFix
<1> QED
  BY <1>4, <1>6, <1>9, <1>10, <1>11, <1>12 DEF HealthInv, HealthOK

\* A page that has only counted, or asks to confirm, is the page it was.
Alike(a, b) ==
  /\ DOMAIN b = PageFields /\ b.results = a.results /\ b.active = a.active /\ b.ops = a.ops
  /\ b.errors = a.errors /\ b.calm = a.calm

LEMMA AlikeHolds ==
  ASSUME NEW h, NEW n, NEW a, NEW b, HealthOK(h, n, a), Alike(a, b)
  PROVE  HealthOK(h, n, b)
<1>1. ScanOK(n, b) /\ PageOK(b) /\ AddressOK(h, b)
  BY DEF HealthOK, Alike, ScanOK, PageOK, AddressOK
<1>2. GreenOK(h, n, b)
  BY DEF HealthOK, Alike, GreenOK
<1>3. \A c : Trusty(c, h, n, b) = Trusty(c, h, n, a)
  BY DEF Alike, Trusty
<1>4. RechecksOK(h, n, b)
  BY <1>3 DEF HealthOK, RechecksOK
<1>5. FixOK(h, n, b)
  BY <1>3 DEF HealthOK, FixOK, Alike
<1> QED
  BY <1>1, <1>2, <1>4, <1>5 DEF HealthOK

LEMMA SpentIsAlike ==
  ASSUME NEW a, DOMAIN a = PageFields, NEW kind \in {"presses", "faults", "changes"},
         NEW b \in Health!Spent(kind, a)
  PROVE  Alike(a, b)
<1>1. b = [a EXCEPT ![kind] = @ + 1]
  BY DEF Health!Spent
<1> QED
  BY <1>1 DEF Alike, PageFields

\* A scan that is started knows nothing yet.
LEMMA StartedHolds ==
  ASSUME NEW h, NEW n, NEW a, HealthOK(h, n, a), NEW s \in Health!Started(n, a)
  PROVE  HealthOK(h, s[1], s[2])
<1>1. CASE Health!Scanning(n) \/ a.runs = a.most.runs
  BY <1>1 DEF Health!Started
<1>2. CASE ~(Health!Scanning(n) \/ a.runs = a.most.runs)
  <2>1. PICK m, b : /\ s = <<m, b>> /\ m = [n EXCEPT !.run.stage = "address"]
                    /\ b = [a EXCEPT !.results = [check \in DOMAIN @ |-> Health!Checking], !.runs = @ + 1]
    BY <1>2 DEF Health!Started
  <2>2. /\ DOMAIN m = {"run", "rechecks", "fix"} /\ DOMAIN m.run = {"stage", "c", "todo"}
        /\ m.run.stage = "address" /\ m.run.todo = n.run.todo /\ m.rechecks = n.rechecks /\ m.fix = n.fix
    BY <2>1 DEF HealthOK, ScanOK
  <2>3. /\ DOMAIN b = PageFields /\ b.active = a.active /\ b.ops = a.ops /\ b.errors = a.errors
        /\ b.calm = a.calm /\ b.results = [check \in DOMAIN a.results |-> Health!Checking]
    BY <2>1 DEF HealthOK, PageOK, PageFields
  <2>4. n.run.stage = "idle"
    BY <1>2 DEF Health!Scanning
  <2>5. ScanOK(m, b)
    BY <2>2, <2>3, <2>4 DEF HealthOK, ScanOK
  <2>6. PageOK(b) /\ AddressOK(h, b)
    BY <2>3 DEF HealthOK, PageOK, AddressOK
  <2>7. GreenOK(h, m, b)
    BY <2>2 DEF GreenOK, Known
  <2>8. \A c : Trusty(c, h, n, a) => Trusty(c, h, m, b)
    BY <2>2, <2>3 DEF Trusty, Looked
  <2>9. RechecksOK(h, m, b)
    BY <2>2, <2>8 DEF HealthOK, RechecksOK
  <2>10. FixOK(h, m, b)
    BY <2>2, <2>3, <2>8 DEF HealthOK, FixOK
  <2> QED
    BY <2>1, <2>5, <2>6, <2>7, <2>9, <2>10 DEF HealthOK
<1> QED
  BY <1>1, <1>2

LEMMA PressIsKept ==
  ASSUME HealthInv,
         Health!Start \/ Health!Switch \/ Health!Cancel
           \/ \E fixes \in Health!Buttons(app.results) : Health!Ask(fixes)
  PROVE  HealthInv'
<1>1. DOMAIN app = PageFields
  BY DEF HealthInv, HealthOK, PageOK
<1>2. CASE Health!Start
  <2>1. PICK a \in Health!Spent("presses", app) : \E s \in Health!Started(net, a) : net' = s[1] /\ app' = s[2]
    BY <1>2 DEF Health!Start, Health!Pressed
  <2>2. PICK s \in Health!Started(net, a) : net' = s[1] /\ app' = s[2]
    BY <2>1
  <2>3. HealthOK(hub, net, a)
    BY <1>1, SpentIsAlike, AlikeHolds DEF HealthInv
  <2>4. HealthOK(hub, s[1], s[2])
    BY <2>3, StartedHolds
  <2>5. hub' = hub
    BY <1>2 DEF Health!Start
  <2> QED
    BY <2>2, <2>4, <2>5 DEF HealthInv
<1>3. CASE Health!Switch
  <2>1. PICK a \in Health!Spent("presses", app) : app' = [a EXCEPT !.live = ~@]
    BY <1>3 DEF Health!Switch, Health!Pressed
  <2>2. PICK b : b = [a EXCEPT !.live = ~@]
    OBVIOUS
  <2>3. Alike(app, a)
    BY <1>1, SpentIsAlike
  <2>4. Alike(app, b)
    BY <2>2, <2>3 DEF Alike, PageFields
  <2>5. HealthOK(hub, net, b)
    BY <2>4, AlikeHolds DEF HealthInv
  <2>6. hub' = hub /\ net' = net /\ app' = b
    BY <1>3, <2>1, <2>2 DEF Health!Switch
  <2> QED
    BY <2>5, <2>6 DEF HealthInv
<1>4. CASE Health!Cancel
  <2>1. PICK b : b = [app EXCEPT !.confirm = <<>>]
    OBVIOUS
  <2>2. Alike(app, b)
    BY <1>1, <2>1 DEF Alike, PageFields
  <2>3. HealthOK(hub, net, b)
    BY <2>2, AlikeHolds DEF HealthInv
  <2>4. hub' = hub /\ net' = net /\ app' = b
    BY <1>4, <2>1 DEF Health!Cancel
  <2> QED
    BY <2>3, <2>4 DEF HealthInv
<1>5. ASSUME NEW fixes, Health!Ask(fixes) PROVE HealthInv'
  <2>1. PICK a \in Health!Spent("presses", app) : app' = [a EXCEPT !.confirm = fixes]
    BY <1>5 DEF Health!Ask, Health!Pressed
  <2>2. PICK b : b = [a EXCEPT !.confirm = fixes]
    OBVIOUS
  <2>3. Alike(app, a)
    BY <1>1, SpentIsAlike
  <2>4. Alike(app, b)
    BY <2>2, <2>3 DEF Alike, PageFields
  <2>5. HealthOK(hub, net, b)
    BY <2>4, AlikeHolds DEF HealthInv
  <2>6. hub' = hub /\ net' = net /\ app' = b
    BY <1>5, <2>1, <2>2 DEF Health!Ask
  <2> QED
    BY <2>5, <2>6 DEF HealthInv
<1> QED
  BY <1>2, <1>3, <1>4, <1>5

LEMMA TickIsKept ==
  ASSUME HealthInv, Health!Tick
  PROVE  HealthInv'
<1>1. PICK a : /\ a = [app EXCEPT !.since = IF @ < Debounce THEN @ + 1 ELSE @]
               /\ \E s \in IF app.live THEN Health!Started(net, a) ELSE {<<net, a>>} :
                    net' = s[1] /\ app' = s[2]
               /\ UNCHANGED hub
  BY Zenon DEF Health!Tick
<1>2. PICK s \in IF app.live THEN Health!Started(net, a) ELSE {<<net, a>>} : net' = s[1] /\ app' = s[2]
  BY <1>1
<1>3. Alike(app, a)
  BY <1>1 DEF Alike, PageFields, HealthInv, HealthOK, PageOK
<1>4. HealthOK(hub, net, a)
  BY <1>3, AlikeHolds DEF HealthInv
<1>5. CASE app.live
  <2>1. HealthOK(hub, s[1], s[2])
    BY <1>2, <1>4, <1>5, StartedHolds
  <2> QED
    BY <1>1, <1>2, <2>1 DEF HealthInv
<1>6. CASE ~app.live
  <2>1. net' = net /\ app' = a
    BY <1>2, <1>6
  <2> QED
    BY <1>1, <1>4, <2>1 DEF HealthInv
<1> QED
  BY <1>5, <1>6

\* What a scan learns makes late whatever was asked before, and keeps the rest.
Overtaken(n, m, a) ==
  /\ DOMAIN m = {"run", "rechecks", "fix"} /\ m.run = n.run
  /\ DOMAIN m.rechecks = DOMAIN n.rechecks
  /\ \A check \in DOMAIN m.rechecks : m.rechecks[check] # Nothing =>
       DOMAIN m.rechecks[check] = {"c", "late"} /\ m.rechecks[check].late = TRUE
  /\ DOMAIN m.fix = {"todo", "then", "c", "late"} /\ m.fix.late \in BOOLEAN
  /\ \/ m.fix = Health!NoFix \/ m.fix.then = "scan"
     \/ m.fix.then \in DOMAIN a.results /\ m.fix.c # Nothing /\ m.fix.late

LEMMA OutdatedIsLate ==
  ASSUME NEW h, NEW n, NEW a, ScanOK(n, a), RechecksOK(h, n, a), FixOK(h, n, a)
  PROVE  Overtaken(n, Health!Outdated(n), a)
<1> DEFINE m == Health!Outdated(n)
<1>1. PICK r : r = [check \in DOMAIN n.rechecks |->
                      IF n.rechecks[check] = Health!NoRecheck THEN Health!NoRecheck
                      ELSE [n.rechecks[check] EXCEPT !.late = TRUE]]
  OBVIOUS
<1>2. PICK f : f = IF n.fix.c = Nothing THEN n.fix ELSE [n.fix EXCEPT !.late = TRUE]
  OBVIOUS
<1>3. m = [n EXCEPT !.rechecks = r, !.fix = f]
  BY <1>1, <1>2 DEF Health!Outdated
<1>4. DOMAIN m = {"run", "rechecks", "fix"} /\ m.run = n.run /\ m.rechecks = r /\ m.fix = f
  BY <1>3 DEF ScanOK
<1>5. \A check \in DOMAIN r : r[check] # Nothing =>
         DOMAIN r[check] = {"c", "late"} /\ r[check].late = TRUE
  BY <1>1 DEF RechecksOK, Health!NoRecheck
<1>6. DOMAIN f = {"todo", "then", "c", "late"} /\ f.late \in BOOLEAN /\ f.then = n.fix.then /\ f.c = n.fix.c
  BY <1>2 DEF FixOK
<1>7. \/ f = Health!NoFix \/ f.then = "scan"
      \/ f.then \in DOMAIN a.results /\ f.c # Nothing /\ f.late
  <2>1. CASE n.fix = Health!NoFix
    BY <1>2, <2>1 DEF Health!NoFix
  <2>2. CASE n.fix.then = "scan"
    BY <1>6, <2>2
  <2>3. CASE n.fix.then \in DOMAIN a.results /\ n.fix.c # Nothing
    <3>1. f = [n.fix EXCEPT !.late = TRUE]
      BY <1>2, <2>3
    <3>2. f.late
      BY <3>1 DEF FixOK
    <3> QED
      BY <1>6, <2>3, <3>2
  <2> QED
    BY <2>1, <2>2, <2>3 DEF FixOK
<1> QED
  BY <1>1, <1>4, <1>5, <1>6, <1>7 DEF Overtaken

LEMMA ReadAddressIsKept ==
  ASSUME HealthInv, Health!ReadAddress
  PROVE  HealthInv'
<1>1. PICK m : m = Health!Outdated(net)
  OBVIOUS
<1>2. PICK read \in {<<IF hub.config = Nothing THEN Origin ELSE hub.config, app>>}
                    \cup {<<Origin, failed>> : failed \in Health!Failing(app)} :
       /\ net' = [Health!Outdated(net) EXCEPT !.run =
                   [stage |-> "ops", c |-> Health!Context(read[1], FALSE, FALSE, FALSE), todo |-> {}]]
       /\ app' = [read[2] EXCEPT !.active = read[1], !.calm = TRUE]
  BY DEF Health!ReadAddress
<1>3. PICK x, b : x = read[1] /\ b = read[2]
  OBVIOUS
<1>4. PICK c : c = Health!Context(x, FALSE, FALSE, FALSE)
  OBVIOUS
<1>5. PICK n : n = [m EXCEPT !.run = [stage |-> "ops", c |-> c, todo |-> {}]]
  OBVIOUS
<1>6. PICK a : a = [b EXCEPT !.active = x, !.calm = TRUE]
  OBVIOUS
<1>7. net' = n /\ app' = a /\ hub' = hub
  BY <1>1, <1>2, <1>3, <1>4, <1>5, <1>6 DEF Health!ReadAddress
<1>8. Overtaken(net, m, app)
  <2>1. ScanOK(net, app) /\ RechecksOK(hub, net, app) /\ FixOK(hub, net, app)
    BY DEF HealthInv, HealthOK
  <2> QED
    BY <1>1, <2>1, OutdatedIsLate, Zenon
<1>9. /\ DOMAIN b = PageFields /\ b.results = app.results /\ b.ops = app.ops
      /\ b.errors \in Nat /\ x \in Addresses /\ (b.errors = 0 => x = Cur(hub))
  <2>1. CASE x = Cur(hub) /\ b = app
    BY <2>1 DEF HealthInv, HealthOK, PageOK, WorldOK
  <2>2. ASSUME NEW f \in Health!Failing(app), x = Origin, b = f
        PROVE  /\ DOMAIN b = PageFields /\ b.results = app.results /\ b.ops = app.ops
               /\ b.errors \in Nat /\ x \in Addresses /\ (b.errors = 0 => x = Cur(hub))
    <3>1. PICK e \in Health!Spent("faults", app) : f = [e EXCEPT !.errors = @ + 1]
      BY <2>2 DEF Health!Failing
    <3>2. Alike(app, e)
      BY SpentIsAlike DEF HealthInv, HealthOK, PageOK
    <3>3. DOMAIN f = PageFields /\ f.results = app.results /\ f.ops = app.ops /\ f.errors = app.errors + 1
      BY <3>1, <3>2 DEF Alike, PageFields
    <3>4. app.errors \in Nat
      BY DEF HealthInv, HealthOK, PageOK
    <3>5. f.errors \in Nat /\ f.errors # 0
      BY <3>3, <3>4
    <3> QED
      BY <2>2, <3>3, <3>5, ServersAssumption
  <2> QED
    BY <1>2, <1>3, <2>1, <2>2 DEF Cur
<1>10. /\ DOMAIN a = PageFields /\ a.results = app.results /\ a.ops = app.ops /\ a.errors = b.errors
       /\ a.active = x /\ a.calm = TRUE
  BY <1>6, <1>9 DEF PageFields
<1>11. /\ DOMAIN n = {"run", "rechecks", "fix"} /\ DOMAIN n.run = {"stage", "c", "todo"}
       /\ n.run.stage = "ops" /\ n.run.c = c /\ n.run.todo = {}
       /\ n.rechecks = m.rechecks /\ n.fix = m.fix
  BY <1>5, <1>8 DEF Overtaken
<1>12. c.active = x
  BY <1>4 DEF Health!Context
<1>13. ScanOK(n, a)
  BY <1>8, <1>10, <1>11, <1>12 DEF HealthInv, HealthOK, ScanOK, Overtaken
<1>14. PageOK(a)
  <2>1. a.errors \in Nat
    BY <1>9, <1>10
  <2>2. a.calm \in BOOLEAN /\ a.ops \in BOOLEAN
    BY <1>10 DEF HealthInv, HealthOK, PageOK
  <2> QED
    BY <1>9, <1>10, <2>1, <2>2, Zenon DEF PageOK
<1>15. AddressOK(hub, a)
  BY <1>9, <1>10 DEF AddressOK
<1>16. GreenOK(hub, n, a)
  BY <1>11 DEF GreenOK, Known
<1>17. RechecksOK(hub, n, a)
  BY <1>8, <1>11 DEF RechecksOK, Overtaken
<1>18. FixOK(hub, n, a)
  BY <1>8, <1>10, <1>11 DEF FixOK, Overtaken
<1> QED
  BY <1>7, <1>13, <1>14, <1>15, <1>16, <1>17, <1>18 DEF HealthInv, HealthOK

LEMMA PrimeIsKept ==
  ASSUME HealthInv, Health!Prime
  PROVE  HealthInv'
<1>1. PICK m : m = Health!Outdated(net)
  OBVIOUS
<1>2. PICK c : c = Health!Context(net.run.c.active, Health!Healthy(hub, Origin), hub.server[Worker].socket,
                                  hub.server[net.run.c.active].socket)
  OBVIOUS
<1>3. PICK results : results = [check \in DOMAIN app.results |->
                                  IF check \in Health!Immediate
                                  THEN Health!RunOne(check, hub, c, app.errors, TRUE)
                                  ELSE app.results[check]]
  OBVIOUS
<1>4. PICK a : a = [app EXCEPT !.ops = c.ops, !.results = results]
  OBVIOUS
<1>5. PICK n : n = [m EXCEPT !.run = [stage |-> "checks", c |-> c, todo |-> DOMAIN app.results \ Health!Immediate]]
  OBVIOUS
<1>6. net' = n /\ app' = a /\ hub' = hub /\ net.run.stage = "ops"
  BY <1>1, <1>2, <1>3, <1>4, <1>5 DEF Health!Prime
<1>7. c.active = app.active /\ c.ops \in BOOLEAN /\ (c.wsOkActive => hub.server[c.active].socket)
  BY <1>2, <1>6 DEF Health!Context, Health!Healthy, HealthInv, HealthOK, ScanOK
<1>8. Overtaken(net, m, app)
  <2>1. ScanOK(net, app) /\ RechecksOK(hub, net, app) /\ FixOK(hub, net, app)
    BY DEF HealthInv, HealthOK
  <2> QED
    BY <1>1, <2>1, OutdatedIsLate, Zenon
<1>9. /\ DOMAIN a = PageFields /\ a.results = results /\ a.ops = c.ops /\ a.errors = app.errors
      /\ a.active = app.active /\ a.calm = app.calm
  BY <1>4 DEF PageFields, HealthInv, HealthOK, PageOK
<1>10. /\ DOMAIN n = {"run", "rechecks", "fix"} /\ DOMAIN n.run = {"stage", "c", "todo"}
       /\ n.run.stage = "checks" /\ n.run.c = c /\ n.run.todo = DOMAIN app.results \ Health!Immediate
       /\ n.rechecks = m.rechecks /\ n.fix = m.fix
  BY <1>5, <1>8 DEF Overtaken
<1>11. DOMAIN results = DOMAIN app.results
  BY <1>3
<1>12. ScanOK(n, a)
  BY <1>7, <1>8, <1>9, <1>10, <1>11 DEF HealthInv, HealthOK, ScanOK, Overtaken
<1>13. PageOK(a) /\ AddressOK(hub, a)
  BY <1>7, <1>9 DEF HealthInv, HealthOK, PageOK, AddressOK
<1>14. GreenOK(hub, n, a)
  <2> SUFFICES ASSUME a.calm, NEW check \in DOMAIN results, Known(check, n), results[check].status = "ok"
               PROVE  Means(check, hub, a.active)
    BY <1>9 DEF GreenOK
  <2>1. check \in Health!Immediate
    BY <1>10, <1>11 DEF Known
  <2>2. Health!RunOne(check, hub, c, app.errors, TRUE).status = "ok"
    BY <1>3, <1>11, <2>1
  <2>3. /\ app.errors \in Nat /\ WorldOK(hub) /\ c.active \in Addresses
        /\ (check = "g_ws" /\ c.wsOkActive => hub.server[c.active].socket)
        /\ (app.errors = 0 => c.active = Cur(hub))
    BY <1>7, <1>9 DEF HealthInv, HealthOK, PageOK, AddressOK
  <2> QED
    BY <1>7, <1>9, <2>2, <2>3, GreenMeans
<1>15. RechecksOK(hub, n, a)
  BY <1>8, <1>10 DEF RechecksOK, Overtaken
<1>16. FixOK(hub, n, a)
  BY <1>8, <1>9, <1>10, <1>11 DEF FixOK, Overtaken
<1> QED
  BY <1>6, <1>12, <1>13, <1>14, <1>15, <1>16 DEF HealthInv, HealthOK

\* A page whose shown results alone change is as good as each result that is green.
Shows(h, n, m, a, b, check, r) ==
  /\ HealthOK(h, n, a) /\ check \in DOMAIN a.results
  /\ DOMAIN m = {"run", "rechecks", "fix"} /\ DOMAIN m.run = {"stage", "c", "todo"}
  /\ m.run.stage = n.run.stage /\ m.run.c = n.run.c /\ m.run.todo \in {n.run.todo, n.run.todo \ {check}}
  /\ DOMAIN m.rechecks = DOMAIN n.rechecks /\ RechecksOK(h, m, a) /\ FixOK(h, m, a)
  /\ DOMAIN b = PageFields /\ b.results = [a.results EXCEPT ![check] = r]
  /\ b.active = a.active /\ b.ops = a.ops /\ b.errors = a.errors /\ b.calm \in BOOLEAN
  /\ b.calm => a.calm
  /\ b.calm /\ Known(check, m) /\ r.status = "ok" => Means(check, h, a.active)

LEMMA ResultHolds ==
  ASSUME NEW h, NEW n, NEW m, NEW a, NEW b, NEW check, NEW r, Shows(h, n, m, a, b, check, r)
  PROVE  HealthOK(h, m, b)
<1> USE DEF Shows
<1>1. DOMAIN b.results = DOMAIN a.results
  OBVIOUS
<1>2. ScanOK(m, b)
  BY <1>1 DEF HealthOK, ScanOK
<1>3. PageOK(b) /\ AddressOK(h, b)
  BY DEF HealthOK, PageOK, AddressOK
<1>4. GreenOK(h, m, b)
  <2> SUFFICES ASSUME b.calm, NEW other \in DOMAIN b.results, Known(other, m), b.results[other].status = "ok"
               PROVE  Means(other, h, b.active)
    BY DEF GreenOK
  <2>1. CASE other = check
    BY <1>1, <2>1
  <2>2. CASE other # check
    <3>1. Known(other, n)
      BY <2>2 DEF Known
    <3>2. a.results[other].status = "ok"
      BY <1>1, <2>2
    <3> QED
      BY <1>1, <3>1, <3>2 DEF HealthOK, GreenOK
  <2> QED
    BY <2>1, <2>2
<1>5. \A c : Trusty(c, h, m, a) => Trusty(c, h, m, b)
  BY DEF Trusty
<1>6. RechecksOK(h, m, b)
  BY <1>5 DEF RechecksOK
<1>7. FixOK(h, m, b)
  BY <1>1, <1>5 DEF FixOK
<1> QED
  BY <1>2, <1>3, <1>4, <1>6, <1>7 DEF HealthOK

LEMMA FinishIsKept ==
  ASSUME HealthInv, NEW check \in DOMAIN app.results, Health!Finish(check)
  PROVE  HealthInv'
<1>1. PICK n : n = [net EXCEPT !.run.todo = @ \ {check}]
  OBVIOUS
<1>2. net' = n /\ hub' = hub /\ check \in net.run.todo
  BY <1>1 DEF Health!Finish
<1>3. HealthOK(hub, net, app)
  BY DEF HealthInv
<1>4. /\ DOMAIN n = {"run", "rechecks", "fix"} /\ DOMAIN n.run = {"stage", "c", "todo"}
      /\ n.run.stage = net.run.stage /\ n.run.c = net.run.c /\ n.run.todo = net.run.todo \ {check}
      /\ n.rechecks = net.rechecks /\ n.fix = net.fix
  BY <1>1, <1>3 DEF HealthOK, ScanOK
<1>5. \A c : Trusty(c, hub, net, app) => Trusty(c, hub, n, app)
  BY <1>4 DEF Trusty, Looked
<1>6. RechecksOK(hub, n, app) /\ FixOK(hub, n, app)
  BY <1>3, <1>4, <1>5 DEF HealthOK, RechecksOK, FixOK
<1>7. DOMAIN app = PageFields /\ app.errors \in Nat /\ app.active \in Addresses /\ app.calm \in BOOLEAN
  BY <1>3 DEF HealthOK, PageOK
<1>8. check \notin Health!Immediate /\ net.run.c.active = app.active
  BY <1>2, <1>3 DEF HealthOK, ScanOK
<1>9. ASSUME NEW answers \in BOOLEAN,
             app' = [app EXCEPT !.results[check] = Health!RunOne(check, hub, net.run.c, app.errors, answers)]
      PROVE  HealthOK(hub, n, app')
  <2>1. PICK r : r = Health!RunOne(check, hub, net.run.c, app.errors, answers)
    OBVIOUS
  <2>2. PICK b : b = [app EXCEPT !.results[check] = r]
    OBVIOUS
  <2>3. /\ DOMAIN b = PageFields /\ b.results = [app.results EXCEPT ![check] = r]
        /\ b.active = app.active /\ b.ops = app.ops /\ b.errors = app.errors /\ b.calm = app.calm
    BY <1>7, <2>2 DEF PageFields
  <2>4. b.calm /\ Known(check, n) /\ r.status = "ok" => Means(check, hub, app.active)
    <3> SUFFICES ASSUME b.calm, r.status = "ok" PROVE Means(check, hub, app.active)
      OBVIOUS
    <3>1. CASE check \in {"proxy_serves", "d_fresh"}
      <4>1. check # "g_ws" /\ check # "data_source"
        BY <3>1
      <4>2. WorldOK(hub)
        BY <1>3 DEF HealthOK
      <4>3. app.errors = 0 => net.run.c.active = Cur(hub)
        BY <1>3, <1>8, <2>3 DEF HealthOK, AddressOK
      <4> QED
        BY <1>7, <1>8, <2>1, <4>1, <4>2, <4>3, GreenMeans
    <3>2. CASE check \notin {"proxy_serves", "d_fresh"}
      BY <1>8, <3>2 DEF Means, Health!Immediate
    <3> QED
      BY <3>1, <3>2
  <2>5. Shows(hub, net, n, app, b, check, r)
    BY <1>3, <1>4, <1>6, <1>7, <2>3, <2>4 DEF Shows
  <2>6. HealthOK(hub, n, b)
    BY <2>5, ResultHolds
  <2> QED
    BY <1>9, <2>1, <2>2, <2>6
<1>10. ASSUME NEW slow \in Health!Spent("faults", app), app' = [slow EXCEPT !.results[check] = Health!Found("warn")]
       PROVE  HealthOK(hub, n, app')
  <2>1. PICK r : r = Health!Found("warn")
    OBVIOUS
  <2>2. PICK b : b = [slow EXCEPT !.results[check] = r]
    OBVIOUS
  <2>3. Alike(app, slow)
    BY <1>7, SpentIsAlike
  <2>4. /\ DOMAIN b = PageFields /\ b.results = [app.results EXCEPT ![check] = r]
        /\ b.active = app.active /\ b.ops = app.ops /\ b.errors = app.errors /\ b.calm = app.calm
    BY <2>2, <2>3 DEF PageFields, Alike
  <2>5. r.status # "ok"
    BY <2>1 DEF Health!Found
  <2>6. Shows(hub, net, n, app, b, check, r)
    BY <1>3, <1>4, <1>6, <1>7, <2>4, <2>5 DEF Shows
  <2>7. HealthOK(hub, n, b)
    BY <2>6, ResultHolds
  <2> QED
    BY <1>10, <2>1, <2>2, <2>7
<1> QED
  BY <1>2, <1>9, <1>10 DEF HealthInv, Health!Finish

LEMMA FinishedIsKept ==
  ASSUME HealthInv, Health!Finished
  PROVE  HealthInv'
<1>1. PICK n : n = [net EXCEPT !.run = Health!AtRest]
  OBVIOUS
<1>2. HealthOK(hub, net, app)
  BY DEF HealthInv
<1>3. /\ DOMAIN n = {"run", "rechecks", "fix"} /\ n.run = Health!AtRest
      /\ n.rechecks = net.rechecks /\ n.fix = net.fix
  BY <1>1, <1>2 DEF HealthOK, ScanOK
<1>4. DOMAIN n.run = {"stage", "c", "todo"} /\ n.run.stage = "idle" /\ n.run.todo = {}
  BY <1>3 DEF Health!AtRest
<1>5. net.run.stage = "checks" /\ net.run.todo = {}
  BY DEF Health!Finished
<1>6. ScanOK(n, app)
  BY <1>2, <1>3, <1>4 DEF HealthOK, ScanOK
<1>7. GreenOK(hub, n, app)
  BY <1>2, <1>5 DEF HealthOK, GreenOK, Known
<1>8. \A c : Trusty(c, hub, net, app) => Trusty(c, hub, n, app)
  BY <1>5 DEF Trusty, Looked
<1>9. RechecksOK(hub, n, app) /\ FixOK(hub, n, app)
  BY <1>2, <1>3, <1>8 DEF HealthOK, RechecksOK, FixOK
<1>10. HealthOK(hub, n, app)
  BY <1>2, <1>6, <1>7, <1>9 DEF HealthOK
<1>11. Alike(app, app')
  <2>1. app' = [app EXCEPT !.since = 0] \/ app' = app
    BY DEF Health!Finished
  <2> QED
    BY <1>2, <2>1 DEF HealthOK, PageOK, Alike, PageFields
<1>12. HealthOK(hub, n, app')
  BY <1>10, <1>11, AlikeHolds
<1> QED
  BY <1>1, <1>12 DEF HealthInv, Health!Finished

\* What the page shows is in time when it is asked with.
LEMMA ShownIsTrusty ==
  ASSUME NEW h, NEW n, NEW a, HealthOK(h, n, a)
  PROVE  Trusty(Health!Shown(a), h, n, a) /\ Health!Shown(a) # Nothing
<1>1. PICK ops, s, t : ops = a.ops /\ s = ("wk_ws" \in Health!With("ok", a.results))
                       /\ t = ("g_ws" \in Health!With("ok", a.results))
  OBVIOUS
<1>2. Health!Shown(a) = Health!Context(a.active, ops, s, t)
  BY <1>1 DEF Health!Shown
<1>3. ops \in BOOLEAN /\ s \in BOOLEAN /\ t \in BOOLEAN /\ a.active \in Addresses
  BY <1>1 DEF HealthOK, PageOK
<1>4. Health!Shown(a) # Nothing
  BY <1>2, <1>3, ServersAssumption
<1>5. Health!Shown(a).active = a.active /\ Health!Shown(a).wsOkActive = t
  BY <1>2 DEF Health!Context
<1>6. ASSUME a.calm, Looked(n), t PROVE h.server[a.active].socket
  <2>1. "g_ws" \in DOMAIN a.results /\ a.results["g_ws"].status = "ok"
    BY <1>1, <1>6 DEF Health!With
  <2>2. Known("g_ws", n)
    BY <1>6 DEF Looked, Known, HealthOK, ScanOK, Health!Immediate
  <2>3. Means("g_ws", h, a.active)
    BY <1>6, <2>1, <2>2 DEF HealthOK, GreenOK
  <2> QED
    BY <2>3 DEF Means
<1> QED
  BY <1>4, <1>5, <1>6 DEF Trusty

\* A check that is asked again shows nothing until it has answered.
Asks(h, n, m, a, b, check, asked) ==
  /\ HealthOK(h, n, a) /\ check \in DOMAIN a.results
  /\ DOMAIN asked = {"c", "late"} /\ asked.late \in BOOLEAN /\ (~asked.late => Trusty(asked.c, h, n, a))
  /\ m = [n EXCEPT !.rechecks[check] = asked] /\ b = [a EXCEPT !.results[check] = Health!Checking]

LEMMA AskedHolds ==
  ASSUME NEW h, NEW n, NEW m, NEW a, NEW b, NEW check, NEW asked, Asks(h, n, m, a, b, check, asked)
  PROVE  HealthOK(h, m, b)
<1> USE DEF Asks
<1>1. PICK r : r = Health!Checking
  OBVIOUS
<1>2. /\ DOMAIN m = {"run", "rechecks", "fix"} /\ m.run = n.run /\ m.fix = n.fix
      /\ m.rechecks = [n.rechecks EXCEPT ![check] = asked] /\ DOMAIN m.rechecks = DOMAIN n.rechecks
  BY DEF HealthOK, ScanOK
<1>3. \A c : Trusty(c, h, n, a) => Trusty(c, h, m, a)
  BY <1>2 DEF Trusty, Looked
<1>4. RechecksOK(h, m, a)
  <2> SUFFICES ASSUME NEW other \in DOMAIN m.rechecks, m.rechecks[other] # Nothing
               PROVE  /\ DOMAIN m.rechecks[other] = {"c", "late"} /\ m.rechecks[other].late \in BOOLEAN
                      /\ ~m.rechecks[other].late => Trusty(m.rechecks[other].c, h, m, a)
    BY DEF RechecksOK
  <2>1. CASE other = check
    BY <1>2, <1>3, <2>1
  <2>2. CASE other # check
    <3>1. m.rechecks[other] = n.rechecks[other]
      BY <1>2, <2>2
    <3> QED
      BY <1>2, <1>3, <3>1 DEF HealthOK, RechecksOK
  <2> QED
    BY <2>1, <2>2
<1>5. FixOK(h, m, a)
  BY <1>2, <1>3 DEF HealthOK, FixOK
<1>6. /\ DOMAIN b = PageFields /\ b.results = [a.results EXCEPT ![check] = r]
      /\ b.active = a.active /\ b.ops = a.ops /\ b.errors = a.errors /\ b.calm = a.calm
      /\ b.calm \in BOOLEAN
  BY <1>1 DEF HealthOK, PageOK, PageFields
<1>7. r.status # "ok"
  BY <1>1 DEF Health!Checking
<1>8. /\ DOMAIN m.run = {"stage", "c", "todo"} /\ m.run.stage = n.run.stage /\ m.run.c = n.run.c
      /\ m.run.todo \in {n.run.todo, n.run.todo \ {check}}
  BY <1>2 DEF HealthOK, ScanOK
<1>9. (b.calm => a.calm) /\ (b.calm /\ Known(check, m) /\ r.status = "ok" => Means(check, h, a.active))
  BY <1>6, <1>7
<1>10. Shows(h, n, m, a, b, check, r)
  BY <1>2, <1>4, <1>5, <1>6, <1>8, <1>9 DEF Shows
<1> QED
  BY <1>10, ResultHolds

LEMMA RecheckIsKept ==
  ASSUME HealthInv, NEW check \in DOMAIN app.results, Health!Recheck(check)
  PROVE  HealthInv'
<1>1. PICK a \in Health!Spent("presses", app) :
        /\ net' = [net EXCEPT !.rechecks[check] = [c |-> Health!Shown(app), late |-> FALSE]]
        /\ app' = [a EXCEPT !.results[check] = Health!Checking]
  BY DEF Health!Recheck, Health!Pressed
<1>2. PICK asked : asked = [c |-> Health!Shown(app), late |-> FALSE]
  OBVIOUS
<1>3. PICK n : n = [net EXCEPT !.rechecks[check] = asked]
  OBVIOUS
<1>4. PICK b : b = [a EXCEPT !.results[check] = Health!Checking]
  OBVIOUS
<1>5. net' = n /\ app' = b /\ hub' = hub
  BY <1>1, <1>2, <1>3, <1>4 DEF Health!Recheck
<1>6. HealthOK(hub, net, app) /\ Alike(app, a)
  BY SpentIsAlike DEF HealthInv, HealthOK, PageOK
<1>7. HealthOK(hub, net, a)
  BY <1>6, AlikeHolds
<1>8. /\ DOMAIN asked = {"c", "late"} /\ asked.late = FALSE /\ asked.c = Health!Shown(app)
      /\ asked.late \in BOOLEAN
  BY <1>2
<1>9. Trusty(asked.c, hub, net, a)
  <2>1. Trusty(Health!Shown(app), hub, net, app)
    BY <1>6, ShownIsTrusty
  <2> QED
    BY <1>6, <1>8, <2>1 DEF Trusty, Alike
<1>10. check \in DOMAIN a.results
  BY <1>6 DEF Alike
<1>11. Asks(hub, net, n, a, b, check, asked)
  BY <1>3, <1>4, <1>7, <1>8, <1>9, <1>10 DEF Asks
<1>12. HealthOK(hub, n, b)
  BY <1>11, AskedHolds
<1> QED
  BY <1>5, <1>12 DEF HealthInv

LEMMA RecheckedIsKept ==
  ASSUME HealthInv, NEW check \in DOMAIN app.results, Health!Rechecked(check)
  PROVE  HealthInv'
<1>1. PICK asked : asked = net.rechecks[check]
  OBVIOUS
<1>2. PICK answers \in BOOLEAN :
       app' = [app EXCEPT !.results[check] =
                            Health!RunOne(check, hub, net.rechecks[check].c, app.errors, answers),
                          !.calm = @ /\ ~net.rechecks[check].late]
  BY DEF Health!Rechecked
<1>3. PICK r : r = Health!RunOne(check, hub, asked.c, app.errors, answers)
  OBVIOUS
<1>4. PICK calm \in BOOLEAN : calm = (app.calm /\ ~asked.late)
  OBVIOUS
<1>5. PICK n : n = [net EXCEPT !.rechecks[check] = Health!NoRecheck]
  OBVIOUS
<1>6. PICK b : b = [app EXCEPT !.results[check] = r, !.calm = calm]
  OBVIOUS
<1>7. net' = n /\ app' = b /\ hub' = hub /\ asked # Nothing
  BY <1>1, <1>2, <1>3, <1>4, <1>5, <1>6 DEF Health!Rechecked, Health!NoRecheck
<1>8. HealthOK(hub, net, app) /\ DOMAIN app = PageFields /\ app.errors \in Nat /\ app.active \in Addresses
  BY DEF HealthInv, HealthOK, PageOK
<1>9. /\ DOMAIN n = {"run", "rechecks", "fix"} /\ n.run = net.run /\ n.fix = net.fix
      /\ n.rechecks = [net.rechecks EXCEPT ![check] = Nothing] /\ DOMAIN n.run = {"stage", "c", "todo"}
      /\ DOMAIN n.rechecks = DOMAIN net.rechecks
  BY <1>5, <1>8 DEF HealthOK, ScanOK, Health!NoRecheck
<1>10. \A c : Trusty(c, hub, net, app) => Trusty(c, hub, n, app)
  BY <1>9 DEF Trusty, Looked
<1>11. RechecksOK(hub, n, app)
  BY <1>8, <1>9, <1>10 DEF HealthOK, RechecksOK
<1>12. FixOK(hub, n, app)
  BY <1>8, <1>9, <1>10 DEF HealthOK, FixOK
<1>13. /\ DOMAIN b = PageFields /\ b.results = [app.results EXCEPT ![check] = r]
       /\ b.active = app.active /\ b.ops = app.ops /\ b.errors = app.errors /\ b.calm = calm
  BY <1>6, <1>8 DEF PageFields
<1>14. check \in DOMAIN net.rechecks
  BY <1>8 DEF HealthOK, ScanOK
<1>15. ASSUME calm, Known(check, n), r.status = "ok" PROVE Means(check, hub, app.active)
  <2>1. app.calm /\ ~asked.late
    BY <1>4, <1>15
  <2>2. Trusty(asked.c, hub, n, app)
    BY <1>1, <1>7, <1>8, <1>10, <1>14, <2>1 DEF HealthOK, RechecksOK
  <2>3. Looked(n)
    BY <1>15 DEF Known, Looked
  <2>4. asked.c.active = app.active /\ (asked.c.wsOkActive => hub.server[asked.c.active].socket)
    BY <2>1, <2>2, <2>3 DEF Trusty
  <2>5. WorldOK(hub) /\ (app.errors = 0 => asked.c.active = Cur(hub))
    BY <1>8, <2>1, <2>4 DEF HealthOK, AddressOK
  <2> QED
    BY <1>3, <1>8, <1>15, <2>4, <2>5, GreenMeans
<1>16. b.calm \in BOOLEAN /\ (b.calm => app.calm)
  BY <1>4, <1>13
<1>17. Shows(hub, net, n, app, b, check, r)
  BY <1>8, <1>9, <1>11, <1>12, <1>13, <1>15, <1>16 DEF Shows
<1>18. HealthOK(hub, n, b)
  BY <1>17, ResultHolds
<1> QED
  BY <1>7, <1>18 DEF HealthInv

LEMMA FixHolds ==
  ASSUME NEW h, NEW n, NEW a, NEW f, NEW m, HealthOK(h, n, a), m = [n EXCEPT !.fix = f], FixOK(h, m, a)
  PROVE  HealthOK(h, m, a)
<1>1. DOMAIN m = {"run", "rechecks", "fix"} /\ m.run = n.run /\ m.rechecks = n.rechecks
  BY DEF HealthOK, ScanOK
<1>2. ScanOK(m, a)
  BY <1>1 DEF HealthOK, ScanOK
<1>3. GreenOK(h, m, a)
  BY <1>1 DEF HealthOK, GreenOK, Known
<1>4. \A c : Trusty(c, h, n, a) => Trusty(c, h, m, a)
  BY <1>1 DEF Trusty, Looked
<1>5. RechecksOK(h, m, a)
  BY <1>1, <1>4 DEF HealthOK, RechecksOK
<1> QED
  BY <1>2, <1>3, <1>5 DEF HealthOK

LEMMA FixIsKept ==
  ASSUME HealthInv, Health!Confirm \/ \E check \in DOMAIN app.results : Health!FixNow(check)
  PROVE  HealthInv'
<1>1. HealthOK(hub, net, app) /\ DOMAIN app = PageFields
  BY DEF HealthInv, HealthOK, PageOK
<1>2. ASSUME NEW f, NEW n, NEW a, n = [net EXCEPT !.fix = f], Alike(app, a), FixOK(hub, n, a),
             net' = n, app' = a, hub' = hub
      PROVE  HealthInv'
  <2>1. HealthOK(hub, net, a)
    BY <1>1, <1>2, AlikeHolds
  <2>2. HealthOK(hub, n, a)
    BY <1>2, <2>1, FixHolds
  <2> QED
    BY <1>2, <2>2 DEF HealthInv
<1>3. CASE Health!Confirm
  <2>1. PICK f : f = [todo |-> app.confirm, then |-> "scan", c |-> Nothing, late |-> FALSE]
    OBVIOUS
  <2>2. PICK a : a = [app EXCEPT !.confirm = <<>>]
    OBVIOUS
  <2>3. PICK n : n = [net EXCEPT !.fix = f]
    OBVIOUS
  <2>4. net' = n /\ app' = a /\ hub' = hub
    BY <1>3, <2>1, <2>2, <2>3 DEF Health!Confirm
  <2>5. Alike(app, a)
    BY <1>1, <2>2 DEF Alike, PageFields
  <2>6. n.fix = f
    BY <1>1, <2>3 DEF HealthOK, ScanOK
  <2>7. DOMAIN f = {"todo", "then", "c", "late"} /\ f.late = FALSE /\ f.then = "scan"
    BY <2>1
  <2>8. FixOK(hub, n, a)
    BY <2>6, <2>7 DEF FixOK
  <2> QED
    BY <1>2, <2>3, <2>4, <2>5, <2>8
<1>4. ASSUME NEW check \in DOMAIN app.results, Health!FixNow(check) PROVE HealthInv'
  <2>1. PICK f : f = [todo |-> <<app.results[check].fix>>, then |-> check, c |-> Health!Shown(app), late |-> FALSE]
    OBVIOUS
  <2>2. PICK a \in Health!Spent("presses", app) : app' = a
    BY <1>4 DEF Health!FixNow, Health!Pressed
  <2>3. PICK n : n = [net EXCEPT !.fix = f]
    OBVIOUS
  <2>4. net' = n /\ hub' = hub
    BY <1>4, <2>1, <2>3 DEF Health!FixNow
  <2>5. Alike(app, a)
    BY <1>1, SpentIsAlike
  <2>6. n.fix = f /\ n.run = net.run
    BY <1>1, <2>3 DEF HealthOK, ScanOK
  <2>7. /\ DOMAIN f = {"todo", "then", "c", "late"} /\ f.late = FALSE /\ f.then = check
        /\ f.c = Health!Shown(app)
    BY <2>1
  <2>8. Trusty(Health!Shown(app), hub, net, app) /\ Health!Shown(app) # Nothing
    BY <1>1, ShownIsTrusty
  <2>9. Trusty(f.c, hub, n, a)
    BY <2>5, <2>6, <2>7, <2>8 DEF Trusty, Alike, Looked
  <2>10. FixOK(hub, n, a)
    BY <2>5, <2>6, <2>7, <2>8, <2>9 DEF FixOK, Alike
  <2> QED
    BY <1>2, <2>2, <2>3, <2>4, <2>5, <2>10
<1> QED
  BY <1>3, <1>4

\* What a repair writes: at most another address, which the page then knows to have changed.
LEMMA WrittenHolds ==
  ASSUME NEW h, NEW g, NEW fix, NEW read \in BOOLEAN, WorldOK(h), g = Health!Written(fix, h, read)
  PROVE  WorldOK(g) /\ g.server = h.server /\ (fix = "nudge_scraper" => g.config = h.config)
<1>1. CASE fix = "switch_origin"
  <2>1. g = [h EXCEPT !.config = Origin]
    BY <1>1 DEF Health!Written
  <2>2. /\ DOMAIN g = {"config", "server", "scenes", "scan"} /\ g.config = Origin
        /\ g.server = h.server /\ g.scenes = h.scenes
    BY <2>1 DEF WorldOK
  <2>3. Cur(g) \in Addresses
    BY <2>2, ServersAssumption DEF Cur
  <2> QED
    BY <1>1, <2>2, <2>3 DEF WorldOK
<1>2. CASE fix = "switch_worker"
  <2>1. g = [h EXCEPT !.config = Worker]
    BY <1>2 DEF Health!Written
  <2>2. /\ DOMAIN g = {"config", "server", "scenes", "scan"} /\ g.config = Worker
        /\ g.server = h.server /\ g.scenes = h.scenes
    BY <2>1 DEF WorldOK
  <2>3. Cur(g) \in Addresses
    BY <2>2, ServersAssumption DEF Cur
  <2> QED
    BY <1>2, <2>2, <2>3 DEF WorldOK
<1>3. CASE fix = "nudge_scraper"
  <2>1. PICK scan : scan = [asked |-> TRUE, others |-> h.scan.others /\ read]
    OBVIOUS
  <2>2. g = [h EXCEPT !.scan = scan]
    BY <1>3, <2>1 DEF Health!Written
  <2>3. /\ DOMAIN g = {"config", "server", "scenes", "scan"} /\ g.config = h.config
        /\ g.server = h.server /\ g.scenes = h.scenes
    BY <2>2 DEF WorldOK
  <2>4. Cur(g) \in Addresses
    BY <2>3 DEF Cur, WorldOK
  <2> QED
    BY <2>3, <2>4 DEF WorldOK
<1>4. CASE fix \notin {"switch_origin", "switch_worker", "nudge_scraper"}
  BY <1>4 DEF Health!Written
<1> QED
  BY <1>1, <1>2, <1>3, <1>4

\* A step of a repair: the page stays as it was, and calm only if the address did too.
Mended(h, g, a, b) ==
  /\ WorldOK(g) /\ g.server = h.server
  /\ DOMAIN b = PageFields /\ b.results = a.results /\ b.active = a.active /\ b.ops = a.ops
  /\ b.errors \in Nat /\ (b.errors = 0 => a.errors = 0)
  /\ b.calm \in BOOLEAN /\ (b.calm => a.calm /\ g.config = h.config)

LEMMA MendedHolds ==
  ASSUME NEW h, NEW g, NEW n, NEW a, NEW b, HealthOK(h, n, a), Mended(h, g, a, b)
  PROVE  HealthOK(g, n, b)
<1>1. ScanOK(n, b) /\ PageOK(b)
  BY DEF HealthOK, Mended, ScanOK, PageOK
<1>2. AddressOK(g, b)
  BY DEF HealthOK, Mended, AddressOK, Cur
<1>3. GreenOK(g, n, b)
  <2> SUFFICES ASSUME b.calm, NEW check \in DOMAIN b.results, Known(check, n), b.results[check].status = "ok"
               PROVE  Means(check, g, b.active)
    BY DEF GreenOK
  <2>1. Means(check, h, a.active)
    BY DEF HealthOK, Mended, GreenOK
  <2>2. g.server = h.server /\ g.config = h.config /\ b.active = a.active
    BY DEF Mended
  <2> QED
    BY <2>1, <2>2 DEF Means, Health!Healthy, Cur
<1>4. \A c : Trusty(c, h, n, a) => Trusty(c, g, n, b)
  BY DEF Mended, Trusty
<1>5. RechecksOK(g, n, b)
  BY <1>4 DEF HealthOK, RechecksOK
<1>6. FixOK(g, n, b)
  BY <1>4 DEF HealthOK, FixOK, Mended
<1> QED
  BY <1>1, <1>2, <1>3, <1>5, <1>6 DEF HealthOK, Mended

LEMMA RepairIsKept ==
  ASSUME HealthInv, Health!Repair
  PROVE  HealthInv'
<1>1. /\ HealthOK(hub, net, app) /\ DOMAIN app = PageFields /\ WorldOK(hub) /\ app.errors \in Nat
      /\ app.calm \in BOOLEAN
  BY DEF HealthInv, HealthOK, PageOK
<1>2. Mended(hub, hub', app, app')
  <2>1. ASSUME NEW fix, hub' = Health!Written(fix, hub, TRUE),
               app' = [app EXCEPT !.calm = @ /\ hub'.config = hub.config]
        PROVE  Mended(hub, hub', app, app')
    <3>1. WorldOK(hub') /\ hub'.server = hub.server
      BY <1>1, <2>1, WrittenHolds
    <3>2. PICK calm \in BOOLEAN : calm = (app.calm /\ hub'.config = hub.config)
      OBVIOUS
    <3>3. app' = [app EXCEPT !.calm = calm]
      BY <2>1, <3>2
    <3>4. /\ DOMAIN app' = PageFields /\ app'.results = app.results /\ app'.active = app.active
          /\ app'.ops = app.ops /\ app'.errors = app.errors /\ app'.calm = calm
      BY <1>1, <3>3 DEF PageFields
    <3>5. app'.calm \in BOOLEAN /\ (app'.calm => app.calm /\ hub'.config = hub.config)
      BY <3>2, <3>4
    <3> QED
      BY <1>1, <3>1, <3>4, <3>5 DEF Mended
  <2>2. ASSUME NEW failed \in Health!Failing(app), app' = failed,
               hub' = hub \/ hub' = Health!Written("nudge_scraper", hub, FALSE)
        PROVE  Mended(hub, hub', app, app')
    <3>1. WorldOK(hub') /\ hub'.server = hub.server /\ hub'.config = hub.config
      BY <1>1, <2>2, WrittenHolds
    <3>2. PICK e \in Health!Spent("faults", app) : failed = [e EXCEPT !.errors = @ + 1]
      BY DEF Health!Failing
    <3>3. Alike(app, e)
      BY <1>1, SpentIsAlike
    <3>4. /\ DOMAIN failed = PageFields /\ failed.results = app.results /\ failed.active = app.active
          /\ failed.ops = app.ops /\ failed.errors = app.errors + 1 /\ failed.calm = app.calm
      BY <3>2, <3>3 DEF Alike, PageFields
    <3>5. failed.errors \in Nat /\ failed.errors # 0
      BY <1>1, <3>4
    <3>6. failed.calm \in BOOLEAN
      BY <1>1, <3>4
    <3> QED
      BY <2>2, <3>1, <3>4, <3>5, <3>6 DEF Mended
  <2>3. PICK fix \in {Head(net.fix.todo)} :
          \/ hub' = Health!Written(fix, hub, TRUE) /\ app' = [app EXCEPT !.calm = @ /\ hub'.config = hub.config]
          \/ \E failed \in Health!Failing(app) :
               /\ hub' \in {hub} \cup (IF fix = "nudge_scraper" THEN {Health!Written(fix, hub, FALSE)} ELSE {})
               /\ app' = failed
    BY DEF Health!Repair
  <2> QED
    BY <2>1, <2>2, <2>3
<1>3. PICK g, a : g = hub' /\ a = app'
  OBVIOUS
<1>4. HealthOK(g, net, a)
  BY <1>1, <1>2, <1>3, MendedHolds
<1>5. PICK f : f = [net.fix EXCEPT !.todo = Tail(net.fix.todo)]
  OBVIOUS
<1>6. PICK n : n = [net EXCEPT !.fix = f]
  OBVIOUS
<1>7. net' = n
  BY <1>5, <1>6 DEF Health!Repair
<1>8. /\ DOMAIN f = {"todo", "then", "c", "late"} /\ f.then = net.fix.then /\ f.c = net.fix.c
      /\ f.late = net.fix.late
  BY <1>1, <1>5 DEF HealthOK, FixOK
<1>9. net.fix # Health!NoFix
  BY DEF Health!Repair, Health!NoFix
<1>10. n.run = net.run /\ n.fix = f
  BY <1>1, <1>6 DEF HealthOK, ScanOK
<1>11. \A c : Trusty(c, g, net, a) => Trusty(c, g, n, a)
  BY <1>10 DEF Trusty, Looked
<1>12. FixOK(g, n, a)
  BY <1>4, <1>8, <1>9, <1>10, <1>11 DEF HealthOK, FixOK
<1>13. HealthOK(g, n, a)
  BY <1>4, <1>6, <1>12, FixHolds
<1> QED
  BY <1>3, <1>7, <1>13 DEF HealthInv

LEMMA RepairedIsKept ==
  ASSUME HealthInv, Health!Repaired
  PROVE  HealthInv'
<1>1. HealthOK(hub, net, app)
  BY DEF HealthInv
<1>2. PICK n : n = [net EXCEPT !.fix = Health!NoFix]
  OBVIOUS
<1>3. n.fix = Health!NoFix /\ n.run = net.run
  BY <1>1, <1>2 DEF HealthOK, ScanOK
<1>4. FixOK(hub, n, app)
  <2>1. /\ DOMAIN Health!NoFix = {"todo", "then", "c", "late"} /\ Health!NoFix.late = FALSE
    BY DEF Health!NoFix
  <2> QED
    BY <1>3, <2>1 DEF FixOK
<1>5. HealthOK(hub, n, app)
  BY <1>1, <1>2, <1>4, FixHolds
<1>6. net.fix # Health!NoFix /\ hub' = hub
  BY DEF Health!Repaired
<1>7. CASE net.fix.then = "scan"
  <2>1. PICK s \in Health!Started(n, app) : net' = s[1] /\ app' = s[2]
    BY <1>2, <1>7 DEF Health!Repaired
  <2>2. HealthOK(hub, s[1], s[2])
    BY <1>5, StartedHolds
  <2> QED
    BY <1>6, <2>1, <2>2 DEF HealthInv
<1>8. CASE net.fix.then # "scan"
  <2>1. PICK check : check = net.fix.then
    OBVIOUS
  <2>2. PICK asked : asked = [c |-> net.fix.c, late |-> net.fix.late]
    OBVIOUS
  <2>3. PICK m : m = [n EXCEPT !.rechecks[check] = asked]
    OBVIOUS
  <2>4. PICK b : b = [app EXCEPT !.results[check] = Health!Checking]
    OBVIOUS
  <2>5. net' = m /\ app' = b
    BY <1>2, <1>8, <2>1, <2>2, <2>3, <2>4 DEF Health!Repaired
  <2>6. /\ check \in DOMAIN app.results /\ net.fix.late \in BOOLEAN
        /\ (~net.fix.late => Trusty(net.fix.c, hub, net, app))
    BY <1>1, <1>6, <1>8, <2>1 DEF HealthOK, FixOK
  <2>7. DOMAIN asked = {"c", "late"} /\ asked.late = net.fix.late /\ asked.c = net.fix.c
    BY <2>2
  <2>8. ~asked.late => Trusty(asked.c, hub, n, app)
    BY <1>3, <2>6, <2>7 DEF Trusty, Looked
  <2>9. Asks(hub, n, m, app, b, check, asked)
    BY <1>5, <2>3, <2>4, <2>6, <2>7, <2>8 DEF Asks
  <2>10. HealthOK(hub, m, b)
    BY <2>9, AskedHolds
  <2> QED
    BY <1>6, <2>5, <2>10 DEF HealthInv
<1> QED
  BY <1>7, <1>8

LEMMA ChangeIsKept ==
  ASSUME HealthInv, NEW x \in Addresses, NEW scene \in hub.scenes, Health!Change(x, scene)
  PROVE  HealthInv'
<1>1. HealthOK(hub, net, app) /\ WorldOK(hub) /\ DOMAIN app = PageFields
  BY DEF HealthInv, HealthOK, PageOK
<1>2. PICK e \in Health!Spent("changes", app) : app' = [e EXCEPT !.calm = FALSE]
  BY DEF Health!Change
<1>3. PICK g, b : g = [hub EXCEPT !.server[x] = scene] /\ b = [e EXCEPT !.calm = FALSE]
  OBVIOUS
<1>4. hub' = g /\ app' = b /\ net' = net
  BY <1>2, <1>3 DEF Health!Change
<1>5. /\ DOMAIN g = {"config", "server", "scenes", "scan"} /\ g.config = hub.config
      /\ g.server = [hub.server EXCEPT ![x] = scene] /\ g.scenes = hub.scenes
  BY <1>1, <1>3 DEF WorldOK
<1>6. WorldOK(g)
  <2>1. Cur(g) \in Addresses
    BY <1>1, <1>5 DEF WorldOK, Cur
  <2>2. Numbered(scene)
    BY <1>1 DEF WorldOK
  <2>3. \A y \in Addresses : Numbered(g.server[y])
    BY <1>1, <1>5, <2>2 DEF WorldOK
  <2> QED
    BY <1>1, <1>5, <2>1, <2>3 DEF WorldOK
<1>7. Alike(app, e)
  BY <1>1, SpentIsAlike
<1>8. /\ DOMAIN b = PageFields /\ b.results = app.results /\ b.active = app.active /\ b.ops = app.ops
      /\ b.errors = app.errors /\ b.calm = FALSE
  BY <1>3, <1>7 DEF Alike, PageFields
<1>9. ScanOK(net, b) /\ AddressOK(g, b) /\ GreenOK(g, net, b)
  BY <1>1, <1>8 DEF HealthOK, ScanOK, AddressOK, GreenOK
<1>10. PageOK(b)
  <2>1. b.errors \in Nat /\ b.active \in Addresses
    BY <1>1, <1>8 DEF HealthOK, PageOK
  <2>2. b.calm \in BOOLEAN /\ b.ops \in BOOLEAN
    BY <1>1, <1>8 DEF HealthOK, PageOK
  <2> QED
    BY <1>8, <2>1, <2>2, Zenon DEF PageOK
<1>11. \A c : Trusty(c, hub, net, app) => Trusty(c, g, net, b)
  BY <1>8 DEF Trusty
<1>12. RechecksOK(g, net, b)
  BY <1>1, <1>11 DEF HealthOK, RechecksOK
<1>13. FixOK(g, net, b)
  BY <1>1, <1>8, <1>11 DEF HealthOK, FixOK
<1> QED
  BY <1>4, <1>6, <1>9, <1>10, <1>12, <1>13 DEF HealthInv, HealthOK

LEMMA HealthStep == HealthInv /\ Health!Next => HealthInv'
<1> SUFFICES ASSUME HealthInv, Health!Next PROVE HealthInv'
  OBVIOUS
<1>1. CASE \/ Health!Start \/ Health!Switch \/ Health!Cancel
           \/ \E fixes \in Health!Buttons(app.results) : Health!Ask(fixes)
  BY <1>1, PressIsKept
<1>2. CASE Health!ReadAddress \/ Health!Prime \/ Health!Finished \/ Health!Tick
  BY <1>2, ReadAddressIsKept, PrimeIsKept, FinishedIsKept, TickIsKept
<1>3. CASE \/ Health!Confirm \/ Health!Repair \/ Health!Repaired
           \/ \E check \in DOMAIN app.results : Health!FixNow(check)
  BY <1>3, FixIsKept, RepairIsKept, RepairedIsKept
<1>4. CASE \E check \in DOMAIN app.results :
             Health!Finish(check) \/ Health!Recheck(check) \/ Health!Rechecked(check)
  BY <1>4, FinishIsKept, RecheckIsKept, RecheckedIsKept
<1>5. CASE \E a \in Addresses, scene \in hub.scenes : Health!Change(a, scene)
  BY <1>5, ChangeIsKept
<1> QED
  BY <1>1, <1>2, <1>3, <1>4, <1>5 DEF Health!Next

-------------------------------------------------------------------------------
(* The pages together                                                          *)

PagesInv ==
  /\ which = "health" => HealthInv
  /\ which = "lists" => ListInv
  /\ which = "reports" => ReportInv
  /\ which = "gate" => GateInv
  /\ which = "alerts" => AlertInv

LEMMA PagesStart == Init => PagesInv
BY HealthStart, AlertsStart, ListsStart, ReportsStart, GateStarts DEF Init, PagesInv

LEMMA PagesStep == PagesInv /\ [Next]_<<which, hub, net, app>> => PagesInv'
<1> SUFFICES ASSUME PagesInv, [Next]_<<which, hub, net, app>> PROVE PagesInv'
  OBVIOUS
<1>1. CASE UNCHANGED <<which, hub, net, app>>
  <2>1. ListInv => ListInv'
    <3> SUFFICES ASSUME ListInv PROVE ListInv'
      OBVIOUS
    <3>1. ListTypes' /\ HandlersOK' /\ BusyIsHandled'
      BY <1>1 DEF ListInv, ListTypes, HandlersOK, BusyIsHandled
    <3>2. ShownIsTable' /\ ReadIsTable'
      BY <1>1 DEF ListInv, ShownIsTable, ReadIsTable, Later
    <3> QED
      BY <3>1, <3>2 DEF ListInv
  <2>2. ReportInv => ReportInv'
    <3> SUFFICES ASSUME ReportInv PROVE ReportInv'
      OBVIOUS
    <3>1. ReportTypes' /\ QuestionsOK' /\ BusyIsAsked'
      BY <1>1 DEF ReportInv, ReportTypes, QuestionsOK, BusyIsAsked
    <3>2. LoadsAnswer' /\ RunsAnswer'
      BY <1>1 DEF ReportInv, LoadsAnswer, RunsAnswer, ShownAnswers
    <3> QED
      BY <3>1, <3>2 DEF ReportInv
  <2>3. GateInv => GateInv'
    <3> SUFFICES ASSUME GateInv PROVE GateInv'
      OBVIOUS
    <3>1. GateTypes' /\ ChecksOK'
      BY <1>1 DEF GateInv, GateTypes, ChecksOK
    <3>2. OldExcused' /\ WrongIsChecked' /\ CheckedIsStored' /\ InIsRight' /\ ErrorIsTrue'
      BY <1>1 DEF GateInv, OldExcused, WrongIsChecked, CheckedIsStored, InIsRight, ErrorIsTrue
    <3> QED
      BY <3>1, <3>2 DEF GateInv
  <2>4. AlertInv => AlertInv'
    BY <1>1 DEF AlertInv
  <2>5. HealthInv => HealthInv'
    BY <1>1 DEF HealthInv
  <2> QED
    BY <1>1, <2>1, <2>2, <2>3, <2>4, <2>5 DEF PagesInv
<1>2. CASE Next
  BY <1>2, HealthStep, AlertsStep, ListsStep, ReportsStep, GateStep DEF PagesInv, Next
<1> QED
  BY <1>1, <1>2

\* The lists, the reports and the gate, for any number of names, questions and tabs: when
\* nothing is under way a list is its table and its buttons work; what stands under a
\* question answers it; the store keeps no secret the hub refuses, a page that was let in
\* can do what it shows, and a right secret is never called wrong. Each with the exceptions
\* the property names (AdminGate.tsx, the pages under web/app/admin).
THEOREM PagesAreTrue == Spec => []PagesTellTheTruth
<1>1. PagesInv => PagesTellTheTruth
  BY ListTells, ReportTells, GateTells DEF PagesInv, PagesTellTheTruth
<1> QED
  BY <1>1, PagesStart, PagesStep, PTL DEF Spec

\* The sheet of alerts, for any accounts and pairs and any number of times it is used: when
\* no request is under way, a switch that is on has its pairs at the proxy, under the
\* address of this browser, and one that is off has no row there, unless the browser or a
\* request that failed excuses it (WatchSettings.tsx, webPush.ts).
THEOREM SwitchIsTrue == Spec => []SwitchMeansWhatItSays
<1>1. PagesInv => SwitchMeansWhatItSays
  BY AlertsTell DEF PagesInv, SwitchMeansWhatItSays
<1> QED
  BY <1>1, PagesStart, PagesStep, PTL DEF Spec

\* The health page, for any addresses, servers and checks and any number of scans, re-checks,
\* repairs and failures: a page at rest that is green about the prices is right that the
\* address every device follows serves the whole catalogue, fresh, over an open socket, unless
\* something changed since its scan read the address or an older re-check came in after it
\* (page.tsx:86-182, healthChecks.ts:332-345, 994-1024).
THEOREM GreenIsServed == Spec => []GreenMeansServed
<1>1. PagesInv => GreenMeansServed
  BY HealthTells DEF PagesInv, GreenMeansServed
<1> QED
  BY <1>1, PagesStart, PagesStep, PTL DEF Spec
================================================================================
