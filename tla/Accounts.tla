------------------------------- MODULE Accounts -------------------------------
(* Who is signed in, who is VIP and who is shut out: web/lib/boot.ts, auth.ts,  *)
(* session.ts, the screens that send a user on, and the admin's users, VIP and  *)
(* control pages, over the hub of DataAccess. A read that fails answers "no     *)
(* row" to its caller (dataHub.ts:422), so every reader sees a failure as an    *)
(* absence; `faults` counts them.                                               *)
EXTENDS DataWire

CONSTANTS
  Devices,     \* browsers, each with the device id it minted
  NoAccount,   \* nobody
  BatchSize,   \* ids per batch of the VIP page (80)
  Bound        \* how much may happen: [signIns, runs, edits, faults, time]

ASSUME AccountsAssumption == IsFiniteSet(Accounts)
\* No expiry is taken for the absence of one.
ASSUME TimesAssumption == Bound.time \in Nat /\ NoTime \in Nat /\ Bound.time + 1 < NoTime

VARIABLES
  users,        \* the table
  globalVip,    \* configs/globalVip: [enabled, expiry]
  maintenance,  \* configs/maintenance: [isActive, endsAt], NoTime for no end
  now,          \* the hour
  tab,          \* each browser's page
  page,         \* the admin's VIP page
  excused,      \* accounts a running activation may have missed (history)
  count         \* what has happened of what Bound allows

vars == <<users, globalVip, maintenance, now, tab, page, excused, count>>

Fresh(session) == \* a page just loaded: the module's account is nobody
  [screen |-> "boot", claim |-> NoAccount, session |-> session, seen |-> FALSE,
   step |-> "idle", asks |-> NoAccount, inHand |-> NewUser]

Unknown == 0 - 1 \* a count that has not answered
Closed == [phase |-> "idle", on |-> FALSE, expiry |-> NoTime, listed |-> FALSE, ids |-> {}, total |-> Unknown]

Init ==
  /\ users \in UNION {[S -> {NewUser} \cup
                       {[NewUser EXCEPT !.role = "vip", !.vip_expiry_ms = Bound.time + 1,
                                        !.device_id = d] : d \in Devices}] : S \in SUBSET Accounts}
  /\ globalVip = [enabled |-> FALSE, expiry |-> NoTime]
  /\ maintenance = [isActive |-> FALSE, endsAt |-> NoTime]
  /\ now = 0
  /\ tab = [d \in Devices |-> Fresh(NoAccount)]
  /\ page = Closed
  /\ excused = {}
  /\ count = [b \in DOMAIN Bound |-> 0]

-------------------------------------------------------------------------------
(* What a page reads.                                                           *)

Spend(b) == count[b] < Bound[b] /\ count' = [count EXCEPT ![b] = @ + 1]

\* identify (index.ts:202): a page that names an account is that user, else public
CallerOf(d) == IF tab[d].claim = NoAccount THEN [kind |-> "public", account |-> NoAccount]
               ELSE [kind |-> "user", account |-> tab[d].claim]
Admin == [kind |-> "admin", account |-> NoAccount]

ById(a) == {[column |-> "id", op |-> "eq", values |-> {Text(a)}]}

\* The row a page is given for an account: the set of it, or nothing.
Given(d, a, fails) == IF fails THEN {} ELSE Select(users, ById(a), CallerOf(d)).ids

\* A read either answers or, while faults are left, fails.
Reads(fails) == fails \in BOOLEAN /\ (IF fails THEN Spend("faults") ELSE UNCHANGED count)

Move(d, changes) == tab' = [tab EXCEPT ![d] = Updated(@, changes)]

\* Data no page writes
Tables == <<users, globalVip, maintenance>>

Until(t) == t = NoTime \/ t > now

-------------------------------------------------------------------------------
(* Boot (resolveBootDestination) and the screens it leads to.                   *)

\* boot.ts:70-100, the session is loaded and named before anything is read
BootMaintenance(d) ==
  /\ tab[d].screen = "boot"
  /\ \E fails \in BOOLEAN :
       /\ Reads(fails)
       /\ Move(d, [claim |-> tab[d].session,
                   screen |-> IF ~fails /\ maintenance.isActive /\ Until(maintenance.endsAt)
                              THEN "maintenance" ELSE "bootBan"])
  /\ UNCHANGED <<Tables, now, page, excused>>

\* boot.ts:102-112, fail open: an account that cannot be read is not banned
BootBan(d) ==
  LET me == tab[d].session
  IN  /\ tab[d].screen = "bootBan"
      /\ \E fails \in BOOLEAN :
           LET row == Given(d, me, fails)
           IN  /\ IF me = NoAccount THEN ~fails /\ UNCHANGED count ELSE Reads(fails)
               /\ Move(d, [seen |-> FALSE,
                           screen |-> IF me = NoAccount THEN "login"
                                      ELSE IF \E a \in row : users[a].is_banned = 1
                                      THEN "banned" ELSE "app"])
      /\ UNCHANGED <<Tables, now, page, excused>>

\* AppHeader and BanDialog: the session goes from both stores and the page reloads
SignOut(d) ==
  /\ tab[d].screen \in {"app", "banned"}
  /\ tab' = [tab EXCEPT ![d] = Fresh(NoAccount)]
  /\ UNCHANGED <<Tables, now, page, excused, count>>

\* useLiveUser and the app page: a ban or a row that went away sends to the splash
AppReadsUser(d) ==
  /\ tab[d].screen = "app"
  /\ \E fails \in BOOLEAN :
       LET row == Given(d, tab[d].session, fails)
       IN  /\ Reads(fails)
           /\ Move(d, [seen |-> tab[d].seen \/ row # {},
                       screen |-> IF (row = {} /\ tab[d].seen)
                                     \/ \E a \in row : users[a].is_banned = 1
                                  THEN "boot" ELSE "app"])
  /\ UNCHANGED <<Tables, now, page, excused>>

\* the app page leaves for the maintenance screen on `isActive` alone
AppReadsMaintenance(d) ==
  /\ tab[d].screen = "app" /\ maintenance.isActive
  /\ Move(d, [screen |-> "maintenance"])
  /\ UNCHANGED <<Tables, now, page, excused, count>>

\* the maintenance screen looks again every 15 s, and counts down by itself
MaintenancePolls(d) ==
  /\ tab[d].screen = "maintenance"
  /\ \E fails \in BOOLEAN :
       /\ Reads(fails)
       /\ fails \/ ~maintenance.isActive \/ ~Until(maintenance.endsAt)
       /\ Move(d, [screen |-> "boot"])
  /\ UNCHANGED <<Tables, now, page, excused>>

-------------------------------------------------------------------------------
(* Signing in (LoginPage.submit, verifyAccount).                                *)

Submit(d, a) ==
  /\ tab[d].screen = "login" /\ tab[d].step = "idle"
  /\ Spend("signIns")
  /\ Move(d, [step |-> "lookup", asks |-> a])
  /\ UNCHANGED <<Tables, now, page, excused>>

\* The verification is over; the login screen, if it still waits, goes on.
Accepted(d) ==
  IF tab[d].screen = "login"
  THEN [step |-> "idle", screen |-> "app", session |-> tab[d].asks, seen |-> FALSE] ELSE [step |-> "idle"]

\* auth.ts:108-124, the device a found row is bound to after this sign-in
Rebinds(row, d) == (row.role = "standard" /\ row.device_id # d) \/ row.device_id = ""

\* auth.ts:90-127
Lookup(d) ==
  LET a == tab[d].asks
  IN  /\ tab[d].step = "lookup"
      /\ \E fails \in BOOLEAN :
           LET found  == Given(d, a, fails) # {}
               row    == users[a]
               locked == row.role = "vip" /\ row.device_id \notin {"", d}
           IN  /\ Reads(fails)
               /\ CASE ~found -> Move(d, [step |-> "grant"])
                    [] found /\ locked -> Move(d, [step |-> "idle", claim |-> a])
                    [] found /\ ~locked /\ Rebinds(row, d) ->
                         Move(d, [step |-> "update", claim |-> a])
                    [] found /\ ~locked /\ ~Rebinds(row, d) -> Move(d, Updated(Accepted(d), [claim |-> a]))
      /\ UNCHANGED <<Tables, now, page, excused>>

\* auth.ts:129-135, a write that fails is swallowed by the catch: signed in anyway
Rebind(d) ==
  LET w == [op |-> "update", id |-> NoAccount, where |-> ById(tab[d].asks), set |-> [device_id |-> d]]
  IN  /\ tab[d].step = "update"
      /\ \E fails \in BOOLEAN :
           /\ Reads(fails)
           /\ users' = IF fails THEN users ELSE Write(users, w, CallerOf(d)).users
      /\ Move(d, Accepted(d))
      /\ UNCHANGED <<globalVip, maintenance, now, page, excused>>

\* globalVipGrant (auth.ts:54): no answer, no grant
ReadGrant(d) ==
  /\ tab[d].step = "grant"
  /\ \E fails \in BOOLEAN :
       LET given == ~fails /\ globalVip.enabled /\ globalVip.expiry > now
       IN  /\ Reads(fails)
           /\ Move(d, [step |-> "upsert",
                       inHand |-> [NewUser EXCEPT !.device_id = d,
                                     !.role = IF given THEN "vip" ELSE "standard",
                                     !.vip_expiry_ms = IF given THEN globalVip.expiry ELSE NoTime]])
           /\ excused' = IF fails THEN excused \cup {tab[d].asks} ELSE excused
  /\ UNCHANGED <<Tables, now, page>>

\* auth.ts:143-153, the row of a new account; the result of the upsert is not looked at
Enrol(d) ==
  LET a == tab[d].asks
      set == [c \in {"role", "vip_expiry_ms", "device_id"} |-> tab[d].inHand[c]]
      w == [op |-> "upsert", id |-> a, where |-> {}, set |-> set]
  IN  /\ tab[d].step = "upsert"
      /\ \E fails \in BOOLEAN :
           /\ Reads(fails)
           /\ users' = IF fails THEN users
                       ELSE Write(users, w, [kind |-> "user", account |-> a]).users
      /\ Move(d, Updated(Accepted(d), [claim |-> a]))
      /\ UNCHANGED <<globalVip, maintenance, now, page, excused>>

\* login/page.tsx, six seconds of waiting are as good as a yes
LookupTimesOut(d) ==
  /\ tab[d].screen = "login" /\ tab[d].step # "idle"
  /\ Move(d, [screen |-> "app", session |-> tab[d].asks, seen |-> FALSE])
  /\ UNCHANGED <<Tables, now, page, excused, count>>

-------------------------------------------------------------------------------
(* The admin's VIP page. `total` is 0 when the count failed: `counted.count ??`.  *)

\* activate and deactivate write the config first (vip/page.tsx:139, :174)
SwitchVip(on) ==
  /\ page.phase \in {"idle", "done"}
  /\ Spend("runs")
  /\ \E t \in (IF on THEN now + 1 .. Bound.time + 1 ELSE {NoTime}) :
       /\ globalVip' = [enabled |-> on, expiry |-> t]
       /\ page' = [Closed EXCEPT !.phase = "list", !.on = on, !.expiry = t]
  /\ excused' = {tab[d].asks : d \in {e \in Devices : tab[e].step = "upsert"}}
  /\ UNCHANGED <<users, maintenance, now, tab>>

\* allUserIds: the ids, at most the cap of them ...
Everyone == IF page.on THEN {} ELSE {[column |-> "role", op |-> "eq", values |-> {Text("vip")}]}

ListIds ==
  LET all == Select(users, Everyone, Admin).ids
  IN  /\ page.phase = "list" /\ ~page.listed
      /\ \E fails \in BOOLEAN, ids \in Clamp(all) :
           /\ Reads(fails)
           /\ page' = IF fails THEN Closed ELSE [page EXCEPT !.listed = TRUE, !.ids = ids]
           /\ excused' = IF page.total = Unknown THEN excused ELSE excused \cup (all \ ids)
      /\ UNCHANGED <<Tables, now, tab>>

\* ... and, asked at the same time, how many there are: a count that fails is taken
\* for the number of ids listed
CountIds ==
  /\ page.phase = "list" /\ page.total = Unknown
  /\ \E fails \in BOOLEAN :
       LET all == Select(users, Everyone, Admin).ids
       IN  /\ Reads(fails)
           /\ page' = [page EXCEPT !.total = IF fails THEN 0 ELSE Cardinality(all)]
           /\ excused' = IF fails THEN excused \cup DOMAIN users ELSE excused
  /\ UNCHANGED <<Tables, now, tab>>

\* fewer ids than accounts is an error
Unchecked(total, ids) == TRUE
Complete(total, ids) == total <= Cardinality(ids)

CheckIds ==
  /\ page.phase = "list" /\ page.listed /\ page.total # Unknown
  /\ page' = IF Complete(page.total, page.ids) THEN [page EXCEPT !.phase = "patch"] ELSE Closed
  /\ UNCHANGED <<Tables, now, tab, excused, count>>

\* patchAllUsers, one batch; a failed batch ends the run with an error
PatchBatch ==
  /\ page.phase = "patch" /\ page.ids # {}
  /\ \E batch \in SUBSET page.ids, fails \in BOOLEAN :
       LET w == [op |-> "update", id |-> NoAccount,
                 where |-> {[column |-> "id", op |-> "in", values |-> {Text(a) : a \in batch}]},
                 set |-> [role |-> IF page.on THEN "vip" ELSE "standard", vip_expiry_ms |-> page.expiry]]
           answer == Write(users, w, Admin)
       IN  /\ batch # {}
           /\ Cardinality(batch) = IF Cardinality(page.ids) < BatchSize THEN Cardinality(page.ids)
                                                                       ELSE BatchSize
           /\ Reads(fails)
           /\ users' = IF fails THEN users ELSE answer.users
           /\ page' = IF fails \/ answer.status # 200 THEN Closed ELSE [page EXCEPT !.ids = @ \ batch]
  /\ UNCHANGED <<globalVip, maintenance, now, tab, excused>>

ReportDone ==
  /\ page.phase = "patch" /\ page.ids = {}
  /\ page' = [page EXCEPT !.phase = "done"]
  /\ UNCHANGED <<Tables, now, tab, excused, count>>

-------------------------------------------------------------------------------
(* The admin's other pages, and the clock.                                      *)

\* admin/page.tsx:58-70, one row patched with what its buttons send. The VIP dialog
\* names the column as Postgres did, and the hub refuses it.
Patches == {[is_banned |-> 1], [is_banned |-> 0], [device_id |-> ""],
            [role |-> "vip", vip_expiry |-> 1], [role |-> "standard", vip_expiry |-> NoTime]}

PatchUser(a) ==
  /\ Spend("edits")
  /\ \E set \in Patches :
       users' = Write(users, [op |-> "update", id |-> NoAccount, where |-> ById(a), set |-> set], Admin).users
  /\ UNCHANGED <<globalVip, maintenance, now, tab, page, excused>>

\* control/page.tsx, the maintenance card
SetMaintenance ==
  /\ Spend("edits")
  /\ maintenance' \in [isActive : {TRUE}, endsAt : {NoTime} \cup (now + 1 .. Bound.time)]
                      \cup {[isActive |-> FALSE, endsAt |-> NoTime]}
  /\ UNCHANGED <<users, globalVip, now, tab, page, excused>>

Tick ==
  /\ Spend("time")
  /\ now' = now + 1
  /\ UNCHANGED <<Tables, tab, page, excused>>

Next ==
  \/ \E d \in Devices :
       \/ BootMaintenance(d) \/ BootBan(d) \/ SignOut(d)
       \/ AppReadsUser(d) \/ AppReadsMaintenance(d) \/ MaintenancePolls(d)
       \/ \E a \in Accounts : Submit(d, a)
       \/ Lookup(d) \/ Rebind(d) \/ ReadGrant(d) \/ Enrol(d) \/ LookupTimesOut(d)
  \/ \E on \in BOOLEAN : SwitchVip(on)
  \/ ListIds \/ CountIds \/ CheckIds \/ PatchBatch \/ ReportDone
  \/ \E a \in Accounts : PatchUser(a)
  \/ SetMaintenance \/ Tick

Spec == Init /\ [][Next]_vars

-------------------------------------------------------------------------------
(* Properties.                                                                  *)

\* A finished activation means what it reports (vip/page.tsx:133-167): every account
\* is VIP until the hour announced, those that signed up while it ran included. Only
\* an account whose grant was read before the switch, or could not be read, and the
\* accounts cut off a list whose count failed or was taken earlier, may be missing.
GrantMeansEverybody ==
  page.phase = "done" /\ page.on /\ page.expiry > now =>
    \A a \in DOMAIN users \ excused :
      users[a].role = "vip" /\ users[a].vip_expiry_ms = page.expiry

Quiet == page = Closed /\ now = 0 /\ \A d \in Devices : tab[d] = Fresh(NoAccount)

\* What the app asks `users`, and by whom, in the words of the app.
Question(column, op, values) == [column |-> column, op |-> op, values |-> values]
Questions ==
  {Question("id", "eq", {Text(a)}) : a \in Accounts} \cup
  {Question("id", "in", {Text(a) : a \in S}) : S \in SUBSET Accounts} \cup
  {Question("role", op, {Text("vip")}) : op \in {"eq", "ne"}} \cup
  {Question("is_banned", "eq", {Truth(b)}) : b \in BOOLEAN} \cup
  {Question("vip_expiry", "gte", {Iso(t)}) : t \in 0..Bound.time + 1} \cup
  {Question("vip_expiry", "lte", {Iso(t)}) : t \in 0..Bound.time + 1}

Mine(a, caller) == caller.kind = "user" => a = caller.account

\* The rows of a question, in the words of the app: who they are and until when.
Row(a) == [id |-> Text(a), vip_expiry |-> IF users[a].vip_expiry_ms = NoTime THEN Null
                                           ELSE Iso(users[a].vip_expiry_ms)]
Earlier(r, s) == \/ r.vip_expiry = Null
                 \/ s.vip_expiry # Null /\ r.vip_expiry.n <= s.vip_expiry.n

Asks(q, more) == <<Call("select", "", {"id", "vip_expiry"}, 0), Call(q.op, q.column, q.values, 0)>> \o more
Newest == <<Call("order", "vip_expiry", {}, 1)>>
UpTo(n) == Newest \o <<Call("limit", "", {}, n)>>

\* The first n of the rows meant, newest expiry first and none passed over.
TheNewest(data, meant, n) ==
  LET shown == {data[i] : i \in DOMAIN data}
  IN  /\ shown \subseteq {Row(a) : a \in meant} /\ Cardinality(shown) = Len(data)
      /\ Len(data) = IF n < Cardinality(meant) THEN n ELSE Cardinality(meant)
      /\ \A i, j \in DOMAIN data : i < j => Earlier(data[j], data[i])
      /\ \A a \in meant : Row(a) \in shown \/ \A r \in shown : Earlier(Row(a), r)

\* What the app writes into a row of its own it reads back, for any time it may hold;
\* a date that does not parse leaves what was there.
ComesBack(a, time) ==
  LET me      == [kind |-> "user", account |-> a]
      set     == [role |-> Text("vip"), vip_expiry |-> time]
      written == AppWrites(users, "upsert", UsersRowFor(set), {}, me)
      mine    == Asks(Question("id", "eq", {Text(a)}), <<Call("maybeSingle", "", {}, 0)>>)
      old     == IF a \in DOMAIN users THEN Row(a).vip_expiry ELSE Null
  IN  AppAnswers(written.users, mine, me) =
        {[error |-> FALSE, count |-> 0,
          data |-> [id |-> Text(a), vip_expiry |-> CASE time.kind = "number" -> Iso(time.n)
                                                     [] time.kind = "text" -> old
                                                     [] OTHER -> time]]}

\* Every question is answered with the rows the app means by it and the caller may
\* see, across the renamed columns, the units of time, truth values as numbers and
\* the owner's clause (dataHub.ts:230-322, db.ts:149-299): all of them when they are
\* counted, the first of them in the order up to the number asked for and allowed (else
\* the hub's own), under the names and in the types the app wrote them in (dataHub.ts:705-795).
ReadsMeanWhatTheySay ==
  Quiet =>
    /\ \A caller \in Anyone, q \in Questions :
         LET answer == Select(users, {q}, caller)
             meant  == {a \in DOMAIN users : Meaning(a, users[a], q) /\ Mine(a, caller)}
             counts == AppAnswers(users, Asks(q, <<Call("select", "", {"id"}, 1)>>), caller)
             refused == caller.kind = "public" \/ Cardinality(q.values) > MaxInValues
         IN  /\ answer.ok = ~refused /\ (answer.ok => answer.ids = meant)
             /\ counts = {[error |-> refused, count |-> IF refused THEN 0 ELSE Cardinality(meant),
                           data |-> IF refused THEN Null ELSE <<>>]}
             /\ ~refused =>
                  /\ \A n \in 1..MaxLimitService :
                       \A got \in AppAnswers(users, Asks(q, UpTo(n)), caller) :
                         TheNewest(got.data, meant,
                                   IF n < MaxLimit \/ caller.kind = "service" THEN n ELSE MaxLimit)
                  /\ \A got \in AppAnswers(users, Asks(q, Newest), caller) :
                       TheNewest(got.data, meant, DefaultLimit)
    /\ \A a \in Accounts, time \in {Iso(1), Num(1), Null, Text("soon")} : ComesBack(a, time)
    /\ \A v \in {Doc(1), Num(1), Truth(TRUE), Null, Iso(1), Text("a"), Json(Doc(1))} :
         JsonOut(JsonOut(v)) = JsonOut(v) /\ (v.kind # "json" => JsonIn(JsonOut(v)) = v)
    /\ \A a \in DOMAIN users : DbBool(Cell(a, users[a], "is_banned")) = (users[a].is_banned = 1)

Orders ==
  [op : {"update", "delete"}, id : {NoAccount},
   where : {{}} \cup {{q} : q \in {p \in Questions : p.column # "vip_expiry"}},
   set : {[role |-> "vip"], [device_id |-> ""]}] \cup
  [op : {"insert", "upsert"}, id : Accounts, where : {{}}, set : {[role |-> "vip"]}]

Differs(a, table) == \/ (a \in DOMAIN users) # (a \in DOMAIN table)
                     \/ a \in DOMAIN users /\ users[a] # table[a]

\* The filters of a body as they may arrive, some of them no filters at all.
Item(shape, column, op, v) == [shape |-> shape, column |-> column, op |-> op, values |-> {v}]
Items == {Item("object", "id", "eq", Text(a)) : a \in Accounts} \cup
         {Item("object", "role", "eq", Null), Item("object", "", "eq", Text("vip")),
          Item("object", "role", "ne", Text("vip")), Item("number", "role", "eq", Text("vip"))}

\* No write reaches a row its caller does not own, whatever its body names, and an
\* update or a delete reaches the rows its filters mean and no table whole, what is no
\* filter counting for nothing (db.ts:321-514); rows sent together are written together.
WritesStayInScope ==
  Quiet => \A caller \in Anyone :
    /\ \A w \in Orders :
         \A a \in Accounts : Differs(a, Write(users, w, caller).users) =>
           /\ caller.kind # "public" /\ Mine(a, caller)
           /\ w.op \in {"update", "delete"} =>
                /\ \A q \in w.where : Meaning(a, users[a], q)
                /\ w.where # {} \/ caller.kind = "user"
    /\ \A op \in {"update", "delete"}, items \in {S \in SUBSET Items : Cardinality(S) < 3} :
         LET answer  == WriteRoute(users, op, <<[role |-> "vip"]>>, items, caller)
             filters == {i \in items : WellFormed(i)}
         IN  \A a \in Accounts : Differs(a, answer.users) =>
               /\ Mine(a, caller) /\ \A f \in filters : Meaning(a, users[a], f)
               /\ filters # {} \/ caller.kind = "user"
    /\ \A a, b \in Accounts, set \in Patches :
         LET answer == WriteRoute(users, "upsert", <<[id |-> a, role |-> "vip"], Updated(set, [id |-> b])>>, {}, caller)
         IN  /\ \A x \in Accounts : Differs(x, answer.users) => Mine(x, caller) /\ caller.kind # "public"
             /\ answer.status # 200 => answer.users = users
             /\ answer.status = 200 => (caller.kind = "user" \/ {a, b} \subseteq DOMAIN answer.users)
    /\ \A op \in {"update", "delete"} : AppWrites(users, op, [role |-> Text("vip")], {}, caller).users = users

\* auth.ts:79, "VIP + a different stored device -> refused": signing in never takes a
\* VIP account from the device it is bound to; the admin may free it.
DeviceLock ==
  [][\A a \in DOMAIN users :
       users[a].role = "vip" /\ users[a].device_id # "" =>
         users'[a].device_id \in {users[a].device_id, ""}]_vars

\* boot.ts:93, "an endsAt in the past means the window has closed": an app that is in
\* use is not sent to the maintenance screen by a window that has closed.
ClosedWindowLetsIn ==
  [][\A d \in Devices :
       tab[d].screen = "app" /\ tab'[d].screen = "maintenance" => Until(maintenance.endsAt)]_vars

\* maintenance/page.tsx, "a transient failure must not let users in".
MaintenanceKeepsOut ==
  [][\A d \in Devices :
       tab[d].screen = "maintenance" /\ tab'[d].screen # "maintenance" =>
         ~maintenance.isActive \/ ~Until(maintenance.endsAt)]_vars

===============================================================================
