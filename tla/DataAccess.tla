------------------------------ MODULE DataAccess ------------------------------
(* What the data hub lets a caller do, and how the browser asks for it: the     *)
(* gate and the statement builders of data-hub/src/access.ts and db.ts, and the *)
(* chain of web/lib/dataHub.ts in front of them. The table under the statements *)
(* is `users`, the one whose rows have owners; the gate covers them all.        *)
EXTENDS Integers, FiniteSets, TLC

CONSTANTS
  Accounts,     \* account ids
  NoTime,       \* SQL NULL in a time column
  MaxInValues,  \* most values an IN list may name (80)
  MaxLimit      \* most rows one read answers to a browser (1000)

-------------------------------------------------------------------------------
(* The gate.                                                                    *)

\* <<read, write>>; a table nobody wrote a rule for is nobody's
Rights(table) ==
  CASE table \in {"candles", "otc_pairs", "signals", "signal_daily", "signal_write_budget"} -> <<"public", "service">>
    [] table \in {"pairs", "brokers", "configs", "strategy_versions"} -> <<"public", "admin">>
    [] table \in {"signal_history", "users"} -> <<"owner", "owner">>
    [] table \in {"telegram_queue", "repair_log", "clicks"} -> <<"admin", "admin">>
    [] table \in {"push_subscriptions", "telegram_alerts", "price_snapshot"} -> <<"service", "service">>
    [] table = "strategy_version_stats" -> <<"public", "never">>
    [] table = "captcha_stats" -> <<"admin", "service">>
    [] table = "push_alerts" -> <<"never", "service">>
    [] OTHER -> <<"never", "never">>

UserColumns == {"id", "broker", "role", "is_banned", "ban_reason", "device_id",
  "fcm_token", "login_count", "vip_expiry_ms", "guaranteed_win", "clicked_broker", "created_ms"}

Rank == [public |-> 0, user |-> 1, admin |-> 2, service |-> 3]

\* A caller is [kind, account]; the account counts for kind "user" only.
Anyone == {[kind |-> k, account |-> a] : k \in DOMAIN Rank, a \in Accounts}

Decide(table, op, caller) ==
  LET rule == Rights(table)[IF op = "read" THEN 1 ELSE 2]
      yes(scoped) == [allowed |-> TRUE, scoped |-> scoped]
      no == [allowed |-> FALSE, scoped |-> FALSE]
  IN  CASE rule = "never" -> no
        [] rule = "owner" -> IF caller.kind = "public" THEN no ELSE yes(caller.kind = "user")
        [] OTHER -> IF Rank[caller.kind] >= Rank[rule] THEN yes(FALSE) ELSE no

-------------------------------------------------------------------------------
(* Values. The app compares with numbers, truth values, ISO texts and texts;    *)
(* every one of them is text on the wire, and an INTEGER column turns it back   *)
(* into a number only when the text reads as one.                               *)

Value(kind, n, s) == [kind |-> kind, n |-> n, s |-> s]
Num(n) == Value("number", n, "")
Truth(b) == Value("truth", IF b THEN 1 ELSE 0, "")
Iso(n) == Value("iso", n, "")
Text(s) == Value("text", 0, s)

Aliases == [vip_expiry |-> "vip_expiry_ms", created_at |-> "created_ms"]
AliasOut(column) == IF column \in DOMAIN Aliases THEN Aliases[column] ELSE column

\* dataHub.ts:245, an ISO text becomes milliseconds for a renamed time column
TimeValueAsIs(column, v) == v
TimeValue(column, v) == IF AliasOut(column) # column /\ v.kind = "iso" THEN Num(v.n) ELSE v

\* dataHub.ts:230, SQLite has no truth values: they are 1 and 0
HubValue(v) == IF v.kind = "truth" THEN Num(v.n) ELSE v

\* A cell of a row, as the column's class holds it
Cell(a, row, column) ==
  CASE column = "id" -> Text(a)
    [] column \in {"role", "device_id"} -> Text(row[column])
    [] OTHER -> Num(row[column])

\* Comparisons across classes do not fail: a number is below every text.
Holds(op, cell, v) ==
  LET alike == cell.kind = v.kind
  IN  /\ cell # Num(NoTime)
      /\ CASE op = "eq"  -> alike /\ cell = v
           [] op = "ne"  -> ~alike \/ cell # v
           [] op = "gte" -> alike /\ cell.n >= v.n
           [] op = "lte" -> ~alike \/ cell.n <= v.n

-------------------------------------------------------------------------------
(* Requests. A filter is [column, op, values]: one value, or the list of "in".  *)
(* A table is a function from the ids it holds to rows of D1's columns.         *)

OnWire(f) == \* a read's filters are translated by hubRead
  [f EXCEPT !.column = AliasOut(@), !.values = {HubValue(TimeValue(f.column, v)) : v \in @}]
OnWireOfWrite(f) == \* a write's by WriteChain.run, which leaves times as they are
  [f EXCEPT !.column = AliasOut(@), !.values = {HubValue(v) : v \in @}]

Refused(filters) == \* appendFilters: 400
  \E f \in filters : f.column \notin UserColumns \/ Cardinality(f.values) > MaxInValues

Matches(a, row, filters) ==
  \A f \in filters :
    IF f.op = "in" THEN \E v \in f.values : Holds("eq", Cell(a, row, f.column), v)
                   ELSE \A v \in f.values : Holds(f.op, Cell(a, row, f.column), v)

\* The owner's clause is ANDed in, on reads and on writes alike.
InScope(a, decision, caller) == decision.scoped => a = caller.account

\* buildSelect on `users`, the gate and the WHERE of filters as they arrive: [ok, ids]
SelectWhere(users, wire, caller) ==
  LET decision == Decide("users", "read", caller)
  IN  IF ~decision.allowed \/ Refused(wire) THEN [ok |-> FALSE, ids |-> {}]
      ELSE [ok |-> TRUE, ids |-> {a \in DOMAIN users :
                                    InScope(a, decision, caller) /\ Matches(a, users[a], wire)}]

\* the same of filters as a page names them
Select(users, filters, caller) == SelectWhere(users, {OnWire(f) : f \in filters}, caller)

\* A read asked with a count has no limit; one asked for rows answers at most the cap.
Clamp(ids) == {S \in SUBSET ids : Cardinality(S) = IF Cardinality(ids) > MaxLimit
                                                    THEN MaxLimit ELSE Cardinality(ids)}

-------------------------------------------------------------------------------
(* Writes: [op, id, set, where]; `set` maps the columns to their new values     *)
(* (an upsert's own id is in `id`), as usersRowFor and jsonOut leave them.      *)

\* The row an insert or upsert is for: the credential's account, not the body's.
BodysRow(w, decision, caller) == w.id
RowWritten(w, decision, caller) == IF decision.scoped THEN caller.account ELSE w.id

NewUser == [role |-> "standard", vip_expiry_ms |-> NoTime, device_id |-> "", is_banned |-> 0]

\* `row` with the columns of `set` in place of its own
Updated(row, set) == [c \in DOMAIN row \cup DOMAIN set |-> IF c \in DOMAIN set THEN set[c] ELSE row[c]]

\* buildWrite of `w` with the filters as they arrive
WriteWhere(users, w, wire, caller) ==
  LET decision == Decide("users", "write", caller)
      rowwise  == w.op \in {"update", "delete"}
      a        == RowWritten(w, decision, caller)
      hit      == {x \in DOMAIN users : InScope(x, decision, caller) /\ Matches(x, users[x], wire)}
      status   == \* of the first check that fails
        IF ~decision.allowed THEN 403
        ELSE IF ~(DOMAIN w.set \subseteq UserColumns) THEN 400
        ELSE IF decision.scoped /\ w.op = "update" /\ "id" \in DOMAIN w.set THEN 403
        ELSE IF DOMAIN w.set = {} /\ w.op = "update" THEN 400
        ELSE IF Refused(wire) THEN 400
        ELSE IF rowwise /\ wire = {} /\ ~decision.scoped THEN 400
        ELSE IF w.op = "insert" /\ a \in DOMAIN users THEN 500
        ELSE IF w.op = "upsert" /\ DOMAIN w.set = {} THEN 400
        ELSE 200
      done(table, ids) == [status |-> status, users |-> table, hit |-> ids]
  IN  CASE status # 200 -> done(users, {})
        [] status = 200 /\ w.op = "update" ->
             done([x \in DOMAIN users |-> IF x \in hit THEN Updated(users[x], w.set) ELSE users[x]], hit)
        [] status = 200 /\ w.op = "delete" -> done([x \in DOMAIN users \ hit |-> users[x]], hit)
        [] OTHER -> done([x \in DOMAIN users \cup {a} |->
                            IF x = a THEN Updated(IF a \in DOMAIN users THEN users[a] ELSE NewUser, w.set)
                                     ELSE users[x]], {a})

\* the same with the filters a page names
Write(users, w, caller) == WriteWhere(users, w, {OnWireOfWrite(f) : f \in w.where}, caller)

-------------------------------------------------------------------------------
(* What the app means by a filter, whatever the database spells it.             *)

Meaning(a, row, f) ==
  LET time == row["vip_expiry_ms"]
      is(v) == CASE f.column = "id" -> a = v.s
                 [] f.column = "role" -> row["role"] = v.s
                 [] f.column = "is_banned" -> row["is_banned"] = v.n
                 [] f.column = "vip_expiry" -> time = v.n
  IN  CASE f.op \in {"eq", "in"} -> \E v \in f.values : is(v)
        [] f.op = "ne" -> \A v \in f.values : ~is(v)
        [] f.op = "gte" -> time # NoTime /\ \A v \in f.values : time >= v.n
        [] f.op = "lte" -> time # NoTime /\ \A v \in f.values : time <= v.n

===============================================================================
