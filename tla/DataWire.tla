------------------------------- MODULE DataWire -------------------------------
(* One request from a page of the app to the data hub, there and back: the      *)
(* calls chained on db() (web/lib/dataHub.ts), the URL or the body they become, *)
(* what the hub reads out of it (data-hub/src/db.ts, index.ts), and the names   *)
(* and types of the answer. DataAccess says what the statement then does.       *)
EXTENDS DataAccess, Sequences, Functions

CONSTANTS
  All,              \* every declared column; no order; no limit
  DefaultLimit,     \* rows answered when none is asked for (100)
  MaxLimitService   \* most rows one read answers to the service (5000)

\* `All` is no list of columns, order or limit. An account id is not empty (login/page.tsx:99)
\* and is one word of a list: it has no comma ("a,b" stands for the texts that have one).
ASSUME WireAssumption ==
  /\ MaxInValues \in Nat \ {0} /\ DefaultLimit \in Nat \ {0}
  /\ MaxLimit \in Nat /\ MaxLimitService \in Nat
  /\ DefaultLimit <= MaxLimit /\ MaxLimit <= MaxLimitService
  /\ \A a \in Accounts : a \notin {"", "a,b"}
  /\ LET columns == UserColumns \cup DOMAIN Aliases
     IN  /\ All \notin Int /\ \A some \in SUBSET columns : All # some
         /\ \A column \in columns, desc \in BOOLEAN : All # [column |-> column, desc |-> desc]

Null == Value("null", 0, "")
Doc(n) == Value("object", n, "")             \* an object or a list of JavaScript
Json(v) == Value("json", v.n, v.kind)        \* the JSON text of a value
Strings == {"text", "iso", "json"}           \* kinds of values that are texts

-------------------------------------------------------------------------------
(* The chain of a read.                                                         *)

NewQuery == [cols |-> All, filters |-> {}, order |-> All, limit |-> All, count |-> FALSE, single |-> FALSE]

\* One call: [call, column, values, n], `n` the limit, the direction or the head count.
Call(name, column, values, n) == [call |-> name, column |-> column, values |-> values, n |-> n]

Then(q, c) ==
  CASE c.call = "select" -> [q EXCEPT !.cols = IF "*" \in c.values THEN All ELSE c.values,
                                      !.count = @ \/ c.n = 1]
    [] c.call = "order" -> [q EXCEPT !.order = [column |-> c.column, desc |-> c.n = 1]]
    [] c.call = "limit" -> [q EXCEPT !.limit = c.n]
    [] c.call = "maybeSingle" -> [q EXCEPT !.single = TRUE, !.limit = 1]
    [] OTHER -> [q EXCEPT !.filters = @ \cup {[column |-> c.column, op |-> c.call, values |-> c.values]}]

Query(calls) ==
  LET after[n \in 0..Len(calls)] == IF n = 0 THEN NewQuery ELSE Then(after[n - 1], calls[n])
  IN  after[Len(calls)]

\* The parameters of the URL. A list travels joined by commas: one word with a comma
\* becomes two, and a list of one empty word is as empty as none.
Words(v) == IF v = Text("a,b") THEN {Text("a"), Text("b")} ELSE {v}
Joined(values) == LET words == UNION {Words(v) : v \in values}
                  IN  IF words = {Text("")} THEN {} ELSE words

UrlOf(q) ==
  [cols  |-> IF q.cols = All THEN All ELSE {AliasOut(c) : c \in q.cols},
   where |-> {LET wire == OnWire(f)
              IN  IF f.op = "in" THEN [wire EXCEPT !.values = Joined(@)] ELSE wire : f \in q.filters},
   order |-> IF q.order = All THEN All ELSE [q.order EXCEPT !.column = AliasOut(@)],
   limit |-> q.limit,
   count |-> q.count]

\* parseQuery: a filter that names no column is not one, and a limit is always there.
ParseQuery(url) == [url EXCEPT !.where = {f \in @ : f.column # ""},
                               !.limit = IF @ = All THEN DefaultLimit ELSE @]

-------------------------------------------------------------------------------
(* The answer.                                                                  *)

\* columnsFor: every column asked for, or none
ColumnsFor(requested) == IF requested = All THEN UserColumns
                         ELSE IF requested \subseteq UserColumns THEN requested ELSE {}

LimitFor(asked, caller) ==
  LET cap == IF caller.kind = "service" THEN MaxLimitService ELSE MaxLimit
  IN  IF asked <= 0 THEN DefaultLimit ELSE IF asked < cap THEN asked ELSE cap

\* The columns the model keeps of `users`
Kept == {"id", "role", "vip_expiry_ms", "device_id", "is_banned"}
RawRow(a, row, columns) == [c \in columns \cap Kept |->
  LET cell == Cell(a, row, c) IN IF cell = Num(NoTime) THEN Null ELSE cell]

\* Of two rows the first comes first: numbers below texts, NULL below both.
Above(v) == CASE v.kind = "null" -> 0 - 1 [] v.kind = "number" -> v.n [] OTHER -> 0
\* No order: any.
Unsorted(ids) == Injection(1..Cardinality(ids), ids)
Sorted(users, order, ids) ==
  IF order = All THEN Unsorted(ids)
  ELSE LET key(a) == Above(RawRow(a, users[a], {order.column})[order.column])
       IN  {s \in Unsorted(ids) : \A i, j \in DOMAIN s : i < j =>
              IF order.desc THEN key(s[i]) >= key(s[j]) ELSE key(s[i]) <= key(s[j])}

\* buildSelect of a whole query, and the answer of the route: [ok, count, rows], `rows`
\* every sequence of rows D1 may answer.
ReadRoute(users, query, caller) ==
  LET found   == SelectWhere(users, query.where, caller)
      columns == ColumnsFor(query.cols)
      limit   == LimitFor(query.limit, caller)
      first(s) == SubSeq(s, 1, IF Len(s) < limit THEN Len(s) ELSE limit)
      no == [ok |-> FALSE, count |-> 0, rows |-> {}]
  IN  IF ~found.ok \/ columns = {} THEN no
      ELSE IF query.count THEN [ok |-> TRUE, count |-> Cardinality(found.ids), rows |-> {}]
      ELSE IF query.order # All /\ query.order.column \notin UserColumns THEN no
      ELSE [ok |-> TRUE, count |-> 0,
            rows |-> {[i \in DOMAIN s |-> RawRow(s[i], users[s[i]], columns)] :
                        s \in {first(t) : t \in Sorted(users, query.order, found.ids)}}]

\* timesBack: the app's names, and ISO texts for times; what is no number is null
BackOf(column) == IF \E k \in DOMAIN Aliases : Aliases[k] = column
                  THEN CHOOSE k \in DOMAIN Aliases : Aliases[k] = column ELSE column
TimesBack(row) ==
  [k \in {BackOf(c) : c \in DOMAIN row} |->
     LET v == row[AliasOut(k)]
     IN  IF AliasOut(k) = k THEN v ELSE IF v.kind = "number" THEN Iso(v.n) ELSE Null]

\* jsonOut and jsonIn of a JSON column: a text is taken for one already written
JsonOut(v) == IF v.kind \in Strings \cup {"null"} THEN v ELSE Json(v)
JsonIn(v) == IF v.kind = "json" THEN Value(v.s, v.n, "") ELSE v

\* Query.run: rows the app reads, or a count; SingleQuery.run: the first of them, or null
AppAnswers(users, calls, caller) ==
  LET q      == Query(calls)
      answer == ReadRoute(users, ParseQuery(UrlOf(q)), caller)
      back(rows) == [i \in DOMAIN rows |-> TimesBack(rows[i])]
      data(rows) == IF ~q.single THEN back(rows) ELSE IF rows = <<>> THEN Null ELSE back(rows)[1]
  IN  IF ~answer.ok THEN {[error |-> TRUE, count |-> 0, data |-> Null]}
      ELSE IF q.count THEN {[error |-> FALSE, count |-> answer.count, data |-> <<>>]}
      ELSE {[error |-> FALSE, count |-> 0, data |-> data(rows)] : rows \in answer.rows}

\* dbBool: a truth value however the database spells it
DbBool(v) == v \in {Truth(TRUE), Text("true"), Text("t"), Text("1")} \/ (v.kind = "number" /\ v.n # 0)

-------------------------------------------------------------------------------
(* A write.                                                                     *)

\* usersRowFor: times in milliseconds; a date that does not parse is left out
Unparsable(column, v) == AliasOut(column) # column /\ v.kind \notin {"iso", "number", "null"}
UsersRowFor(values) ==
  LET sent == {c \in DOMAIN values : ~Unparsable(c, values[c])}
  IN  [k \in {AliasOut(c) : c \in sent} |-> TimeValue(BackOf(k), values[IF k \in sent THEN k ELSE BackOf(k)])]

\* What a cell holds of a value bound to it
CellOf(v) == CASE v = Null -> NoTime [] v.kind \in {"text", "json"} -> v.s [] OTHER -> v.n
Stored(values) == [c \in DOMAIN values |-> CellOf(values[c])]

\* parseFilters: an item of the body is [shape, column, op, values]; what is not an object,
\* names no column or compares with nothing is dropped
WellFormed(item) == item.shape = "object" /\ item.column # "" /\ Null \notin item.values
ParseFilters(items) == {[column |-> i.column, op |-> i.op, values |-> i.values] : i \in {j \in items : WellFormed(j)}}

\* One row of a request: what it writes, and what it makes of the rows before it.
OrderOf(op, set) ==
  [op |-> op, id |-> IF "id" \in DOMAIN set THEN set["id"] ELSE "", where |-> {},
   set |-> IF op \in {"insert", "upsert"} THEN [c \in DOMAIN set \ {"id"} |-> set[c]] ELSE set]
AndRow(users, op, filters, caller, done, set) ==
  LET answer == WriteWhere(done.users, OrderOf(op, set), filters, caller)
  IN  IF done.status # 200 THEN done
      ELSE [status |-> answer.status, users |-> IF answer.status = 200 THEN answer.users ELSE users]

\* The rows of one request, each built and authorised for itself, applied together or not
\* at all: rows, order and filters are those of the request.
WriteRoute(users, op, rows, items, caller) ==
  LET done[n \in 0..Len(rows)] ==
        IF n = 0 THEN [status |-> 200, users |-> users]
        ELSE AndRow(users, op, ParseFilters(items), caller, done[n - 1], rows[n])
  IN  IF rows = <<>> THEN [status |-> 400, users |-> users] ELSE done[Len(rows)]

\* WriteChain.run and hubWrite: an update or a delete without a filter is not sent
AppWrites(users, op, values, filters, caller) ==
  IF op \in {"update", "delete"} /\ filters = {} THEN [status |-> 0, users |-> users]
  ELSE WriteRoute(users, op, <<Stored(values)>>,
                  {Updated(OnWireOfWrite(f), [shape |-> "object"]) : f \in filters}, caller)

===============================================================================
