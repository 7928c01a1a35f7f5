------------------------------- MODULE LiveRows -------------------------------
(* How an open screen keeps up with the rows it shows: the hub commits a write, *)
(* then publishes which ids changed (data-hub/src/index.ts, live.ts), a socket  *)
(* carries the nudge, and the browser reads the row again (web/lib/live.ts,     *)
(* realtime.ts, proxyUrl.ts). Contents are version numbers.                     *)
EXTENDS Naturals, Sequences, FiniteSets

CONSTANTS
  Row,        \* the watched rows: table (the proxy's address apart) |-> id
  Screens,    \* which of them are watched together
  OtherIds,   \* ids of rows nobody here watches
  Blank,      \* what a screen holds before the first answer
  Empty,      \* what it holds after a failed one: no row, no rows
  Unanswered, \* a read the hub has not answered yet
  MaxNamed,   \* ids a nudge may name (50)
  \* bounds of the runs
  MaxWrites, MaxDrops, MaxReads

RowsAssumption == \A mark \in {Blank, Empty, Unanswered} : mark \notin Nat

VARIABLES
  hub, \* [ver: row |-> version, out: publishes still to be sent, writes, drops]
  net, \* [up: the hub holds this browser's socket, inbox: nudges, reads: those under way as [row, got, nth]]
  app  \* [sock, ever, wired, on, view, cache] and [excused]: rows that may be stale, see below

vars == <<hub, net, app>>
Rows == DOMAIN hub.ver

-------------------------------------------------------------------------------
(* The hub. The model notes in app.excused why a screen may be left behind.     *)

Init ==
  /\ \E rows \in Screens :
       /\ hub = [ver |-> [r \in rows |-> 1], out |-> {}, writes |-> 0, drops |-> 0]
       /\ app = [sock |-> "none", ever |-> FALSE, wired |-> FALSE, on |-> {}, excused |-> {},
                 view |-> [r \in rows |-> Blank], cache |-> Blank]
  /\ net = [up |-> FALSE, inbox |-> <<>>, reads |-> {}]

\* Whoever watches `configs` once keeps its channel for the life of the page.
Listening == app.on \union IF app.wired THEN {"configs"} ELSE {}

\* The ids a request names are those of its rows and of its filters, in the order
\* it gives them; the nudge carries the first MaxNamed.
Named(ids) == {S \in SUBSET ids : Cardinality(S) = IF Cardinality(ids) > MaxNamed
                                                    THEN MaxNamed ELSE Cardinality(ids)}
About(p) == IF p.row = "pairs" \/ Row[p.row] \in p.ids THEN {p.row} ELSE {}
Excuse(rows) == app' = [app EXCEPT !.excused = @ \union rows]

\* A write lands; the nudge goes out later, under waitUntil.
Write(r, ids) ==
  /\ hub.writes < MaxWrites
  /\ \E named \in Named(ids) :
       LET p == [row |-> r, ids |-> named, nth |-> hub.writes]
       IN  /\ hub' = [hub EXCEPT !.ver[r] = @ + (IF Row[r] \in ids THEN 1 ELSE 0),
                                 !.writes = @ + 1, !.out = @ \union {p}]
           /\ Excuse(About([p EXCEPT !.ids = ids]) \ About(p))
  /\ UNCHANGED net

\* The object writes the nudge to every socket it holds; this browser may have
\* none yet, and its first connection is no reason to read again.
Publish(p) ==
  /\ hub' = [hub EXCEPT !.out = @ \ {p}]
  /\ net' = [net EXCEPT !.inbox = IF net.up THEN Append(@, p) ELSE @]
  /\ Excuse(IF net.up \/ app.ever THEN {} ELSE About(p))

\* The call to the object fails and nobody tries again.
LosePublish(p) ==
  /\ hub' = [hub EXCEPT !.out = @ \ {p}]
  /\ Excuse(About(p))
  /\ UNCHANGED net

Answer(q) ==
  /\ q.got = Unanswered
  /\ net' = [net EXCEPT !.reads = (@ \ {q}) \union {[q EXCEPT !.got = hub.ver[q.row]]}]
  /\ UNCHANGED <<hub, app>>

Accept == \* LiveHub /connect
  /\ app.sock = "opening" /\ ~net.up
  /\ net' = [net EXCEPT !.up = TRUE]
  /\ UNCHANGED <<hub, app>>

-------------------------------------------------------------------------------
(* The browser.                                                                 *)

\* A read of each row, told apart from the others of that row by its number.
Room(rows) == \A r \in rows : Cardinality({q \in net.reads : q.row = r}) < MaxReads
Spare(reads, r) == CHOOSE n \in 1..MaxReads : \A q \in reads : q.row = r => q.nth # n
Ask(reads, rows) == reads \union {[row |-> r, got |-> Unanswered, nth |-> Spare(reads, r)] : r \in rows}

\* Subscribing opens the socket when there is none. A row of `configs` that was
\* read before is handed over from the cache, the others are read.
Mount(r) ==
  /\ r \notin app.on
  /\ LET kept == r = "configs" /\ app.cache # Blank
         asked == IF kept THEN {} ELSE {r}
     IN  /\ Room(asked)
         /\ net' = [net EXCEPT !.reads = Ask(@, asked)]
         /\ app' = [app EXCEPT !.on = @ \union {r}, !.wired = @ \/ r = "configs",
                               !.sock = IF @ \in {"none", "closed"} THEN "opening" ELSE @,
                               !.view[r] = IF kept THEN app.cache ELSE @, !.excused = @ \ asked]
  /\ UNCHANGED hub

\* Leaving a screen: its answers still under way are dropped, and the socket is
\* closed on purpose when nobody listens any more.
Unmount(r) ==
  /\ r \in app.on \ {"proxy"}
  /\ LET last == app.on = {r} /\ ~app.wired
     IN  /\ app' = [app EXCEPT !.on = @ \ {r}, !.view[r] = Blank,
                               !.sock = IF last /\ @ # "closed" THEN "none" ELSE @]
         /\ net' = [up |-> net.up /\ ~last, inbox |-> IF last THEN <<>> ELSE net.inbox,
                    reads |-> {q \in net.reads : q.row # r \/ r = "configs"}]
  /\ UNCHANGED hub

\* Who reads again when the socket opens, and when a nudge comes.
NeverResynced == {}
Resynced == IF app.ever THEN Listening ELSE {}
Concerned(p) == Listening \intersect About(p)

Open ==
  /\ app.sock = "opening" /\ net.up
  /\ Room(Resynced)
  /\ app' = [app EXCEPT !.sock = "open", !.ever = TRUE]
  /\ net' = [net EXCEPT !.reads = Ask(@, Resynced)]
  /\ UNCHANGED hub

Nudge ==
  /\ app.sock = "open" /\ net.inbox # <<>>
  /\ Room(Concerned(Head(net.inbox)))
  /\ net' = [net EXCEPT !.inbox = Tail(@), !.reads = Ask(@, Concerned(Head(net.inbox)))]
  /\ UNCHANGED <<hub, app>>

\* The connection fails, restartLive closes it, or configureLive drops it for
\* another address (and opens the next at once); what was on it is gone.
Drop ==
  /\ net.up /\ hub.drops < MaxDrops
  /\ hub' = [hub EXCEPT !.drops = @ + 1]
  /\ net' = [net EXCEPT !.up = FALSE, !.inbox = <<>>]
  /\ \E next \in IF app.sock = "open" THEN {"open", "opening"} ELSE {"closed", "opening"} :
       app' = [app EXCEPT !.sock = next, !.excused = @ \union
                 IF app.ever THEN {} ELSE UNION {About(net.inbox[i]) : i \in DOMAIN net.inbox}]

Closed == \* onclose: the socket is forgotten and a retry is booked
  /\ app.sock = "open" /\ ~net.up
  /\ app' = [app EXCEPT !.sock = "closed"]
  /\ UNCHANGED <<hub, net>>

Retry ==
  /\ app.sock = "closed"
  /\ app' = [app EXCEPT !.sock = "opening"]
  /\ UNCHANGED <<hub, net>>

\* No row reads as an empty object, an empty list or a deleted account; only the
\* proxy's address is left as it was.
Held(r) == IF r = "configs" THEN app.cache ELSE app.view[r]
Made(r, answer) == IF r = "proxy" /\ answer = Empty THEN Held(r) ELSE answer
Older(a, b) == a # Empty /\ b \notin {Blank, Empty} /\ a < b

Receive(q, answer) ==
  LET r == q.row
      value == Made(r, answer)
  IN  /\ answer # Unanswered
      /\ net' = [net EXCEPT !.reads = @ \ {q}]
      /\ app' = [app EXCEPT
           !.view[r] = IF r \in app.on THEN value ELSE @,
           !.cache = IF r = "configs" THEN value ELSE @,
           !.excused = IF value = hub.ver[r] THEN @ \ {r}
                       ELSE IF answer = Empty \/ Older(answer, Held(r)) THEN @ \union {r} ELSE @]
      /\ UNCHANGED hub

Next ==
  \/ \E r \in Rows : Mount(r) \/ Unmount(r)
  \/ \E r \in Rows : \E ids \in SUBSET ({Row[r]} \union OtherIds) : ids # {} /\ Write(r, ids)
  \/ \E p \in hub.out : Publish(p) \/ LosePublish(p)
  \/ \E q \in net.reads : Answer(q) \/ Receive(q, Empty) \/ Receive(q, q.got)
  \/ Accept \/ Open \/ Nudge \/ Drop \/ Closed \/ Retry

Spec == Init /\ [][Next]_vars

-------------------------------------------------------------------------------
(* With the socket up and nothing under way, a screen shows what the database    *)
(* holds, whatever was lost while the socket was down. The exceptions are all    *)
(* there are: a failed read, an answer overtaken by an older one, an id cut from *)
(* a nudge, a nudge that was never sent, and a write between the first read and  *)
(* the first connection (live.ts:92-97, realtime.ts:113-121).                    *)
StaleOnlyForAReason ==
  \A r \in app.on :
    \/ app.sock # "open" \/ ~net.up \/ net.inbox # <<>> \/ hub.out # {}
    \/ \E q \in net.reads : q.row = r
    \/ app.view[r] = hub.ver[r]
    \/ r \in app.excused
===============================================================================
