---------------------------- MODULE SignalPipeline ----------------------------
(***************************************************************************)
(* The signal pipeline of the data hub: the record route, D1, the spool    *)
(* Durable Object and the cron drain                                       *)
(* (apps/data-hub/src/index.ts, spool.ts, pipeline.ts, d1errors.ts).       *)
(*                                                                         *)
(* The generator is a separate program (external): it keeps rows in memory *)
(* until a record call answers 200 and puts a failed batch back.           *)
(*                                                                         *)
(* Every D1 statement and every spool request is one step, because each is *)
(* an await at which other requests, other drains and a crash can come in. *)
(* The two statements that open the day's budget are one step: the first   *)
(* only makes sure the row exists that the second one reads.               *)
(* A moment is abstracted to its UTC day: created_ms matters by the day it *)
(* is counted on.  A signal stands for its identity, the five columns of   *)
(* the unique index signals_identity_slot.                                 *)
(***************************************************************************)
EXTENDS Integers, Sequences, FiniteSets, SequencesExt

CONSTANTS Signals,     \* the identities the generator produces
          Bad,         \* those whose content D1 rejects with a constraint error
          Calls,       \* record requests the hub can be serving at once
          Drains,      \* cron drains that can overlap
          NoCall,      \* the generator is not waiting for any request
          MaxRows,     \* signal_write_budget.max_rows
          DrainBatch,  \* DRAIN_BATCH: rows one drain takes
          MaxDay,      \* bound: the last UTC day
          MaxFaults    \* bound: outages, lost answers and crashes in a behaviour

Days == 0 .. MaxDay
NotRecorded == -1
Procs == Calls \cup Drains

ASSUME PipelineAssumption ==
  /\ Bad \subseteq Signals
  /\ Calls \cap Drains = {}
  /\ IsFiniteSet(Calls) /\ IsFiniteSet(Drains)
  /\ NoCall \notin Calls
  /\ MaxRows \in Nat
  /\ DrainBatch \in Nat \ {0}
  /\ MaxDay \in Nat
  /\ MaxFaults \in Nat

VARIABLES
  day, d1, faults,            \* the clock, D1's condition, faults so far
  stamp, written, capped,     \* D1: signals and signal_write_budget
  spool, nextId,              \* SignalSpool's own SQLite table
  held, waiting, generated,   \* the generator: memory, the request it awaits
  rec,                        \* each request or drain: where it is and its locals
  called, accepted            \* observers: days offered, rows answered for

envVars == <<day, d1>>
d1Vars == <<stamp, written, capped>>
spoolVars == <<spool, nextId>>
genVars == <<held, waiting, generated>>
obsVars == <<called, accepted>>
vars == <<day, d1, faults, stamp, written, capped, spool, nextId,
          held, waiting, generated, rec, called, accepted>>

-------------------------------------------------------------------------------
(* Values *)

Item == [id : Nat, at : Days, row : Signals, parked : BOOLEAN]

PCs == {"idle", "budget", "cap", "insert", "count", "put", "answer",
        "exists", "park", "ack"}

\* The locals of a process: recordSignals' arguments and variables, the answer a
\* route is about to give, and what a drain has taken and finished.
Locals == [pc : PCs, rows : Seq(Signals), i : Nat \ {0}, at : Days,
           bills : Days, inserted : Nat, answer : {"ok", "capped", "error"},
           todo : SUBSET Item, done : SUBSET Nat]

Recorded == {s \in Signals : stamp[s] # NotRecorded}
Spooled == {x.row : x \in spool}
Unparked == {x \in spool : ~x.parked}

Oldest(S) == CHOOSE x \in S : \A y \in S : x.id <= y.id

\* A process between two requests or two cron runs.
Idle == [pc |-> "idle", rows |-> <<>>, i |-> 1, at |-> 0, bills |-> 0,
         inserted |-> 0, answer |-> "error", todo |-> {}, done |-> {}]

\* Variant: the row is filed under the moment of the replay.
BeginFiledNow(r, batch, moment) ==
  [r EXCEPT !.pc = "budget", !.rows = batch, !.i = 1, !.at = day,
            !.bills = day, !.inserted = 0]

\* Variant: the moment is rounded up to the next day.
BeginFiledNextDay(r, batch, moment) ==
  [r EXCEPT !.pc = "budget", !.rows = batch, !.i = 1, !.at = moment + 1,
            !.bills = day, !.inserted = 0]

\* The start of recordSignals: rows to write, the moment they are filed under,
\* and the day they are billed to, which is today's (index.ts:325-327).
Begin(r, batch, moment) ==
  [r EXCEPT !.pc = "budget", !.rows = batch, !.i = 1, !.at = moment,
            !.bills = day, !.inserted = 0]

ShouldSpool(kind) == kind \in {"quota", "unavailable"}

\* Variant: every statement is counted, whether or not its row landed.
CountAlways(n, landed) == n + 1

CountLanded(n, landed) == IF landed THEN n + 1 ELSE n

-------------------------------------------------------------------------------
(* What a process does next, as a value of its locals *)

\* Variant: the drain acknowledges everything it took, not what it finished.
EndLoopAcksTaken(r) ==
  [Idle EXCEPT !.pc = "ack", !.done = r.done \cup {x.id : x \in r.todo}]

\* After the drain loop: acknowledge what is done, or nothing to acknowledge.
EndLoop(r) == IF r.done = {} THEN Idle
              ELSE [Idle EXCEPT !.pc = "ack", !.done = r.done]

\* On to the next taken row; the locals of the last one are dead.
Advance(r) ==
  LET rest == r.todo \ {Oldest(r.todo)}
  IN  IF rest = {} THEN EndLoop(r)
      ELSE [Idle EXCEPT !.pc = "exists", !.todo = rest, !.done = r.done]

\* The route's response: 200, 200 with capped, or an error.
Reply(r, answer) ==
  [Idle EXCEPT !.pc = "answer", !.answer = answer, !.rows = r.rows]

MarkDone(r) == [r EXCEPT !.done = @ \cup {Oldest(r.todo).id}]

\* recordSignals returned after writing: the route answers, the drain goes on.
Returned(p, r) ==
  IF p \in Calls THEN Reply(r, "ok")
                 ELSE Advance(MarkDone(r))

\* recordSignals refused the batch: the route says so, the drain stops.
Refused(p, r) ==
  IF p \in Calls THEN Reply(r, "capped") ELSE EndLoop(r)

\* Variant: the drain stops at a row D1 rejects, as it does at an outage.
FailedStopsAtBadRow(p, r, kind) ==
  IF p \in Drains THEN EndLoop(r)
  ELSE IF ShouldSpool(kind) THEN [Idle EXCEPT !.pc = "put", !.rows = r.rows, !.at = r.at]
  ELSE Reply(r, "error")

\* A D1 statement threw.  Both catch blocks ask shouldSpool: the route hands the
\* batch to the spool or rethrows; the drain stops or parks the row.
Failed(p, r, kind) ==
  CASE p \in Calls /\ ShouldSpool(kind)  -> [Idle EXCEPT !.pc = "put", !.rows = r.rows, !.at = r.at]
    [] p \in Calls /\ ~ShouldSpool(kind) -> Reply(r, "error")
    [] p \in Drains /\ ShouldSpool(kind) -> EndLoop(r)
    [] OTHER                             -> [r EXCEPT !.pc = "park"]

Become(p, r) == rec' = [rec EXCEPT ![p] = r]

Fault == faults < MaxFaults /\ faults' = faults + 1

\* A statement that took effect: the process goes on, or the connection is lost
\* on the way back and the process sees "Network connection lost".
Landed(p, r) ==
  \/ Become(p, r) /\ UNCHANGED faults
  \/ Fault /\ Become(p, Failed(p, rec[p], "unavailable"))

-------------------------------------------------------------------------------
(* The generator (external) *)

Generate(s) ==
  /\ s \notin generated
  /\ generated' = generated \cup {s}
  /\ held' = Append(held, s)
  /\ UNCHANGED <<envVars, faults, d1Vars, spoolVars, waiting, rec, obsVars>>

\* A flush sends everything in memory as one batch; the hub's handler starts.
Flush(c) ==
  /\ waiting = NoCall
  /\ held # <<>>
  /\ rec[c].pc = "idle"
  /\ Become(c, Begin(Idle, held, day))
  /\ held' = <<>>
  /\ waiting' = c
  /\ called' = [s \in Signals |->
                  IF s \in ToSet(held) THEN called[s] \cup {day} ELSE called[s]]
  /\ UNCHANGED <<envVars, faults, d1Vars, spoolVars, generated, accepted>>

\* The batch of a request that failed goes back in front of newer rows.
PutBack(c) ==
  IF waiting = c
  THEN held' = rec[c].rows \o held /\ waiting' = NoCall
  ELSE UNCHANGED <<held, waiting>>

\* The route's response reaches the generator, if it is still listening.
Answer(c) ==
  /\ rec[c].pc = "answer"
  /\ Become(c, Idle)
  /\ IF rec[c].answer = "error" THEN PutBack(c)
     ELSE held' = held /\ waiting' = (IF waiting = c THEN NoCall ELSE waiting)
  /\ accepted' = IF rec[c].answer = "ok" THEN accepted \cup ToSet(rec[c].rows)
                 ELSE accepted
  /\ UNCHANGED <<envVars, faults, d1Vars, spoolVars, generated, called>>

\* The generator gives up on a request that may still be running in the hub.
GiveUp ==
  /\ waiting # NoCall
  /\ Fault
  /\ PutBack(waiting)
  /\ UNCHANGED <<envVars, d1Vars, spoolVars, generated, rec, obsVars>>

\* A restart or redeploy of the generator: memory goes with it.
GeneratorCrash ==
  /\ Fault
  /\ held' = <<>> /\ waiting' = NoCall
  /\ UNCHANGED <<envVars, d1Vars, spoolVars, generated, rec, obsVars>>

-------------------------------------------------------------------------------
(* recordSignals, run by a request or by a drain *)

\* Both statements that open the day's budget; planRecord decides at once.
ReadBudget(p) ==
  /\ rec[p].pc = "budget"
  /\ d1 = "up"
  /\ LET r == rec[p]
     IN  Become(p, [r EXCEPT !.pc = IF written[r.bills] + Len(r.rows) > MaxRows
                                    THEN "cap" ELSE "insert"])
  /\ UNCHANGED <<envVars, faults, d1Vars, spoolVars, genVars, obsVars>>

MarkCapped(p) ==
  /\ rec[p].pc = "cap"
  /\ d1 = "up"
  /\ capped' = [capped EXCEPT ![rec[p].bills] = TRUE]
  /\ Landed(p, Refused(p, rec[p]))
  /\ UNCHANGED <<envVars, stamp, written, spoolVars, genVars, obsVars>>

\* INSERT ... ON CONFLICT DO NOTHING, one statement per row.
InsertRow(p) ==
  LET r == rec[p]
      s == r.rows[r.i]
      new == stamp[s] = NotRecorded
  IN  /\ r.pc = "insert"
      /\ d1 = "up"
      /\ s \notin Bad
      /\ stamp' = IF new THEN [stamp EXCEPT ![s] = r.at] ELSE stamp
      /\ Landed(p, [r EXCEPT !.pc = IF r.i = Len(r.rows) THEN "count" ELSE "insert",
                             !.i = r.i + 1,
                             !.inserted = CountLanded(@, new)])
      /\ UNCHANGED <<envVars, written, capped, spoolVars, genVars, obsVars>>

CountRows(p) ==
  /\ rec[p].pc = "count"
  /\ d1 = "up"
  /\ written' = [written EXCEPT ![rec[p].bills] = @ + rec[p].inserted]
  /\ Landed(p, Returned(p, rec[p]))
  /\ UNCHANGED <<envVars, stamp, capped, spoolVars, genVars, obsVars>>

\* D1 refuses the statement the process is at, for the reason given.
Refuses(p, kind) ==
  \/ d1 = "quota" /\ kind = "quota" /\ UNCHANGED faults
  \/ d1 = "down" /\ kind = "unavailable" /\ UNCHANGED faults
  \/ /\ d1 = "up" /\ kind = "data" /\ UNCHANGED faults
     /\ rec[p].pc = "insert" /\ rec[p].rows[rec[p].i] \in Bad
  \/ d1 = "up" /\ kind = "unknown" /\ Fault

StatementFails(p) ==
  /\ rec[p].pc \in {"budget", "cap", "insert", "count", "exists"}
  /\ \E kind \in {"quota", "unavailable", "data", "unknown"} :
       Refuses(p, kind) /\ Become(p, Failed(p, rec[p], kind))
  /\ UNCHANGED <<envVars, d1Vars, spoolVars, genVars, obsVars>>

-------------------------------------------------------------------------------
(* The spool *)

NewItems(r) ==
  {[id |-> nextId + k - 1, at |-> r.at, row |-> r.rows[k], parked |-> FALSE] :
     k \in DOMAIN r.rows}

\* /put: the whole batch in one transaction.  The route answers success, or sees
\* the request fail although the rows are stored.
Put(c) ==
  /\ rec[c].pc = "put"
  /\ spool' = spool \cup NewItems(rec[c])
  /\ nextId' = nextId + Len(rec[c].rows)
  /\ \/ Become(c, Reply(rec[c], "ok")) /\ UNCHANGED faults
     \/ Fault /\ Become(c, Reply(rec[c], "error"))
  /\ UNCHANGED <<envVars, d1Vars, genVars, obsVars>>

\* /put itself fails: the original D1 error goes back to the generator.
PutFails(c) ==
  /\ rec[c].pc = "put"
  /\ Fault
  /\ Become(c, Reply(rec[c], "error"))
  /\ UNCHANGED <<envVars, d1Vars, spoolVars, genVars, obsVars>>

\* /take: the oldest unparked rows, at most DRAIN_BATCH of them.
TakenItems == {x \in Unparked : Cardinality({y \in Unparked : y.id < x.id}) < DrainBatch}

Take(d) ==
  /\ rec[d].pc = "idle"
  /\ Unparked # {}
  /\ Become(d, [Idle EXCEPT !.pc = "exists", !.todo = TakenItems])
  /\ UNCHANGED <<envVars, faults, d1Vars, spoolVars, genVars, obsVars>>

\* EXISTS_SQL before the insert: a row already recorded is only acknowledged.
\* Otherwise it is recorded under the moment its record call was made.
CheckExists(d) ==
  LET r == rec[d]
      item == Oldest(r.todo)
  IN  /\ r.pc = "exists"
      /\ d1 = "up"
      /\ Become(d, IF item.row \in Recorded THEN Advance(MarkDone(r))
                   ELSE Begin(r, <<item.row>>, item.at))
      /\ UNCHANGED <<envVars, faults, d1Vars, spoolVars, genVars, obsVars>>

\* /park: the row is kept and skipped by every later take.  If the request
\* throws, so does the drain, and its acknowledgements are never sent.
Park(d) ==
  LET bad == Oldest(rec[d].todo).id
  IN  /\ rec[d].pc = "park"
      /\ spool' = {[x EXCEPT !.parked = @ \/ x.id = bad] : x \in spool}
      /\ \/ Become(d, Advance(rec[d])) /\ UNCHANGED faults
         \/ Fault /\ Become(d, Idle)
      /\ UNCHANGED <<envVars, d1Vars, nextId, genVars, obsVars>>

\* /ack: the rows that are in D1 leave the spool.
Ack(d) ==
  /\ rec[d].pc = "ack"
  /\ spool' = {x \in spool : x.id \notin rec[d].done}
  /\ Become(d, Idle)
  /\ UNCHANGED <<envVars, faults, d1Vars, nextId, genVars, obsVars>>

\* The isolate goes away: a request answers nothing the generator would take for
\* success, a drain sends neither its park nor its acknowledgements.
Crash(p) ==
  /\ rec[p].pc # "idle"
  /\ Fault
  /\ Become(p, Idle)
  /\ IF p \in Calls THEN PutBack(p) ELSE UNCHANGED <<held, waiting>>
  /\ UNCHANGED <<envVars, d1Vars, spoolVars, generated, obsVars>>

-------------------------------------------------------------------------------
(* D1 and the clock (external) *)

\* The daily quota ends at the next midnight, so the last modelled day has none.
D1Fails(mode) ==
  /\ d1 = "up"
  /\ mode = "quota" => day < MaxDay
  /\ Fault
  /\ d1' = mode
  /\ UNCHANGED <<day, d1Vars, spoolVars, genVars, rec, obsVars>>

D1Recovers ==
  /\ d1 = "down"
  /\ d1' = "up"
  /\ UNCHANGED <<day, faults, d1Vars, spoolVars, genVars, rec, obsVars>>

Midnight ==
  /\ day < MaxDay
  /\ day' = day + 1
  /\ d1' = IF d1 = "quota" THEN "up" ELSE d1
  /\ UNCHANGED <<faults, d1Vars, spoolVars, genVars, rec, obsVars>>

-------------------------------------------------------------------------------

Init ==
  /\ day = 0 /\ d1 = "up" /\ faults = 0
  /\ stamp = [s \in Signals |-> NotRecorded]
  /\ written = [d \in Days |-> 0]
  /\ capped = [d \in Days |-> FALSE]
  /\ spool = {} /\ nextId = 1
  /\ held = <<>> /\ waiting = NoCall /\ generated = {}
  /\ rec = [p \in Procs |-> Idle]
  /\ called = [s \in Signals |-> {}]
  /\ accepted = {}

RecordStep(p) == ReadBudget(p) \/ MarkCapped(p) \/ InsertRow(p) \/ CountRows(p)
                 \/ StatementFails(p)
RouteStep(c) == RecordStep(c) \/ Put(c) \/ PutFails(c) \/ Answer(c)
DrainStep(d) == RecordStep(d) \/ Take(d) \/ CheckExists(d) \/ Park(d) \/ Ack(d)

Next ==
  \/ \E s \in Signals : Generate(s)
  \/ \E c \in Calls : Flush(c) \/ RouteStep(c)
  \/ \E d \in Drains : DrainStep(d)
  \/ GiveUp \/ GeneratorCrash
  \/ \E p \in Procs : Crash(p)
  \/ \E mode \in {"quota", "down"} : D1Fails(mode)
  \/ D1Recovers \/ Midnight

Spec == Init /\ [][Next]_vars

\* The Workers runtime runs an accepted request or cron invocation on, the cron
\* trigger keeps firing, D1 comes back and days pass.  Nothing obliges the
\* generator to generate or a fault to happen.
FairSpec ==
  /\ Spec
  /\ \A c \in Calls : WF_vars(RouteStep(c))
  /\ \A d \in Drains : WF_vars(DrainStep(d))
  /\ WF_vars(D1Recovers) /\ WF_vars(Midnight)

-------------------------------------------------------------------------------
(* Properties *)

TypeOK ==
  /\ day \in Days /\ d1 \in {"up", "quota", "down"} /\ faults \in 0 .. MaxFaults
  /\ stamp \in [Signals -> Days \cup {NotRecorded}]
  /\ written \in [Days -> Nat] /\ capped \in [Days -> BOOLEAN]
  /\ spool \subseteq Item /\ nextId \in Nat \ {0}
  /\ held \in Seq(Signals) /\ waiting \in Calls \cup {NoCall} /\ generated \subseteq Signals
  /\ rec \in [Procs -> Locals]
  /\ called \in [Signals -> SUBSET Days] /\ accepted \subseteq Signals

\* Every signal the record route answered success for is in D1 or still in the
\* spool: the generator has dropped it from memory, so nothing else can bring it
\* back (index.ts:613-617, "ownership moves in ONE step").
NoLoss == accepted \subseteq Recorded \cup Spooled

\* The write budget never counts a row that is not there, however often a batch
\* is retried or replayed: written grows by the rows that landed, and each row
\* lands once (index.ts:357-373).  It may well count fewer rows than landed.
BudgetNeverOvercounts ==
  MapThenSumSet(LAMBDA d : written[d], Days) <= Cardinality(Recorded)

\* The pipeline keeps the promise of SignalLedger: what it takes over it never
\* loses, a row is written once, and it is filed under a day on which a record
\* call carried it, however much later the drain wrote it (pipeline.ts:88-98).
Ledger == INSTANCE SignalLedger WITH
  offered <- called, owned <- Recorded \cup Spooled

LedgerSpec == Ledger!Spec

\* A row waiting in the spool leaves the queue, and ends recorded or parked; a
\* row D1 rejects holds none behind it hostage (index.ts:429-431), and an
\* acknowledgement that is lost does not keep a recorded row queued for ever.
Waits(s) == \E x \in Unparked : x.row = s
ReplayCompletes ==
  \A s \in Signals :
    Waits(s) ~> /\ ~Waits(s)
                /\ s \in Recorded \/ \E x \in spool : x.row = s /\ x.parked

-------------------------------------------------------------------------------
(* The inductive invariant *)

Recording == {"budget", "cap", "insert", "count"}

\* Row ids are never reused (AUTOINCREMENT), and a row in the spool was offered
\* on the day it will be filed under.
SpoolOK ==
  /\ \A x \in spool : x.id < nextId /\ x.at \in called[x.row]
  /\ \A x, y \in spool : x.id = y.id => x.row = y.row

\* recordSignals has written the rows it has passed; its batch was offered on
\* the day it is filed under; success is answered for rows the hub has.
BatchOK(r) ==
  /\ r.pc \in Recording => r.rows # <<>>
  /\ r.pc \in Recording \cup {"put"} =>
       \A k \in DOMAIN r.rows : r.at \in called[r.rows[k]]
  /\ r.pc = "budget" => r.i = 1
  /\ r.pc = "insert" => /\ r.i <= Len(r.rows)
                        /\ \A k \in 1 .. r.i - 1 : r.rows[k] \in Recorded
  /\ r.pc = "count" => \A k \in DOMAIN r.rows : r.rows[k] \in Recorded
  /\ r.pc = "answer" /\ r.answer = "ok" =>
       \A k \in DOMAIN r.rows : r.rows[k] \in Recorded \cup Spooled

\* Rows taken from the spool are what it holds, or held, under their ids.
TakenOK(T) ==
  \A y \in T : /\ y.id < nextId
               /\ y.at \in called[y.row]
               /\ \A x \in spool : x.id = y.id => x.row = y.row

\* Rows about to be acknowledged are in D1.
DoneOK(D) ==
  \A n \in D : n < nextId /\ \A x \in spool : x.id = n => x.row \in Recorded

\* A drain is writing the oldest of the rows it has taken.
RoleOK(p, r) ==
  /\ p \in Calls => r.pc \notin {"exists", "park", "ack"}
  /\ p \in Drains =>
       /\ r.pc \in Recording \cup {"exists", "park"} => r.todo # {}
       /\ r.pc \in Recording => r.rows = <<Oldest(r.todo).row>>

LocalsOK(p, r) == BatchOK(r) /\ TakenOK(r.todo) /\ DoneOK(r.done) /\ RoleOK(p, r)

IInv ==
  /\ TypeOK
  /\ SpoolOK
  /\ \A p \in Procs : LocalsOK(p, rec[p])
  /\ NoLoss

-------------------------------------------------------------------------------
\* For TLC: record requests are alike, and so are drains.
Symmetry == Permutations(Calls) \cup Permutations(Drains)
===============================================================================
