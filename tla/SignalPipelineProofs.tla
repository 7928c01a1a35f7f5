------------------------- MODULE SignalPipelineProofs -------------------------
(***************************************************************************)
(* Proofs about SignalPipeline: its types, that no accepted signal is      *)
(* lost, that the budget counts no row twice, and that the pipeline        *)
(* implements SignalLedger.                                                *)
(***************************************************************************)
EXTENDS SignalPipeline, SumTheorems

\* The oldest of a non-empty set of taken rows is one of them.
LEMMA OldestExists ==
  ASSUME NEW S, S \subseteq Item, S # {}
  PROVE  \E x \in S : \A y \in S : x.id <= y.id
<1> DEFINE Ids == {x.id : x \in S}
<1>1. Ids \subseteq Nat /\ Ids # {}
  BY DEF Item
<1>2. PICK n \in Ids : \A m \in Ids : ~ (<<m, n>> \in OpToRel(<, Nat))
  <2> HIDE DEF Ids
  <2> QED BY <1>1, NatLessThanWellFounded, WFMin
<1>3. \A m \in Ids : n <= m
  <2> HIDE DEF Ids
  <2> TAKE m \in Ids
  <2>1. m \in Nat /\ n \in Nat
    BY <1>1
  <2>2. <<m, n>> \in Nat \X Nat /\ <<m, n>>[1] = m /\ <<m, n>>[2] = n
    BY <2>1
  <2>3. <<m, n>>[1] < <<m, n>>[2] => <<m, n>> \in OpToRel(<, Nat)
    BY <2>2, Zenon DEF OpToRel
  <2>4. ~ (<<m, n>>[1] < <<m, n>>[2])
    BY <1>2, <2>3, Zenon
  <2> QED BY <2>1, <2>2, <2>4
<1>4. PICK x \in S : x.id = n
  BY <1>2
<1>5. \A y \in S : x.id <= y.id
  BY <1>3, <1>4
<1> QED
  BY <1>5

LEMMA OldestIn ==
  ASSUME NEW S, S \subseteq Item, S # {}
  PROVE  Oldest(S) \in S
BY OldestExists DEF Oldest

LEMMA OldestLeast ==
  ASSUME NEW S, S \subseteq Item, S # {}
  PROVE  \A y \in S : Oldest(S).id <= y.id
BY OldestExists DEF Oldest

-------------------------------------------------------------------------------
(* Types of the locals *)

LEMMA IdleType == Idle \in Locals
BY PipelineAssumption DEF Idle, Locals, PCs, Days

LEMMA EndLoopType == \A r \in Locals : EndLoop(r) \in Locals
BY IdleType DEF EndLoop, Locals, PCs

LEMMA AdvanceType == \A r \in Locals : Advance(r) \in Locals
<1> TAKE r \in Locals
<1> DEFINE rest == r.todo \ {Oldest(r.todo)}
<1>1. rest \in SUBSET Item /\ r.done \in SUBSET Nat
  BY DEF Locals
<1>2. [Idle EXCEPT !.pc = "exists", !.todo = rest, !.done = r.done] \in Locals
  <2> HIDE DEF rest
  <2> QED BY <1>1, IdleType DEF Locals, PCs
<1> QED BY <1>2, EndLoopType DEF Advance

LEMMA ReplyType ==
  \A r \in Locals, a \in {"ok", "capped", "error"} : Reply(r, a) \in Locals
BY IdleType DEF Reply, Locals, PCs

LEMMA MarkDoneType == \A r \in Locals : r.todo # {} => MarkDone(r) \in Locals
<1> TAKE r \in Locals
<1> HAVE r.todo # {}
<1>1. Oldest(r.todo).id \in Nat
  BY OldestIn DEF Locals, Item
<1> QED BY <1>1 DEF MarkDone, Locals

LEMMA BeginType ==
  ASSUME NEW r \in Locals, NEW batch \in Seq(Signals), NEW moment \in Days, day \in Days
  PROVE  Begin(r, batch, moment) \in Locals
<1>1. 1 \in Nat \ {0} /\ 0 \in Nat /\ "budget" \in PCs
  BY DEF PCs
<1>2. [r EXCEPT !.pc = "budget", !.rows = batch, !.i = 1] \in Locals
  BY <1>1 DEF Locals
<1>3. ASSUME NEW x \in Locals
      PROVE  [x EXCEPT !.at = moment, !.bills = day, !.inserted = 0] \in Locals
  BY <1>1 DEF Locals
<1>4. Begin(r, batch, moment)
        = [[r EXCEPT !.pc = "budget", !.rows = batch, !.i = 1]
             EXCEPT !.at = moment, !.bills = day, !.inserted = 0]
  BY DEF Begin, Locals
<1> QED BY <1>2, <1>3, <1>4

LEMMA PassedRowType ==
  ASSUME NEW r \in Locals, NEW pc \in PCs, NEW i \in Nat \ {0}, NEW k \in Nat
  PROVE  [r EXCEPT !.pc = pc, !.i = i, !.inserted = k] \in Locals
BY DEF Locals

LEMMA FailedType ==
  ASSUME NEW p \in Procs, NEW r \in Locals, NEW kind
  PROVE  Failed(p, r, kind) \in Locals
<1>1. [Idle EXCEPT !.pc = "put", !.rows = r.rows, !.at = r.at] \in Locals
  BY IdleType DEF Locals, PCs
<1>2. [r EXCEPT !.pc = "park"] \in Locals
  BY DEF Locals, PCs
<1>3. CASE p \in Calls
  <2>1. p \notin Drains
    BY <1>3, PipelineAssumption
  <2>2. Reply(r, "error") \in Locals
    BY ReplyType
  <2>3. CASE ShouldSpool(kind)
    BY <1>1, <1>3, <2>1, <2>3, Zenon DEF Failed
  <2>4. CASE ~ShouldSpool(kind)
    BY <1>3, <2>1, <2>2, <2>4, Zenon DEF Failed
  <2> QED BY <2>3, <2>4
<1>4. CASE p \in Drains
  BY <1>2, <1>4, EndLoopType, PipelineAssumption DEF Failed
<1> QED BY <1>3, <1>4 DEF Procs

-------------------------------------------------------------------------------
(* What the steps never undo *)

Grows ==
  /\ Recorded \subseteq Recorded'
  /\ \A s \in Signals : called[s] \subseteq called'[s]
  /\ nextId <= nextId'
  /\ \A x \in spool' : \/ \E y \in spool : y.id = x.id /\ y.row = x.row
                       \/ x.id >= nextId
  /\ Recorded \cup Spooled \subseteq Recorded' \cup Spooled'

LEMMA TakenKept ==
  ASSUME TypeOK, TypeOK', Grows, NEW T \in SUBSET Item, TakenOK(T)
  PROVE  TakenOK(T)'
<1> SUFFICES ASSUME NEW y \in T
             PROVE  /\ y.id < nextId'
                    /\ y.at \in called'[y.row]
                    /\ \A x \in spool' : x.id = y.id => x.row = y.row
  BY DEF TakenOK
<1>1. y.id \in Nat /\ y.row \in Signals
  BY DEF Item
<1>2. y.id < nextId /\ y.at \in called[y.row]
  BY DEF TakenOK
<1>3. nextId \in Nat /\ nextId' \in Nat /\ nextId <= nextId'
  BY DEF TypeOK, Grows
<1>4. y.id < nextId' /\ y.at \in called'[y.row]
  BY <1>1, <1>2, <1>3 DEF Grows
<1>5. ASSUME NEW x \in spool', x.id = y.id
      PROVE  x.row = y.row
  <2>1. ~ (x.id >= nextId)
    BY <1>1, <1>2, <1>3, <1>5
  <2>2. PICK z \in spool : z.id = x.id /\ z.row = x.row
    BY <2>1 DEF Grows
  <2> QED BY <1>5, <2>2 DEF TakenOK
<1> QED BY <1>4, <1>5

LEMMA DoneKept ==
  ASSUME TypeOK, TypeOK', Grows, NEW D \in SUBSET Nat, DoneOK(D)
  PROVE  DoneOK(D)'
<1> SUFFICES ASSUME NEW n \in D
             PROVE  n < nextId' /\ \A x \in spool' : x.id = n => x.row \in Recorded'
  BY DEF DoneOK
<1>1. n \in Nat /\ n < nextId
  BY DEF DoneOK
<1>2. nextId \in Nat /\ nextId' \in Nat /\ nextId <= nextId'
  BY DEF TypeOK, Grows
<1>3. ASSUME NEW x \in spool', x.id = n
      PROVE  x.row \in Recorded'
  <2>1. ~ (x.id >= nextId)
    BY <1>1, <1>2, <1>3
  <2>2. PICK z \in spool : z.id = x.id /\ z.row = x.row
    BY <2>1 DEF Grows
  <2> QED BY <1>3, <2>2 DEF DoneOK, Grows
<1> QED BY <1>1, <1>2, <1>3

LEMMA BatchKept ==
  ASSUME TypeOK, Grows, NEW r \in Locals, BatchOK(r)
  PROVE  BatchOK(r)'
<1>1. \A k \in DOMAIN r.rows : r.rows[k] \in Signals
  BY DEF Locals
<1> QED
  BY <1>1 DEF BatchOK, Grows

LEMMA LocalsKept ==
  ASSUME TypeOK, TypeOK', Grows, NEW p \in Procs, NEW r \in Locals, LocalsOK(p, r)
  PROVE  LocalsOK(p, r)'
<1>1. BatchOK(r)'
  BY BatchKept DEF LocalsOK
<1>2. r.todo \in SUBSET Item /\ r.done \in SUBSET Nat
  BY DEF Locals
<1>3. TakenOK(r.todo)' /\ DoneOK(r.done)'
  BY <1>2, TakenKept, DoneKept DEF LocalsOK
<1> QED
  BY <1>1, <1>3 DEF LocalsOK, RoleOK

-------------------------------------------------------------------------------
(* The values a step can give a process *)

LEMMA IdleOK ==
  ASSUME NEW p \in Procs
  PROVE  LocalsOK(p, Idle)'
BY DEF LocalsOK, Idle, BatchOK, TakenOK, DoneOK, RoleOK, Recording

LEMMA EndLoopOK ==
  ASSUME NEW p \in Drains, NEW r \in Locals, DoneOK(r.done)'
  PROVE  LocalsOK(p, EndLoop(r))'
<1>1. p \in Procs /\ p \notin Calls
  BY PipelineAssumption DEF Procs
<1>2. CASE r.done = {}
  BY <1>1, <1>2, IdleOK DEF EndLoop
<1>3. CASE r.done # {}
  BY <1>1, <1>3 DEF EndLoop, LocalsOK, Idle, BatchOK, TakenOK, RoleOK, Recording
<1> QED BY <1>2, <1>3

LEMMA AdvanceOK ==
  ASSUME NEW p \in Drains, NEW r \in Locals, TakenOK(r.todo)', DoneOK(r.done)'
  PROVE  LocalsOK(p, Advance(r))'
<1> DEFINE rest == r.todo \ {Oldest(r.todo)}
<1>1. p \in Procs /\ p \notin Calls
  BY PipelineAssumption DEF Procs
<1>2. CASE rest = {}
  BY <1>2, EndLoopOK DEF Advance
<1>3. CASE rest # {}
  <2>1. Advance(r) = [Idle EXCEPT !.pc = "exists", !.todo = rest, !.done = r.done]
    BY <1>3 DEF Advance
  <2>2. TakenOK(rest)'
    BY DEF TakenOK
  <2> HIDE DEF rest
  <2> QED BY <1>1, <1>3, <2>1, <2>2
          DEF LocalsOK, Idle, BatchOK, RoleOK, Recording
<1> QED BY <1>2, <1>3

LEMMA ReplyOK ==
  ASSUME NEW p \in Calls, NEW r \in Locals, NEW a \in {"ok", "capped", "error"},
         a = "ok" => \A k \in DOMAIN r.rows : r.rows[k] \in (Recorded \cup Spooled)'
  PROVE  LocalsOK(p, Reply(r, a))'
<1>1. p \notin Drains
  BY PipelineAssumption
<1> QED
  BY <1>1 DEF Reply, LocalsOK, Idle, BatchOK, TakenOK, DoneOK, RoleOK, Recording

LEMMA MarkDoneOK ==
  ASSUME NEW r \in Locals, r.todo # {}, TakenOK(r.todo)', DoneOK(r.done)',
         Oldest(r.todo).row \in Recorded'
  PROVE  /\ MarkDone(r) \in Locals
         /\ TakenOK(MarkDone(r).todo)'
         /\ DoneOK(MarkDone(r).done)'
<1>1. MarkDone(r) \in Locals
  BY MarkDoneType
<1>2. /\ MarkDone(r).todo = r.todo
      /\ MarkDone(r).done = r.done \cup {Oldest(r.todo).id}
  BY DEF MarkDone, Locals
<1>3. Oldest(r.todo) \in r.todo
  BY OldestIn DEF Locals
<1> QED
  BY <1>1, <1>2, <1>3 DEF TakenOK, DoneOK

LEMMA FailedOK ==
  ASSUME NEW p \in Procs, NEW r \in Locals, NEW kind, LocalsOK(p, r)',
         r.pc \in Recording \cup {"exists"}
  PROVE  LocalsOK(p, Failed(p, r, kind))'
<1>1. CASE p \in Calls
  <2>1. p \notin Drains /\ r.pc \in Recording
    BY <1>1, PipelineAssumption DEF LocalsOK, RoleOK
  <2>2. CASE ShouldSpool(kind)
    <3>1. Failed(p, r, kind) = [Idle EXCEPT !.pc = "put", !.rows = r.rows, !.at = r.at]
      BY <1>1, <2>1, <2>2, Zenon DEF Failed
    <3> QED
      BY <2>1, <3>1 DEF LocalsOK, Idle, BatchOK, TakenOK, DoneOK, RoleOK, Recording
  <2>3. CASE ~ShouldSpool(kind)
    <3>1. Failed(p, r, kind) = Reply(r, "error")
      BY <1>1, <2>1, <2>3, Zenon DEF Failed
    <3> QED BY <1>1, <3>1, ReplyOK
  <2> QED BY <2>2, <2>3
<1>2. CASE p \in Drains
  <2>1. p \notin Calls
    BY <1>2, PipelineAssumption
  <2>2. CASE ShouldSpool(kind)
    <3>1. Failed(p, r, kind) = EndLoop(r)
      BY <1>2, <2>1, <2>2, Zenon DEF Failed
    <3> QED BY <1>2, <3>1, EndLoopOK DEF LocalsOK
  <2>3. CASE ~ShouldSpool(kind)
    <3>1. Failed(p, r, kind) = [r EXCEPT !.pc = "park"]
      BY <1>2, <2>1, <2>3, Zenon DEF Failed
    <3>2. /\ Failed(p, r, kind).pc = "park"
          /\ Failed(p, r, kind).todo = r.todo
          /\ Failed(p, r, kind).done = r.done
      BY <3>1 DEF Locals
    <3> QED
      BY <1>2, <2>1, <3>2 DEF LocalsOK, BatchOK, RoleOK, Recording
  <2> QED BY <2>2, <2>3
<1> QED BY <1>1, <1>2 DEF Procs

-------------------------------------------------------------------------------
(* Putting a step together *)

LEMMA Assemble ==
  ASSUME IInv, TypeOK', Grows, SpoolOK', accepted' = accepted,
         NEW p \in Procs, NEW n \in Locals, Become(p, n), LocalsOK(p, n)'
  PROVE  IInv'
<1>1. ASSUME NEW q \in Procs
      PROVE  LocalsOK(q, rec[q])'
  <2>1. CASE q = p
    <3>1. rec'[q] = n
      BY <2>1 DEF Become, IInv, TypeOK
    <3> QED BY <2>1, <3>1 DEF LocalsOK, BatchOK, RoleOK, TakenOK, DoneOK
  <2>2. CASE q # p
    <3>1. PICK r \in Locals : r = rec[q]
      BY DEF IInv, TypeOK
    <3>2. rec'[q] = r
      BY <2>2, <3>1 DEF Become, IInv, TypeOK
    <3>3. LocalsOK(q, r)'
      BY <3>1, LocalsKept DEF IInv
    <3> QED BY <3>2, <3>3
  <2> QED BY <2>1, <2>2
<1>2. NoLoss'
  BY DEF IInv, NoLoss, Grows
<1> QED
  BY <1>1, <1>2 DEF IInv

\* A step of the generator, of D1 or of the clock.
LEMMA AssembleQuiet ==
  ASSUME IInv, TypeOK', UNCHANGED <<stamp, spool, nextId, rec, called, accepted>>
  PROVE  IInv'
<1>1. Grows /\ SpoolOK'
  BY DEF IInv, Grows, SpoolOK, TypeOK, Recorded, Spooled, Item
<1>2. ASSUME NEW q \in Procs
      PROVE  LocalsOK(q, rec[q])'
  <2>1. PICK r \in Locals : r = rec[q]
    BY DEF IInv, TypeOK
  <2>2. LocalsOK(q, r)'
    BY <1>1, <2>1, LocalsKept DEF IInv
  <2> QED BY <2>1, <2>2
<1>3. NoLoss'
  BY <1>1 DEF IInv, NoLoss, Grows
<1> QED
  BY <1>1, <1>2, <1>3 DEF IInv

-------------------------------------------------------------------------------
(* The steps of the generator, of D1 and of the clock *)

LEMMA FaultType ==
  ASSUME TypeOK, Fault
  PROVE  faults' \in 0 .. MaxFaults
BY PipelineAssumption DEF TypeOK, Fault

LEMMA PutBackType ==
  ASSUME TypeOK, NEW c \in Calls, PutBack(c)
  PROVE  held' \in Seq(Signals) /\ waiting' \in Calls \cup {NoCall}
<1>1. PICK r \in Locals : r = rec[c]
  BY DEF TypeOK, Procs
<1>2. r.rows \in Seq(Signals) /\ held \in Seq(Signals)
  BY DEF Locals, TypeOK
<1>3. r.rows \o held \in Seq(Signals)
  BY <1>2
<1> QED
  BY <1>1, <1>2, <1>3 DEF PutBack, TypeOK

LEMMA GenerateInv ==
  ASSUME IInv, NEW s \in Signals, Generate(s)
  PROVE  IInv'
<1>1. TypeOK'
  BY DEF IInv, TypeOK, Generate, envVars, d1Vars, spoolVars, obsVars
<1> QED
  BY <1>1, AssembleQuiet DEF Generate, d1Vars, spoolVars, obsVars

LEMMA GiveUpInv ==
  ASSUME IInv, GiveUp
  PROVE  IInv'
<1>1. held' \in Seq(Signals) /\ waiting' \in Calls \cup {NoCall} /\ faults' \in 0 .. MaxFaults
  <2>1. waiting \in Calls
    BY DEF IInv, TypeOK, GiveUp
  <2> QED BY <2>1, PutBackType, FaultType DEF IInv, GiveUp
<1>2. TypeOK'
  BY <1>1 DEF IInv, TypeOK, GiveUp, envVars, d1Vars, spoolVars, obsVars
<1> QED
  BY <1>2, AssembleQuiet DEF GiveUp, d1Vars, spoolVars, obsVars

LEMMA GeneratorCrashInv ==
  ASSUME IInv, GeneratorCrash
  PROVE  IInv'
<1>1. TypeOK'
  BY FaultType DEF IInv, TypeOK, GeneratorCrash, envVars, d1Vars, spoolVars, obsVars
<1> QED
  BY <1>1, AssembleQuiet DEF GeneratorCrash, d1Vars, spoolVars, obsVars

LEMMA D1FailsInv ==
  ASSUME IInv, NEW mode \in {"quota", "down"}, D1Fails(mode)
  PROVE  IInv'
<1>1. TypeOK'
  BY FaultType DEF IInv, TypeOK, D1Fails, genVars, d1Vars, spoolVars, obsVars
<1> QED
  BY <1>1, AssembleQuiet DEF D1Fails, d1Vars, spoolVars, obsVars

LEMMA D1RecoversInv ==
  ASSUME IInv, D1Recovers
  PROVE  IInv'
<1>1. TypeOK'
  BY DEF IInv, TypeOK, D1Recovers, genVars, d1Vars, spoolVars, obsVars
<1> QED
  BY <1>1, AssembleQuiet DEF D1Recovers, d1Vars, spoolVars, obsVars

LEMMA MidnightInv ==
  ASSUME IInv, Midnight
  PROVE  IInv'
<1>1. day' \in Days
  BY PipelineAssumption DEF IInv, TypeOK, Midnight, Days
<1>2. TypeOK'
  BY <1>1 DEF IInv, TypeOK, Midnight, genVars, d1Vars, spoolVars, obsVars
<1> QED
  BY <1>2, AssembleQuiet DEF Midnight, d1Vars, spoolVars, obsVars

-------------------------------------------------------------------------------
(* The steps of requests and drains *)

\* A step that leaves D1's rows and the spool alone undoes nothing.
LEMMA GrowsQuiet ==
  ASSUME IInv, UNCHANGED <<stamp, spool, nextId, called>>
  PROVE  Grows /\ SpoolOK'
BY DEF IInv, Grows, SpoolOK, TypeOK, Recorded, Spooled, Item

\* A statement that landed: the process goes on, or takes it for a failure.
LEMMA LandedCases ==
  ASSUME TypeOK, NEW p \in Procs, NEW n \in Locals, Landed(p, n)
  PROVE  /\ faults' \in 0 .. MaxFaults
         /\ \E m \in Locals : Become(p, m) /\ m \in {n, Failed(p, rec[p], "unavailable")}
<1>1. Failed(p, rec[p], "unavailable") \in Locals
  BY FailedType DEF TypeOK
<1>2. CASE Become(p, n) /\ UNCHANGED faults
  BY <1>2 DEF TypeOK
<1>3. CASE Fault /\ Become(p, Failed(p, rec[p], "unavailable"))
  BY <1>1, <1>3, FaultType
<1> QED BY <1>2, <1>3 DEF Landed

LEMMA ReadBudgetInv ==
  ASSUME IInv, NEW p \in Procs, ReadBudget(p)
  PROVE  IInv'
<1> PICK r \in Locals : r = rec[p]
  BY DEF IInv, TypeOK
<1>1. /\ r.pc = "budget"
      /\ UNCHANGED <<day, d1, faults, stamp, written, capped, spool, nextId,
                    held, waiting, generated, called, accepted>>
  BY DEF ReadBudget, envVars, d1Vars, spoolVars, genVars, obsVars
<1> PICK pc \in {"cap", "insert"} : Become(p, [r EXCEPT !.pc = pc])
  BY DEF ReadBudget
<1> PICK n \in Locals : /\ n = [r EXCEPT !.pc = pc]
                        /\ n.rows = r.rows /\ n.at = r.at /\ n.i = r.i
                        /\ n.todo = r.todo /\ n.done = r.done /\ n.pc = pc
  BY DEF Locals, PCs
<1>2. Become(p, n)
  OBVIOUS
<1>3. TypeOK'
  BY <1>1, <1>2 DEF IInv, TypeOK, Become
<1>4. Grows /\ SpoolOK'
  BY <1>1, GrowsQuiet
<1>5. LocalsOK(p, r)'
  BY <1>3, <1>4, LocalsKept DEF IInv
<1>6. LocalsOK(p, n)'
  <2>1. r.rows # <<>> => 1 <= Len(r.rows)
    BY DEF Locals
  <2> QED BY <1>1, <1>5, <2>1 DEF LocalsOK, BatchOK, RoleOK, Recording
<1> QED
  BY <1>1, <1>2, <1>3, <1>4, <1>6, Assemble

LEMMA MarkCappedInv ==
  ASSUME IInv, NEW p \in Procs, MarkCapped(p)
  PROVE  IInv'
<1> PICK r \in Locals : r = rec[p]
  BY DEF IInv, TypeOK
<1>1. r.pc = "cap" /\ Refused(p, r) \in Locals /\ Landed(p, Refused(p, r))
  BY ReplyType, EndLoopType DEF MarkCapped, Refused
<1> PICK n \in Locals : Become(p, n) /\ n \in {Refused(p, r), Failed(p, r, "unavailable")}
  BY <1>1, LandedCases DEF IInv
<1>2. TypeOK'
  <2>1. faults' \in 0 .. MaxFaults
    BY <1>1, LandedCases DEF IInv
  <2>2. capped' \in [Days -> BOOLEAN]
    BY DEF IInv, TypeOK, MarkCapped
  <2> QED
    BY <2>1, <2>2 DEF IInv, TypeOK, Become, MarkCapped, envVars, spoolVars, genVars, obsVars
<1>3. Grows /\ SpoolOK'
  BY GrowsQuiet DEF MarkCapped, spoolVars, obsVars
<1>4. LocalsOK(p, r)'
  BY <1>2, <1>3, LocalsKept DEF IInv
<1>5. LocalsOK(p, Failed(p, r, "unavailable"))'
  BY <1>1, <1>4, FailedOK DEF Recording
<1>6. LocalsOK(p, Refused(p, r))'
  <2>1. CASE p \in Calls
    BY <2>1, ReplyOK DEF Refused
  <2>2. CASE p \notin Calls
    BY <1>4, <2>2, EndLoopOK DEF Refused, Procs, LocalsOK
  <2> QED BY <2>1, <2>2
<1> QED
  BY <1>2, <1>3, <1>5, <1>6, Assemble DEF MarkCapped, obsVars

LEMMA StatementFailsInv ==
  ASSUME IInv, NEW p \in Procs, StatementFails(p)
  PROVE  IInv'
<1> PICK r \in Locals : r = rec[p]
  BY DEF IInv, TypeOK
<1> PICK kind : Refuses(p, kind) /\ Become(p, Failed(p, r, kind))
  BY DEF StatementFails
<1>1. Failed(p, r, kind) \in Locals /\ r.pc \in Recording \cup {"exists"}
  BY FailedType DEF StatementFails, Recording
<1>2. TypeOK'
  <2>1. faults' \in 0 .. MaxFaults
    BY FaultType DEF Refuses, IInv, TypeOK
  <2> QED
    BY <1>1, <2>1 DEF IInv, TypeOK, Become, StatementFails, envVars, d1Vars, spoolVars, genVars, obsVars
<1>3. Grows /\ SpoolOK'
  BY GrowsQuiet DEF StatementFails, d1Vars, spoolVars, obsVars
<1>4. LocalsOK(p, r)'
  BY <1>2, <1>3, LocalsKept DEF IInv
<1>5. LocalsOK(p, Failed(p, r, kind))'
  BY <1>1, <1>4, FailedOK
<1> QED
  BY <1>1, <1>2, <1>3, <1>5, Assemble DEF StatementFails, obsVars

\* recordSignals returned: its rows are in D1, so the route may answer success
\* and the drain may acknowledge the row.
LEMMA ReturnedOK ==
  ASSUME NEW p \in Procs, NEW r \in Locals, LocalsOK(p, r)', r.pc = "count"
  PROVE  Returned(p, r) \in Locals /\ LocalsOK(p, Returned(p, r))'
<1>1. CASE p \in Calls
  <2>1. Returned(p, r) = Reply(r, "ok")
    BY <1>1 DEF Returned
  <2>2. \A k \in DOMAIN r.rows : r.rows[k] \in (Recorded \cup Spooled)'
    BY DEF LocalsOK, BatchOK
  <2> QED BY <1>1, <2>1, <2>2, ReplyType, ReplyOK
<1>2. CASE p \notin Calls
  <2>1. p \in Drains /\ Returned(p, r) = Advance(MarkDone(r))
    BY <1>2 DEF Returned, Procs
  <2>2. r.todo # {} /\ r.rows = <<Oldest(r.todo).row>>
    BY <2>1 DEF LocalsOK, RoleOK, Recording
  <2>3. Oldest(r.todo).row \in Recorded'
    <3>1. r.rows[1] \in Recorded'
      BY <2>2 DEF LocalsOK, BatchOK
    <3> QED BY <2>2, <3>1
  <2>4. /\ MarkDone(r) \in Locals
        /\ TakenOK(MarkDone(r).todo)'
        /\ DoneOK(MarkDone(r).done)'
    BY <2>2, <2>3, MarkDoneOK DEF LocalsOK
  <2> QED BY <2>1, <2>4, AdvanceType, AdvanceOK
<1> QED BY <1>1, <1>2

LEMMA CountRowsInv ==
  ASSUME IInv, NEW p \in Procs, CountRows(p)
  PROVE  IInv'
<1> PICK r \in Locals : r = rec[p]
  BY DEF IInv, TypeOK
<1>1. r.pc = "count" /\ Landed(p, Returned(p, r))
  BY DEF CountRows
<1>2. Grows /\ SpoolOK'
  BY GrowsQuiet DEF CountRows, spoolVars, obsVars
<1>3. nextId' = nextId
  BY DEF CountRows, spoolVars
<1>4. LocalsOK(p, r)'
  BY DEF CountRows, IInv, spoolVars, obsVars, LocalsOK, BatchOK, TakenOK, DoneOK, RoleOK, Recorded, Spooled
<1>5. Returned(p, r) \in Locals /\ LocalsOK(p, Returned(p, r))'
  BY <1>1, <1>4, ReturnedOK
<1> PICK n \in Locals : Become(p, n) /\ n \in {Returned(p, r), Failed(p, r, "unavailable")}
  BY <1>1, <1>5, LandedCases DEF IInv
<1>6. TypeOK'
  <2>1. faults' \in 0 .. MaxFaults
    BY <1>1, <1>5, LandedCases DEF IInv
  <2>2. written' \in [Days -> Nat]
    <3>1. r.inserted \in Nat /\ r.bills \in Days
      BY DEF Locals
    <3>2. written[r.bills] + r.inserted \in Nat
      BY <3>1 DEF IInv, TypeOK
    <3> QED BY <3>2 DEF IInv, TypeOK, CountRows
  <2> QED
    BY <2>1, <2>2 DEF IInv, TypeOK, Become, CountRows, envVars, spoolVars, genVars, obsVars
<1>7. LocalsOK(p, Failed(p, r, "unavailable"))'
  BY <1>1, <1>4, FailedOK DEF Recording
<1> QED
  BY <1>2, <1>5, <1>6, <1>7, Assemble DEF CountRows, obsVars

\* A record call starts with a batch that was offered on the day it is filed under.
LEMMA FlushInv ==
  ASSUME IInv, NEW c \in Calls, Flush(c)
  PROVE  IInv'
<1> PICK batch \in Seq(Signals) : batch = held
  BY DEF IInv, TypeOK
<1> PICK today \in Days : today = day
  BY DEF IInv, TypeOK
<1>1. /\ batch # <<>> /\ held' = <<>> /\ waiting' = c
      /\ called' = [s \in Signals |->
                      IF s \in ToSet(batch) THEN called[s] \cup {today} ELSE called[s]]
      /\ Become(c, Begin(Idle, batch, today))
      /\ UNCHANGED <<day, d1, faults, stamp, written, capped, spool, nextId,
                    generated, accepted>>
  BY DEF Flush, envVars, d1Vars, spoolVars
<1> PICK n \in Locals : /\ n = Begin(Idle, batch, today)
                        /\ n.pc = "budget" /\ n.rows = batch /\ n.i = 1 /\ n.at = today
                        /\ n.todo = {} /\ n.done = {}
  <2>1. Begin(Idle, batch, today) \in Locals
    BY IdleType, BeginType DEF IInv, TypeOK
  <2> QED BY <2>1 DEF Begin, Idle
<1>2. c \in Procs /\ c \notin Drains /\ Become(c, n)
  BY <1>1, PipelineAssumption DEF Procs
<1>3. TypeOK'
  <2>1. called' \in [Signals -> SUBSET Days]
    BY <1>1 DEF IInv, TypeOK
  <2>2. held' \in Seq(Signals)
    BY <1>1
  <2> QED BY <1>1, <1>2, <2>1, <2>2 DEF IInv, TypeOK, Become
<1>4. Grows /\ SpoolOK'
  <2>1. \A s \in Signals : called[s] \subseteq called'[s]
    BY <1>1
  <2> QED BY <1>1, <2>1 DEF IInv, Grows, SpoolOK, TypeOK, Recorded, Spooled, Item
<1>5. LocalsOK(c, n)'
  <2>1. \A k \in DOMAIN batch : today \in called'[batch[k]]
    <3> TAKE k \in DOMAIN batch
    <3>1. batch[k] \in Signals /\ batch[k] \in ToSet(batch)
      BY DEF ToSet
    <3> QED BY <1>1, <3>1
  <2> QED
    BY <1>1, <1>2, <2>1 DEF LocalsOK, BatchOK, RoleOK, TakenOK, DoneOK, Recording
<1> QED
  BY <1>1, <1>2, <1>3, <1>4, <1>5, Assemble

\* The route answers success only for rows the hub has.
LEMMA AnswerInv ==
  ASSUME IInv, NEW c \in Calls, Answer(c)
  PROVE  IInv'
<1> PICK r \in Locals : r = rec[c]
  BY DEF IInv, TypeOK, Procs
<1>1. /\ r.pc = "answer" /\ Become(c, Idle)
      /\ accepted' = IF r.answer = "ok" THEN accepted \cup ToSet(r.rows) ELSE accepted
      /\ UNCHANGED <<day, d1, faults, stamp, written, capped, spool, nextId,
                    generated, called>>
  BY DEF Answer, envVars, d1Vars, spoolVars
<1>2. c \in Procs
  BY DEF Procs
<1>3. TypeOK'
  <2>1. held' \in Seq(Signals) /\ waiting' \in Calls \cup {NoCall}
    BY PutBackType DEF Answer, IInv, TypeOK
  <2>2. accepted' \subseteq Signals
    BY <1>1 DEF IInv, TypeOK, Locals, ToSet
  <2> QED BY <1>1, <1>2, <2>1, <2>2, IdleType DEF IInv, TypeOK, Become
<1>4. Grows /\ SpoolOK'
  BY <1>1, GrowsQuiet
<1>5. NoLoss'
  <2>1. r.answer = "ok" => ToSet(r.rows) \subseteq Recorded \cup Spooled
    BY <1>1, <1>2 DEF IInv, LocalsOK, BatchOK, ToSet
  <2> QED BY <1>1, <1>4, <2>1 DEF IInv, NoLoss, Grows
<1>6. ASSUME NEW q \in Procs
      PROVE  LocalsOK(q, rec[q])'
  <2>1. CASE q = c
    <3>1. rec'[q] = Idle
      BY <1>1, <2>1 DEF Become, IInv, TypeOK
    <3> QED BY <3>1, IdleOK
  <2>2. CASE q # c
    <3> PICK x \in Locals : x = rec[q]
      BY DEF IInv, TypeOK
    <3>1. rec'[q] = x
      BY <1>1, <2>2 DEF Become, IInv, TypeOK
    <3>2. LocalsOK(q, x)'
      BY <1>3, <1>4, LocalsKept DEF IInv
    <3> QED BY <3>1, <3>2
  <2> QED BY <2>1, <2>2
<1> QED
  BY <1>3, <1>4, <1>5, <1>6 DEF IInv

\* One row more is in D1; the stamp of a row that was there is left alone.
LEMMA InsertRowInv ==
  ASSUME IInv, NEW p \in Procs, InsertRow(p)
  PROVE  IInv'
<1> PICK r \in Locals : r = rec[p]
  BY DEF IInv, TypeOK
<1> DEFINE s == r.rows[r.i]
<1> PICK inserted \in Nat : inserted = CountLanded(r.inserted, stamp[s] = NotRecorded)
  BY DEF CountLanded, Locals
<1> PICK pc \in {"count", "insert"} : pc = IF r.i = Len(r.rows) THEN "count" ELSE "insert"
  OBVIOUS
<1> PICK i \in Nat \ {0} : i = r.i + 1
  BY DEF Locals
<1> PICK n \in Locals :
       /\ n = [r EXCEPT !.pc = pc, !.i = i, !.inserted = inserted]
       /\ n.pc = pc /\ n.rows = r.rows /\ n.at = r.at /\ n.i = i
       /\ n.todo = r.todo /\ n.done = r.done
  <2>1. pc \in PCs
    BY DEF PCs
  <2>2. [r EXCEPT !.pc = pc, !.i = i, !.inserted = inserted] \in Locals
    BY <2>1, PassedRowType, Zenon
  <2> QED BY <2>2 DEF Locals
<1>1. /\ r.pc = "insert" /\ r.i \in Nat \ {0} /\ r.i <= Len(r.rows)
      /\ r.rows \in Seq(Signals) /\ r.at \in Days
  BY DEF InsertRow, IInv, LocalsOK, BatchOK, Locals
<1>2. s \in Signals
  BY <1>1
<1>3. /\ stamp' = IF stamp[s] = NotRecorded THEN [stamp EXCEPT ![s] = r.at] ELSE stamp
      /\ UNCHANGED <<day, d1, written, capped, spool, nextId, held, waiting,
                    generated, called, accepted>>
  BY DEF InsertRow, envVars, spoolVars, genVars, obsVars
<1>4. Landed(p, n)
  BY DEF InsertRow
<1> PICK m \in Locals : Become(p, m) /\ m \in {n, Failed(p, r, "unavailable")}
  BY <1>4, LandedCases DEF IInv
<1>5. TypeOK'
  <2>1. faults' \in 0 .. MaxFaults
    BY <1>4, LandedCases DEF IInv
  <2>2. stamp' \in [Signals -> Days \cup {NotRecorded}]
    BY <1>1, <1>2, <1>3 DEF IInv, TypeOK
  <2> QED BY <1>3, <2>1, <2>2 DEF IInv, TypeOK, Become
<1>6. /\ Recorded' = Recorded \cup {s}
      /\ Spooled' = Spooled
  <2>1. \A x \in Days : x # NotRecorded
    BY DEF Days, NotRecorded
  <2> HIDE DEF s
  <2> QED BY <1>1, <1>2, <1>3, <2>1 DEF IInv, TypeOK, Recorded, Spooled
<1>7. Grows /\ SpoolOK'
  <2> HIDE DEF s
  <2> QED BY <1>3, <1>6 DEF IInv, TypeOK, Grows, SpoolOK, Item
<1>8. LocalsOK(p, r)'
  BY <1>5, <1>7, LocalsKept DEF IInv
<1>9. LocalsOK(p, Failed(p, r, "unavailable"))'
  BY <1>1, <1>8, FailedOK DEF Recording
<1>10. LocalsOK(p, n)'
  <2>1. \A k \in 1 .. r.i : r.rows[k] \in Recorded'
    <3> TAKE k \in 1 .. r.i
    <3>1. CASE k = r.i
      BY <1>6, <3>1
    <3>2. CASE k # r.i
      BY <1>1, <1>8, <3>2 DEF LocalsOK, BatchOK
    <3> QED BY <3>1, <3>2
  <2>2. n.i - 1 = r.i /\ DOMAIN r.rows = 1 .. Len(r.rows) /\ Len(r.rows) \in Nat
    BY <1>1
  <2>3. /\ n.pc = "count" => \A k \in DOMAIN r.rows : r.rows[k] \in Recorded'
        /\ n.pc = "insert" => n.i <= Len(r.rows)
    BY <1>1, <2>1, <2>2
  <2>4. \A k \in 1 .. n.i - 1 : n.rows[k] \in Recorded'
    BY <2>1, <2>2
  <2>5. BatchOK(n)'
    BY <1>1, <1>8, <2>3, <2>4 DEF LocalsOK, BatchOK, Recording
  <2> QED
    BY <1>1, <1>8, <2>5 DEF LocalsOK, RoleOK, Recording
<1> QED
  BY <1>3, <1>5, <1>7, <1>9, <1>10, Assemble

\* The batch is in the spool before the route answers success.
LEMMA PutInv ==
  ASSUME IInv, NEW c \in Calls, Put(c)
  PROVE  IInv'
<1> PICK r \in Locals : r = rec[c]
  BY DEF IInv, TypeOK, Procs
<1>1. /\ r.pc = "put"
      /\ spool' = spool \cup NewItems(r)
      /\ nextId' = nextId + Len(r.rows)
      /\ UNCHANGED <<day, d1, stamp, written, capped, held, waiting, generated,
                    called, accepted>>
  BY DEF Put, envVars, d1Vars, genVars, obsVars
<1> PICK a \in {"ok", "error"} : Become(c, Reply(r, a))
  BY DEF Put
<1>2. faults' \in 0 .. MaxFaults
  BY FaultType DEF Put, IInv, TypeOK
<1>3. c \in Procs /\ Reply(r, a) \in Locals
  BY ReplyType DEF Procs
<1>4. r.rows \in Seq(Signals) /\ r.at \in Days /\ nextId \in Nat \ {0}
  BY DEF Locals, IInv, TypeOK
<1>5. ASSUME NEW x \in NewItems(r)
      PROVE  /\ x \in Item
             /\ \E k \in DOMAIN r.rows : x.id = nextId + k - 1 /\ x.row = r.rows[k]
             /\ x.at = r.at /\ x.id >= nextId /\ x.id < nextId'
  <2> PICK k \in DOMAIN r.rows :
        x = [id |-> nextId + k - 1, at |-> r.at, row |-> r.rows[k], parked |-> FALSE]
    BY DEF NewItems
  <2>1. k \in 1 .. Len(r.rows) /\ Len(r.rows) \in Nat /\ r.rows[k] \in Signals
    BY <1>4
  <2>2. nextId + k - 1 \in Nat /\ nextId + k - 1 >= nextId /\ nextId + k - 1 < nextId'
    BY <1>1, <1>4, <2>1
  <2> QED BY <1>4, <2>1, <2>2 DEF Item
<1>6. TypeOK'
  <2>1. nextId' \in Nat \ {0}
    BY <1>1, <1>4
  <2>2. spool' \subseteq Item
    BY <1>1, <1>5 DEF IInv, TypeOK
  <2> QED BY <1>1, <1>2, <1>3, <2>1, <2>2 DEF IInv, TypeOK, Become
<1>7. Recorded' = Recorded /\ Spooled \subseteq Spooled'
  BY <1>1 DEF Recorded, Spooled
<1>8. Grows
  <2>1. nextId <= nextId'
    BY <1>1, <1>4
  <2> QED BY <1>1, <1>5, <1>7, <2>1 DEF Grows
<1>9. SpoolOK'
  <2>1. \A x \in spool : x.id \in Nat /\ x.id < nextId /\ x.at \in called[x.row]
    BY DEF IInv, TypeOK, SpoolOK, Item
  <2>2. ASSUME NEW x \in spool'
        PROVE  x.id < nextId' /\ x.at \in called'[x.row]
    <3>1. CASE x \in spool
      BY <1>1, <1>4, <2>1, <3>1
    <3>2. CASE x \in NewItems(r)
      <4>1. \A k \in DOMAIN r.rows : r.at \in called[r.rows[k]]
        BY <1>1, <1>3 DEF IInv, LocalsOK, BatchOK
      <4> QED BY <1>1, <1>5, <3>2, <4>1
    <3> QED BY <1>1, <3>1, <3>2
  <2>3. ASSUME NEW x \in spool', NEW y \in spool', x.id = y.id
        PROVE  x.row = y.row
    <3>1. CASE x \in spool /\ y \in spool
      BY <2>3, <3>1 DEF IInv, SpoolOK
    <3>2. CASE x \in spool /\ y \in NewItems(r)
      BY <1>4, <1>5, <2>1, <2>3, <3>2
    <3>3. CASE x \in NewItems(r) /\ y \in spool
      BY <1>4, <1>5, <2>1, <2>3, <3>3
    <3>4. CASE x \in NewItems(r) /\ y \in NewItems(r)
      <4>1. PICK j \in DOMAIN r.rows : x.id = nextId + j - 1 /\ x.row = r.rows[j]
        BY <1>5, <3>4
      <4>2. PICK k \in DOMAIN r.rows : y.id = nextId + k - 1 /\ y.row = r.rows[k]
        BY <1>5, <3>4
      <4>3. j \in Int /\ k \in Int
        BY <1>4
      <4>4. j = k
        <5>1. nextId + j - 1 = nextId + k - 1
          BY <2>3, <4>1, <4>2
        <5>2. nextId \in Int
          BY <1>4
        <5> QED BY <4>3, <5>1, <5>2
      <4> QED BY <4>1, <4>2, <4>4
    <3> QED BY <1>1, <3>1, <3>2, <3>3, <3>4
  <2> QED BY <2>2, <2>3 DEF SpoolOK
<1>10. LocalsOK(c, Reply(r, a))'
  <2>1. \A k \in DOMAIN r.rows : r.rows[k] \in Spooled'
    <3> TAKE k \in DOMAIN r.rows
    <3> DEFINE x == [id |-> nextId + k - 1, at |-> r.at, row |-> r.rows[k], parked |-> FALSE]
    <3>1. x \in spool'
      BY <1>1 DEF NewItems
    <3>2. x.row = r.rows[k]
      OBVIOUS
    <3> HIDE DEF x
    <3> PICK z \in spool' : z.row = r.rows[k]
      BY <3>1, <3>2
    <3> QED BY DEF Spooled
  <2> QED BY <2>1, ReplyOK
<1> QED
  BY <1>1, <1>3, <1>6, <1>8, <1>9, <1>10, Assemble

LEMMA PutFailsInv ==
  ASSUME IInv, NEW c \in Calls, PutFails(c)
  PROVE  IInv'
<1> PICK r \in Locals : r = rec[c]
  BY DEF IInv, TypeOK, Procs
<1>1. /\ Become(c, Reply(r, "error"))
      /\ UNCHANGED <<day, d1, stamp, written, capped, spool, nextId, held,
                    waiting, generated, called, accepted>>
  BY DEF PutFails, envVars, d1Vars, spoolVars, genVars, obsVars
<1>2. c \in Procs /\ Reply(r, "error") \in Locals
  BY ReplyType DEF Procs
<1>3. TypeOK'
  <2>1. faults' \in 0 .. MaxFaults
    BY FaultType DEF PutFails, IInv
  <2> QED BY <1>1, <1>2, <2>1 DEF IInv, TypeOK, Become
<1>4. Grows /\ SpoolOK'
  BY <1>1, GrowsQuiet
<1>5. LocalsOK(c, Reply(r, "error"))'
  BY ReplyOK
<1> QED
  BY <1>1, <1>2, <1>3, <1>4, <1>5, Assemble

\* What a drain takes is what the spool holds.
LEMMA TakeInv ==
  ASSUME IInv, NEW d \in Drains, Take(d)
  PROVE  IInv'
<1>1. /\ Unparked # {}
      /\ Become(d, [Idle EXCEPT !.pc = "exists", !.todo = TakenItems])
      /\ UNCHANGED <<day, d1, faults, stamp, written, capped, spool, nextId,
                    held, waiting, generated, called, accepted>>
  BY DEF Take, envVars, d1Vars, spoolVars, genVars, obsVars
<1> PICK T \in SUBSET Item : T = TakenItems
  BY DEF TakenItems, Unparked, IInv, TypeOK
<1>2. T \subseteq spool
  BY DEF TakenItems, Unparked
<1>3. T # {}
  <2>1. Unparked \subseteq Item
    BY DEF Unparked, IInv, TypeOK
  <2> DEFINE x == Oldest(Unparked)
  <2>2. x \in Unparked
    BY <1>1, <2>1, OldestIn
  <2>3. \A y \in Unparked : x.id <= y.id
    BY <1>1, <2>1, OldestLeast
  <2>4. {y \in Unparked : y.id < x.id} = {}
    <3> HIDE DEF x
    <3> QED BY <2>1, <2>2, <2>3 DEF Item
  <2>5. Cardinality({y \in Unparked : y.id < x.id}) < DrainBatch
    BY <2>4, FS_EmptySet, PipelineAssumption
  <2> QED BY <2>2, <2>5 DEF TakenItems
<1> PICK n \in Locals : /\ n = [Idle EXCEPT !.pc = "exists", !.todo = T]
                        /\ n.pc = "exists" /\ n.todo = T /\ n.done = {}
  <2>1. [Idle EXCEPT !.pc = "exists", !.todo = T] \in Locals
    BY IdleType DEF Locals, PCs
  <2> QED BY <2>1 DEF Idle
<1>4. d \in Procs /\ d \notin Calls /\ Become(d, n)
  BY <1>1, PipelineAssumption DEF Procs
<1>5. TypeOK'
  BY <1>1, <1>4 DEF IInv, TypeOK, Become
<1>6. Grows /\ SpoolOK'
  BY <1>1, GrowsQuiet
<1>7. LocalsOK(d, n)'
  <2>1. TakenOK(T)'
    BY <1>1, <1>2 DEF TakenOK, IInv, SpoolOK
  <2> QED
    BY <1>3, <1>4, <2>1 DEF LocalsOK, BatchOK, DoneOK, RoleOK, Recording
<1> QED
  BY <1>1, <1>4, <1>5, <1>6, <1>7, Assemble

\* A row that is in D1 already is only acknowledged; another is recorded under
\* the day it was offered on.
LEMMA CheckExistsInv ==
  ASSUME IInv, NEW d \in Drains, CheckExists(d)
  PROVE  IInv'
<1> PICK r \in Locals : r = rec[d]
  BY DEF IInv, TypeOK, Procs
<1> PICK item : item = Oldest(r.todo)
  OBVIOUS
<1>1. /\ r.pc = "exists"
      /\ Become(d, IF item.row \in Recorded THEN Advance(MarkDone(r))
                   ELSE Begin(r, <<item.row>>, item.at))
      /\ UNCHANGED <<day, d1, faults, stamp, written, capped, spool, nextId,
                    held, waiting, generated, called, accepted>>
  BY DEF CheckExists, envVars, d1Vars, spoolVars, genVars, obsVars
<1>2. d \in Procs /\ d \notin Calls
  BY PipelineAssumption DEF Procs
<1>3. r.todo # {} /\ TakenOK(r.todo) /\ DoneOK(r.done)
  BY <1>1, <1>2 DEF IInv, LocalsOK, RoleOK
<1>4. item \in r.todo /\ item \in Item
  BY <1>3, OldestIn DEF Locals
<1>5. Grows /\ SpoolOK'
  BY <1>1, GrowsQuiet
<1>6. TakenOK(r.todo)' /\ DoneOK(r.done)'
  BY <1>1, <1>3 DEF TakenOK, DoneOK, Recorded
<1>7. CASE item.row \in Recorded
  <2>1. Oldest(r.todo).row \in Recorded'
    BY <1>1, <1>7 DEF Recorded
  <2>2. /\ MarkDone(r) \in Locals
        /\ TakenOK(MarkDone(r).todo)'
        /\ DoneOK(MarkDone(r).done)'
    BY <1>3, <1>6, <2>1, MarkDoneOK
  <2> PICK n \in Locals : n = Advance(MarkDone(r))
    BY <2>2, AdvanceType
  <2>3. LocalsOK(d, n)'
    BY <2>2, AdvanceOK
  <2>4. TypeOK'
    BY <1>1, <1>2, <1>7 DEF IInv, TypeOK, Become
  <2> QED
    BY <1>1, <1>2, <1>5, <1>7, <2>3, <2>4, Assemble
<1>8. CASE item.row \notin Recorded
  <2> PICK batch \in Seq(Signals) : batch = <<item.row>> /\ batch # <<>>
    <3>1. item.row \in Signals
      BY <1>4 DEF Item
    <3>2. <<item.row>> \in Seq(Signals) /\ <<item.row>> # <<>>
      BY <3>1
    <3> QED BY <3>2, Zenon
  <2> PICK moment \in Days : moment = item.at
    BY <1>4 DEF Item
  <2> PICK n \in Locals : /\ n = Begin(r, batch, moment)
                          /\ n.pc = "budget" /\ n.rows = batch /\ n.i = 1
                          /\ n.at = moment /\ n.todo = r.todo /\ n.done = r.done
    <3>1. Begin(r, batch, moment) \in Locals
      BY BeginType DEF IInv, TypeOK
    <3> QED BY <3>1 DEF Begin, Locals
  <2>1. Become(d, n)
    BY <1>1, <1>8
  <2>2. TypeOK'
    BY <1>1, <1>2, <2>1 DEF IInv, TypeOK, Become
  <2>3. \A k \in DOMAIN batch : moment \in called'[batch[k]]
    BY <1>1, <1>3, <1>4 DEF TakenOK
  <2>4. LocalsOK(d, n)'
    <3>1. BatchOK(n)'
      BY <2>3 DEF BatchOK, Recording
    <3>2. RoleOK(d, n)'
      BY <1>2, <1>3 DEF RoleOK, Recording
    <3> QED BY <1>6, <3>1, <3>2 DEF LocalsOK
  <2> QED
    BY <1>1, <1>2, <1>5, <2>1, <2>2, <2>4, Assemble
<1> QED BY <1>7, <1>8

\* A row is marked, or the drain ends without acknowledging anything.
LEMMA ParkInv ==
  ASSUME IInv, NEW d \in Drains, Park(d)
  PROVE  IInv'
<1> PICK r \in Locals : r = rec[d]
  BY DEF IInv, TypeOK, Procs
<1> PICK bad : bad = Oldest(r.todo).id
  OBVIOUS
<1>1. /\ r.pc = "park"
      /\ spool' = {[x EXCEPT !.parked = @ \/ x.id = bad] : x \in spool}
      /\ UNCHANGED <<day, d1, stamp, written, capped, nextId, held, waiting,
                    generated, called, accepted>>
  BY DEF Park, envVars, d1Vars, genVars, obsVars
<1>2. d \in Procs /\ d \notin Calls
  BY PipelineAssumption DEF Procs
<1>3. ASSUME NEW x \in spool'
      PROVE  x \in Item /\ \E y \in spool : y.id = x.id /\ y.row = x.row /\ y.at = x.at
  <2> PICK y \in spool : x = [y EXCEPT !.parked = @ \/ y.id = bad]
    BY <1>1
  <2>1. y \in Item
    BY DEF IInv, TypeOK
  <2> QED BY <2>1 DEF Item
<1>4. Recorded' = Recorded /\ Spooled \subseteq Spooled'
  <2>1. ASSUME NEW y \in spool
        PROVE  \E x \in spool' : x.row = y.row
    <3>1. y \in Item
      BY DEF IInv, TypeOK
    <3>2. [y EXCEPT !.parked = @ \/ y.id = bad] \in spool'
      BY <1>1
    <3>3. [y EXCEPT !.parked = @ \/ y.id = bad].row = y.row
      BY <3>1 DEF Item
    <3> QED BY <3>2, <3>3
  <2> QED BY <1>1, <2>1 DEF Recorded, Spooled
<1>5. Grows /\ SpoolOK'
  <2>1. Grows
    <3>1. nextId <= nextId'
      BY <1>1 DEF IInv, TypeOK
    <3>2. \A x \in spool' : \E y \in spool : y.id = x.id /\ y.row = x.row
      BY <1>3
    <3> QED BY <1>1, <1>4, <3>1, <3>2 DEF Grows
  <2>2. SpoolOK'
    BY <1>1, <1>3 DEF IInv, SpoolOK
  <2> QED BY <2>1, <2>2
<1> PICK n \in Locals : Become(d, n) /\ n \in {Advance(r), Idle}
  BY AdvanceType, IdleType DEF Park
<1>6. TypeOK'
  <2>1. faults' \in 0 .. MaxFaults
    BY FaultType DEF Park, IInv, TypeOK
  <2>2. spool' \subseteq Item
    BY <1>3
  <2> QED BY <1>1, <1>2, <2>1, <2>2 DEF IInv, TypeOK, Become
<1>7. LocalsOK(d, r)'
  BY <1>2, <1>5, <1>6, LocalsKept DEF IInv
<1>8. LocalsOK(d, n)'
  BY <1>2, <1>7, AdvanceOK, IdleOK DEF LocalsOK
<1> QED
  BY <1>1, <1>2, <1>5, <1>6, <1>8, Assemble

\* Only rows that are in D1 leave the spool.
LEMMA AckInv ==
  ASSUME IInv, NEW d \in Drains, Ack(d)
  PROVE  IInv'
<1> PICK r \in Locals : r = rec[d]
  BY DEF IInv, TypeOK, Procs
<1>1. /\ spool' = {x \in spool : x.id \notin r.done}
      /\ Become(d, Idle)
      /\ UNCHANGED <<day, d1, faults, stamp, written, capped, nextId, held,
                    waiting, generated, called, accepted>>
  BY DEF Ack, envVars, d1Vars, genVars, obsVars
<1>2. d \in Procs /\ DoneOK(r.done)
  BY DEF Procs, IInv, LocalsOK
<1>3. Recorded' = Recorded
  BY <1>1 DEF Recorded
<1>4. ASSUME NEW x \in spool
      PROVE  x \in spool' \/ x.row \in Recorded
  BY <1>1, <1>2 DEF DoneOK
<1>5. Grows /\ SpoolOK'
  <2>1. Recorded \cup Spooled \subseteq Recorded' \cup Spooled'
    BY <1>3, <1>4 DEF Spooled
  <2>2. Grows
    BY <1>1, <1>3, <2>1 DEF Grows, IInv, TypeOK
  <2>3. SpoolOK'
    BY <1>1 DEF IInv, SpoolOK
  <2> QED BY <2>2, <2>3
<1>6. TypeOK'
  BY <1>1, <1>2, IdleType DEF IInv, TypeOK, Become
<1>7. LocalsOK(d, Idle)'
  BY <1>2, IdleOK
<1> QED
  BY <1>1, <1>2, <1>5, <1>6, <1>7, IdleType, Assemble

LEMMA CrashInv ==
  ASSUME IInv, NEW p \in Procs, Crash(p)
  PROVE  IInv'
<1>1. /\ Become(p, Idle)
      /\ UNCHANGED <<day, d1, stamp, written, capped, spool, nextId,
                    generated, called, accepted>>
  BY DEF Crash, envVars, d1Vars, spoolVars, obsVars
<1>2. TypeOK'
  <2>1. held' \in Seq(Signals) /\ waiting' \in Calls \cup {NoCall}
    BY PutBackType DEF Crash, IInv, TypeOK
  <2>2. faults' \in 0 .. MaxFaults
    BY FaultType DEF Crash, IInv
  <2> QED BY <1>1, <2>1, <2>2, IdleType DEF IInv, TypeOK, Become
<1>3. Grows /\ SpoolOK'
  BY <1>1, GrowsQuiet
<1>4. LocalsOK(p, Idle)'
  BY IdleOK
<1> QED
  BY <1>1, <1>2, <1>3, <1>4, IdleType, Assemble

-------------------------------------------------------------------------------
(* The theorems *)

LEMMA Initially == Init => IInv
<1> SUFFICES ASSUME Init PROVE IInv
  OBVIOUS
<1>1. TypeOK
  <2>1. 0 \in Days /\ 0 \in 0 .. MaxFaults
    BY PipelineAssumption DEF Days
  <2> QED BY <2>1, IdleType DEF Init, TypeOK
<1>2. SpoolOK /\ NoLoss
  BY DEF Init, SpoolOK, NoLoss
<1>3. \A p \in Procs : LocalsOK(p, rec[p])
  BY DEF Init, LocalsOK, Idle, BatchOK, TakenOK, DoneOK, RoleOK, Recording
<1> QED BY <1>1, <1>2, <1>3 DEF IInv

LEMMA Inductive == IInv /\ [Next]_vars => IInv'
<1> SUFFICES ASSUME IInv, [Next]_vars PROVE IInv'
  OBVIOUS
<1>1. ASSUME NEW s \in Signals, Generate(s) PROVE IInv'
  BY <1>1, GenerateInv
<1>2. ASSUME NEW c \in Calls, Flush(c) PROVE IInv'
  BY <1>2, FlushInv
<1>3. ASSUME NEW p \in Procs, RecordStep(p) PROVE IInv'
  BY <1>3, ReadBudgetInv, MarkCappedInv, InsertRowInv, CountRowsInv, StatementFailsInv
     DEF RecordStep
<1>4. ASSUME NEW c \in Calls, Put(c) \/ PutFails(c) \/ Answer(c) PROVE IInv'
  BY <1>4, PutInv, PutFailsInv, AnswerInv
<1>5. ASSUME NEW d \in Drains, Take(d) \/ CheckExists(d) \/ Park(d) \/ Ack(d) PROVE IInv'
  BY <1>5, TakeInv, CheckExistsInv, ParkInv, AckInv
<1>6. ASSUME GiveUp \/ GeneratorCrash PROVE IInv'
  BY <1>6, GiveUpInv, GeneratorCrashInv
<1>7. ASSUME NEW p \in Procs, Crash(p) PROVE IInv'
  BY <1>7, CrashInv
<1>8. ASSUME NEW mode \in {"quota", "down"}, D1Fails(mode) PROVE IInv'
  BY <1>8, D1FailsInv
<1>9. ASSUME D1Recovers \/ Midnight PROVE IInv'
  BY <1>9, D1RecoversInv, MidnightInv
<1>10. CASE UNCHANGED vars
  <2>1. TypeOK'
    BY <1>10 DEF IInv, TypeOK, vars
  <2> QED BY <1>10, <2>1, AssembleQuiet DEF vars
<1> QED
  BY <1>1, <1>2, <1>3, <1>4, <1>5, <1>6, <1>7, <1>8, <1>9, <1>10
  DEF Next, RouteStep, DrainStep, Procs

LEMMA InvariantHolds == Spec => []IInv
BY Initially, Inductive, PTL DEF Spec

\* Every variable keeps its type, whatever fails and in whatever order requests,
\* drains and crashes interleave (index.ts, spool.ts).
THEOREM TypeCorrect == Spec => []TypeOK
<1>1. IInv => TypeOK
  BY DEF IInv
<1> QED BY <1>1, InvariantHolds, PTL

\* A signal the record route answered success for is in D1 or in the spool, for
\* any number of requests, drains, rows, faults and days (index.ts:603-636).
THEOREM NothingLost == Spec => []NoLoss
<1>1. IInv => NoLoss
  BY DEF IInv
<1> QED BY <1>1, InvariantHolds, PTL

-------------------------------------------------------------------------------
(* The write budget *)

\* What a process has inserted and not yet counted on the budget, or never will.
Unbilled == [p \in Procs |-> rec[p].inserted]

\* Every row in D1 is counted at most once, or still waits to be.
BudgetInv == /\ IsFiniteSet(Recorded)
             /\ Total(written, Days) + Total(Unbilled, Procs) <= Cardinality(Recorded)

LEMMA FiniteIndices == IsFiniteSet(Procs) /\ IsFiniteSet(Days)
<1>1. IsFiniteSet(Procs)
  BY PipelineAssumption, FS_Union DEF Procs
<1>2. IsFiniteSet(Days)
  BY PipelineAssumption, FS_Interval DEF Days
<1> QED BY <1>1, <1>2

LEMMA UnbilledType ==
  ASSUME TypeOK
  PROVE  /\ Unbilled \in [Procs -> Int] /\ written \in [Days -> Int]
         /\ Total(Unbilled, Procs) \in Int /\ Total(written, Days) \in Int
<1>1. Unbilled \in [Procs -> Int] /\ written \in [Days -> Int]
  BY DEF Unbilled, TypeOK, Locals
<1>2. Total(Unbilled, Procs) \in Int
  BY <1>1, FiniteIndices, TotalRecursion
<1>3. Total(written, Days) \in Int
  BY <1>1, FiniteIndices, TotalRecursion
<1> QED BY <1>1, <1>2, <1>3

\* Wherever a process goes next, it takes no count along but its own.
LEMMA NothingInserted ==
  ASSUME NEW p, NEW r \in Locals, NEW batch, NEW moment, NEW answer
  PROVE  /\ Idle.inserted = 0 /\ EndLoop(r).inserted = 0 /\ Advance(r).inserted = 0
         /\ Reply(r, answer).inserted = 0 /\ Begin(r, batch, moment).inserted = 0
         /\ Begin(Idle, batch, moment).inserted = 0
         /\ Returned(p, r).inserted = 0 /\ Refused(p, r).inserted = 0
         /\ Advance(MarkDone(r)).inserted = 0
<1>1. Idle.inserted = 0 /\ \A x : EndLoop(x).inserted = 0
  BY DEF Idle, EndLoop
<1>2. \A x : Advance(x).inserted = 0
  BY <1>1 DEF Advance, Idle
<1>3. \A a : Reply(r, a).inserted = 0
  BY DEF Reply, Idle
<1>4. Begin(Idle, batch, moment).inserted = 0
  BY DEF Begin, Idle
<1>5. Begin(r, batch, moment).inserted = 0
  BY DEF Begin, Locals
<1>6. Returned(p, r).inserted = 0 /\ Refused(p, r).inserted = 0
  BY <1>1, <1>2, <1>3 DEF Returned, Refused
<1> QED BY <1>1, <1>2, <1>3, <1>4, <1>5, <1>6

LEMMA FailureInserts ==
  ASSUME NEW p \in Procs, NEW r \in Locals, NEW kind
  PROVE  /\ Failed(p, r, kind).inserted <= r.inserted
         /\ ShouldSpool(kind) => Failed(p, r, kind).inserted = 0
<1> DEFINE f == Failed(p, r, kind)
           put == [Idle EXCEPT !.pc = "put", !.rows = r.rows, !.at = r.at]
           park == [r EXCEPT !.pc = "park"]
<1>1. put.inserted = 0
  BY DEF Idle
<1>2. park.inserted = r.inserted
  BY DEF Locals
<1>3. EndLoop(r).inserted = 0 /\ Reply(r, "error").inserted = 0
  BY NothingInserted
<1>4. ASSUME p \in Calls
      PROVE  /\ f.inserted = 0 \/ f.inserted = r.inserted
             /\ ShouldSpool(kind) => f.inserted = 0
  <2>1. p \notin Drains
    BY <1>4, PipelineAssumption
  <2>2. ShouldSpool(kind) => f = put
    BY <1>4, <2>1, Zenon DEF Failed
  <2>3. ~ShouldSpool(kind) => f = Reply(r, "error")
    BY <1>4, <2>1, Zenon DEF Failed
  <2> QED BY <1>1, <1>3, <2>2, <2>3, Zenon
<1>5. ASSUME p \in Drains
      PROVE  /\ f.inserted = 0 \/ f.inserted = r.inserted
             /\ ShouldSpool(kind) => f.inserted = 0
  <2>1. p \notin Calls
    BY <1>5, PipelineAssumption
  <2>2. ShouldSpool(kind) => f = EndLoop(r)
    BY <1>5, <2>1, Zenon DEF Failed
  <2>3. ~ShouldSpool(kind) => f = park
    BY <1>5, <2>1, Zenon DEF Failed
  <2> QED BY <1>2, <1>3, <2>2, <2>3, Zenon
<1>6. /\ f.inserted = 0 \/ f.inserted = r.inserted
      /\ ShouldSpool(kind) => f.inserted = 0
  BY <1>4, <1>5, Zenon DEF Procs
<1> HIDE DEF f
<1>7. r.inserted \in Nat
  BY DEF Locals
<1> QED BY <1>6, <1>7 DEF f

\* A step that records no row and counts none keeps the budget in order.
LEMMA BudgetKept ==
  ASSUME TypeOK, TypeOK', BudgetInv, UNCHANGED <<stamp, written>>,
         \A p \in Procs : rec'[p].inserted <= rec[p].inserted
  PROVE  BudgetInv'
<1>1. Recorded' = Recorded
  BY DEF Recorded
<1>2. Unbilled \in [Procs -> Int] /\ Total(Unbilled, Procs) \in Int /\ Total(written, Days) \in Int
  BY UnbilledType
<1> DEFINE next == [p \in Procs |-> rec'[p].inserted]
<1>3. next \in [Procs -> Int] /\ \A p \in Procs : next[p] <= Unbilled[p]
  BY DEF TypeOK, Locals, Unbilled
<1>4. Unbilled' = next
  BY DEF Unbilled
<1> HIDE DEF next
<1>5. Total(next, Procs) \in Int /\ Total(next, Procs) <= Total(Unbilled, Procs)
  BY <1>2, <1>3, FiniteIndices, TotalMonotone, TotalRecursion
<1>6. Cardinality(Recorded) \in Int
  BY FS_CardinalityType DEF BudgetInv
<1>7. Total(written, Days) + Total(next, Procs) <= Cardinality(Recorded)
  BY <1>2, <1>5, <1>6 DEF BudgetInv
<1> QED BY <1>1, <1>4, <1>7 DEF BudgetInv

LEMMA BecomesLighter ==
  ASSUME TypeOK, NEW p \in Procs, NEW m \in Locals, Become(p, m), m.inserted <= rec[p].inserted
  PROVE  \A q \in Procs : rec'[q].inserted <= rec[q].inserted
<1> TAKE q \in Procs
<1>1. rec[q].inserted \in Nat
  BY DEF TypeOK, Locals
<1>2. CASE q = p
  BY <1>2 DEF Become, TypeOK
<1>3. CASE q # p
  BY <1>1, <1>3 DEF Become, TypeOK
<1> QED BY <1>2, <1>3

\* Steps of a process that is neither inserting nor counting.
LEMMA StepLighter ==
  ASSUME IInv, IInv', NEW p \in Procs, NEW m, Become(p, m), m.inserted <= rec[p].inserted
  PROVE  \A q \in Procs : rec'[q].inserted <= rec[q].inserted
<1>1. rec'[p] = m /\ rec'[p] \in Locals
  BY DEF IInv, TypeOK, Become
<1> QED BY <1>1, BecomesLighter DEF IInv

LEMMA RecordBudget ==
  ASSUME IInv, IInv', BudgetInv, NEW p \in Procs,
         ReadBudget(p) \/ MarkCapped(p) \/ StatementFails(p)
  PROVE  BudgetInv'
<1> PICK r \in Locals : r = rec[p]
  BY DEF IInv, TypeOK
<1>1. r.inserted \in Nat
  BY DEF Locals
<1>2. UNCHANGED <<stamp, written>>
  BY DEF ReadBudget, MarkCapped, StatementFails, d1Vars
<1>3. \E m : Become(p, m) /\ m.inserted <= r.inserted
  <2>1. CASE ReadBudget(p)
    <3>1. PICK pc : Become(p, [r EXCEPT !.pc = pc])
      BY <2>1 DEF ReadBudget
    <3> DEFINE n == [r EXCEPT !.pc = pc]
    <3>2. Become(p, n) /\ n.inserted = r.inserted
      BY <3>1 DEF Locals
    <3> HIDE DEF n
    <3> QED BY <1>1, <3>2
  <2>2. CASE MarkCapped(p)
    <3>1. Refused(p, r).inserted = 0
      BY NothingInserted
    <3>2. Failed(p, r, "unavailable").inserted <= r.inserted
      BY FailureInserts
    <3>3. Become(p, Refused(p, r)) \/ Become(p, Failed(p, r, "unavailable"))
      BY <2>2 DEF MarkCapped, Landed
    <3> QED BY <1>1, <3>1, <3>2, <3>3
  <2>3. CASE StatementFails(p)
    <3>1. PICK kind : Become(p, Failed(p, r, kind))
      BY <2>3 DEF StatementFails
    <3> QED BY <3>1, FailureInserts
  <2> QED BY <2>1, <2>2, <2>3
<1>4. \A q \in Procs : rec'[q].inserted <= rec[q].inserted
  BY <1>3, StepLighter
<1> QED BY <1>2, <1>4, BudgetKept DEF IInv

LEMMA DrainBudget ==
  ASSUME IInv, IInv', BudgetInv, NEW d \in Drains,
         Take(d) \/ CheckExists(d) \/ Park(d) \/ Ack(d)
  PROVE  BudgetInv'
<1>0. d \in Procs
  BY DEF Procs
<1> PICK r \in Locals : r = rec[d]
  BY <1>0 DEF IInv, TypeOK
<1>1. r.inserted \in Nat
  BY DEF Locals
<1>2. UNCHANGED <<stamp, written>>
  BY DEF Take, CheckExists, Park, Ack, d1Vars
<1>3. \E m : Become(d, m) /\ m.inserted = 0
  <2>1. CASE Take(d)
    <3>1. [Idle EXCEPT !.pc = "exists", !.todo = TakenItems].inserted = 0
      BY DEF Idle
    <3> QED BY <2>1, <3>1 DEF Take
  <2>2. CASE CheckExists(d)
    <3>1. PICK batch, moment : \/ Become(d, Advance(MarkDone(r)))
                               \/ Become(d, Begin(r, batch, moment))
      BY <2>2 DEF CheckExists
    <3> QED BY <3>1, NothingInserted
  <2>3. CASE Park(d)
    <3>1. Become(d, Advance(r)) \/ Become(d, Idle)
      BY <2>3 DEF Park
    <3> QED BY <3>1, NothingInserted
  <2>4. CASE Ack(d)
    BY <2>4, NothingInserted DEF Ack
  <2> QED BY <2>1, <2>2, <2>3, <2>4
<1>4. \A q \in Procs : rec'[q].inserted <= rec[q].inserted
  BY <1>0, <1>1, <1>3, StepLighter
<1> QED BY <1>2, <1>4, BudgetKept DEF IInv

LEMMA RouteBudget ==
  ASSUME IInv, IInv', BudgetInv, NEW c \in Procs,
         Flush(c) \/ Put(c) \/ PutFails(c) \/ Answer(c) \/ Crash(c)
  PROVE  BudgetInv'
<1> PICK r \in Locals : r = rec[c]
  BY DEF IInv, TypeOK
<1>1. r.inserted \in Nat
  BY DEF Locals
<1>2. UNCHANGED <<stamp, written>>
  BY DEF Flush, Put, PutFails, Answer, Crash, d1Vars
<1>3. \E m : Become(c, m) /\ m.inserted = 0
  <2>1. CASE Flush(c)
    <3>1. Become(c, Begin(Idle, held, day))
      BY <2>1 DEF Flush
    <3> QED BY <3>1, NothingInserted
  <2>2. CASE Put(c)
    BY <2>2, NothingInserted DEF Put
  <2>3. CASE PutFails(c)
    BY <2>3, NothingInserted DEF PutFails
  <2>4. CASE Answer(c)
    BY <2>4, NothingInserted DEF Answer
  <2>5. CASE Crash(c)
    BY <2>5, NothingInserted DEF Crash
  <2> QED BY <2>1, <2>2, <2>3, <2>4, <2>5
<1>4. \A q \in Procs : rec'[q].inserted <= rec[q].inserted
  BY <1>1, <1>3, StepLighter
<1> QED BY <1>2, <1>4, BudgetKept DEF IInv

LEMMA OutsideBudget ==
  ASSUME IInv, IInv', BudgetInv, UNCHANGED <<stamp, written, rec>>
  PROVE  BudgetInv'
<1>1. \A q \in Procs : rec'[q].inserted <= rec[q].inserted
  BY DEF IInv, TypeOK, Locals
<1> QED BY <1>1, BudgetKept DEF IInv

\* A new row is one more in D1 and one more to be counted; a row that was there,
\* and an insert whose answer is lost, are nothing to be counted.
LEMMA InsertBudget ==
  ASSUME IInv, IInv', BudgetInv, NEW p \in Procs, InsertRow(p)
  PROVE  BudgetInv'
<1> PICK r \in Locals : r = rec[p]
  BY DEF IInv, TypeOK
<1> DEFINE s == r.rows[r.i]
           new == stamp[s] = NotRecorded
<1>1. /\ stamp' = IF new THEN [stamp EXCEPT ![s] = r.at] ELSE stamp
      /\ UNCHANGED written
      /\ r.inserted \in Nat /\ r.at \in Days
  BY DEF InsertRow, Locals
<1>2. s \in Signals
  BY DEF InsertRow, IInv, LocalsOK, BatchOK, Locals
<1>3. PICK m : /\ Become(p, m)
               /\ m.inserted <= r.inserted \/ (new /\ m.inserted = r.inserted + 1)
  <2> DEFINE n == [r EXCEPT !.pc = IF r.i = Len(r.rows) THEN "count" ELSE "insert",
                            !.i = r.i + 1, !.inserted = CountLanded(@, new)]
  <2>1. Become(p, n) \/ Become(p, Failed(p, r, "unavailable"))
    BY DEF InsertRow, Landed
  <2>2. Failed(p, r, "unavailable").inserted <= r.inserted
    BY FailureInserts
  <2>3. n.inserted = CountLanded(r.inserted, new)
    BY DEF Locals
  <2>4. n.inserted <= r.inserted \/ (new /\ n.inserted = r.inserted + 1)
    BY <1>1, <2>3 DEF CountLanded
  <2> HIDE DEF n
  <2> QED BY <2>1, <2>2, <2>4
<1> HIDE DEF s
<1>4. CASE ~new
  <2>1. UNCHANGED stamp
    BY <1>1, <1>4
  <2>2. \A q \in Procs : rec'[q].inserted <= rec[q].inserted
    BY <1>3, <1>4, StepLighter
  <2> QED BY <1>1, <2>1, <2>2, BudgetKept DEF IInv
<1>5. CASE new
  <2>1. Recorded' = Recorded \cup {s} /\ s \notin Recorded
    <3>1. \A x \in Days : x # NotRecorded
      BY DEF Days, NotRecorded
    <3> QED BY <1>1, <1>2, <1>5, <3>1 DEF IInv, TypeOK, Recorded
  <2>2. IsFiniteSet(Recorded') /\ Cardinality(Recorded') = Cardinality(Recorded) + 1
    BY <2>1, FS_AddElement DEF BudgetInv
  <2>3. Cardinality(Recorded) \in Nat
    BY FS_CardinalityType DEF BudgetInv
  <2>4. /\ Unbilled \in [Procs -> Int] /\ Total(Unbilled, Procs) \in Int
        /\ Total(written, Days) \in Int /\ Unbilled[p] = r.inserted
    BY UnbilledType DEF IInv, Unbilled
  <2> DEFINE top == [Unbilled EXCEPT ![p] = r.inserted + 1]
             next == [q \in Procs |-> rec'[q].inserted]
  <2>5. top \in [Procs -> Int] /\ Total(top, Procs) = Total(Unbilled, Procs) + 1
    <3>1. r.inserted + 1 \in Int /\ r.inserted \in Int
      BY <1>1
    <3>2. top \in [Procs -> Int]
      BY <2>4, <3>1
    <3>3. top[p] = r.inserted + 1 /\ \A q \in Procs \ {p} : top[q] = Unbilled[q]
      BY <2>4
    <3> HIDE DEF top
    <3>4. Total(top, Procs) = Total(Unbilled, Procs) - Unbilled[p] + top[p]
      BY <2>4, <3>2, <3>3, FiniteIndices, TotalChange
    <3> QED BY <2>4, <3>1, <3>2, <3>3, <3>4
  <2>6. next \in [Procs -> Int] /\ \A q \in Procs : next[q] <= top[q]
    <3>1. next \in [Procs -> Int]
      BY DEF IInv, TypeOK, Locals
    <3>2. ASSUME NEW q \in Procs PROVE next[q] <= top[q]
      <4>1. rec[q].inserted \in Nat
        BY DEF IInv, TypeOK, Locals
      <4>2. CASE q = p
        <5>1. next[q] = m.inserted /\ m.inserted <= r.inserted + 1
          BY <1>1, <1>3, <3>1, <4>2 DEF Become, IInv, TypeOK
        <5> QED BY <2>4, <4>2, <5>1
      <4>3. CASE q # p
        <5>1. next[q] = rec[q].inserted
          BY <1>3, <4>3 DEF Become, IInv, TypeOK
        <5> QED BY <2>4, <4>1, <4>3, <5>1 DEF Unbilled
      <4> QED BY <4>2, <4>3
    <3> QED BY <3>1, <3>2
  <2>7. Unbilled' = next
    BY DEF Unbilled
  <2> HIDE DEF top, next
  <2>8. Total(next, Procs) \in Int /\ Total(next, Procs) <= Total(top, Procs)
    BY <2>5, <2>6, FiniteIndices, TotalMonotone, TotalRecursion
  <2>9. Total(written, Days) + Total(next, Procs) <= Cardinality(Recorded')
    BY <2>2, <2>3, <2>4, <2>5, <2>8 DEF BudgetInv
  <2> QED BY <1>1, <2>2, <2>7, <2>9 DEF BudgetInv
<1> QED BY <1>4, <1>5

\* What is counted leaves the process: the answer of the count may be lost, the
\* process never counts it again.
LEMMA CountBudget ==
  ASSUME IInv, IInv', BudgetInv, NEW p \in Procs, CountRows(p)
  PROVE  BudgetInv'
<1> PICK r \in Locals : r = rec[p]
  BY DEF IInv, TypeOK
<1>1. /\ written' = [written EXCEPT ![r.bills] = @ + r.inserted]
      /\ UNCHANGED stamp
      /\ r.inserted \in Int /\ r.bills \in Days
  BY DEF CountRows, Locals
<1>2. PICK m : Become(p, m) /\ m.inserted = 0
  <2>1. Become(p, Returned(p, r)) \/ Become(p, Failed(p, r, "unavailable"))
    BY DEF CountRows, Landed
  <2>2. Failed(p, r, "unavailable").inserted = 0
    BY FailureInserts DEF ShouldSpool
  <2>3. Returned(p, r).inserted = 0
    BY NothingInserted
  <2> QED BY <2>1, <2>2, <2>3
<1>3. /\ Unbilled \in [Procs -> Int] /\ Total(Unbilled, Procs) \in Int
      /\ written \in [Days -> Int] /\ Total(written, Days) \in Int
      /\ Unbilled[p] = r.inserted
  BY UnbilledType DEF IInv, Unbilled
<1>4. Unbilled' = [Unbilled EXCEPT ![p] = 0]
  BY <1>2 DEF Unbilled, Become, IInv, TypeOK
<1> DEFINE unbilled == [Unbilled EXCEPT ![p] = 0]
           counted == [written EXCEPT ![r.bills] = @ + r.inserted]
<1>5. /\ unbilled \in [Procs -> Int] /\ unbilled[p] = 0
      /\ \A q \in Procs \ {p} : unbilled[q] = Unbilled[q]
  BY <1>3
<1>6. /\ counted \in [Days -> Int] /\ counted[r.bills] = written[r.bills] + r.inserted
      /\ \A d \in Days \ {r.bills} : counted[d] = written[d]
      /\ written[r.bills] \in Int
  BY <1>1, <1>3
<1>7. Unbilled' = unbilled /\ written' = counted
  BY <1>1, <1>4
<1> HIDE DEF unbilled, counted
<1>8. /\ Total(unbilled, Procs) = Total(Unbilled, Procs) - Unbilled[p] + unbilled[p]
      /\ Total(counted, Days) = Total(written, Days) - written[r.bills] + counted[r.bills]
  <2>1. Total(unbilled, Procs) = Total(Unbilled, Procs) - Unbilled[p] + unbilled[p]
    BY <1>3, <1>5, FiniteIndices, TotalChange
  <2>2. Total(counted, Days) = Total(written, Days) - written[r.bills] + counted[r.bills]
    BY <1>1, <1>3, <1>6, FiniteIndices, TotalChange
  <2> QED BY <2>1, <2>2
<1>9. Total(written', Days) + Total(Unbilled', Procs) = Total(written, Days) + Total(Unbilled, Procs)
  <2>1. Total(Unbilled', Procs) = Total(Unbilled, Procs) - r.inserted
    BY <1>1, <1>3, <1>5, <1>7, <1>8
  <2>2. Total(counted, Days) = Total(written, Days) - written[r.bills] + (written[r.bills] + r.inserted)
    BY <1>6, <1>8
  <2>3. Total(written', Days) = Total(written, Days) + r.inserted
    <3> DEFINE before == written[r.bills]
    <3>1. before \in Int /\ r.inserted \in Int /\ Total(written, Days) \in Int
      BY <1>1, <1>3, <1>6
    <3> HIDE DEF before
    <3>2. Total(counted, Days) = Total(written, Days) - before + (before + r.inserted)
      BY <2>2 DEF before
    <3>3. Total(counted, Days) = Total(written, Days) + r.inserted
      BY <3>1, <3>2
    <3> QED BY <1>7, <3>3
  <2> QED BY <1>1, <1>3, <2>1, <2>3
<1>10. Recorded' = Recorded
  BY <1>1 DEF Recorded
<1> QED BY <1>9, <1>10 DEF BudgetInv

LEMMA BudgetStarts == Init => BudgetInv
<1> SUFFICES ASSUME Init PROVE BudgetInv
  OBVIOUS
<1>1. Recorded = {}
  BY DEF Init, Recorded
<1>2. TypeOK
  BY Initially DEF IInv
<1>3. Total(written, Days) = 0
  BY <1>2, UnbilledType, FiniteIndices, TotalZero DEF Init
<1>4. Total(Unbilled, Procs) = 0
  <2>1. \A p \in Procs : Unbilled[p] = 0
    BY DEF Init, Unbilled, Idle
  <2> QED BY <1>2, <2>1, UnbilledType, FiniteIndices, TotalZero
<1> QED BY <1>1, <1>3, <1>4, FS_EmptySet DEF BudgetInv

LEMMA BudgetStep == IInv /\ BudgetInv /\ [Next]_vars => BudgetInv'
<1> SUFFICES ASSUME IInv, BudgetInv, [Next]_vars PROVE BudgetInv'
  OBVIOUS
<1>0. IInv'
  BY Inductive
<1>1. ASSUME NEW p \in Procs, RecordStep(p) PROVE BudgetInv'
  BY <1>0, <1>1, RecordBudget, InsertBudget, CountBudget DEF RecordStep
<1>2. ASSUME NEW d \in Drains, Take(d) \/ CheckExists(d) \/ Park(d) \/ Ack(d) PROVE BudgetInv'
  BY <1>0, <1>2, DrainBudget
<1>3. ASSUME NEW c \in Procs, Flush(c) \/ Put(c) \/ PutFails(c) \/ Answer(c) \/ Crash(c)
      PROVE  BudgetInv'
  BY <1>0, <1>3, RouteBudget
<1>4. ASSUME \/ \E s \in Signals : Generate(s)
             \/ GiveUp \/ GeneratorCrash \/ D1Recovers \/ Midnight
             \/ \E mode \in {"quota", "down"} : D1Fails(mode)
             \/ UNCHANGED vars
      PROVE  BudgetInv'
  <2>1. UNCHANGED <<stamp, written, rec>>
    BY <1>4 DEF Generate, GiveUp, GeneratorCrash, D1Recovers, Midnight, D1Fails, d1Vars, vars
  <2> QED BY <1>0, <2>1, OutsideBudget
<1> QED
  BY <1>1, <1>2, <1>3, <1>4 DEF Next, RouteStep, DrainStep, Procs

\* The budget never counts a row that is not there, for any number of requests,
\* drains, days and faults: each row lands once and is counted at most once,
\* however often a batch is retried or replayed (index.ts:357-373).
THEOREM BudgetIsSound == Spec => []BudgetNeverOvercounts
<1>1. IInv /\ BudgetInv => BudgetNeverOvercounts
  <2> SUFFICES ASSUME IInv, BudgetInv PROVE BudgetNeverOvercounts
    OBVIOUS
  <2>1. Total(Unbilled, Procs) \in Int /\ Total(written, Days) \in Int /\ Unbilled \in [Procs -> Int]
    BY UnbilledType DEF IInv
  <2>2. Total(Unbilled, Procs) >= 0
    <3> DEFINE zero == [p \in Procs |-> 0]
    <3>1. zero \in [Procs -> Int] /\ \A p \in Procs : zero[p] = 0 /\ zero[p] <= Unbilled[p]
      BY DEF IInv, TypeOK, Locals, Unbilled
    <3> HIDE DEF zero
    <3>2. Total(zero, Procs) = 0
      BY <3>1, FiniteIndices, TotalZero
    <3>3. Total(zero, Procs) <= Total(Unbilled, Procs)
      BY <2>1, <3>1, FiniteIndices, TotalMonotone
    <3> QED BY <2>1, <3>2, <3>3
  <2>3. Cardinality(Recorded) \in Nat
    BY FS_CardinalityType DEF BudgetInv
  <2>4. Total(written, Days) <= Cardinality(Recorded)
    BY <2>1, <2>2, <2>3 DEF BudgetInv
  <2> QED BY <2>4, Zenon DEF BudgetNeverOvercounts, Total
<1> QED
  BY <1>1, BudgetStarts, BudgetStep, Initially, Inductive, PTL DEF Spec

-------------------------------------------------------------------------------
(* The refinement of SignalLedger *)

LEMMA FlushOffers ==
  ASSUME IInv, NEW c \in Calls, Flush(c)
  PROVE  Ledger!Next
<1>1. /\ called' = [s \in Signals |->
                      IF s \in ToSet(held) THEN called[s] \cup {day} ELSE called[s]]
      /\ UNCHANGED <<stamp, spool>>
  BY DEF Flush, d1Vars, spoolVars
<1>2. ToSet(held) \in SUBSET Signals /\ day \in Days
  BY DEF IInv, TypeOK, ToSet
<1>3. Ledger!Offer(ToSet(held), day)
  BY <1>1 DEF Ledger!Offer, Recorded, Spooled
<1> QED BY <1>2, <1>3 DEF Ledger!Next

LEMMA PutTakesOver ==
  ASSUME IInv, NEW c \in Calls, Put(c)
  PROVE  Ledger!Next
<1> PICK r \in Locals : r = rec[c]
  BY DEF IInv, TypeOK, Procs
<1> DEFINE S == {r.rows[k] : k \in DOMAIN r.rows}
<1>1. /\ r.pc = "put" /\ spool' = spool \cup NewItems(r)
      /\ UNCHANGED <<stamp, called>>
  BY DEF Put, d1Vars, obsVars
<1>2. S \in SUBSET Signals
  BY DEF Locals
<1>3. \A s \in S : called[s] # {}
  BY <1>1 DEF IInv, LocalsOK, BatchOK, Procs
<1>4. Spooled' = Spooled \cup S
  <2>1. \A x \in NewItems(r) : x.row \in S
    BY DEF NewItems
  <2>2. ASSUME NEW k \in DOMAIN r.rows
        PROVE  \E x \in NewItems(r) : x.row = r.rows[k]
    <3> DEFINE x == [id |-> nextId + k - 1, at |-> r.at, row |-> r.rows[k], parked |-> FALSE]
    <3>1. x \in NewItems(r) /\ x.row = r.rows[k]
      BY DEF NewItems
    <3> QED BY <3>1
  <2>3. \A s \in S : \E x \in NewItems(r) : x.row = s
    BY <2>2
  <2> HIDE DEF S
  <2> QED BY <1>1, <2>1, <2>3 DEF Spooled
<1>5. Ledger!TakeOver(S)
  <2> HIDE DEF S
  <2> QED BY <1>1, <1>3, <1>4 DEF Ledger!TakeOver, Recorded
<1> QED BY <1>2, <1>5 DEF Ledger!Next

LEMMA InsertRecords ==
  ASSUME IInv, NEW p \in Procs, InsertRow(p)
  PROVE  Ledger!Next \/ UNCHANGED <<stamp, spool, called>>
<1> PICK r \in Locals : r = rec[p]
  BY DEF IInv, TypeOK
<1> PICK s : s = r.rows[r.i]
  OBVIOUS
<1>1. /\ r.pc = "insert"
      /\ stamp' = IF stamp[s] = NotRecorded THEN [stamp EXCEPT ![s] = r.at] ELSE stamp
      /\ UNCHANGED <<spool, called>>
  BY DEF InsertRow, spoolVars, obsVars
<1>2. r.i \in DOMAIN r.rows /\ s \in Signals /\ r.at \in Days /\ r.at \in called[s]
  BY <1>1 DEF IInv, LocalsOK, BatchOK, Locals, Recording
<1>3. CASE stamp[s] = NotRecorded
  <2>1. stamp' = [stamp EXCEPT ![s] = r.at]
    BY <1>1, <1>3
  <2>2. Recorded' = Recorded \cup {s} /\ Spooled' = Spooled
    <3>1. r.at # NotRecorded
      BY <1>2 DEF Days, NotRecorded
    <3> QED BY <1>1, <1>2, <2>1, <3>1 DEF IInv, TypeOK, Recorded, Spooled
  <2>3. (Recorded \cup Spooled)' = (Recorded \cup Spooled) \cup {s}
    BY <2>2
  <2>4. Ledger!Record(s, r.at)
    BY <1>1, <1>2, <1>3, <2>1, <2>3 DEF Ledger!Record
  <2> QED BY <1>2, <2>4 DEF Ledger!Next
<1>4. CASE stamp[s] # NotRecorded
  BY <1>1, <1>4
<1> QED BY <1>3, <1>4

\* Parking and acknowledging take nothing from what the hub owns.
LEMMA ParkKeeps ==
  ASSUME IInv, NEW d \in Drains, Park(d)
  PROVE  UNCHANGED Ledger!vars
<1> PICK bad : spool' = {[x EXCEPT !.parked = @ \/ x.id = bad] : x \in spool}
  BY DEF Park
<1>1. UNCHANGED <<stamp, called>>
  BY DEF Park, d1Vars, obsVars
<1>2. \A x \in spool : [x EXCEPT !.parked = @ \/ x.id = bad].row = x.row
  BY DEF IInv, TypeOK, Item
<1>3. Spooled' = Spooled
  <2>1. \A y \in spool' : \E x \in spool : x.row = y.row
    BY <1>2
  <2>2. \A x \in spool : \E y \in spool' : y.row = x.row
    BY <1>2
  <2>3. Spooled' \subseteq Spooled
    BY <2>1 DEF Spooled
  <2>4. Spooled \subseteq Spooled'
    BY <2>2 DEF Spooled
  <2> QED BY <2>3, <2>4, Zenon
<1> QED BY <1>1, <1>3 DEF Ledger!vars, Recorded

LEMMA AckKeeps ==
  ASSUME IInv, NEW d \in Drains, Ack(d)
  PROVE  UNCHANGED Ledger!vars
<1>1. /\ spool' = {x \in spool : x.id \notin rec[d].done}
      /\ UNCHANGED <<stamp, called>>
  BY DEF Ack, d1Vars, obsVars
<1>2. DoneOK(rec[d].done)
  BY DEF IInv, LocalsOK, Procs
<1>3. \A x \in spool : x \in spool' \/ x.row \in Recorded
  BY <1>1, <1>2 DEF DoneOK
<1>4. Recorded' = Recorded
  BY <1>1 DEF Recorded
<1>5. (Recorded \cup Spooled)' = Recorded \cup Spooled
  BY <1>1, <1>3, <1>4 DEF Spooled
<1> QED BY <1>1, <1>5 DEF Ledger!vars

LEMMA StepRefines ==
  IInv /\ [Next]_vars => [Ledger!Next]_(Ledger!vars)
<1> SUFFICES ASSUME IInv, [Next]_vars
             PROVE  Ledger!Next \/ UNCHANGED Ledger!vars
  OBVIOUS
<1>1. ASSUME UNCHANGED <<stamp, spool, called>>
      PROVE  UNCHANGED Ledger!vars
  BY <1>1 DEF Ledger!vars, Recorded, Spooled
<1>2. CASE \E c \in Calls : Flush(c) \/ Put(c)
  BY <1>2, FlushOffers, PutTakesOver
<1>3. CASE \E p \in Procs : InsertRow(p)
  BY <1>1, <1>3, InsertRecords
<1>4. CASE \E d \in Drains : Park(d) \/ Ack(d)
  BY <1>4, ParkKeeps, AckKeeps
<1>5. CASE \E p \in Procs : ReadBudget(p) \/ MarkCapped(p) \/ CountRows(p)
                            \/ StatementFails(p) \/ Crash(p)
  BY <1>1, <1>5 DEF ReadBudget, MarkCapped, CountRows, StatementFails, Crash,
                    d1Vars, spoolVars, obsVars
<1>6. CASE \E c \in Calls : PutFails(c) \/ Answer(c)
  BY <1>1, <1>6 DEF PutFails, Answer, d1Vars, spoolVars, obsVars
<1>7. CASE \E d \in Drains : Take(d) \/ CheckExists(d)
  BY <1>1, <1>7 DEF Take, CheckExists, d1Vars, spoolVars, obsVars
<1>8. CASE \/ \E s \in Signals : Generate(s)
           \/ GiveUp \/ GeneratorCrash
           \/ \E mode \in {"quota", "down"} : D1Fails(mode)
           \/ D1Recovers \/ Midnight
  BY <1>1, <1>8 DEF Generate, GiveUp, GeneratorCrash, D1Fails, D1Recovers, Midnight,
                    d1Vars, spoolVars, obsVars
<1>9. CASE UNCHANGED vars
  BY <1>1, <1>9 DEF vars
<1> QED
  BY <1>2, <1>3, <1>4, <1>5, <1>6, <1>7, <1>8, <1>9
  DEF Next, RouteStep, DrainStep, RecordStep, Procs

\* The pipeline keeps the ledger's promise: what it has taken over it never
\* loses, a row is recorded once, under a day on which it was offered.
THEOREM Implements == Spec => LedgerSpec
<1>1. Init => Ledger!Init
  BY DEF Init, Ledger!Init, Recorded, Spooled
<1> QED
  BY <1>1, StepRefines, InvariantHolds, PTL DEF Spec, LedgerSpec, Ledger!Spec

===============================================================================
