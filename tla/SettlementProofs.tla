--------------------------- MODULE SettlementProofs ---------------------------
(***************************************************************************)
(* Pruning costs no number, and a verdict stands: proved for every number  *)
(* of signals and passes, any retention and any length of the week prune   *)
(* reaches back, from the days the spool and the settlement may be behind. *)
(***************************************************************************)
EXTENDS Settlement, SumTheorems

Places == {"absent", "held", "stored", "pruned"}

TypeOK ==
  /\ today \in Nat
  /\ where \in [Signals -> Places]
  /\ made \in [Signals -> Nat]
  /\ outcome \in [Signals -> {"pending", "win", "loss", "tie", "unresolved"}]
  /\ cutting # None => cutting \in Int

\* What may still change was made after every day that may be cut.
Recent ==
  \A s \in Signals :
    where[s] = "held" \/ s \in Pending => today < made[s] + KeepDays

\* The last refresh of prune reaches back to every row there is.
WithinReach == \A s \in Stored : today <= made[s] + KeepDays + Week

\* A pruned day is old, and no row of it or of an older day is left.
PrunedOld ==
  \A s \in Signals :
    where[s] = "pruned" => /\ made[s] + KeepDays <= today
                           /\ \A r \in Stored : made[s] < made[r]

\* Between the two statements of prune, what is about to go is in the rollup.
CutReady ==
  cutting # None =>
    /\ cutting + KeepDays <= today
    /\ \A s \in Stored : made[s] <= cutting => InTheRollup(s)

IInv == TypeOK /\ Recent /\ WithinReach /\ PrunedOld /\ CutReady /\ PruneKeepsTheNumbers

-------------------------------------------------------------------------------
(* The rollup *)

\* The rows of s's group, those the rollup has to count.
RowsOf(s) == {r \in Recorded : GroupOf(r) = GroupOf(s)}

\* Counters depend on the outcomes and kinds of their rows, and on nothing else.
LEMMA SameCounters ==
  ASSUME NEW S, kind' = kind, \A r \in S : outcome'[r] = outcome[r]
  PROVE  Counters(S)' = Counters(S)
<1>1. \A o : {r \in S : outcome[r] = o /\ ~kind[r].forced}'
              = {r \in S : outcome[r] = o /\ ~kind[r].forced}
  OBVIOUS
<1>2. \A o : {r \in S : outcome[r] = o}' = {r \in S : outcome[r] = o}
  OBVIOUS
<1>3. {r \in S : kind[r].forced}' = {r \in S : kind[r].forced}
  OBVIOUS
<1> QED
  BY <1>1, <1>2, <1>3 DEF Counters, Fair, Counted

\* A step that leaves the rows of a group and its line in the rollup alone
\* leaves the group in the rollup.
LEMMA GroupKept ==
  ASSUME NEW s \in Signals, InTheRollup(s), kind' = kind,
         made'[s] = made[s], RowsOf(s)' = RowsOf(s),
         \A r \in RowsOf(s) : outcome'[r] = outcome[r],
         GroupOf(s) \in DOMAIN daily', daily'[GroupOf(s)] = daily[GroupOf(s)]
  PROVE  InTheRollup(s)'
<1>1. GroupOf(s)' = GroupOf(s)
  BY DEF GroupOf
<1>2. daily[GroupOf(s)] = Counters(RowsOf(s))
  BY DEF InTheRollup, RowsOf
<1>3. Counters(RowsOf(s))' = Counters(RowsOf(s))
  BY SameCounters
<1>4. daily'[GroupOf(s)'] = Counters(RowsOf(s))'
  BY <1>1, <1>2, <1>3
<1> QED
  BY <1>1, <1>4 DEF InTheRollup, RowsOf

\* A refresh gives every group in its range whose rows are all there its line.
LEMMA Refreshed ==
  ASSUME NEW from, NEW to, NEW s \in Stored, made[s] \in from .. to,
         RowsOf(s) \subseteq Stored
  PROVE  LET d == RefreshDaily(from, to)
         IN GroupOf(s) \in DOMAIN d /\ d[GroupOf(s)] = Counters(RowsOf(s))
<1> DEFINE inRange == {r \in Stored : made[r] \in from .. to}
           groups == {GroupOf(r) : r \in inRange}
           line(g) == Counters({r \in inRange : GroupOf(r) = g})
<1>1. GroupOf(s) \in groups
  OBVIOUS
<1>2. \A r \in Signals : GroupOf(r) = GroupOf(s) => made[r] = made[s]
  BY DEF GroupOf
<1>3. {r \in inRange : GroupOf(r) = GroupOf(s)} = RowsOf(s)
  BY <1>2 DEF RowsOf, Stored, Recorded
<1>4. line(GroupOf(s)) = Counters(RowsOf(s))
  BY <1>3
<1>5. RefreshDaily(from, to) =
        [g \in groups \cup DOMAIN daily |-> IF g \in groups THEN line(g) ELSE daily[g]]
  BY DEF RefreshDaily
<1> HIDE DEF line, groups
<1> QED
  BY <1>1, <1>4, <1>5

\* A group without a row in the range keeps its line.
LEMMA NotRefreshed ==
  ASSUME NEW from, NEW to, NEW g \in DOMAIN daily,
         \A r \in Stored : made[r] \in from .. to => GroupOf(r) # g
  PROVE  LET d == RefreshDaily(from, to)
         IN g \in DOMAIN d /\ d[g] = daily[g]
<1> DEFINE inRange == {r \in Stored : made[r] \in from .. to}
           groups == {GroupOf(r) : r \in inRange}
           line(h) == Counters({r \in inRange : GroupOf(r) = h})
<1>1. g \notin groups
  OBVIOUS
<1>2. RefreshDaily(from, to) =
        [h \in groups \cup DOMAIN daily |-> IF h \in groups THEN line(h) ELSE daily[h]]
  BY DEF RefreshDaily
<1> HIDE DEF line, groups
<1> QED
  BY <1>1, <1>2

\* No pruned row is in the group of a stored one.
LEMMA StoredAlone ==
  ASSUME TypeOK, PrunedOld, NEW s \in Stored
  PROVE  RowsOf(s) \subseteq Stored
<1> SUFFICES ASSUME NEW r \in RowsOf(s), where[r] = "pruned" PROVE FALSE
  BY DEF RowsOf, Recorded, Stored
<1>1. made[r] = made[s]
  BY DEF RowsOf, GroupOf
<1>2. made[r] < made[s]
  BY DEF PrunedOld, RowsOf, Recorded
<1>3. made[r] \in Nat /\ made[s] \in Nat
  BY DEF TypeOK, RowsOf, Recorded, Stored
<1> QED
  BY <1>1, <1>2, <1>3

\* Whatever a refresh covers, a group that was right stays as it is.
LEMMA RefreshKeeps ==
  ASSUME TypeOK, PrunedOld, NEW from, NEW to, NEW s \in Signals, InTheRollup(s)
  PROVE  LET d == RefreshDaily(from, to)
         IN GroupOf(s) \in DOMAIN d /\ d[GroupOf(s)] = daily[GroupOf(s)]
<1>1. CASE \E r \in Stored : made[r] \in from .. to /\ GroupOf(r) = GroupOf(s)
  <2>1. PICK r \in Stored : made[r] \in from .. to /\ GroupOf(r) = GroupOf(s)
    BY <1>1
  <2>2. RowsOf(r) \subseteq Stored
    BY StoredAlone
  <2>3. RowsOf(r) = RowsOf(s)
    BY <2>1 DEF RowsOf
  <2>4. daily[GroupOf(s)] = Counters(RowsOf(s))
    BY DEF InTheRollup, RowsOf
  <2> QED
    BY <2>1, <2>2, <2>3, <2>4, Refreshed
<1>2. CASE ~ \E r \in Stored : made[r] \in from .. to /\ GroupOf(r) = GroupOf(s)
  <2>1. GroupOf(s) \in DOMAIN daily
    BY DEF InTheRollup
  <2> QED
    BY <1>2, <2>1, NotRefreshed
<1> QED
  BY <1>1, <1>2

\* What a step does to rows of other days does not concern a group.
LEMMA OtherDays ==
  ASSUME TypeOK, TypeOK', NEW s \in Signals, InTheRollup(s),
         kind' = kind, daily' = daily, made'[s] = made[s],
         \A r \in Signals :
           \/ /\ made'[r] = made[r] /\ outcome'[r] = outcome[r]
              /\ (r \in Recorded)' <=> r \in Recorded
           \/ /\ r \in Recorded => made[r] # made[s]
              /\ (r \in Recorded)' => made'[r] # made[s]
  PROVE  InTheRollup(s)'
<1>1. RowsOf(s)' = RowsOf(s)
  BY DEF RowsOf, GroupOf, Recorded
<1>2. \A r \in RowsOf(s) : outcome'[r] = outcome[r]
  BY DEF RowsOf, GroupOf, Recorded
<1>3. GroupOf(s) \in DOMAIN daily
  BY DEF InTheRollup
<1> QED
  BY <1>1, <1>2, <1>3, GroupKept

-------------------------------------------------------------------------------
(* Each action keeps the invariant *)

LEMMA InitInv == Init => IInv
BY SettlementAssumption DEF Init, IInv, TypeOK, Places, Recent, WithinReach, PrunedOld,
   CutReady, PruneKeepsTheNumbers, Stored, Pending

\* Record, Hold and Replay: the row is younger than any day cut or about to be.
LEMMA ArrivalInv ==
  ASSUME IInv, NEW x \in Signals, Record(x) \/ Hold(x) \/ Replay(x)
  PROVE  IInv'
<1> USE SettlementAssumption
<1>1. TypeOK'
  BY DEF IInv, TypeOK, Places, Record, Hold, Replay
<1>2. /\ UNCHANGED <<kind, today, outcome, daily, cutting>>
      /\ today < made'[x] + KeepDays
      /\ where[x] \notin {"stored", "pruned"} /\ where'[x] # "pruned"
      /\ \A r \in Signals \ {x} : where'[r] = where[r] /\ made'[r] = made[r]
  BY <1>1 DEF IInv, TypeOK, Recent, Record, Hold, Replay
<1>3. Recent'
  BY <1>1, <1>2 DEF IInv, TypeOK, Recent, Pending, Stored
<1>4. WithinReach'
  BY <1>1, <1>2 DEF IInv, TypeOK, WithinReach, Stored
<1>5. PrunedOld'
  BY <1>1, <1>2 DEF IInv, TypeOK, PrunedOld, Stored
<1>6. ASSUME NEW s \in Recorded, made[s] + KeepDays <= today, InTheRollup(s)
      PROVE  InTheRollup(s)'
  <2>1. s # x /\ made'[s] = made[s]
    BY <1>2 DEF Recorded
  <2>2. x \notin Recorded /\ made'[x] # made[s]
    BY <1>1, <1>2, <1>6 DEF Recorded, IInv, TypeOK
  <2>3. \A r \in Signals \ {x} : (r \in Recorded)' <=> r \in Recorded
    BY <1>2 DEF Recorded
  <2> QED
    BY <1>1, <1>2, <1>6, <2>1, <2>2, <2>3, OtherDays DEF IInv, Recorded
<1>7. CutReady'
  BY <1>1, <1>2, <1>6 DEF IInv, TypeOK, CutReady, Stored, Recorded
<1>8. PruneKeepsTheNumbers'
  BY <1>1, <1>2, <1>6 DEF IInv, TypeOK, PruneKeepsTheNumbers, PrunedOld, Recorded
<1> QED
  BY <1>1, <1>3, <1>4, <1>5, <1>7, <1>8 DEF IInv

\* A verdict reaches rows still young enough to be nobody's cut.
LEMMA ResolveInv ==
  ASSUME IInv, NEW p \in Passes, NEW x \in Signals, Resolve(p, x)
  PROVE  IInv'
<1> USE SettlementAssumption
<1>1. TypeOK'
  BY DEF IInv, TypeOK, Resolve, OutcomeFor, Pending, Stored
<1>2. /\ UNCHANGED <<kind, today, where, made, daily, cutting>>
      /\ outcome'[x] # outcome[x] => x \in Pending
      /\ \A r \in Signals \ {x} : outcome'[r] = outcome[r]
  BY DEF IInv, TypeOK, Resolve
<1>3. Pending' \subseteq Pending
  BY <1>1, <1>2 DEF Resolve, Pending, Stored, OutcomeFor, IInv, TypeOK
<1>4. Recent'
  BY <1>2, <1>3 DEF IInv, Recent
<1>5. WithinReach' /\ PrunedOld'
  BY <1>2 DEF IInv, WithinReach, PrunedOld, Stored
<1>6. ASSUME NEW s \in Recorded, made[s] + KeepDays <= today, InTheRollup(s)
      PROVE  InTheRollup(s)'
  <2>1. x \in Pending => made[x] # made[s]
    BY <1>6 DEF IInv, TypeOK, Recent, Recorded
  <2>2. \A r \in Signals : (r \in Recorded)' <=> r \in Recorded
    BY <1>2 DEF Recorded
  <2> QED
    BY <1>1, <1>2, <1>6, <2>1, <2>2, OtherDays DEF IInv, Recorded
<1>7. CutReady'
  BY <1>1, <1>2, <1>6 DEF IInv, TypeOK, CutReady, Stored, Recorded
<1>8. PruneKeepsTheNumbers'
  BY <1>1, <1>2, <1>6 DEF IInv, TypeOK, PruneKeepsTheNumbers, PrunedOld, Recorded
<1> QED
  BY <1>1, <1>4, <1>5, <1>7, <1>8 DEF IInv

\* Steps that leave the rows and the rollup alone.
LEMMA AsideInv ==
  ASSUME IInv, UNCHANGED <<kind, today, where, made, outcome, daily>>,
         cutting' \in {cutting, None}
  PROVE  IInv'
<1>1. \A s \in Signals : InTheRollup(s) => InTheRollup(s)'
  BY OtherDays DEF IInv, TypeOK, Recorded
<1> QED
  BY <1>1 DEF IInv, TypeOK, Recent, WithinReach, PrunedOld, CutReady, PruneKeepsTheNumbers,
     Stored, Pending

LEMMA RefreshInv ==
  ASSUME IInv, NEW from, NEW to, daily' = RefreshDaily(from, to),
         UNCHANGED <<today, rows>>,
         \/ cutting' = cutting
         \/ /\ cutting' \in Int /\ cutting' + KeepDays <= today
            /\ \A s \in Stored : made[s] <= cutting' => made[s] \in from .. to
  PROVE  IInv'
<1> USE DEF rows
<1>1. TypeOK'
  BY DEF IInv, TypeOK
<1>2. Recent' /\ WithinReach' /\ PrunedOld'
  BY DEF IInv, Recent, WithinReach, PrunedOld, Stored, Pending
<1>3. \A s \in Signals : RowsOf(s)' = RowsOf(s) /\ GroupOf(s)' = GroupOf(s)
  BY DEF RowsOf, GroupOf, Recorded
<1>4. \A s \in Signals : \A r \in RowsOf(s) : outcome'[r] = outcome[r]
  OBVIOUS
<1>5. \A s \in Signals : InTheRollup(s) => InTheRollup(s)'
  BY <1>3, <1>4, RefreshKeeps, GroupKept DEF IInv
<1>6. ASSUME NEW s \in Stored, made[s] \in from .. to
      PROVE  InTheRollup(s)'
  <2>1. RowsOf(s) \subseteq Stored
    BY StoredAlone DEF IInv
  <2>2. GroupOf(s) \in DOMAIN daily' /\ daily'[GroupOf(s)] = Counters(RowsOf(s))
    BY <1>6, <2>1, Refreshed
  <2>3. RowsOf(s)' = RowsOf(s) /\ \A r \in RowsOf(s) : outcome'[r] = outcome[r]
    BY <1>3, <1>4 DEF Stored
  <2>4. Counters(RowsOf(s))' = Counters(RowsOf(s))
    BY <2>3, SameCounters
  <2> QED
    BY <1>3, <2>2, <2>4 DEF InTheRollup, RowsOf, Stored
<1>7. CutReady'
  BY <1>5, <1>6 DEF IInv, CutReady, Stored
<1>8. PruneKeepsTheNumbers'
  BY <1>5 DEF IInv, PruneKeepsTheNumbers
<1> QED
  BY <1>1, <1>2, <1>7, <1>8 DEF IInv

LEMMA PruneRefreshInv ==
  ASSUME IInv, PruneRefresh
  PROVE  IInv'
<1>1. cutting' = today - KeepDays /\ daily' = RefreshDaily(cutting' - Week, cutting')
  BY DEF PruneRefresh
<1>2. cutting' \in Int /\ cutting' + KeepDays <= today
  BY <1>1, SettlementAssumption DEF IInv, TypeOK
<1>3. \A s \in Stored : made[s] <= cutting' => made[s] \in (cutting' - Week) .. cutting'
  BY <1>1, <1>2, SettlementAssumption DEF IInv, TypeOK, WithinReach, Stored
<1> QED
  BY <1>1, <1>2, <1>3, RefreshInv DEF PruneRefresh

\* The delete takes the days up to the cut whole, and their lines are right.
LEMMA PruneDeleteInv ==
  ASSUME IInv, PruneDelete
  PROVE  IInv'
<1> USE SettlementAssumption
<1>1. TypeOK'
  BY DEF IInv, TypeOK, PruneDelete, Places, Stored
<1>2. /\ UNCHANGED <<kind, today, made, outcome, daily>> /\ cutting' = None
      /\ cutting \in Int /\ cutting + KeepDays <= today
      /\ \A r \in Signals : where'[r] = IF r \in Stored /\ made[r] <= cutting
                                        THEN "pruned" ELSE where[r]
  BY DEF IInv, TypeOK, CutReady, PruneDelete
<1>3. Stored' = {r \in Stored : made[r] > cutting} /\ Recorded' = Recorded
  BY <1>1, <1>2 DEF Stored, Recorded, IInv, TypeOK
<1>4. Recent'
  <2>1. Pending' \subseteq Pending
    BY <1>2, <1>3 DEF Pending
  <2>2. \A r \in Signals : where'[r] = "held" => where[r] = "held"
    BY <1>2
  <2> QED
    BY <1>2, <2>1, <2>2 DEF IInv, Recent
<1>5. WithinReach'
  BY <1>2, <1>3 DEF IInv, WithinReach
<1>6. PrunedOld'
  <2> SUFFICES ASSUME NEW s \in Signals, where'[s] = "pruned"
               PROVE  made[s] + KeepDays <= today /\ \A r \in Stored' : made[s] < made[r]
    BY <1>2 DEF PrunedOld
  <2>1. CASE where[s] = "pruned"
    BY <1>3, <2>1 DEF IInv, PrunedOld
  <2>2. CASE where[s] # "pruned"
    <3>1. s \in Stored /\ made[s] <= cutting
      BY <1>2, <2>2
    <3> QED
      BY <1>2, <1>3, <3>1 DEF IInv, TypeOK, Stored
  <2> QED
    BY <2>1, <2>2
<1>7. \A s \in Signals : InTheRollup(s) => InTheRollup(s)'
  BY <1>1, <1>2, <1>3, OtherDays DEF IInv
<1>8. PruneKeepsTheNumbers'
  <2> SUFFICES ASSUME NEW s \in Signals, where'[s] = "pruned" PROVE InTheRollup(s)
    BY <1>7 DEF PruneKeepsTheNumbers
  <2>1. where[s] = "pruned" \/ (s \in Stored /\ made[s] <= cutting)
    BY <1>2
  <2>2. cutting # None
    BY DEF PruneDelete
  <2> QED
    BY <2>1, <2>2 DEF IInv, PruneKeepsTheNumbers, CutReady
<1>9. CutReady'
  BY <1>2 DEF CutReady
<1> QED
  BY <1>1, <1>4, <1>5, <1>6, <1>8, <1>9 DEF IInv

\* Midnight comes only while spool, settlement and prune keep their side.
LEMMA NextDayInv ==
  ASSUME IInv, NextDay
  PROVE  IInv'
<1> USE SettlementAssumption DEF rows
<1>1. TypeOK' /\ today' = today + 1 /\ UNCHANGED <<kind, where, made, outcome, daily, cutting>>
  BY DEF IInv, TypeOK, NextDay
<1>2. \A s \in Signals : InTheRollup(s) => InTheRollup(s)'
  BY <1>1, OtherDays DEF IInv, Recorded
<1>3. Recent' /\ WithinReach'
  BY <1>1 DEF IInv, TypeOK, Recent, WithinReach, NextDay, Stored, Pending
<1>4. PrunedOld'
  BY <1>1 DEF IInv, TypeOK, PrunedOld, Stored
<1>5. CutReady' /\ PruneKeepsTheNumbers'
  BY <1>1, <1>2 DEF IInv, TypeOK, CutReady, PruneKeepsTheNumbers, Stored
<1> QED
  BY <1>1, <1>3, <1>4, <1>5 DEF IInv

LEMMA NextInv == IInv /\ [Next]_vars => IInv'
<1> SUFFICES ASSUME IInv, [Next]_vars PROVE IInv'
  OBVIOUS
<1>1. ASSUME NEW s \in Signals, Record(s) \/ Hold(s) \/ Replay(s) PROVE IInv'
  BY <1>1, ArrivalInv
<1>2. ASSUME NEW p \in Passes, NEW s \in Signals, Resolve(p, s) PROVE IInv'
  BY <1>2, ResolveInv
<1>3. ASSUME NEW p \in Passes, ReadPending(p) \/ FailPass(p) PROVE IInv'
  BY <1>3, AsideInv DEF ReadPending, FailPass, rows
<1>4. CASE Refresh
  BY <1>4, RefreshInv DEF Refresh
<1>5. CASE PruneRefresh
  BY <1>5, PruneRefreshInv
<1>6. CASE PruneDelete
  BY <1>6, PruneDeleteInv
<1>7. CASE PruneFails \/ UNCHANGED vars
  BY <1>7, AsideInv DEF PruneFails, vars, rows
<1>8. CASE NextDay
  BY <1>8, NextDayInv
<1> QED
  BY <1>1, <1>2, <1>3, <1>4, <1>5, <1>6, <1>7, <1>8 DEF Next

-------------------------------------------------------------------------------
(* Theorems *)

\* Every reachable state satisfies the inductive invariant.
THEOREM InvariantHolds == Spec => []IInv
<1>1. Init => IInv
  BY InitInv
<1>2. IInv /\ [Next]_vars => IInv'
  BY NextInv
<1> QED
  BY <1>1, <1>2, PTL DEF Spec

\* Pruning costs no number: as long as the spool, the settlement and prune itself
\* are no further behind than NextDay lets them be, the rollup of a pruned
\* signal's group counts every signal ever recorded in it, with its outcome
\* (pipeline.ts:299-306), for any retention and any number of signals.
THEOREM NumbersKept == Spec => []PruneKeepsTheNumbers
<1>1. IInv => PruneKeepsTheNumbers
  BY DEF IInv
<1> QED
  BY <1>1, InvariantHolds, PTL

\* A verdict stands, however many passes settle at once (pipeline.ts:187-189).
THEOREM VerdictStands == Spec => SettledOnce
<1> DEFINE Stands == \A s \in Signals : outcome[s] # "pending" => outcome'[s] = outcome[s]
<1>1. IInv /\ [Next]_vars => Stands
  BY DEF IInv, TypeOK, Next, vars, rows, Record, Hold, Replay, ReadPending, Resolve, FailPass,
     Refresh, PruneRefresh, PruneDelete, PruneFails, NextDay, Pending
<1> QED
  BY <1>1, InvariantHolds, PTL DEF Spec, SettledOnce

-------------------------------------------------------------------------------
(* The rollup is a table of numbers *)

Fields == {"signals", "wins", "losses", "ties", "unresolved", "pending", "forced"}

\* The rollup has finitely many lines, none of a day to come.
DailyOK ==
  /\ \A s \in Signals : made[s] <= today
  /\ IsFiniteSet(DOMAIN daily)
  /\ \A g \in DOMAIN daily : g.day \in 0 .. today /\ \A c \in Fields : daily[g][c] \in Int

LEMMA FieldsAre == DOMAIN Zero = Fields
BY DEF Fields, Zero, Counters

LEMMA CountersType ==
  ASSUME NEW S \in SUBSET Signals
  PROVE  \A c \in Fields : Counters(S)[c] \in Int
<1>1. ASSUME NEW T \in SUBSET Signals PROVE Counted(T) \in Int
  <2>1. Cardinality(T) \in Nat
    BY SettlementAssumption, FS_Subset, FS_CardinalityType
  <2> QED BY <2>1, SettlementAssumption DEF Counted
<1>2. \A o : Fair(S, o) \in Int
  BY <1>1 DEF Fair
<1>3. /\ Counted(S) \in Int
      /\ Counted({s \in S : outcome[s] = "unresolved"}) \in Int
      /\ Counted({s \in S : outcome[s] = "pending"}) \in Int
      /\ Counted({s \in S : kind[s].forced}) \in Int
  BY <1>1
<1> QED
  BY <1>2, <1>3 DEF Counters, Fields

LEMMA ZeroIs == Zero = [c \in Fields |-> 0]
<1>1. Counted({}) = 0
  BY FS_EmptySet, SettlementAssumption DEF Counted
<1>2. \A o : Fair({}, o) = 0
  <2>1. \A o : {s \in {} : outcome[s] = o /\ ~kind[s].forced} = {}
    OBVIOUS
  <2> QED BY <1>1, <2>1 DEF Fair
<1>3. /\ {s \in {} : outcome[s] = "unresolved"} = {}
      /\ {s \in {} : outcome[s] = "pending"} = {}
      /\ {s \in {} : kind[s].forced} = {}
  OBVIOUS
<1>4. Zero = [signals |-> 0, wins |-> 0, losses |-> 0, ties |-> 0,
              unresolved |-> 0, pending |-> 0, forced |-> 0]
  BY <1>1, <1>2, <1>3 DEF Zero, Counters
<1> QED
  BY <1>4 DEF Fields

LEMMA RefreshedDaily ==
  ASSUME TypeOK, DailyOK, NEW from, NEW to
  PROVE  LET d == RefreshDaily(from, to)
         IN /\ IsFiniteSet(DOMAIN d)
            /\ \A g \in DOMAIN d : g.day \in 0 .. today /\ \A c \in Fields : d[g][c] \in Int
<1> DEFINE inRange == {r \in Stored : made[r] \in from .. to}
           groups == {GroupOf(r) : r \in inRange}
           line(g) == Counters({r \in inRange : GroupOf(r) = g})
           group == [r \in Signals |-> GroupOf(r)]
           d == RefreshDaily(from, to)
<1>1. IsFiniteSet(groups)
  <2>1. inRange \in SUBSET Signals /\ IsFiniteSet(inRange)
    BY SettlementAssumption, FS_Subset DEF Stored
  <2>2. groups = {group[r] : r \in inRange}
    BY <2>1
  <2> HIDE DEF group
  <2> QED BY <2>1, <2>2, ImageFinite
<1>2. \A g \in groups : g.day \in 0 .. today
  BY DEF GroupOf, Stored, TypeOK, DailyOK
<1>3. \A g : \A c \in Fields : line(g)[c] \in Int
  <2> TAKE g
  <2>1. {r \in inRange : GroupOf(r) = g} \in SUBSET Signals
    BY DEF Stored
  <2> QED BY <2>1, CountersType
<1>4. d = [g \in groups \cup DOMAIN daily |-> IF g \in groups THEN line(g) ELSE daily[g]]
  BY DEF RefreshDaily
<1> HIDE DEF groups, line, d
<1>5. IsFiniteSet(groups \cup DOMAIN daily)
  BY <1>1, FS_Union DEF DailyOK
<1> QED
  BY <1>2, <1>3, <1>4, <1>5 DEF DailyOK, d

LEMMA DailyInit == Init => DailyOK
<1> SUFFICES ASSUME Init PROVE DailyOK
  OBVIOUS
<1>1. DOMAIN daily = {}
  BY DEF Init
<1> QED
  BY <1>1, FS_EmptySet DEF Init, DailyOK

LEMMA DailyStep == IInv /\ DailyOK /\ [Next]_vars => DailyOK'
<1> SUFFICES ASSUME IInv, DailyOK, [Next]_vars PROVE DailyOK'
  OBVIOUS
<1> USE DEF rows
<1>0. today \in Nat
  BY DEF IInv, TypeOK
<1>1. CASE \E from, to : daily' = RefreshDaily(from, to) /\ UNCHANGED <<today, made>>
  BY <1>0, <1>1, RefreshedDaily DEF IInv, DailyOK
<1>2. CASE /\ UNCHANGED daily /\ today' \in {today, today + 1}
           /\ \A s \in Signals : made'[s] \in {made[s], today'}
  BY <1>0, <1>2 DEF IInv, TypeOK, DailyOK
<1>3. CASE \E s \in Signals : Record(s) \/ Hold(s) \/ Replay(s)
  <2>1. UNCHANGED <<daily, today>> /\ \A s \in Signals : made'[s] \in {made[s], today'}
    BY <1>3 DEF Record, Hold, Replay, IInv, TypeOK
  <2> QED BY <1>2, <2>1
<1>4. CASE \E p \in Passes : \/ ReadPending(p) \/ FailPass(p)
                             \/ \E s \in Signals : Resolve(p, s)
  BY <1>2, <1>4 DEF ReadPending, FailPass, Resolve
<1>5. CASE PruneDelete \/ PruneFails \/ NextDay \/ UNCHANGED vars
  BY <1>2, <1>5 DEF PruneDelete, PruneFails, NextDay, vars
<1>6. CASE Refresh \/ PruneRefresh
  BY <1>1, <1>6 DEF Refresh, PruneRefresh
<1> QED
  BY <1>3, <1>4, <1>5, <1>6 DEF Next

-------------------------------------------------------------------------------
(* The statistics page adds up *)

LEMMA AddUpIs ==
  ASSUME DailyOK, NEW G \in SUBSET DOMAIN daily
  PROVE  /\ AddUp(G) = [c \in Fields |-> Column(daily, c, G)]
         /\ \A c \in Fields : Column(daily, c, G) \in Int
<1>1. AddUp(G) = [c \in Fields |-> Column(daily, c, G)]
  BY FieldsAre, Zenon DEF AddUp, Column
<1>2. ASSUME NEW c \in Fields PROVE Column(daily, c, G) \in Int
  <2> DEFINE w == [g \in DOMAIN daily |-> daily[g][c]]
  <2>1. w \in [DOMAIN daily -> Int] /\ IsFiniteSet(DOMAIN daily)
    BY DEF DailyOK
  <2>2. Column(daily, c, G) = Total(w, G)
    BY ColumnOver DEF DailyOK
  <2> HIDE DEF w
  <2>3. Total(w, G) \in Int
    BY <2>1, TotalRecursion
  <2> QED BY <2>2, <2>3
<1> QED BY <1>1, <1>2

\* The buckets' numbers summed, field by field, as the page sums them.
Folded(split, B) == FoldSet(LAMBDA b, sum : Plus(split[b], sum), Zero, B)

LEMMA FoldIs ==
  ASSUME NEW B, IsFiniteSet(B), NEW split, \A b \in B : \A c \in Fields : split[b][c] \in Int
  PROVE  Folded(split, B) = [c \in Fields |-> Column(split, c, B)]
<1>1. Sums(split, Zero, B) = [c \in Fields |-> Column(split, c, B)]
  BY ZeroIs, SumsAreTotals
<1> QED
  BY <1>1, Zenon DEF Folded, Sums, Plus

\* Column by column, the buckets add up to what they split.
LEMMA SplitAddsUp ==
  ASSUME DailyOK, NEW f, NEW by
  PROVE  /\ IsFiniteSet(Buckets(f, by)) /\ DOMAIN Stats(f, by) = Buckets(f, by)
         /\ \A b \in Buckets(f, by) : \A c \in Fields : Stats(f, by)[b][c] \in Int
         /\ \A c \in Fields :
              Column(Stats(f, by), c, Buckets(f, by)) = Column(daily, c, Matching(f))
<1> DEFINE M == Matching(f)
           B == Buckets(f, by)
           k == [g \in M |-> Bucket(by, g)]
           split == Stats(f, by)
<1>1. M \in SUBSET DOMAIN daily /\ IsFiniteSet(M)
  BY FS_Subset DEF Matching, DailyOK
<1>2. B = {k[g] : g \in M} /\ k \in [M -> B]
  BY DEF Buckets
<1>3. IsFiniteSet(B)
  <2> HIDE DEF k, M, B
  <2> QED BY <1>1, <1>2, ImageFinite
<1>4. \A b : {g \in M : Bucket(by, g) = b} = Part(k, M, b)
  BY DEF Part
<1>5. split = [b \in B |-> AddUp(Part(k, M, b))]
  BY <1>4 DEF Stats
<1>6. \A b : Part(k, M, b) \in SUBSET M
  BY DEF Part
<1> HIDE DEF k, M, B, split
<1>7. ASSUME NEW b \in B, NEW c \in Fields
      PROVE  split[b][c] = Column(daily, c, Part(k, M, b)) /\ split[b][c] \in Int
  <2>1. Part(k, M, b) \in SUBSET DOMAIN daily
    BY <1>1, <1>6
  <2> QED BY <1>5, <2>1, AddUpIs
<1>8. ASSUME NEW c \in Fields
      PROVE  Column(split, c, B) = Column(daily, c, M)
  <2> DEFINE w == [g \in M |-> daily[g][c]]
  <2>1. w \in [M -> Int] /\ \A g \in M : daily[g][c] \in Int
    BY <1>1 DEF DailyOK
  <2>2. \A T \in SUBSET M : Column(daily, c, T) = Total(w, T)
    BY <1>1, <2>1, ColumnOver
  <2> HIDE DEF w
  <2>3. Column(split, c, B) = Total([b \in B |-> split[b][c]], B)
    BY <1>3, <1>7, ColumnIsTotal
  <2>4. [b \in B |-> split[b][c]] = [b \in B |-> Total(w, Part(k, M, b))]
    BY <1>6, <1>7, <2>2
  <2>5. Total([b \in B |-> Total(w, Part(k, M, b))], B) = Total(w, M)
    BY <1>1, <1>2, <1>3, <2>1, TotalSplits
  <2> QED BY <2>2, <2>3, <2>4, <2>5
<1> QED
  BY <1>3, <1>5, <1>7, <1>8 DEF B, M, split

\* The headline and the line under it are the total.
LEMMA ErasAddUp ==
  ASSUME DailyOK, NEW f
  PROVE  Plus(EraSplit(f).current, EraSplit(f).legacy) = AddUp(Matching(f))
<1> DEFINE B == Buckets(f, "version")
           M == Matching(f)
           eras == Stats(f, "version")
           now == IF "current" \in B THEN eras["current"] ELSE Zero
           old == B \ {"current"}
<1>1. M \in SUBSET DOMAIN daily
  BY DEF Matching
<1>2. /\ IsFiniteSet(B) /\ DOMAIN eras = B
      /\ \A b \in B : \A c \in Fields : eras[b][c] \in Int
      /\ \A c \in Fields : Column(eras, c, B) = Column(daily, c, M)
  BY SplitAddsUp
<1>3. EraSplit(f).current = now
  BY <1>2 DEF EraSplit
<1>4. EraSplit(f).legacy = Folded(eras, old)
  BY <1>2, Zenon DEF EraSplit, Folded
<1> HIDE DEF eras, B, M
<1>5. old \in SUBSET B /\ IsFiniteSet(old)
  BY <1>2, FS_Subset
<1>6. Folded(eras, old) = [c \in Fields |-> Column(eras, c, old)]
  BY <1>2, <1>5, FoldIs
<1>7. ASSUME NEW c \in Fields
      PROVE  now[c] + Column(eras, c, old) = Column(daily, c, M)
  <2> DEFINE w == [b \in B |-> eras[b][c]]
  <2>1. w \in [B -> Int]
    BY <1>2
  <2>2. Column(eras, c, old) = Total(w, old) /\ Column(eras, c, B) = Total(w, B)
    BY <1>2, <1>5, ColumnOver
  <2>3. "current" \in B => w["current"] = now[c]
    OBVIOUS
  <2> HIDE DEF w
  <2>4. Total(w, old) \in Int /\ Total(w, B) \in Int
    BY <1>2, <1>5, <2>1, TotalRecursion
  <2>5. CASE "current" \in B
    <3>1. Total(w, B) = Total(w, old) + w["current"]
      BY <1>2, <2>1, <2>5, TotalRemove
    <3>2. w["current"] \in Int
      BY <2>1, <2>5
    <3> HIDE DEF now, old
    <3> QED BY <1>2, <2>2, <2>3, <2>4, <2>5, <3>1, <3>2
  <2>6. CASE "current" \notin B
    <3>1. now[c] = 0
      BY <2>6, ZeroIs
    <3>2. old = B
      BY <2>6
    <3> HIDE DEF now, old
    <3> QED BY <1>2, <2>2, <2>4, <3>1, <3>2
  <2> QED BY <2>5, <2>6
<1> HIDE DEF now, old
<1>8. Plus(now, [c \in Fields |-> Column(eras, c, old)]) = [c \in Fields |-> Column(daily, c, M)]
  BY <1>7, FieldsAre DEF Plus
<1>9. AddUp(M) = [c \in Fields |-> Column(daily, c, M)]
  BY <1>1, AddUpIs
<1> QED
  BY <1>3, <1>4, <1>6, <1>8, <1>9, Zenon DEF M

\* The verdict and the rate are of one mind.
LEMMA VerdictFollowsRate ==
  ASSUME NEW b, b.wins \in Int, b.losses \in Int
  PROVE  /\ (Verdict(b) = "insufficient") = (WinRate(b) = None)
         /\ Verdict(b) = "losing" => WinRate(b) <= 526
         /\ Verdict(b) \in {"above", "proven"} => WinRate(b) >= 556
<1> DEFINE w == b.wins
           d == b.wins + b.losses
           rate == (w * 2000 + d) \div (2 * d)
<1>1. w \in Int /\ d \in Int
  OBVIOUS
<1>2. WinRate(b) = IF d >= 30 THEN rate ELSE None
  BY DEF WinRate
<1>3. Verdict(b) = CASE d < 30 -> "insufficient"
                     [] d >= 30 /\ 1000 * w < 526 * d -> "losing"
                     [] d >= 30 /\ 1000 * w \in 526 * d .. 556 * d - 1 -> "breakeven"
                     [] d >= 30 /\ 1000 * w >= 556 * d ->
                          IF Proven(b) THEN "proven" ELSE "above"
  BY DEF Verdict
<1> HIDE DEF w, d
<1>4. CASE d < 30
  <2>1. Verdict(b) = "insufficient"
    BY <1>1, <1>3, <1>4
  <2>2. WinRate(b) = None
    BY <1>1, <1>2, <1>4
  <2> QED BY <2>1, <2>2
<1>5. CASE d >= 30
  <2>1. rate \in Int /\ (2 * d) * rate <= w * 2000 + d /\ w * 2000 + d < (2 * d) * (rate + 1)
    BY <1>1, <1>5
  <2>2. WinRate(b) = rate /\ rate # None
    BY <1>2, <1>5, <2>1, SettlementAssumption
  <2> HIDE DEF rate
  <2>3. CASE 1000 * w < 526 * d
    <3>1. Verdict(b) = "losing"
      BY <1>1, <1>3, <1>5, <2>3
    <3>2. rate <= 526
      BY <1>1, <1>5, <2>1, <2>3
    <3> QED BY <2>2, <3>1, <3>2
  <2>4. CASE 1000 * w >= 526 * d /\ 1000 * w < 556 * d
    <3>1. Verdict(b) = "breakeven"
      BY <1>1, <1>3, <1>5, <2>4
    <3> QED BY <2>2, <3>1
  <2>5. CASE 1000 * w >= 556 * d
    <3>1. Verdict(b) \in {"above", "proven"}
      BY <1>1, <1>3, <1>5, <2>5
    <3>2. rate >= 556
      BY <1>1, <1>5, <2>1, <2>5
    <3> QED BY <2>2, <3>1, <3>2
  <2> QED BY <1>1, <2>3, <2>4, <2>5
<1> QED BY <1>1, <1>4, <1>5

LEMMA PageAgrees == IInv /\ DailyOK => StatsAgree
<1> SUFFICES ASSUME IInv, DailyOK, NEW f \in Filters
             PROVE  /\ Plus(EraSplit(f).current, EraSplit(f).legacy) = AddUp(Matching(f))
                    /\ \A by \in {"slot", "day"} :
                         FoldSet(LAMBDA b, sum : Plus(Stats(f, by)[b], sum), Zero,
                                 DOMAIN Stats(f, by)) = AddUp(Matching(f))
                    /\ f = [f EXCEPT !.from = 0, !.slot = None] /\ f.version # None =>
                         VersionStats(f.version) = AddUp(Matching(f))
                    /\ (Verdict(AddUp(Matching(f))) = "insufficient")
                         = (WinRate(AddUp(Matching(f))) = None)
                    /\ Verdict(AddUp(Matching(f))) = "losing" => WinRate(AddUp(Matching(f))) <= 526
                    /\ Verdict(AddUp(Matching(f))) \in {"above", "proven"} =>
                         WinRate(AddUp(Matching(f))) >= 556
  BY Zenon DEF StatsAgree
<1>1. Matching(f) \in SUBSET DOMAIN daily
  BY DEF Matching
<1>2. AddUp(Matching(f)) = [c \in Fields |-> Column(daily, c, Matching(f))]
  BY <1>1, AddUpIs
<1>3. ASSUME NEW by
      PROVE  FoldSet(LAMBDA b, sum : Plus(Stats(f, by)[b], sum), Zero, DOMAIN Stats(f, by))
               = AddUp(Matching(f))
  <2> DEFINE B == Buckets(f, by)
             split == Stats(f, by)
  <2>1. /\ IsFiniteSet(B) /\ DOMAIN split = B
        /\ \A b \in B : \A c \in Fields : split[b][c] \in Int
        /\ \A c \in Fields : Column(split, c, B) = Column(daily, c, Matching(f))
    BY SplitAddsUp
  <2> HIDE DEF B, split
  <2>2. Folded(split, B) = [c \in Fields |-> Column(split, c, B)]
    BY <2>1, FoldIs
  <2>3. [c \in Fields |-> Column(split, c, B)] = AddUp(Matching(f))
    BY <1>2, <2>1
  <2> QED BY <2>1, <2>2, <2>3, Zenon DEF split, Folded
<1>4. ASSUME f = [f EXCEPT !.from = 0, !.slot = None], f.version # None
      PROVE  VersionStats(f.version) = AddUp(Matching(f))
  <2>1. f.from = 0 /\ f.slot = None /\ f.to = today
    BY <1>4 DEF Filters
  <2>2. \A g \in DOMAIN daily : g.day \in f.from .. f.to
    BY <2>1 DEF DailyOK
  <2>3. {g \in DOMAIN daily : g.version = f.version} = Matching(f)
    BY <1>4, <2>1, <2>2 DEF Matching
  <2> QED BY <2>3 DEF VersionStats
<1>5. AddUp(Matching(f)).wins \in Int /\ AddUp(Matching(f)).losses \in Int
  BY <1>1, <1>2, AddUpIs DEF Fields
<1>6. Plus(EraSplit(f).current, EraSplit(f).legacy) = AddUp(Matching(f))
  BY ErasAddUp
<1> HIDE DEF Fields
<1> QED
  BY <1>3, <1>4, <1>5, <1>6, VerdictFollowsRate, Zenon

\* However the rollup is split the parts add up, for any signals, groups, filters
\* and history, and the page's verdict is on the side of break-even its rate is on
\* (rpc.ts:72-118, signalStats.ts:195-222 and 297-306).
THEOREM NumbersAddUp == Spec => []StatsAgree
<1>1. IInv /\ DailyOK => StatsAgree
  BY PageAgrees
<1>2. Init => IInv /\ DailyOK
  BY InitInv, DailyInit
<1>3. IInv /\ DailyOK /\ [Next]_vars => IInv' /\ DailyOK'
  BY NextInv, DailyStep
<1> QED
  BY <1>1, <1>2, <1>3, PTL DEF Spec
===============================================================================
