------------------------------ MODULE Settlement ------------------------------
(***************************************************************************)
(* From a recorded signal to a published number.  The hub settles pending  *)
(* signals, rebuilds the daily rollup, prunes raw rows after rolling them  *)
(* up once more, and answers the statistics page from the rollup alone.    *)
(* Sources: apps/data-hub/src/pipeline.ts, rpc.ts, the pipeline and stats  *)
(* routes of index.ts, and apps/web/lib/signalStats.ts.  How a signal gets *)
(* recorded is SignalPipeline's subject; here it is one step, or two when  *)
(* the spool held it.                                                      *)
(*                                                                         *)
(* One member of Signals stands for Size signals of one group and fate, so *)
(* that two of them reach the thirty trades a rate needs.                  *)
(***************************************************************************)
EXTENDS Integers, FiniteSets, FiniteSetsExt, Functions, TLC

CONSTANTS Signals, Passes,      \* signals, and settlement passes under way
          Kinds,                \* what a set of signals may be: functions on Signals
                                \* to records of version, slot and forced
          Claims,               \* what a pass may say of a price: win, loss, tie,
                                \* no price, or a word nobody knows
          None,                 \* NULL
          Size,                 \* signals a member of Signals stands for
          KeepDays, Week,       \* retention, and the days prune rolls up again
          RefreshDays,          \* days before today the regular refresh rebuilds
          MaxHeld, MaxPending,  \* days a row may wait in the spool, or for a price
          MaxDay

ASSUME SettlementAssumption ==
  /\ KeepDays \in Nat \ {0} /\ Week \in Nat /\ MaxDay \in Nat /\ Size \in Nat \ {0}
  /\ IsFiniteSet(Signals) /\ None \notin Int
  /\ MaxHeld \in Nat /\ MaxHeld < KeepDays /\ MaxPending \in Nat /\ MaxPending < KeepDays

VARIABLES kind,     \* what each signal is, one of Kinds
          today,    \* UTC day
          where,    \* where each signal is: absent, held, stored or pruned
          made,     \* the day each was made (created_ms)
          outcome,  \* the outcome column, kept here after the row is pruned
          pass,     \* the rows each pass has read and still has to settle
          daily,    \* signal_daily: group -> counters
          cutting   \* the cut day of a prune between its two statements

vars == <<kind, today, where, made, outcome, pass, daily, cutting>>
rows == <<kind, where, made, outcome>>

Days == 0 .. MaxDay

Init ==
  /\ kind \in Kinds /\ today = 0 /\ cutting = None
  /\ where = [s \in Signals |-> "absent"]
  /\ made = [s \in Signals |-> 0]
  /\ outcome = [s \in Signals |-> "pending"]
  /\ pass = [p \in Passes |-> {}]
  /\ daily = <<>>

-------------------------------------------------------------------------------
(* The rollup *)

Stored == {s \in Signals : where[s] = "stored"}
Recorded == {s \in Signals : where[s] \in {"stored", "pruned"}}
GroupOf(s) == [day |-> made[s], version |-> kind[s].version, slot |-> kind[s].slot]

Counted(S) == Size * Cardinality(S)
Fair(S, o) == Counted({s \in S : outcome[s] = o /\ ~kind[s].forced})

\* The SELECT of the refresh, for the rows of one group.
Counters(S) ==
  [signals |-> Counted(S),
   wins |-> Fair(S, "win"), losses |-> Fair(S, "loss"), ties |-> Fair(S, "tie"),
   unresolved |-> Counted({s \in S : outcome[s] = "unresolved"}),
   pending |-> Counted({s \in S : outcome[s] = "pending"}),
   forced |-> Counted({s \in S : kind[s].forced})]

\* Groups with rows in the range are rebuilt, the others stand.
RefreshDaily(from, to) ==
  LET inRange == {s \in Stored : made[s] \in from .. to}
      groups == {GroupOf(s) : s \in inRange}
  IN [g \in groups \cup DOMAIN daily |->
        IF g \in groups THEN Counters({s \in inRange : GroupOf(s) = g}) ELSE daily[g]]

-------------------------------------------------------------------------------
(* The signals *)

Record(s) ==
  /\ where[s] = "absent"
  /\ where' = [where EXCEPT ![s] = "stored"]
  /\ made' = [made EXCEPT ![s] = today]
  /\ UNCHANGED <<kind, today, outcome, pass, daily, cutting>>

\* D1 refuses the batch: the spool keeps it with the moment of the call.
Hold(s) ==
  /\ where[s] = "absent"
  /\ where' = [where EXCEPT ![s] = "held"]
  /\ made' = [made EXCEPT ![s] = today]
  /\ UNCHANGED <<kind, today, outcome, pass, daily, cutting>>

Replay(s) ==
  /\ where[s] = "held"
  /\ where' = [where EXCEPT ![s] = "stored"]
  /\ UNCHANGED <<kind, today, made, outcome, pass, daily, cutting>>

\* The generator lists the pending rows, then prices each one.
Pending == {s \in Stored : outcome[s] = "pending"}

ReadPending(p) ==
  /\ pass[p] = {} /\ Pending # {}
  /\ pass' = [pass EXCEPT ![p] = Pending]
  /\ UNCHANGED <<today, rows, daily, cutting>>

\* Mutation: a signal without a price stays pending.
OutcomeLeftOpen(claim) == IF claim \in {"win", "loss", "tie"} THEN claim ELSE "pending"

OutcomeFor(claim) == IF claim \in {"win", "loss", "tie"} THEN claim ELSE "unresolved"

\* Mutation: the UPDATE without its `outcome = 'pending'`.
ResolveAgain(p, s) ==
  /\ s \in pass[p]
  /\ \E claim \in Claims : outcome' = [outcome EXCEPT ![s] = OutcomeFor(claim)]
  /\ pass' = [pass EXCEPT ![p] = @ \ {s}]
  /\ UNCHANGED <<kind, today, where, made, daily, cutting>>

\* One UPDATE of the batch; each runs on its own.
Resolve(p, s) ==
  /\ s \in pass[p]
  /\ \E claim \in Claims :
       outcome' = IF s \in Pending
                  THEN [outcome EXCEPT ![s] = OutcomeFor(claim)] ELSE outcome
  /\ pass' = [pass EXCEPT ![p] = @ \ {s}]
  /\ UNCHANGED <<kind, today, where, made, daily, cutting>>

\* D1 fails in the middle of a batch: the rest of it is not applied.
FailPass(p) ==
  /\ pass[p] # {}
  /\ pass' = [pass EXCEPT ![p] = {}]
  /\ UNCHANGED <<today, rows, daily, cutting>>

-------------------------------------------------------------------------------
(* The daily jobs *)

Refresh ==
  /\ daily' = RefreshDaily(today - RefreshDays, today)
  /\ UNCHANGED <<today, rows, pass, cutting>>

\* Mutation: prune rolls up the cut day alone.
PruneRefreshesOneDay ==
  /\ cutting = None /\ today >= KeepDays
  /\ cutting' = today - KeepDays
  /\ daily' = RefreshDaily(cutting', cutting')
  /\ UNCHANGED <<today, rows, pass>>

\* prune: the last refresh of what is about to go, and its own statement later
\* the delete, both with the cut of the moment the request came.
PruneRefresh ==
  /\ cutting = None /\ today >= KeepDays
  /\ cutting' = today - KeepDays
  /\ daily' = RefreshDaily(cutting' - Week, cutting')
  /\ UNCHANGED <<today, rows, pass>>

PruneDelete ==
  /\ cutting # None
  /\ where' = [s \in Signals |-> IF s \in Stored /\ made[s] <= cutting
                                 THEN "pruned" ELSE where[s]]
  /\ cutting' = None
  /\ UNCHANGED <<kind, today, made, outcome, pass, daily>>

PruneFails ==
  /\ cutting # None
  /\ cutting' = None
  /\ UNCHANGED <<today, rows, pass, daily>>

\* Midnight.  The outside world keeps its side: the spool and the settlement are
\* at most MaxHeld and MaxPending days behind, and prune has not been away for
\* more than Week days.  The regular refresh may be away for ever.
NextDay ==
  /\ today < MaxDay
  /\ \A s \in Signals :
       /\ where[s] = "held" => today < made[s] + MaxHeld
       /\ s \in Pending => today < made[s] + MaxPending
       /\ where[s] = "stored" => today < made[s] + KeepDays + Week
  /\ today' = today + 1
  /\ UNCHANGED <<rows, pass, daily, cutting>>

Next ==
  \/ \E s \in Signals : Record(s) \/ Hold(s) \/ Replay(s)
  \/ \E p \in Passes : \/ ReadPending(p) \/ FailPass(p)
                       \/ \E s \in Signals : Resolve(p, s)
  \/ Refresh \/ PruneRefresh \/ PruneDelete \/ PruneFails \/ NextDay

\* The jobs and the drain run again and again, and D1 does not fail every pass.
Fairness ==
  /\ WF_vars(Refresh) /\ WF_vars(PruneRefresh) /\ SF_vars(PruneDelete)
  /\ \A s \in Signals : WF_vars(Replay(s))
  /\ WF_vars(\E p \in Passes : ReadPending(p))
  /\ \A s \in Signals : SF_vars(\E p \in Passes : Resolve(p, s))

Spec == Init /\ [][Next]_vars
FairSpec == Spec /\ Fairness

-------------------------------------------------------------------------------
(* The statistics page *)

Zero == Counters({})
AddUp(G) == [c \in DOMAIN Zero |-> MapThenSumSet(LAMBDA g : daily[g][c], G)]
Plus(a, b) == [c \in DOMAIN Zero |-> a[c] + b[c]]

Matching(f) ==
  {g \in DOMAIN daily : /\ g.day \in f.from .. f.to
                        /\ f.slot \in {None, g.slot}
                        /\ f.version \in {None, g.version}}

\* The bucket a group of the rollup is summed into.
Bucket(by, g) ==
  CASE by = "total" -> "total"
    [] by = "slot" -> g.slot
    [] by = "day" -> g.day
    [] by = "version" -> IF g.version = None THEN "current" ELSE g.version

Buckets(f, by) == {Bucket(by, g) : g \in Matching(f)}
Stats(f, by) ==
  [b \in Buckets(f, by) |-> AddUp({g \in Matching(f) : Bucket(by, g) = b})]

\* The page's headline and the line under it.
EraSplit(f) ==
  LET eras == Stats(f, "version")
  IN [current |-> IF "current" \in DOMAIN eras THEN eras["current"] ELSE Zero,
      legacy |-> FoldSet(LAMBDA b, sum : Plus(eras[b], sum), Zero,
                         DOMAIN eras \ {"current"})]

\* The view strategy_version_stats: the lifetime numbers of a published version.
VersionStats(v) == AddUp({g \in DOMAIN daily : g.version = v})

\* Mutation: thirty trades are not yet enough for the hub.
WinRateOverThirty(b) ==
  LET decided == b.wins + b.losses
  IN IF decided > 30 THEN (b.wins * 2000 + decided) \div (2 * decided) ELSE None

\* Tenths of a percent, rounded half up, and nothing below thirty trades.
WinRate(b) ==
  LET decided == b.wins + b.losses
  IN IF decided >= 30 THEN (b.wins * 2000 + decided) \div (2 * decided) ELSE None

\* The lower end of Wilson's interval lies above break-even: the score test at
\* 55.6% rejects, which is the interval's definition.
Proven(b) ==
  LET over == 1000 * b.wins - 556 * (b.wins + b.losses)
  IN over > 0 /\ over * over > 948353 * (b.wins + b.losses)

Verdict(b) ==
  LET decided == b.wins + b.losses
  IN CASE decided < 30 -> "insufficient"
       [] decided >= 30 /\ 1000 * b.wins < 526 * decided -> "losing"
       [] decided >= 30 /\ 1000 * b.wins \in 526 * decided .. 556 * decided - 1 -> "breakeven"
       [] decided >= 30 /\ 1000 * b.wins >= 556 * decided ->
            IF Proven(b) THEN "proven" ELSE "above"

Filters ==
  [from : {0, today}, to : {today}, slot : {None} \cup {k.slot : k \in Range(kind)},
   version : {None} \cup {k.version : k \in Range(kind)}]

-------------------------------------------------------------------------------
(* Properties *)

\* The group of a signal is in the rollup, with every signal recorded in it.
InTheRollup(s) ==
  /\ GroupOf(s) \in DOMAIN daily
  /\ daily[GroupOf(s)] = Counters({r \in Recorded : GroupOf(r) = GroupOf(s)})

\* Pruning costs no number: whatever day a pruned signal was made, the rollup of
\* its group still counts every signal recorded in it, with its outcome.  It
\* rests on the order inside prune, on the week it reaches back, on NULL versions
\* forming a group, and on no late row or verdict reaching a day already cut
\* (pipeline.ts:299-306; MaxHeld and MaxPending below KeepDays).
PruneKeepsTheNumbers ==
  \A s \in Signals : where[s] = "pruned" => InTheRollup(s)

\* However the rollup is split, the parts add up to the total: by slot, by day,
\* and the page's current strategy with its legacy line; a version's lifetime
\* line is that version's bucket; and the page passes a verdict on exactly the
\* rates the hub gives out, on the same side of break-even (rpc.ts:72-118, the
\* view strategy_version_stats, signalStats.ts:195-222 and 297-306).
StatsAgree ==
  \A f \in Filters :
    LET total == AddUp(Matching(f))
        eras == EraSplit(f)
        rate == WinRate(total)
    IN /\ Plus(eras.current, eras.legacy) = total
       /\ \A by \in {"slot", "day"} : LET split == Stats(f, by) IN
            FoldSet(LAMBDA b, sum : Plus(split[b], sum), Zero, DOMAIN split) = total
       /\ f = [f EXCEPT !.from = 0, !.slot = None] /\ f.version # None =>
            VersionStats(f.version) = total
       /\ (Verdict(total) = "insufficient") = (rate = None)
       /\ Verdict(total) = "losing" => rate <= 526
       /\ Verdict(total) \in {"above", "proven"} => rate >= 556

\* A signal is settled once: a verdict stands against passes that read the list
\* before it and against passes that are sent again (pipeline.ts:187-189).
SettledOnce ==
  [][\A s \in Signals : outcome[s] # "pending" => outcome'[s] = outcome[s]]_vars

\* Every signal that was made is settled in the end, counted in the rollup with
\* its outcome, and stays so: also one that waited in the spool over midnight
\* and is written into a day the page already shows.
EverySignalCounts ==
  \A s \in Signals :
    where[s] # "absent" ~>
      [](/\ outcome[s] # "pending" /\ where[s] # "held"
         /\ (\E r \in Signals : where[r] \in {"absent", "held"})
            \/ InTheRollup(s))

===============================================================================
