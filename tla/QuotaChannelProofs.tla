-------------------------- MODULE QuotaChannelProofs --------------------------
(***************************************************************************)
(* No app is paused without a lockout or without an end, and an open app   *)
(* knows the lockout LiveHub knows: proved for any number of apps, days,   *)
(* reports and faults.                                                     *)
(***************************************************************************)
EXTENDS QuotaChannel, TLAPS

StageNames == {"none", "sent", "refused", "rows", "failed", "locked"}
StageOK == [at : StageNames, resets : Nat]

TypeOK ==
  /\ day \in Nat /\ quota \in Days /\ lockouts \in SUBSET Nat
  /\ query \in [Queries -> StageOK]
  /\ DOMAIN reports = Days
  /\ online \in [Apps -> BOOLEAN]
  /\ inbox \in [Apps -> Seq(Messages)]
  /\ active \in [Apps -> BOOLEAN]
  /\ resumesAt \in [Apps -> Nat]
  /\ timer \in [Apps -> {"none", "reset", "retry"}]
  /\ endedBy \in [Apps -> {"nothing", "read", "hub"}]

\* A reset time somebody knows of follows a day on which D1 did lock.
Caused(r) == \E d \in lockouts : d < r
QuotaNews(m) == m[1] = "quota"

SourcesCaused ==
  /\ locked => Caused(day + 1)
  /\ \A q \in Queries : /\ query[q].at = "refused" => Caused(day + 1)
                        /\ query[q].at = "locked" => Caused(query[q].resets)
  /\ \A r \in Days : reports[r] > 0 => Caused(r)
  /\ quota # NoLockout => Caused(quota)
NewsCaused ==
  \A a \in Apps : \A i \in 1 .. Len(inbox[a]) :
    QuotaNews(inbox[a][i]) => inbox[a][i][2] \in Nat /\ Caused(inbox[a][i][2])
PausesCaused == \A a \in Apps : active[a] => Caused(resumesAt[a])
PausesEnd == \A a \in Apps : active[a] => timer[a] # "none" \/ ~Free(Probe(a))

\* What the socket still holds is no news, or the lockout is the last of it.
NoNews(box) == \A i \in 1 .. Len(box) : box[i][1] = "open"
LockoutIsLast(box) ==
  \E i \in 1 .. Len(box) :
    QuotaNews(box[i]) /\ \A j \in i + 1 .. Len(box) : box[j][1] = "open"
Knows(a) == active[a] \/ endedBy[a] = "read"
NewsReaches ==
  quota > day =>
    \A a \in Apps : online[a] =>
      LockoutIsLast(inbox[a]) \/ (NoNews(inbox[a]) /\ Knows(a))

IInv == TypeOK /\ SourcesCaused /\ NewsCaused /\ PausesCaused /\ PausesEnd /\ NewsReaches

-------------------------------------------------------------------------------
(* Queries and messages *)

LEMMA QueryNames ==
  \A a \in Apps : /\ Read(a) \in Queries /\ Probe(a) \in Queries
                 /\ \A b \in Apps : Read(a) # Probe(b) /\ (Probe(a) = Probe(b) => a = b)
                 /\ Service # Probe(a) /\ Cron # Probe(a)
BY ChannelAssumption DEF Queries, Read, Probe

LEMMA MessageKinds ==
  \A m \in Messages : m[1] \in {"open", "resumed"} \/ (QuotaNews(m) /\ m[2] \in Days)
<1> TAKE m \in Messages
<1>1. CASE m \in {<<"open">>, <<"resumed">>}
  BY <1>1
<1>2. CASE \E r \in Days : m = <<"quota", r>>
  BY <1>2 DEF QuotaNews
<1> QED
  BY <1>1, <1>2 DEF Messages

\* Delivering the first message keeps what the rest says.
LEMMA TailNews ==
  ASSUME NEW box \in Seq(Messages), box # <<>>
  PROVE  /\ Tail(box) \in Seq(Messages) /\ Head(box) = box[1] /\ 1 \in 1 .. Len(box)
         /\ \A i \in 1 .. Len(Tail(box)) : i + 1 \in 1 .. Len(box) /\ Tail(box)[i] = box[i + 1]
         /\ NoNews(box) => NoNews(Tail(box)) /\ Head(box)[1] = "open"
         /\ LockoutIsLast(box) =>
              LockoutIsLast(Tail(box)) \/ (QuotaNews(Head(box)) /\ NoNews(Tail(box)))
<1>1. /\ Tail(box) \in Seq(Messages) /\ Head(box) = box[1] /\ Len(box) \in Nat \ {0}
      /\ Len(Tail(box)) = Len(box) - 1
  OBVIOUS
<1>2. \A i \in 1 .. Len(Tail(box)) : i + 1 \in 1 .. Len(box) /\ Tail(box)[i] = box[i + 1]
  BY <1>1
<1>3. NoNews(box) => NoNews(Tail(box)) /\ Head(box)[1] = "open"
  BY <1>1, <1>2 DEF NoNews
<1>4. ASSUME LockoutIsLast(box)
      PROVE  LockoutIsLast(Tail(box)) \/ (QuotaNews(Head(box)) /\ NoNews(Tail(box)))
  <2>1. PICK i \in 1 .. Len(box) :
          QuotaNews(box[i]) /\ \A j \in i + 1 .. Len(box) : box[j][1] = "open"
    BY <1>4 DEF LockoutIsLast
  <2>2. CASE i = 1
    <3>1. \A j \in 1 .. Len(Tail(box)) : j + 1 \in i + 1 .. Len(box)
      BY <1>1, <2>2
    <3> QED
      BY <1>1, <1>2, <2>1, <2>2, <3>1 DEF NoNews
  <2>3. CASE i # 1
    <3>1. i - 1 \in 1 .. Len(Tail(box)) /\ Tail(box)[i - 1] = box[i]
      BY <1>1, <1>2, <2>3
    <3>2. \A j \in (i - 1) + 1 .. Len(Tail(box)) : Tail(box)[j] = box[j + 1] /\ j + 1 \in i + 1 .. Len(box)
      BY <1>1, <1>2, <2>3
    <3> QED
      BY <2>1, <3>1, <3>2 DEF LockoutIsLast
  <2> QED
    BY <2>2, <2>3
<1>5. 1 \in 1 .. Len(box)
  BY <1>1
<1>6. LockoutIsLast(box) =>
        LockoutIsLast(Tail(box)) \/ (QuotaNews(Head(box)) /\ NoNews(Tail(box)))
  BY <1>4
<1> QED
  BY <1>1, <1>2, <1>3, <1>5, <1>6

LEMMA AppendNews ==
  ASSUME NEW box \in Seq(Messages), NEW m \in Messages
  PROVE  /\ Append(box, m) \in Seq(Messages)
         /\ \A i \in 1 .. Len(Append(box, m)) :
              (i \in 1 .. Len(box) /\ Append(box, m)[i] = box[i]) \/ Append(box, m)[i] = m
         /\ QuotaNews(m) => LockoutIsLast(Append(box, m))
<1>1. /\ Append(box, m) \in Seq(Messages) /\ Len(box) \in Nat /\ Len(Append(box, m)) = Len(box) + 1
      /\ Append(box, m)[Len(box) + 1] = m
      /\ \A i \in 1 .. Len(box) : Append(box, m)[i] = box[i]
  OBVIOUS
<1>2. Len(box) + 1 \in 1 .. Len(Append(box, m))
      /\ \A j \in (Len(box) + 1) + 1 .. Len(Append(box, m)) : FALSE
  BY <1>1
<1>3. QuotaNews(m) => LockoutIsLast(Append(box, m))
  BY <1>1, <1>2 DEF LockoutIsLast
<1>4. \A i \in 1 .. Len(Append(box, m)) : i \in 1 .. Len(box) \/ i = Len(box) + 1
  BY <1>1
<1> QED
  BY <1>1, <1>3, <1>4

-------------------------------------------------------------------------------
(* Parts of the invariant that a step leaves alone *)

LEMMA InitInv == Init => IInv
<1> SUFFICES ASSUME Init PROVE IInv
  OBVIOUS
<1>1. TypeOK
  <2>1. query \in [Queries -> StageOK]
    BY DEF Init, Stage, NoLockout, StageOK, StageNames
  <2>2. inbox \in [Apps -> Seq(Messages)]
    BY DEF Init
  <2> QED
    BY <2>1, <2>2, ChannelAssumption DEF Init, TypeOK, NoLockout, Days
<1>2. SourcesCaused /\ NewsCaused
  BY DEF Init, SourcesCaused, NewsCaused, Stage, Days
<1>3. PausesCaused /\ PausesEnd /\ NewsReaches
  BY DEF Init, PausesCaused, PausesEnd, NewsReaches, NoLockout
<1> QED
  BY <1>1, <1>2, <1>3 DEF IInv

\* A step that only moves queries: a stage is a refusal or a lockout only where
\* D1 is locked or refused before, and no probe becomes free.
LEMMA QueryStepInv ==
  ASSUME IInv, NEW q \in Queries, NEW stage \in StageOK, Becomes(q, stage),
         UNCHANGED <<d1Vars, quota, socketVars, appVars>>,
         DOMAIN reports' = Days,
         \A r \in Days : reports'[r] > 0 => Caused(r),
         stage.at = "refused" => Caused(day + 1),
         stage.at = "locked" => Caused(stage.resets),
         \A a \in Apps : q = Probe(a) => stage.at # "none"
  PROVE  IInv'
<1> USE DEF d1Vars, socketVars, appVars
<1>1. TypeOK'
  BY DEF IInv, TypeOK, Becomes
<1>2. \A x \in Queries : query'[x] = IF x = q THEN stage ELSE query[x]
  BY DEF IInv, TypeOK, Becomes
<1>3. SourcesCaused'
  BY <1>2 DEF IInv, SourcesCaused, Caused
<1>4. NewsCaused' /\ PausesCaused' /\ NewsReaches'
  BY DEF IInv, NewsCaused, PausesCaused, NewsReaches, Caused, Knows
<1>5. PausesEnd'
  BY <1>2, QueryNames DEF IInv, PausesEnd, Free
<1> QED
  BY <1>1, <1>3, <1>4, <1>5 DEF IInv

\* A step of one app: it hands its query's answer on, or takes a message in.
AppVarsOf(b) == <<active[b], resumesAt[b], timer[b], endedBy[b], inbox[b], query[Probe(b)]>>

LEMMA AppStepInv ==
  ASSUME IInv, NEW a \in Apps, TypeOK',
         UNCHANGED <<d1Vars, reports, quota, online>>,
         \A q \in Queries : query'[q] = query[q] \/ query'[q].at \in {"none", "sent"},
         \A b \in Apps \ {a} : AppVarsOf(b)' = AppVarsOf(b),
         active'[a] => Caused(resumesAt'[a]),
         active'[a] => timer'[a] # "none" \/ query'[Probe(a)].at # "none",
         \A i \in 1 .. Len(inbox'[a]) : \E j \in 1 .. Len(inbox[a]) : inbox'[a][i] = inbox[a][j],
         LockoutIsLast(inbox[a]) =>
           LockoutIsLast(inbox'[a]) \/ (NoNews(inbox'[a]) /\ Knows(a)'),
         NoNews(inbox[a]) /\ Knows(a) => NoNews(inbox'[a]) /\ Knows(a)'
  PROVE  IInv'
<1> USE DEF d1Vars
<1>1. \A r : Caused(r)' <=> Caused(r)
  BY DEF Caused
<1>2. SourcesCaused'
  BY <1>1 DEF IInv, SourcesCaused
<1>3. \A b \in Apps \ {a} : /\ active'[b] = active[b] /\ resumesAt'[b] = resumesAt[b]
                           /\ timer'[b] = timer[b] /\ endedBy'[b] = endedBy[b]
                           /\ inbox'[b] = inbox[b] /\ query'[Probe(b)] = query[Probe(b)]
  BY DEF AppVarsOf
<1>4. NewsCaused'
  <2> SUFFICES ASSUME NEW b \in Apps, NEW i \in 1 .. Len(inbox'[b]), QuotaNews(inbox'[b][i])
               PROVE  inbox'[b][i][2] \in Nat /\ Caused(inbox'[b][i][2])
    BY <1>1 DEF NewsCaused, QuotaNews
  <2>1. PICK j \in 1 .. Len(inbox[b]) : inbox'[b][i] = inbox[b][j]
    BY <1>3
  <2> QED
    BY <2>1 DEF IInv, NewsCaused
<1>5. PausesCaused'
  BY <1>1, <1>3 DEF IInv, PausesCaused
<1>6. PausesEnd'
  BY <1>3 DEF IInv, PausesEnd, Free
<1>7. NewsReaches'
  <2> SUFFICES ASSUME quota > day, NEW b \in Apps, online[b]
               PROVE  LockoutIsLast(inbox'[b]) \/ (NoNews(inbox'[b]) /\ Knows(b)')
    BY DEF NewsReaches, LockoutIsLast, NoNews, QuotaNews
  <2>1. LockoutIsLast(inbox[b]) \/ (NoNews(inbox[b]) /\ Knows(b))
    BY DEF IInv, NewsReaches
  <2>2. CASE b = a
    BY <2>1, <2>2
  <2>3. CASE b # a
    BY <1>3, <2>1, <2>3 DEF Knows
  <2> QED
    BY <2>2, <2>3
<1> QED
  BY <1>2, <1>4, <1>5, <1>6, <1>7 DEF IInv

-------------------------------------------------------------------------------
(* Each action keeps the invariant *)

LEMMA StageTypes ==
  /\ \A at \in StageNames : Stage(at) \in StageOK /\ Stage(at).at = at
  /\ \A r \in Nat : LET s == [at |-> "locked", resets |-> r]
                   IN s \in StageOK /\ s.at = "locked" /\ s.resets = r
BY DEF Stage, StageNames, StageOK, NoLockout

\* Requests go out, D1 answers or refuses, answers are lost.
LEMMA RequestInv ==
  ASSUME IInv, \/ \E a \in Apps : StartRead(a) \/ LoseAnswer(a)
               \/ ServiceRefused \/ CronLooks \/ CronFails
               \/ \E q \in Queries : Execute(q)
  PROVE  IInv'
<1> USE DEF hubVars, socketVars
<1>1. /\ DOMAIN reports = Days /\ (\A r \in Days : reports[r] > 0 => Caused(r))
      /\ (locked => Caused(day + 1))
      /\ Service \in Queries /\ Cron \in Queries
      /\ \A a \in Apps : Cron # Probe(a) /\ Read(a) # Probe(a) /\ Service # Probe(a)
      /\ \A a, b \in Apps : Read(a) # Probe(b)
  BY QueryNames DEF IInv, TypeOK, SourcesCaused, Queries
<1>2. {"none", "sent", "refused", "rows", "failed"} \subseteq StageNames
  BY DEF StageNames
<1>3. ASSUME NEW a \in Apps, StartRead(a) PROVE IInv'
  BY <1>1, <1>2, <1>3, StageTypes, QueryNames, QueryStepInv DEF StartRead
<1>4. ASSUME NEW a \in Apps, LoseAnswer(a) PROVE IInv'
  BY <1>1, <1>2, <1>4, StageTypes, QueryNames, QueryStepInv DEF LoseAnswer
<1>5. CASE ServiceRefused
  BY <1>1, <1>2, <1>5, StageTypes, QueryStepInv DEF ServiceRefused
<1>6. CASE CronLooks
  BY <1>1, <1>2, <1>6, StageTypes, QueryStepInv DEF CronLooks
<1>7. CASE CronFails
  BY <1>1, <1>2, <1>7, StageTypes, QueryStepInv DEF CronFails
<1>8. ASSUME NEW q \in Queries, Execute(q) PROVE IInv'
  BY <1>1, <1>2, <1>8, StageTypes, QueryStepInv DEF Execute
<1> QED
  BY <1>3, <1>4, <1>5, <1>6, <1>7, <1>8

\* The reset time is tomorrow's, and it is D1 that has refused.
LEMMA RefuseInv ==
  ASSUME IInv, NEW q \in Queries, Refuse(q)
  PROVE  IInv'
<1> DEFINE stage == IF q \in {Service, Cron} THEN Stage("none")
                    ELSE [at |-> "locked", resets |-> NextUtcMidnight]
<1>1. Caused(day + 1) /\ day + 1 \in Nat
  BY DEF Refuse, IsQuota, IInv, TypeOK, SourcesCaused
<1>2. /\ stage \in StageOK /\ stage.at # "refused"
      /\ stage.at = "locked" => stage.resets = day + 1
      /\ stage.at = "none" => q \in {Service, Cron}
  BY <1>1, StageTypes DEF NextUtcMidnight, StageNames
<1>3. DOMAIN reports' = Days /\ \A r \in Days : reports'[r] > 0 => Caused(r)
  BY <1>1 DEF Refuse, Report, NextUtcMidnight, IInv, TypeOK, SourcesCaused
<1>4. Becomes(q, stage) /\ UNCHANGED <<d1Vars, quota, socketVars, appVars>>
  BY DEF Refuse
<1> HIDE DEF stage
<1> QED
  BY <1>1, <1>2, <1>3, <1>4, QueryNames, QueryStepInv

\* What quota.ts makes of a report and of a recovery.
LEMMA ReportQuotaDoes ==
  ASSUME TypeOK, NEW a \in Apps, NEW at \in Nat, Caused(at), ReportQuota(a, at)
  PROVE  /\ active' \in [Apps -> BOOLEAN] /\ resumesAt' \in [Apps -> Nat]
         /\ timer' \in [Apps -> {"none", "reset", "retry"}]
         /\ endedBy' \in [Apps -> {"nothing", "read", "hub"}]
         /\ active'[a] /\ Caused(resumesAt'[a]) /\ timer'[a] # "none"
         /\ \A b \in Apps \ {a} : /\ active'[b] = active[b] /\ resumesAt'[b] = resumesAt[b]
                                /\ timer'[b] = timer[b] /\ endedBy'[b] = endedBy[b]
<1> DEFINE until == IF at > resumesAt[a] THEN at ELSE resumesAt[a]
<1>1. until \in Nat /\ Caused(until)
  BY DEF TypeOK, Caused
<1>2. /\ resumesAt' = [resumesAt EXCEPT ![a] = until]
      /\ active' = [active EXCEPT ![a] = TRUE] /\ timer' = [timer EXCEPT ![a] = "reset"]
      /\ endedBy' = [endedBy EXCEPT ![a] = "nothing"]
  BY DEF ReportQuota
<1> HIDE DEF until
<1> QED
  BY <1>1, <1>2 DEF TypeOK

LEMMA ReportResumedDoes ==
  ASSUME TypeOK, NEW a \in Apps, NEW by \in {"read", "hub"}, ReportResumed(a, by)
  PROVE  /\ active' \in [Apps -> BOOLEAN] /\ resumesAt' \in [Apps -> Nat]
         /\ timer' \in [Apps -> {"none", "reset", "retry"}]
         /\ endedBy' \in [Apps -> {"nothing", "read", "hub"}]
         /\ ~active'[a] /\ (by = "read" /\ Knows(a) => Knows(a)')
         /\ \A b \in Apps \ {a} : /\ active'[b] = active[b] /\ resumesAt'[b] = resumesAt[b]
                                /\ timer'[b] = timer[b] /\ endedBy'[b] = endedBy[b]
<1>1. CASE active[a]
  <2>1. /\ active' = [active EXCEPT ![a] = FALSE] /\ resumesAt' = [resumesAt EXCEPT ![a] = 0]
        /\ timer' = [timer EXCEPT ![a] = "none"] /\ endedBy' = [endedBy EXCEPT ![a] = by]
    BY <1>1 DEF ReportResumed, NoLockout
  <2> QED
    BY <2>1 DEF TypeOK, Knows
<1>2. CASE ~active[a]
  BY <1>2 DEF TypeOK, ReportResumed, Knows, appVars
<1> QED
  BY <1>1, <1>2

LEMMA CheckInv ==
  ASSUME IInv, NEW a \in Apps, Check(a)
  PROVE  IInv'
<1> USE DEF hubVars, socketVars
<1>1. Stage("sent") \in StageOK /\ Stage("sent").at = "sent" /\ Probe(a) \in Queries
  BY StageTypes, QueryNames DEF StageNames
<1>2. /\ UNCHANGED <<d1Vars, reports, quota, online, inbox, active, resumesAt, endedBy>>
      /\ timer' = [timer EXCEPT ![a] = "none"]
      /\ IF active[a] THEN Becomes(Probe(a), Stage("sent")) ELSE query' = query
  BY DEF Check
<1>3. /\ query' \in [Queries -> StageOK]
      /\ \A q \in Queries : query'[q] = query[q] \/ query'[q].at \in {"none", "sent"}
      /\ active'[a] => query'[Probe(a)].at # "none"
      /\ \A b \in Apps \ {a} : query'[Probe(b)] = query[Probe(b)]
  BY <1>1, <1>2, QueryNames DEF IInv, TypeOK, Becomes
<1>4. TypeOK'
  BY <1>2, <1>3 DEF IInv, TypeOK, d1Vars
<1>5. \A b \in Apps \ {a} : AppVarsOf(b)' = AppVarsOf(b)
  BY <1>2, <1>3 DEF IInv, TypeOK, AppVarsOf
<1>6. active'[a] => Caused(resumesAt'[a])
  BY <1>2 DEF IInv, PausesCaused
<1> QED
  BY <1>2, <1>3, <1>4, <1>5, <1>6, AppStepInv DEF Knows, NoNews, LockoutIsLast, QuotaNews

LEMMA ReadReturnsInv ==
  ASSUME IInv, NEW a \in Apps, ReadReturns(a)
  PROVE  IInv'
<1> USE DEF hubVars, socketVars
<1> DEFINE stage == query[Read(a)]
<1>1. Stage("none") \in StageOK /\ Stage("none").at = "none" /\ Read(a) \in Queries
  BY StageTypes, QueryNames DEF StageNames
<1>2. /\ UNCHANGED <<d1Vars, reports, quota, online, inbox>> /\ Becomes(Read(a), Stage("none"))
      /\ \/ stage.at = "rows" /\ ReportResumed(a, "read")
         \/ stage.at = "locked" /\ ReportQuota(a, stage.resets)
         \/ UNCHANGED appVars
  BY DEF ReadReturns
<1>3. /\ query' \in [Queries -> StageOK]
      /\ \A q \in Queries : query'[q] = query[q] \/ query'[q].at \in {"none", "sent"}
      /\ \A b \in Apps : query'[Probe(b)] = query[Probe(b)]
  BY <1>1, <1>2, QueryNames DEF IInv, TypeOK, Becomes
<1>4. stage.at = "locked" => stage.resets \in Nat /\ Caused(stage.resets)
  BY <1>1 DEF IInv, TypeOK, StageOK, SourcesCaused
<1>5. /\ active' \in [Apps -> BOOLEAN] /\ resumesAt' \in [Apps -> Nat]
      /\ timer' \in [Apps -> {"none", "reset", "retry"}]
      /\ endedBy' \in [Apps -> {"nothing", "read", "hub"}]
      /\ active'[a] => Caused(resumesAt'[a])
      /\ active'[a] => timer'[a] # "none" \/ query'[Probe(a)].at # "none"
      /\ Knows(a) => Knows(a)'
      /\ \A b \in Apps \ {a} : /\ active'[b] = active[b] /\ resumesAt'[b] = resumesAt[b]
                             /\ timer'[b] = timer[b] /\ endedBy'[b] = endedBy[b]
  <2>1. CASE stage.at = "rows" /\ ReportResumed(a, "read")
    BY <2>1, ReportResumedDoes DEF IInv
  <2>2. CASE stage.at = "locked" /\ ReportQuota(a, stage.resets)
    BY <1>4, <2>2, ReportQuotaDoes DEF IInv, Knows
  <2>3. CASE UNCHANGED appVars
    BY <1>3, <2>3 DEF IInv, TypeOK, PausesCaused, PausesEnd, Free, appVars, Knows
  <2> QED
    BY <1>2, <2>1, <2>2, <2>3
<1>6. TypeOK'
  BY <1>2, <1>3, <1>5 DEF IInv, TypeOK, d1Vars
<1>7. \A b \in Apps \ {a} : AppVarsOf(b)' = AppVarsOf(b)
  BY <1>2, <1>3, <1>5 DEF AppVarsOf
<1> QED
  BY <1>2, <1>3, <1>5, <1>6, <1>7, AppStepInv

LEMMA ProbeReturnsInv ==
  ASSUME IInv, NEW a \in Apps, ProbeReturns(a)
  PROVE  IInv'
<1> USE DEF hubVars, socketVars
<1> DEFINE stage == query[Probe(a)]
<1>1. Stage("none") \in StageOK /\ Stage("none").at = "none" /\ Probe(a) \in Queries
  BY StageTypes, QueryNames DEF StageNames
<1>2. /\ UNCHANGED <<d1Vars, reports, quota, online, inbox>> /\ Becomes(Probe(a), Stage("none"))
      /\ IF stage.at = "rows" THEN ReportResumed(a, "read") ELSE StillRefused(a, stage)
  BY DEF ProbeReturns
<1>3. /\ query' \in [Queries -> StageOK]
      /\ \A q \in Queries : query'[q] = query[q] \/ query'[q].at \in {"none", "sent"}
      /\ \A b \in Apps \ {a} : query'[Probe(b)] = query[Probe(b)]
  BY <1>1, <1>2, QueryNames DEF IInv, TypeOK, Becomes
<1>4. stage.at = "locked" => stage.resets \in Nat /\ Caused(stage.resets)
  BY <1>1 DEF IInv, TypeOK, StageOK, SourcesCaused
<1>5. /\ active' \in [Apps -> BOOLEAN] /\ resumesAt' \in [Apps -> Nat]
      /\ timer' \in [Apps -> {"none", "reset", "retry"}]
      /\ endedBy' \in [Apps -> {"nothing", "read", "hub"}]
      /\ active'[a] => Caused(resumesAt'[a])
      /\ active'[a] => timer'[a] # "none"
      /\ Knows(a) => Knows(a)'
      /\ \A b \in Apps \ {a} : /\ active'[b] = active[b] /\ resumesAt'[b] = resumesAt[b]
                             /\ timer'[b] = timer[b] /\ endedBy'[b] = endedBy[b]
  <2>1. CASE stage.at = "rows"
    BY <1>2, <2>1, ReportResumedDoes DEF IInv
  <2>2. CASE stage.at = "locked"
    <3> DEFINE until == IF stage.resets > resumesAt[a] THEN stage.resets ELSE resumesAt[a]
    <3>1. until \in Nat /\ Caused(until)
      BY <1>4, <2>2 DEF IInv, TypeOK, Caused
    <3>2. /\ resumesAt' = [resumesAt EXCEPT ![a] = until]
          /\ active' = [active EXCEPT ![a] = TRUE] /\ timer' = [timer EXCEPT ![a] = "retry"]
          /\ endedBy' = [endedBy EXCEPT ![a] = "nothing"]
      BY <1>2, <2>2 DEF StillRefused, TryLater
    <3> HIDE DEF until
    <3> QED
      BY <3>1, <3>2 DEF IInv, TypeOK, Knows
  <2>3. CASE stage.at \notin {"rows", "locked"}
    BY <1>2, <2>3 DEF StillRefused, TryLater, IInv, TypeOK, PausesCaused, Knows
  <2> QED
    BY <2>1, <2>2, <2>3
<1>6. TypeOK'
  BY <1>2, <1>3, <1>5 DEF IInv, TypeOK, d1Vars
<1>7. \A b \in Apps \ {a} : AppVarsOf(b)' = AppVarsOf(b)
  BY <1>2, <1>3, <1>5 DEF AppVarsOf
<1> QED
  BY <1>2, <1>3, <1>5, <1>6, <1>7, AppStepInv

\* A message is taken in; what is behind it in the socket stays the last word.
LEMMA DeliverInv ==
  ASSUME IInv, NEW a \in Apps, Deliver(a)
  PROVE  IInv'
<1> USE DEF hubVars
<1> DEFINE box == inbox[a]
           rest == Tail(inbox[a])
<1>1. box \in Seq(Messages) /\ box # <<>>
  BY DEF Deliver, IInv, TypeOK
<1>2. /\ rest \in Seq(Messages) /\ Head(box) = box[1] /\ 1 \in 1 .. Len(box)
      /\ \A i \in 1 .. Len(rest) : i + 1 \in 1 .. Len(box) /\ rest[i] = box[i + 1]
      /\ NoNews(box) => NoNews(rest) /\ Head(box)[1] = "open"
      /\ LockoutIsLast(box) => LockoutIsLast(rest) \/ (QuotaNews(Head(box)) /\ NoNews(rest))
  BY <1>1, TailNews
<1>3. /\ UNCHANGED <<d1Vars, reports, quota, online>> /\ inbox' = [inbox EXCEPT ![a] = Tail(@)]
      /\ \/ Head(box)[1] = "open" /\ Opened(a)
         \/ /\ QuotaNews(Head(box)) /\ ReportQuota(a, Head(box)[2])
            /\ UNCHANGED <<query, everConnected>>
         \/ /\ Head(box)[1] = "resumed" /\ ReportResumed(a, "hub")
            /\ UNCHANGED <<query, everConnected>>
  BY DEF Deliver, QuotaNews
<1>4. /\ inbox' \in [Apps -> Seq(Messages)] /\ inbox'[a] = rest
      /\ \A b \in Apps \ {a} : inbox'[b] = inbox[b]
  BY <1>2, <1>3 DEF IInv, TypeOK
<1>5. /\ query' \in [Queries -> StageOK]
      /\ \A q \in Queries : query'[q] = query[q] \/ query'[q].at \in {"none", "sent"}
      /\ \A b \in Apps : query'[Probe(b)] = query[Probe(b)]
  <2>1. Stage("sent") \in StageOK /\ Stage("sent").at = "sent" /\ Read(a) \in Queries
    BY StageTypes, QueryNames DEF StageNames
  <2>2. query' = query \/ Becomes(Read(a), Stage("sent"))
    BY <1>3 DEF Opened
  <2>3. CASE query' = query
    BY <2>3 DEF IInv, TypeOK
  <2>4. CASE Becomes(Read(a), Stage("sent"))
    BY <2>1, <2>4, QueryNames DEF IInv, TypeOK, Becomes
  <2> QED
    BY <2>2, <2>3, <2>4
<1>6. /\ active' \in [Apps -> BOOLEAN] /\ resumesAt' \in [Apps -> Nat]
      /\ timer' \in [Apps -> {"none", "reset", "retry"}]
      /\ endedBy' \in [Apps -> {"nothing", "read", "hub"}]
      /\ active'[a] => Caused(resumesAt'[a])
      /\ active'[a] => timer'[a] # "none" \/ query'[Probe(a)].at # "none"
      /\ QuotaNews(Head(box)) => Knows(a)'
      /\ Head(box)[1] = "open" /\ Knows(a) => Knows(a)'
      /\ \A b \in Apps \ {a} : /\ active'[b] = active[b] /\ resumesAt'[b] = resumesAt[b]
                             /\ timer'[b] = timer[b] /\ endedBy'[b] = endedBy[b]
  <2>1. CASE Head(box)[1] = "open" /\ Opened(a)
    BY <1>5, <2>1 DEF Opened, IInv, TypeOK, PausesCaused, PausesEnd, Free, appVars, Knows, QuotaNews
  <2>2. CASE QuotaNews(Head(box)) /\ ReportQuota(a, Head(box)[2])
    <3>1. Head(box)[2] \in Nat /\ Caused(Head(box)[2])
      BY <1>2, <2>2 DEF IInv, NewsCaused
    <3> QED
      BY <2>2, <3>1, ReportQuotaDoes DEF IInv, Knows, QuotaNews
  <2>3. CASE Head(box)[1] = "resumed" /\ ReportResumed(a, "hub")
    BY <2>3, ReportResumedDoes DEF IInv, QuotaNews
  <2> QED
    BY <1>3, <2>1, <2>2, <2>3
<1>7. TypeOK'
  BY <1>3, <1>4, <1>5, <1>6 DEF IInv, TypeOK, d1Vars
<1>8. \A b \in Apps \ {a} : AppVarsOf(b)' = AppVarsOf(b)
  BY <1>4, <1>5, <1>6 DEF AppVarsOf
<1>9. \A i \in 1 .. Len(inbox'[a]) : \E j \in 1 .. Len(inbox[a]) : inbox'[a][i] = inbox[a][j]
  BY <1>2, <1>4
<1>10. LockoutIsLast(inbox[a]) => LockoutIsLast(inbox'[a]) \/ (NoNews(inbox'[a]) /\ Knows(a)')
  BY <1>2, <1>4, <1>6
<1>11. NoNews(inbox[a]) /\ Knows(a) => NoNews(inbox'[a]) /\ Knows(a)'
  BY <1>2, <1>4, <1>6
<1> QED
  BY <1>3, <1>5, <1>6, <1>7, <1>8, <1>9, <1>10, <1>11, AppStepInv

LEMMA DaysAreNumbers == Days \subseteq Nat /\ NoLockout \in Days
BY ChannelAssumption DEF Days, NoLockout

\* A message to every app whose socket is up.
LEMMA BroadcastDoes ==
  ASSUME TypeOK, NEW m \in Messages, Broadcast(m)
  PROVE  /\ inbox' \in [Apps -> Seq(Messages)]
         /\ \A a \in Apps : online[a] /\ QuotaNews(m) => LockoutIsLast(inbox'[a])
         /\ \A a \in Apps : \A i \in 1 .. Len(inbox'[a]) :
              (i \in 1 .. Len(inbox[a]) /\ inbox'[a][i] = inbox[a][i]) \/ inbox'[a][i] = m
<1>1. \A a \in Apps : /\ inbox[a] \in Seq(Messages)
                     /\ inbox'[a] = IF online[a] THEN Append(inbox[a], m) ELSE inbox[a]
  BY DEF TypeOK, Broadcast
<1>2. ASSUME NEW a \in Apps
      PROVE  /\ inbox'[a] \in Seq(Messages)
             /\ online[a] /\ QuotaNews(m) => LockoutIsLast(inbox'[a])
             /\ \A i \in 1 .. Len(inbox'[a]) :
                  (i \in 1 .. Len(inbox[a]) /\ inbox'[a][i] = inbox[a][i]) \/ inbox'[a][i] = m
  <2>1. CASE online[a]
    <3>1. inbox'[a] = Append(inbox[a], m)
      BY <1>1, <2>1
    <3>2. /\ Append(inbox[a], m) \in Seq(Messages)
          /\ \A i \in 1 .. Len(Append(inbox[a], m)) :
               \/ i \in 1 .. Len(inbox[a]) /\ Append(inbox[a], m)[i] = inbox[a][i]
               \/ Append(inbox[a], m)[i] = m
          /\ QuotaNews(m) => LockoutIsLast(Append(inbox[a], m))
      BY <1>1, AppendNews
    <3> QED
      BY <3>1, <3>2
  <2>2. CASE ~online[a]
    BY <1>1, <2>2
  <2> QED
    BY <2>1, <2>2
<1>3. inbox' = [a \in Apps |-> inbox'[a]]
  BY DEF Broadcast
<1> QED
  BY <1>2, <1>3

LEMMA AnnounceInv ==
  ASSUME IInv, NEW r \in Days, Announce(r)
  PROVE  IInv'
<1> USE DaysAreNumbers DEF d1Vars, appVars
<1> DEFINE m == <<"quota", r>>
<1>1. m \in Messages /\ QuotaNews(m) /\ m[2] = r
  BY DEF Messages, QuotaNews
<1>2. Caused(r)
  BY DEF Announce, IInv, SourcesCaused
<1>3. /\ UNCHANGED <<day, locked, lockouts, query, online, active, resumesAt, timer, endedBy>>
      /\ quota' = r /\ reports' = [reports EXCEPT ![r] = @ - 1] /\ reports[r] > 0
      /\ IF quota = r THEN inbox' = inbox ELSE Broadcast(m)
  BY DEF Announce
<1> HIDE DEF m
<1>4. /\ inbox' \in [Apps -> Seq(Messages)]
      /\ quota # r => \A a \in Apps : online[a] => LockoutIsLast(inbox'[a])
      /\ \A a \in Apps : \A i \in 1 .. Len(inbox'[a]) :
           (i \in 1 .. Len(inbox[a]) /\ inbox'[a][i] = inbox[a][i]) \/ inbox'[a][i] = m
  <2>1. CASE quota = r
    BY <1>3, <2>1 DEF IInv, TypeOK
  <2>2. CASE quota # r
    BY <1>1, <1>3, <2>2, BroadcastDoes DEF IInv
  <2> QED
    BY <2>1, <2>2
<1>5. TypeOK'
  BY <1>3, <1>4 DEF IInv, TypeOK
<1>6. SourcesCaused'
  BY <1>2, <1>3 DEF IInv, TypeOK, SourcesCaused, Caused
<1>7. NewsCaused'
  BY <1>1, <1>2, <1>3, <1>4 DEF IInv, NewsCaused, Caused
<1>8. PausesCaused' /\ PausesEnd'
  BY <1>3 DEF IInv, PausesCaused, PausesEnd, Caused, Free
<1>9. NewsReaches'
  BY <1>3, <1>4 DEF IInv, NewsReaches, Knows
<1> QED
  BY <1>5, <1>6, <1>7, <1>8, <1>9 DEF IInv

LEMMA LoseReportInv ==
  ASSUME IInv, NEW r \in Days, LoseReport(r)
  PROVE  IInv'
<1> USE DEF d1Vars, appVars, socketVars
<1>1. SourcesCaused'
  BY DEF LoseReport, IInv, TypeOK, SourcesCaused, Caused
<1>2. TypeOK'
  BY DEF LoseReport, IInv, TypeOK
<1>3. NewsCaused' /\ PausesCaused' /\ PausesEnd' /\ NewsReaches'
  BY DEF LoseReport, IInv, NewsCaused, PausesCaused, PausesEnd, NewsReaches, Caused, Free, Knows
<1> QED
  BY <1>1, <1>2, <1>3 DEF IInv

\* An app that attaches is told; one that drops waits until it attaches again.
LEMMA SocketInv ==
  ASSUME IInv, NEW a \in Apps, Connect(a) \/ Drop(a)
  PROVE  IInv'
<1> USE DaysAreNumbers DEF d1Vars, appVars, hubVars
<1>1. /\ Welcome \in Seq(Messages) /\ (quota > day => LockoutIsLast(Welcome))
      /\ \A i \in 1 .. Len(Welcome) : QuotaNews(Welcome[i]) => Welcome[i][2] = quota /\ quota # NoLockout
  <2>1. <<"open">> \in Messages /\ <<"quota", quota>> \in Messages
        /\ QuotaNews(<<"quota", quota>>) /\ <<"quota", quota>>[2] = quota /\ ~QuotaNews(<<"open">>)
    BY DEF Messages, QuotaNews, IInv, TypeOK
  <2>2. CASE quota > day
    <3>1. Welcome = <<<<"open">>, <<"quota", quota>>>>
      BY <2>2 DEF Welcome
    <3>2. Len(Welcome) = 2 /\ Welcome[1] = <<"open">> /\ Welcome[2] = <<"quota", quota>>
      BY <3>1
    <3>3. LockoutIsLast(Welcome)
      BY <2>1, <3>2 DEF LockoutIsLast
    <3>4. Welcome \in Seq(Messages)
      BY <2>1, <3>1
    <3>5. \A i \in 1 .. Len(Welcome) : i = 1 \/ i = 2
      BY <3>2
    <3>6. quota # NoLockout
      BY <2>2 DEF IInv, TypeOK, NoLockout
    <3> QED
      BY <2>1, <3>2, <3>3, <3>4, <3>5, <3>6
  <2>3. CASE ~(quota > day)
    <3>1. Welcome = <<<<"open">>>> /\ Len(<<<<"open">>>>) = 1 /\ <<<<"open">>>>[1] = <<"open">>
      BY <2>3 DEF Welcome
    <3>2. Welcome \in Seq(Messages)
      BY <2>1, <3>1
    <3>3. \A i \in 1 .. Len(Welcome) : i = 1
      BY <3>1
    <3> QED
      BY <2>1, <2>3, <3>1, <3>2, <3>3
  <2> QED
    BY <2>2, <2>3
<1>2. /\ UNCHANGED <<day, locked, lockouts, query, reports, quota, active, resumesAt, timer, endedBy>>
      /\ online' \in [Apps -> BOOLEAN] /\ inbox' \in [Apps -> Seq(Messages)]
      /\ (inbox'[a] = Welcome) \/ (inbox'[a] = <<>> /\ ~online'[a])
      /\ \A b \in Apps \ {a} : inbox'[b] = inbox[b] /\ online'[b] = online[b]
  <2>1. CASE Connect(a)
    BY <1>1, <2>1 DEF Connect, IInv, TypeOK
  <2>2. CASE Drop(a)
    <3>1. /\ online' = [online EXCEPT ![a] = FALSE] /\ inbox' = [inbox EXCEPT ![a] = <<>>]
          /\ UNCHANGED <<d1Vars, query, hubVars, appVars>>
      BY <2>2 DEF Drop
    <3>2. <<>> \in Seq(Messages)
      OBVIOUS
    <3> QED
      BY <3>1, <3>2 DEF IInv, TypeOK
  <2> QED
    BY <2>1, <2>2
<1>3. TypeOK'
  BY <1>2 DEF IInv, TypeOK
<1>4. SourcesCaused' /\ PausesCaused' /\ PausesEnd'
  BY <1>2 DEF IInv, SourcesCaused, PausesCaused, PausesEnd, Caused, Free
<1>5. NewsCaused'
  <2> SUFFICES ASSUME NEW b \in Apps, NEW i \in 1 .. Len(inbox'[b]), QuotaNews(inbox'[b][i])
               PROVE  inbox'[b][i][2] \in Nat /\ Caused(inbox'[b][i][2])
    BY <1>2 DEF NewsCaused, QuotaNews, Caused
  <2>1. CASE b = a
    BY <1>1, <1>2, <2>1 DEF IInv, TypeOK, SourcesCaused
  <2>2. CASE b # a
    BY <1>2, <2>2 DEF IInv, NewsCaused
  <2> QED
    BY <2>1, <2>2
<1>6. NewsReaches'
  BY <1>1, <1>2 DEF IInv, NewsReaches, Knows
<1> QED
  BY <1>3, <1>4, <1>5, <1>6 DEF IInv

LEMMA CronResumesInv ==
  ASSUME IInv, CronResumes
  PROVE  IInv'
<1> USE DaysAreNumbers DEF d1Vars, appVars
<1>1. /\ Stage("none") \in StageOK /\ Stage("none").at = "none" /\ Cron \in Queries
      /\ <<"resumed">> \in Messages /\ ~QuotaNews(<<"resumed">>)
  BY StageTypes DEF StageNames, Queries, Messages, QuotaNews
<1>2. /\ UNCHANGED <<day, locked, lockouts, reports, online, active, resumesAt, timer, endedBy>>
      /\ quota' = NoLockout /\ Becomes(Cron, Stage("none"))
      /\ inbox' = inbox \/ Broadcast(<<"resumed">>)
  BY DEF CronResumes
<1>3. /\ inbox' \in [Apps -> Seq(Messages)]
      /\ \A a \in Apps : \A i \in 1 .. Len(inbox'[a]) :
           (i \in 1 .. Len(inbox[a]) /\ inbox'[a][i] = inbox[a][i]) \/ inbox'[a][i] = <<"resumed">>
  BY <1>1, <1>2, BroadcastDoes DEF IInv, TypeOK
<1>4. /\ query' \in [Queries -> StageOK] /\ \A a \in Apps : query'[Probe(a)] = query[Probe(a)]
      /\ \A q \in Queries : query'[q] = query[q] \/ query'[q].at = "none"
  BY <1>1, <1>2, QueryNames DEF IInv, TypeOK, Becomes
<1>5. TypeOK'
  BY <1>2, <1>3, <1>4 DEF IInv, TypeOK
<1>6. SourcesCaused' /\ PausesCaused' /\ PausesEnd'
  BY <1>2, <1>4 DEF IInv, SourcesCaused, PausesCaused, PausesEnd, Caused, Free
<1>7. NewsCaused'
  BY <1>1, <1>2, <1>3 DEF IInv, NewsCaused, Caused
<1>8. NewsReaches'
  BY <1>2 DEF IInv, TypeOK, NewsReaches, NoLockout
<1> QED
  BY <1>5, <1>6, <1>7, <1>8 DEF IInv

LEMMA ClockInv ==
  ASSUME IInv, QuotaSpent \/ Midnight
  PROVE  IInv'
<1> USE DaysAreNumbers DEF appVars, hubVars, socketVars
<1>1. /\ UNCHANGED <<query, reports, quota, online, inbox, active, resumesAt, timer, endedBy>>
      /\ day' \in {day, day + 1} /\ lockouts' \in {lockouts, lockouts \cup {day}}
      /\ locked' => day' = day /\ day \in lockouts'
  BY DEF QuotaSpent, Midnight
<1>2. TypeOK'
  BY <1>1 DEF IInv, TypeOK
<1>3. \A r : Caused(r) => Caused(r)'
  BY <1>1 DEF Caused
<1>4. ASSUME Caused(day + 1) PROVE Caused(day + 1)'
  <2>1. PICK d \in lockouts : d < day + 1
    BY <1>4 DEF Caused
  <2>2. d \in Nat /\ day \in Nat /\ d \in lockouts'
    BY <1>1, <2>1 DEF IInv, TypeOK
  <2>3. day' = day \/ day' = day + 1
    BY <1>1
  <2>4. d < day' + 1
    BY <2>1, <2>2, <2>3
  <2> QED
    BY <2>2, <2>4 DEF Caused
<1>5. locked' => Caused(day + 1)'
  BY <1>1 DEF Caused, IInv, TypeOK
<1>6. SourcesCaused'
  BY <1>1, <1>3, <1>4, <1>5 DEF IInv, SourcesCaused
<1>7. NewsCaused' /\ PausesCaused' /\ PausesEnd'
  BY <1>1, <1>3 DEF IInv, NewsCaused, PausesCaused, PausesEnd, Free
<1>8. NewsReaches'
  BY <1>1 DEF IInv, TypeOK, NewsReaches, Knows
<1> QED
  BY <1>2, <1>6, <1>7, <1>8 DEF IInv

LEMMA NextInv == IInv /\ [Next]_vars => IInv'
<1> SUFFICES ASSUME IInv, [Next]_vars PROVE IInv'
  OBVIOUS
<1>1. ASSUME NEW a \in Apps, StartRead(a) \/ LoseAnswer(a) PROVE IInv'
  BY <1>1, RequestInv
<1>2. ASSUME NEW a \in Apps, AppStep(a) PROVE IInv'
  BY <1>2, CheckInv, ReadReturnsInv, ProbeReturnsInv DEF AppStep
<1>3. ASSUME NEW a \in Apps, Connect(a) \/ Drop(a) PROVE IInv'
  BY <1>3, SocketInv
<1>4. ASSUME NEW a \in Apps, Deliver(a) PROVE IInv'
  BY <1>4, DeliverInv
<1>5. CASE ServiceRefused \/ CronStep
  BY <1>5, RequestInv, CronResumesInv DEF CronStep
<1>6. ASSUME NEW q \in Queries, HubStep(q) PROVE IInv'
  BY <1>6, RequestInv, RefuseInv DEF HubStep
<1>7. ASSUME NEW r \in Days, Announce(r) \/ LoseReport(r) PROVE IInv'
  BY <1>7, AnnounceInv, LoseReportInv
<1>8. CASE QuotaSpent \/ Midnight
  BY <1>8, ClockInv
<1>9. CASE UNCHANGED vars
  BY <1>9 DEF vars, d1Vars, hubVars, socketVars, appVars, IInv, TypeOK, SourcesCaused, NewsCaused,
     PausesCaused, PausesEnd, NewsReaches, Caused, Free, Knows
<1> QED
  BY <1>1, <1>2, <1>3, <1>4, <1>5, <1>6, <1>7, <1>8, <1>9 DEF Next

-------------------------------------------------------------------------------
(* Theorems *)

\* Every reachable state satisfies the inductive invariant.
THEOREM InvariantHolds == Spec => []IInv
<1>1. Init => IInv
  BY InitInv
<1>2. IInv /\ [Next]_vars => IInv'
  BY NextInv
<1> QED
  BY <1>1, <1>2, PTL DEF Spec

\* No app is paused without a lockout that did begin, or without a check of its
\* own to come (quota.ts:8-17 and 26-29), however many apps, refusals and faults.
THEOREM PausesAreSound == Spec => []PauseHasCauseAndEnd
<1>1. IInv => PauseHasCauseAndEnd
  BY DEF IInv, PausesCaused, PausesEnd, PauseHasCauseAndEnd, Caused
<1> QED
  BY <1>1, InvariantHolds, PTL

\* An app whose socket is up and drained knows the lockout LiveHub knows
\* (live.ts:100-109), whatever order reports, recoveries and sockets come in.
THEOREM LockoutsAreHeard == Spec => []OpenAppsKnow
<1>1. IInv => OpenAppsKnow
  <2> SUFFICES ASSUME IInv, NEW a \in Apps, online[a], inbox[a] = <<>>, quota > day
               PROVE  Knows(a)
    BY DEF OpenAppsKnow, Knows
  <2>1. ~LockoutIsLast(inbox[a])
    BY DEF LockoutIsLast
  <2> QED
    BY <2>1 DEF IInv, NewsReaches
<1> QED
  BY <1>1, InvariantHolds, PTL
===============================================================================
