----------------------------- MODULE QuotaChannel -----------------------------
(***************************************************************************)
(* How open apps learn that D1's daily quota is spent, and that it is over *)
(* (apps/data-hub/src/index.ts, live.ts; apps/web/lib/quota.ts, live.ts,   *)
(* dataHub.ts).                                                            *)
(*                                                                         *)
(* A query refused on quota makes the hub answer 503 with the reset time   *)
(* and report the lockout to LiveHub, which remembers it and broadcasts it *)
(* to every socket.  A cron asks D1 during a lockout and has LiveHub       *)
(* broadcast `resumed`.  An app pauses and resumes on these messages, on   *)
(* the answers to its own reads, and on a timer of its own.                *)
(*                                                                         *)
(* Days are counted, and a reset time is the day that starts then.  One    *)
(* request to LiveHub is one step: a Durable Object takes no event while   *)
(* it awaits its storage.  Writes are left out: a refused write acts like  *)
(* a refused read, and one that succeeds changes nothing here.             *)
(***************************************************************************)
EXTENDS Integers, Sequences

CONSTANTS Apps,        \* open apps
          Service,     \* the pipeline and every other caller of the hub
          Cron,        \* the recovery check of the five-minute cron
          MaxDay,      \* bound: the last day
          BusyDays,    \* bound: the days whose quota may be spent
          MaxCopies,   \* bound: reports of one reset time under way at once
          MaxFaults    \* bound: lost requests, failed queries, dropped sockets

ASSUME ChannelAssumption ==
  /\ Service # Cron /\ {Service, Cron} \cap (Apps \X {"read", "probe"}) = {}
  /\ MaxDay \in Nat /\ BusyDays \subseteq 0 .. MaxDay - 1
  /\ MaxCopies \in Nat \ {0} /\ MaxFaults \in Nat

Days == 0 .. MaxDay
NoLockout == 0        \* LiveHub stores nothing; an app knows no reset time

Read(a) == <<a, "read">>
Probe(a) == <<a, "probe">>
Queries == {Read(a) : a \in Apps} \cup {Probe(a) : a \in Apps} \cup {Service, Cron}

VARIABLES
  day, locked, faults,        \* the clock, D1's quota, faults so far
  query,                      \* what has become of each query
  reports,                    \* reports to LiveHub under way, by reset time
  quota,                      \* LiveHub: the lockout it has stored
  online, inbox,              \* each app's socket and what is on its way to it
  everConnected,              \* live.ts: a later connection is a resync
  active, resumesAt, timer,   \* quota.ts
  lockouts,                   \* observer: the days on which D1 locked
  endedBy                     \* observer: what has ended each app's last pause

hubVars == <<reports, quota>>
socketVars == <<online, inbox, everConnected>>
appVars == <<active, resumesAt, timer, endedBy>>
d1Vars == <<day, locked, lockouts>>
vars == <<d1Vars, faults, query, hubVars, socketVars, appVars>>

\* Before it is sent, with D1, refused in the Worker's hands, or answered: rows,
\* an error that is not the quota, or 503 with a reset time.
Stages == [at : {"none", "sent", "refused", "rows", "failed"}, resets : {NoLockout}]
          \cup [at : {"locked"}, resets : Days]
Stage(at) == [at |-> at, resets |-> NoLockout]
Becomes(q, stage) == query' = [query EXCEPT ![q] = stage]
Free(q) == query[q].at = "none"

Messages == {<<"open">>, <<"resumed">>} \cup {<<"quota", r>> : r \in Days}

Fault == faults < MaxFaults /\ faults' = faults + 1

NextUtcMidnight == day + 1

-------------------------------------------------------------------------------
(* The app's pause (quota.ts), as what becomes of one app *)

ReportQuota(a, at) ==
  /\ active' = [active EXCEPT ![a] = TRUE]
  /\ resumesAt' = [resumesAt EXCEPT ![a] = IF at > @ THEN at ELSE @]
  /\ timer' = [timer EXCEPT ![a] = "reset"]
  /\ endedBy' = [endedBy EXCEPT ![a] = "nothing"]

ReportResumed(a, by) ==
  IF active[a]
  THEN /\ active' = [active EXCEPT ![a] = FALSE]
       /\ resumesAt' = [resumesAt EXCEPT ![a] = NoLockout]
       /\ timer' = [timer EXCEPT ![a] = "none"]
       /\ endedBy' = [endedBy EXCEPT ![a] = by]
  ELSE UNCHANGED appVars

\* Variant: a check that failed is not tried again.
TryLaterNever(a) == UNCHANGED timer

TryLater(a) == timer' = [timer EXCEPT ![a] = "retry"]

\* check() comes back unanswered.  Its read has already reported a lockout, and
\* the retry replaces the timer that report set.
StillRefused(a, stage) ==
  /\ IF stage.at = "locked"
     THEN /\ active' = [active EXCEPT ![a] = TRUE]
          /\ resumesAt' = [resumesAt EXCEPT ![a] = IF stage.resets > @ THEN stage.resets ELSE @]
          /\ endedBy' = [endedBy EXCEPT ![a] = "nothing"]
     ELSE UNCHANGED <<active, resumesAt, endedBy>>
  /\ TryLater(a)

-------------------------------------------------------------------------------
(* Queries *)

\* A screen reads, whether or not the app is paused.
StartRead(a) ==
  /\ Free(Read(a))
  /\ Becomes(Read(a), Stage("sent"))
  /\ UNCHANGED <<d1Vars, faults, hubVars, socketVars, appVars>>

\* D1 refuses somebody else's query.  One that it answers changes nothing here.
ServiceRefused ==
  /\ Free(Service)
  /\ locked
  /\ Becomes(Service, Stage("refused"))
  /\ UNCHANGED <<d1Vars, faults, hubVars, socketVars, appVars>>

\* The timer fires.  A check set for the reset waits for it; an app that is no
\* longer paused asks nothing.
Check(a) ==
  /\ timer[a] # "none"
  /\ timer[a] = "reset" => day >= resumesAt[a]
  /\ Free(Probe(a))
  /\ timer' = [timer EXCEPT ![a] = "none"]
  /\ IF active[a] THEN Becomes(Probe(a), Stage("sent")) ELSE UNCHANGED query
  /\ UNCHANGED <<d1Vars, faults, hubVars, socketVars, active, resumesAt, endedBy>>

\* D1 answers or refuses; the query may also fail for a reason of its own.
Execute(q) ==
  /\ query[q].at = "sent"
  /\ \/ Becomes(q, Stage(IF locked THEN "refused" ELSE "rows")) /\ UNCHANGED faults
     \/ Fault /\ Becomes(q, Stage("failed"))
  /\ UNCHANGED <<d1Vars, hubVars, socketVars, appVars>>

\* classifyD1Error
IsQuota(stage) == stage.at = "refused"

Report(r) == reports' = [reports EXCEPT ![r] = IF @ < MaxCopies THEN @ + 1 ELSE @]

\* quotaResponse: the reset time is taken now, and the report goes on its own.
\* The record route and the cron announce, and answer nobody here.
Refuse(q) ==
  /\ IsQuota(query[q])
  /\ Report(NextUtcMidnight)
  /\ Becomes(q, IF q \in {Service, Cron} THEN Stage("none")
                ELSE [at |-> "locked", resets |-> NextUtcMidnight])
  /\ UNCHANGED <<d1Vars, faults, quota, socketVars, appVars>>

\* The answer is lost on the way to the app.
LoseAnswer(a) ==
  /\ \E q \in {Read(a), Probe(a)} :
       query[q].at \in {"rows", "locked"} /\ Becomes(q, Stage("failed"))
  /\ Fault
  /\ UNCHANGED <<d1Vars, hubVars, socketVars, appVars>>

\* hubRead returns to a screen: a lockout is noted, and a success while one is
\* recorded ends it.
ReadReturns(a) ==
  LET stage == query[Read(a)]
  IN  /\ stage.at \in {"rows", "locked", "failed"}
      /\ Becomes(Read(a), Stage("none"))
      /\ CASE stage.at = "rows"   -> ReportResumed(a, "read")
           [] stage.at = "locked" -> ReportQuota(a, stage.resets)
           [] stage.at = "failed" -> UNCHANGED appVars
      /\ UNCHANGED <<d1Vars, faults, hubVars, socketVars>>

\* hubRead returns to check().
ProbeReturns(a) ==
  LET stage == query[Probe(a)]
  IN  /\ stage.at \in {"rows", "locked", "failed"}
      /\ Becomes(Probe(a), Stage("none"))
      /\ IF stage.at = "rows" THEN ReportResumed(a, "read") ELSE StillRefused(a, stage)
      /\ UNCHANGED <<d1Vars, faults, hubVars, socketVars>>

-------------------------------------------------------------------------------
(* LiveHub and its sockets *)

Broadcast(message) ==
  inbox' = [a \in Apps |-> IF online[a] THEN Append(inbox[a], message) ELSE inbox[a]]

\* /quota arrives: stored and broadcast, unless this lockout is known already.
Announce(r) ==
  /\ reports[r] > 0
  /\ reports' = [reports EXCEPT ![r] = @ - 1]
  /\ quota' = r
  /\ IF quota = r THEN UNCHANGED inbox ELSE Broadcast(<<"quota", r>>)
  /\ UNCHANGED <<d1Vars, faults, query, online, everConnected, appVars>>

\* announceQuota swallows the failure of its request.
LoseReport(r) ==
  /\ reports[r] > 0
  /\ reports' = [reports EXCEPT ![r] = @ - 1]
  /\ Fault
  /\ UNCHANGED <<d1Vars, query, quota, socketVars, appVars>>

\* Variant: an app that attaches during a lockout is told nothing.
WelcomeSilent == <<<<"open">>>>

\* /connect tells an app that attaches during a lockout.
Welcome == IF quota > day THEN <<<<"open">>, <<"quota", quota>>>> ELSE <<<<"open">>>>

Connect(a) ==
  /\ ~online[a]
  /\ online' = [online EXCEPT ![a] = TRUE]
  /\ inbox' = [inbox EXCEPT ![a] = Welcome]
  /\ UNCHANGED <<d1Vars, faults, query, hubVars, everConnected, appVars>>

\* The connection breaks; what was on its way is lost.
Drop(a) ==
  /\ online[a]
  /\ Fault
  /\ online' = [online EXCEPT ![a] = FALSE]
  /\ inbox' = [inbox EXCEPT ![a] = <<>>]
  /\ UNCHANGED <<d1Vars, query, hubVars, everConnected, appVars>>

\* onopen: every connection after the first is a resync, and the screens re-read.
Opened(a) ==
  /\ everConnected' = [everConnected EXCEPT ![a] = TRUE]
  /\ IF everConnected[a]
     THEN Free(Read(a)) /\ Becomes(Read(a), Stage("sent"))
     ELSE UNCHANGED query
  /\ UNCHANGED appVars

\* onmessage
Deliver(a) ==
  /\ inbox[a] # <<>>
  /\ inbox' = [inbox EXCEPT ![a] = Tail(@)]
  /\ LET message == Head(inbox[a])
     IN  \/ message[1] = "open" /\ Opened(a)
         \/ message[1] = "quota" /\ ReportQuota(a, message[2])
            /\ UNCHANGED <<query, everConnected>>
         \/ message[1] = "resumed" /\ ReportResumed(a, "hub")
            /\ UNCHANGED <<query, everConnected>>
  /\ UNCHANGED <<d1Vars, faults, hubVars, online>>

-------------------------------------------------------------------------------
(* The cron's recovery check *)

\* Variant: a lockout whose reset has passed is taken to be over.
LockoutStoredUnexpired == quota > day

LockoutStored == quota # NoLockout

\* /quota-state, and a query only while a lockout is stored.
CronLooks ==
  /\ Free(Cron)
  /\ LockoutStored
  /\ Becomes(Cron, Stage("sent"))
  /\ UNCHANGED <<d1Vars, faults, hubVars, socketVars, appVars>>

\* D1 answered: /resumed forgets the lockout and says so once.
CronResumes ==
  /\ query[Cron].at = "rows"
  /\ Becomes(Cron, Stage("none"))
  /\ quota' = NoLockout
  /\ IF quota = NoLockout THEN UNCHANGED inbox ELSE Broadcast(<<"resumed">>)
  /\ UNCHANGED <<d1Vars, faults, reports, online, everConnected, appVars>>

\* D1 failed for another reason, or the request to LiveHub did.
CronFails ==
  /\ \/ query[Cron].at = "failed" /\ UNCHANGED faults
     \/ query[Cron].at = "rows" /\ Fault
  /\ Becomes(Cron, Stage("none"))
  /\ UNCHANGED <<d1Vars, hubVars, socketVars, appVars>>

-------------------------------------------------------------------------------
(* D1's daily quota (external) *)

\* The last day modelled is not busy, and begins when every refusal has been
\* handled: every reset an app is told of lies within the days modelled.
QuotaSpent ==
  /\ ~locked /\ day \in BusyDays
  /\ locked' = TRUE
  /\ lockouts' = lockouts \cup {day}
  /\ UNCHANGED <<day, faults, query, hubVars, socketVars, appVars>>

Midnight ==
  /\ day < MaxDay
  /\ day + 1 = MaxDay => \A q \in Queries : query[q].at # "refused"
  /\ day' = day + 1
  /\ locked' = FALSE
  /\ UNCHANGED <<lockouts, faults, query, hubVars, socketVars, appVars>>

-------------------------------------------------------------------------------

Init ==
  /\ day = 0 /\ locked = FALSE /\ faults = 0
  /\ query = [q \in Queries |-> Stage("none")]
  /\ reports = [r \in Days |-> 0] /\ quota = NoLockout
  /\ online = [a \in Apps |-> FALSE] /\ inbox = [a \in Apps |-> <<>>]
  /\ everConnected = [a \in Apps |-> FALSE]
  /\ active = [a \in Apps |-> FALSE]
  /\ resumesAt = [a \in Apps |-> NoLockout]
  /\ timer = [a \in Apps |-> "none"]
  /\ lockouts = {}
  /\ endedBy = [a \in Apps |-> "nothing"]

AppStep(a) == Check(a) \/ ReadReturns(a) \/ ProbeReturns(a)
CronStep == CronLooks \/ CronResumes \/ CronFails
HubStep(q) == Execute(q) \/ Refuse(q)

Next ==
  \/ \E a \in Apps : \/ StartRead(a) \/ AppStep(a) \/ LoseAnswer(a)
                     \/ Connect(a) \/ Drop(a) \/ Deliver(a)
  \/ ServiceRefused \/ CronStep
  \/ \E q \in Queries : HubStep(q)
  \/ \E r \in Days : Announce(r) \/ LoseReport(r)
  \/ QuotaSpent \/ Midnight

Spec == Init /\ [][Next]_vars

\* Days pass, requests are served and answered, timers and the cron fire, and a
\* message on a socket arrives unless the socket breaks.  No app has to read,
\* and a socket that is down may stay down.
FairSpec ==
  /\ Spec
  /\ WF_vars(Midnight) /\ WF_vars(CronStep)
  /\ \A a \in Apps : WF_vars(AppStep(a)) /\ SF_vars(Deliver(a))
  /\ \A q \in Queries : WF_vars(HubStep(q))
  /\ \A r \in Days : WF_vars(Announce(r))

-------------------------------------------------------------------------------
(* Properties *)

\* "Must never raise this one" (quota.ts:8-17): whatever else fails, an app is
\* paused only by a lockout that did begin, and until a reset that follows it; and
\* it always has a check of its own to come, whatever arrived in which order while
\* the last one was out (quota.ts:26-29): no pause without a cause or an end.
PauseHasCauseAndEnd ==
  \A a \in Apps : active[a] =>
    /\ \E d \in lockouts : d < resumesAt[a]
    /\ timer[a] # "none" \/ ~Free(Probe(a))

\* An app whose socket is up and drained knows the lockout LiveHub knows, when-
\* ever it attached (live.ts:100-109), unless a read of its own has ended the
\* pause since.
OpenAppsKnow ==
  \A a \in Apps :
    online[a] /\ inbox[a] = <<>> /\ quota > day => active[a] \/ endedBy[a] = "read"

\* Once D1 answers for good, LiveHub forgets the lockout and every app resumes,
\* also one that has no socket (quota.ts:19-29).
EverythingResumes ==
  <>[]~locked => <>[](quota = NoLockout /\ \A a \in Apps : ~active[a])

\* dataHub.ts:318, "A read that succeeds while a lockout is recorded means it is
\* over".
SuccessMeansOver == [][\A a \in Apps : ReadReturns(a) /\ active[a] /\ ~active'[a] => ~locked]_vars

===============================================================================
