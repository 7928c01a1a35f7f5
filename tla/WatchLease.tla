------------------------------ MODULE WatchLease ------------------------------
(***************************************************************************)
(* Which browser tab runs the strategy (apps/web/lib/watchLease.ts and the *)
(* part of useSignalEngine.ts that obeys it).                              *)
(*                                                                         *)
(* Every mounted engine is a claimant with an id of its own, so a reload   *)
(* is a new member of Tabs.  The tabs share one localStorage key, a claim  *)
(* with a timestamp.  A tab's script is one thread, but scripts of two     *)
(* tabs interleave between a read of the key and the write that follows.   *)
(*                                                                         *)
(* Time is counted in units of SETTLE_MS or more; only ages and countdowns *)
(* are kept.  A timer fires at most MaxLate units late.                    *)
(***************************************************************************)
EXTENDS Integers, FiniteSets

CONSTANTS Tabs,       \* claimants, one per mounted engine
          Cacheable,  \* those the browser may freeze on leaving, and bring back
          NoTab,      \* the key is absent or unreadable
          Ttl,        \* TTL_MS
          Beat,       \* BEAT_MS
          Settle,     \* SETTLE_MS
          MaxLate     \* bound: how late a timer of a live page may fire

\* What the constants may be; the module that instantiates this one assumes it.
LeaseAssumption ==
  /\ Cacheable \subseteq Tabs
  /\ NoTab \notin Tabs
  /\ Ttl \in Nat \ {0} /\ Beat \in Nat \ {0} /\ Settle \in Nat \ {0}
  /\ MaxLate \in Nat

VARIABLES
  holder, age,   \* watch_owner: whose claim it is, and how old (Ttl: or older)
  life,          \* of the engine: "new", "open", "frozen", "stopped", "gone"
  owned,         \* the lease's own flag
  runs,          \* ownerRef.current, which the strategy tick obeys
  beatIn,        \* until the heartbeat interval fires
  settling,      \* claims waiting to be re-read: time left of each sleep
  about,         \* what the script does next with the key it has just read
  overlap        \* observer: how long two live tabs have both been owners

keyVars == <<holder, age>>
vars == <<holder, age, life, owned, runs, beatIn, settling, about, overlap>>

Live(t) == life[t] = "open"
Fresh == holder # NoTab /\ age < Ttl

\* Before any tab has opened.
Init ==
  /\ holder = NoTab /\ age = Ttl
  /\ life = [t \in Tabs |-> "new"]
  /\ owned = [t \in Tabs |-> FALSE]
  /\ runs = [t \in Tabs |-> TRUE]
  /\ beatIn = [t \in Tabs |-> Beat]
  /\ settling = [t \in Tabs |-> {}]
  /\ about = [t \in Tabs |-> "nothing"]
  /\ overlap = 0

\* set(next): the caller hears of it only when the flag changes.
Set(t, next) ==
  /\ owned' = [owned EXCEPT ![t] = next]
  /\ runs' = [runs EXCEPT ![t] = IF owned[t] # next THEN next ELSE @]

Keep == UNCHANGED <<owned, runs>>

\* Variant: a claim that has expired still counts.
TryClaimForever(t) ==
  \/ /\ holder \notin {NoTab, t}
     /\ Set(t, FALSE) /\ UNCHANGED about
  \/ /\ holder \in {NoTab, t}
     /\ about' = [about EXCEPT ![t] = IF Fresh THEN "refresh" ELSE "contend"]
     /\ Keep

\* tryClaim up to its write: stand back from a live claim, or take the key.
TryClaim(t) ==
  \/ /\ Fresh /\ holder # t
     /\ Set(t, FALSE) /\ UNCHANGED about
  \/ /\ ~Fresh \/ holder = t
     /\ about' = [about EXCEPT ![t] = IF Fresh THEN "refresh" ELSE "contend"]
     /\ Keep

\* The engine mounts: the lease is asked for and the heartbeat starts.
Open(t) ==
  /\ life[t] = "new"
  /\ life' = [life EXCEPT ![t] = "open"]
  /\ TryClaim(t)
  /\ UNCHANGED <<keyVars, beatIn, settling, overlap>>

\* The write that follows the read, in the same run of the script.
Write(t) ==
  /\ Live(t) /\ about[t] \in {"renew", "refresh", "contend"}
  /\ holder' = t /\ age' = 0
  /\ about' = [about EXCEPT ![t] = "nothing"]
  /\ settling' = IF about[t] = "contend"
                 THEN [settling EXCEPT ![t] = @ \cup {Settle}] ELSE settling
  /\ IF about[t] = "refresh" THEN Set(t, TRUE) ELSE Keep
  /\ UNCHANGED <<life, beatIn, overlap>>

\* Variant: a contested claim is believed without reading it back.
ReadBackTrusting(t) ==
  /\ Live(t) /\ about[t] = "nothing"
  /\ \E left \in settling[t] :
       left <= 0 /\ settling' = [settling EXCEPT ![t] = @ \ {left}]
  /\ Set(t, TRUE)
  /\ UNCHANGED <<keyVars, life, beatIn, about, overlap>>

\* After the settle: the tab whose id is not in the key stands down.
ReadBack(t) ==
  /\ Live(t) /\ about[t] = "nothing"
  /\ \E left \in settling[t] :
       left <= 0 /\ settling' = [settling EXCEPT ![t] = @ \ {left}]
  /\ Set(t, holder = t)
  /\ UNCHANGED <<keyVars, life, beatIn, about, overlap>>

\* Variant: an owner renews without looking whose claim it overwrites.
RenewBlindly(t) == about' = [about EXCEPT ![t] = "renew"] /\ Keep

\* An owner gives way to a live claim of another tab, or renews its own.
Renew(t) ==
  IF Fresh /\ holder # t THEN Set(t, FALSE) /\ UNCHANGED about
  ELSE about' = [about EXCEPT ![t] = "renew"] /\ Keep

HeartBeat(t) ==
  /\ Live(t) /\ about[t] = "nothing"
  /\ beatIn[t] <= 0
  /\ beatIn' = [beatIn EXCEPT ![t] = Beat]
  /\ IF owned[t] THEN Renew(t) ELSE TryClaim(t)
  /\ UNCHANGED <<keyVars, life, settling, overlap>>

\* onLeave reads the key; an owner that finds itself there is about to remove it.
OnLeave(t) ==
  about' = [about EXCEPT ![t] = IF owned[t] /\ holder = t THEN "remove" ELSE "nothing"]

\* pagehide.  The page is destroyed, or frozen with its script state intact.
PageHide(t) ==
  /\ Live(t) /\ about[t] = "nothing"
  /\ OnLeave(t)
  /\ life' = [life EXCEPT ![t] = IF t \in Cacheable THEN "frozen" ELSE "gone"]
  /\ UNCHANGED <<keyVars, owned, runs, beatIn, settling, overlap>>

\* The component unmounts: stop() cancels the lease's timers and leaves, but the
\* page is still there, and its scripts may go on.
Stop(t) ==
  /\ Live(t) /\ about[t] = "nothing"
  /\ OnLeave(t)
  /\ life' = [life EXCEPT ![t] = "stopped"]
  /\ settling' = [settling EXCEPT ![t] = {}]
  /\ UNCHANGED <<keyVars, owned, runs, beatIn, overlap>>

\* The removal that follows, whoever has written the key meanwhile.
Remove(t) ==
  /\ about[t] = "remove"
  /\ holder' = NoTab /\ age' = Ttl
  /\ about' = [about EXCEPT ![t] = "nothing"]
  /\ UNCHANGED <<life, owned, runs, beatIn, settling, overlap>>

\* A frozen page comes back; its timers go on from where they were.
Restore(t) ==
  /\ life[t] = "frozen" /\ about[t] = "nothing"
  /\ life' = [life EXCEPT ![t] = "open"]
  /\ UNCHANGED <<keyVars, owned, runs, beatIn, settling, about, overlap>>

\* The page dies with no handler run: killed, discarded, out of battery.
Kill(t) ==
  /\ life[t] \in {"open", "frozen", "stopped"}
  /\ life' = [life EXCEPT ![t] = "gone"]
  /\ about' = [about EXCEPT ![t] = "nothing"]
  /\ UNCHANGED <<keyVars, owned, runs, beatIn, settling, overlap>>

Owners == {t \in Tabs : Live(t) /\ owned[t]}

\* One unit passes for the key and for every live page.  A run of the script
\* takes no time, and no timer is kept waiting beyond MaxLate.
PassTime ==
  /\ \A t \in Tabs : about[t] = "nothing"
  /\ \A t \in Tabs : Live(t) => \A left \in settling[t] \cup {beatIn[t]} : left > -MaxLate
  /\ age' = IF age < Ttl THEN age + 1 ELSE age
  /\ beatIn' = [t \in Tabs |-> IF Live(t) THEN beatIn[t] - 1 ELSE beatIn[t]]
  /\ settling' = [t \in Tabs |-> IF Live(t) THEN {left - 1 : left \in settling[t]}
                                            ELSE settling[t]]
  /\ overlap' = IF Cardinality(Owners) > 1 /\ overlap <= Ttl THEN overlap + 1
                ELSE IF Cardinality(Owners) > 1 THEN overlap ELSE 0
  /\ UNCHANGED <<holder, life, owned, runs, about>>

TabStep(t) == Write(t) \/ Remove(t) \/ ReadBack(t) \/ HeartBeat(t)

Next ==
  \/ \E t \in Tabs : \/ Open(t) \/ TabStep(t)
                     \/ PageHide(t) \/ Stop(t) \/ Restore(t) \/ Kill(t)
  \/ PassTime

Spec == Init /\ [][Next]_vars

\* Time passes and the timers of live pages fire, also of a page that is frozen
\* and restored over and over.  Nobody has to open, keep or close a tab.
FairSpec == Spec /\ SF_vars(PassTime) /\ \A t \in Tabs : SF_vars(TabStep(t))

-------------------------------------------------------------------------------
(* Properties *)

\* Never two owners, while no heartbeat is so late that a live claim expires and
\* no page comes back from the cache (watchLease.ts:4 and its test, "never lets
\* two tabs own it at once").
OneOwner == Cardinality(Owners) <= 1

\* When a frozen page does come back, two tabs take themselves for the owner for
\* at most the time to the next heartbeat, which gives way (watchLease.ts:168-176).
OverlapEnds == overlap <= Beat + MaxLate

\* A tab that stays open is enough for some open tab to own the lease again and
\* again, whatever happened to the tabs that held it (watchLease.ts:25-35).
SomebodyWatches ==
  \A t \in Tabs : <>[]Live(t) => []<>(Owners # {})

\* watchLease.ts:4, "One tab runs the strategy. The rest watch.": a live tab that
\* sees another tab's claim, and has none of its own on the way, does not run.
TheRestWatch ==
  \A t \in Tabs :
    Live(t) /\ ~owned[t] /\ about[t] = "nothing" /\ settling[t] = {} => ~runs[t]

===============================================================================
