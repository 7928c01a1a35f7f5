------------------------------ MODULE TabsProofs ------------------------------
(***************************************************************************)
(* The theorems about the tabs of one browser, for any number of tabs,     *)
(* lengths of time in the order the code's are in, and any trades.         *)
(*                                                                         *)
(* The lease.  Two tabs never own it at once; and when one page comes back *)
(* from the browser's cache, two do for no longer than a heartbeat.        *)
(*                                                                         *)
(* The trades, as long as no session takes the lease a second time (with a *)
(* second time, the run's own counterexample applies).  Whoever may tick   *)
(* next, whether from memory or from localStorage, starts from a program   *)
(* state that is aware of every trade ever opened: its swing is remembered *)
(* as fired, and its candle is not after the one that follows the last     *)
(* candle read.  A program only reads newer candles and only adopts swings *)
(* it has not fired, so what it opens next is new in both respects.        *)
(***************************************************************************)
EXTENDS MCTabs, Sequences, FiniteSetTheorems, WellFoundedInduction, TLAPS

\* What the proof assumes of the timing: a claim is read back before the next
\* heartbeat, a heartbeat comes before the claim expires, however late a timer
\* may be (120 ms, 4 s, 12 s).
TimesInOrder == Settle + MaxLate < Beat /\ Beat + MaxLate < Ttl
TimingOrder == Three!LeaseAssumption /\ TimesInOrder

-------------------------------------------------------------------------------
(* The lease, while no page comes back from the cache *)

\* A page whose engine runs, and a claim that has not expired, as both instances see them.
Live(t) == life[t] = "open"
Fresh == holder # NoTab /\ age < Ttl
Intents == {"nothing", "renew", "refresh", "contend", "remove"}
AboutToWrite(t) == about[t] \in {"renew", "refresh", "contend"}
Owner(t) == Live(t) /\ owned[t]

LeaseTypeOK(tabs) ==
  /\ holder \in tabs \cup {NoTab} /\ age \in 0 .. Ttl
  /\ life \in [tabs -> {"new", "open", "frozen", "stopped", "gone"}]
  /\ owned \in [tabs -> BOOLEAN]
  /\ beatIn \in [tabs -> Int] /\ settling \in [tabs -> SUBSET Int]
  /\ about \in [tabs -> Intents]

\* A tab that has not opened has left no trace.
Untouched(t) ==
  life[t] = "new" =>
    /\ ~owned[t] /\ about[t] = "nothing" /\ holder # t
    /\ beatIn[t] = Beat /\ settling[t] = {}

\* The timers of a live page: none later than MaxLate, and a claim waiting to be
\* read back was written when the heartbeat was last set.
TimersOK(t) ==
  Live(t) =>
    /\ -MaxLate <= beatIn[t] /\ beatIn[t] <= Beat
    /\ \A left \in settling[t] :
         left = beatIn[t] + Settle - Beat /\ -MaxLate <= left
    /\ AboutToWrite(t) => beatIn[t] = Beat /\ settling[t] = {}

\* The claim in the key is as old as its tab's heartbeat.
KeyOK(t) ==
  Live(t) /\ about[t] = "nothing" /\ holder = t => age = Beat - beatIn[t]

Nobody(tabs, what) == \A u \in tabs : about[u] # what

OwnerOK(t) == Owner(t) => holder = t /\ age < Ttl

\* What is known of the key between a tab's read and the write that follows.
IntentOK(t) ==
  /\ AboutToWrite(t) => Live(t)
  /\ about[t] = "renew" => owned[t]
  /\ about[t] = "contend" =>
       (~Fresh \/ age = 0) /\ \A u \in Many : ~Owner(u)
  /\ about[t] = "refresh" => Fresh /\ holder = t /\ Nobody(Many, "contend")
  /\ about[t] = "remove" => Fresh /\ holder = t /\ ~Live(t) /\ Nobody(Many, "contend")

LeaseInv ==
  /\ LeaseTypeOK(Many)
  /\ \A t \in Many : /\ life[t] # "frozen" /\ Untouched(t) /\ TimersOK(t)
                     /\ KeyOK(t) /\ OwnerOK(t) /\ IntentOK(t)

LEMMA LeaseConstants ==
  ASSUME TimingOrder
  PROVE  /\ Ttl \in Nat \ {0} /\ Beat \in Nat \ {0} /\ Settle \in Nat \ {0} /\ MaxLate \in Nat
         /\ Settle + MaxLate < Beat /\ Beat + MaxLate < Ttl /\ NoTab \notin Many
BY DEF TimingOrder, TimesInOrder, Three!LeaseAssumption

LEMMA InitInv == TimingOrder /\ Three!Init => LeaseInv
BY LeaseConstants DEF Three!Init, LeaseInv, LeaseTypeOK, Intents, Untouched, TimersOK, KeyOK,
   OwnerOK, IntentOK, Owner, Live, AboutToWrite, Three!Live

\* There is at most one owner, and while there is one nobody contends.
LEMMA OwnersAgree ==
  ASSUME TimingOrder, LeaseInv, NEW t \in Many, Owner(t)
  PROVE  /\ Fresh /\ holder = t /\ Nobody(Many, "contend")
         /\ \A u \in Many : Owner(u) => u = t
BY LeaseConstants DEF LeaseInv, LeaseTypeOK, OwnerOK, IntentOK, Fresh, Nobody, Three!Fresh

-------------------------------------------------------------------------------
(* Each action keeps the invariant *)

\* Open, and the heartbeat of a tab that does not own the lease: it stands back,
\* or finds its own claim, or a key that is free.
LEMMA TryClaimInv ==
  ASSUME TimingOrder, LeaseInv, NEW t \in Many, Three!TryClaim(t), ~owned[t], about[t] = "nothing",
         UNCHANGED <<Three!keyVars, settling>>, settling[t] = {},
         \/ life[t] = "new" /\ life' = [life EXCEPT ![t] = "open"] /\ beatIn' = beatIn
         \/ /\ Live(t) /\ life' = life /\ beatIn' = [beatIn EXCEPT ![t] = Beat]
            /\ holder = t => age > 0
  PROVE  LeaseInv'
<1> USE LeaseConstants DEF Three!keyVars
<1>1. owned' = owned
  <2>1. owned = [owned EXCEPT ![t] = FALSE]
    BY DEF LeaseInv, LeaseTypeOK
  <2> QED
    BY <2>1 DEF Three!TryClaim, Three!Set, Three!Keep, Live, Fresh, Three!Live, Three!Fresh
<1>2. about' \in [Many -> Intents] /\ \A u \in Many \ {t} : about'[u] = about[u]
  BY DEF LeaseInv, LeaseTypeOK, Three!TryClaim, Intents, Live, Fresh, Three!Live, Three!Fresh
<1>3. /\ life' \in [Many -> {"new", "open", "frozen", "stopped", "gone"}] /\ life'[t] = "open"
      /\ \A u \in Many \ {t} : life'[u] = life[u]
  BY DEF LeaseInv, LeaseTypeOK, Live, Three!Live
<1>4. /\ beatIn' \in [Many -> Int] /\ beatIn'[t] = Beat
      /\ \A u \in Many \ {t} : beatIn'[u] = beatIn[u]
  BY DEF LeaseInv, LeaseTypeOK, Untouched
<1>5. LeaseTypeOK(Many)'
  BY <1>1, <1>2, <1>3, <1>4 DEF LeaseInv, LeaseTypeOK
<1>6. Fresh' = Fresh /\ \A u \in Many : Owner(u)' <=> Owner(u)
  BY <1>1, <1>3 DEF Owner, Live, Fresh, Three!Live, Three!Fresh
<1>7. \/ about'[t] = "nothing" /\ Fresh /\ holder # t
      \/ about'[t] = "refresh" /\ Fresh /\ holder = t
      \/ about'[t] = "contend" /\ ~Fresh
  BY DEF LeaseInv, LeaseTypeOK, Three!TryClaim, Three!Set, Three!Keep, Live, Fresh, Three!Live,
     Three!Fresh
<1>8. about'[t] = "refresh" => Nobody(Many, "contend")
  BY <1>7 DEF LeaseInv, LeaseTypeOK, IntentOK, Nobody, Untouched
<1>9. about'[t] = "contend" => \A u \in Many : ~Owner(u)
  BY <1>7, OwnersAgree
<1>10. IntentOK(t)'
  BY <1>2, <1>3, <1>6, <1>7, <1>8, <1>9 DEF IntentOK, Nobody, AboutToWrite, Live, Three!Live
<1>11. ASSUME NEW u \in Many, u # t PROVE IntentOK(u)'
  BY <1>1, <1>2, <1>3, <1>6, <1>7, <1>11 DEF LeaseInv, IntentOK, Nobody, AboutToWrite, Live,
     Three!Live
<1>12. \A u \in Many : OwnerOK(u)'
  BY <1>6 DEF LeaseInv, OwnerOK
<1>13. \A u \in Many : life'[u] # "frozen" /\ Untouched(u)' /\ TimersOK(u)'
  BY <1>1, <1>2, <1>3, <1>4 DEF LeaseInv, LeaseTypeOK, Untouched, TimersOK, AboutToWrite, Live,
     Three!Live
<1>14. \A u \in Many : KeyOK(u)'
  BY <1>2, <1>3, <1>4, <1>7 DEF LeaseInv, KeyOK, Live, Three!Live
<1> QED
  BY <1>5, <1>10, <1>11, <1>12, <1>13, <1>14 DEF LeaseInv

LEMMA OpenInv ==
  ASSUME TimingOrder, LeaseInv, NEW t \in Many, Three!Open(t)
  PROVE  LeaseInv'
BY TryClaimInv DEF Three!Open, LeaseInv, Untouched, Three!keyVars, Live, Three!Live

\* By the time of a heartbeat, a claim of this tab has been read back and is old.
LEMMA HeartBeatInv ==
  ASSUME TimingOrder, LeaseInv, NEW t \in Many, Three!HeartBeat(t)
  PROVE  LeaseInv'
<1> USE LeaseConstants DEF Three!keyVars
<1>1. settling[t] = {}
  <2> SUFFICES ASSUME NEW left \in settling[t] PROVE FALSE
    OBVIOUS
  <2>1. left = beatIn[t] + Settle - Beat /\ -MaxLate <= left /\ beatIn[t] <= 0 /\ beatIn[t] \in Int
    BY DEF Three!HeartBeat, LeaseInv, LeaseTypeOK, TimersOK, Live, Three!Live
  <2> QED
    BY <2>1
<1>2. holder = t => age > 0
  BY DEF Three!HeartBeat, LeaseInv, LeaseTypeOK, KeyOK, Live, Three!Live
<1>3. CASE ~owned[t]
  BY <1>1, <1>2, <1>3, TryClaimInv DEF Three!HeartBeat, Live, Three!Live
<1>4. CASE owned[t]
  <2>1. Owner(t)
    BY <1>4 DEF Three!HeartBeat, Owner, Live, Three!Live
  <2>2. Fresh /\ holder = t /\ Nobody(Many, "contend") /\ \A u \in Many : Owner(u) => u = t
    BY <2>1, OwnersAgree
  <2>3. /\ about' = [about EXCEPT ![t] = "renew"] /\ beatIn' = [beatIn EXCEPT ![t] = Beat]
        /\ UNCHANGED <<owned, holder, age, life, settling>>
    BY <1>4, <2>2 DEF Three!HeartBeat, Three!Renew, Three!Keep, Live, Fresh, Three!Live, Three!Fresh
  <2>4. LeaseTypeOK(Many)'
    BY <2>3 DEF LeaseInv, LeaseTypeOK, Intents
  <2>5. \A u \in Many : life'[u] # "frozen" /\ Untouched(u)' /\ TimersOK(u)'
    BY <1>1, <2>3, <2>4 DEF LeaseInv, LeaseTypeOK, Untouched, TimersOK, AboutToWrite, Live,
       Three!HeartBeat, Three!Live
  <2>6. \A u \in Many : KeyOK(u)' /\ OwnerOK(u)'
    BY <2>2, <2>3 DEF LeaseInv, LeaseTypeOK, KeyOK, OwnerOK, Owner, Live, Three!Live
  <2>7. \A u \in Many : IntentOK(u)'
    BY <1>4, <2>2, <2>3 DEF LeaseInv, LeaseTypeOK, IntentOK, AboutToWrite, Owner, Live, Nobody,
       Fresh, Three!HeartBeat, Three!Live, Three!Fresh
  <2> QED
    BY <2>4, <2>5, <2>6, <2>7 DEF LeaseInv
<1> QED
  BY <1>3, <1>4

\* The write puts the writer's claim in the key; the owner, if there is one, is
\* the writer, and others about to write are contending at this instant.
LEMMA WriteInv ==
  ASSUME TimingOrder, LeaseInv, NEW t \in Many, Three!Write(t)
  PROVE  LeaseInv'
<1> USE LeaseConstants
<1>1. /\ Live(t) /\ beatIn[t] = Beat /\ settling[t] = {}
      /\ \A u \in Many : Owner(u) => u = t
  <2>1. Live(t) /\ AboutToWrite(t)
    BY DEF Three!Write, AboutToWrite, Live, Three!Live
  <2>2. ASSUME NEW u \in Many, Owner(u) PROVE u = t
    <3>1. holder = u /\ Nobody(Many, "contend")
      BY <2>2, OwnersAgree
    <3>2. CASE about[t] = "renew"
      BY <2>1, <2>2, <3>2, OwnersAgree DEF LeaseInv, IntentOK, Owner
    <3>3. CASE about[t] = "refresh"
      BY <3>1, <3>3 DEF LeaseInv, IntentOK
    <3> QED
      BY <2>1, <3>1, <3>2, <3>3 DEF AboutToWrite, Nobody
  <2> QED
    BY <2>1, <2>2 DEF LeaseInv, TimersOK
<1>2. /\ holder' = t /\ age' = 0 /\ Fresh' /\ about' = [about EXCEPT ![t] = "nothing"]
      /\ life' = life /\ beatIn' = beatIn
  BY DEF Three!Write, Fresh, Live, Three!Live, Three!Fresh
<1>3. settling' \in [Many -> SUBSET Int] /\ settling'[t] \subseteq {Settle}
      /\ \A u \in Many \ {t} : settling'[u] = settling[u]
  BY <1>1 DEF Three!Write, LeaseInv, LeaseTypeOK, Live, Three!Live
<1>4. /\ owned' \in [Many -> BOOLEAN]
      /\ \A u \in Many \ {t} : owned'[u] = owned[u]
      /\ owned'[t] = (owned[t] \/ about[t] = "refresh")
  BY DEF Three!Write, LeaseInv, LeaseTypeOK, Three!Set, Three!Keep, Live, Three!Live
<1>5. LeaseTypeOK(Many)'
  <2>1. holder' \in Many /\ age' \in 0 .. Ttl
    BY <1>2
  <2>2. about' \in [Many -> Intents]
    BY <1>2 DEF LeaseInv, LeaseTypeOK, Intents
  <2> QED
    BY <1>2, <1>3, <1>4, <2>1, <2>2 DEF LeaseInv, LeaseTypeOK
<1>6. \A u \in Many : life'[u] # "frozen" /\ Untouched(u)' /\ TimersOK(u)'
  BY <1>1, <1>2, <1>3, <1>4 DEF LeaseInv, LeaseTypeOK, Untouched, TimersOK, AboutToWrite, Live,
     Three!Live
<1>7. \A u \in Many : KeyOK(u)' /\ OwnerOK(u)'
  BY <1>1, <1>2, <1>4 DEF LeaseInv, KeyOK, OwnerOK, Owner, Live, Three!Live
<1>8. ASSUME NEW u \in Many, about'[u] = "contend"
      PROVE  \A v \in Many : ~Owner(v)'
  <2>1. about[u] = "contend" /\ u # t
    BY <1>2, <1>8 DEF LeaseInv, LeaseTypeOK
  <2>2. \A v \in Many : ~Owner(v)
    BY <2>1 DEF LeaseInv, IntentOK
  <2>3. about[t] # "refresh"
    BY <2>1 DEF LeaseInv, IntentOK, Nobody
  <2> QED
    BY <1>2, <1>4, <2>2, <2>3 DEF Owner, Live, Three!Live
<1>9. ASSUME NEW u \in Many, about'[u] \in {"refresh", "remove"}
      PROVE  FALSE
  <2>1. about[u] = about'[u] /\ u # t
    BY <1>2, <1>9 DEF LeaseInv, LeaseTypeOK
  <2>2. Fresh /\ holder = u /\ Nobody(Many, "contend") /\ ~Owner(t)
    BY <1>9, <2>1 DEF LeaseInv, IntentOK, OwnerOK
  <2>3. about[t] \in {"renew", "refresh"}
    BY <2>2 DEF Three!Write, Nobody, Live, Three!Live
  <2> QED
    BY <1>1, <2>1, <2>2, <2>3 DEF LeaseInv, IntentOK, Owner
<1>10. \A u \in Many : IntentOK(u)'
  BY <1>1, <1>2, <1>4, <1>8, <1>9 DEF LeaseInv, LeaseTypeOK, IntentOK, AboutToWrite, Live,
     Three!Live
<1> QED
  BY <1>5, <1>6, <1>7, <1>10 DEF LeaseInv

\* A claim that is read back is old enough for every contender of its time to
\* have written, and young enough to stand.
LEMMA ReadBackInv ==
  ASSUME TimingOrder, LeaseInv, NEW t \in Many, Three!ReadBack(t)
  PROVE  LeaseInv'
<1> USE LeaseConstants
<1>1. PICK left \in settling[t] :
        left <= 0 /\ settling' = [settling EXCEPT ![t] = @ \ {left}]
  BY DEF Three!ReadBack, Live, Three!Live
<1>2. /\ Live(t) /\ about[t] = "nothing"
      /\ UNCHANGED <<holder, age, life, beatIn, about>> /\ Fresh' = Fresh
  BY DEF Three!ReadBack, Three!keyVars, Fresh, Live, Three!Live, Three!Fresh
<1>3. /\ owned' \in [Many -> BOOLEAN] /\ owned'[t] = (holder = t)
      /\ \A u \in Many \ {t} : owned'[u] = owned[u]
  BY DEF Three!ReadBack, LeaseInv, LeaseTypeOK, Three!Set, Live, Three!Live
<1>4. holder = t => age > 0 /\ age < Ttl
  BY <1>1, <1>2 DEF LeaseInv, LeaseTypeOK, KeyOK, TimersOK
<1>5. LeaseTypeOK(Many)'
  BY <1>1, <1>2, <1>3 DEF LeaseInv, LeaseTypeOK
<1>6. \A u \in Many : life'[u] # "frozen" /\ Untouched(u)' /\ TimersOK(u)'
  BY <1>1, <1>2, <1>3 DEF LeaseInv, LeaseTypeOK, Untouched, TimersOK, AboutToWrite, Live, Three!Live
<1>7. \A u \in Many : KeyOK(u)' /\ OwnerOK(u)'
  BY <1>2, <1>3, <1>4 DEF LeaseInv, KeyOK, OwnerOK, Owner, Live, Three!Live
<1>8. holder = t => Nobody(Many, "contend")
  BY <1>4 DEF LeaseInv, LeaseTypeOK, IntentOK, Nobody, Fresh, Three!Fresh
<1>9. \A u \in Many : IntentOK(u)'
  BY <1>2, <1>3, <1>8 DEF LeaseInv, IntentOK, Nobody, AboutToWrite, Owner, Live, Three!Live
<1> QED
  BY <1>5, <1>6, <1>7, <1>9 DEF LeaseInv

\* Pages that hide, unmount, die or come back: an owner is about to remove the
\* key, everybody else just goes.
LEMMA GoneInv ==
  ASSUME TimingOrder, LeaseInv, NEW t \in Many,
         Three!PageHide(t) \/ Three!Stop(t) \/ Three!Restore(t) \/ Three!Kill(t)
  PROVE  LeaseInv'
<1> USE LeaseConstants DEF Three!keyVars
<1>1. /\ UNCHANGED <<holder, age, owned, beatIn>> /\ Fresh' = Fresh
      /\ life' \in [Many -> {"new", "open", "frozen", "stopped", "gone"}]
      /\ life'[t] \in {"stopped", "gone"} /\ life[t] # "new"
      /\ settling' \in [Many -> SUBSET Int] /\ about' \in [Many -> Intents]
      /\ \A u \in Many \ {t} : /\ life'[u] = life[u] /\ about'[u] = about[u]
                              /\ settling'[u] = settling[u]
  BY DEF LeaseInv, LeaseTypeOK, TimingOrder, Three!PageHide, Three!Stop, Three!Restore,
     Three!Kill, Three!OnLeave, Live, Fresh, Intents, Three!Live, Three!Fresh
<1>2. about'[t] = "nothing" \/ (about'[t] = "remove" /\ Owner(t))
  BY DEF LeaseInv, LeaseTypeOK, Three!PageHide, Three!Stop, Three!Restore, Three!Kill,
     Three!OnLeave, Live, Owner, Three!Live
<1>3. LeaseTypeOK(Many)'
  BY <1>1 DEF LeaseInv, LeaseTypeOK
<1>4. \A u \in Many : life'[u] # "frozen" /\ Untouched(u)' /\ TimersOK(u)' /\ KeyOK(u)'
  BY <1>1 DEF LeaseInv, Untouched, TimersOK, KeyOK, AboutToWrite, Live, Three!Live
<1>5. \A u \in Many : OwnerOK(u)' /\ (Owner(u)' => Owner(u))
  BY <1>1 DEF LeaseInv, OwnerOK, Owner, Live, Three!Live
<1>6. IntentOK(t)'
  BY <1>1, <1>2, OwnersAgree DEF IntentOK, AboutToWrite, Live, Nobody, Three!Live
<1>7. ASSUME NEW u \in Many, u # t PROVE IntentOK(u)'
  BY <1>1, <1>2, <1>5, <1>7 DEF LeaseInv, IntentOK, AboutToWrite, Live, Nobody, Three!Live
<1> QED
  BY <1>3, <1>4, <1>5, <1>6, <1>7 DEF LeaseInv

\* The key an owner leaves behind is its own until the removal.
LEMMA RemoveInv ==
  ASSUME TimingOrder, LeaseInv, NEW t \in Many, Three!Remove(t)
  PROVE  LeaseInv'
<1> USE LeaseConstants
<1>1. /\ Fresh /\ holder = t /\ ~Live(t) /\ Nobody(Many, "contend") /\ about[t] = "remove"
      /\ about' = [about EXCEPT ![t] = "nothing"] /\ holder' = NoTab /\ age' = Ttl
      /\ UNCHANGED <<life, owned, beatIn, settling>>
  BY DEF Three!Remove, LeaseInv, IntentOK, Live, Three!Live
<1>2. LeaseTypeOK(Many)'
  BY <1>1 DEF LeaseInv, LeaseTypeOK, Intents
<1>3. \A u \in Many : ~Owner(u)
  BY <1>1, OwnersAgree DEF Owner
<1>4. \A u \in Many : u # t => about[u] = "nothing"
  BY <1>1, <1>3 DEF LeaseInv, LeaseTypeOK, IntentOK, Intents, Nobody, AboutToWrite, Owner
<1>5. \A u \in Many : /\ life'[u] # "frozen" /\ Untouched(u)' /\ TimersOK(u)'
                     /\ KeyOK(u)' /\ OwnerOK(u)'
  BY <1>1, <1>3 DEF LeaseInv, LeaseTypeOK, Untouched, TimersOK, KeyOK, OwnerOK, Owner,
     AboutToWrite, Live, Three!Live
<1>6. \A u \in Many : IntentOK(u)'
  BY <1>1, <1>4 DEF LeaseInv, LeaseTypeOK, IntentOK, AboutToWrite
<1> QED
  BY <1>2, <1>5, <1>6 DEF LeaseInv

\* Time passes only when no script is between a read and its write, and never
\* beyond a late timer: an owner's claim cannot expire.
LEMMA PassTimeInv ==
  ASSUME TimingOrder, LeaseInv, Three!PassTime
  PROVE  LeaseInv'
<1> USE LeaseConstants
<1>1. /\ UNCHANGED <<holder, life, owned, about>> /\ \A t \in Many : about[t] = "nothing"
      /\ age' = IF age < Ttl THEN age + 1 ELSE age
      /\ beatIn' \in [Many -> Int] /\ settling' \in [Many -> SUBSET Int]
      /\ \A t \in Many : beatIn'[t] = IF Live(t) THEN beatIn[t] - 1 ELSE beatIn[t]
      /\ \A t \in Many : settling'[t] = IF Live(t) THEN {left - 1 : left \in settling[t]}
                                                   ELSE settling[t]
  BY DEF Three!PassTime, LeaseInv, LeaseTypeOK, Live, Three!Live
<1>2. LeaseTypeOK(Many)'
  BY <1>1 DEF LeaseInv, LeaseTypeOK
<1>3. ASSUME NEW t \in Many, Live(t)
      PROVE  /\ beatIn[t] \in Int /\ beatIn[t] > -MaxLate
             /\ \A left \in settling[t] : left \in Int /\ left > -MaxLate
  BY <1>3 DEF Three!PassTime, LeaseInv, LeaseTypeOK, Live, Three!Live
<1>4. \A t \in Many : life'[t] # "frozen" /\ Untouched(t)' /\ TimersOK(t)'
  BY <1>1, <1>3 DEF LeaseInv, Untouched, TimersOK, AboutToWrite, Live, Three!Live
<1>5. \A t \in Many : KeyOK(t)' /\ OwnerOK(t)'
  BY <1>1, <1>3 DEF LeaseInv, LeaseTypeOK, TimersOK, KeyOK, OwnerOK, Owner, Live, Three!Live
<1>6. \A t \in Many : IntentOK(t)'
  BY <1>1 DEF LeaseInv, IntentOK, AboutToWrite
<1> QED
  BY <1>2, <1>4, <1>5, <1>6 DEF LeaseInv

LEMMA NextInv == TimingOrder /\ LeaseInv /\ [Three!Next]_Three!vars => LeaseInv'
<1> SUFFICES ASSUME TimingOrder, LeaseInv, [Three!Next]_Three!vars PROVE LeaseInv'
  OBVIOUS
<1>1. ASSUME NEW t \in Many, Three!Open(t) PROVE LeaseInv'
  BY <1>1, OpenInv
<1>2. ASSUME NEW t \in Many, Three!TabStep(t) PROVE LeaseInv'
  BY <1>2, WriteInv, RemoveInv, ReadBackInv, HeartBeatInv DEF Three!TabStep
<1>3. ASSUME NEW t \in Many, Three!PageHide(t) \/ Three!Stop(t) \/ Three!Restore(t) \/ Three!Kill(t) PROVE LeaseInv'
  BY <1>3, GoneInv
<1>4. CASE Three!PassTime
  BY <1>4, PassTimeInv
<1>5. CASE UNCHANGED Three!vars
  BY <1>5 DEF Three!vars, Three!keyVars, LeaseInv, LeaseTypeOK, Untouched, TimersOK, KeyOK,
     OwnerOK, IntentOK, Owner, AboutToWrite, Live, Fresh, Nobody, Three!Live, Three!Fresh
<1> QED
  BY <1>1, <1>2, <1>3, <1>4, <1>5 DEF Three!Next

LEMMA SameCardinality ==
  ASSUME NEW S
  PROVE  Three!Cardinality(S) = Cardinality(S) /\ Two!Cardinality(S) = Cardinality(S)
BY DEF Cardinality, Three!Cardinality, Two!Cardinality

LEMMA InvOneOwner == TimingOrder /\ LeaseInv => Three!OneOwner
<1> SUFFICES ASSUME TimingOrder, LeaseInv PROVE Cardinality(Three!Owners) <= 1
  BY SameCardinality DEF Three!OneOwner
<1>1. CASE Three!Owners = {}
  BY <1>1, FS_EmptySet
<1>2. CASE Three!Owners # {}
  <2>1. PICK t \in Many : Owner(t)
    BY <1>2 DEF Three!Owners, Owner, Live, Three!Live
  <2>2. Three!Owners = {t}
    BY <2>1, OwnersAgree DEF Three!Owners, Owner, Live, Three!Live
  <2> QED
    BY <2>2, FS_Singleton
<1> QED
  BY <1>1, <1>2

-------------------------------------------------------------------------------
(***************************************************************************)
(* One page, c, may be frozen and come back, and takes itself for the      *)
(* owner when it does. Of the others at most one is an owner, and the key  *)
(* is its own; c gives way to it at its next heartbeat, so that both are   *)
(* owners for no longer than c's heartbeat has been set.                   *)
(***************************************************************************)

CacheOrder(c) == Two!LeaseAssumption /\ c = t1 /\ TimesInOrder

\* Only c can become an owner before time passes.
Unsettled(c) == ~Fresh \/ holder = c \/ age = 0
Alone(c) == \A u \in Few \ {c} : ~Owner(u)

\* The timers of a page, which stand still with it when it is frozen.
TimersKept(t) ==
  /\ -MaxLate <= beatIn[t] /\ beatIn[t] <= Beat
  /\ life[t] \in {"open", "frozen"} =>
       /\ \A left \in settling[t] : left = beatIn[t] + Settle - Beat /\ -MaxLate <= left
       /\ AboutToWrite(t) => beatIn[t] = Beat /\ settling[t] = {}

\* What is known between the read and the write of a page other than c, and of c.
IntentKept(t, c) ==
  /\ AboutToWrite(t) => Live(t)
  /\ about[t] = "renew" => owned[t]
  /\ about[t] = "contend" => (~Fresh \/ age = 0) /\ Alone(c)
  /\ about[t] = "refresh" => Fresh /\ holder = t /\ age > 0
  /\ about[t] = "remove" =>
       Fresh /\ holder = t /\ ~Live(t) /\ Nobody(Few, "contend") /\ about[c] = "nothing"
CachedIntent(c) == about[c] # "nothing" => Unsettled(c) /\ Alone(c)

\* c has given way, and until time passes it stays so.
GaveWay(c) == ~owned[c] /\ about[c] = "nothing" /\ beatIn[c] = Beat /\ settling[c] = {}

OverlapOK(c) ==
  /\ overlap \in Int /\ 0 <= overlap /\ overlap <= Beat + MaxLate
  /\ overlap <= Beat - beatIn[c] \/ GaveWay(c) \/ (Unsettled(c) /\ Alone(c))

CachedInv(c) ==
  /\ LeaseTypeOK(Few)
  /\ \A t \in Few : Untouched(t) /\ TimersKept(t)
  /\ \A t \in Few \ {c} :
       life[t] # "frozen" /\ KeyOK(t) /\ OwnerOK(t) /\ IntentKept(t, c)
  /\ CachedIntent(c) /\ OverlapOK(c)

LEMMA CacheConstants ==
  ASSUME NEW c, CacheOrder(c)
  PROVE  /\ Ttl \in Nat \ {0} /\ Beat \in Nat \ {0} /\ Settle \in Nat \ {0} /\ MaxLate \in Nat
         /\ Settle + MaxLate < Beat /\ Beat + MaxLate < Ttl /\ NoTab \notin Few /\ c \in Few
BY DEF CacheOrder, TimesInOrder, Two!LeaseAssumption

LEMMA InitCInv ==
  ASSUME NEW c, CacheOrder(c), Two!Init
  PROVE  CachedInv(c)
BY CacheConstants DEF Two!Init, CachedInv, LeaseTypeOK, Intents, Untouched, TimersKept, KeyOK,
   OwnerOK, IntentKept, CachedIntent, OverlapOK, Owner, Live, AboutToWrite, Two!Live

\* While a page other than c is an owner, the key is its own and young enough, nobody
\* contends with it, and no other page is an owner but perhaps c.
LEMMA OthersAgree ==
  ASSUME NEW c, CacheOrder(c), CachedInv(c), NEW t \in Few \ {c}, Owner(t)
  PROVE  /\ Fresh /\ holder = t /\ Nobody(Few, "contend") /\ about[c] = "nothing"
         /\ \A u \in Few \ {c} : Owner(u) => u = t
<1>1. Fresh /\ holder = t /\ about[c] = "nothing"
  BY CacheConstants DEF CachedInv, LeaseTypeOK, OwnerOK, Fresh, CachedIntent, Alone, Two!Fresh
<1>2. \A u \in Few \ {c} : about[u] # "contend" /\ (Owner(u) => u = t)
  BY <1>1 DEF CachedInv, OwnerOK, IntentKept, Alone
<1> QED
  BY <1>1, <1>2 DEF Nobody

-------------------------------------------------------------------------------
(* Each action keeps the invariant *)

\* Open, and the heartbeat of a page that does not own the lease.
LEMMA TryClaimCInv ==
  ASSUME NEW c, CacheOrder(c), CachedInv(c), NEW t \in Few, Two!TryClaim(t), ~owned[t],
         about[t] = "nothing", UNCHANGED <<Two!keyVars, settling, overlap>>, settling[t] = {},
         \/ life[t] = "new" /\ life' = [life EXCEPT ![t] = "open"] /\ beatIn' = beatIn
         \/ /\ Live(t) /\ life' = life /\ beatIn' = [beatIn EXCEPT ![t] = Beat]
            /\ holder = t /\ t # c => age > 0
  PROVE  CachedInv(c)'
<1> USE CacheConstants DEF Two!keyVars
<1>1. owned' = owned
  <2>1. owned = [owned EXCEPT ![t] = FALSE]
    BY DEF CachedInv, LeaseTypeOK
  <2> QED
    BY <2>1 DEF Two!TryClaim, Two!Set, Two!Keep, Live, Fresh, Two!Live, Two!Fresh
<1>2. about' \in [Few -> Intents] /\ \A u \in Few \ {t} : about'[u] = about[u]
  BY DEF CachedInv, LeaseTypeOK, Two!TryClaim, Intents, Live, Fresh, Two!Live, Two!Fresh
<1>3. /\ life' \in [Few -> {"new", "open", "frozen", "stopped", "gone"}] /\ life'[t] = "open"
      /\ \A u \in Few \ {t} : life'[u] = life[u]
  BY DEF CachedInv, LeaseTypeOK, Live, Two!Live
<1>4. /\ beatIn' \in [Few -> Int] /\ beatIn'[t] = Beat
      /\ \A u \in Few \ {t} : beatIn'[u] = beatIn[u]
  BY DEF CachedInv, LeaseTypeOK, Untouched
<1>5. LeaseTypeOK(Few)'
  BY <1>1, <1>2, <1>3, <1>4 DEF CachedInv, LeaseTypeOK
<1>6. Fresh' = Fresh /\ \A u \in Few : Owner(u)' <=> Owner(u)
  BY <1>1, <1>3 DEF Owner, Live, Fresh, Two!Live, Two!Fresh
<1>7. (Unsettled(c)' <=> Unsettled(c)) /\ (Alone(c)' <=> Alone(c))
  BY <1>6 DEF Unsettled, Alone
<1>8. \/ about'[t] = "nothing" /\ Fresh /\ holder # t
      \/ about'[t] = "refresh" /\ Fresh /\ holder = t
      \/ about'[t] = "contend" /\ ~Fresh
  BY DEF CachedInv, LeaseTypeOK, Two!TryClaim, Two!Set, Two!Keep, Live, Fresh, Two!Live, Two!Fresh
<1>9. about'[t] # "nothing" /\ (t = c \/ about'[t] = "contend") => Alone(c)
  BY <1>8, OthersAgree DEF Alone
<1>10. \A u \in Few : Untouched(u)' /\ TimersKept(u)'
  BY <1>1, <1>2, <1>3, <1>4 DEF CachedInv, LeaseTypeOK, Untouched, TimersKept, AboutToWrite,
     Live, Two!Live
<1>11. \A u \in Few \ {c} : life'[u] # "frozen" /\ KeyOK(u)' /\ OwnerOK(u)'
  BY <1>2, <1>3, <1>4, <1>6, <1>8 DEF CachedInv, KeyOK, OwnerOK, Live, Two!Live
<1>12. ASSUME NEW u \in Few \ {c}, u = t PROVE IntentKept(u, c)'
  BY <1>2, <1>3, <1>6, <1>7, <1>8, <1>9, <1>12 DEF CachedInv, Untouched, IntentKept,
     AboutToWrite, Live, Two!Live
<1>13. ASSUME NEW u \in Few \ {c}, u # t PROVE IntentKept(u, c)'
  <2>1. /\ about'[u] = about[u] /\ life'[u] = life[u] /\ owned'[u] = owned[u]
        /\ holder' = holder /\ age' = age
    BY <1>1, <1>2, <1>3, <1>13
  <2>2. about[u] = "remove" => Fresh /\ holder = u /\ ~Live(u) /\ Nobody(Few, "contend") /\ about[c] = "nothing"
    BY DEF CachedInv, IntentKept
  <2>3. about[u] = "remove" => Nobody(Few, "contend")' /\ about'[c] = "nothing"
    BY <1>2, <1>8, <1>13, <2>2 DEF Nobody
  <2> QED
    BY <1>6, <1>7, <2>1, <2>2, <2>3 DEF CachedInv, IntentKept, AboutToWrite, Live, Two!Live
<1>14. CachedIntent(c)'
  BY <1>2, <1>7, <1>8, <1>9 DEF CachedInv, CachedIntent, Unsettled
<1>15. OverlapOK(c)'
  <2>1. CASE t # c
    BY <1>1, <1>2, <1>4, <1>7, <2>1 DEF CachedInv, OverlapOK, GaveWay
  <2>2. CASE t = c
    BY <1>1, <1>2, <1>4, <1>7, <1>8, <1>9, <2>2 DEF CachedInv, OverlapOK, GaveWay, Unsettled
  <2> QED
    BY <2>1, <2>2
<1> QED
  BY <1>5, <1>10, <1>11, <1>12, <1>13, <1>14, <1>15 DEF CachedInv

LEMMA OpenCInv ==
  ASSUME NEW c, CacheOrder(c), CachedInv(c), NEW t \in Few, Two!Open(t)
  PROVE  CachedInv(c)'
BY TryClaimCInv DEF Two!Open, CachedInv, Untouched, Two!keyVars, Live, Two!Live

\* A heartbeat finds no claim of its own waiting. c finds the key of another owner, and
\* gives way, or there is no other owner.
LEMMA HeartBeatCInv ==
  ASSUME NEW c, CacheOrder(c), CachedInv(c), NEW t \in Few, Two!HeartBeat(t)
  PROVE  CachedInv(c)'
<1> USE CacheConstants DEF Two!keyVars
<1>1. settling[t] = {} /\ Live(t) /\ about[t] = "nothing" /\ life[t] = "open"
  <2> SUFFICES ASSUME NEW left \in settling[t] PROVE FALSE
    BY DEF Two!HeartBeat, Live, Two!Live
  <2>1. left = beatIn[t] + Settle - Beat /\ -MaxLate <= left /\ beatIn[t] <= 0 /\ beatIn[t] \in Int
    BY DEF Two!HeartBeat, CachedInv, LeaseTypeOK, TimersKept, Live, Two!Live
  <2> QED
    BY <2>1
<1>2. holder = t /\ t # c => age > 0
  BY <1>1 DEF Two!HeartBeat, CachedInv, LeaseTypeOK, KeyOK, Live, Two!Live
<1>3. CASE ~owned[t]
  BY <1>1, <1>2, <1>3, TryClaimCInv DEF Two!HeartBeat, Live, Two!Live
<1>4. CASE owned[t] /\ t # c
  <2>1. Owner(t)
    BY <1>1, <1>4 DEF Owner
  <2>2. /\ Fresh /\ holder = t /\ Nobody(Few, "contend") /\ about[c] = "nothing"
        /\ \A u \in Few \ {c} : Owner(u) => u = t
    BY <1>4, <2>1, OthersAgree
  <2>3. /\ about' = [about EXCEPT ![t] = "renew"] /\ beatIn' = [beatIn EXCEPT ![t] = Beat]
        /\ UNCHANGED <<owned, holder, age, life, settling, overlap>>
    BY <1>4, <2>2 DEF Two!HeartBeat, Two!Renew, Two!Keep, Live, Fresh, Two!Live, Two!Fresh
  <2>4. LeaseTypeOK(Few)'
    BY <2>3 DEF CachedInv, LeaseTypeOK, Intents
  <2>5. \A u \in Few : Untouched(u)' /\ TimersKept(u)'
    BY <1>1, <2>3, <2>4 DEF CachedInv, LeaseTypeOK, Untouched, TimersKept, AboutToWrite
  <2>6. \A u \in Few \ {c} : life'[u] # "frozen" /\ KeyOK(u)' /\ OwnerOK(u)'
    BY <2>2, <2>3 DEF CachedInv, LeaseTypeOK, KeyOK, OwnerOK, Owner, Live, Two!Live
  <2>7. \A u \in Few \ {c} : IntentKept(u, c)'
    BY <1>1, <1>2, <1>4, <2>1, <2>2, <2>3
       DEF CachedInv, LeaseTypeOK, IntentKept, AboutToWrite, Owner, Live, Nobody, Fresh,
          Two!Live, Two!Fresh
  <2>8. CachedIntent(c)' /\ OverlapOK(c)'
    BY <1>4, <2>2, <2>3 DEF CachedInv, LeaseTypeOK, CachedIntent, OverlapOK, GaveWay, Unsettled,
       Alone, Fresh, Owner, Live, Two!Live, Two!Fresh
  <2> QED
    BY <2>4, <2>5, <2>6, <2>7, <2>8 DEF CachedInv
<1>5. CASE owned[t] /\ t = c
  <2>1. beatIn' = [beatIn EXCEPT ![c] = Beat] /\ UNCHANGED <<holder, age, life, settling, overlap>>
    BY <1>5 DEF Two!HeartBeat, Live, Two!Live
  <2>2. \/ /\ Fresh /\ holder # c
           /\ owned' = [owned EXCEPT ![c] = FALSE] /\ about' = about
        \/ /\ ~Fresh \/ holder = c
           /\ owned' = owned /\ about' = [about EXCEPT ![c] = "renew"]
    BY <1>5 DEF Two!HeartBeat, Two!Renew, Two!Set, Two!Keep, Live, Fresh, Two!Live, Two!Fresh
  <2>3. LeaseTypeOK(Few)'
    <3>1. owned' \in [Few -> BOOLEAN]
      BY <2>2 DEF CachedInv, LeaseTypeOK
    <3>2. about \in [Few -> Intents] /\ "renew" \in Intents
      BY DEF CachedInv, LeaseTypeOK, Intents
    <3>3. about' \in [Few -> Intents]
      BY <2>2, <3>2
    <3>4. beatIn' \in [Few -> Int]
      BY <2>1 DEF CachedInv, LeaseTypeOK
    <3> QED
      BY <2>1, <3>1, <3>3, <3>4 DEF CachedInv, LeaseTypeOK
  <2>4. \A u \in Few \ {c} : /\ about'[u] = about[u] /\ owned'[u] = owned[u]
                             /\ beatIn'[u] = beatIn[u]
    BY <2>1, <2>2 DEF CachedInv, LeaseTypeOK
  <2>5. /\ owned'[c] => ~Fresh \/ holder = c
        /\ about'[c] # "nothing" => ~Fresh \/ holder = c
        /\ beatIn'[c] = Beat /\ settling'[c] = {} /\ (owned'[c] \/ about'[c] = "nothing")
    BY <1>1, <1>5, <2>1, <2>2 DEF CachedInv, LeaseTypeOK
  <2>6. (\E u \in Few \ {c} : Owner(u)) => Fresh /\ holder # c
    BY OthersAgree
  <2>7. /\ \A u \in Few \ {c} : Owner(u)' <=> Owner(u)
        /\ Alone(c)' <=> Alone(c)
        /\ Unsettled(c)' <=> Unsettled(c)
        /\ Fresh' <=> Fresh
    BY <2>1, <2>4 DEF Owner, Live, Alone, Unsettled, Fresh, Two!Live, Two!Fresh
  <2>8. \A u \in Few : Untouched(u)' /\ TimersKept(u)'
    BY <1>1, <1>5, <2>1, <2>2, <2>3, <2>4, <2>5 DEF CachedInv, LeaseTypeOK, Untouched,
       TimersKept, AboutToWrite
  <2>9. \A u \in Few \ {c} : life'[u] # "frozen" /\ KeyOK(u)' /\ OwnerOK(u)'
    BY <2>1, <2>4, <2>7 DEF CachedInv, KeyOK, OwnerOK, Live, Two!Live
  <2>10. \A u \in Few \ {c} : IntentKept(u, c)'
    <3> SUFFICES ASSUME NEW u \in Few \ {c} PROVE IntentKept(u, c)'
      OBVIOUS
    <3>1. about[u] = "remove" => /\ Fresh /\ holder = u /\ Nobody(Few, "contend")' /\ about'[c] = "nothing"
      BY <1>1, <2>4, <2>5 DEF CachedInv, IntentKept, Nobody
    <3> QED
      BY <2>1, <2>4, <2>7, <3>1 DEF CachedInv, IntentKept, AboutToWrite, Live, Two!Live
  <2>11. CachedIntent(c)' /\ OverlapOK(c)'
    BY <2>1, <2>5, <2>6, <2>7 DEF CachedInv, CachedIntent, OverlapOK, GaveWay, Unsettled, Alone
  <2> QED
    BY <2>3, <2>8, <2>9, <2>10, <2>11 DEF CachedInv
<1> QED
  BY <1>3, <1>4, <1>5

\* A page about to write has no other owner beside it but perhaps c.
LEMMA WriterAlone ==
  ASSUME NEW c, CacheOrder(c), CachedInv(c), NEW t \in Few, AboutToWrite(t)
  PROVE  \A u \in Few \ {c} : Owner(u) => u = t
<1> SUFFICES ASSUME NEW u \in Few \ {c}, Owner(u) PROVE u = t
  OBVIOUS
<1>1. holder = u /\ Nobody(Few, "contend") /\ about[c] = "nothing"
  BY OthersAgree
<1>2. t # c /\ about[t] \in {"renew", "refresh"}
  BY <1>1 DEF AboutToWrite, Nobody
<1>3. CASE about[t] = "renew"
  BY <1>2, <1>3, OthersAgree DEF CachedInv, IntentKept, AboutToWrite, Owner
<1>4. CASE about[t] = "refresh"
  BY <1>1, <1>2, <1>4 DEF CachedInv, IntentKept
<1> QED
  BY <1>2, <1>3, <1>4

LEMMA WriteCInv ==
  ASSUME NEW c, CacheOrder(c), CachedInv(c), NEW t \in Few, Two!Write(t)
  PROVE  CachedInv(c)'
<1> USE CacheConstants
<1>1. /\ Live(t) /\ AboutToWrite(t) /\ beatIn[t] = Beat /\ settling[t] = {}
      /\ \A u \in Few \ {c} : Owner(u) => u = t
  BY WriterAlone DEF Two!Write, AboutToWrite, CachedInv, TimersKept, Live, Two!Live
<1>2. /\ holder' = t /\ age' = 0 /\ Fresh' /\ about' = [about EXCEPT ![t] = "nothing"]
      /\ life' = life /\ beatIn' = beatIn /\ overlap' = overlap
  BY DEF Two!Write, Fresh, Live, Two!Live, Two!Fresh
<1>3. settling' \in [Few -> SUBSET Int] /\ settling'[t] \subseteq {Settle}
      /\ \A u \in Few \ {t} : settling'[u] = settling[u]
  BY <1>1 DEF Two!Write, CachedInv, LeaseTypeOK, Live, Two!Live
<1>4. /\ owned' \in [Few -> BOOLEAN]
      /\ \A u \in Few \ {t} : owned'[u] = owned[u]
      /\ owned'[t] = (owned[t] \/ about[t] = "refresh")
  BY DEF Two!Write, CachedInv, LeaseTypeOK, Two!Set, Two!Keep, Live, Two!Live
<1>5. LeaseTypeOK(Few)'
  <2>1. holder' \in Few /\ age' \in 0 .. Ttl
    BY <1>2
  <2>2. about' \in [Few -> Intents]
    BY <1>2 DEF CachedInv, LeaseTypeOK, Intents
  <2> QED
    BY <1>2, <1>3, <1>4, <2>1, <2>2 DEF CachedInv, LeaseTypeOK
<1>6. \A u \in Few : Untouched(u)' /\ TimersKept(u)'
  BY <1>1, <1>2, <1>3, <1>4 DEF CachedInv, LeaseTypeOK, Untouched, TimersKept, AboutToWrite,
     Live, Two!Live
<1>7. \A u \in Few \ {c} : life'[u] # "frozen" /\ KeyOK(u)' /\ OwnerOK(u)'
  BY <1>1, <1>2, <1>4 DEF CachedInv, KeyOK, OwnerOK, Owner, Live, Two!Live
<1>8. Unsettled(c)'
  BY <1>2 DEF Unsettled
<1>9. about[t] = "refresh" /\ t # c => ~Unsettled(c) /\ about[c] = "nothing"
  BY DEF CachedInv, IntentKept, CachedIntent, Unsettled
<1>10. ASSUME NEW u \in Few \ {c}, about'[u] \in {"refresh", "remove"}
       PROVE  FALSE
  <2>1. about[u] = about'[u] /\ u # t
    BY <1>2, <1>10 DEF CachedInv, LeaseTypeOK
  <2>2. /\ Fresh /\ holder = u /\ ~Owner(t)
        /\ t # c => about[t] # "contend"
    <3>1. Fresh /\ holder = u
      BY <1>10, <2>1 DEF CachedInv, IntentKept
    <3>2. about[c] = "nothing"
      BY <1>10, <2>1 DEF CachedInv, IntentKept, CachedIntent, Unsettled
    <3>3. t # c /\ ~Owner(t)
      BY <1>1, <2>1, <3>1, <3>2 DEF AboutToWrite, CachedInv, OwnerOK
    <3>4. about[u] = "remove" \/ age > 0
      BY <1>10, <2>1 DEF CachedInv, IntentKept
    <3>5. about[t] # "contend"
      BY <2>1, <1>10, <3>1, <3>3, <3>4 DEF CachedInv, IntentKept, Nobody
    <3> QED
      BY <3>1, <3>3, <3>5
  <2>3. t # c
    BY <1>1, <1>10, <2>1, <2>2 DEF AboutToWrite, CachedInv, IntentKept, CachedIntent, Unsettled
  <2>4. about[t] \in {"renew", "refresh"}
    BY <1>1, <2>2, <2>3 DEF AboutToWrite
  <2> QED
    BY <1>1, <2>1, <2>2, <2>3, <2>4 DEF CachedInv, IntentKept, Owner
<1>11. \A u \in Few \ {c} : about'[u] = "contend" => Alone(c)'
  <2> SUFFICES ASSUME NEW u \in Few \ {c}, about'[u] = "contend" PROVE Alone(c)'
    OBVIOUS
  <2>1. about[u] = "contend" /\ u # t
    BY <1>2 DEF CachedInv, LeaseTypeOK
  <2>2. Alone(c) /\ (~Fresh \/ age = 0)
    BY <2>1 DEF CachedInv, IntentKept
  <2>3. about[t] = "refresh" => t = c
    BY <2>2 DEF CachedInv, IntentKept
  <2> QED
    BY <1>2, <1>4, <2>2, <2>3 DEF Alone, Owner, Live, Two!Live
<1>12. \A u \in Few \ {c} : IntentKept(u, c)'
  BY <1>1, <1>2, <1>4, <1>10, <1>11 DEF CachedInv, LeaseTypeOK, IntentKept, AboutToWrite, Live,
     Two!Live
<1>13. Alone(c) => Alone(c)' \/ (about[t] = "refresh" /\ t # c)
  BY <1>2, <1>4 DEF Alone, Owner, Live, Two!Live
<1>14. CachedIntent(c)'
  BY <1>2, <1>8, <1>9, <1>13 DEF CachedInv, LeaseTypeOK, CachedIntent
<1>15. OverlapOK(c)'
  <2>1. CASE GaveWay(c)
    <3>1. t # c
      BY <1>1, <2>1 DEF GaveWay, AboutToWrite
    <3> QED
      BY <1>2, <1>3, <1>4, <2>1, <3>1 DEF CachedInv, OverlapOK, GaveWay
  <2>2. CASE ~GaveWay(c)
    BY <1>2, <1>8, <1>9, <1>13, <2>2 DEF CachedInv, OverlapOK
  <2> QED
    BY <2>1, <2>2
<1> QED
  BY <1>5, <1>6, <1>7, <1>12, <1>14, <1>15 DEF CachedInv

LEMMA ReadBackCInv ==
  ASSUME NEW c, CacheOrder(c), CachedInv(c), NEW t \in Few, Two!ReadBack(t)
  PROVE  CachedInv(c)'
<1> USE CacheConstants
<1>1. PICK left \in settling[t] :
        left <= 0 /\ settling' = [settling EXCEPT ![t] = @ \ {left}]
  BY DEF Two!ReadBack, Live, Two!Live
<1>2. /\ Live(t) /\ about[t] = "nothing" /\ life[t] = "open"
      /\ UNCHANGED <<holder, age, life, beatIn, about, overlap>> /\ Fresh' = Fresh
  BY DEF Two!ReadBack, Two!keyVars, Fresh, Live, Two!Live, Two!Fresh
<1>3. /\ owned' \in [Few -> BOOLEAN] /\ owned'[t] = (holder = t)
      /\ \A u \in Few \ {t} : owned'[u] = owned[u]
  BY DEF Two!ReadBack, CachedInv, LeaseTypeOK, Two!Set, Live, Two!Live
<1>4. holder = t /\ t # c => age > 0 /\ age < Ttl /\ Fresh
  BY <1>1, <1>2 DEF CachedInv, LeaseTypeOK, KeyOK, TimersKept, Fresh, Two!Fresh
<1>5. LeaseTypeOK(Few)'
  BY <1>1, <1>2, <1>3 DEF CachedInv, LeaseTypeOK
<1>6. \A u \in Few : Untouched(u)' /\ TimersKept(u)'
  BY <1>1, <1>2, <1>3 DEF CachedInv, LeaseTypeOK, Untouched, TimersKept, AboutToWrite
<1>7. \A u \in Few \ {c} : life'[u] # "frozen" /\ KeyOK(u)' /\ OwnerOK(u)'
  BY <1>2, <1>3, <1>4 DEF CachedInv, KeyOK, OwnerOK, Owner, Live, Two!Live
<1>8. holder = t /\ t # c => ~Unsettled(c) /\ \A u \in Few \ {c} : about[u] # "contend"
  BY <1>4 DEF CachedInv, LeaseTypeOK, IntentKept, Unsettled
<1>9. (Unsettled(c)' <=> Unsettled(c)) /\ (Alone(c) /\ ~(holder = t /\ t # c) => Alone(c)')
  BY <1>2, <1>3 DEF Unsettled, Alone, Owner, Live, Two!Live
<1>10. \A u \in Few \ {c} : IntentKept(u, c)'
  BY <1>2, <1>3, <1>8, <1>9 DEF CachedInv, IntentKept, Nobody, AboutToWrite, Live, Two!Live
<1>11. CachedIntent(c)'
  BY <1>2, <1>8, <1>9 DEF CachedInv, CachedIntent
<1>12. OverlapOK(c)'
  <2>1. CASE GaveWay(c)
    <3>1. t # c
      BY <1>1, <2>1 DEF GaveWay
    <3> QED
      BY <1>1, <1>2, <1>3, <2>1, <3>1 DEF CachedInv, LeaseTypeOK, OverlapOK, GaveWay
  <2>2. CASE ~GaveWay(c)
    BY <1>2, <1>8, <1>9, <2>2 DEF CachedInv, OverlapOK
  <2> QED
    BY <2>1, <2>2
<1> QED
  BY <1>5, <1>6, <1>7, <1>10, <1>11, <1>12 DEF CachedInv

\* Pages that hide, unmount, die or come back. c may remove a key that is its own.
LEMMA GoneCInv ==
  ASSUME NEW c, CacheOrder(c), CachedInv(c), NEW t \in Few,
         Two!PageHide(t) \/ Two!Stop(t) \/ Two!Restore(t) \/ Two!Kill(t)
  PROVE  CachedInv(c)'
<1> USE CacheConstants DEF Two!keyVars
<1>1. /\ UNCHANGED <<holder, age, owned, beatIn, overlap>> /\ Fresh' = Fresh
      /\ life' \in [Few -> {"new", "open", "frozen", "stopped", "gone"}]
      /\ life[t] # "new" /\ life'[t] # "new"
      /\ settling' \in [Few -> SUBSET Int] /\ about' \in [Few -> Intents]
      /\ settling'[t] \in {settling[t], {}}
      /\ \A u \in Few \ {t} : /\ life'[u] = life[u] /\ about'[u] = about[u]
                              /\ settling'[u] = settling[u]
  BY DEF CachedInv, LeaseTypeOK, Two!PageHide, Two!Stop, Two!Restore, Two!Kill, Two!OnLeave,
     Live, Fresh, Intents, Two!Live, Two!Fresh
<1>2. \/ about'[t] = "nothing"
      \/ about'[t] = "remove" /\ Owner(t) /\ holder = t /\ ~Live(t)'
  BY DEF CachedInv, LeaseTypeOK, Two!PageHide, Two!Stop, Two!Restore, Two!Kill, Two!OnLeave,
     Live, Owner, Two!Live
<1>3. /\ t # c => life'[t] \in {"stopped", "gone"}
      /\ life'[t] \in {"open", "frozen"} => life[t] \in {"open", "frozen"}
  BY DEF CachedInv, LeaseTypeOK, CacheOrder, Two!PageHide, Two!Stop, Two!Restore, Two!Kill, Live,
     Two!Live
<1>4. LeaseTypeOK(Few)'
  BY <1>1 DEF CachedInv, LeaseTypeOK
<1>5. \A u \in Few : Untouched(u)' /\ TimersKept(u)'
  BY <1>1, <1>2, <1>3 DEF CachedInv, Untouched, TimersKept, AboutToWrite
<1>6. \A u \in Few \ {c} : /\ life'[u] # "frozen" /\ KeyOK(u)' /\ OwnerOK(u)'
                           /\ Owner(u)' => Owner(u)
  BY <1>1, <1>3 DEF CachedInv, KeyOK, OwnerOK, Owner, Live, Two!Live
<1>7. (Unsettled(c)' <=> Unsettled(c)) /\ (Alone(c) => Alone(c)')
  <2>1. Unsettled(c)' <=> Unsettled(c)
    BY <1>1 DEF Unsettled
  <2>2. Alone(c) => Alone(c)'
    BY <1>6 DEF Alone
  <2> QED
    BY <2>1, <2>2
<1>8. ASSUME NEW u \in Few \ {c}, u = t PROVE IntentKept(u, c)'
  <2>1. Owner(t) => Fresh /\ holder = t /\ Nobody(Few, "contend") /\ about[c] = "nothing"
    BY <1>8, OthersAgree
  <2> QED
    BY <1>1, <1>2, <1>8, <2>1 DEF IntentKept, AboutToWrite, Nobody
<1>9. ASSUME NEW u \in Few \ {c}, u # t PROVE IntentKept(u, c)'
  <2>1. about[u] = "remove" => /\ Fresh /\ holder = u /\ Nobody(Few, "contend")' /\ about'[c] = "nothing"
    BY <1>1, <1>2, <1>9 DEF CachedInv, IntentKept, Nobody
  <2> QED
    BY <1>1, <1>7, <1>9, <2>1 DEF CachedInv, IntentKept, AboutToWrite, Live, Two!Live
<1>10. CachedIntent(c)'
  <2>1. CASE t # c
    BY <1>1, <1>7, <2>1 DEF CachedInv, CachedIntent
  <2>2. CASE t = c
    BY <1>1, <1>2, <1>7, <2>2, OthersAgree DEF CachedIntent, Unsettled, Alone
  <2> QED
    BY <2>1, <2>2
<1>11. OverlapOK(c)'
  <2>1. GaveWay(c) => GaveWay(c)'
    BY <1>1, <1>2 DEF GaveWay, Owner
  <2> QED
    BY <1>1, <1>7, <2>1 DEF CachedInv, OverlapOK
<1> QED
  BY <1>4, <1>5, <1>6, <1>8, <1>9, <1>10, <1>11 DEF CachedInv

\* The removal leaves no owner but perhaps c.
LEMMA RemoveCInv ==
  ASSUME NEW c, CacheOrder(c), CachedInv(c), NEW t \in Few, Two!Remove(t)
  PROVE  CachedInv(c)'
<1> USE CacheConstants
<1>1. /\ about[t] = "remove" /\ about' = [about EXCEPT ![t] = "nothing"]
      /\ holder' = NoTab /\ age' = Ttl /\ ~Fresh'
      /\ UNCHANGED <<life, owned, beatIn, settling, overlap>>
  BY DEF Two!Remove, Fresh, Live, Two!Live, Two!Fresh
<1>2. LeaseTypeOK(Few)'
  BY <1>1 DEF CachedInv, LeaseTypeOK, Intents
<1>3. Alone(c)
  <2>1. CASE t = c
    BY <1>1, <2>1 DEF CachedInv, CachedIntent
  <2>2. CASE t # c
    BY <1>1, <2>2, OthersAgree DEF CachedInv, IntentKept, Alone, Owner
  <2> QED
    BY <2>1, <2>2
<1>4. Alone(c)' /\ Unsettled(c)'
  BY <1>1, <1>3 DEF Alone, Owner, Live, Unsettled, Two!Live
<1>5. \A u \in Few \ {c} : u # t => about[u] \in {"nothing", "contend"}
  <2> SUFFICES ASSUME NEW u \in Few \ {c}, u # t PROVE about[u] \in {"nothing", "contend"}
    OBVIOUS
  <2>1. about[u] # "renew"
    BY <1>3 DEF CachedInv, IntentKept, AboutToWrite, Alone, Owner
  <2>2. CASE t = c
    BY <1>1, <2>1, <2>2 DEF CachedInv, LeaseTypeOK, Intents, IntentKept, CachedIntent, Unsettled
  <2>3. CASE t # c
    BY <1>1, <2>1, <2>3 DEF CachedInv, LeaseTypeOK, Intents, IntentKept
  <2> QED
    BY <2>2, <2>3
<1>6. \A u \in Few : Untouched(u)' /\ TimersKept(u)'
  BY <1>1 DEF CachedInv, LeaseTypeOK, Untouched, TimersKept, AboutToWrite
<1>7. \A u \in Few \ {c} : life'[u] # "frozen" /\ KeyOK(u)' /\ OwnerOK(u)'
  BY <1>1, <1>4 DEF CachedInv, KeyOK, OwnerOK, Alone
<1>8. \A u \in Few \ {c} : IntentKept(u, c)'
  BY <1>1, <1>4, <1>5 DEF CachedInv, LeaseTypeOK, IntentKept, AboutToWrite, Live, Two!Live
<1>9. CachedIntent(c)' /\ OverlapOK(c)'
  BY <1>1, <1>4 DEF CachedInv, CachedIntent, OverlapOK
<1> QED
  BY <1>2, <1>6, <1>7, <1>8, <1>9 DEF CachedInv

\* Of two owners one is c, and a unit that passes is a unit of its heartbeat.
LEMMA OneBesideC ==
  ASSUME NEW c, CacheOrder(c), CachedInv(c), Alone(c) \/ ~Owner(c)
  PROVE  Cardinality(Two!Owners) \in {0, 1}
<1>1. CASE Two!Owners = {}
  BY <1>1, FS_EmptySet
<1>2. CASE Two!Owners # {}
  <2>1. PICK t \in Few : Owner(t)
    BY <1>2 DEF Two!Owners, Owner, Live, Two!Live
  <2>2. Two!Owners = {t}
    BY <2>1, OthersAgree DEF Two!Owners, Owner, Alone, Live, Two!Live
  <2> QED
    BY <2>2, FS_Singleton
<1> QED
  BY <1>1, <1>2

LEMMA PassTimeCInv ==
  ASSUME NEW c, CacheOrder(c), CachedInv(c), Two!PassTime
  PROVE  CachedInv(c)'
<1> USE CacheConstants
<1>1. /\ UNCHANGED <<holder, life, owned, about>> /\ \A t \in Few : about[t] = "nothing"
      /\ age' = IF age < Ttl THEN age + 1 ELSE age
      /\ beatIn' \in [Few -> Int] /\ settling' \in [Few -> SUBSET Int]
      /\ \A t \in Few : beatIn'[t] = IF Live(t) THEN beatIn[t] - 1 ELSE beatIn[t]
      /\ \A t \in Few : settling'[t] = IF Live(t) THEN {left - 1 : left \in settling[t]}
                                                   ELSE settling[t]
  BY DEF Two!PassTime, CachedInv, LeaseTypeOK, Live, Two!Live
<1>2. LeaseTypeOK(Few)'
  BY <1>1 DEF CachedInv, LeaseTypeOK
<1>3. ASSUME NEW t \in Few, Live(t)
      PROVE  /\ beatIn[t] \in Int /\ beatIn[t] > -MaxLate
             /\ \A left \in settling[t] : left \in Int /\ left > -MaxLate
  BY <1>3 DEF Two!PassTime, CachedInv, LeaseTypeOK, Live, Two!Live
<1>4. \A t \in Few : Untouched(t)' /\ TimersKept(t)'
  <2> SUFFICES ASSUME NEW t \in Few PROVE Untouched(t)' /\ TimersKept(t)'
    OBVIOUS
  <2>1. CASE Live(t)
    BY <1>1, <1>3, <2>1 DEF CachedInv, Untouched, TimersKept, AboutToWrite, Live, Two!Live
  <2>2. CASE ~Live(t)
    BY <1>1, <2>2 DEF CachedInv, Untouched, TimersKept, AboutToWrite
  <2> QED
    BY <2>1, <2>2
<1>5. \A t \in Few \ {c} : life'[t] # "frozen" /\ KeyOK(t)' /\ OwnerOK(t)'
  BY <1>1, <1>3 DEF CachedInv, LeaseTypeOK, TimersKept, KeyOK, OwnerOK, Owner, Live, Two!Live
<1>6. \A t \in Few \ {c} : IntentKept(t, c)'
  BY <1>1 DEF CachedInv, IntentKept, AboutToWrite
<1>7. CachedIntent(c)'
  BY <1>1 DEF CachedIntent
<1>8. OverlapOK(c)'
  <2>1. /\ overlap \in Int /\ 0 <= overlap /\ beatIn[c] \in Int /\ beatIn'[c] \in Int
        /\ -MaxLate <= beatIn'[c] /\ beatIn'[c] <= Beat /\ beatIn'[c] <= beatIn[c]
    BY <1>1, <1>2, <1>4 DEF CachedInv, OverlapOK, LeaseTypeOK, TimersKept
  <2>2. CASE Alone(c) \/ ~Owner(c)
    <3>1. overlap' = 0
      BY <2>2, OneBesideC, SameCardinality DEF Two!PassTime, Live, Two!Live
    <3> QED
      BY <2>1, <3>1 DEF OverlapOK
  <2>3. CASE ~Alone(c) /\ Owner(c)
    <3>1. overlap <= Beat - beatIn[c] /\ beatIn'[c] = beatIn[c] - 1
      BY <1>1, <2>3 DEF CachedInv, OverlapOK, GaveWay, Owner
    <3>2. overlap' \in {0, overlap, overlap + 1}
      BY DEF Two!PassTime, Live, Two!Live
    <3> QED
      BY <2>1, <3>1, <3>2 DEF OverlapOK
  <2> QED
    BY <2>2, <2>3
<1> QED
  BY <1>2, <1>4, <1>5, <1>6, <1>7, <1>8 DEF CachedInv

LEMMA NextCInv ==
  ASSUME NEW c, CacheOrder(c), CachedInv(c), [Two!Next]_Two!vars
  PROVE  CachedInv(c)'
<1>1. ASSUME NEW t \in Few, Two!Open(t) PROVE CachedInv(c)'
  BY <1>1, OpenCInv
<1>2. ASSUME NEW t \in Few, Two!TabStep(t) PROVE CachedInv(c)'
  BY <1>2, WriteCInv, RemoveCInv, ReadBackCInv, HeartBeatCInv DEF Two!TabStep
<1>3. ASSUME NEW t \in Few, Two!PageHide(t) \/ Two!Stop(t) \/ Two!Restore(t) \/ Two!Kill(t) PROVE CachedInv(c)'
  BY <1>3, GoneCInv
<1>4. CASE Two!PassTime
  BY <1>4, PassTimeCInv
<1>5. CASE UNCHANGED Two!vars
  BY <1>5 DEF Two!vars, Two!keyVars, CachedInv, LeaseTypeOK, Untouched, TimersKept, KeyOK,
     OwnerOK, IntentKept, CachedIntent, OverlapOK, GaveWay, Unsettled, Alone, Owner,
     AboutToWrite, Live, Fresh, Nobody, Two!Live, Two!Fresh
<1> QED
  BY <1>1, <1>2, <1>3, <1>4, <1>5 DEF Two!Next

-------------------------------------------------------------------------------
(* The inductive invariant *)

States == [cycle : Cycle!Trades \cup {Cycle!NoTrade}, armed : Swings \cup {Cycle!NoSwing},
           fired : SUBSET Swings, last : Int]
Entries == [trade : Cycle!Trades, swing : Swings \cup {Cycle!NoSwing}]

CycleTypeOK ==
  /\ now \in 1 .. MaxCandle
  /\ feed \in Seq(Candles \cup {Cycle!Gap})
  /\ owner \in Sessions \cup {NoTab}
  /\ life \in [Sessions -> {"new", "open", "gone"}]
  /\ program \in [Sessions -> States] /\ stored \in States
  /\ rows \in [Sessions -> SUBSET Cycle!Rows] /\ cache \in SUBSET Cycle!Rows
  /\ card \in [Sessions -> Cycle!Rows \cup {Cycle!NoCard}]
  /\ regains = 0
  /\ opened \in SUBSET Entries

\* What a program state has to know of the trades that were opened.
Aware(p) ==
  /\ \A o \in opened : /\ o.trade.entry <= p.last + 1
                       /\ o.swing # Cycle!NoSwing => o.swing \in p.fired
  /\ p.cycle # Cycle!NoTrade => p.armed = Cycle!NoSwing /\ \E o \in opened : o.trade = p.cycle
  /\ p.armed \notin p.fired
  /\ p.armed # Cycle!NoSwing => p.last >= 0
  /\ p.last >= -1

\* Whoever takes over reads this.
StoredAware == Aware(stored) /\ stored.armed = Cycle!NoSwing

\* Whoever holds the lease goes on from this.
OwnerAware ==
  \A s \in Sessions : owner = s /\ program[s] # Cycle!Unloaded => Aware(program[s])

\* A card is the trade of the program that runs beside it.
CardOK ==
  \A s \in Sessions :
    /\ program[s] = Cycle!Unloaded => card[s] = Cycle!NoCard
    /\ owner = s /\ card[s] # Cycle!NoCard => card[s].trade = program[s].cycle

CycleInv == /\ CycleTypeOK /\ StoredAware /\ OwnerAware /\ CardOK
            /\ Cycle!OneTradePerSwing /\ Cycle!OneTradeAtATime /\ Cycle!StoresAgree

-------------------------------------------------------------------------------
(* The greatest element of a set of integers *)

LEMMA Least ==
  ASSUME NEW S \in SUBSET Nat, S # {}
  PROVE  \E x \in S : \A y \in S : x <= y
<1>1. \E x \in S : \A y \in S : <<y, x>> \notin OpToRel(<, Nat)
  BY NatLessThanWellFounded, WFMin, Zenon
<1>2. \A x, y \in Nat : <<y, x>> \in OpToRel(<, Nat) <=> y < x
  BY Zenon DEF OpToRel
<1>3. \E x \in S : \A y \in S : ~(y < x)
  BY <1>1, <1>2, Zenon
<1>4. QED
  BY <1>3

LEMMA Greatest ==
  ASSUME NEW S \in SUBSET Int, S # {}, NEW b \in Int, \A x \in S : x <= b
  PROVE  \E x \in S : \A y \in S : y <= x
<1> DEFINE T == {n \in Nat : b - n \in S}
<1>1. PICK z \in S : TRUE
  OBVIOUS
<1>2. b - z \in Nat /\ b - (b - z) = z
  BY <1>1
<1>3. b - z \in T
  BY <1>1, <1>2
<1>4. PICK t \in T : \A u \in T : t <= u
  BY <1>3, Least
<1>5. ASSUME NEW y \in S PROVE y <= b - t
  <2>1. b - y \in Nat /\ b - (b - y) = y
    OBVIOUS
  <2>2. t <= b - y
    BY <2>1, <1>4
  <2>3. QED
    BY <2>1, <2>2
<1>6. QED
  BY <1>4, <1>5

LEMMA MaxIs ==
  ASSUME NEW S \in SUBSET Int, S # {}, NEW b \in Int, \A x \in S : x <= b
  PROVE  Cycle!Max(S) \in S
<1>1. \E x \in S : \A y \in S : x >= y
  BY Greatest
<1>2. QED
  BY <1>1 DEF Cycle!Max

-------------------------------------------------------------------------------
(* Reading candles *)

LEMMA CycleConstants ==
  ASSUME Cycle!CycleAssumption
  PROVE  /\ Cycle!NoTrade \notin Cycle!Trades /\ Cycle!NoSwing \notin Swings /\ Cycle!NoCard \notin Cycle!Rows
         /\ Cycle!Gap \notin Candles
         /\ \A sw \in Swings : sw.direction \in {"CALL", "PUT"}
         /\ \A c \in Candles : c.closes \in Cycle!Closings
BY DEF Cycle!CycleAssumption, Cycle!NoTrade, Cycle!Trades, Cycle!NoSwing, Cycle!NoCard,
   Cycle!Rows, Cycle!Statuses, Cycle!Gap, Cycle!Closings

\* An answer is the feed's candles, the last one as it stands.
Answers == {Cycle!View(Len(feed), reading) : reading \in Cycle!Readings(Len(feed))}

LEMMA AnswerType ==
  ASSUME CycleTypeOK, NEW view \in Answers
  PROVE  /\ DOMAIN view = 1 .. Len(feed)
         /\ \A i \in DOMAIN view : view[i] \in Candles \cup {Cycle!Gap}
<1>1. PICK reading \in Cycle!Readings(Len(feed)) : view = Cycle!View(Len(feed), reading)
  BY DEF Answers
<1>2. reading \in Candles \cup {Cycle!Gap}
  BY DEF Cycle!Readings
<1>3. QED
  BY <1>1, <1>2 DEF Cycle!View, CycleTypeOK

\* The candle that counts as closed: none, or one that is over and not a gap.
LEMMA ClosedIs ==
  ASSUME CycleTypeOK, NEW view \in Answers
  PROVE  /\ Cycle!LastClosed(view) \in Nat /\ Cycle!LastClosed(view) < now
         /\ Cycle!LastClosed(view) > 0 => Cycle!LastClosed(view) \in Cycle!Held(view)
<1> DEFINE S == {0} \cup {i \in Cycle!Held(view) : i < now}
<1>1. Cycle!Held(view) \subseteq 1 .. Len(feed) /\ Len(feed) \in Nat /\ now \in Nat /\ now > 0
  BY AnswerType DEF Cycle!Held, CycleTypeOK
<1>2. S \in SUBSET Int /\ S # {} /\ now \in Int /\ \A x \in S : x <= now
  BY <1>1
<1>3. Cycle!Max(S) \in S
  <2> HIDE DEF S
  <2> QED BY <1>2, MaxIs
<1>4. Cycle!LastClosed(view) \in S
  BY <1>3 DEF Cycle!LastClosed
<1>5. QED
  BY <1>1, <1>4

LEMMA OutcomeIs ==
  ASSUME Cycle!CycleAssumption, NEW d, NEW c \in Candles
  PROVE  Cycle!Outcome(d, c) \in {"WIN", "LOSS", "TIE"}
BY CycleConstants DEF Cycle!Outcome, Cycle!Closings

LEMMA HeldCandles ==
  ASSUME Cycle!CycleAssumption, CycleTypeOK, NEW view \in Answers, NEW i \in Cycle!Held(view)
  PROVE  i \in Nat /\ view[i] \in Candles
BY AnswerType DEF Cycle!Held, CycleTypeOK

\* A swing that is adopted passed every check.
LEMMA SetupIs ==
  ASSUME Cycle!CycleAssumption, NEW view, NEW n \in Int, NEW fired
  PROVE  Cycle!FindSetup(Cycle!Candidates(view, n, fired)) \in {Cycle!NoSwing} \cup (Swings \ fired)
<1> DEFINE C == Cycle!Candidates(view, n, fired)
           E == {sw.end : sw \in C}
<1>1. C \subseteq Swings \ fired
  BY DEF Cycle!Candidates
<1>2. CASE C = {}
  BY <1>2 DEF Cycle!FindSetup
<1>3. CASE C # {}
  <2>1. E \in SUBSET Int /\ E # {} /\ 0 \in Int /\ \A e \in E : e <= 0
    BY <1>1, <1>3 DEF Cycle!CycleAssumption
  <2>2. PICK e \in E : \A f \in E : f <= e
    <3> HIDE DEF E
    <3> QED BY <2>1, Greatest
  <2>3. \E sw \in C : \A other \in C : other.end <= sw.end
    BY <2>2
  <2>4. Cycle!FindSetup(C) \in C
    BY <1>3, <2>3 DEF Cycle!FindSetup
  <2>5. QED
    BY <1>1, <2>4
<1>4. QED
  BY <1>2, <1>3

-------------------------------------------------------------------------------
(* What one candle does to a program *)

Quiet(e) == e.settled = "none" /\ e.signal = Cycle!NoTrade
Results == {"WIN", "LOSS", "TIE"}
Again(p, n) == [entry |-> n + 1, direction |-> p.cycle.direction, stage |-> "martingale"]
First(p, n) == [entry |-> n + 1, direction |-> p.armed.direction, stage |-> "primary"]

\* The seven things that happen, each by what it leaves behind.
Ignores(p, e) == Quiet(e) /\ e.state = p /\ ~e.ends
Waits(p, e, n) == /\ p.cycle # Cycle!NoTrade /\ n < p.cycle.entry
                  /\ Quiet(e) /\ e.state = [p EXCEPT !.last = n] /\ ~e.ends
Aborts(p, e, n) == /\ p.cycle # Cycle!NoTrade /\ n > p.cycle.entry
                   /\ Quiet(e) /\ e.state = [p EXCEPT !.last = n, !.cycle = Cycle!NoTrade] /\ e.ends
Doubles(p, e, n) == /\ p.cycle # Cycle!NoTrade /\ n = p.cycle.entry /\ p.cycle.stage = "primary"
                    /\ e.settled = "LOSS" /\ e.signal = Again(p, n)
                    /\ e.state = [p EXCEPT !.last = n, !.cycle = Again(p, n)] /\ ~e.ends
Finishes(p, e, n) == /\ p.cycle # Cycle!NoTrade /\ e.settled \in Results /\ e.signal = Cycle!NoTrade
                     /\ e.state = [p EXCEPT !.last = n, !.cycle = Cycle!NoTrade] /\ e.ends
Looks(p, e, n) == /\ p.cycle = Cycle!NoTrade /\ Quiet(e) /\ ~e.ends
                  /\ e.state \in States /\ e.state.cycle = Cycle!NoTrade /\ e.state.last = n
                  /\ p.fired \subseteq e.state.fired /\ e.state.armed \notin e.state.fired
Fires(p, e, n) == /\ p.cycle = Cycle!NoTrade /\ p.armed # Cycle!NoSwing /\ n > 0
                  /\ e.settled = "none" /\ e.signal = First(p, n) /\ ~e.ends
                  /\ e.state = [cycle |-> First(p, n), armed |-> Cycle!NoSwing,
                                fired |-> p.fired \cup {p.armed}, last |-> n]
Moves(p, e, n) ==
  /\ n \in Nat /\ n < now /\ n > p.last
  /\ \/ Waits(p, e, n) \/ Aborts(p, e, n) \/ Doubles(p, e, n) \/ Finishes(p, e, n)
     \/ Looks(p, e, n) \/ Fires(p, e, n)

LEMMA CycleMoves ==
  ASSUME Cycle!CycleAssumption, CycleTypeOK, NEW p \in States, p.cycle # Cycle!NoTrade,
         NEW c, NEW n \in Nat, n = p.cycle.entry => c \in Candles
  PROVE  LET q == [p EXCEPT !.last = n]  e == Cycle!CycleEvent(q, c, n)
         IN  \/ Waits(p, e, n) \/ Aborts(p, e, n) \/ Doubles(p, e, n) \/ Finishes(p, e, n)
<1> DEFINE q == [p EXCEPT !.last = n]
           e == Cycle!CycleEvent(q, c, n)
           over == [Cycle!Nothing([q EXCEPT !.cycle = Cycle!NoTrade]) EXCEPT !.ends = TRUE]
<1>0. q.cycle = p.cycle /\ p.cycle.entry \in Nat /\ q \in States
  BY DEF States, Cycle!Trades, Cycle!NoTrade
<1>1. CASE n < p.cycle.entry
  <2>1. e = Cycle!Nothing(q)
    BY <1>0, <1>1 DEF Cycle!CycleEvent
  <2>2. QED
    BY <2>1, <1>1 DEF Waits, Cycle!Nothing, Quiet
<1>2. CASE n > p.cycle.entry
  <2>1. e = over
    BY <1>0, <1>2 DEF Cycle!CycleEvent
  <2>2. QED
    BY <2>1, <1>2 DEF Aborts, Cycle!Nothing, Quiet, States
<1>3. CASE n = p.cycle.entry
  <2> DEFINE result == Cycle!Outcome(p.cycle.direction, c)
  <2>1. result \in Results
    BY <1>3, OutcomeIs DEF Results
  <2>2. CASE result = "LOSS" /\ Cycle!OwesMartingale(p.cycle)
    <3>1. e = [Cycle!Nothing([q EXCEPT !.cycle = Again(p, n)])
                 EXCEPT !.settled = result, !.signal = Again(p, n)]
      <4> HIDE DEF q
      <4> QED BY <1>0, <1>3, <2>2 DEF Cycle!CycleEvent, Again
    <3>2. QED
      BY <3>1, <1>3, <2>2 DEF Doubles, Cycle!Nothing, Cycle!OwesMartingale, States
  <2>3. CASE ~(result = "LOSS" /\ Cycle!OwesMartingale(p.cycle))
    <3>1. e = [over EXCEPT !.settled = result]
      <4> HIDE DEF q
      <4> QED BY <1>0, <1>3, <2>3 DEF Cycle!CycleEvent
    <3>2. QED
      BY <3>1, <2>1 DEF Finishes, Cycle!Nothing, States
  <2>4. QED
    BY <2>2, <2>3
<1>4. QED
  BY <1>0, <1>1, <1>2, <1>3

LEMMA TailIs ==
  ASSUME Cycle!CycleAssumption, NEW view, NEW n \in Nat
  PROVE  Cycle!ContiguousTail(view, n) \in Int
<1> DEFINE S == {n - Window + 1} \cup {i + 1 : i \in {j \in 1 .. n : j \notin Cycle!Held(view)}}
<1>1. S \in SUBSET Int /\ S # {} /\ n + 1 \in Int /\ \A x \in S : x <= n + 1
  BY DEF Cycle!CycleAssumption
<1>2. Cycle!Max(S) \in S
  <2> HIDE DEF S
  <2> QED BY <1>1, MaxIs
<1>3. QED
  BY <1>1, <1>2 DEF Cycle!ContiguousTail

LEMMA SettingCycle ==
  ASSUME NEW c, NEW g, NEW n, NEW t, NEW r,
         r = [cycle |-> c, armed |-> Cycle!NoSwing, fired |-> g, last |-> n]
  PROVE  [r EXCEPT !.cycle = t] = [cycle |-> t, armed |-> Cycle!NoSwing, fired |-> g, last |-> n]
OBVIOUS

LEMMA Spending ==
  ASSUME NEW c, NEW x, NEW f, NEW n, NEW r,
         r = [cycle |-> c, armed |-> x, fired |-> f, last |-> n]
  PROVE  [r EXCEPT !.armed = Cycle!NoSwing, !.fired = @ \cup {x}]
           = [cycle |-> c, armed |-> Cycle!NoSwing, fired |-> f \cup {x}, last |-> n]
<1> DEFINE u == [r EXCEPT !.armed = Cycle!NoSwing]
           g == f \cup {x}
<1>1. u = [cycle |-> c, armed |-> Cycle!NoSwing, fired |-> f, last |-> n]
  OBVIOUS
<1>2. r.fired = f
  OBVIOUS
<1>3. [r EXCEPT !.armed = Cycle!NoSwing, !.fired = @ \cup {x}] = [u EXCEPT !.fired = g]
  BY <1>2
<1> HIDE DEF u, g
<1>4. [u EXCEPT !.fired = g] = [cycle |-> c, armed |-> Cycle!NoSwing, fired |-> g, last |-> n]
  BY <1>1
<1>5. QED
  BY <1>3, <1>4, Zenon DEF g

LEMMA WatchMoves ==
  ASSUME Cycle!CycleAssumption, CycleTypeOK, NEW p \in States, p.cycle = Cycle!NoTrade, p.armed \notin p.fired,
         p.armed # Cycle!NoSwing => p.last >= 0, NEW view, NEW n \in Nat, n > p.last
  PROVE  LET q == [p EXCEPT !.last = n]  e == Cycle!WatchEvent(q, view, n)
         IN  Looks(p, e, n) \/ Fires(p, e, n)
<1> DEFINE q == [p EXCEPT !.last = n]
           e == Cycle!WatchEvent(q, view, n)
           armed == IF q.armed # Cycle!NoSwing /\ Cycle!StillValid(q.armed, view, n) THEN q.armed ELSE Cycle!NoSwing
           trade == [entry |-> n + 1, direction |-> armed.direction, stage |-> "primary"]
           spent == [q EXCEPT !.armed = Cycle!NoSwing, !.fired = @ \cup {armed}]
           setup == Cycle!FindSetup(Cycle!Candidates(view, n, q.fired))
           adopts == [q EXCEPT !.armed = setup]
<1> SUFFICES Looks(p, e, n) \/ Fires(p, e, n)
  OBVIOUS
<1>0. /\ q \in States /\ q.cycle = Cycle!NoTrade /\ q.armed = p.armed /\ q.fired = p.fired /\ q.last = n
      /\ Cycle!NoSwing \notin p.fired
  BY CycleConstants DEF States
<1>1. CASE e = Cycle!Nothing(q)
  <2> HIDE DEF q, e
  <2> QED BY <1>0, <1>1 DEF Looks, Cycle!Nothing, Quiet
<1>2. CASE e = Cycle!Nothing(adopts)
  <2>1. setup \in {Cycle!NoSwing} \cup (Swings \ p.fired)
    BY <1>0, SetupIs
  <2>2. adopts \in States /\ adopts.armed = setup /\ adopts.fired = p.fired
        /\ adopts.cycle = Cycle!NoTrade /\ adopts.last = n
    BY <1>0, <2>1 DEF States
  <2>3. e.state = adopts /\ Quiet(e) /\ ~e.ends
    BY <1>2 DEF Cycle!Nothing, Quiet
  <2> HIDE DEF adopts, setup, e
  <2>4. QED
    BY <1>0, <2>1, <2>2, <2>3 DEF Looks
<1>3. CASE e = Cycle!Nothing(spent) /\ armed # Cycle!NoSwing
  <2>1. armed = p.armed /\ armed \in Swings
    BY <1>0, <1>3 DEF States
  <2>2. /\ spent \in States /\ spent.armed = Cycle!NoSwing /\ spent.fired = p.fired \cup {p.armed}
        /\ spent.cycle = Cycle!NoTrade /\ spent.last = n
    BY <1>0, <2>1 DEF States
  <2>3. e.state = spent /\ Quiet(e) /\ ~e.ends
    BY <1>3 DEF Cycle!Nothing, Quiet
  <2> HIDE DEF spent, e
  <2>4. QED
    BY <1>0, <2>1, <2>2, <2>3, CycleConstants DEF Looks
<1>4. CASE e = [Cycle!Nothing([spent EXCEPT !.cycle = trade]) EXCEPT !.signal = trade] /\ armed # Cycle!NoSwing
  <2>1. armed = p.armed /\ n > 0
    BY <1>0, <1>4 DEF States
  <2>2. trade = First(p, n)
    BY <2>1 DEF First
  <2>3. [spent EXCEPT !.cycle = trade] =
          [cycle |-> First(p, n), armed |-> Cycle!NoSwing, fired |-> p.fired \cup {p.armed}, last |-> n]
    <3>1. q = [cycle |-> Cycle!NoTrade, armed |-> p.armed, fired |-> p.fired, last |-> n]
      BY DEF States
    <3>3. spent = [q EXCEPT !.armed = Cycle!NoSwing, !.fired = @ \cup {p.armed}]
      <4> HIDE DEF q, armed
      <4> QED BY <2>1
    <3> HIDE DEF spent, trade, q, armed
    <3>4. spent = [cycle |-> Cycle!NoTrade, armed |-> Cycle!NoSwing, fired |-> p.fired \cup {p.armed},
                   last |-> n]
      BY <3>1, <3>3, Spending
    <3>5. [spent EXCEPT !.cycle = First(p, n)] =
          [cycle |-> First(p, n), armed |-> Cycle!NoSwing, fired |-> p.fired \cup {p.armed}, last |-> n]
      BY <3>4, SettingCycle
    <3>6. QED
      BY <3>5, <2>2
  <2> HIDE DEF e, armed, trade, spent
  <2>4. QED
    BY <1>0, <1>4, <2>1, <2>2, <2>3 DEF Fires, Cycle!Nothing
<1>5. \/ e = Cycle!Nothing(q)
      \/ e = Cycle!Nothing(adopts)
      \/ e = Cycle!Nothing(spent) /\ armed # Cycle!NoSwing
      \/ e = [Cycle!Nothing([spent EXCEPT !.cycle = trade]) EXCEPT !.signal = trade] /\ armed # Cycle!NoSwing
  <2>1. Cycle!ContiguousTail(view, n) \in Int /\ Room \in Int
    BY TailIs DEF Cycle!CycleAssumption
  <2> HIDE DEF q
  <2>2. CASE n - Cycle!ContiguousTail(view, n) < Room
    <3>1. ~(n - Cycle!ContiguousTail(view, n) >= Room)
      BY <2>1, <2>2
    <3>2. e = Cycle!Nothing(q)
      BY <2>2, <3>1, Zenon DEF Cycle!WatchEvent
    <3>3. QED
      BY <3>2
  <2>3. CASE n - Cycle!ContiguousTail(view, n) >= Room /\ armed = Cycle!NoSwing
    <3>1. ~(n - Cycle!ContiguousTail(view, n) < Room)
      BY <2>1, <2>3
    <3>2. e = Cycle!Nothing(adopts)
      BY <2>3, <3>1, Zenon DEF Cycle!WatchEvent
    <3> HIDE DEF e, adopts, spent, armed, trade
    <3>3. QED
      BY <3>2
  <2>4. CASE n - Cycle!ContiguousTail(view, n) >= Room /\ armed # Cycle!NoSwing
    <3>1. ~(n - Cycle!ContiguousTail(view, n) < Room)
      BY <2>1, <2>4
    <3>2. e = IF ~Cycle!Touches(armed, view[n]) THEN Cycle!Nothing(q)
              ELSE IF view[n].meets[armed] = "refused" THEN Cycle!Nothing(spent)
              ELSE [Cycle!Nothing([spent EXCEPT !.cycle = trade]) EXCEPT !.signal = trade]
      BY <2>4, <3>1, Zenon DEF Cycle!WatchEvent
    <3>3. armed # Cycle!NoSwing
      BY <2>4
    <3> HIDE DEF e, adopts, spent, armed, trade
    <3>4. QED
      BY <3>2, <3>3, Zenon
  <2>5. QED
    BY <2>1, <2>2, <2>3, <2>4
<1>6. QED
  BY <1>1, <1>2, <1>3, <1>4, <1>5

LEMMA Programs ==
  ASSUME Cycle!CycleAssumption, CycleTypeOK, NEW p \in States, Aware(p), NEW view \in Answers
  PROVE  LET e == Cycle!OnCandleClose(p, view)
         IN  Ignores(p, e) \/ Moves(p, e, Cycle!LastClosed(view))
<1> DEFINE n == Cycle!LastClosed(view)
           q == [p EXCEPT !.last = n]
           e == Cycle!OnCandleClose(p, view)
<1>1. n \in Nat /\ n < now /\ (n > 0 => n \in Cycle!Held(view)) /\ p.last \in Int
  BY ClosedIs DEF States
<1> HIDE DEF n
<1>2. CASE n <= p.last
  <2>1. e = Cycle!Nothing(p)
    BY <1>1, <1>2 DEF Cycle!OnCandleClose, n
  <2>2. QED
    BY <2>1 DEF Ignores, Cycle!Nothing, Quiet
<1>3. CASE n > p.last /\ p.cycle # Cycle!NoTrade
  <2>1. p.cycle \in Cycle!Trades /\ p.cycle.entry <= p.last + 1
    BY <1>3 DEF Aware, States, CycleTypeOK, Entries
  <2>2. n > 0
    BY <1>1, <1>3, <2>1 DEF Cycle!Trades
  <2>3. view[n] \in Candles
    BY <1>1, <2>2, HeldCandles
  <2>4. e = Cycle!CycleEvent(q, view[n], n)
    <3>1. q.cycle = p.cycle
      BY DEF States
    <3>2. ~(n <= p.last)
      BY <1>1, <1>3
    <3>3. QED
      BY <1>3, <3>1, <3>2 DEF Cycle!OnCandleClose, n
  <2>5. QED
    BY <1>1, <1>3, <2>3, <2>4, CycleMoves DEF Moves, n
<1>4. CASE n > p.last /\ p.cycle = Cycle!NoTrade
  <2>1. e = Cycle!WatchEvent(q, view, n)
    <3>1. q.cycle = p.cycle
      BY DEF States
    <3>2. ~(n <= p.last)
      BY <1>1, <1>4
    <3>3. QED
      BY <1>4, <3>1, <3>2 DEF Cycle!OnCandleClose, n
  <2>2. Looks(p, e, n) \/ Fires(p, e, n)
    BY <1>1, <1>4, <2>1, WatchMoves DEF Aware
  <2>3. QED
    BY <1>1, <1>4, <2>2 DEF Moves, n
<1>5. QED
  BY <1>1, <1>2, <1>3, <1>4

-------------------------------------------------------------------------------
(* What a verdict and a write do to a history *)

OpenRows(history) == {row \in history : row.status = "ACTIVE" /\ row.symbol}
Verdicts == Results \cup {"UNRESOLVED"}

\* A settled row replaces the rows of its trade.
LEMMA Settling ==
  ASSUME NEW target \in Cycle!Rows, NEW verdict \in Verdicts, NEW history \in SUBSET Cycle!Rows
  PROVE  /\ Cycle!SettleTo(target, verdict, history) \in SUBSET Cycle!Rows
         /\ \A row \in OpenRows(Cycle!SettleTo(target, verdict, history)) :
              row \in OpenRows(history) /\ row # target
<1> DEFINE settled == [target EXCEPT !.status = verdict]
<1>1. settled \in Cycle!Rows /\ settled.status = verdict /\ settled.trade = target.trade
  BY DEF Cycle!Rows, Verdicts, Results, Cycle!Statuses
<1>2. Cycle!Settled(settled) /\ settled.status # "ACTIVE" /\ verdict # "none"
  BY <1>1 DEF Cycle!Settled, Verdicts, Results
<1>3. target # Cycle!NoCard
  BY DEF Cycle!NoCard, Cycle!Rows, Cycle!Statuses
<1>4. Cycle!SettleTo(target, verdict, history) = Cycle!Commit(settled, history)
  BY <1>2, <1>3 DEF Cycle!SettleTo
<1> HIDE DEF settled
<1>5. Cycle!Commit(settled, history) = {old \in history : ~Cycle!SameTrade(old, settled)} \cup {settled}
  BY <1>2 DEF Cycle!Commit
<1>6. Cycle!SameTrade(target, settled)
  BY <1>1 DEF Cycle!SameTrade
<1>7. QED
  BY <1>1, <1>2, <1>4, <1>5, <1>6 DEF OpenRows

LEMMA SettlingAtMost ==
  ASSUME NEW target \in Cycle!Rows \cup {Cycle!NoCard}, NEW verdict \in Verdicts \cup {"none"},
         NEW history \in SUBSET Cycle!Rows
  PROVE  /\ Cycle!SettleTo(target, verdict, history) \in SUBSET Cycle!Rows
         /\ OpenRows(Cycle!SettleTo(target, verdict, history)) \subseteq OpenRows(history)
<1>1. CASE target = Cycle!NoCard \/ verdict = "none"
  BY <1>1 DEF Cycle!SettleTo
<1>2. CASE target # Cycle!NoCard /\ verdict # "none"
  BY <1>2, Settling
<1>3. QED
  BY <1>1, <1>2

LEMMA Committing ==
  ASSUME NEW row \in Cycle!Rows, NEW history \in SUBSET Cycle!Rows
  PROVE  /\ Cycle!Commit(row, history) \in SUBSET Cycle!Rows
         /\ OpenRows(Cycle!Commit(row, history)) \subseteq OpenRows(history) \cup {row}
BY DEF Cycle!Commit, OpenRows

LEMMA VerdictIs ==
  ASSUME Cycle!CycleAssumption, CycleTypeOK, NEW s \in Sessions, NEW view \in Answers \cup {<<>>}
  PROVE  /\ Cycle!Reconcile(card[s], view) \in Verdicts \cup {"none"}
         /\ card[s] = Cycle!NoCard => Cycle!Reconcile(card[s], view) = "none"
         /\ card[s] # Cycle!NoCard /\ Cycle!Stranded(card[s].trade) => Cycle!Reconcile(card[s], view) # "none"
<1> DEFINE entry == card[s].trade.entry
           finished == entry \in Cycle!Held(view) /\ \E i \in Cycle!Held(view) : i > entry
<1>1. CASE card[s] = Cycle!NoCard
  BY <1>1 DEF Cycle!Reconcile
<1>2. CASE card[s] # Cycle!NoCard /\ finished
  <2>1. view[entry] \in Candles
    <3>1. CASE view \in Answers
      BY <1>2, <3>1, HeldCandles
    <3>2. CASE view = <<>>
      BY <1>2, <3>2 DEF Cycle!Held
    <3>3. QED
      BY <3>1, <3>2
  <2>2. Cycle!Reconcile(card[s], view) = Cycle!Outcome(card[s].trade.direction, view[entry])
    BY <1>2, Zenon DEF Cycle!Reconcile
  <2>3. QED
    BY <1>2, <2>1, <2>2, OutcomeIs DEF Verdicts, Results
<1>3. CASE card[s] # Cycle!NoCard /\ ~finished
  <2>1. Cycle!Reconcile(card[s], view) = IF Cycle!Stranded(card[s].trade) THEN "UNRESOLVED" ELSE "none"
    BY <1>3, Zenon DEF Cycle!Reconcile
  <2>2. QED
    BY <1>3, <2>1 DEF Verdicts
<1>4. QED
  BY <1>1, <1>2, <1>3

LEMMA TargetIs ==
  ASSUME Cycle!CycleAssumption, CycleTypeOK, NEW s \in Sessions
  PROVE  Cycle!Target(s) \in Cycle!Rows \cup {Cycle!NoCard} /\ (card[s] # Cycle!NoCard => Cycle!Target(s) = card[s])
<1> DEFINE active == {row \in rows[s] : row.status = "ACTIVE"}
           E == {row.trade.entry : row \in active}
<1>1. active \in SUBSET Cycle!Rows
  BY DEF CycleTypeOK
<1>2. CASE card[s] # Cycle!NoCard
  BY <1>2 DEF Cycle!Target, CycleTypeOK
<1>3. CASE card[s] = Cycle!NoCard /\ active = {}
  BY <1>3 DEF Cycle!Target
<1>4. CASE card[s] = Cycle!NoCard /\ active # {}
  <2>1. E \in SUBSET Int /\ E # {} /\ MaxCandle \in Int /\ \A e \in E : e <= MaxCandle
    <3>1. \A row \in Cycle!Rows : row.trade.entry \in 1 .. MaxCandle
      BY DEF Cycle!Rows, Cycle!Trades
    <3>2. MaxCandle \in Int
      BY DEF Cycle!CycleAssumption
    <3>3. QED
      BY <1>1, <1>4, <3>1, <3>2
  <2>2. PICK e \in E : \A f \in E : f <= e
    <3> HIDE DEF E
    <3> QED BY <2>1, Greatest
  <2>3. \E row \in active : \A other \in active : other.trade.entry <= row.trade.entry
    BY <2>2
  <2>4. Cycle!Target(s) = CHOOSE row \in active :
                      \A other \in active : other.trade.entry <= row.trade.entry
    BY <1>4 DEF Cycle!Target
  <2> HIDE DEF active
  <2>5. Cycle!Target(s) \in active
    BY <2>3, <2>4
  <2>6. QED
    BY <1>1, <1>4, <2>5
<1>5. QED
  BY <1>2, <1>3, <1>4

-------------------------------------------------------------------------------
(* A tick, in the words of applyEvent *)

StateOf(s) == IF program[s] = Cycle!Unloaded THEN stored ELSE program[s]
EventOf(s, view) == Cycle!OnCandleClose(StateOf(s), view)
VerdictOf(s, view) == Cycle!Reconcile(card[s], view)
ClosedBy(s, view) ==
  Cycle!SettleTo(card[s], VerdictOf(s, view), Cycle!SettleTo(Cycle!Target(s), EventOf(s, view).settled, rows[s]))
Settles(s, view) == \/ Cycle!Target(s) # Cycle!NoCard /\ EventOf(s, view).settled # "none"
                    \/ VerdictOf(s, view) # "none"
Signals(s, view) == EventOf(s, view).signal # Cycle!NoTrade
HistoryAfter(s, view) ==
  IF Signals(s, view) THEN Cycle!Commit(Cycle!Row(EventOf(s, view).signal), ClosedBy(s, view))
  ELSE ClosedBy(s, view)

LEMMA Applying ==
  ASSUME NEW s \in Sessions, NEW view, Cycle!ApplyEvent(s, view)
  PROVE  /\ program' = [program EXCEPT ![s] = EventOf(s, view).state]
         /\ stored' = IF Cycle!WorthStoring(EventOf(s, view)) THEN EventOf(s, view).state ELSE stored
         /\ rows' = [rows EXCEPT ![s] = HistoryAfter(s, view)]
         /\ cache' = IF Settles(s, view) \/ Signals(s, view) THEN HistoryAfter(s, view) ELSE cache
         /\ card' = [card EXCEPT ![s] = IF Signals(s, view) THEN Cycle!Row(EventOf(s, view).signal)
                                        ELSE IF Settles(s, view) THEN Cycle!NoCard ELSE card[s]]
         /\ opened' = IF Signals(s, view)
                      THEN opened \cup {[trade |-> EventOf(s, view).signal,
                                         swing |-> StateOf(s).armed]}
                      ELSE opened
BY Zenon DEF Cycle!ApplyEvent, StateOf, EventOf, VerdictOf, ClosedBy, Settles, Signals,
   HistoryAfter,
             Cycle!HistoryRef

\* What is read of the cycle is one state, and it knows of every trade.
LEMMA StateIs ==
  ASSUME Cycle!CycleAssumption, CycleInv, NEW s \in Sessions, owner = s
  PROVE  /\ StateOf(s) \in States /\ Aware(StateOf(s))
         /\ stored.cycle = StateOf(s).cycle
         /\ StateOf(s).last >= -1
         /\ card[s] # Cycle!NoCard => card[s].trade = StateOf(s).cycle /\ card[s] \in Cycle!Rows
<1>1. CASE program[s] = Cycle!Unloaded
  BY <1>1 DEF CycleInv, StateOf, CycleTypeOK, StoredAware, CardOK, Aware
<1>2. CASE program[s] # Cycle!Unloaded
  <2>1. s # NoTab => stored.cycle = program[s].cycle
    BY <1>2 DEF CycleInv, Cycle!StoresAgree
  <2>2. QED
    BY <1>2, <2>1 DEF Cycle!CycleAssumption, CycleInv, StateOf, CycleTypeOK, OwnerAware, CardOK,
       Aware
<1>3. QED
  BY <1>1, <1>2

\* What every event has in common, what a new trade has, and what becomes of the old.
Grows(p, e) ==
  /\ e.state \in States /\ e.state.last >= p.last /\ p.fired \subseteq e.state.fired
  /\ e.state.armed \notin e.state.fired
  /\ e.state.armed # Cycle!NoSwing => e.state.last >= 0
  /\ e.settled \in Results \cup {"none"}
  /\ e.state.cycle # Cycle!NoTrade \/ e.ends => e.state.armed = Cycle!NoSwing
NewTrade(p, e) ==
  /\ e.signal \in Cycle!Trades /\ e.state.cycle = e.signal
  /\ e.signal.entry > p.last + 1 /\ e.signal.entry <= e.state.last + 1
  /\ p.armed # Cycle!NoSwing => p.armed \in e.state.fired
  /\ p.cycle # Cycle!NoTrade => e.settled # "none"
  /\ e.signal.stage = "martingale" =>
       p.cycle # Cycle!NoTrade /\ [e.signal EXCEPT !.stage = "primary", !.entry = @ - 1] = p.cycle
NoNewTrade(p, e) ==
  \/ e.state.cycle = p.cycle
  \/ /\ e.state.cycle = Cycle!NoTrade /\ e.ends /\ p.cycle # Cycle!NoTrade
     /\ e.settled # "none" \/ p.cycle.entry + 2 <= now

Turned(p, n, c) == [p EXCEPT !.last = n, !.cycle = c]

LEMMA Turning ==
  ASSUME NEW p \in States, NEW n \in Int, NEW c \in Cycle!Trades \cup {Cycle!NoTrade}
  PROVE  /\ Turned(p, n, c) \in States
         /\ Turned(p, n, c).cycle = c /\ Turned(p, n, c).last = n
         /\ Turned(p, n, c).armed = p.armed /\ Turned(p, n, c).fired = p.fired
<1> DEFINE u == [p EXCEPT !.last = n]
<1>1. u \in States /\ u.last = n /\ u.armed = p.armed /\ u.fired = p.fired
  BY DEF States
<1>2. Turned(p, n, c) = [u EXCEPT !.cycle = c]
  BY DEF Turned
<1> HIDE DEF u
<1>3. [u EXCEPT !.cycle = c] \in States
  BY <1>1 DEF States
<1>4. QED
  BY <1>1, <1>2, <1>3 DEF States

LEMMA Doubling ==
  ASSUME NEW p \in States, p.cycle \in Cycle!Trades, p.cycle.stage = "primary", NEW n \in Int,
         n = p.cycle.entry
  PROVE  [Again(p, n) EXCEPT !.stage = "primary", !.entry = @ - 1] = p.cycle
<1> DEFINE a == Again(p, n)
           u == [a EXCEPT !.stage = "primary"]
<1>1. a = [entry |-> n + 1, direction |-> p.cycle.direction, stage |-> "martingale"]
  BY DEF Again
<1> HIDE DEF a
<1>2. u = [entry |-> n + 1, direction |-> p.cycle.direction, stage |-> "primary"]
  BY <1>1
<1>3. a.entry - 1 = n
  BY <1>1
<1>4. [a EXCEPT !.stage = "primary", !.entry = @ - 1] = [u EXCEPT !.entry = n]
  BY <1>3
<1> HIDE DEF u
<1>5. [u EXCEPT !.entry = n] = [entry |-> n, direction |-> p.cycle.direction, stage |-> "primary"]
  BY <1>2
<1>6. p.cycle = [entry |-> n, direction |-> p.cycle.direction, stage |-> "primary"]
  BY DEF Cycle!Trades
<1>7. QED
  BY <1>4, <1>5, <1>6, Zenon DEF a

LEMMA EventIs ==
  ASSUME Cycle!CycleAssumption, CycleTypeOK, NEW p \in States, Aware(p), NEW view \in Answers
  PROVE  LET e == Cycle!OnCandleClose(p, view)
         IN  /\ Grows(p, e)
             /\ e.signal # Cycle!NoTrade => NewTrade(p, e)
             /\ e.signal = Cycle!NoTrade => NoNewTrade(p, e)
<1> DEFINE e == Cycle!OnCandleClose(p, view)
           n == Cycle!LastClosed(view)
<1> SUFFICES /\ Grows(p, e)
             /\ e.signal # Cycle!NoTrade => NewTrade(p, e)
             /\ e.signal = Cycle!NoTrade => NoNewTrade(p, e)
  OBVIOUS
<1>1. Ignores(p, e) \/ Moves(p, e, n)
  BY Programs
<1>2. /\ p.last \in Int /\ p.last >= -1 /\ p.armed \notin p.fired
      /\ p.armed # Cycle!NoSwing => p.last >= 0
      /\ p.cycle # Cycle!NoTrade => p.armed = Cycle!NoSwing /\ p.cycle \in Cycle!Trades
  BY DEF Aware, States
<1>3. MaxCandle \in Int /\ now \in Int /\ now <= MaxCandle /\ Cycle!NoTrade \notin Cycle!Trades
  BY CycleConstants DEF CycleTypeOK, Cycle!CycleAssumption
<1>4. Cycle!NoSwing \notin p.fired
  BY CycleConstants DEF States
<1> HIDE DEF e, n
<1>5. CASE Ignores(p, e)
  BY <1>2, <1>5 DEF Ignores, Quiet, Grows, NoNewTrade, Results
<1>6. CASE Moves(p, e, n)
  <2>1. n \in Nat /\ n < now /\ n > p.last
    BY <1>6 DEF Moves
  <2>2. CASE Waits(p, e, n)
    <3>1. [p EXCEPT !.last = n] \in States
      BY <2>1 DEF States
    <3>2. QED
      BY <1>2, <2>1, <2>2, <3>1 DEF Waits, Quiet, Grows, NoNewTrade, Results, States
  <2>3. CASE Aborts(p, e, n)
    <3>1. /\ e.state \in States /\ e.state.cycle = Cycle!NoTrade /\ e.state.last = n
          /\ e.state.armed = p.armed /\ e.state.fired = p.fired
      <4>1. e.state = Turned(p, n, Cycle!NoTrade) /\ n \in Int
              /\ Cycle!NoTrade \in Cycle!Trades \cup {Cycle!NoTrade}
        BY <2>1, <2>3 DEF Aborts, Turned
      <4>2. /\ Turned(p, n, Cycle!NoTrade) \in States
            /\ Turned(p, n, Cycle!NoTrade).cycle = Cycle!NoTrade /\ Turned(p, n, Cycle!NoTrade).last = n
            /\ Turned(p, n, Cycle!NoTrade).armed = p.armed
            /\ Turned(p, n, Cycle!NoTrade).fired = p.fired
        BY <4>1, Turning
      <4>3. QED
        BY <4>1, <4>2, Zenon
    <3>2. p.cycle.entry + 2 <= now
      BY <1>2, <1>3, <2>1, <2>3 DEF Aborts, Cycle!Trades
    <3>3. QED
      BY <1>2, <2>1, <2>3, <3>1, <3>2 DEF Aborts, Quiet, Grows, NoNewTrade, Results
  <2>4. CASE Finishes(p, e, n)
    <3>1. /\ e.state \in States /\ e.state.cycle = Cycle!NoTrade /\ e.state.last = n
          /\ e.state.armed = p.armed /\ e.state.fired = p.fired
      <4>1. e.state = Turned(p, n, Cycle!NoTrade) /\ n \in Int
              /\ Cycle!NoTrade \in Cycle!Trades \cup {Cycle!NoTrade}
        BY <2>1, <2>4 DEF Finishes, Turned
      <4>2. /\ Turned(p, n, Cycle!NoTrade) \in States
            /\ Turned(p, n, Cycle!NoTrade).cycle = Cycle!NoTrade /\ Turned(p, n, Cycle!NoTrade).last = n
            /\ Turned(p, n, Cycle!NoTrade).armed = p.armed
            /\ Turned(p, n, Cycle!NoTrade).fired = p.fired
        BY <4>1, Turning
      <4>3. QED
        BY <4>1, <4>2, Zenon
    <3>2. e.settled # "none"
      BY <2>4 DEF Finishes, Results
    <3>3. QED
      BY <1>2, <2>1, <2>4, <3>1, <3>2 DEF Finishes, Grows, NoNewTrade
  <2>5. CASE Looks(p, e, n)
    BY <1>2, <2>1, <2>5 DEF Looks, Quiet, Grows, NoNewTrade, Results
  <2>6. CASE Doubles(p, e, n)
    <3>1. p.cycle \in Cycle!Trades /\ p.cycle.entry = n /\ p.cycle.stage = "primary" /\ n \in 1 .. MaxCandle
      BY <1>2, <2>6 DEF Doubles, Cycle!Trades
    <3>2. Again(p, n) \in Cycle!Trades /\ Again(p, n).entry = n + 1
      BY <1>3, <2>1, <3>1 DEF Again, Cycle!Trades
    <3>3. [Again(p, n) EXCEPT !.stage = "primary", !.entry = @ - 1] = p.cycle
      <4>1. n = p.cycle.entry /\ n \in Int
        BY <3>1, <2>1
      <4>2. QED
        BY <3>1, <4>1, Doubling, Zenon
    <3>5. /\ e.state \in States /\ e.state.cycle = Again(p, n) /\ e.state.last = n
          /\ e.state.armed = p.armed /\ e.state.fired = p.fired
      <4>1. e.state = Turned(p, n, Again(p, n)) /\ n \in Int
              /\ Again(p, n) \in Cycle!Trades \cup {Cycle!NoTrade}
        BY <2>1, <2>6, <3>2 DEF Doubles, Turned
      <4>2. /\ Turned(p, n, Again(p, n)) \in States
            /\ Turned(p, n, Again(p, n)).cycle = Again(p, n) /\ Turned(p, n, Again(p, n)).last = n
            /\ Turned(p, n, Again(p, n)).armed = p.armed
            /\ Turned(p, n, Again(p, n)).fired = p.fired
        BY <4>1, Turning
      <4>3. QED
        BY <4>1, <4>2, Zenon
    <3>6. e.settled = "LOSS" /\ e.signal = Again(p, n) /\ p.cycle # Cycle!NoTrade
      BY <2>6 DEF Doubles
    <3>7. Grows(p, e)
      BY <1>2, <2>1, <3>5, <3>6 DEF Grows, Results
    <3>8. NewTrade(p, e)
      <4>1. e.signal.entry > p.last + 1 /\ e.signal.entry <= e.state.last + 1
        BY <1>2, <2>1, <3>2, <3>5, <3>6
      <4>2. [e.signal EXCEPT !.stage = "primary", !.entry = @ - 1] = p.cycle
        BY <3>3, <3>6, Zenon
      <4>3. e.settled # "none" /\ p.armed = Cycle!NoSwing
        BY <1>2, <3>6
      <4>4. QED
        BY <3>2, <3>5, <3>6, <4>1, <4>2, <4>3, Zenon DEF NewTrade
    <3>9. QED
      BY <1>3, <3>2, <3>6, <3>7, <3>8
  <2>7. CASE Fires(p, e, n)
    <3>1. p.armed \in Swings /\ n > 0 /\ p.cycle = Cycle!NoTrade
      BY <2>7 DEF Fires, States
    <3>2. First(p, n) \in Cycle!Trades /\ First(p, n).entry = n + 1 /\ First(p, n).stage = "primary"
      BY <1>3, <2>1, <3>1, CycleConstants DEF First, Cycle!Trades
    <3>3. p.fired \cup {p.armed} \in SUBSET Swings
      BY <3>1 DEF States
    <3>4. /\ e.state \in States /\ e.state.cycle = First(p, n) /\ e.state.last = n
          /\ e.state.armed = Cycle!NoSwing /\ e.state.fired = p.fired \cup {p.armed}
      BY <2>1, <2>7, <3>2, <3>3 DEF Fires, States
    <3>5. e.settled = "none" /\ e.signal = First(p, n)
      BY <2>7 DEF Fires
    <3>6. Grows(p, e)
      BY <1>2, <1>4, <2>1, <2>7, <3>4, <3>5 DEF Grows, Results, Fires
    <3>7. NewTrade(p, e)
      BY <1>2, <2>1, <3>1, <3>2, <3>4, <3>5 DEF NewTrade
    <3>8. QED
      BY <1>3, <3>2, <3>5, <3>6, <3>7
  <2>8. QED
    BY <1>6, <2>2, <2>3, <2>4, <2>5, <2>6, <2>7 DEF Moves
<1>7. QED
  BY <1>1, <1>5, <1>6

-------------------------------------------------------------------------------
(* One lemma per action *)

\* What a tick does with an event e to a state p, writing to the history `closed`.
Ticks(s, p, e, closed) ==
  /\ Aware(p) /\ stored.cycle = p.cycle /\ Grows(p, e)
  /\ e.signal # Cycle!NoTrade => NewTrade(p, e) /\ Cycle!Row(e.signal) \in Cycle!Rows
  /\ e.signal = Cycle!NoTrade => NoNewTrade(p, e)
  /\ program' = [program EXCEPT ![s] = e.state]
  /\ stored' = IF e.state.cycle # Cycle!NoTrade \/ e.ends THEN e.state ELSE stored
  /\ opened' = IF e.signal # Cycle!NoTrade
               THEN opened \cup {[trade |-> e.signal, swing |-> p.armed]} ELSE opened
  /\ rows' = [rows EXCEPT ![s] = IF e.signal # Cycle!NoTrade THEN Cycle!Commit(Cycle!Row(e.signal), closed)
                                 ELSE closed]
  /\ cache' \in SUBSET Cycle!Rows
  /\ OpenRows(closed) \subseteq OpenRows(rows[s])
  /\ \/ /\ e.signal # Cycle!NoTrade /\ card' = [card EXCEPT ![s] = Cycle!Row(e.signal)]
        /\ OpenRows(closed) = {}
     \/ /\ e.signal = Cycle!NoTrade /\ card' = [card EXCEPT ![s] = Cycle!NoCard]
        /\ OpenRows(closed) = {}
     \/ /\ e.signal = Cycle!NoTrade /\ card' = card
        /\ card[s] # Cycle!NoCard => e.state.cycle = card[s].trade

LEMMA TickWrites ==
  ASSUME Cycle!CycleAssumption, CycleInv, NEW s \in Sessions, Cycle!Tick(s)
  PROVE  \E p \in States : \E e : \E closed \in SUBSET Cycle!Rows : Ticks(s, p, e, closed)
<1>1. owner = s
  BY DEF Cycle!Tick
<1>2. PICK view \in Answers : Cycle!ApplyEvent(s, view)
  BY DEF Cycle!Tick, Answers
<1> DEFINE p == StateOf(s)
           e == EventOf(s, view)
           verdict == VerdictOf(s, view)
           target == Cycle!Target(s)
           inner == Cycle!SettleTo(target, e.settled, rows[s])
           closed == ClosedBy(s, view)
<1>3. CycleTypeOK /\ OpenRows(rows[s]) \subseteq {card[s]} /\ rows[s] \in SUBSET Cycle!Rows
      /\ card[s] \in Cycle!Rows \cup {Cycle!NoCard} /\ Cycle!NoCard \notin Cycle!Rows
  BY CycleConstants DEF CycleInv, CycleTypeOK, Cycle!StoresAgree, OpenRows
<1>4. /\ p \in States /\ Aware(p) /\ stored.cycle = p.cycle
      /\ card[s] # Cycle!NoCard => card[s].trade = p.cycle /\ card[s] \in Cycle!Rows
  BY <1>1, StateIs
<1>5. /\ Grows(p, e)
      /\ e.signal # Cycle!NoTrade => NewTrade(p, e)
      /\ e.signal = Cycle!NoTrade => NoNewTrade(p, e)
  BY <1>3, <1>4, EventIs DEF EventOf
<1>6. /\ verdict \in Verdicts \cup {"none"}
      /\ card[s] # Cycle!NoCard /\ Cycle!Stranded(card[s].trade) => verdict # "none"
  BY <1>3, VerdictIs DEF VerdictOf
<1>7. target \in Cycle!Rows \cup {Cycle!NoCard} /\ (card[s] # Cycle!NoCard => target = card[s])
  BY <1>3, TargetIs
<1>8. e.settled \in Verdicts \cup {"none"}
  BY <1>5 DEF Grows, Verdicts
<1>9. e.signal # Cycle!NoTrade => Cycle!Row(e.signal) \in Cycle!Rows
  BY <1>5 DEF NewTrade, Cycle!Row, Cycle!Rows, Cycle!Statuses
<1>10. closed = Cycle!SettleTo(card[s], verdict, inner)
  BY DEF ClosedBy
<1>11. /\ program' = [program EXCEPT ![s] = e.state]
       /\ stored' = IF Cycle!WorthStoring(e) THEN e.state ELSE stored
       /\ rows' = [rows EXCEPT ![s] = HistoryAfter(s, view)]
       /\ cache' = IF Settles(s, view) \/ Signals(s, view) THEN HistoryAfter(s, view) ELSE cache
       /\ card' = [card EXCEPT ![s] = IF Signals(s, view) THEN Cycle!Row(e.signal)
                                      ELSE IF Settles(s, view) THEN Cycle!NoCard ELSE card[s]]
       /\ opened' = IF Signals(s, view)
                    THEN opened \cup {[trade |-> e.signal, swing |-> p.armed]} ELSE opened
  BY <1>2, Applying
<1>12. /\ Signals(s, view) <=> e.signal # Cycle!NoTrade
       /\ Settles(s, view) <=> (target # Cycle!NoCard /\ e.settled # "none") \/ verdict # "none"
       /\ HistoryAfter(s, view) = IF e.signal # Cycle!NoTrade THEN Cycle!Commit(Cycle!Row(e.signal), closed) ELSE closed
       /\ Cycle!WorthStoring(e) <=> e.state.cycle # Cycle!NoTrade \/ e.ends
  BY Zenon DEF Signals, Settles, HistoryAfter, Cycle!WorthStoring
<1> HIDE DEF p, e, verdict, target, inner, closed
<1>13. inner \in SUBSET Cycle!Rows /\ OpenRows(inner) \subseteq OpenRows(rows[s])
  BY <1>3, <1>7, <1>8, SettlingAtMost DEF inner
<1>14. closed \in SUBSET Cycle!Rows /\ OpenRows(closed) \subseteq OpenRows(inner)
  BY <1>3, <1>6, <1>10, <1>13, SettlingAtMost
\* What settles the card leaves nothing open.
<1>15. card[s] = Cycle!NoCard \/ verdict # "none" \/ e.settled # "none" => OpenRows(closed) = {}
  <2>1. CASE card[s] = Cycle!NoCard
    <3>1. OpenRows(rows[s]) \subseteq Cycle!Rows
      BY <1>3 DEF OpenRows
    <3>2. QED
      BY <2>1, <3>1, <1>3, <1>13, <1>14
  <2>2. CASE card[s] # Cycle!NoCard /\ verdict # "none"
    <3>1. \A row \in OpenRows(closed) : row \in OpenRows(inner) /\ row # card[s]
      BY <1>3, <1>6, <1>10, <1>13, <2>2, Settling
    <3>2. QED
      BY <3>1, <1>3, <1>13
  <2>3. CASE card[s] # Cycle!NoCard /\ e.settled # "none"
    <3>1. \A row \in OpenRows(inner) : row \in OpenRows(rows[s]) /\ row # card[s]
      BY <1>3, <1>7, <1>8, <2>3, Settling DEF inner
    <3>2. QED
      BY <3>1, <1>3, <1>14
  <2>4. QED
    BY <2>1, <2>2, <2>3
<1>16. CASE e.signal # Cycle!NoTrade
  <2>1. card[s] = Cycle!NoCard \/ e.settled # "none"
    BY <1>3, <1>4, <1>5, <1>16, CycleConstants DEF NewTrade, Cycle!Rows
  <2>2. OpenRows(closed) = {}
    BY <1>15, <2>1
  <2>3. card' = [card EXCEPT ![s] = Cycle!Row(e.signal)]
    BY <1>11, <1>12, <1>16
  <2>4. HistoryAfter(s, view) \in SUBSET Cycle!Rows /\ cache' = HistoryAfter(s, view)
    BY <1>9, <1>11, <1>12, <1>14, <1>16, Committing
  <2>5. Ticks(s, p, e, closed)
    BY <1>4, <1>5, <1>9, <1>11, <1>12, <1>13, <1>14, <1>16, <2>2, <2>3, <2>4 DEF Ticks
  <2>6. QED
    BY <1>4, <1>14, <2>5
<1>17. CASE e.signal = Cycle!NoTrade /\ Settles(s, view)
  <2>1. card[s] = Cycle!NoCard \/ verdict # "none" \/ e.settled # "none"
    BY <1>12, <1>17
  <2>2. card' = [card EXCEPT ![s] = Cycle!NoCard]
    BY <1>11, <1>12, <1>17
  <2>3. HistoryAfter(s, view) \in SUBSET Cycle!Rows /\ cache' = HistoryAfter(s, view)
    BY <1>11, <1>12, <1>14, <1>17
  <2>4. Ticks(s, p, e, closed)
    BY <1>4, <1>5, <1>9, <1>11, <1>12, <1>13, <1>14, <1>15, <1>17, <2>1, <2>2, <2>3 DEF Ticks
  <2>5. QED
    BY <1>4, <1>14, <2>4
<1>18. CASE e.signal = Cycle!NoTrade /\ ~Settles(s, view)
  <2>1. card' = card
    BY <1>3, <1>11, <1>12, <1>18 DEF CycleTypeOK
  <2>2. card[s] # Cycle!NoCard => e.state.cycle = card[s].trade
    <3>1. SUFFICES ASSUME card[s] # Cycle!NoCard PROVE e.state.cycle = card[s].trade
      OBVIOUS
    <3>2. e.settled = "none" /\ verdict = "none" /\ card[s].trade = p.cycle
      BY <1>3, <1>4, <1>7, <1>12, <1>18, <3>1
    <3>3. ~Cycle!Stranded(card[s].trade)
      BY <1>6, <3>1, <3>2
    <3>4. QED
      BY <1>5, <1>18, <3>2, <3>3 DEF NoNewTrade, Cycle!Stranded
  <2>3. cache' \in SUBSET Cycle!Rows
    BY <1>3, <1>11, <1>12, <1>18 DEF CycleTypeOK
  <2>4. Ticks(s, p, e, closed)
    BY <1>4, <1>5, <1>9, <1>11, <1>12, <1>13, <1>14, <1>18, <2>1, <2>2, <2>3 DEF Ticks
  <2>5. QED
    BY <1>4, <1>14, <2>4
<1>19. QED
  BY <1>16, <1>17, <1>18

LEMMA TickKeeps ==
  ASSUME Cycle!CycleAssumption, CycleInv, NEW s \in Sessions, Cycle!Tick(s)
  PROVE  CycleInv'
<1>1. PICK p \in States : \E e : \E closed \in SUBSET Cycle!Rows : Ticks(s, p, e, closed)
  BY TickWrites
<1>2. PICK e : \E closed \in SUBSET Cycle!Rows : Ticks(s, p, e, closed)
  BY <1>1
<1>3. PICK closed \in SUBSET Cycle!Rows : Ticks(s, p, e, closed)
  BY <1>2
<1> DEFINE new == [trade |-> e.signal, swing |-> p.armed]
<1>4. /\ owner = s /\ owner' = owner /\ now' = now /\ feed' = feed /\ life' = life
      /\ regains' = regains
  BY DEF Cycle!Tick, Cycle!market, Cycle!lease
<1>5. /\ CycleTypeOK /\ StoredAware /\ CardOK /\ Cycle!OneTradePerSwing /\ Cycle!OneTradeAtATime /\ Cycle!StoresAgree
  BY DEF CycleInv
<1>6. /\ program' = [program EXCEPT ![s] = e.state] /\ program \in [Sessions -> States]
      /\ program'[s] = e.state /\ \A t \in Sessions \ {s} : program'[t] = program[t]
      /\ e.state \in States /\ e.state.last >= -1
  BY <1>3, <1>5 DEF Ticks, CycleTypeOK, Grows, Aware, States
<1>7. e.signal # Cycle!NoTrade =>
        /\ Cycle!Row(e.signal) \in Cycle!Rows /\ new \in Entries /\ NewTrade(p, e)
        /\ Cycle!Row(e.signal).trade = e.signal
  BY <1>3 DEF Ticks, NewTrade, Entries, States, Cycle!Row
<1>8. /\ opened' = IF e.signal # Cycle!NoTrade THEN opened \cup {new} ELSE opened
      /\ \A o \in opened : /\ o.trade.entry <= p.last + 1
                           /\ o.swing # Cycle!NoSwing => o.swing \in p.fired
      /\ \A o \in opened : o.trade.entry \in Int
      /\ new.trade = e.signal /\ new.swing = p.armed
  BY <1>3, <1>5 DEF Ticks, Aware, CycleTypeOK, Entries, Cycle!Trades
<1>9. IF e.signal # Cycle!NoTrade THEN e.state.cycle = e.signal
      ELSE e.state.cycle = p.cycle \/ e.state.cycle = Cycle!NoTrade
  BY <1>3 DEF Ticks, NewTrade, NoNewTrade
\* The state it leaves knows of every trade.
<1>10. Aware(e.state)'
  <2>1. p.last \in Int /\ e.state.last \in Int /\ e.state.last >= p.last /\ p.fired \subseteq e.state.fired
    BY <1>3, <1>6 DEF Ticks, Grows, States
  <2>2. \A o \in opened' : o.trade.entry <= e.state.last + 1
    BY <1>7, <1>8, <2>1 DEF NewTrade
  <2>3. \A o \in opened' : o.swing # Cycle!NoSwing => o.swing \in e.state.fired
    BY <1>7, <1>8, <2>1 DEF NewTrade
  <2>4. e.state.cycle # Cycle!NoTrade => e.state.armed = Cycle!NoSwing /\ \E o \in opened' : o.trade = e.state.cycle
    <3>1. p.cycle # Cycle!NoTrade => \E o \in opened : o.trade = p.cycle
      BY <1>3 DEF Ticks, Aware
    <3>2. e.state.cycle # Cycle!NoTrade => e.state.armed = Cycle!NoSwing
      BY <1>3 DEF Ticks, Grows
    <3>3. QED
      BY <1>8, <1>9, <3>1, <3>2
  <2>5. /\ e.state.armed \notin e.state.fired
        /\ e.state.armed # Cycle!NoSwing => e.state.last >= 0
    BY <1>3 DEF Ticks, Grows
  <2>6. QED
    BY <1>6, <2>2, <2>3, <2>4, <2>5 DEF Aware
<1>11. CycleTypeOK'
  <2>1. stored' \in States
    BY <1>3, <1>5, <1>6 DEF Ticks, CycleTypeOK
  <2>2. rows' \in [Sessions -> SUBSET Cycle!Rows]
    BY <1>3, <1>5, <1>7, Committing DEF Ticks, CycleTypeOK
  <2>3. card' \in [Sessions -> Cycle!Rows \cup {Cycle!NoCard}]
    BY <1>3, <1>5, <1>7 DEF Ticks, CycleTypeOK
  <2>4. cache' \in SUBSET Cycle!Rows /\ opened' \in SUBSET Entries
    BY <1>3, <1>5, <1>7, <1>8 DEF Ticks, CycleTypeOK
  <2>5. QED
    BY <1>4, <1>5, <1>6, <2>1, <2>2, <2>3, <2>4 DEF CycleTypeOK
\* What is stored is that state, unless it is still the one from before.
<1>12. StoredAware'
  <2>1. CASE e.state.cycle # Cycle!NoTrade \/ e.ends
    <3>1. stored' = e.state /\ e.state.armed = Cycle!NoSwing
      BY <1>3, <2>1 DEF Ticks, Grows
    <3>2. QED
      BY <1>10, <3>1 DEF StoredAware, Aware
  <2>2. CASE ~(e.state.cycle # Cycle!NoTrade \/ e.ends)
    <3>1. stored' = stored /\ e.state.cycle = Cycle!NoTrade
      BY <1>3, <2>2 DEF Ticks
    <3>2. e.signal = Cycle!NoTrade
      BY <1>7, <3>1, CycleConstants DEF NewTrade
    <3>3. opened' = opened
      BY <1>8, <3>2
    <3>4. QED
      BY <1>5, <3>1, <3>3 DEF StoredAware, Aware
  <2>3. QED
    BY <2>1, <2>2
<1>13. OwnerAware'
  BY <1>4, <1>6, <1>10 DEF OwnerAware
<1>14. CardOK'
  <2>1. program'[s] # Cycle!Unloaded
    BY <1>6 DEF Cycle!Unloaded, Cycle!Fresh
  <2>2. card'[s] # Cycle!NoCard => card'[s].trade = program'[s].cycle
    <3>1. card[s] # Cycle!NoCard \/ card[s] = Cycle!NoCard
      OBVIOUS
    <3>2. card \in [Sessions -> Cycle!Rows \cup {Cycle!NoCard}]
      BY <1>5 DEF CycleTypeOK
    <3>3. QED
      BY <1>3, <1>6, <1>7, <1>9, <3>2 DEF Ticks
  <2>3. \A t \in Sessions \ {s} : card'[t] = card[t]
    BY <1>3, <1>5 DEF Ticks, CycleTypeOK
  <2>4. QED
    BY <1>4, <1>5, <1>6, <2>1, <2>2, <2>3 DEF CardOK
<1>15. Cycle!OneTradePerSwing'
  <2>1. e.signal # Cycle!NoTrade => \A o \in opened : o.swing # Cycle!NoSwing => o.swing # new.swing
    BY <1>3, <1>8 DEF Ticks, Aware
  <2> HIDE DEF new
  <2>2. \A o, q \in opened' : o.swing # Cycle!NoSwing /\ o.swing = q.swing => o = q
    BY <1>5, <1>8, <2>1 DEF Cycle!OneTradePerSwing
  <2>3. QED
    BY <2>2 DEF Cycle!OneTradePerSwing
<1>16. Cycle!OneTradeAtATime'
  <2>1. e.signal # Cycle!NoTrade => \A o \in opened : o.trade.entry # new.trade.entry
    BY <1>7, <1>8, <1>3 DEF NewTrade, States, Cycle!Trades
  <2>2. e.signal # Cycle!NoTrade /\ new.trade.stage = "martingale" =>
          [new.trade EXCEPT !.stage = "primary", !.entry = @ - 1] \in {q.trade : q \in opened}
    <3>1. p.cycle # Cycle!NoTrade => \E o \in opened : o.trade = p.cycle
      BY <1>3 DEF Ticks, Aware
    <3>2. QED
      BY <1>7, <1>8, <3>1, Zenon DEF NewTrade
  <2> HIDE DEF new
  <2>3. \A o, q \in opened' : o.trade.entry = q.trade.entry => o = q
    BY <1>5, <1>8, <2>1 DEF Cycle!OneTradeAtATime
  <2>4. {q.trade : q \in opened} \subseteq {q.trade : q \in opened'}
    BY <1>8
  <2>5. ASSUME NEW o \in opened', o.trade.stage = "martingale"
        PROVE  [o.trade EXCEPT !.stage = "primary", !.entry = @ - 1] \in {q.trade : q \in opened}
    <3>1. CASE o \in opened
      BY <1>5, <2>5, <3>1, Zenon DEF Cycle!OneTradeAtATime
    <3>2. CASE e.signal # Cycle!NoTrade /\ o = new
      BY <2>2, <2>5, <3>2, Zenon
    <3>3. QED
      BY <1>8, <3>1, <3>2
  <2>6. \A o \in opened' : o.trade.stage = "martingale" =>
          [o.trade EXCEPT !.stage = "primary", !.entry = @ - 1] \in {q.trade : q \in opened'}
    BY <2>4, <2>5, Zenon
  <2>7. QED
    BY <2>3, <2>6, Zenon DEF Cycle!OneTradeAtATime
<1>17. Cycle!StoresAgree'
  <2>1. stored'.cycle = e.state.cycle
    <3>1. CASE e.state.cycle # Cycle!NoTrade \/ e.ends
      BY <1>3, <3>1 DEF Ticks
    <3>2. CASE ~(e.state.cycle # Cycle!NoTrade \/ e.ends)
      <4>1. stored' = stored /\ e.state.cycle = Cycle!NoTrade /\ stored.cycle = p.cycle
        BY <1>3, <3>2 DEF Ticks
      <4>2. e.signal = Cycle!NoTrade
        BY <1>7, <4>1, CycleConstants DEF NewTrade
      <4>3. QED
        BY <1>3, <3>2, <4>1, <4>2 DEF Ticks, NoNewTrade
    <3>3. QED
      BY <3>1, <3>2
  <2>2. ASSUME NEW row \in rows'[s], row.status = "ACTIVE", row.symbol
        PROVE  card'[s] = row
    <3>1. OpenRows(rows[s]) \subseteq {card[s]}
      BY <1>5 DEF Cycle!StoresAgree, OpenRows
    <3>2. row \in OpenRows(rows'[s])
      BY <2>2 DEF OpenRows
    <3>3. CASE e.signal # Cycle!NoTrade
      <4>1. rows'[s] = Cycle!Commit(Cycle!Row(e.signal), closed) /\ OpenRows(closed) = {}
            /\ card'[s] = Cycle!Row(e.signal)
        BY <1>3, <1>5, <3>3 DEF Ticks, CycleTypeOK
      <4>2. OpenRows(rows'[s]) \subseteq {Cycle!Row(e.signal)}
        BY <1>7, <3>3, <4>1, Committing
      <4>3. QED
        BY <3>2, <4>1, <4>2
    <3>4. CASE e.signal = Cycle!NoTrade
      <4>1. rows'[s] = closed /\ OpenRows(closed) \subseteq OpenRows(rows[s])
            /\ (OpenRows(closed) = {} \/ card' = card)
        BY <1>3, <1>5, <3>4 DEF Ticks, CycleTypeOK
      <4>2. QED
        BY <3>1, <3>2, <4>1
    <3>5. QED
      BY <3>3, <3>4
  <2>3. \A t \in Sessions \ {s} : rows'[t] = rows[t] /\ card'[t] = card[t]
    BY <1>3, <1>5 DEF Ticks, CycleTypeOK
  <2>4. QED
    BY <1>4, <1>5, <1>6, <2>1, <2>2, <2>3 DEF Cycle!StoresAgree
<1>18. QED
  BY <1>11, <1>12, <1>13, <1>14, <1>15, <1>16, <1>17 DEF CycleInv

\* No second lease: whoever takes it has not run the program.
LEMMA TakeLeaseKeeps ==
  ASSUME Cycle!CycleAssumption, MaxRegains = 0, CycleInv, NEW s \in Sessions, Cycle!TakeLease(s)
  PROVE  CycleInv'
<1>1. program[s] = Cycle!Unloaded /\ owner' = s /\ regains' = regains
  BY DEF Cycle!TakeLease, CycleInv, CycleTypeOK
<1>2. card[s] = Cycle!NoCard
  BY <1>1 DEF CycleInv, CardOK
<1>3. UNCHANGED <<now, feed, life, program, rows, card, stored, cache, opened>>
  BY DEF Cycle!TakeLease, Cycle!market, Cycle!memory, Cycle!storage
<1>4. CycleTypeOK' /\ StoredAware' /\ Cycle!OneTradePerSwing' /\ Cycle!OneTradeAtATime'
  BY <1>1, <1>3 DEF CycleInv, CycleTypeOK, StoredAware, Aware, Cycle!OneTradePerSwing,
     Cycle!OneTradeAtATime
<1>5. OwnerAware' /\ CardOK' /\ Cycle!StoresAgree'
  BY <1>1, <1>2, <1>3 DEF CycleInv, OwnerAware, CardOK, Cycle!StoresAgree
<1>6. QED
  BY <1>4, <1>5 DEF CycleInv

\* A history that is read back has no row that names its symbol, so no card is given.
LEMMA RestoreKeeps ==
  ASSUME Cycle!CycleAssumption, CycleInv, NEW s \in Sessions, NEW here, Cycle!Restore(s, here),
         life' \in [Sessions -> {"new", "open", "gone"}]
  PROVE  CycleInv'
<1> DEFINE back == Cycle!Revive(cache)
           history == Cycle!ResolveOpenTrades(back, here, card[s])
<1>1. CycleTypeOK /\ Cycle!StoresAgree
  BY DEF CycleInv
<1>2. back \in SUBSET Cycle!Rows /\ \A row \in back : ~row.symbol
  <2>1. ASSUME NEW row \in Cycle!Rows
        PROVE  [row EXCEPT !.symbol = FALSE] \in Cycle!Rows /\ ~[row EXCEPT !.symbol = FALSE].symbol
    BY DEF Cycle!Rows
  <2>2. QED
    BY <1>1, <2>1 DEF Cycle!Revive, CycleTypeOK
<1>3. history \in SUBSET Cycle!Rows /\ \A row \in history : ~row.symbol
  <2> HIDE DEF back
  <2>1. ASSUME NEW row \in back
        PROVE  [row EXCEPT !.status = "PENDING"] \in Cycle!Rows
               /\ ~[row EXCEPT !.status = "PENDING"].symbol /\ row \in Cycle!Rows /\ ~row.symbol
    BY <1>2 DEF Cycle!Rows, Cycle!Statuses
  <2>2. QED
    BY <2>1 DEF Cycle!ResolveOpenTrades
<1>4. /\ rows' = IF back = {} THEN rows ELSE [rows EXCEPT ![s] = history]
      /\ cache' = IF back = {} THEN cache ELSE history
      /\ card' = [card EXCEPT ![s] = Cycle!Resumed(rows'[s], card[s])]
      /\ UNCHANGED <<now, feed, owner, regains, stored, program, opened>>
  BY DEF Cycle!Restore, Cycle!market, Cycle!lease
<1> HIDE DEF back, history
<1>5. rows' \in [Sessions -> SUBSET Cycle!Rows] /\ cache' \in SUBSET Cycle!Rows
  BY <1>1, <1>3, <1>4 DEF CycleTypeOK
<1>6. \A t \in Sessions : \A row \in rows'[t] :
        row.status = "ACTIVE" /\ row.symbol => card[t] = row /\ card[t] # Cycle!NoCard
  <2>1. \A t \in Sessions : \A row \in rows[t] :
          row.status = "ACTIVE" /\ row.symbol => card[t] = row /\ row # Cycle!NoCard
    BY <1>1, CycleConstants DEF Cycle!StoresAgree, CycleTypeOK
  <2>2. rows' = rows \/ rows' = [rows EXCEPT ![s] = history]
    BY <1>4
  <2>3. QED
    BY <1>1, <1>3, <2>1, <2>2 DEF CycleTypeOK
<1>7. Cycle!Resumed(rows'[s], card[s]) = card[s]
  BY <1>6 DEF Cycle!Resumed
<1>8. card' = card
  BY <1>1, <1>4, <1>7 DEF CycleTypeOK
<1>9. CycleTypeOK'
  BY <1>1, <1>4, <1>5, <1>8 DEF CycleTypeOK
<1>10. StoredAware' /\ Cycle!OneTradePerSwing' /\ Cycle!OneTradeAtATime'
  BY <1>4 DEF CycleInv, StoredAware, Aware, Cycle!OneTradePerSwing, Cycle!OneTradeAtATime
<1>11. OwnerAware' /\ CardOK'
  BY <1>4, <1>8 DEF CycleInv, OwnerAware, Aware, CardOK
<1>12. Cycle!StoresAgree'
  BY <1>1, <1>4, <1>6, <1>8 DEF Cycle!StoresAgree
<1>13. QED
  BY <1>9, <1>10, <1>11, <1>12 DEF CycleInv

LEMMA UnmountKeeps ==
  ASSUME Cycle!CycleAssumption, CycleInv, NEW s \in Sessions, Cycle!Unmount(s)
  PROVE  CycleInv'
<1>1. /\ life' = [life EXCEPT ![s] = "gone"]
      /\ owner' = IF owner = s THEN NoTab ELSE owner
      /\ program' = [program EXCEPT ![s] = Cycle!Unloaded]
      /\ rows' = [rows EXCEPT ![s] = {}]
      /\ card' = [card EXCEPT ![s] = Cycle!NoCard]
      /\ UNCHANGED <<now, feed, regains, opened, stored, cache>>
  BY DEF Cycle!Unmount, Cycle!market, Cycle!storage
<1>2. CycleTypeOK'
  <2>1. Cycle!Unloaded \in States
    BY DEF Cycle!Unloaded, Cycle!Fresh, States
  <2>2. QED
    BY <1>1, <2>1 DEF CycleInv, CycleTypeOK
<1>3. StoredAware' /\ Cycle!OneTradePerSwing' /\ Cycle!OneTradeAtATime'
  BY <1>1 DEF CycleInv, StoredAware, Aware, Cycle!OneTradePerSwing, Cycle!OneTradeAtATime
<1>4. \A t \in Sessions : owner' = t => owner = t /\ t # s
  BY <1>1 DEF Cycle!CycleAssumption
<1>5. \A t \in Sessions \ {s} : program'[t] = program[t] /\ rows'[t] = rows[t] /\ card'[t] = card[t]
  BY <1>1 DEF CycleInv, CycleTypeOK
<1>6. program'[s] = Cycle!Unloaded /\ rows'[s] = {} /\ card'[s] = Cycle!NoCard
  BY <1>1 DEF CycleInv, CycleTypeOK
<1>7. OwnerAware'
  BY <1>1, <1>4, <1>5 DEF CycleInv, OwnerAware, Aware
<1>8. CardOK'
  BY <1>1, <1>4, <1>5, <1>6 DEF CycleInv, CardOK
<1>9. Cycle!StoresAgree'
  BY <1>1, <1>4, <1>5, <1>6 DEF CycleInv, Cycle!StoresAgree, CycleTypeOK
<1>10. QED
  BY <1>2, <1>3, <1>7, <1>8, <1>9 DEF CycleInv

\* A poll that reaches a verdict closes the card and its row together.
LEMMA PollKeeps ==
  ASSUME Cycle!CycleAssumption, CycleInv, NEW s \in Sessions, Cycle!Poll(s)
  PROVE  CycleInv'
<1>1. PICK view \in Answers \cup {<<>>} :
        LET verdict == Cycle!Reconcile(card[s], view)
            history == Cycle!SettleTo(card[s], verdict, rows[s])
        IN  /\ verdict # "none"
            /\ rows' = [rows EXCEPT ![s] = history]
            /\ cache' = history
            /\ card' = [card EXCEPT ![s] = Cycle!NoCard]
  BY DEF Cycle!Poll, Answers
<1> DEFINE verdict == Cycle!Reconcile(card[s], view)
           history == Cycle!SettleTo(card[s], verdict, rows[s])
<1>2. /\ card[s] # Cycle!NoCard
      /\ UNCHANGED <<now, feed, owner, regains, life, program, stored, opened>>
  BY DEF Cycle!Poll, Cycle!market, Cycle!lease
<1>3. CycleTypeOK /\ Cycle!StoresAgree /\ card[s] \in Cycle!Rows /\ rows[s] \in SUBSET Cycle!Rows
  BY <1>2 DEF CycleInv, CycleTypeOK
<1>4. verdict \in Verdicts
  BY <1>1, <1>3, VerdictIs
<1>5. /\ rows' = [rows EXCEPT ![s] = history] /\ cache' = history
      /\ card' = [card EXCEPT ![s] = Cycle!NoCard]
  BY <1>1
<1> HIDE DEF verdict
<1>6. /\ history \in SUBSET Cycle!Rows
      /\ \A row \in OpenRows(history) : row \in OpenRows(rows[s]) /\ row # card[s]
  BY <1>3, <1>4, Settling
<1> HIDE DEF history
<1>7. \A t \in Sessions \ {s} : rows'[t] = rows[t] /\ card'[t] = card[t]
  BY <1>3, <1>5 DEF CycleTypeOK
<1>8. rows'[s] = history /\ card'[s] = Cycle!NoCard
  BY <1>3, <1>5 DEF CycleTypeOK
<1>9. CycleTypeOK'
  BY <1>2, <1>3, <1>5, <1>6 DEF CycleTypeOK
<1>10. StoredAware' /\ Cycle!OneTradePerSwing' /\ Cycle!OneTradeAtATime'
  BY <1>2 DEF CycleInv, StoredAware, Aware, Cycle!OneTradePerSwing, Cycle!OneTradeAtATime
<1>11. OwnerAware' /\ CardOK'
  BY <1>2, <1>7, <1>8 DEF CycleInv, OwnerAware, Aware, CardOK
<1>12. Cycle!StoresAgree'
  <2>1. \A row \in rows'[s] : ~(row.status = "ACTIVE" /\ row.symbol)
    BY <1>3, <1>6, <1>8 DEF Cycle!StoresAgree, OpenRows
  <2>2. QED
    BY <1>2, <1>3, <1>7, <2>1 DEF Cycle!StoresAgree
<1>13. QED
  BY <1>9, <1>10, <1>11, <1>12 DEF CycleInv

-------------------------------------------------------------------------------
(* The theorems *)

LEMMA Initially ==
  ASSUME Cycle!CycleAssumption
  PROVE  Cycle!Init => CycleInv
<1> SUFFICES ASSUME Cycle!Init PROVE CycleInv
  OBVIOUS
<1>1. Cycle!Fresh \in States /\ Cycle!Unloaded \in States
  BY DEF Cycle!Fresh, Cycle!Unloaded, States
<1>2. Aware(Cycle!Fresh) /\ Cycle!Fresh.armed = Cycle!NoSwing
  BY DEF Cycle!Init, Aware, Cycle!Fresh
<1>3. CycleTypeOK
  BY <1>1 DEF Cycle!Init, CycleTypeOK, Cycle!CycleAssumption
<1>4. StoredAware /\ OwnerAware /\ CardOK
  BY <1>2 DEF Cycle!Init, StoredAware, OwnerAware, CardOK
<1>5. Cycle!OneTradePerSwing /\ Cycle!OneTradeAtATime /\ Cycle!StoresAgree
  BY DEF Cycle!Init, Cycle!OneTradePerSwing, Cycle!OneTradeAtATime, Cycle!StoresAgree
<1>6. QED
  BY <1>3, <1>4, <1>5 DEF CycleInv

LEMMA MarketKeeps ==
  ASSUME Cycle!CycleAssumption, CycleInv, Cycle!NextCandle \/ \E i \in {now - 1, now} \ {0} : Cycle!FeedBegins(i)
  PROVE  CycleInv'
<1>1. UNCHANGED <<owner, life, program, rows, card, stored, cache, regains, opened>>
  BY DEF Cycle!NextCandle, Cycle!FeedBegins, Cycle!lease, Cycle!memory, Cycle!storage
<1>2. now' \in 1 .. MaxCandle /\ feed' \in Seq(Candles \cup {Cycle!Gap})
  <2>1. now \in 1 .. MaxCandle /\ feed \in Seq(Candles \cup {Cycle!Gap}) /\ MaxCandle \in Nat
    BY DEF CycleInv, CycleTypeOK, Cycle!CycleAssumption
  <2>2. CASE Cycle!NextCandle
    BY <2>1, <2>2 DEF Cycle!NextCandle, Cycle!market
  <2>3. ASSUME NEW i \in {now - 1, now} \ {0}, Cycle!FeedBegins(i)
        PROVE  now' \in 1 .. MaxCandle /\ feed' \in Seq(Candles \cup {Cycle!Gap})
    <3>1. i \in Nat
      BY <2>1
    <3>2. PICK candle \in Candles :
            feed' = [j \in 1 .. i |-> IF j <= Len(feed) THEN feed[j]
                                      ELSE IF j < i THEN Cycle!Gap ELSE candle]
      BY <2>3 DEF Cycle!FeedBegins
    <3>3. \A j \in 1 .. i : (IF j <= Len(feed) THEN feed[j]
                             ELSE IF j < i THEN Cycle!Gap ELSE candle) \in Candles \cup {Cycle!Gap}
      BY <2>1, <3>1
    <3>4. feed' \in Seq(Candles \cup {Cycle!Gap})
      BY <3>1, <3>2, <3>3
    <3>5. now' = now
      BY <2>3 DEF Cycle!FeedBegins
    <3>6. QED
      BY <2>1, <3>4, <3>5
  <2>4. QED
    BY <2>2, <2>3
<1>3. CycleTypeOK' /\ StoredAware' /\ OwnerAware' /\ CardOK'
  BY <1>1, <1>2 DEF CycleInv, CycleTypeOK, StoredAware, OwnerAware, Aware, CardOK
<1>4. Cycle!OneTradePerSwing' /\ Cycle!OneTradeAtATime' /\ Cycle!StoresAgree'
  BY <1>1 DEF CycleInv, Cycle!OneTradePerSwing, Cycle!OneTradeAtATime, Cycle!StoresAgree
<1>5. QED
  BY <1>3, <1>4 DEF CycleInv

LEMMA Inductively ==
  ASSUME Cycle!CycleAssumption, MaxRegains = 0
  PROVE  CycleInv /\ [Cycle!Next]_Cycle!vars => CycleInv'
<1> SUFFICES ASSUME CycleInv, [Cycle!Next]_Cycle!vars PROVE CycleInv'
  OBVIOUS
<1>1. CASE Cycle!NextCandle \/ \E i \in {now - 1, now} \ {0} : Cycle!FeedBegins(i)
  BY <1>1, MarketKeeps
<1>2. ASSUME NEW s \in Sessions, Cycle!TakeLease(s) PROVE CycleInv'
  BY <1>2, TakeLeaseKeeps
<1>3. ASSUME NEW s \in Sessions, Cycle!Mount(s) PROVE CycleInv'
  <2>1. life' \in [Sessions -> {"new", "open", "gone"}]
    BY <1>3 DEF Cycle!Mount, CycleInv, CycleTypeOK
  <2>2. QED
    BY <1>3, <2>1, RestoreKeeps DEF Cycle!Mount
<1>4. ASSUME NEW s \in Sessions, Cycle!SwitchPair(s) PROVE CycleInv'
  <2>1. life' \in [Sessions -> {"new", "open", "gone"}]
    BY <1>4 DEF Cycle!SwitchPair, CycleInv, CycleTypeOK
  <2>2. QED
    BY <1>4, <2>1, RestoreKeeps DEF Cycle!SwitchPair
<1>5. ASSUME NEW s \in Sessions, Cycle!Unmount(s) PROVE CycleInv'
  BY <1>5, UnmountKeeps
<1>6. ASSUME NEW s \in Sessions, Cycle!Tick(s) PROVE CycleInv'
  BY <1>6, TickKeeps
<1>7. ASSUME NEW s \in Sessions, Cycle!Poll(s) PROVE CycleInv'
  BY <1>7, PollKeeps
<1>8. CASE UNCHANGED Cycle!vars
  BY <1>8 DEF Cycle!vars, CycleInv, CycleTypeOK, StoredAware, OwnerAware, Aware, CardOK,
     Cycle!OneTradePerSwing,
              Cycle!OneTradeAtATime, Cycle!StoresAgree
<1>9. QED
  BY <1>1, <1>2, <1>3, <1>4, <1>5, <1>6, <1>7, <1>8 DEF Cycle!Next, Cycle!SessionNext

-------------------------------------------------------------------------------
(* The theorems *)

\* A behaviour is about one instance from its first state to its last.
LEMMA OneInstance ==
  /\ Init => /\ which = "three" => Three!Init
             /\ which = "two" => Two!Init
             /\ which = "cycle" => Cycle!Init
  /\ [Next]_<<which, Three!vars, Cycle!vars>> =>
       /\ which' = which
       /\ which = "three" => [Three!Next]_Three!vars
       /\ which = "two" => [Two!Next]_Two!vars
       /\ which = "cycle" => [Cycle!Next]_Cycle!vars
BY DEF Init, Next, Two!vars, Three!vars

\* "One tab runs the strategy" (watchLease.ts:4): never two owners, however many
\* tabs there are, whenever they open, hide, die or contend, as long as no page
\* comes back from the cache and the timers keep their order.
THEOREM OneTabOwns ==
  ASSUME TimesInOrder
  PROVE  Spec => []OneOwner
<1> DEFINE Inv == which = "three" => LeaseInv
<1>1. TimingOrder
  BY InstancesAssumption DEF TimingOrder
<1>2. Init => Inv
  BY <1>1, OneInstance, InitInv
<1>3. Inv /\ [Next]_<<which, Three!vars, Cycle!vars>> => Inv'
  BY <1>1, OneInstance, NextInv
<1>4. Inv => OneOwner
  BY <1>1, InvOneOwner DEF OneOwner
<1>5. QED
  BY <1>2, <1>3, <1>4, PTL DEF Spec

\* Two pages take themselves for the owner for no longer than a heartbeat may take
\* (watchLease.ts:168-176), however many pages there are and however often the one that
\* the browser may freeze comes back.
THEOREM TabsOverlapIsShort ==
  ASSUME TimesInOrder
  PROVE  Spec => []OverlapEnds
<1> DEFINE Inv == which = "two" => CachedInv(t1)
<1>1. CacheOrder(t1)
  BY InstancesAssumption DEF CacheOrder
<1>2. Init => Inv
  BY <1>1, OneInstance, InitCInv
<1>3. Inv /\ [Next]_<<which, Three!vars, Cycle!vars>> => Inv'
  BY <1>1, OneInstance, NextCInv
<1>4. Inv => OverlapEnds
  BY DEF OverlapEnds, CachedInv, OverlapOK, Two!OverlapEnds
<1>5. QED
  BY <1>2, <1>3, <1>4, PTL DEF Spec

\* With the lease taken by each session once: whoever ticks is aware of every trade
\* that was opened, so what it opens is new (useSignalEngine.ts, fib236.ts).
LEMMA CycleInvariant ==
  ASSUME MaxRegains = 0
  PROVE  Spec => [](which = "cycle" => CycleInv)
<1> DEFINE Inv == which = "cycle" => CycleInv
<1>1. Cycle!CycleAssumption
  BY InstancesAssumption
<1>2. Init => Inv
  BY <1>1, OneInstance, Initially
<1>3. Inv /\ [Next]_<<which, Three!vars, Cycle!vars>> => Inv'
  BY <1>1, OneInstance, Inductively
<1>4. QED
  BY <1>2, <1>3, PTL DEF Spec

\* A swing is traded at most once, whichever tab trades and whatever is reloaded
\* (fib236.ts, the keys of the legs that fired).
THEOREM TabsTradeASwingOnce ==
  ASSUME MaxRegains = 0
  PROVE  Spec => []OneTradePerSwing
<1>1. (which = "cycle" => CycleInv) => OneTradePerSwing
  BY DEF CycleInv, OneTradePerSwing
<1>2. QED
  BY <1>1, CycleInvariant, PTL

\* Two trades are never open on one candle, and a martingale follows its primary.
THEOREM TabsTradeOneAtATime ==
  ASSUME MaxRegains = 0
  PROVE  Spec => []OneTradeAtATime
<1>1. (which = "cycle" => CycleInv) => OneTradeAtATime
  BY DEF CycleInv, OneTradeAtATime
<1>2. QED
  BY <1>1, CycleInvariant, PTL

\* Whoever takes over finds the owner's cycle, and an open row has its card.
THEOREM TabsStoresAgree ==
  ASSUME MaxRegains = 0
  PROVE  Spec => []StoresAgree
<1>1. (which = "cycle" => CycleInv) => StoresAgree
  BY DEF CycleInv, StoresAgree
<1>2. QED
  BY <1>1, CycleInvariant, PTL
===============================================================================
