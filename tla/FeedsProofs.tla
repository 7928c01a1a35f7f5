------------------------------ MODULE FeedsProofs ------------------------------
(* What an open page may rely on in its feeds, for any number of pairs, clients  *)
(* and rows, any lengths of time in the order of the code's, and any bounds.     *)
EXTENDS MCFeeds, FiniteSetTheorems, WellFoundedInduction, TLAPS

-------------------------------------------------------------------------------
(* The price hub                                                                 *)

Frames == [Symbols -> Prices \union {Unknown}]

\* A client that shows v shows price p for s once the frames q have come.
Leads(q, v, s, p) ==
  \/ v[s] = p /\ \A i \in 1 .. Len(q) : q[i][s] = Unknown
  \/ \E i \in 1 .. Len(q) : q[i][s] = p /\ \A j \in i + 1 .. Len(q) : q[j][s] = Unknown

HubType ==
  /\ DOMAIN hub = {"latest", "clients", "feeder", "batches", "drops"}
  /\ hub.latest \in Frames /\ hub.clients \in SUBSET Clients
  /\ DOMAIN net = {"prices", "counts"} /\ net.prices \in [Clients -> Seq(Frames)]
  /\ DOMAIN app = {"shown", "told"} /\ app.shown \in [Clients -> Frames]

HubInv ==
  /\ HubType
  /\ \A c \in hub.clients, s \in Symbols :
       hub.latest[s] # Unknown => Leads(net.prices[c], app.shown[c], s, hub.latest[s])

\* A frame more, that has the price or nothing new.
LEMMA LeadsMore ==
  ASSUME NEW q \in Seq(Frames), NEW f \in Frames, NEW v, NEW s \in Symbols, NEW p,
         f[s] = p \/ (f[s] = Unknown /\ Leads(q, v, s, p))
  PROVE  Leads(Append(q, f), v, s, p)
<1> DEFINE r == Append(q, f)
<1>1. Len(r) = Len(q) + 1 /\ r[Len(q) + 1] = f /\ \A i \in 1 .. Len(q) : r[i] = q[i]
  OBVIOUS
<1>2. Len(q) \in Nat
  OBVIOUS
<1> HIDE DEF r
<1>3. CASE f[s] = p
  BY <1>1, <1>2, <1>3 DEF Leads
<1>4. CASE f[s] = Unknown /\ Leads(q, v, s, p)
  <2>1. CASE v[s] = p /\ \A i \in 1 .. Len(q) : q[i][s] = Unknown
    BY <1>1, <1>2, <1>4, <2>1 DEF Leads
  <2>2. CASE \E i \in 1 .. Len(q) : q[i][s] = p /\ \A j \in i + 1 .. Len(q) : q[j][s] = Unknown
    BY <1>1, <1>2, <1>4, <2>2 DEF Leads
  <2> QED BY <1>4, <2>1, <2>2 DEF Leads
<1> QED BY <1>3, <1>4 DEF r

\* The first frame is shown.
LEMMA LeadsShown ==
  ASSUME NEW q \in Seq(Frames), q # <<>>, NEW v \in Frames, NEW s \in Symbols, NEW p, p # Unknown,
         Leads(q, v, s, p)
  PROVE  Leads(Tail(q), Hub!Remember(v, Head(q)), s, p)
<1> DEFINE r == Tail(q)
           w == Hub!Remember(v, Head(q))
<1>1. Len(q) \in Nat /\ Len(q) > 0 /\ Len(r) = Len(q) - 1 /\ \A i \in 1 .. Len(r) : r[i] = q[i + 1]
  OBVIOUS
<1>2. w[s] = IF q[1][s] = Unknown THEN v[s] ELSE q[1][s]
  BY DEF Hub!Remember
<1> SUFFICES Leads(r, w, s, p)
  OBVIOUS
<1> HIDE DEF r, w
<1>3. CASE v[s] = p /\ \A i \in 1 .. Len(q) : q[i][s] = Unknown
  <2>1. w[s] = p /\ \A i \in 1 .. Len(r) : r[i][s] = Unknown
    BY <1>1, <1>2, <1>3
  <2> QED BY <2>1 DEF Leads
<1>4. CASE \E i \in 1 .. Len(q) : q[i][s] = p /\ \A j \in i + 1 .. Len(q) : q[j][s] = Unknown
  <2>1. PICK i \in 1 .. Len(q) : q[i][s] = p /\ \A j \in i + 1 .. Len(q) : q[j][s] = Unknown
    BY <1>4
  <2>2. CASE i = 1
    <3>1. \A k \in 1 .. Len(r) : r[k][s] = Unknown
      BY <1>1, <2>1, <2>2
    <3>2. w[s] = p
      BY <1>2, <2>1, <2>2
    <3> QED BY <3>1, <3>2 DEF Leads
  <2>3. CASE i # 1
    <3>1. i - 1 \in 1 .. Len(r) /\ r[i - 1][s] = p
      BY <1>1, <2>1, <2>3
    <3>2. \A k \in (i - 1) + 1 .. Len(r) : r[k][s] = Unknown
      BY <1>1, <2>1, <2>3
    <3> QED BY <3>1, <3>2, Zenon DEF Leads
  <2> QED BY <2>2, <2>3
<1> QED BY <1>3, <1>4 DEF Leads

LEMMA HubInit == Hub!Init => HubInv
<1> SUFFICES ASSUME Hub!Init PROVE HubInv
  OBVIOUS
<1>1. Hub!Nobody \in Frames
  BY DEF Hub!Nobody, Frames
<1>2. hub.clients = {} /\ HubType
  BY <1>1 DEF Hub!Init, HubType
<1> QED BY <1>2 DEF HubInv

LEMMA RememberType ==
  ASSUME NEW v \in Frames, NEW f \in Frames
  PROVE  Hub!Remember(v, f) \in Frames /\ Hub!Changed(v, f) \in Frames
BY DEF Hub!Remember, Hub!Changed, Frames

\* What is asked of a step: the types, and that every client is still led.
LEMMA HubIngest ==
  ASSUME HubInv, NEW batch \in Frames, Hub!Ingest(batch)
  PROVE  HubInv'
<1> DEFINE out == Hub!Changed(hub.latest, batch)
           newest == Hub!Remember(hub.latest, batch)
           told == [c \in Clients |-> IF c \in hub.clients /\ Hub!KnownPrices(out)
                                      THEN Append(net.prices[c], out) ELSE net.prices[c]]
<1>1. hub.latest \in Frames /\ hub.clients \in SUBSET Clients
  BY DEF HubInv, HubType
<1>2. /\ hub' = [hub EXCEPT !.latest = newest, !.batches = hub.batches + 1]
      /\ net' = [net EXCEPT !.prices = told] /\ app' = app
  BY DEF Hub!Ingest
<1>3. out \in Frames /\ newest \in Frames
  BY <1>1, RememberType
<1>4. \A s \in Symbols : /\ out[s] = IF batch[s] = hub.latest[s] THEN Unknown ELSE batch[s]
                         /\ newest[s] = IF batch[s] = Unknown THEN hub.latest[s] ELSE batch[s]
  BY DEF Hub!Changed, Hub!Remember
<1>5. Hub!KnownPrices(out) <=> \E s \in Symbols : out[s] # Unknown
  BY DEF Hub!KnownPrices
<1> HIDE DEF out, newest
<1>6. told \in [Clients -> Seq(Frames)]
  BY <1>3 DEF HubInv, HubType
<1> HIDE DEF told
<1>7. /\ hub'.latest = newest /\ hub'.clients = hub.clients
      /\ net'.prices = told /\ net'.counts = net.counts
  BY <1>2 DEF HubInv, HubType
<1>8. HubType'
  BY <1>1, <1>2, <1>3, <1>6, <1>7 DEF HubInv, HubType
<1>9. ASSUME NEW c \in hub.clients, NEW s \in Symbols, newest[s] # Unknown
      PROVE  Leads(told[c], app.shown[c], s, newest[s])
  <2>1. net.prices[c] \in Seq(Frames) /\ app.shown[c] \in Frames /\ c \in Clients
    BY <1>1 DEF HubInv, HubType
  <2>2. hub.latest[s] # Unknown => Leads(net.prices[c], app.shown[c], s, hub.latest[s])
    BY DEF HubInv
  <2>3. CASE Hub!KnownPrices(out)
    <3>1. told[c] = Append(net.prices[c], out)
      BY <2>1, <2>3 DEF told
    <3>2. out[s] = newest[s] \/ (out[s] = Unknown /\ hub.latest[s] = newest[s])
      BY <1>4
    <3> QED BY <1>3, <1>9, <2>1, <2>2, <3>1, <3>2, LeadsMore
  <2>4. CASE ~Hub!KnownPrices(out)
    <3>1. told[c] = net.prices[c]
      BY <2>1, <2>4 DEF told
    <3>2. newest[s] = hub.latest[s]
      BY <1>4, <1>5, <2>4
    <3> QED BY <1>9, <2>2, <3>1, <3>2
  <2> QED BY <2>3, <2>4
<1> QED BY <1>2, <1>7, <1>8, <1>9 DEF HubInv

LEMMA HubJoin ==
  ASSUME HubInv, NEW c \in Clients, Hub!Join(c)
  PROVE  HubInv'
<1> DEFINE snap == Hub!Snap(hub.latest)
<1>1. /\ hub' = [hub EXCEPT !.clients = @ \union {c}]
      /\ net' = [prices |-> [net.prices EXCEPT ![c] = snap],
                 counts |-> Hub!Announced(net.counts, hub'.clients)]
      /\ app' = [app EXCEPT !.shown = [app.shown EXCEPT ![c] = Hub!Nobody]]
  BY DEF Hub!Join
<1>2. Hub!Nobody \in Frames /\ \A s \in Symbols : Hub!Nobody[s] = Unknown
  BY DEF Hub!Nobody, Frames
<1>3. hub.latest \in Frames
  BY DEF HubInv, HubType
<1>4. /\ snap \in Seq(Frames)
      /\ \A s \in Symbols : hub.latest[s] # Unknown => Len(snap) = 1 /\ snap[1] = hub.latest
  BY <1>3 DEF Hub!Snap, Hub!KnownPrices
<1> HIDE DEF snap
<1>5. /\ hub'.latest = hub.latest /\ hub'.clients = hub.clients \union {c}
      /\ net'.prices = [net.prices EXCEPT ![c] = snap] /\ app'.shown = [app.shown EXCEPT ![c] = Hub!Nobody]
  BY <1>1 DEF HubInv, HubType
<1>6. HubType'
  BY <1>1, <1>2, <1>4, <1>5 DEF HubInv, HubType
<1>7. ASSUME NEW d \in hub.clients \union {c}, NEW s \in Symbols, hub.latest[s] # Unknown
      PROVE  Leads(net'.prices[d], app'.shown[d], s, hub.latest[s])
  <2>1. CASE d = c
    <3>1. net'.prices[d] = snap
      BY <1>5, <2>1 DEF HubInv, HubType
    <3>2. Len(snap) = 1 /\ snap[1] = hub.latest
      BY <1>4, <1>7
    <3> QED BY <3>1, <3>2 DEF Leads
  <2>2. CASE d # c
    <3>1. d \in hub.clients /\ d \in Clients
      BY <2>2 DEF HubInv, HubType
    <3>2. net'.prices[d] = net.prices[d] /\ app'.shown[d] = app.shown[d]
      BY <1>5, <2>2, <3>1 DEF HubInv, HubType
    <3> QED BY <1>7, <3>1, <3>2 DEF HubInv
  <2> QED BY <2>1, <2>2
<1> QED BY <1>5, <1>6, <1>7 DEF HubInv

LEMMA HubLeave ==
  ASSUME HubInv, NEW c \in Clients, Hub!Leave(c)
  PROVE  HubInv'
<1> DEFINE left == [net.prices EXCEPT ![c] = <<>>]
<1>1. /\ hub' = [hub EXCEPT !.clients = hub.clients \ {c}, !.drops = hub.drops + 1]
      /\ net' = [prices |-> left, counts |-> Hub!Announced(net.counts, hub'.clients)]
      /\ app' = app
  BY DEF Hub!Leave
<1>2. left \in [Clients -> Seq(Frames)] /\ \A d \in Clients \ {c} : left[d] = net.prices[d]
  BY DEF HubInv, HubType
<1> HIDE DEF left
<1>3. hub'.latest = hub.latest /\ hub'.clients = hub.clients \ {c} /\ net'.prices = left
  BY <1>1 DEF HubInv, HubType
<1>4. HubType'
  BY <1>1, <1>2, <1>3 DEF HubInv, HubType
<1>5. ASSUME NEW d \in hub.clients \ {c}, NEW s \in Symbols, hub.latest[s] # Unknown
      PROVE  Leads(left[d], app.shown[d], s, hub.latest[s])
  BY <1>2, <1>5 DEF HubInv, HubType
<1> QED BY <1>1, <1>3, <1>4, <1>5 DEF HubInv

LEMMA HubShow ==
  ASSUME HubInv, NEW c \in Clients, Hub!Show(c)
  PROVE  HubInv'
<1> DEFINE q == net.prices[c]
           seen == Hub!Remember(app.shown[c], Head(q))
           shown == [app.shown EXCEPT ![c] = seen]
           rest == [net.prices EXCEPT ![c] = Tail(q)]
<1>1. /\ q # <<>> /\ hub' = hub
      /\ net' = [net EXCEPT !.prices = rest] /\ app' = [app EXCEPT !.shown = shown]
  BY DEF Hub!Show
<1>2. q \in Seq(Frames) /\ app.shown[c] \in Frames /\ Head(q) \in Frames /\ Tail(q) \in Seq(Frames)
  BY <1>1 DEF HubInv, HubType
<1>3. seen \in Frames
  BY <1>2, RememberType
<1>4. \A s \in Symbols : \A p : p # Unknown /\ Leads(q, app.shown[c], s, p) => Leads(Tail(q), seen, s, p)
  BY <1>1, <1>2, LeadsShown
<1> HIDE DEF seen
<1>5. /\ rest \in [Clients -> Seq(Frames)] /\ rest[c] = Tail(q)
      /\ \A d \in Clients \ {c} : rest[d] = net.prices[d]
  BY <1>2 DEF HubInv, HubType
<1>6. /\ shown \in [Clients -> Frames] /\ shown[c] = seen
      /\ \A d \in Clients \ {c} : shown[d] = app.shown[d]
  BY <1>3 DEF HubInv, HubType
<1> HIDE DEF rest, shown
<1>7. net'.prices = rest /\ app'.shown = shown
  BY <1>1 DEF HubInv, HubType
<1>8. HubType'
  BY <1>1, <1>5, <1>6, <1>7 DEF HubInv, HubType
<1>9. ASSUME NEW d \in hub.clients, NEW s \in Symbols, hub.latest[s] # Unknown
      PROVE  Leads(rest[d], shown[d], s, hub.latest[s])
  <2>1. Leads(net.prices[d], app.shown[d], s, hub.latest[s]) /\ d \in Clients
    BY <1>9 DEF HubInv, HubType
  <2>2. CASE d = c
    BY <1>4, <1>5, <1>6, <1>9, <2>1, <2>2
  <2>3. CASE d # c
    BY <1>5, <1>6, <2>1, <2>3
  <2> QED BY <2>2, <2>3
<1> QED BY <1>1, <1>7, <1>8, <1>9 DEF HubInv

LEMMA HubNext == HubInv /\ Hub!Next => HubInv'
<1> SUFFICES ASSUME HubInv, Hub!Next PROVE HubInv'
  OBVIOUS
<1> USE DEF HubInv, HubType
<1>1. CASE Hub!FeederJoins
  BY <1>1 DEF Hub!FeederJoins
<1>2. CASE Hub!FeederLeaves
  <2>1. /\ hub' = [hub EXCEPT !.feeder = FALSE, !.drops = hub.drops + 1]
        /\ net' = [net EXCEPT !.counts = <<>>] /\ app' = app
    BY <1>2 DEF Hub!FeederLeaves
  <2>2. hub'.latest = hub.latest /\ hub'.clients = hub.clients /\ net'.prices = net.prices
    BY <2>1
  <2> QED BY <2>1, <2>2
<1>3. CASE Hub!Hibernate
  <2>1. hub' = [hub EXCEPT !.latest = Hub!Nobody] /\ net' = net /\ app' = app
    BY <1>3 DEF Hub!Hibernate
  <2>2. Hub!Nobody \in Frames /\ \A s \in Symbols : Hub!Nobody[s] = Unknown
    BY DEF Hub!Nobody, Frames
  <2> QED BY <2>1, <2>2
<1>4. CASE Hub!Hear
  <2>1. hub' = hub /\ net'.prices = net.prices /\ app'.shown = app.shown
    BY <1>4 DEF Hub!Hear
  <2>2. HubType'
    BY <1>4, <2>1 DEF Hub!Hear
  <2> QED BY <2>1, <2>2
<1> HIDE DEF HubInv, HubType
<1>5. ASSUME NEW c \in Clients, Hub!Join(c) \/ Hub!Leave(c) \/ Hub!Show(c) PROVE HubInv'
  BY <1>5, HubJoin, HubLeave, HubShow
<1>6. ASSUME NEW batch \in [Symbols -> Prices \union {Unknown}], Hub!Ingest(batch) PROVE HubInv'
  BY <1>6, HubIngest DEF Frames
<1> QED BY <1>1, <1>2, <1>3, <1>4, <1>5, <1>6 DEF Hub!Next

LEMMA HubSays == HubInv => Hub!EveryoneSeesTheLatest
BY DEF HubInv, Hub!EveryoneSeesTheLatest, Leads

-------------------------------------------------------------------------------
(* The market state                                                              *)

StatusType ==
  /\ DOMAIN hub = {"bannerIn", "engineIn"} /\ hub.bannerIn \in Nat /\ hub.engineIn \in Nat
  /\ net # Nothing => DOMAIN net = {"about", "age", "banner"} /\ net.age \in 0 .. Timeout
  /\ DOMAIN app = {"symbol", "shared", "status", "badPolls", "good", "twice"} /\ app.good \in 0 .. 2
  /\ DOMAIN app.status = {"about", "healthy"}
  /\ app.shared # Nothing => DOMAIN app.shared = {"about", "healthy", "age", "counted"}
                             /\ app.shared.age \in Nat

\* A request the banner waits for began with its poll or before, and an answer it has
\* counted is too old to be reused by the time it polls again.
PollsApart ==
  /\ net # Nothing /\ net.banner => hub.bannerIn + net.age >= Poll
  /\ app.shared # Nothing /\ app.shared.counted => hub.bannerIn + app.shared.age >= Ttl

\* From the first answer on whatever is new is about the pair on screen.
OldNewsCounted ==
  /\ app.good > 0 => /\ net # Nothing => net.about = app.symbol
                     /\ app.shared # Nothing => app.shared.about = app.symbol \/ app.shared.counted
  /\ app.good = 2 => app.status.about = app.symbol
  /\ ~app.twice

StatusInv == StatusType /\ PollsApart /\ OldNewsCounted

LEMMA StatusInit == Status!StatusAssumption /\ Status!Init => StatusInv
<1> SUFFICES ASSUME Status!StatusAssumption, Status!Init PROVE StatusInv
  OBVIOUS
<1>1. PICK s \in Symbols : app = [symbol |-> s, shared |-> Nothing, status |-> [about |-> s, healthy |-> TRUE],
                                  badPolls |-> 0, good |-> 0, twice |-> FALSE]
  BY DEF Status!Init
<1>2. hub.bannerIn = 0 /\ hub.engineIn = 0 /\ DOMAIN hub = {"bannerIn", "engineIn"} /\ net = Nothing
  BY DEF Status!Init
<1>3. app.shared = Nothing /\ app.good = 0 /\ app.twice = FALSE
  BY <1>1
<1>4. DOMAIN app = {"symbol", "shared", "status", "badPolls", "good", "twice"} /\ DOMAIN app.status = {"about", "healthy"}
  BY <1>1
<1>5. StatusType
  BY <1>2, <1>3, <1>4 DEF StatusType
<1>6. PollsApart
  BY <1>2, <1>3 DEF PollsApart
<1>7. OldNewsCounted
  BY <1>2, <1>3 DEF OldNewsCounted
<1> QED BY <1>5, <1>6, <1>7 DEF StatusInv

\* What a poll's outcome does to what the page knows.
LEMMA SeenIs ==
  ASSUME NEW a, DOMAIN a = {"symbol", "shared", "status", "badPolls", "good", "twice"},
         DOMAIN a.status = {"about", "healthy"}, a.good \in 0 .. 2, NEW v, NEW counted
  PROVE  LET b == Status!Seen(a, v, counted)
         IN  /\ DOMAIN b = DOMAIN a /\ b.symbol = a.symbol /\ b.shared = a.shared
             /\ DOMAIN b.status = {"about", "healthy"}
             /\ b.good = IF v # Nothing /\ a.good < 2 THEN a.good + 1 ELSE a.good
             /\ b.status.about = IF v # Nothing THEN v.about ELSE a.status.about
             /\ b.twice => a.twice \/ counted
<1> DEFINE bad == IF v = Nothing \/ ~v.healthy THEN a.badPolls + 1 ELSE 0
           shown == bad >= UnhealthyAfter
           polls == IF shown THEN UnhealthyAfter ELSE bad
           good == IF v # Nothing /\ a.good < 2 THEN a.good + 1 ELSE a.good
           twice == a.twice \/ (shown /\ counted)
           status == IF v # Nothing THEN [about |-> v.about, healthy |-> ~shown]
                     ELSE [about |-> a.status.about, healthy |-> a.status.healthy /\ ~shown]
           b == Status!Seen(a, v, counted)
<1>1. b = [a EXCEPT !.badPolls = polls, !.good = good, !.twice = twice, !.status = status]
  BY DEF Status!Seen
<1>2. DOMAIN status = {"about", "healthy"} /\ status.about = IF v # Nothing THEN v.about ELSE a.status.about
  OBVIOUS
<1>3. twice => a.twice \/ counted
  OBVIOUS
<1> HIDE DEF polls, good, twice, status, b
<1>4. /\ DOMAIN b = DOMAIN a /\ b.symbol = a.symbol /\ b.shared = a.shared
      /\ b.status = status /\ b.good = good /\ b.twice = twice
  BY <1>1
<1>5. QED
  BY <1>2, <1>3, <1>4 DEF good, b

\* A poll, of the banner's or the engine's.
LEMMA StatusFetch ==
  ASSUME Status!StatusAssumption, StatusInv, NEW banner \in BOOLEAN,
         Status!Fetch(banner, app), hub'.engineIn \in Nat, DOMAIN hub' = {"bannerIn", "engineIn"},
         banner => hub.bannerIn = 0 /\ hub'.bannerIn = Poll,
         ~banner => hub'.bannerIn = hub.bannerIn
  PROVE  StatusInv'
<1> USE DEF StatusInv, Status!StatusAssumption
<1>1. Ttl \in Nat /\ Poll \in Nat /\ Timeout \in Nat /\ Ttl + Timeout <= Poll /\ hub'.bannerIn \in Nat
  BY DEF StatusType
<1>2. CASE net # Nothing
  <2>1. app' = app /\ net' = [net EXCEPT !.banner = net.banner \/ banner]
    BY <1>2 DEF Status!Fetch
  <2>2. /\ DOMAIN net' = {"about", "age", "banner"} /\ net'.age = net.age /\ net'.about = net.about
        /\ net'.banner => net.banner \/ banner
    BY <1>2, <2>1 DEF StatusType
  <2>3. StatusType'
    BY <1>1, <1>2, <2>1, <2>2 DEF StatusType
  <2>4. PollsApart'
    BY <1>1, <1>2, <2>1, <2>2 DEF PollsApart, StatusType
  <2>5. OldNewsCounted'
    BY <1>2, <2>1, <2>2 DEF OldNewsCounted
  <2> QED BY <2>3, <2>4, <2>5
<1>3. CASE net = Nothing /\ ~Status!Reusable(app.shared)
  <2>1. app' = app /\ net' = [about |-> app.symbol, age |-> 0, banner |-> banner]
    BY <1>3 DEF Status!Fetch
  <2>2. DOMAIN net' = {"about", "age", "banner"} /\ net'.age = 0 /\ net'.about = app.symbol /\ net'.banner = banner
    BY <2>1
  <2>3. StatusType'
    BY <1>1, <2>1, <2>2 DEF StatusType
  <2>4. PollsApart'
    BY <1>1, <2>1, <2>2 DEF PollsApart, StatusType
  <2>5. OldNewsCounted'
    BY <2>1, <2>2 DEF OldNewsCounted
  <2> QED BY <2>3, <2>4, <2>5
<1>4. CASE net = Nothing /\ Status!Reusable(app.shared) /\ ~banner
  <2>1. app' = app /\ net' = net
    BY <1>4 DEF Status!Fetch
  <2> QED BY <1>1, <1>4, <2>1 DEF StatusType, PollsApart, OldNewsCounted
<1>5. CASE net = Nothing /\ Status!Reusable(app.shared) /\ banner
  <2> DEFINE b == Status!Seen(app, app.shared, app.shared.counted)
  <2>1. app' = [b EXCEPT !.shared.counted = TRUE] /\ net' = Nothing
    BY <1>5 DEF Status!Fetch
  <2>2. /\ app.shared # Nothing /\ app.shared.age < Ttl /\ app.shared.age \in Nat
        /\ DOMAIN app.shared = {"about", "healthy", "age", "counted"}
    BY <1>5 DEF Status!Reusable, StatusType
  <2>3. ~app.shared.counted
    BY <1>1, <1>5, <2>2 DEF PollsApart
  <2>4. app.good > 0 => app.shared.about = app.symbol
    BY <2>2, <2>3 DEF OldNewsCounted
  <2>5. /\ DOMAIN b = DOMAIN app /\ b.symbol = app.symbol /\ b.shared = app.shared
        /\ DOMAIN b.status = {"about", "healthy"}
        /\ b.good = IF app.good < 2 THEN app.good + 1 ELSE app.good
        /\ b.status.about = app.shared.about
        /\ b.twice => app.twice \/ app.shared.counted
    BY <2>2, SeenIs DEF StatusType
  <2> HIDE DEF b
  <2>6. /\ DOMAIN app' = DOMAIN app /\ app'.symbol = app.symbol /\ app'.status = b.status
        /\ app'.good = b.good /\ app'.twice = b.twice /\ app'.shared = [app.shared EXCEPT !.counted = TRUE]
    BY <2>1, <2>5 DEF StatusType
  <2>7. /\ DOMAIN app'.shared = DOMAIN app.shared /\ app'.shared.counted
        /\ app'.shared.age = app.shared.age
    BY <2>2, <2>6
  <2>8. StatusType'
    BY <1>1, <2>1, <2>2, <2>5, <2>6, <2>7 DEF StatusType
  <2>9. PollsApart'
    BY <1>1, <1>5, <2>1, <2>2, <2>7 DEF PollsApart
  <2>10. OldNewsCounted'
    BY <2>1, <2>3, <2>4, <2>5, <2>6, <2>7 DEF OldNewsCounted, StatusType
  <2> QED BY <2>8, <2>9, <2>10
<1> QED BY <1>2, <1>3, <1>4, <1>5

\* An answer, or none.
LEMMA StatusAnswered ==
  ASSUME Status!StatusAssumption, StatusInv, NEW v, v = Nothing \/ v.about = net.about,
         Status!Answered(v)
  PROVE  StatusInv'
<1> USE DEF StatusInv, Status!StatusAssumption
<1> DEFINE shared == IF v = Nothing THEN app.shared
                     ELSE [about |-> v.about, healthy |-> v.healthy, age |-> 0, counted |-> net.banner]
           kept == IF v = Nothing THEN app ELSE [app EXCEPT !.shared = shared]
           b == Status!Seen(kept, v, FALSE)
<1>1. Ttl \in Nat /\ Poll \in Nat /\ Timeout \in Nat /\ Ttl + Timeout <= Poll
  OBVIOUS
<1>2. /\ net # Nothing /\ DOMAIN net = {"about", "age", "banner"} /\ net.age \in 0 .. Timeout
      /\ net' = Nothing /\ hub' = hub
  BY DEF Status!Answered, StatusType
<1>3. v # Nothing => [Status!Shared(v) EXCEPT !.counted = net.banner] = shared
  BY DEF Status!Shared
<1>4. app' = IF net.banner THEN b ELSE kept
  BY <1>3 DEF Status!Answered
<1>5. /\ DOMAIN kept = DOMAIN app /\ kept.symbol = app.symbol /\ kept.status = app.status
      /\ kept.good = app.good /\ kept.twice = app.twice /\ kept.shared = shared
  BY DEF StatusType
<1>6. v # Nothing => DOMAIN shared = {"about", "healthy", "age", "counted"} /\ shared.age = 0
                     /\ shared.about = net.about /\ shared.counted = net.banner
  OBVIOUS
<1>7. v = Nothing => shared = app.shared
  OBVIOUS
<1> HIDE DEF shared, kept
<1>8. /\ DOMAIN b = DOMAIN kept /\ b.symbol = kept.symbol /\ b.shared = kept.shared
      /\ DOMAIN b.status = {"about", "healthy"}
      /\ b.good = IF v # Nothing /\ kept.good < 2 THEN kept.good + 1 ELSE kept.good
      /\ b.status.about = IF v # Nothing THEN v.about ELSE kept.status.about
      /\ b.twice => kept.twice \/ FALSE
  BY <1>5, SeenIs DEF StatusType
<1> HIDE DEF b
<1>9. /\ DOMAIN app' = DOMAIN app /\ app'.symbol = app.symbol /\ app'.shared = shared
      /\ DOMAIN app'.status = {"about", "healthy"} /\ app'.good \in 0 .. 2
      /\ app'.twice => app.twice
  BY <1>4, <1>5, <1>8 DEF StatusType
<1>10. StatusType'
  BY <1>2, <1>6, <1>7, <1>9 DEF StatusType
<1>11. PollsApart'
  BY <1>1, <1>2, <1>6, <1>7, <1>9 DEF PollsApart, StatusType
<1>12. app'.good > 0 /\ app'.shared # Nothing => app'.shared.about = app'.symbol \/ app'.shared.counted
  BY <1>2, <1>4, <1>5, <1>6, <1>7, <1>8, <1>9 DEF OldNewsCounted, StatusType
<1>13. app'.good = 2 => app'.status.about = app'.symbol
  BY <1>2, <1>4, <1>5, <1>8, <1>9 DEF OldNewsCounted, StatusType
<1>14. OldNewsCounted'
  BY <1>2, <1>9, <1>12, <1>13 DEF OldNewsCounted
<1> QED BY <1>10, <1>11, <1>14

\* Another pair.
LEMMA StatusSwitch ==
  ASSUME Status!StatusAssumption, StatusInv, NEW s \in Symbols, Status!Switch(s)
  PROVE  StatusInv'
<1> USE DEF StatusInv, Status!StatusAssumption
<1> DEFINE shared == IF app.shared = Nothing THEN app.shared ELSE [app.shared EXCEPT !.counted = FALSE]
<1>1. app' = [app EXCEPT !.symbol = s, !.badPolls = 0, !.good = 0, !.shared = shared]
  BY DEF Status!Switch
<1>2. net' = (IF net = Nothing THEN net ELSE [net EXCEPT !.banner = FALSE]) /\ hub' = [hub EXCEPT !.bannerIn = 0]
  BY DEF Status!Switch
<1>3. app.shared # Nothing => /\ DOMAIN shared = {"about", "healthy", "age", "counted"}
                              /\ shared.age \in Nat /\ shared.counted = FALSE
  BY DEF StatusType
<1>4. app.shared = Nothing => shared = Nothing
  OBVIOUS
<1> HIDE DEF shared
<1>5. /\ DOMAIN app' = DOMAIN app /\ app'.status = app.status /\ app'.good = 0 /\ app'.shared = shared
      /\ app'.twice = app.twice
  BY <1>1 DEF StatusType
<1>6. net' # Nothing => net # Nothing
  BY <1>2
<1>7. net # Nothing => /\ DOMAIN net' = {"about", "age", "banner"} /\ net'.age \in 0 .. Timeout
                       /\ net'.banner = FALSE
  BY <1>2 DEF StatusType
<1>8. StatusType'
  BY <1>2, <1>3, <1>4, <1>5, <1>6, <1>7 DEF StatusType
<1>9. PollsApart'
  BY <1>3, <1>4, <1>5, <1>6, <1>7 DEF PollsApart
<1>10. OldNewsCounted'
  BY <1>5 DEF OldNewsCounted
<1> QED BY <1>8, <1>9, <1>10

\* A second passes.
LEMMA StatusTick ==
  ASSUME Status!StatusAssumption, StatusInv, Status!Tick
  PROVE  StatusInv'
<1> USE DEF StatusInv, Status!StatusAssumption
<1> DEFINE ripe == Status!Reusable(app.shared)
           shared == IF ripe THEN [app.shared EXCEPT !.age = app.shared.age + 1] ELSE app.shared
<1>1. app' = IF ripe THEN [app EXCEPT !.shared.age = app.shared.age + 1] ELSE app
  BY DEF Status!Tick
<1>2. net' = (IF net = Nothing THEN net ELSE [net EXCEPT !.age = net.age + 1]) /\ (net # Nothing => net.age < Timeout)
  BY DEF Status!Tick
<1>3. hub' = [bannerIn |-> hub.bannerIn - 1, engineIn |-> hub.engineIn - 1] /\ hub.bannerIn > 0 /\ hub.engineIn > 0
  BY DEF Status!Tick
<1>4. app.shared # Nothing =>
        /\ DOMAIN shared = {"about", "healthy", "age", "counted"} /\ shared.about = app.shared.about
        /\ shared.counted = app.shared.counted /\ shared.age \in Nat
        /\ shared.age = app.shared.age + 1 \/ (shared.age = app.shared.age /\ app.shared.age >= Ttl)
  BY DEF StatusType, Status!Reusable
<1>5. app.shared = Nothing => shared = Nothing
  BY DEF Status!Reusable
<1>6. /\ DOMAIN app' = DOMAIN app /\ app'.status = app.status /\ app'.good = app.good
      /\ app'.symbol = app.symbol /\ app'.shared = shared /\ app'.twice = app.twice
  BY <1>1 DEF StatusType
<1> HIDE DEF shared, ripe
<1>7. net' # Nothing => net # Nothing
  BY <1>2
<1>8. net # Nothing => /\ DOMAIN net' = {"about", "age", "banner"} /\ net'.age \in 0 .. Timeout
                       /\ net'.age = net.age + 1 /\ net'.banner = net.banner /\ net'.about = net.about
  BY <1>2 DEF StatusType
<1>9. /\ DOMAIN hub' = {"bannerIn", "engineIn"} /\ hub'.bannerIn \in Nat /\ hub'.engineIn \in Nat
      /\ hub'.bannerIn = hub.bannerIn - 1
  BY <1>3 DEF StatusType
<1>10. StatusType'
  BY <1>4, <1>5, <1>6, <1>7, <1>8, <1>9 DEF StatusType
<1>11. PollsApart'
  BY <1>4, <1>5, <1>6, <1>7, <1>8, <1>9 DEF PollsApart, StatusType
<1>12. OldNewsCounted'
  BY <1>4, <1>5, <1>6, <1>7, <1>8 DEF OldNewsCounted
<1> QED BY <1>10, <1>11, <1>12

LEMMA StatusNext == Status!StatusAssumption /\ StatusInv /\ Status!Next => StatusInv'
<1> SUFFICES ASSUME Status!StatusAssumption, StatusInv, Status!Next PROVE StatusInv'
  OBVIOUS
<1>1. CASE Status!BannerPolls
  <2>1. /\ hub.bannerIn = 0 /\ DOMAIN hub' = {"bannerIn", "engineIn"} /\ hub'.bannerIn = Poll
        /\ hub'.engineIn \in Nat /\ Status!Fetch(TRUE, app)
    BY <1>1 DEF Status!BannerPolls, StatusInv, StatusType
  <2> QED BY <2>1, StatusFetch
<1>2. CASE Status!EnginePolls
  <2>1. /\ DOMAIN hub' = {"bannerIn", "engineIn"} /\ hub'.bannerIn = hub.bannerIn
        /\ hub'.engineIn = PricePoll /\ Status!Fetch(FALSE, app)
    BY <1>2 DEF Status!EnginePolls, StatusInv, StatusType
  <2>2. PricePoll \in Nat
    BY DEF Status!StatusAssumption
  <2> QED BY <2>1, <2>2, StatusFetch
<1>3. CASE Status!Tick
  BY <1>3, StatusTick
<1>4. CASE Status!Answered(Nothing)
  BY <1>4, StatusAnswered
<1>5. ASSUME NEW healthy \in BOOLEAN, Status!Answered([about |-> net.about, healthy |-> healthy])
      PROVE  StatusInv'
  BY <1>5, StatusAnswered
<1>6. ASSUME NEW s \in Symbols, Status!Switch(s) PROVE StatusInv'
  BY <1>6, StatusSwitch
<1> QED BY <1>1, <1>2, <1>3, <1>4, <1>5, <1>6 DEF Status!Next

LEMMA StatusSays == StatusInv => Status!StatusCatchesUp
BY DEF StatusInv, OldNewsCounted, Status!StatusCatchesUp

-------------------------------------------------------------------------------
(* The chart                                                                     *)

Shape == {"symbol", "loaded", "candles", "poClosed", "hidden", "listening", "wanted", "ws", "timer",
          "strays", "destroyed", "closedFirst", "crossed"}

SocketsType(sockets) ==
  /\ DOMAIN sockets \subseteq 1 .. MaxSockets
  /\ \A i \in DOMAIN sockets : /\ DOMAIN sockets[i] = {"state", "viaHub", "paused", "sub"}
                               /\ sockets[i].state = "opening" => ~sockets[i].paused

ChartType ==
  /\ DOMAIN net = {"sockets", "loads"} /\ SocketsType(net.sockets)
  /\ DOMAIN app = Shape /\ app.ws \in DOMAIN net.sockets \union {NoSocket} /\ app.strays \in Nat
  /\ app.symbol \in Symbols

\* Socket i brings chart a its pair's prices, or will once the page is looked at, or
\* has still to report what becomes of it.
Serves(sockets, i, a) ==
  \/ sockets[i].state # "open"
  \/ a.symbol \in sockets[i].sub /\ (sockets[i].paused => a.hidden /\ i = a.ws)
Covered(sockets, a) == a.timer \/ a.strays > 0 \/ \E i \in DOMAIN sockets : Serves(sockets, i, a)

Hears(sockets, a) ==
  a.loaded /\ ~a.destroyed /\ ~a.closedFirst => a.wanted /\ a.listening /\ Covered(sockets, a)
Owned(a) == a.crossed \/ a.candles \subseteq {a.symbol}

ChartInv == ChartType /\ Hears(net.sockets, app) /\ Owned(app)

LEMMA ChartInit == Chart!Init => ChartInv
<1> SUFFICES ASSUME Chart!Init PROVE ChartInv
  OBVIOUS
<1>1. PICK s \in Symbols :
        /\ net = [sockets |-> [i \in {} |-> 0], loads |-> {[symbol |-> s, delta |-> FALSE]}]
        /\ app = [symbol |-> s, loaded |-> FALSE, candles |-> {}, poClosed |-> FALSE, hidden |-> FALSE,
                  listening |-> FALSE, wanted |-> FALSE, ws |-> NoSocket, timer |-> FALSE, strays |-> 0,
                  destroyed |-> FALSE, closedFirst |-> FALSE, crossed |-> FALSE]
  BY DEF Chart!Init
<1>2. DOMAIN net = {"sockets", "loads"} /\ DOMAIN net.sockets = {}
  BY <1>1
<1>3. /\ DOMAIN app = Shape /\ app.ws = NoSocket /\ app.strays = 0 /\ app.symbol \in Symbols
      /\ ~app.loaded /\ app.candles = {}
  BY <1>1 DEF Shape
<1> QED BY <1>2, <1>3 DEF ChartInv, ChartType, SocketsType, Hears, Owned

\* Asking a socket to close changes its state, nothing else.
LEMMA Closes ==
  ASSUME NEW n, DOMAIN n = {"sockets", "loads"}, SocketsType(n.sockets)
  PROVE  LET m == Chart!CloseCurrent(n)
         IN  /\ DOMAIN m = {"sockets", "loads"} /\ m.loads = n.loads /\ SocketsType(m.sockets)
             /\ DOMAIN m.sockets = DOMAIN n.sockets
<1> DEFINE w == app.ws
           sockets == [n.sockets EXCEPT ![w].state = "closing"]
           m == Chart!CloseCurrent(n)
<1>1. m = IF w = NoSocket THEN n ELSE [n EXCEPT !.sockets = sockets]
  BY DEF Chart!CloseCurrent
<1>2. DOMAIN sockets = DOMAIN n.sockets
  OBVIOUS
<1>3. \A i \in DOMAIN sockets : sockets[i] = IF i = w THEN [n.sockets[i] EXCEPT !.state = "closing"] ELSE n.sockets[i]
  OBVIOUS
<1>4. SocketsType(sockets)
  BY <1>2, <1>3 DEF SocketsType
<1> HIDE DEF sockets, m
<1> QED BY <1>1, <1>2, <1>4 DEF m

LEMMA Least == ASSUME NEW T \in SUBSET Nat, T # {} PROVE \E j \in T : \A k \in T : j <= k
<1>1. PICK j \in T : \A k \in T : ~ (<<k, j>> \in OpToRel(<, Nat))
  BY NatLessThanWellFounded, WFMin
<1>2. \A k \in T : ~ (k < j)
  BY <1>1 DEF OpToRel
<1> QED BY <1>2

\* A new socket serves, whatever the chart shows.
LEMMA Connects ==
  ASSUME NEW n, DOMAIN n = {"sockets", "loads"}, SocketsType(n.sockets),
         NEW a, DOMAIN a = Shape, a.wanted, ~a.destroyed, NEW viaHub, Chart!Connect(n, a, viaHub)
  PROVE  /\ DOMAIN net' = {"sockets", "loads"} /\ SocketsType(net'.sockets)
         /\ app' = [a EXCEPT !.ws = app'.ws] /\ app'.ws \in DOMAIN net'.sockets
         /\ \E i \in DOMAIN net'.sockets : net'.sockets[i].state = "opening"
<1> DEFINE free == Chart!Free(n)
           i == CHOOSE j \in free : \A k \in free : j <= k
           new == [state |-> "opening", viaHub |-> viaHub, paused |-> FALSE, sub |-> {}]
           sockets == [j \in DOMAIN n.sockets \union {i} |-> IF j = i THEN new ELSE n.sockets[j]]
<1>1. /\ free # {} /\ app' = [a EXCEPT !.ws = i]
      /\ net' = [n EXCEPT !.sockets = sockets]
  BY DEF Chart!Connect, Chart!With
<1>2. free \in SUBSET Nat /\ free \subseteq 1 .. MaxSockets
  BY DEF Chart!Free, Chart!Ids
<1>3. \E j \in free : \A k \in free : j <= k
  BY <1>1, <1>2, Least
<1>4. i \in 1 .. MaxSockets
  BY <1>2, <1>3
<1> HIDE DEF free, i
<1>5. i \in DOMAIN sockets /\ sockets[i] = new
  OBVIOUS
<1>6. SocketsType(sockets)
  BY <1>4 DEF SocketsType
<1>7. new.state = "opening"
  OBVIOUS
<1> HIDE DEF sockets, new
<1>8. net'.sockets = sockets /\ DOMAIN net' = {"sockets", "loads"}
  BY <1>1
<1>9. app'.ws = i
  BY <1>1 DEF Shape
<1> QED BY <1>1, <1>5, <1>6, <1>7, <1>8, <1>9

\* A close of a wanted socket books the next.
LEMMA ChartOnClose ==
  ASSUME ChartInv, NEW i \in DOMAIN net.sockets, Chart!OnClose(i)
  PROVE  ChartInv'
<1> DEFINE rest == [j \in DOMAIN net.sockets \ {i} |-> net.sockets[j]]
           a == [app EXCEPT !.ws = NoSocket]
<1>1. /\ net' = [net EXCEPT !.sockets = rest]
      /\ app' = IF a.destroyed \/ ~a.wanted THEN a
                ELSE [a EXCEPT !.timer = TRUE, !.strays = IF a.timer THEN a.strays + 1 ELSE a.strays]
  BY DEF Chart!OnClose, Chart!Without, Chart!Booked
<1>2. SocketsType(rest) /\ DOMAIN net' = {"sockets", "loads"} /\ net'.sockets = rest
  BY <1>1 DEF ChartInv, ChartType, SocketsType
<1>3. /\ DOMAIN a = Shape /\ a.ws = NoSocket /\ a.strays = app.strays /\ a.symbol = app.symbol
      /\ a.loaded = app.loaded /\ a.destroyed = app.destroyed /\ a.closedFirst = app.closedFirst
      /\ a.wanted = app.wanted /\ a.listening = app.listening /\ a.crossed = app.crossed
      /\ a.candles = app.candles
  BY DEF ChartInv, ChartType, Shape
<1> HIDE DEF a
<1>4. /\ DOMAIN app' = Shape /\ app'.ws = NoSocket /\ app'.strays \in Nat /\ app'.symbol = app.symbol
      /\ app'.loaded = app.loaded /\ app'.destroyed = app.destroyed /\ app'.closedFirst = app.closedFirst
      /\ app'.wanted = app.wanted /\ app'.listening = app.listening /\ app'.crossed = app.crossed
      /\ app'.candles = app.candles /\ (~app.destroyed /\ app.wanted => app'.timer)
  <2>1. CASE a.destroyed \/ ~a.wanted
    BY <1>1, <1>3, <2>1 DEF ChartInv, ChartType
  <2>2. CASE ~(a.destroyed \/ ~a.wanted)
    <3>1. app' = [a EXCEPT !.timer = TRUE, !.strays = IF a.timer THEN a.strays + 1 ELSE a.strays]
      BY <1>1, <2>2
    <3>2. app.strays \in Nat
      BY DEF ChartInv, ChartType
    <3> QED BY <1>3, <3>1, <3>2 DEF Shape
  <2> QED BY <2>1, <2>2
<1>5. ChartType'
  BY <1>2, <1>4 DEF ChartInv, ChartType
<1> QED BY <1>4, <1>5 DEF ChartInv, Hears, Owned, Covered

\* The reconnect of a chart that wants none does nothing.
LEMMA ChartTimerFires ==
  ASSUME ChartInv, Chart!TimerFires
  PROVE  ChartInv'
<1>1. PICK a \in {[app EXCEPT !.timer = FALSE], [app EXCEPT !.strays = app.strays - 1]} :
        Chart!Connect(net, a, hub.viaHub) /\ (a = [app EXCEPT !.timer = FALSE] \/ app.strays > 0)
  BY DEF Chart!TimerFires
<1>2. /\ DOMAIN a = Shape /\ a.ws = app.ws /\ a.strays \in Nat /\ a.symbol = app.symbol
      /\ a.loaded = app.loaded /\ a.destroyed = app.destroyed /\ a.closedFirst = app.closedFirst
      /\ a.wanted = app.wanted /\ a.listening = app.listening /\ a.crossed = app.crossed
      /\ a.candles = app.candles
  <2>1. app.strays \in Nat /\ DOMAIN app = Shape
    BY DEF ChartInv, ChartType
  <2>2. CASE a = [app EXCEPT !.timer = FALSE]
    BY <2>1, <2>2 DEF Shape
  <2>3. CASE a = [app EXCEPT !.strays = app.strays - 1] /\ app.strays > 0
    BY <2>1, <2>3 DEF Shape
  <2> QED BY <1>1, <2>2, <2>3
<1>3. CASE a.destroyed \/ ~a.wanted
  <2>1. net' = net /\ app' = a
    BY <1>1, <1>3 DEF Chart!Connect
  <2> QED BY <1>2, <1>3, <2>1 DEF ChartInv, ChartType, Hears, Owned
<1>4. CASE ~a.destroyed /\ a.wanted
  <2>1. /\ DOMAIN net' = {"sockets", "loads"} /\ SocketsType(net'.sockets)
        /\ app' = [a EXCEPT !.ws = app'.ws] /\ app'.ws \in DOMAIN net'.sockets
        /\ \E i \in DOMAIN net'.sockets : net'.sockets[i].state = "opening"
    BY <1>1, <1>2, <1>4, Connects DEF ChartInv, ChartType
  <2>2. /\ DOMAIN app' = Shape /\ app'.strays \in Nat /\ app'.symbol = app.symbol
        /\ app'.loaded = app.loaded /\ app'.destroyed = app.destroyed /\ app'.closedFirst = app.closedFirst
        /\ app'.wanted = app.wanted /\ app'.listening = app.listening /\ app'.crossed = app.crossed
        /\ app'.candles = app.candles
    BY <1>2, <2>1 DEF Shape
  <2>3. ChartType'
    BY <2>1, <2>2 DEF ChartInv, ChartType
  <2>4. Covered(net'.sockets, app')
    BY <2>1 DEF Covered, Serves
  <2> QED BY <2>2, <2>3, <2>4 DEF ChartInv, Hears, Owned
<1> QED BY <1>3, <1>4

\* The first candles of a pair open its socket; later ones are taken as they come.
LEMMA ChartLoaded ==
  ASSUME ChartInv, NEW q, NEW full \in BOOLEAN, Chart!Loaded(q, full)
  PROVE  ChartInv'
<1> DEFINE left == [net EXCEPT !.loads = net.loads \ {q}]
           merges == q.delta /\ ~full /\ app.loaded /\ app.candles # {}
           candles == {q.symbol} \union IF merges THEN app.candles ELSE {}
           crossed == q.symbol # app.symbol \/ (merges /\ app.crossed)
           first == IF app.loaded THEN app.closedFirst ELSE app.poClosed
           a == [app EXCEPT !.candles = candles, !.loaded = TRUE, !.crossed = crossed, !.closedFirst = first]
<1>1. IF app.destroyed THEN net' = left /\ app' = app
      ELSE IF app.loaded \/ app.poClosed THEN net' = left /\ app' = a
      ELSE Chart!StartPriceTick(left, a)
  BY DEF Chart!Loaded
<1>2. DOMAIN left = {"sockets", "loads"} /\ left.sockets = net.sockets
  BY DEF ChartInv, ChartType
<1>3. crossed \/ candles \subseteq {app.symbol}
  BY DEF ChartInv, Owned
<1> HIDE DEF left, candles, crossed, first
<1>4. /\ DOMAIN a = Shape /\ a.ws = app.ws /\ a.strays \in Nat /\ a.symbol = app.symbol
      /\ a.loaded /\ a.destroyed = app.destroyed /\ a.closedFirst = first
      /\ a.wanted = app.wanted /\ a.listening = app.listening /\ a.crossed = crossed
      /\ a.candles = candles /\ a.timer = app.timer /\ a.strays = app.strays /\ a.hidden = app.hidden
  BY DEF ChartInv, ChartType, Shape
<1> HIDE DEF a
<1>5. CASE app.destroyed
  BY <1>1, <1>2, <1>5 DEF ChartInv, ChartType, Hears, Owned
<1>6. CASE ~app.destroyed /\ (app.loaded \/ app.poClosed)
  <2>1. net' = left /\ app' = a
    BY <1>1, <1>6
  <2>2. ChartType'
    BY <1>2, <1>4, <2>1 DEF ChartInv, ChartType
  <2>3. ~first => app.loaded /\ ~app.closedFirst
    BY <1>6 DEF first
  <2>4. Covered(net.sockets, app) => Covered(net.sockets, a)
    BY <1>4 DEF Covered, Serves
  <2> QED BY <1>2, <1>3, <1>4, <2>1, <2>2, <2>3, <2>4 DEF ChartInv, Hears, Owned
<1>7. CASE ~app.destroyed /\ ~(app.loaded \/ app.poClosed)
  <2> DEFINE m == Chart!CloseCurrent(left)
             b == [a EXCEPT !.ws = NoSocket, !.timer = FALSE, !.wanted = TRUE, !.listening = TRUE]
  <2>1. Chart!Connect(m, b, hub.viaHub)
    BY <1>1, <1>7 DEF Chart!StartPriceTick
  <2>2. DOMAIN m = {"sockets", "loads"} /\ SocketsType(m.sockets)
    BY <1>2, Closes DEF ChartInv, ChartType
  <2>3. /\ DOMAIN b = Shape /\ b.strays \in Nat /\ b.symbol = app.symbol /\ b.wanted = TRUE /\ b.listening = TRUE
        /\ b.destroyed = app.destroyed /\ b.crossed = crossed /\ b.candles = candles
    BY <1>4 DEF Shape
  <2> HIDE DEF m, b
  <2>4. /\ DOMAIN net' = {"sockets", "loads"} /\ SocketsType(net'.sockets)
        /\ app' = [b EXCEPT !.ws = app'.ws] /\ app'.ws \in DOMAIN net'.sockets
        /\ \E i \in DOMAIN net'.sockets : net'.sockets[i].state = "opening"
    BY <1>7, <2>1, <2>2, <2>3, Connects
  <2>5. /\ DOMAIN app' = Shape /\ app'.strays \in Nat /\ app'.symbol = app.symbol /\ app'.wanted = TRUE
        /\ app'.listening = TRUE /\ app'.crossed = crossed /\ app'.candles = candles
    BY <2>3, <2>4 DEF Shape
  <2>6. ChartType'
    BY <2>4, <2>5 DEF ChartInv, ChartType
  <2>7. Covered(net'.sockets, app')
    BY <2>4 DEF Covered, Serves
  <2> QED BY <1>3, <2>5, <2>6, <2>7 DEF ChartInv, Hears, Owned
<1> QED BY <1>5, <1>6, <1>7

\* A socket opens, for the pair on screen or for every pair.
LEMMA ChartOpened ==
  ASSUME ChartInv, NEW i \in DOMAIN net.sockets, Chart!Opened(i)
  PROVE  ChartInv'
<1> DEFINE sub == IF net.sockets[i].viaHub THEN Symbols ELSE {app.symbol}
           new == [net.sockets[i] EXCEPT !.state = "open", !.sub = sub]
           sockets == [net.sockets EXCEPT ![i] = new]
<1>1. net' = [net EXCEPT !.sockets = sockets] /\ app' = app /\ net.sockets[i].state = "opening"
  BY DEF Chart!Opened
<1>2. /\ DOMAIN new = {"state", "viaHub", "paused", "sub"} /\ new.state = "open" /\ app.symbol \in new.sub
      /\ ~new.paused
  BY <1>1 DEF ChartInv, ChartType, SocketsType
<1> HIDE DEF new
<1>3. /\ DOMAIN sockets = DOMAIN net.sockets /\ sockets[i] = new
      /\ \A j \in DOMAIN net.sockets \ {i} : sockets[j] = net.sockets[j]
  OBVIOUS
<1> HIDE DEF sockets
<1>4. DOMAIN net' = {"sockets", "loads"} /\ net'.sockets = sockets
  BY <1>1 DEF ChartInv, ChartType
<1>5. SocketsType(sockets)
  BY <1>2, <1>3 DEF ChartInv, ChartType, SocketsType
<1>6. \A j \in DOMAIN net.sockets : Serves(net.sockets, j, app) => Serves(sockets, j, app)
  BY <1>2, <1>3 DEF Serves
<1>7. Covered(net.sockets, app) => Covered(sockets, app)
  BY <1>3, <1>6 DEF Covered
<1> QED BY <1>1, <1>3, <1>4, <1>5, <1>7 DEF ChartInv, ChartType, Hears, Owned

\* The page is hidden or looked at: the current socket is told.
LEMMA ChartSee ==
  ASSUME Chart!ChartAssumption, ChartInv, NEW hidden \in BOOLEAN, Chart!See(hidden)
  PROVE  ChartInv'
<1> DEFINE w == app.ws
           told == /\ app.listening /\ ~app.destroyed /\ w # NoSocket
                   /\ net.sockets[w].state = "open"
           sockets == [net.sockets EXCEPT ![w].paused = hidden]
           n == IF told THEN [net EXCEPT !.sockets = sockets] ELSE net
<1>1. app' = [app EXCEPT !.hidden = hidden] /\ net' \in {Chart!Asked(n, app), n}
  BY DEF Chart!See
<1>2. DOMAIN n = {"sockets", "loads"} /\ n.sockets = IF told THEN sockets ELSE net.sockets
  BY DEF ChartInv, ChartType
<1> HIDE DEF n
<1>3. DOMAIN net' = {"sockets", "loads"} /\ net'.sockets = n.sockets
  BY <1>1, <1>2 DEF Chart!Asked
<1>4. /\ DOMAIN app' = Shape /\ app'.hidden = hidden /\ app'.ws = app.ws /\ app'.timer = app.timer
      /\ app'.strays = app.strays /\ app'.symbol = app.symbol /\ app'.loaded = app.loaded
      /\ app'.destroyed = app.destroyed /\ app'.closedFirst = app.closedFirst /\ app'.wanted = app.wanted
      /\ app'.listening = app.listening /\ app'.crossed = app.crossed /\ app'.candles = app.candles
  BY <1>1 DEF ChartInv, ChartType, Shape
<1>5. CASE ~told
  <2>1. net'.sockets = net.sockets
    BY <1>2, <1>3, <1>5
  <2>2. ChartType'
    BY <1>3, <1>4, <2>1 DEF ChartInv, ChartType
  <2>3. ASSUME app.listening, ~app.destroyed, NEW i \in DOMAIN net.sockets, Serves(net.sockets, i, app)
        PROVE  Serves(net.sockets, i, app')
    <3>1. i # NoSocket
      BY DEF Chart!ChartAssumption, ChartInv, ChartType, SocketsType
    <3> QED BY <1>4, <1>5, <2>3, <3>1 DEF Serves
  <2>4. app.listening /\ ~app.destroyed /\ Covered(net.sockets, app) => Covered(net.sockets, app')
    BY <1>4, <2>3 DEF Covered
  <2> QED BY <1>4, <2>1, <2>2, <2>4 DEF ChartInv, Hears, Owned
<1>6. CASE told
  <2>1. w \in DOMAIN net.sockets
    BY <1>6 DEF ChartInv, ChartType
  <2>2. /\ DOMAIN sockets = DOMAIN net.sockets /\ sockets[w] = [net.sockets[w] EXCEPT !.paused = hidden]
        /\ \A j \in DOMAIN net.sockets \ {w} : sockets[j] = net.sockets[j]
    BY <2>1
  <2> HIDE DEF sockets
  <2>3. /\ DOMAIN sockets[w] = {"state", "viaHub", "paused", "sub"} /\ sockets[w].state = "open"
        /\ sockets[w].paused = hidden /\ sockets[w].sub = net.sockets[w].sub
    BY <1>6, <2>1, <2>2 DEF ChartInv, ChartType, SocketsType
  <2>4. net'.sockets = sockets
    BY <1>2, <1>3, <1>6
  <2>5. SocketsType(sockets)
    BY <2>2, <2>3 DEF ChartInv, ChartType, SocketsType
  <2>6. ChartType'
    BY <1>3, <1>4, <2>2, <2>4, <2>5 DEF ChartInv, ChartType
  <2>7. ASSUME NEW i \in DOMAIN net.sockets, Serves(net.sockets, i, app)
        PROVE  Serves(sockets, i, app')
    <3>1. CASE i = w
      BY <1>4, <1>6, <2>3, <2>7, <3>1 DEF Serves
    <3>2. CASE i # w
      BY <1>4, <2>2, <2>7, <3>2 DEF Serves
    <3> QED BY <3>1, <3>2
  <2>8. Covered(net.sockets, app) => Covered(sockets, app')
    BY <1>4, <2>2, <2>7 DEF Covered
  <2> QED BY <1>4, <2>4, <2>6, <2>8 DEF ChartInv, Hears, Owned
<1> QED BY <1>5, <1>6

\* Another pair or another address: the candles are asked for again, and until they
\* come nothing is promised.
LEMMA ChartReset ==
  ASSUME ChartInv, (\E s \in Symbols : Chart!Update(s)) \/ Chart!SetProxy
  PROVE  ChartInv'
<1>1. PICK a : /\ a = Chart!Reset(app) \/ \E s \in Symbols :
                   a = [Chart!Reset(app) EXCEPT !.symbol = s, !.candles = {}, !.crossed = FALSE]
               /\ app' = a /\ net' = Chart!Asked(Chart!CloseCurrent(net), a)
  BY DEF Chart!Update, Chart!SetProxy
<1> DEFINE b == Chart!Reset(app)
<1>2. /\ DOMAIN b = Shape /\ b.ws = NoSocket /\ b.strays \in Nat /\ b.symbol = app.symbol /\ ~b.loaded
      /\ b.candles = app.candles /\ b.crossed = app.crossed
  BY DEF Chart!Reset, ChartInv, ChartType, Shape
<1> HIDE DEF b
<1>3. /\ DOMAIN a = Shape /\ a.ws = NoSocket /\ a.strays \in Nat /\ a.symbol \in Symbols
      /\ ~a.loaded /\ Owned(a)
  <2>1. CASE a = b
    BY <1>2, <2>1 DEF ChartInv, ChartType, Owned
  <2>2. ASSUME NEW s \in Symbols, a = [b EXCEPT !.symbol = s, !.candles = {}, !.crossed = FALSE]
        PROVE  /\ DOMAIN a = Shape /\ a.ws = NoSocket /\ a.strays \in Nat /\ a.symbol \in Symbols
               /\ ~a.loaded /\ Owned(a)
    BY <1>2, <2>2 DEF Shape, Owned
  <2> QED BY <1>1, <2>1, <2>2 DEF b
<1>4. DOMAIN net' = {"sockets", "loads"} /\ SocketsType(net'.sockets)
  <2> DEFINE m == Chart!CloseCurrent(net)
  <2>1. DOMAIN m = {"sockets", "loads"} /\ SocketsType(m.sockets)
    BY Closes DEF ChartInv, ChartType
  <2>2. net' = Chart!Asked(m, a)
    BY <1>1
  <2> HIDE DEF m
  <2> QED BY <2>1, <2>2 DEF Chart!Asked
<1> QED BY <1>1, <1>3, <1>4 DEF ChartInv, ChartType, Hears

\* Another hub: a new socket at once.
LEMMA ChartSetHubUrl ==
  ASSUME ChartInv, Chart!SetHubUrl
  PROVE  ChartInv'
<1> DEFINE m == Chart!CloseCurrent(net)
           b == [app EXCEPT !.ws = NoSocket, !.wanted = TRUE]
<1>1. Chart!Connect(m, b, ~hub.viaHub) /\ ~app.destroyed
  BY DEF Chart!SetHubUrl, Chart!Bounded
<1>2. DOMAIN m = {"sockets", "loads"} /\ SocketsType(m.sockets)
  BY Closes DEF ChartInv, ChartType
<1>3. /\ DOMAIN b = Shape /\ b.strays \in Nat /\ b.symbol = app.symbol /\ b.wanted = TRUE
      /\ b.listening = app.listening /\ b.destroyed = app.destroyed /\ b.crossed = app.crossed
      /\ b.candles = app.candles /\ b.loaded = app.loaded /\ b.closedFirst = app.closedFirst
  BY DEF ChartInv, ChartType, Shape
<1> HIDE DEF m, b
<1>4. /\ DOMAIN net' = {"sockets", "loads"} /\ SocketsType(net'.sockets)
      /\ app' = [b EXCEPT !.ws = app'.ws] /\ app'.ws \in DOMAIN net'.sockets
      /\ \E i \in DOMAIN net'.sockets : net'.sockets[i].state = "opening"
  BY <1>1, <1>2, <1>3, Connects
<1>5. /\ DOMAIN app' = Shape /\ app'.strays \in Nat /\ app'.symbol = app.symbol /\ app'.wanted = TRUE
      /\ app'.listening = app.listening /\ app'.destroyed = app.destroyed /\ app'.crossed = app.crossed
      /\ app'.candles = app.candles /\ app'.loaded = app.loaded /\ app'.closedFirst = app.closedFirst
  BY <1>3, <1>4 DEF Shape
<1>6. ChartType'
  BY <1>4, <1>5 DEF ChartInv, ChartType
<1>7. Covered(net'.sockets, app')
  BY <1>4 DEF Covered, Serves
<1> QED BY <1>5, <1>6, <1>7 DEF ChartInv, Hears, Owned

LEMMA ChartDestroy ==
  ASSUME ChartInv, Chart!Destroy
  PROVE  ChartInv'
<1>1. /\ app' = [app EXCEPT !.destroyed = TRUE, !.wanted = FALSE, !.ws = NoSocket, !.timer = FALSE]
      /\ net' = Chart!CloseCurrent(net)
  BY DEF Chart!Destroy
<1>2. DOMAIN net' = {"sockets", "loads"} /\ SocketsType(net'.sockets)
  BY <1>1, Closes DEF ChartInv, ChartType
<1>3. /\ DOMAIN app' = Shape /\ app'.destroyed = TRUE /\ app'.ws = NoSocket /\ app'.strays = app.strays
      /\ app'.symbol = app.symbol /\ app'.crossed = app.crossed /\ app'.candles = app.candles
  BY <1>1 DEF ChartInv, ChartType, Shape
<1> QED BY <1>2, <1>3 DEF ChartInv, ChartType, Hears, Owned

\* Candles of the pair on screen, and a request more or less.
LEMMA ChartReads ==
  ASSUME ChartInv,
         \/ Chart!Load \/ Chart!StatusPolled
         \/ \E q \in net.loads : Chart!LoadFails(q)
         \/ \E i \in DOMAIN net.sockets, s \in Symbols : Chart!Tick(i, s)
         \/ \E s \in Symbols : Chart!MarketTurns(s)
  PROVE  ChartInv'
<1>1. net' = Chart!Asked(net, app) \/ net' = net \/ \E q \in net.loads : net' = [net EXCEPT !.loads = net.loads \ {q}]
  BY DEF Chart!Load, Chart!StatusPolled, Chart!LoadFails, Chart!Tick, Chart!MarketTurns
<1>2. \/ app' = app
      \/ app' = [app EXCEPT !.candles = app.candles \union {app.symbol}]
      \/ app' = [app EXCEPT !.poClosed = FALSE, !.candles = app.candles \union {app.symbol}]
      \/ app' = [app EXCEPT !.poClosed = TRUE]
  BY DEF Chart!Load, Chart!StatusPolled, Chart!LoadFails, Chart!Tick, Chart!MarketTurns, Chart!OurPrice
<1>3. DOMAIN net' = {"sockets", "loads"} /\ net'.sockets = net.sockets
  BY <1>1 DEF ChartInv, ChartType, Chart!Asked
<1>4. /\ DOMAIN app' = Shape /\ app'.ws = app.ws /\ app'.timer = app.timer /\ app'.hidden = app.hidden
      /\ app'.strays = app.strays /\ app'.symbol = app.symbol /\ app'.loaded = app.loaded
      /\ app'.destroyed = app.destroyed /\ app'.closedFirst = app.closedFirst /\ app'.wanted = app.wanted
      /\ app'.listening = app.listening /\ app'.crossed = app.crossed
      /\ app'.candles \subseteq app.candles \union {app.symbol}
  BY <1>2 DEF ChartInv, ChartType, Shape
<1>5. ChartType'
  BY <1>3, <1>4 DEF ChartInv, ChartType
<1>6. Covered(net.sockets, app) => Covered(net.sockets, app')
  BY <1>4 DEF Covered, Serves
<1>7. Owned(app')
  BY <1>4 DEF ChartInv, Owned
<1> QED BY <1>3, <1>4, <1>5, <1>6, <1>7 DEF ChartInv, Hears

LEMMA ChartNext == Chart!ChartAssumption /\ ChartInv /\ Chart!Next => ChartInv'
<1> SUFFICES ASSUME Chart!ChartAssumption, ChartInv, Chart!Next PROVE ChartInv'
  OBVIOUS
<1>1. ASSUME NEW i \in DOMAIN net.sockets, Chart!Opened(i) \/ Chart!OnClose(i) \/ \E s \in Symbols : Chart!Tick(i, s)
      PROVE  ChartInv'
  BY <1>1, ChartOpened, ChartOnClose, ChartReads
<1>2. ASSUME NEW q \in net.loads, Chart!LoadFails(q) \/ \E full \in BOOLEAN : Chart!Loaded(q, full)
      PROVE  ChartInv'
  BY <1>2, ChartReads, ChartLoaded
<1>3. ASSUME NEW s \in Symbols, Chart!Update(s) \/ Chart!MarketTurns(s) PROVE ChartInv'
  BY <1>3, ChartReset, ChartReads
<1>4. ASSUME NEW hidden \in BOOLEAN, Chart!See(hidden) PROVE ChartInv'
  BY <1>4, ChartSee
<1>5. CASE Chart!TimerFires \/ Chart!Load \/ Chart!StatusPolled
  BY <1>5, ChartTimerFires, ChartReads
<1>6. CASE Chart!SetProxy \/ Chart!SetHubUrl \/ Chart!Destroy
  BY <1>6, ChartReset, ChartSetHubUrl, ChartDestroy
<1> QED BY <1>1, <1>2, <1>3, <1>4, <1>5, <1>6 DEF Chart!Next

LEMMA ChartSays == ChartInv => Chart!ListensOrWillListen /\ Chart!OwnPairOnly
BY DEF ChartInv, Hears, Covered, Serves, Owned, Chart!ListensOrWillListen, Chart!OwnPairOnly

-------------------------------------------------------------------------------
(* The watch of the page                                                         *)

Trade == [entry : Nat, unheard : BOOLEAN]
PageShape == {"forced", "chart", "watched", "loaded", "open", "placed", "watch", "pressed", "switches",
              "presses", "failures"}

\* A page that may have trades, each with its card.
PageType(a) ==
  /\ DOMAIN a = PageShape /\ a.chart \in Symbols /\ a.open \in [Symbols -> Trade \union {Nothing}]
  /\ a.placed \in SUBSET (Symbols \X Trade) /\ a.watched \subseteq Symbols
Carded(a) == \A r \in a.placed : a.open[r[1]] = r[2]
RequestsType(n) ==
  /\ DOMAIN n = {"sync", "sweep", "tick"} /\ n.sync \in {Nothing, {app.chart}}
  /\ n.sweep = Nothing \/ n.sweep \subseteq Symbols \ {app.chart}
  /\ n.tick = Nothing \/ n.tick \subseteq Symbols

\* The last moment at which a trade may still wait for a result.
LastMoment(t) == Watch!Expiry(t) + Stranded
Early(t) == t.unheard \/ hub.now < LastMoment(t)

\* The request that will see a trade to its end is under way.
AskedFor(p, n) == IF p = app.chart THEN n.sync # Nothing ELSE n.sweep # Nothing /\ p \in n.sweep
Timely(r, n) == Early(r[2]) \/ (hub.now = LastMoment(r[2]) /\ AskedFor(r[1], n))

WatchInv ==
  /\ DOMAIN hub = {"now", "candles", "shut", "mute"} /\ hub.now \in Nat
  /\ RequestsType(net) /\ PageType(app) /\ Carded(app)
  /\ \A r \in app.placed : Timely(r, net)

LEMMA PlacedFits == ASSUME Watch!WatchAssumption, hub.now \in Nat
                    PROVE  /\ Watch!Now \in Nat
                           /\ hub.now < (Watch!Now + 1) * Candle
                           /\ hub.now < (Watch!Now + 2) * Candle
<1>1. Candle \in Nat /\ Candle > 0 /\ hub.now \in Nat
  BY DEF Watch!WatchAssumption
<1>2. \A x \in Nat, c \in Nat \ {0} : x \div c \in Nat /\ x < (x \div c + 1) * c /\ x < (x \div c + 2) * c
  OBVIOUS
<1> QED BY <1>1, <1>2 DEF Watch!Now

\* What has ended is settled, on its card and on the list alike.
LEMMA ReconciledIs ==
  ASSUME Watch!WatchAssumption, hub.now \in Nat, NEW a, PageType(a), Carded(a), NEW seen, DOMAIN seen \subseteq Symbols
  PROVE  LET b == Watch!Reconciled(a, seen)
         IN  /\ PageType(b) /\ Carded(b) /\ b.placed \subseteq a.placed /\ b.chart = a.chart
             /\ \A r \in b.placed : r[1] \in DOMAIN seen => hub.now < LastMoment(r[2])
<1> DEFINE ended == {p \in DOMAIN seen : a.open[p] # Nothing /\ Watch!Over(a.open[p], seen[p])}
           open == [p \in Symbols |-> IF p \in ended THEN Nothing ELSE a.open[p]]
           placed == a.placed \ {<<p, a.open[p]>> : p \in ended}
           b == Watch!Reconciled(a, seen)
<1>1. b = [a EXCEPT !.open = open, !.placed = placed]
  BY DEF Watch!Reconciled
<1>2. \A r \in a.placed : r[1] \in Symbols /\ r[2] \in Trade /\ r = <<r[1], r[2]>> /\ a.open[r[1]] = r[2]
  BY DEF PageType, Carded
<1>3. \A r \in placed : r \in a.placed /\ r[1] \notin ended
  BY <1>2
<1>4. open \in [Symbols -> Trade \union {Nothing}]
  BY DEF PageType
<1>5. \A r \in placed : open[r[1]] = r[2]
  BY <1>2, <1>3
<1>6. ASSUME NEW r \in placed, r[1] \in DOMAIN seen PROVE hub.now < LastMoment(r[2])
  <2>1. r[2] # Nothing /\ r[2] \in Trade
    BY <1>2, <1>3 DEF Watch!WatchAssumption, Trade
  <2>2. ~Watch!Over(r[2], seen[r[1]])
    BY <1>2, <1>3, <1>6, <2>1
  <2>3. ~(hub.now >= Watch!Expiry(r[2]) + Stranded)
    BY <2>2 DEF Watch!Over
  <2>4. Watch!Expiry(r[2]) \in Nat
    BY <2>1 DEF Watch!Expiry, Watch!WatchAssumption, Trade
  <2> QED BY <2>3, <2>4 DEF LastMoment, Watch!WatchAssumption
<1>7. placed \subseteq a.placed
  OBVIOUS
<1> HIDE DEF open, placed, b
<1>8. DOMAIN b = PageShape /\ b.open = open /\ b.placed = placed /\ b.chart = a.chart /\ b.watched = a.watched
  BY <1>1 DEF PageType, PageShape
<1> SUFFICES /\ PageType(b) /\ Carded(b) /\ b.placed \subseteq a.placed /\ b.chart = a.chart
             /\ \A r \in b.placed : r[1] \in DOMAIN seen => hub.now < LastMoment(r[2])
  BY DEF b
<1> QED BY <1>4, <1>5, <1>6, <1>7, <1>8 DEF PageType, Carded

\* The page is what it became, and what must be asked is asked.
LEMMA BecomesKeeps ==
  ASSUME Watch!WatchAssumption, WatchInv, hub'.now = hub.now, DOMAIN hub' = DOMAIN hub,
         NEW a, PageType(a), Carded(a), NEW n, RequestsType(n), Watch!Becomes(a, n),
         \A r \in a.placed : Early(r[2]) \/ (hub.now = LastMoment(r[2])
                                             /\ (a.chart # app.chart \/ AskedFor(r[1], n)))
  PROVE  WatchInv'
<1> DEFINE sync == IF a.chart # app.chart THEN {a.chart} ELSE n.sync
           strays == Watch!Strays(a)
           sweep == IF strays = {} THEN Nothing
                    ELSE IF a.chart # app.chart \/ Watch!Trades(a) # Watch!Trades(app) THEN strays ELSE n.sweep
<1>1. app' = a /\ net' = [n EXCEPT !.sync = sync, !.sweep = sweep]
  BY DEF Watch!Becomes, Watch!Asks
<1>2. strays \subseteq Symbols \ {a.chart}
  BY DEF Watch!Strays, Watch!Trades
<1>3. \A r \in a.placed : r[1] \in Symbols /\ r[2] \in Trade /\ r[2] # Nothing /\ a.open[r[1]] = r[2]
  BY DEF PageType, Carded, Watch!WatchAssumption, Trade
<1>4. \A r \in a.placed : r[1] # a.chart => r[1] \in strays
  BY <1>3 DEF Watch!Strays, Watch!Trades
<1> HIDE DEF strays
<1>5. sync \in {Nothing, {a.chart}} /\ (a.chart # app.chart => sync = {a.chart})
  BY DEF RequestsType
<1>6. sweep = Nothing \/ sweep \subseteq Symbols \ {a.chart}
  BY <1>2 DEF RequestsType
<1>7. {a.chart} # Nothing /\ (strays # {} => strays # Nothing)
  BY <1>2 DEF PageType, Watch!WatchAssumption
<1>8. DOMAIN net' = {"sync", "sweep", "tick"} /\ net'.sync = sync /\ net'.sweep = sweep /\ net'.tick = n.tick
  BY <1>1 DEF RequestsType
<1>9. RequestsType(net)'
  BY <1>1, <1>5, <1>6, <1>8 DEF RequestsType
<1>10. ASSUME NEW r \in a.placed
       PROVE  r[2].unheard \/ hub.now < LastMoment(r[2])
              \/ (hub.now = LastMoment(r[2])
                  /\ IF r[1] = a.chart THEN sync # Nothing ELSE sweep # Nothing /\ r[1] \in sweep)
  <2>1. CASE Early(r[2])
    BY <2>1 DEF Early
  <2>2. CASE hub.now = LastMoment(r[2]) /\ a.chart # app.chart
    BY <1>4, <1>5, <1>7, <2>2
  <2>3. CASE hub.now = LastMoment(r[2]) /\ a.chart = app.chart /\ AskedFor(r[1], n)
    BY <1>4, <1>7, <2>3 DEF AskedFor
  <2> QED BY <1>10, <2>1, <2>2, <2>3
<1> HIDE DEF sync, sweep
<1>11. (\A r \in app.placed : Timely(r, net))'
  BY <1>1, <1>8, <1>10 DEF Timely, Early, AskedFor, LastMoment, Watch!Expiry
<1> QED BY <1>1, <1>9, <1>11 DEF WatchInv

\* The chart's answer settles its trades, or marks them as not heard of.
LEMMA WatchSync ==
  ASSUME Watch!WatchAssumption, WatchInv, Watch!SyncAnswered
  PROVE  WatchInv'
<1> DEFINE n == [net EXCEPT !.sync = Nothing]
           seen == Watch!Seen(net.sync)
           b == Watch!Reconciled(app, seen)
<1>1. hub' = hub /\ net.sync = {app.chart}
  BY DEF Watch!SyncAnswered, WatchInv, RequestsType
<1>2. \/ Watch!Becomes([b EXCEPT !.loaded = TRUE], n)
      \/ \E f \in Watch!Fewer(app) :
           Watch!Becomes([f EXCEPT !.open[f.chart] = IF f.open[f.chart] = Nothing THEN f.open[f.chart]
                                                     ELSE [f.open[f.chart] EXCEPT !.unheard = TRUE],
                            !.placed = {IF r[1] = f.chart /\ r[2] = f.open[f.chart]
                                        THEN <<r[1], [r[2] EXCEPT !.unheard = TRUE]>> ELSE r : r \in f.placed}], n)
  BY DEF Watch!SyncAnswered
<1>3. DOMAIN n = {"sync", "sweep", "tick"} /\ n.sync = Nothing /\ n.sweep = net.sweep /\ n.tick = net.tick
  BY DEF WatchInv, RequestsType
<1>4. RequestsType(n)
  BY <1>3 DEF WatchInv, RequestsType
<1> HIDE DEF n
<1>5. DOMAIN seen = {app.chart} /\ app.chart \in Symbols
  BY <1>1 DEF Watch!Seen, WatchInv, PageType
<1> HIDE DEF seen
<1>6. ASSUME NEW r \in app.placed, r[1] # app.chart
      PROVE  Early(r[2]) \/ (hub.now = LastMoment(r[2]) /\ AskedFor(r[1], n))
  BY <1>3, <1>6 DEF WatchInv, Timely, AskedFor
<1>7. CASE Watch!Becomes([b EXCEPT !.loaded = TRUE], n)
  <2> DEFINE a == [b EXCEPT !.loaded = TRUE]
  <2>1. /\ PageType(b) /\ Carded(b) /\ b.placed \subseteq app.placed /\ b.chart = app.chart
        /\ \A r \in b.placed : r[1] \in DOMAIN seen => hub.now < LastMoment(r[2])
    BY <1>5, ReconciledIs DEF WatchInv
  <2> HIDE DEF b
  <2>2. DOMAIN a = PageShape /\ a.open = b.open /\ a.placed = b.placed /\ a.chart = app.chart /\ a.watched = b.watched
    BY <2>1 DEF PageType, PageShape
  <2>3. PageType(a) /\ Carded(a)
    BY <2>1, <2>2 DEF PageType, Carded
  <2>4. Watch!Becomes(a, n)
    BY <1>7
  <2> HIDE DEF a
  <2>5. ASSUME NEW r \in a.placed PROVE Early(r[2]) \/ (hub.now = LastMoment(r[2]) /\ AskedFor(r[1], n))
    BY <1>5, <1>6, <2>1, <2>2 DEF Early
  <2> QED BY <1>1, <1>4, <2>3, <2>4, <2>5, BecomesKeeps
<1>8. ASSUME NEW f \in Watch!Fewer(app),
             Watch!Becomes([f EXCEPT !.open[f.chart] = IF f.open[f.chart] = Nothing THEN f.open[f.chart]
                                                       ELSE [f.open[f.chart] EXCEPT !.unheard = TRUE],
                              !.placed = {IF r[1] = f.chart /\ r[2] = f.open[f.chart]
                                          THEN <<r[1], [r[2] EXCEPT !.unheard = TRUE]>> ELSE r : r \in f.placed}], n)
      PROVE  WatchInv'
  <2> DEFINE t == f.open[f.chart]
             marked == IF t = Nothing THEN t ELSE [t EXCEPT !.unheard = TRUE]
             open == [f.open EXCEPT ![f.chart] = marked]
             Mark(r) == IF r[1] = f.chart /\ r[2] = t THEN <<r[1], [r[2] EXCEPT !.unheard = TRUE]>> ELSE r
             placed == {Mark(r) : r \in f.placed}
             a == [f EXCEPT !.open = open, !.placed = placed]
  <2>1. /\ DOMAIN f = PageShape /\ f.open = app.open /\ f.placed = app.placed /\ f.chart = app.chart
        /\ f.chart \in Symbols /\ f.open \in [Symbols -> Trade \union {Nothing}]
        /\ f.placed \in SUBSET (Symbols \X Trade) /\ f.watched \subseteq Symbols
    BY DEF Watch!Fewer, WatchInv, PageType, PageShape
  <2>2. Watch!Becomes(a, n)
    BY <1>8
  <2>3. \A u \in Trade : u # Nothing /\ [u EXCEPT !.unheard = TRUE] \in Trade /\ [u EXCEPT !.unheard = TRUE].unheard
    BY DEF Trade, Watch!WatchAssumption
  <2>4. marked \in Trade \union {Nothing} /\ (t \in Trade => marked = [t EXCEPT !.unheard = TRUE])
    BY <2>1, <2>3
  <2>5. \A r \in f.placed : r = <<r[1], r[2]>> /\ r[1] \in Symbols /\ r[2] \in Trade /\ f.open[r[1]] = r[2]
    BY <2>1 DEF WatchInv, Carded
  <2>6. /\ open \in [Symbols -> Trade \union {Nothing}] /\ open[f.chart] = marked
        /\ \A p \in Symbols \ {f.chart} : open[p] = f.open[p]
    BY <2>1, <2>4
  <2>7. ASSUME NEW r \in f.placed
        PROVE  /\ Mark(r) \in Symbols \X Trade /\ open[Mark(r)[1]] = Mark(r)[2]
               /\ Early(Mark(r)[2]) \/ (hub.now = LastMoment(Mark(r)[2]) /\ AskedFor(Mark(r)[1], n))
    <3>1. CASE r[1] = f.chart
      <4>1. Mark(r) = <<f.chart, marked>> /\ marked \in Trade /\ marked.unheard
        BY <2>3, <2>4, <2>5, <3>1
      <4> HIDE DEF marked, Mark, open
      <4> QED BY <2>1, <2>6, <4>1 DEF Early
    <3>2. CASE r[1] # f.chart
      <4>1. Mark(r) = r
        BY <3>2
      <4> HIDE DEF marked, Mark, open
      <4> QED BY <1>6, <2>1, <2>5, <2>6, <3>2, <4>1
    <3> QED BY <3>1, <3>2
  <2> HIDE DEF Mark, open, marked
  <2>8. \A q \in placed : \E r \in f.placed : q = Mark(r)
    OBVIOUS
  <2> HIDE DEF placed
  <2>9. placed \in SUBSET (Symbols \X Trade)
    BY <2>7, <2>8
  <2>10. DOMAIN a = PageShape /\ a.open = open /\ a.placed = placed /\ a.chart = app.chart /\ a.watched = f.watched
    BY <2>1 DEF PageShape
  <2> HIDE DEF a
  <2>11. PageType(a)
    BY <2>1, <2>6, <2>9, <2>10 DEF PageType
  <2>12. Carded(a)
    BY <2>7, <2>8, <2>10 DEF Carded
  <2>13. ASSUME NEW r \in a.placed PROVE Early(r[2]) \/ (hub.now = LastMoment(r[2]) /\ AskedFor(r[1], n))
    BY <2>7, <2>8, <2>10
  <2> QED BY <1>1, <1>4, <2>2, <2>11, <2>12, <2>13, BecomesKeeps
<1> QED BY <1>2, <1>7, <1>8

\* The sweep's answer, or its failure, settles the trades of the other pairs.
LEMMA WatchSweep ==
  ASSUME Watch!WatchAssumption, WatchInv, Watch!SweepAnswered
  PROVE  WatchInv'
<1> DEFINE n == [net EXCEPT !.sweep = Nothing]
<1>1. hub' = hub /\ net.sweep # Nothing /\ net.sweep \subseteq Symbols \ {app.chart}
  BY DEF Watch!SweepAnswered, WatchInv, RequestsType
<1>2. PICK f, seen : /\ f = app \/ f \in Watch!Fewer(app)
                     /\ seen \in {Watch!Seen(net.sweep), Watch!Unseen(net.sweep)}
                     /\ Watch!Becomes(Watch!Reconciled(f, seen), n)
  BY DEF Watch!SweepAnswered, Watch!Swept
<1>3. DOMAIN n = {"sync", "sweep", "tick"} /\ n.sweep = Nothing /\ n.sync = net.sync /\ n.tick = net.tick
  BY DEF WatchInv, RequestsType
<1>4. RequestsType(n)
  BY <1>3 DEF WatchInv, RequestsType
<1> HIDE DEF n
<1>5. DOMAIN seen = net.sweep
  BY <1>2 DEF Watch!Seen, Watch!Unseen
<1>6. /\ DOMAIN f = PageShape /\ f.open = app.open /\ f.placed = app.placed /\ f.chart = app.chart
      /\ f.watched = app.watched
  BY <1>2 DEF Watch!Fewer, WatchInv, PageType, PageShape
<1>7. PageType(f) /\ Carded(f)
  BY <1>6 DEF WatchInv, PageType, Carded
<1> DEFINE b == Watch!Reconciled(f, seen)
<1>8. /\ PageType(b) /\ Carded(b) /\ b.placed \subseteq app.placed /\ b.chart = app.chart
      /\ \A r \in b.placed : r[1] \in net.sweep => hub.now < LastMoment(r[2])
  BY <1>1, <1>5, <1>6, <1>7, ReconciledIs DEF WatchInv
<1>9. Watch!Becomes(b, n)
  BY <1>2
<1> HIDE DEF b
<1>10. ASSUME NEW r \in b.placed PROVE Early(r[2]) \/ (hub.now = LastMoment(r[2]) /\ AskedFor(r[1], n))
  <2>1. CASE r[1] \in net.sweep
    BY <1>8, <2>1 DEF Early
  <2>2. CASE r[1] \notin net.sweep
    BY <1>3, <1>8, <2>2 DEF WatchInv, Timely, AskedFor
  <2> QED BY <2>1, <2>2
<1> QED BY <1>1, <1>4, <1>8, <1>9, <1>10, BecomesKeeps

\* Page b is page a with a trade placed on each of the pairs.
Places(a, b, pairs, entry) ==
  /\ pairs \subseteq Symbols /\ \A p \in pairs : a.open[p] = Nothing
  /\ entry \in {Watch!Now, Watch!Now + 1}
  /\ DOMAIN b = PageShape /\ b.chart \in Symbols /\ b.watched \subseteq Symbols
  /\ b.open = [p \in Symbols |-> IF p \in pairs THEN Watch!Placed(entry) ELSE a.open[p]]
  /\ b.placed = a.placed \cup {<<p, Watch!Placed(entry)>> : p \in pairs}

\* A trade placed gets its card and has its candle before it.
LEMMA PlacesKeeps ==
  ASSUME Watch!WatchAssumption, hub.now \in Nat, NEW a, PageType(a), Carded(a),
         NEW b, NEW new, NEW entry, Places(a, b, new, entry)
  PROVE  /\ PageType(b) /\ Carded(b)
         /\ \A r \in b.placed : r \in a.placed \/ Early(r[2])
<1> USE DEF Places
<1> DEFINE t == Watch!Placed(entry)
<1>1. Watch!Now \in Nat /\ hub.now < (Watch!Now + 1) * Candle /\ hub.now < (Watch!Now + 2) * Candle
  BY PlacedFits
<1>2. t \in Trade /\ t.entry = entry
  BY <1>1 DEF Trade, Watch!Placed
<1>3. hub.now < Watch!Expiry(t) /\ Watch!Expiry(t) \in Nat
  BY <1>1, <1>2 DEF Watch!Expiry, Watch!WatchAssumption
<1>4. Early(t)
  BY <1>3 DEF Early, LastMoment, Watch!WatchAssumption
<1> HIDE DEF t
<1>5. \A r \in a.placed : r = <<r[1], r[2]>> /\ r[1] \in Symbols /\ r[2] \in Trade /\ r[2] # Nothing /\ a.open[r[1]] = r[2]
  BY DEF PageType, Carded, Watch!WatchAssumption, Trade
<1>6. \A r \in a.placed : r[1] \notin new
  BY <1>5
<1>7. /\ \A p \in Symbols : b.open[p] = IF p \in new THEN t ELSE a.open[p]
      /\ b.placed = a.placed \cup {<<p, t>> : p \in new}
      /\ b.open \in [Symbols -> Trade \union {Nothing}]
  BY <1>2 DEF PageType, t
<1>8. \A r \in b.placed : r \in a.placed \/ (r[1] \in new /\ r[2] = t /\ r = <<r[1], t>>)
  BY <1>7
<1>9. b.placed \in SUBSET (Symbols \X Trade)
  BY <1>2, <1>5, <1>8
<1>10. \A r \in b.placed : b.open[r[1]] = r[2]
  BY <1>5, <1>6, <1>7, <1>8
<1> QED BY <1>4, <1>7, <1>8, <1>9, <1>10 DEF PageType, Carded

\* Nothing is placed, and what is asked for stays asked for.
LEMMA WatchQuiet ==
  ASSUME WatchInv, hub'.now = hub.now, DOMAIN hub' = DOMAIN hub, DOMAIN app' = PageShape,
         app'.chart = app.chart, app'.open = app.open, app'.placed = app.placed, app'.watched \subseteq Symbols,
         DOMAIN net' = {"sync", "sweep", "tick"}, net'.sync = net.sync, net'.sweep = net.sweep,
         net'.tick = Nothing \/ net'.tick \subseteq Symbols
  PROVE  WatchInv'
BY DEF WatchInv, RequestsType, PageType, Carded, Timely, Early, AskedFor, LastMoment, Watch!Expiry

\* The button. It is there when no trade is.
LEMMA WatchPress ==
  ASSUME Watch!WatchAssumption, WatchInv, Watch!Press
  PROVE  WatchInv'
<1>1. PICK chart \in IF app.chart \in Watch!WatchSymbols(app) THEN {app.chart} ELSE Watch!WatchSymbols(app),
           priced \in BOOLEAN :
        Watch!RequestSignal([app EXCEPT !.chart = chart, !.presses = app.presses + 1], priced)
  BY DEF Watch!Press
<1>2. hub' = hub /\ Watch!Trades(app) = {}
  BY DEF Watch!Press, Watch!Ready
<1> DEFINE a == [app EXCEPT !.chart = chart, !.presses = app.presses + 1]
<1>3. chart \in Symbols
  BY <1>1 DEF Watch!WatchSymbols, WatchInv, PageType
<1>4. \A p \in Symbols : app.open[p] = Nothing
  BY <1>2 DEF Watch!Trades
<1>5. app.placed = {}
  BY <1>4 DEF WatchInv, PageType, Carded, Watch!WatchAssumption, Trade
<1>6. DOMAIN a = PageShape /\ a.chart = chart /\ a.open = app.open /\ a.placed = {} /\ a.watched = app.watched
  BY <1>5 DEF WatchInv, PageType, PageShape
<1>7. Watch!RequestSignal(a, priced)
  BY <1>1
<1> HIDE DEF a
<1>8. PageType(a) /\ Carded(a)
  BY <1>3, <1>6 DEF WatchInv, PageType, Carded
<1>9. ASSUME Watch!Becomes(a, net) PROVE WatchInv'
  BY <1>2, <1>6, <1>8, <1>9, BecomesKeeps DEF WatchInv
<1>10. ASSUME Watch!Becomes([Watch!Opened(a, app.chart, Watch!NextCandle) EXCEPT !.watch = Watch!Watch(TRUE)], net)
       PROVE  WatchInv'
  <2> DEFINE t == Watch!Placed(Watch!Now + 1)
             open == [a.open EXCEPT ![app.chart] = t]
             placed == a.placed \cup {<<app.chart, t>>}
             b == [[a EXCEPT !.open = open, !.placed = placed] EXCEPT !.watch = Watch!Watch(TRUE)]
  <2>1. Watch!Becomes(b, net)
    BY <1>10 DEF Watch!Opened, Watch!NextCandle
  <2>2. app.chart \in Symbols /\ a.open[app.chart] = Nothing
    BY <1>4, <1>6 DEF WatchInv, PageType
  <2>3. open = [p \in Symbols |-> IF p \in {app.chart} THEN t ELSE a.open[p]]
    BY <1>8, <2>2 DEF PageType
  <2>4. placed = a.placed \cup {<<p, t>> : p \in {app.chart}}
    OBVIOUS
  <2> HIDE DEF open, placed, t
  <2>5. DOMAIN b = PageShape /\ b.open = open /\ b.placed = placed /\ b.chart = chart /\ b.watched = app.watched
    BY <1>6 DEF PageShape
  <2> HIDE DEF b
  <2>6. PageType(b) /\ Carded(b) /\ \A r \in b.placed : r \in a.placed \/ Early(r[2])
    <3>1. b.watched \subseteq Symbols /\ hub.now \in Nat
      BY <2>5 DEF WatchInv, PageType
    <3> DEFINE new == {app.chart}
    <3>2. /\ b.open = [p \in Symbols |-> IF p \in new THEN t ELSE a.open[p]]
          /\ b.placed = a.placed \cup {<<p, t>> : p \in new}
      BY <2>3, <2>4, <2>5
    <3>3. Places(a, b, new, Watch!Now + 1)
      BY <1>3, <2>2, <2>5, <3>1, <3>2 DEF Places, t
    <3> QED BY <1>8, <3>1, <3>3, PlacesKeeps
  <2>7. \A r \in b.placed : Early(r[2])
    BY <1>6, <2>6
  <2> QED BY <1>2, <2>1, <2>6, <2>7, BecomesKeeps DEF WatchInv
<1>11. ASSUME NEW pressed, Watch!Becomes([a EXCEPT !.pressed = pressed], Watch!TickAsked(net, a)) PROVE WatchInv'
  <2> DEFINE b == [a EXCEPT !.pressed = pressed]
             n == Watch!TickAsked(net, a)
  <2>1. Watch!Becomes(b, n)
    BY <1>11
  <2>2. DOMAIN b = PageShape /\ b.open = a.open /\ b.placed = {} /\ b.chart = chart /\ b.watched = app.watched
    BY <1>6 DEF PageShape
  <2>3. RequestsType(n)
    <3>1. Watch!WatchSymbols(a) \subseteq Symbols
      BY <1>8 DEF Watch!WatchSymbols, PageType
    <3> QED BY <3>1 DEF Watch!TickAsked, WatchInv, RequestsType
  <2> HIDE DEF b, n
  <2>4. PageType(b) /\ Carded(b)
    BY <1>8, <1>6, <2>2 DEF PageType, Carded
  <2> QED BY <1>2, <2>1, <2>2, <2>3, <2>4, BecomesKeeps
<1> QED BY <1>7, <1>9, <1>10, <1>11 DEF Watch!RequestSignal

\* A boundary: the forced account's next trade, or an evaluation of the pairs.
LEMMA WatchJudge ==
  ASSUME Watch!WatchAssumption, WatchInv, Watch!Judge
  PROVE  WatchInv'
<1>1. hub' = hub
  BY DEF Watch!Judge
<1>2. CASE Watch!Becomes([Watch!Forced(app) EXCEPT !.watch = Watch!Watch(TRUE)], net)
  <2> DEFINE t == Watch!Placed(Watch!Now + 1)
             free == app.open[app.chart] = Nothing /\ app.loaded
             new == IF free THEN {app.chart} ELSE {}
             a == Watch!Forced(app)
             b == [a EXCEPT !.watch = Watch!Watch(TRUE)]
  <2>1. Watch!Becomes(b, net)
    BY <1>2
  <2>2. /\ a = IF free THEN [app EXCEPT !.open[app.chart] = t, !.placed = app.placed \cup {<<app.chart, t>>}] ELSE app
    BY DEF Watch!Forced, Watch!Opened, Watch!NextCandle
  <2>3. /\ DOMAIN a = PageShape /\ a.chart = app.chart /\ a.watched = app.watched
        /\ a.open = [p \in Symbols |-> IF p \in new THEN t ELSE app.open[p]]
        /\ a.placed = app.placed \cup {<<p, t>> : p \in new}
    <3> HIDE DEF t, a
    <3>1. CASE free
      <4>1. a = [app EXCEPT !.open = [app.open EXCEPT ![app.chart] = t], !.placed = app.placed \cup {<<app.chart, t>>}]
        BY <2>2, <3>1
      <4>2. [app.open EXCEPT ![app.chart] = t] = [p \in Symbols |-> IF p \in new THEN t ELSE app.open[p]]
        BY <3>1 DEF WatchInv, PageType
      <4>3. app.placed \cup {<<app.chart, t>>} = app.placed \cup {<<p, t>> : p \in new}
        BY <3>1
      <4> HIDE DEF new
      <4> QED BY <4>1, <4>2, <4>3 DEF WatchInv, PageType, PageShape
    <3>2. CASE ~free
      BY <2>2, <3>2 DEF WatchInv, PageType
    <3> QED BY <3>1, <3>2
  <2>4. new \subseteq Symbols /\ \A p \in new : app.open[p] = Nothing
    BY DEF WatchInv, PageType
  <2> HIDE DEF a, new
  <2>5. DOMAIN b = PageShape /\ b.chart = app.chart /\ b.watched = app.watched /\ b.open = a.open /\ b.placed = a.placed
    BY <2>3 DEF PageShape
  <2> HIDE DEF b
  <2>6. PageType(b) /\ Carded(b) /\ \A r \in b.placed : r \in app.placed \/ Early(r[2])
    <3>1. b.watched \subseteq Symbols /\ hub.now \in Nat /\ b.chart \in Symbols /\ PageType(app) /\ Carded(app)
      BY <2>5 DEF WatchInv, PageType
    <3> HIDE DEF t
    <3>2. /\ b.open = [p \in Symbols |-> IF p \in new THEN t ELSE app.open[p]]
          /\ b.placed = app.placed \cup {<<p, t>> : p \in new}
      BY <2>3, <2>5
    <3>3. Places(app, b, new, Watch!Now + 1)
      BY <2>4, <2>5, <3>1, <3>2 DEF Places, t
    <3> QED BY <3>1, <3>3, PlacesKeeps
  <2>7. \A r \in b.placed : Early(r[2]) \/ (hub.now = LastMoment(r[2]) /\ AskedFor(r[1], net))
    BY <2>6 DEF WatchInv, Timely
  <2> QED BY <1>1, <2>1, <2>6, <2>7, BecomesKeeps DEF WatchInv
<1>3. CASE app' = [app EXCEPT !.watch = Watch!Watch(TRUE)] /\ net' = net
  <2>1. /\ DOMAIN app' = PageShape /\ app'.chart = app.chart /\ app'.open = app.open
        /\ app'.placed = app.placed /\ app'.watched = app.watched
    BY <1>3 DEF WatchInv, PageType, PageShape
  <2> QED BY <1>1, <1>3, <2>1, WatchQuiet DEF WatchInv, RequestsType, PageType
<1>4. CASE app' = app /\ net' = Watch!TickAsked(net, app)
  <2>1. Watch!WatchSymbols(app) \subseteq Symbols
    BY DEF Watch!WatchSymbols, WatchInv, PageType
  <2>2. /\ DOMAIN net' = {"sync", "sweep", "tick"} /\ net'.sync = net.sync /\ net'.sweep = net.sweep
        /\ net'.tick = Nothing \/ net'.tick \subseteq Symbols
    BY <1>4, <2>1 DEF Watch!TickAsked, WatchInv, RequestsType
  <2> QED BY <1>1, <1>4, <2>2, WatchQuiet DEF WatchInv, PageType
<1> QED BY <1>2, <1>3, <1>4 DEF Watch!Judge

\* What the user and the market do without a trade.
LEMMA WatchOthers ==
  ASSUME WatchInv,
         \/ Watch!Cancel \/ Watch!Shut
         \/ \E p \in Symbols : Watch!MarketTurns(p)
         \/ \E list \in SUBSET Symbols : Watch!ChoosePairs(list)
  PROVE  WatchInv'
<1>1. net' = net /\ hub'.now = hub.now /\ DOMAIN hub' = DOMAIN hub
  BY DEF Watch!Cancel, Watch!Shut, Watch!MarketTurns, Watch!ChoosePairs, WatchInv
<1>2. \/ \E w : app' = [app EXCEPT !.watch = w]
      \/ app' = [app EXCEPT !.switches = app.switches + 1]
      \/ \E list \in SUBSET Symbols : app' = [app EXCEPT !.watched = list, !.switches = app.switches + 1]
  BY DEF Watch!Cancel, Watch!Shut, Watch!MarketTurns, Watch!ChoosePairs
<1>3. /\ DOMAIN app' = PageShape /\ app'.chart = app.chart /\ app'.open = app.open
      /\ app'.placed = app.placed /\ app'.watched \subseteq Symbols
  BY <1>2 DEF WatchInv, PageType, PageShape
<1> QED BY <1>1, <1>3, WatchQuiet DEF WatchInv, RequestsType

LEMMA WatchSwitch ==
  ASSUME Watch!WatchAssumption, WatchInv, NEW p \in Symbols, Watch!SwitchToPair(p)
  PROVE  WatchInv'
<1> DEFINE a == [app EXCEPT !.chart = p, !.switches = app.switches + 1]
<1>1. hub' = hub /\ Watch!Becomes(a, net)
  BY DEF Watch!SwitchToPair
<1>2. DOMAIN a = PageShape /\ a.open = app.open /\ a.placed = app.placed /\ a.chart = p /\ a.watched = app.watched
  BY DEF WatchInv, PageType, PageShape
<1> HIDE DEF a
<1>3. PageType(a) /\ Carded(a)
  BY <1>2 DEF WatchInv, PageType, Carded
<1>4. \A r \in a.placed : Early(r[2]) \/ (hub.now = LastMoment(r[2]) /\ AskedFor(r[1], net))
  BY <1>2 DEF WatchInv, Timely
<1> QED BY <1>1, <1>3, <1>4, BecomesKeeps DEF WatchInv

\* The evaluation's answer: of its pairs, of the chart's, or of none.
LEMMA WatchJudged ==
  ASSUME Watch!WatchAssumption, WatchInv, Watch!Judged
  PROVE  WatchInv'
<1> DEFINE n == [net EXCEPT !.tick = Nothing]
<1>1. hub' = hub /\ net.tick \subseteq Symbols
  BY DEF Watch!Judged, WatchInv, RequestsType
<1>2. DOMAIN n = {"sync", "sweep", "tick"} /\ n.sync = net.sync /\ n.sweep = net.sweep /\ n.tick = Nothing
  BY DEF WatchInv, RequestsType
<1>3. RequestsType(n)
  BY <1>2 DEF WatchInv, RequestsType
<1>4. \/ \E b \in Watch!Applied(app, net.tick) : \E a \in Watch!Followed(app, b) : Watch!Becomes(Watch!Scheduled(a), n)
      \/ \E f \in Watch!Fewer(app) :
           \/ Watch!Becomes(Watch!Scheduled(f), n)
           \/ \E b \in Watch!Applied(f, {f.chart}) : Watch!Becomes(Watch!Scheduled(b), n)
  BY DEF Watch!Judged
<1> HIDE DEF n
<1>5. ASSUME NEW f \in Watch!Fewer(app)
      PROVE  /\ PageType(f) /\ Carded(f) /\ f.chart = app.chart /\ f.placed = app.placed
  BY DEF Watch!Fewer, WatchInv, PageType, Carded, PageShape
<1>6. ASSUME NEW r \in app.placed
      PROVE  Early(r[2]) \/ (hub.now = LastMoment(r[2]) /\ AskedFor(r[1], n))
  BY <1>2 DEF WatchInv, Timely, AskedFor
<1>7. ASSUME NEW f, PageType(f), Carded(f), f.placed = app.placed, NEW pairs \in SUBSET Symbols,
             NEW b \in Watch!Applied(f, pairs)
      PROVE  /\ PageType(b) /\ Carded(b) /\ b.chart = f.chart
             /\ \A r \in b.placed : r \in app.placed \/ Early(r[2])
  <2> DEFINE seen == Watch!Seen(pairs)
             r == Watch!Reconciled(f, seen)
             t == Watch!Placed(Watch!Now)
  <2>1. PICK new \in SUBSET (pairs \ Watch!Trades(r)) :
          b = [r EXCEPT !.open = [p \in Symbols |-> IF p \in new THEN t ELSE r.open[p]],
                        !.placed = r.placed \cup {<<p, t>> : p \in new}]
    BY DEF Watch!Applied
  <2>2. PageType(r) /\ Carded(r) /\ r.placed \subseteq app.placed /\ r.chart = f.chart
    <3>1. DOMAIN seen \subseteq Symbols /\ hub.now \in Nat
      BY DEF Watch!Seen, WatchInv
    <3> HIDE DEF seen
    <3> QED BY <1>7, <3>1, ReconciledIs
  <2>3. new \in SUBSET Symbols /\ \A p \in new : r.open[p] = Nothing
    BY <2>1, <2>2 DEF Watch!Trades, PageType
  <2> HIDE DEF r, t
  <2>4. /\ DOMAIN b = PageShape /\ b.chart = r.chart /\ b.watched = r.watched
        /\ b.open = [p \in Symbols |-> IF p \in new THEN t ELSE r.open[p]]
        /\ b.placed = r.placed \cup {<<p, t>> : p \in new}
    BY <2>1, <2>2 DEF PageType, PageShape
  <2>5. b.chart \in Symbols /\ b.watched \subseteq Symbols /\ hub.now \in Nat /\ t = Watch!Placed(Watch!Now)
    BY <2>2, <2>4 DEF WatchInv, PageType, t
  <2>6. PageType(b) /\ Carded(b) /\ \A q \in b.placed : q \in r.placed \/ Early(q[2])
    <3>1. Places(r, b, new, Watch!Now)
      BY <2>3, <2>4, <2>5 DEF Places
    <3> QED BY <2>2, <2>5, <3>1, PlacesKeeps
  <2> QED BY <2>2, <2>4, <2>6
<1>8. ASSUME NEW b, NEW a \in Watch!Followed(app, b), PageType(b), Carded(b)
      PROVE  PageType(a) /\ Carded(a) /\ a.placed = b.placed
  <2>1. a = b \/ \E p \in Symbols : a = [b EXCEPT !.chart = p]
    BY DEF Watch!Followed
  <2> QED BY <1>8, <2>1 DEF PageType, Carded, PageShape
<1>9. ASSUME NEW a, PageType(a), Carded(a), Watch!Becomes(Watch!Scheduled(a), n),
             \A r \in a.placed : r \in app.placed \/ Early(r[2])
      PROVE  WatchInv'
  <2> DEFINE b == Watch!Scheduled(a)
  <2>1. /\ DOMAIN b = PageShape /\ b.open = a.open /\ b.placed = a.placed /\ b.chart = a.chart /\ b.watched = a.watched
    BY <1>9 DEF Watch!Scheduled, PageType, PageShape
  <2> HIDE DEF b
  <2>2. PageType(b) /\ Carded(b)
    BY <1>9, <2>1 DEF PageType, Carded
  <2>3. Watch!Becomes(b, n)
    BY <1>9 DEF b
  <2> QED BY <1>1, <1>3, <1>6, <1>9, <2>1, <2>2, <2>3, BecomesKeeps
<1>10. ASSUME NEW b \in Watch!Applied(app, net.tick), NEW a \in Watch!Followed(app, b), Watch!Becomes(Watch!Scheduled(a), n)
       PROVE  WatchInv'
  <2>1. PageType(b) /\ Carded(b) /\ \A r \in b.placed : r \in app.placed \/ Early(r[2])
    BY <1>1, <1>7 DEF WatchInv
  <2> QED BY <1>8, <1>9, <1>10, <2>1
<1>11. ASSUME NEW f \in Watch!Fewer(app), Watch!Becomes(Watch!Scheduled(f), n)
       PROVE  WatchInv'
  BY <1>5, <1>9, <1>11
<1>12. ASSUME NEW f \in Watch!Fewer(app), NEW b \in Watch!Applied(f, {f.chart}), Watch!Becomes(Watch!Scheduled(b), n)
       PROVE  WatchInv'
  <2>1. {f.chart} \in SUBSET Symbols
    BY <1>5 DEF PageType
  <2>2. PageType(b) /\ Carded(b) /\ \A r \in b.placed : r \in app.placed \/ Early(r[2])
    BY <1>5, <1>7, <2>1
  <2> QED BY <1>9, <1>12, <2>2
<1> QED BY <1>4, <1>10, <1>11, <1>12

\* A tick: what was asked for has come, and everything is asked for again.
LEMMA WatchTick ==
  ASSUME Watch!WatchAssumption, WatchInv, Watch!Tick
  PROVE  WatchInv'
<1> DEFINE strays == Watch!Strays(app)
           sweep == IF strays = {} THEN Nothing ELSE strays
<1>1. net.sync = Nothing /\ net.sweep = Nothing /\ app' = app
  BY DEF Watch!Tick
<1>2. hub'.now = hub.now + 1 /\ DOMAIN hub' = {"now", "candles", "shut", "mute"}
  BY DEF Watch!Tick, WatchInv
<1>3. net' = [net EXCEPT !.sync = {app.chart}, !.sweep = sweep]
  BY DEF Watch!Tick, Watch!Asks
<1>4. strays \subseteq Symbols \ {app.chart}
  BY DEF Watch!Strays, Watch!Trades
<1>5. \A r \in app.placed : /\ r[1] \in Symbols /\ r[2] \in Trade /\ r[2] # Nothing
                            /\ r[1] # app.chart => r[1] \in strays
  BY DEF WatchInv, PageType, Carded, Watch!WatchAssumption, Trade, Watch!Strays, Watch!Trades
<1> HIDE DEF strays
<1>6. {app.chart} # Nothing /\ (strays # {} => strays # Nothing)
  BY <1>4 DEF WatchInv, PageType, Watch!WatchAssumption
<1>7. DOMAIN net' = {"sync", "sweep", "tick"} /\ net'.sync = {app.chart} /\ net'.sweep = sweep /\ net'.tick = net.tick
  BY <1>3 DEF WatchInv, RequestsType
<1>8. RequestsType(net)'
  BY <1>1, <1>4, <1>7 DEF WatchInv, RequestsType
<1>9. ASSUME NEW r \in app.placed
      PROVE  r[2].unheard \/ hub.now + 1 < LastMoment(r[2])
             \/ (hub.now + 1 = LastMoment(r[2])
                 /\ IF r[1] = app.chart THEN {app.chart} # Nothing ELSE sweep # Nothing /\ r[1] \in sweep)
  <2>1. r[2].unheard \/ hub.now < LastMoment(r[2])
    BY <1>1 DEF WatchInv, Timely, AskedFor, Early
  <2>2. LastMoment(r[2]) \in Nat /\ hub.now \in Nat
    BY <1>5 DEF LastMoment, Watch!Expiry, Watch!WatchAssumption, Trade, WatchInv
  <2> QED BY <1>5, <1>6, <2>1, <2>2
<1> HIDE DEF sweep
<1>10. (\A r \in app.placed : Timely(r, net))'
  BY <1>1, <1>2, <1>7, <1>9 DEF Timely, Early, AskedFor, LastMoment, Watch!Expiry
<1> QED BY <1>1, <1>2, <1>8, <1>10 DEF WatchInv, PageType, Carded

LEMMA WatchInit == Watch!Init => WatchInv
<1> SUFFICES ASSUME Watch!Init PROVE WatchInv
  OBVIOUS
<1>1. PICK forced \in BOOLEAN, chart \in Symbols, list \in SUBSET Symbols :
        app = [forced |-> forced, chart |-> chart, watched |-> list, loaded |-> FALSE,
               open |-> [p \in Symbols |-> Nothing], placed |-> {}, watch |-> [active |-> FALSE, next |-> 0],
               pressed |-> FALSE, switches |-> 0, presses |-> 0, failures |-> 0]
  BY DEF Watch!Init
<1>2. PageType(app) /\ Carded(app) /\ app.placed = {}
  BY <1>1 DEF PageType, PageShape, Carded
<1>3. RequestsType(net) /\ DOMAIN hub = {"now", "candles", "shut", "mute"} /\ hub.now \in Nat
  BY DEF Watch!Init, RequestsType
<1> QED BY <1>2, <1>3 DEF WatchInv

LEMMA WatchNext == Watch!WatchAssumption /\ WatchInv /\ Watch!Next => WatchInv'
BY WatchSync, WatchSweep, WatchPress, WatchOthers, WatchJudge, WatchJudged, WatchTick, WatchSwitch DEF Watch!Next

LEMMA WatchSays == Watch!WatchAssumption /\ WatchInv => Watch!EveryTradeEnds
<1> SUFFICES ASSUME Watch!WatchAssumption, WatchInv, NEW r \in app.placed
             PROVE  app.open[r[1]] = r[2] /\ (hub.now <= Watch!Expiry(r[2]) + Stranded \/ r[2].unheard)
  BY DEF Watch!EveryTradeEnds
<1>1. hub.now \in Nat /\ Watch!Expiry(r[2]) \in Nat
  BY DEF WatchInv, PageType, Trade, Watch!Expiry, Watch!WatchAssumption
<1> QED BY <1>1 DEF WatchInv, Carded, Timely, Early, LastMoment, Watch!WatchAssumption

-------------------------------------------------------------------------------
(* The candles                                                                   *)


\* The sizes of sets that the candle feed speaks of are sizes.
LEMMA SameCardinality == ASSUME NEW S PROVE Candles!Cardinality(S) = Cardinality(S)
BY DEF Cardinality, Candles!Cardinality

\* Of candles a .. n the last m are kept.
LEMMA TailIs ==
  ASSUME NEW a \in Nat, NEW n \in Nat, NEW m \in Nat, NEW w, DOMAIN w = a .. n
  PROVE  LET v == Candles!Tail_(w, m)
         IN  /\ v = [k \in DOMAIN v |-> w[k]]
             /\ \A k : k \in DOMAIN v <=> k \in a .. n /\ n - k < m
<1> DEFINE kept == {j \in DOMAIN w : Candles!Later(w, j) < m}
           v == Candles!Tail_(w, m)
<1>1. ASSUME NEW j \in a .. n PROVE Candles!Later(w, j) = n - j
  <2> DEFINE later == {i \in DOMAIN w : i > j}
  <2>1. later = j + 1 .. n
    OBVIOUS
  <2>2. Cardinality(j + 1 .. n) = IF j + 1 > n THEN 0 ELSE n - (j + 1) + 1
    BY FS_Interval
  <2>3. Candles!Later(w, j) = Cardinality(later)
    BY SameCardinality DEF Candles!Later
  <2> HIDE DEF later
  <2> QED BY <2>1, <2>2, <2>3
<1>2. v = [k \in kept |-> w[k]]
  BY DEF Candles!Tail_
<1>3. \A k : k \in kept <=> k \in a .. n /\ n - k < m
  BY <1>1
<1> HIDE DEF kept, v
<1>4. DOMAIN v = kept
  BY <1>2
<1> QED BY <1>2, <1>3, <1>4 DEF v

\* Whatever is held, the newest stays.
HasNewest(w) == DOMAIN w \subseteq Nat /\ \E k \in DOMAIN w : \A j \in DOMAIN w : j <= k

LEMMA TailHasNewest ==
  ASSUME NEW w, HasNewest(w), NEW m \in Nat \ {0}
  PROVE  HasNewest(Candles!Tail_(w, m))
<1> DEFINE kept == {j \in DOMAIN w : Candles!Later(w, j) < m}
           v == Candles!Tail_(w, m)
<1>1. v = [k \in kept |-> w[k]]
  BY DEF Candles!Tail_
<1>2. PICK k \in DOMAIN w : \A j \in DOMAIN w : j <= k
  BY DEF HasNewest
<1>3. Candles!Later(w, k) = 0
  <2> DEFINE later == {i \in DOMAIN w : i > k}
  <2>1. later = {}
    BY <1>2 DEF HasNewest
  <2>2. Candles!Later(w, k) = Cardinality(later)
    BY SameCardinality DEF Candles!Later
  <2> HIDE DEF later
  <2> QED BY <2>1, <2>2, FS_EmptySet
<1>4. k \in kept /\ kept \subseteq DOMAIN w
  BY <1>3
<1> HIDE DEF kept, v
<1>5. HasNewest(v)
  BY <1>1, <1>2, <1>4 DEF HasNewest
<1> QED BY <1>5 DEF v

\* The candle that forms at a moment, what the server holds then, and what is in it.
Last(t) == t \div Period
Held(t) == {k \in 0 .. Last(t) : Last(t) - k < MaxWindow}
Price(t, k) == IF k = Last(t) THEN t ELSE (k + 1) * Period - 1
ServerHas(t) == [k \in Held(t) |-> Price(t, k)]

LEMMA WindowIs ==
  ASSUME Candles!CandleAssumption, NEW t \in Nat
  PROVE  /\ Candles!Window(t) = ServerHas(t) /\ DOMAIN ServerHas(t) = Held(t)
         /\ Last(t) \in Held(t) /\ Last(t) \in Nat /\ \A j \in Held(t) : j \in Nat /\ j <= Last(t)
         /\ HasNewest(ServerHas(t)) /\ Candles!Newest(ServerHas(t)) = Last(t)
<1> DEFINE n == t \div Period
           w == [k \in 0 .. n |-> IF k = n THEN t ELSE (k + 1) * Period - 1]
           v == Candles!Window(t)
<1>1. n \in Nat /\ MaxWindow \in Nat /\ MaxWindow > 0
  BY DEF Candles!CandleAssumption
<1>2. v = Candles!Tail_(w, MaxWindow)
  BY DEF Candles!Window
<1> HIDE DEF n
<1>3. DOMAIN w = 0 .. n /\ \A k \in 0 .. n : w[k] = IF k = n THEN t ELSE (k + 1) * Period - 1
  OBVIOUS
<1> HIDE DEF w, v
<1>4. v = [k \in DOMAIN v |-> w[k]] /\ \A k : k \in DOMAIN v <=> k \in 0 .. n /\ n - k < MaxWindow
  BY <1>1, <1>2, <1>3, TailIs
<1>5. Last(t) = n
  BY DEF Last, n
<1>6. DOMAIN v = Held(t)
  BY <1>4, <1>5 DEF Held
<1>7. \A k \in Held(t) : v[k] = Price(t, k)
  BY <1>3, <1>4, <1>5, <1>6 DEF Held, Price
<1>8. v = [k \in Held(t) |-> Price(t, k)]
  BY <1>4, <1>6, <1>7
<1>9. n \in Held(t) /\ \A j \in Held(t) : j \in Nat /\ j <= n
  BY <1>1, <1>5 DEF Held
<1>10. HasNewest(v)
  BY <1>6, <1>9 DEF HasNewest
<1>11. v # Candles!NoCandles
  BY <1>6, <1>9 DEF Candles!NoCandles
<1>12. (CHOOSE k \in Held(t) : \A j \in Held(t) : j <= k) = n
  <2>1. \A k \in Held(t) : (\A j \in Held(t) : j <= k) <=> k = n
    BY <1>1, <1>9
  <2> QED BY <1>9, <2>1
<1>13. Candles!Newest(v) = n
  BY <1>6, <1>11, <1>12 DEF Candles!Newest
<1> QED BY <1>1, <1>5, <1>6, <1>8, <1>9, <1>10, <1>13 DEF v, ServerHas

\* The candles of a moment from one of them on.
From(t, k) == [j \in {i \in Held(t) : i >= k} |-> Price(t, j)]

LEMMA ReplyIs ==
  ASSUME Candles!CandleAssumption, NEW t \in Nat, NEW since
  PROVE  LET reply == Candles!Reply(since, t)
         IN  /\ HasNewest(reply.candles)
             /\ reply.full => reply.candles = ServerHas(t)
             /\ ~reply.full => since \in Held(t) /\ reply.candles = From(t, since)
<1> DEFINE w == Candles!Window(t)
           full == since = None \/ since \notin DOMAIN w
           candles == IF full THEN w ELSE [k \in {j \in DOMAIN w : j >= since} |-> w[k]]
           reply == Candles!Reply(since, t)
<1>1. reply = [full |-> full, candles |-> candles]
  BY DEF Candles!Reply
<1>2. /\ w = ServerHas(t) /\ DOMAIN w = Held(t) /\ Last(t) \in Held(t) /\ HasNewest(w)
      /\ \A j \in Held(t) : j \in Nat /\ j <= Last(t)
  BY WindowIs
<1> HIDE DEF w
<1>3. CASE full
  <2>1. candles = w
    BY <1>3
  <2> HIDE DEF candles
  <2>2. reply.candles = candles /\ reply.full = full
    BY <1>1
  <2> QED BY <1>2, <1>3, <2>1, <2>2
<1>4. CASE ~full
  <2>1. since \in Held(t) /\ candles = [k \in {j \in DOMAIN w : j >= since} |-> w[k]]
    BY <1>2, <1>4
  <2> DEFINE later == {j \in Held(t) : j >= since}
  <2>2. candles = [k \in later |-> w[k]]
    BY <1>2, <2>1
  <2>3. \A k \in later : w[k] = Price(t, k)
    BY <1>2 DEF ServerHas
  <2>4. [k \in later |-> w[k]] = [k \in later |-> Price(t, k)]
    BY <2>3
  <2>5. candles = From(t, since)
    BY <2>2, <2>4 DEF From
  <2>6. Last(t) \in later /\ \A j \in later : j \in Nat /\ j <= Last(t)
    BY <1>2, <2>1
  <2>7. DOMAIN candles = later
    BY <2>2
  <2> HIDE DEF later, candles
  <2>8. HasNewest(candles)
    BY <2>6, <2>7 DEF HasNewest
  <2>9. reply.candles = candles /\ reply.full = full
    BY <1>1
  <2> QED BY <1>4, <2>1, <2>5, <2>8, <2>9
<1> QED BY <1>3, <1>4

\* The later candles replace and extend the earlier ones, and what rolls off is what
\* has rolled off at the server.
LEMMA MergeIs ==
  ASSUME Candles!CandleAssumption, NEW t1 \in Nat, NEW t \in Nat, Last(t1) \in Held(t)
  PROVE  Candles!MergeWindow(ServerHas(t1), From(t, Last(t1))) = ServerHas(t)
<1> DEFINE n == Last(t)
           n1 == Last(t1)
           m == MaxWindow
           first == IF n1 < m THEN 0 ELSE n1 - m + 1
           held == ServerHas(t1)
           delta == From(t, n1)
           w == [k \in DOMAIN held \union DOMAIN delta |-> IF k \in DOMAIN delta THEN delta[k] ELSE held[k]]
           v == Candles!Tail_(w, m)
<1>1. /\ n \in Nat /\ n1 \in Nat /\ m \in Nat /\ m > 0 /\ n1 \in Held(t) /\ n1 <= n /\ n - n1 < m
      /\ DOMAIN held = Held(t1)
  <2>1. n \in Nat /\ n1 \in Nat /\ DOMAIN held = Held(t1)
    BY WindowIs
  <2>2. n1 <= n /\ n - n1 < m
    BY <2>1 DEF Held
  <2> QED BY <2>1, <2>2 DEF Candles!CandleAssumption
<1>2. DOMAIN delta = {i \in Held(t) : i >= n1}
  BY DEF From
<1>3. \A k : k \in DOMAIN held <=> k \in first .. n1
  BY <1>1 DEF Held
<1>4. \A k : k \in DOMAIN delta <=> k \in n1 .. n
  BY <1>1, <1>2 DEF Held
<1>5. \A k \in first .. n1 : held[k] = Price(t1, k)
  BY <1>1, <1>3 DEF ServerHas
<1>6. \A k \in n1 .. n : delta[k] = Price(t, k)
  BY <1>2, <1>4 DEF From
<1>7. first \in Nat /\ first <= n1
  BY <1>1
<1>8. \A k \in first .. n : n1 <= k \/ (k < n1 /\ Price(t1, k) = Price(t, k))
  BY <1>1, <1>7 DEF Price
<1> HIDE DEF n, n1, held, delta
<1>9. DOMAIN w = first .. n
  <2>1. DOMAIN w = DOMAIN held \union DOMAIN delta
    OBVIOUS
  <2> HIDE DEF w
  <2>2. \A k : k \in DOMAIN w <=> k \in first .. n
    BY <1>1, <1>3, <1>4, <1>7, <2>1
  <2> QED BY <2>2
<1>10. ASSUME NEW k \in first .. n PROVE w[k] = Price(t, k)
  <2>1. w[k] = IF k \in DOMAIN delta THEN delta[k] ELSE held[k]
    BY <1>3, <1>4, <1>9
  <2>2. CASE n1 <= k
    BY <1>1, <1>4, <1>6, <1>7, <2>1, <2>2
  <2>3. CASE k < n1
    BY <1>1, <1>4, <1>5, <1>7, <1>8, <2>1, <2>3
  <2> QED BY <1>1, <1>7, <2>2, <2>3
<1> HIDE DEF w, first
<1>11. v = [k \in DOMAIN v |-> w[k]] /\ \A k : k \in DOMAIN v <=> k \in first .. n /\ n - k < m
  BY <1>1, <1>7, <1>9, TailIs
<1>12. \A k : k \in Held(t) <=> k \in first .. n /\ n - k < m
  BY <1>1 DEF Held, n, first
<1> HIDE DEF v
<1>13. DOMAIN v = Held(t)
  BY <1>11, <1>12
<1>14. \A k \in Held(t) : v[k] = Price(t, k)
  BY <1>10, <1>11, <1>12, <1>13
<1>15. v = ServerHas(t)
  BY <1>11, <1>13, <1>14 DEF ServerHas
<1>16. Candles!MergeWindow(held, delta) = v
  BY DEF Candles!MergeWindow, v, w
<1> QED BY <1>15, <1>16 DEF held, delta, n1

LEMMA MergeHasNewest ==
  ASSUME Candles!CandleAssumption, NEW held, HasNewest(held), NEW delta, HasNewest(delta)
  PROVE  HasNewest(Candles!MergeWindow(held, delta))
<1> DEFINE w == [k \in DOMAIN held \union DOMAIN delta |-> IF k \in DOMAIN delta THEN delta[k] ELSE held[k]]
<1>1. HasNewest(w)
  <2>1. PICK a \in DOMAIN held : \A j \in DOMAIN held : j <= a
    BY DEF HasNewest
  <2>2. PICK b \in DOMAIN delta : \A j \in DOMAIN delta : j <= b
    BY DEF HasNewest
  <2>3. DOMAIN w = DOMAIN held \union DOMAIN delta /\ DOMAIN w \subseteq Nat
    BY DEF HasNewest
  <2> HIDE DEF w
  <2>4. CASE a <= b
    BY <2>1, <2>2, <2>3, <2>4 DEF HasNewest
  <2>5. CASE ~(a <= b)
    BY <2>1, <2>2, <2>3, <2>5 DEF HasNewest
  <2> QED BY <2>4, <2>5
<1>2. Candles!MergeWindow(held, delta) = Candles!Tail_(w, MaxWindow)
  BY DEF Candles!MergeWindow
<1> HIDE DEF w
<1> QED BY <1>1, <1>2, TailHasNewest DEF Candles!CandleAssumption

\* What is held is nothing or has a newest candle; when every step that made it was
\* pure, it is what the server had at some moment so far.
WasServers(held) == \E t \in 0 .. hub.now : held = ServerHas(t)
NoneHeld == Candles!NoCandles
RequestType(q) ==
  /\ q.since = Candles!Newest(q.held)
  /\ q.held = NoneHeld \/ HasNewest(q.held)
  /\ q.pure /\ q.held # NoneHeld => WasServers(q.held)
CandleInv ==
  /\ DOMAIN hub = {"now"} /\ hub.now \in Nat /\ DOMAIN app = {"held", "pure"}
  /\ app.held = NoneHeld \/ HasNewest(app.held)
  /\ app.pure /\ app.held # NoneHeld => WasServers(app.held)
  /\ \A q \in net : RequestType(q) /\ (q.held # NoneHeld => app.held # NoneHeld)

LEMMA CandleInit == Candles!Init => CandleInv
BY DEF Candles!Init, CandleInv, NoneHeld

LEMMA CandleReceive ==
  ASSUME Candles!CandleAssumption, CandleInv, NEW q \in net, Candles!Receive(q)
  PROVE  CandleInv'
<1> DEFINE onto == Candles!MergedOnto(q)
<1>1. net' = net \ {q} /\ hub' = hub
  BY DEF Candles!Receive
<1>2. PICK reply \in Candles!EdgeAnswers(q.kind, q.since) :
        app' = [held |-> IF reply.full \/ onto = NoneHeld THEN reply.candles
                         ELSE Candles!MergeWindow(onto, reply.candles),
                pure |-> reply.full \/ onto = NoneHeld \/ Candles!MergedPurely(q)]
  BY DEF Candles!Receive, NoneHeld
<1>3. PICK t \in 0 .. hub.now : reply = Candles!Reply(q.since, t)
  BY DEF Candles!EdgeAnswers, Candles!Fresh, Candles!ServedStale, Candles!LastResort, Candles!Asked, CandleInv
<1>4. t \in Nat /\ RequestType(q)
  BY DEF CandleInv
<1>5. /\ HasNewest(reply.candles)
      /\ reply.full => reply.candles = ServerHas(t)
      /\ ~reply.full => q.since \in Held(t) /\ reply.candles = From(t, q.since)
      /\ q.since = None => reply.full
  <2>1. q.since = None => reply.full
    BY <1>3 DEF Candles!Reply
  <2> QED BY <1>3, <1>4, <2>1, ReplyIs
<1>6. onto = NoneHeld \/ HasNewest(onto)
  BY <1>4 DEF CandleInv, RequestType, Candles!MergedOnto
<1>7. onto = NoneHeld => q.held = NoneHeld
  BY DEF CandleInv, Candles!MergedOnto
<1>8. q.held = NoneHeld => q.since = None
  BY <1>4 DEF RequestType, Candles!Newest, NoneHeld
<1>9. Candles!MergedPurely(q) => onto = q.held /\ (onto # NoneHeld => WasServers(onto))
  BY <1>4 DEF CandleInv, RequestType, Candles!MergedOnto, Candles!MergedPurely
<1>10. \A w : HasNewest(w) => w # NoneHeld
  BY DEF HasNewest, NoneHeld, Candles!NoCandles
<1> HIDE DEF onto
<1>11. CASE reply.full \/ onto = NoneHeld
  <2>1. app'.held = reply.candles /\ DOMAIN app' = {"held", "pure"} /\ reply.full
    BY <1>2, <1>5, <1>7, <1>8, <1>11
  <2>2. WasServers(app'.held) /\ HasNewest(app'.held) /\ app'.held # NoneHeld
    BY <1>5, <1>10, <2>1 DEF WasServers
  <2> QED BY <1>1, <2>1, <2>2 DEF CandleInv, RequestType, WasServers
<1>12. CASE ~(reply.full \/ onto = NoneHeld)
  <2> DEFINE merged == Candles!MergeWindow(onto, reply.candles)
  <2>1. /\ app'.held = merged /\ DOMAIN app' = {"held", "pure"}
        /\ app'.pure <=> Candles!MergedPurely(q)
    BY <1>2, <1>12
  <2>2. HasNewest(merged)
    BY <1>5, <1>6, <1>12, MergeHasNewest
  <2>3. ASSUME Candles!MergedPurely(q) PROVE merged = ServerHas(t)
    <3>1. PICK t1 \in 0 .. hub.now : onto = ServerHas(t1)
      BY <1>9, <1>12, <2>3 DEF WasServers
    <3>2. t1 \in Nat /\ q.since = Last(t1)
      BY <1>4, <1>9, <2>3, <3>1, WindowIs DEF RequestType, CandleInv
    <3>3. Last(t1) \in Held(t) /\ reply.candles = From(t, Last(t1))
      BY <1>5, <1>12, <3>2
    <3> QED BY <1>4, <3>1, <3>2, <3>3, MergeIs
  <2> HIDE DEF merged
  <2>4. app'.held # NoneHeld /\ HasNewest(app'.held) /\ (app'.pure => WasServers(app'.held))
    BY <1>10, <2>1, <2>2, <2>3 DEF WasServers
  <2> QED BY <1>1, <2>1, <2>4 DEF CandleInv, RequestType, WasServers
<1> QED BY <1>11, <1>12

LEMMA CandleNext == Candles!CandleAssumption /\ CandleInv /\ Candles!Next => CandleInv'
<1> SUFFICES ASSUME Candles!CandleAssumption, CandleInv, Candles!Next PROVE CandleInv'
  OBVIOUS
<1>1. CASE Candles!Tick
  <2>1. hub'.now = hub.now + 1 /\ DOMAIN hub' = {"now"} /\ net' = net /\ app' = app
    BY <1>1 DEF Candles!Tick, CandleInv
  <2>2. hub.now \in Nat /\ \A w : WasServers(w) => \E t \in 0 .. hub.now + 1 : w = ServerHas(t)
    BY DEF WasServers, CandleInv
  <2> QED BY <2>1, <2>2 DEF CandleInv, RequestType, WasServers
<1>2. ASSUME NEW kind \in Candles!Kinds, Candles!Ask(kind) PROVE CandleInv'
  <2> DEFINE q == [kind |-> kind, since |-> Candles!Newest(app.held), held |-> app.held,
                   pure |-> app.pure, born |-> hub.now]
  <2>1. net' = net \union {q} /\ hub' = hub /\ app' = app
    BY <1>2 DEF Candles!Ask
  <2>2. q.since = Candles!Newest(app.held) /\ q.held = app.held /\ q.pure = app.pure
    OBVIOUS
  <2> HIDE DEF q
  <2> QED BY <2>1, <2>2 DEF CandleInv, RequestType, WasServers
<1>3. ASSUME NEW q \in net, Candles!Fail(q) PROVE CandleInv'
  BY <1>3 DEF Candles!Fail, CandleInv, RequestType, WasServers
<1>4. ASSUME NEW q \in net, Candles!Receive(q) PROVE CandleInv'
  BY <1>4, CandleReceive
<1> QED BY <1>1, <1>2, <1>3, <1>4 DEF Candles!Next

LEMMA CandleSays == Candles!CandleAssumption /\ CandleInv => Candles!WindowIsTheServers
<1> SUFFICES ASSUME Candles!CandleAssumption, CandleInv, app.held # NoneHeld, app.pure
             PROVE  \E t \in 0 .. hub.now : app.held = Candles!Window(t)
  BY DEF Candles!WindowIsTheServers, NoneHeld
<1>1. PICK t \in 0 .. hub.now : app.held = ServerHas(t)
  BY DEF CandleInv, WasServers
<1>2. t \in Nat
  BY DEF CandleInv
<1> QED BY <1>1, <1>2, WindowIs

-------------------------------------------------------------------------------
(* The rows                                                                      *)

News == [row : Rows!Rows, ids : SUBSET ({Row[r] : r \in Rows!Rows} \union OtherIds), nth : Nat]
\* A read holds an answer of its row's past, or none yet.
Reading(q) ==
  /\ DOMAIN q = {"row", "got", "nth"} /\ q.row \in Rows!Rows
  /\ q.got # Unanswered => q.got \in Nat /\ q.got <= hub.ver[q.row]

HubRows ==
  /\ DOMAIN hub = {"ver", "out", "writes", "drops"}
  /\ hub.ver \in [Rows!Rows -> Nat] /\ hub.out \subseteq News /\ hub.writes \in Nat
NetRows ==
  /\ DOMAIN net = {"up", "inbox", "reads"} /\ net.inbox \in Seq(News)
  /\ \A q \in net.reads : Reading(q)
AppRows ==
  /\ DOMAIN app = {"sock", "ever", "wired", "on", "view", "cache", "excused"}
  /\ Rows!Listening \subseteq Rows!Rows /\ DOMAIN app.view = Rows!Rows

\* The screen of the configuration shows what the page keeps of it, for whoever
\* listens to it.
Shown ==
  /\ "configs" \in app.on => app.wired /\ app.view["configs"] = app.cache
  /\ "configs" \in Rows!Rows \ app.on => app.view["configs"] = Blank
Kept ==
  /\ Shown
  /\ app.cache # Blank => app.wired
  /\ \A q \in net.reads : q.row = "configs" => app.wired

\* What a listener holds is the row's content, or something is going to renew it.
Coming(r) == \E q \in net.reads : q.row = r /\ q.got \in {Unanswered, hub.ver[r]}
Nudged(r) ==
  \/ \E p \in hub.out : r \in Rows!About(p)
  \/ \E i \in 1 .. Len(net.inbox) : r \in Rows!About(net.inbox[i])
ToReopen == app.ever /\ (app.sock # "open" \/ ~net.up)
Accounted(r) ==
  Rows!Held(r) = hub.ver[r] \/ r \in app.excused \/ Coming(r) \/ Nudged(r) \/ ToReopen

RowsType == HubRows /\ NetRows /\ AppRows
RowsInv == RowsType /\ Kept /\ \A r \in Rows!Listening : Accounted(r)

LEMMA RowsInit == ASSUME Rows!Init PROVE RowsInv
<1>1. PICK rows \in Screens :
        /\ hub = [ver |-> [r \in rows |-> 1], out |-> {}, writes |-> 0, drops |-> 0]
        /\ app = [sock |-> "none", ever |-> FALSE, wired |-> FALSE, on |-> {}, excused |-> {},
                  view |-> [r \in rows |-> Blank], cache |-> Blank]
  BY DEF Rows!Init
<1>2. net = [up |-> FALSE, inbox |-> <<>>, reads |-> {}]
  BY DEF Rows!Init
<1>3. RowsType
  BY <1>1, <1>2 DEF RowsType, HubRows, NetRows, AppRows, Rows!Rows, Rows!Listening
<1>4. Kept /\ Rows!Listening = {}
  BY <1>1, <1>2 DEF Kept, Shown, Rows!Rows, Rows!Listening
<1> QED BY <1>3, <1>4 DEF RowsInv

\* The hub writes a row.
LEMMA WriteRows ==
  ASSUME RowsInv, NEW r \in Rows!Rows, NEW ids \in SUBSET ({Row[r]} \union OtherIds), Rows!Write(r, ids)
  PROVE  RowsInv'
<1> USE DEF RowsInv, RowsType
<1>1. PICK named \in Rows!Named(ids) :
        LET p == [row |-> r, ids |-> named, nth |-> hub.writes]
        IN  /\ hub' = [hub EXCEPT !.ver[r] = @ + (IF Row[r] \in ids THEN 1 ELSE 0),
                                  !.writes = @ + 1, !.out = @ \union {p}]
            /\ Rows!Excuse(Rows!About([p EXCEPT !.ids = ids]) \ Rows!About(p))
  BY DEF Rows!Write
<1> DEFINE p == [row |-> r, ids |-> named, nth |-> hub.writes]
           all == [row |-> r, ids |-> ids, nth |-> hub.writes]
           new == IF Row[r] \in ids THEN 1 ELSE 0
<1>2. named \subseteq ids /\ new \in Nat
  BY DEF Rows!Named
<1>3. p \in News
  BY <1>2 DEF HubRows, News
<1>4. /\ DOMAIN hub' = DOMAIN hub /\ hub'.out = hub.out \union {p} /\ hub'.writes = hub.writes + 1
      /\ DOMAIN hub'.ver = DOMAIN hub.ver
      /\ \A x \in Rows!Rows : hub'.ver[x] = IF x = r THEN hub.ver[r] + new ELSE hub.ver[x]
      /\ hub'.ver = [x \in Rows!Rows |-> hub'.ver[x]]
  BY <1>1 DEF HubRows, Rows!Rows
<1>5. /\ DOMAIN app' = DOMAIN app /\ app'.sock = app.sock /\ app'.ever = app.ever /\ app'.wired = app.wired
      /\ app'.on = app.on /\ app'.view = app.view /\ app'.cache = app.cache
      /\ app'.excused = app.excused \union (Rows!About(all) \ Rows!About(p))
  <2>1. all = [p EXCEPT !.ids = ids]
    OBVIOUS
  <2> QED BY <1>1, <2>1 DEF AppRows, Rows!Excuse
<1>6. net' = net
  BY DEF Rows!Write
<1> HIDE DEF p, all, new
<1>7. RowsType'
  <2>1. Rows!Rows' = Rows!Rows /\ News' = News
    BY <1>4 DEF Rows!Rows, News
  <2>2. HubRows'
    BY <1>2, <1>3, <1>4, <2>1 DEF HubRows
  <2>3. ASSUME NEW q \in net.reads PROVE Reading(q)'
    BY <1>2, <1>4, <2>1 DEF Reading, NetRows, HubRows
  <2>4. NetRows' /\ AppRows'
    BY <1>5, <1>6, <2>1, <2>3 DEF NetRows, AppRows, Rows!Listening
  <2> QED BY <2>2, <2>4
<1>8. Kept'
  BY <1>4, <1>5, <1>6 DEF Kept, Shown, Rows!Rows
<1>9. ASSUME NEW x \in Rows!Listening PROVE Accounted(x)'
  <2>1. Accounted(x) /\ Rows!Held(x)' = Rows!Held(x)
    BY <1>5, <1>9 DEF Rows!Held
  <2>2. hub'.ver[x] = hub.ver[x] => Accounted(x)'
    BY <1>4, <1>5, <1>6, <2>1 DEF Accounted, Coming, Nudged, ToReopen
  <2>3. hub'.ver[x] # hub.ver[x] => x = r /\ Row[r] \in ids
    BY <1>4 DEF AppRows, HubRows, new
  <2>4. ASSUME x = r, Row[r] \in ids PROVE Accounted(x)'
    <3>1. x \in Rows!About(all)
      BY <2>4 DEF Rows!About, all
    <3> QED BY <1>4, <1>5, <3>1 DEF Accounted, Nudged
  <2> QED BY <2>2, <2>3, <2>4
<1>10. Rows!Listening' = Rows!Listening
  BY <1>5 DEF Rows!Listening
<1> QED BY <1>7, <1>8, <1>9, <1>10

\* The hub tells, or fails to.
LEMMA PublishRows ==
  ASSUME RowsInv, NEW p \in hub.out, Rows!Publish(p) \/ Rows!LosePublish(p)
  PROVE  RowsInv'
<1> USE DEF RowsInv, RowsType
<1>1. p \in News
  BY DEF HubRows
<1>2. /\ DOMAIN hub' = DOMAIN hub /\ hub'.out = hub.out \ {p} /\ hub'.writes = hub.writes
      /\ hub'.ver = hub.ver
  BY DEF HubRows, Rows!Publish, Rows!LosePublish
<1>3. /\ DOMAIN app' = DOMAIN app /\ app'.sock = app.sock /\ app'.ever = app.ever /\ app'.wired = app.wired
      /\ app'.on = app.on /\ app'.view = app.view /\ app'.cache = app.cache
      /\ app.excused \subseteq app'.excused
  BY DEF AppRows, Rows!Excuse, Rows!Publish, Rows!LosePublish
<1>4. /\ DOMAIN net' = DOMAIN net /\ net'.up = net.up /\ net'.reads = net.reads
      /\ net'.inbox \in {net.inbox, Append(net.inbox, p)}
  BY DEF NetRows, Rows!Publish, Rows!LosePublish
<1>5. \/ net'.inbox = Append(net.inbox, p)
      \/ Rows!About(p) \subseteq app'.excused
      \/ app'.ever /\ ~net'.up
  <2>1. CASE Rows!LosePublish(p)
    BY <2>1 DEF AppRows, Rows!Excuse, Rows!LosePublish
  <2>2. CASE Rows!Publish(p)
    BY <1>3, <1>4, <2>2 DEF NetRows, AppRows, Rows!Excuse, Rows!Publish
  <2> QED BY <2>1, <2>2
<1>6. Rows!Rows' = Rows!Rows /\ News' = News /\ Rows!Listening' = Rows!Listening
  BY <1>2, <1>3 DEF Rows!Rows, News, Rows!Listening
<1>7. RowsType'
  <2>1. HubRows' /\ AppRows'
    BY <1>2, <1>3, <1>6 DEF HubRows, AppRows
  <2>2. ASSUME NEW q \in net.reads PROVE Reading(q)'
    BY <1>2, <1>6 DEF Reading, NetRows
  <2>3. NetRows'
    BY <1>1, <1>4, <1>6, <2>2 DEF NetRows
  <2> QED BY <2>1, <2>3
<1>8. Kept'
  BY <1>3, <1>4, <1>6 DEF Kept, Shown
<1>9. ASSUME NEW x \in Rows!Listening PROVE Accounted(x)'
  <2>1. Accounted(x) /\ Rows!Held(x)' = Rows!Held(x) /\ (Coming(x) <=> Coming(x)')
    BY <1>2, <1>3, <1>4 DEF Rows!Held, Coming
  <2>2. CASE Rows!Held(x) = hub.ver[x] \/ x \in app.excused \/ Coming(x) \/ ToReopen
    BY <1>2, <1>3, <1>4, <2>1, <2>2 DEF Accounted, ToReopen
  <2>3. ASSUME NEW o \in hub.out, x \in Rows!About(o), o # p PROVE Accounted(x)'
    BY <1>2, <2>3 DEF Accounted, Nudged
  <2>4. ASSUME NEW i \in 1 .. Len(net.inbox), x \in Rows!About(net.inbox[i]) PROVE Accounted(x)'
    <3>1. i \in 1 .. Len(net'.inbox) /\ net'.inbox[i] = net.inbox[i]
      BY <1>1, <1>4 DEF NetRows
    <3> QED BY <2>4, <3>1 DEF Accounted, Nudged
  <2>5. ASSUME x \in Rows!About(p) PROVE Accounted(x)'
    <3>1. CASE net'.inbox = Append(net.inbox, p)
      <4>1. Len(net'.inbox) \in 1 .. Len(net'.inbox) /\ net'.inbox[Len(net'.inbox)] = p
        BY <1>1, <3>1 DEF NetRows
      <4> QED BY <2>5, <4>1 DEF Accounted, Nudged
    <3> QED BY <1>5, <2>5, <3>1 DEF Accounted, ToReopen
  <2> QED BY <2>1, <2>2, <2>3, <2>4, <2>5 DEF Accounted, Nudged
<1> QED BY <1>6, <1>7, <1>8, <1>9

\* The hub answers a read.
LEMMA AnswerRows ==
  ASSUME RowsInv, NEW q \in net.reads, Rows!Answer(q)
  PROVE  RowsInv'
<1> USE DEF RowsInv, RowsType
<1>1. PICK a : a = [q EXCEPT !.got = hub.ver[q.row]]
  OBVIOUS
<1>2. Reading(q)
  BY DEF NetRows
<1>3. DOMAIN a = DOMAIN q /\ a.row = q.row /\ a.got = hub.ver[q.row]
  BY <1>1, <1>2 DEF Reading
<1>4. /\ DOMAIN net' = DOMAIN net /\ net'.up = net.up /\ net'.inbox = net.inbox
      /\ net'.reads = (net.reads \ {q}) \union {a} /\ hub' = hub /\ app' = app
  BY <1>1 DEF NetRows, Rows!Answer
<1>5. RowsType'
  <2>1. Rows!Rows' = Rows!Rows /\ News' = News /\ Rows!Listening' = Rows!Listening
    BY <1>4 DEF Rows!Rows, News, Rows!Listening
  <2>2. HubRows' /\ AppRows'
    BY <1>4, <2>1 DEF HubRows, AppRows
  <2>3. Reading(a)'
    BY <1>2, <1>3, <1>4, <2>1 DEF Reading, HubRows
  <2>4. \A o \in net.reads : Reading(o)'
    BY <1>4, <2>1 DEF Reading, NetRows
  <2> QED BY <1>4, <2>1, <2>2, <2>3, <2>4 DEF NetRows
<1>6. Kept'
  BY <1>3, <1>4 DEF Kept, Shown, Rows!Rows
<1>7. ASSUME NEW x \in Rows!Listening PROVE Accounted(x)'
  <2>1. Coming(x) => Coming(x)'
    BY <1>3, <1>4 DEF Coming
  <2> QED BY <1>4, <2>1 DEF Accounted, Rows!Held, Nudged, ToReopen
<1> QED BY <1>4, <1>5, <1>6, <1>7 DEF Rows!Listening

\* The answer comes, or the read fails.
LEMMA ReceiveRows ==
  ASSUME RowsInv, Rows!RowsAssumption, NEW q \in net.reads, NEW answer \in {Empty, q.got},
         Rows!Receive(q, answer)
  PROVE  RowsInv'
<1> USE DEF RowsInv, RowsType
<1> DEFINE r == q.row
           value == Rows!Made(r, answer)
<1>1. Reading(q)
  BY DEF NetRows
<1>2. /\ DOMAIN net' = DOMAIN net /\ net'.up = net.up /\ net'.inbox = net.inbox
      /\ net'.reads = net.reads \ {q} /\ hub' = hub
  BY DEF NetRows, Rows!Receive
<1>3. /\ DOMAIN app' = DOMAIN app /\ app'.sock = app.sock /\ app'.ever = app.ever /\ app'.wired = app.wired
      /\ app'.on = app.on /\ app'.cache = (IF r = "configs" THEN value ELSE app.cache)
      /\ app'.excused = IF value = hub.ver[r] THEN app.excused \ {r}
                        ELSE IF answer = Empty \/ Rows!Older(answer, Rows!Held(r))
                        THEN app.excused \union {r} ELSE app.excused
      /\ DOMAIN app'.view = DOMAIN app.view
      /\ \A x \in Rows!Rows : app'.view[x] = IF x = r /\ r \in app.on THEN value ELSE app.view[x]
  BY DEF AppRows, Rows!Receive
<1>4. r \in Rows!Listening => Rows!Held(r)' = value
  BY <1>1, <1>3 DEF Rows!Held, Rows!Listening, Reading
<1>5. answer # Unanswered
  BY DEF Rows!Receive
<1>6. answer # Empty => answer = q.got /\ value = answer /\ q.got \in Nat /\ q.got <= hub.ver[r]
  BY <1>1, <1>5 DEF Reading, Rows!Made
<1>7. hub.ver[r] \in Nat /\ hub.ver[r] \notin {Blank, Empty, Unanswered}
  BY <1>1 DEF Reading, HubRows, Rows!RowsAssumption
<1> HIDE DEF value
<1>8. RowsType' /\ Rows!Listening' = Rows!Listening
  <2>1. Rows!Rows' = Rows!Rows /\ News' = News /\ Rows!Listening' = Rows!Listening
    BY <1>2, <1>3 DEF Rows!Rows, News, Rows!Listening
  <2>2. HubRows' /\ AppRows'
    BY <1>2, <1>3, <2>1 DEF HubRows, AppRows
  <2>3. \A o \in net.reads : Reading(o)'
    BY <1>2, <2>1 DEF Reading, NetRows
  <2> QED BY <1>2, <2>1, <2>2, <2>3 DEF NetRows
<1>9. Kept'
  BY <1>1, <1>2, <1>3 DEF Kept, Shown, Reading, Rows!Listening, Rows!Rows, AppRows
<1>10. ASSUME r \in Rows!Listening PROVE Accounted(r)'
  <2>1. CASE value = hub.ver[r]
    BY <1>2, <1>4, <1>10, <2>1 DEF Accounted
  <2>2. CASE value # hub.ver[r] /\ r \in app'.excused
    BY <2>2 DEF Accounted
  <2>3. CASE value # hub.ver[r] /\ r \notin app'.excused
    <3>1. answer # Empty /\ ~Rows!Older(answer, Rows!Held(r)) /\ r \notin app.excused
      BY <1>3, <2>3
    <3>2. Rows!Held(r) # hub.ver[r]
      BY <1>6, <1>7, <2>3, <3>1 DEF Rows!Older
    <3>3. Coming(r) => Coming(r)'
      BY <1>2, <1>5, <1>6, <2>3, <3>1 DEF Coming
    <3>4. Accounted(r)
      BY <1>10
    <3> QED BY <1>2, <1>3, <3>1, <3>2, <3>3, <3>4 DEF Accounted, Nudged, ToReopen
  <2> QED BY <2>1, <2>2, <2>3
<1>11. ASSUME NEW x \in Rows!Listening, x # r PROVE Accounted(x)'
  <2>1. Rows!Held(x)' = Rows!Held(x)
    BY <1>3, <1>11 DEF Rows!Held, AppRows
  <2>2. Coming(x) => Coming(x)'
    BY <1>2, <1>11 DEF Coming
  <2> QED BY <1>2, <1>3, <1>11, <2>1, <2>2 DEF Accounted, Nudged, ToReopen
<1> QED BY <1>8, <1>9, <1>10, <1>11

\* A step that leaves the hub alone and asks for some of the listeners' rows.
LEMMA AskRows ==
  ASSUME RowsInv, hub' = hub, NEW rows \in SUBSET Rows!Rows,
         DOMAIN net' = DOMAIN net, net'.inbox \in Seq(News), net'.reads = Rows!Ask(net.reads, rows),
         AppRows', "configs" \in rows => app'.wired, app.wired => app'.wired,
         app'.cache = app.cache, Shown'
  PROVE  /\ RowsType' /\ Kept'
         /\ \A x : Coming(x) => Coming(x)'
         /\ \A x \in rows : Coming(x)'
<1> USE DEF RowsInv, RowsType
<1>1. Rows!Rows' = Rows!Rows /\ News' = News
  BY DEF Rows!Rows, News
<1>2. net.reads \subseteq net'.reads
  BY DEF Rows!Ask
<1>3. ASSUME NEW q \in net'.reads, q \notin net.reads
      PROVE  /\ DOMAIN q = {"row", "got", "nth"} /\ q.row \in rows /\ q.got = Unanswered
  BY <1>3 DEF Rows!Ask
<1>4. ASSUME NEW x \in rows PROVE Coming(x)'
  <2>1. PICK q : q = [row |-> x, got |-> Unanswered, nth |-> Rows!Spare(net.reads, x)]
    OBVIOUS
  <2>2. q \in net'.reads /\ q.row = x /\ q.got = Unanswered
    BY <2>1 DEF Rows!Ask
  <2> QED BY <2>2 DEF Coming
<1>5. ASSUME NEW x, Coming(x) PROVE Coming(x)'
  BY <1>2, <1>5 DEF Coming
<1>6. HubRows'
  BY <1>1 DEF HubRows
<1>7. ASSUME NEW q \in net'.reads PROVE Reading(q)'
  <2>1. CASE q \in net.reads
    BY <1>1, <2>1 DEF Reading, NetRows
  <2>2. CASE q \notin net.reads
    BY <1>1, <1>3, <2>2 DEF Reading
  <2> QED BY <2>1, <2>2
<1>8. NetRows'
  BY <1>1, <1>7 DEF NetRows
<1>9. Kept'
  BY <1>3 DEF Kept
<1> QED BY <1>4, <1>5, <1>6, <1>8, <1>9

\* A screen is opened.
LEMMA MountRows ==
  ASSUME RowsInv, NEW r \in Rows!Rows, Rows!Mount(r)
  PROVE  RowsInv'
<1> USE DEF RowsInv
<1>1. PICK kept \in BOOLEAN : kept = (r = "configs" /\ app.cache # Blank)
  OBVIOUS
<1>2. PICK asked : asked = IF kept THEN {} ELSE {r}
  OBVIOUS
<1>3. /\ r \notin app.on /\ hub' = hub
      /\ DOMAIN net' = DOMAIN net /\ net'.reads = Rows!Ask(net.reads, asked)
      /\ net'.inbox = net.inbox /\ net'.up = net.up
  BY <1>1, <1>2 DEF RowsType, NetRows, Rows!Mount
<1>4. /\ DOMAIN app' = DOMAIN app /\ app'.on = app.on \union {r} /\ app'.ever = app.ever
      /\ app'.wired = (app.wired \/ r = "configs") /\ app'.cache = app.cache
      /\ app'.sock = (IF app.sock \in {"none", "closed"} THEN "opening" ELSE app.sock)
      /\ DOMAIN app'.view = DOMAIN app.view
      /\ \A x \in Rows!Rows : app'.view[x] = IF x = r /\ kept THEN app.cache ELSE app.view[x]
      /\ app'.excused = app.excused \ asked
  BY <1>1, <1>2 DEF RowsType, AppRows, Rows!Mount
<1>5. Rows!Rows' = Rows!Rows
  BY <1>3 DEF Rows!Rows
<1>6. Rows!Listening' = Rows!Listening \union {r}
  BY <1>4 DEF Rows!Listening
<1>7. AppRows'
  BY <1>4, <1>5, <1>6 DEF RowsType, AppRows
<1>8. Shown'
  BY <1>1, <1>4, <1>5 DEF RowsType, Kept, Shown, AppRows, Rows!Listening
<1>9. /\ RowsType' /\ Kept'
      /\ \A x : Coming(x) => Coming(x)'
      /\ \A x \in asked : Coming(x)'
  BY <1>2, <1>3, <1>4, <1>7, <1>8, AskRows DEF RowsType, NetRows
<1>10. ASSUME NEW x \in Rows!Listening, x # r PROVE Accounted(x)'
  BY <1>2, <1>3, <1>4, <1>9, <1>10 DEF RowsType, AppRows, Accounted, Rows!Held, Nudged, ToReopen
<1>11. Accounted(r)'
  <2>1. CASE kept
    <3>1. r \in Rows!Listening /\ asked = {}
      BY <1>1, <1>2, <2>1 DEF Kept, Rows!Listening
    <3>2. Accounted(r)
      BY <3>1
    <3> QED BY <1>1, <1>3, <1>4, <1>9, <2>1, <3>1, <3>2 DEF Accounted, Rows!Held, Nudged, ToReopen
  <2>2. CASE ~kept
    BY <1>2, <1>9, <2>2 DEF Accounted
  <2> QED BY <2>1, <2>2
<1> QED BY <1>6, <1>9, <1>10, <1>11

\* A screen is left.
LEMMA UnmountRows ==
  ASSUME RowsInv, NEW r \in Rows!Rows, Rows!Unmount(r)
  PROVE  RowsInv'
<1> USE DEF RowsInv
<1>1. PICK last \in BOOLEAN : last = (app.on = {r} /\ ~app.wired)
  OBVIOUS
<1>2. /\ r \in app.on /\ hub' = hub
      /\ net' = [up |-> net.up /\ ~last, inbox |-> IF last THEN <<>> ELSE net.inbox,
                 reads |-> {q \in net.reads : q.row # r \/ r = "configs"}]
  BY <1>1 DEF Rows!Unmount
<1>3. /\ DOMAIN app' = DOMAIN app /\ app'.on = app.on \ {r} /\ app'.ever = app.ever
      /\ app'.wired = app.wired /\ app'.cache = app.cache /\ app'.excused = app.excused
      /\ ~last => app'.sock = app.sock
      /\ DOMAIN app'.view = DOMAIN app.view
      /\ \A x \in Rows!Rows : app'.view[x] = IF x = r THEN Blank ELSE app.view[x]
  BY <1>1 DEF RowsType, AppRows, Rows!Unmount
<1>4. /\ DOMAIN net' = DOMAIN net /\ net'.up = (net.up /\ ~last)
      /\ net'.inbox = (IF last THEN <<>> ELSE net.inbox)
      /\ net'.reads = {q \in net.reads : q.row # r \/ r = "configs"}
  BY <1>2 DEF RowsType, NetRows
<1>5. Rows!Rows' = Rows!Rows /\ News' = News
  BY <1>2 DEF Rows!Rows, News
<1>6. Rows!Listening' \subseteq Rows!Listening /\ (r \in Rows!Listening' => r = "configs")
  BY <1>3 DEF Rows!Listening
<1>7. RowsType'
  <2>1. HubRows' /\ AppRows'
    BY <1>2, <1>3, <1>5, <1>6 DEF RowsType, HubRows, AppRows
  <2>2. NetRows'
    BY <1>2, <1>4, <1>5 DEF RowsType, NetRows, Reading
  <2> QED BY <2>1, <2>2 DEF RowsType
<1>8. Kept'
  BY <1>3, <1>4, <1>5 DEF RowsType, AppRows, Kept, Shown, Rows!Listening
<1>9. ASSUME NEW x \in Rows!Listening' PROVE Accounted(x)'
  <2>1. x \in Rows!Listening /\ (x # r \/ x = "configs")
    BY <1>6, <1>9
  <2>2. Accounted(x)
    BY <2>1
  <2>3. Rows!Held(x)' = Rows!Held(x) /\ ~last
    BY <1>1, <1>3, <1>9, <2>1 DEF Rows!Held, RowsType, AppRows, Rows!Listening
  <2>4. Coming(x) => Coming(x)'
    BY <1>2, <1>4, <2>1 DEF Coming
  <2> QED BY <1>2, <1>3, <1>4, <2>2, <2>3, <2>4 DEF Accounted, Nudged, ToReopen
<1> QED BY <1>7, <1>8, <1>9

\* The socket opens.
LEMMA OpenRows == ASSUME RowsInv, Rows!Open PROVE RowsInv'
<1> USE DEF RowsInv
<1>1. /\ hub' = hub /\ app.sock = "opening" /\ DOMAIN net' = DOMAIN net
      /\ net'.reads = Rows!Ask(net.reads, Rows!Resynced)
      /\ net'.inbox = net.inbox /\ net'.up = net.up
  BY DEF RowsType, NetRows, Rows!Open
<1>2. /\ DOMAIN app' = DOMAIN app /\ app'.on = app.on /\ app'.wired = app.wired
      /\ app'.cache = app.cache /\ app'.excused = app.excused /\ app'.view = app.view
  BY DEF RowsType, AppRows, Rows!Open
<1>3. Rows!Rows' = Rows!Rows /\ Rows!Listening' = Rows!Listening
  BY <1>1, <1>2 DEF Rows!Rows, Rows!Listening
<1>4. AppRows' /\ Shown'
  BY <1>2, <1>3 DEF RowsType, AppRows, Kept, Shown
<1>5. Rows!Resynced \in SUBSET Rows!Rows /\ ("configs" \in Rows!Resynced => app.wired)
  BY DEF Rows!Resynced, Rows!Listening, RowsType, AppRows, Kept, Shown
<1>6. /\ RowsType' /\ Kept'
      /\ \A x : Coming(x) => Coming(x)'
      /\ \A x \in Rows!Resynced : Coming(x)'
  <2>1. PICK rows : rows = Rows!Resynced
    OBVIOUS
  <2> QED BY <1>1, <1>2, <1>4, <1>5, <2>1, AskRows DEF RowsType, NetRows
<1>7. ASSUME NEW x \in Rows!Listening PROVE Accounted(x)'
  <2>1. CASE app.ever
    BY <1>6, <1>7, <2>1 DEF Rows!Resynced, Accounted
  <2>2. CASE ~app.ever
    BY <1>1, <1>2, <1>6, <1>7, <2>2 DEF Accounted, Rows!Held, Nudged, ToReopen
  <2> QED BY <2>1, <2>2
<1> QED BY <1>3, <1>6, <1>7

\* A nudge comes.
LEMMA NudgeRows == ASSUME RowsInv, Rows!Nudge PROVE RowsInv'
<1> USE DEF RowsInv
<1>1. PICK rows : rows = Rows!Concerned(Head(net.inbox))
  OBVIOUS
<1>2. /\ hub' = hub /\ app' = app /\ net.inbox # <<>> /\ DOMAIN net' = DOMAIN net
      /\ net'.reads = Rows!Ask(net.reads, rows)
      /\ net'.inbox = Tail(net.inbox) /\ net'.up = net.up
  BY <1>1 DEF RowsType, NetRows, Rows!Nudge
<1>3. Rows!Rows' = Rows!Rows /\ Rows!Listening' = Rows!Listening /\ Tail(net.inbox) \in Seq(News)
  BY <1>2 DEF RowsType, NetRows, Rows!Rows, Rows!Listening
<1>4. AppRows' /\ Shown'
  BY <1>2, <1>3 DEF RowsType, AppRows, Kept, Shown
<1>5. rows \in SUBSET Rows!Rows /\ ("configs" \in rows => app.wired)
  BY <1>1 DEF Rows!Concerned, Rows!Listening, RowsType, AppRows, Kept, Shown
<1>6. /\ RowsType' /\ Kept'
      /\ \A x : Coming(x) => Coming(x)'
      /\ \A x \in rows : Coming(x)'
  BY <1>2, <1>3, <1>4, <1>5, AskRows
<1>7. ASSUME NEW x \in Rows!Listening PROVE Accounted(x)'
  <2>1. ASSUME NEW i \in 1 .. Len(net.inbox), x \in Rows!About(net.inbox[i]) PROVE Accounted(x)'
    <3>1. CASE i = 1
      BY <1>1, <1>2, <1>6, <1>7, <2>1, <3>1 DEF RowsType, NetRows, Rows!Concerned, Accounted
    <3>2. CASE i # 1
      <4>1. i - 1 \in 1 .. Len(net'.inbox) /\ net'.inbox[i - 1] = net.inbox[i]
        BY <1>2, <3>2 DEF RowsType, NetRows
      <4> QED BY <2>1, <4>1 DEF Accounted, Nudged
    <3> QED BY <3>1, <3>2
  <2> QED BY <1>2, <1>6, <1>7, <2>1 DEF Accounted, Rows!Held, Nudged, ToReopen
<1> QED BY <1>3, <1>6, <1>7

\* The socket comes and goes.
LEMMA SocketRows ==
  ASSUME RowsInv, Rows!Accept \/ Rows!Drop \/ Rows!Closed \/ Rows!Retry
  PROVE  RowsInv'
<1> USE DEF RowsInv
<1>1. /\ DOMAIN hub' = DOMAIN hub /\ hub'.ver = hub.ver /\ hub'.out = hub.out /\ hub'.writes = hub.writes
  BY DEF RowsType, HubRows, Rows!Accept, Rows!Drop, Rows!Closed, Rows!Retry
<1>2. /\ DOMAIN net' = DOMAIN net /\ net'.reads = net.reads /\ net'.inbox \in {net.inbox, <<>>}
  BY DEF RowsType, NetRows, Rows!Accept, Rows!Drop, Rows!Closed, Rows!Retry
<1>3. /\ DOMAIN app' = DOMAIN app /\ app'.on = app.on /\ app'.wired = app.wired /\ app'.ever = app.ever
      /\ app'.cache = app.cache /\ app.excused \subseteq app'.excused /\ app'.view = app.view
  BY DEF RowsType, AppRows, Rows!Accept, Rows!Drop, Rows!Closed, Rows!Retry
<1>4. Rows!Rows' = Rows!Rows /\ Rows!Listening' = Rows!Listening /\ News' = News
  BY <1>1, <1>3 DEF Rows!Rows, Rows!Listening, News
<1>5. RowsType' /\ Kept'
  <2>1. HubRows' /\ AppRows' /\ Kept'
    BY <1>1, <1>2, <1>3, <1>4 DEF RowsType, HubRows, AppRows, Kept, Shown
  <2>2. \A q \in net.reads : Reading(q)'
    BY <1>1, <1>4 DEF RowsType, NetRows, Reading
  <2>3. <<>> \in Seq(News)
    OBVIOUS
  <2> QED BY <1>2, <1>4, <2>1, <2>2, <2>3 DEF RowsType, NetRows
<1>6. ToReopen => ToReopen'
  BY <1>3 DEF RowsType, AppRows, NetRows, ToReopen, Rows!Accept, Rows!Drop, Rows!Closed, Rows!Retry
<1>7. \/ net'.inbox = net.inbox
      \/ ToReopen'
      \/ \A i \in 1 .. Len(net.inbox) : Rows!About(net.inbox[i]) \subseteq app'.excused
  <2>1. CASE Rows!Drop /\ app.ever
    BY <1>3, <2>1 DEF RowsType, NetRows, ToReopen, Rows!Drop
  <2>2. CASE Rows!Drop /\ ~app.ever
    <3>1. app'.excused = app.excused \union UNION {Rows!About(net.inbox[i]) : i \in DOMAIN net.inbox}
      BY <2>2 DEF RowsType, AppRows, Rows!Drop
    <3>2. DOMAIN net.inbox = 1 .. Len(net.inbox)
      BY DEF RowsType, NetRows
    <3> QED BY <3>1, <3>2
  <2>3. CASE ~Rows!Drop
    BY <2>3 DEF RowsType, NetRows, Rows!Accept, Rows!Closed, Rows!Retry
  <2> QED BY <2>1, <2>2, <2>3
<1>8. ASSUME NEW x \in Rows!Listening PROVE Accounted(x)'
  <2>1. Rows!Held(x)' = Rows!Held(x) /\ (Coming(x) => Coming(x)')
    BY <1>1, <1>2, <1>3 DEF Rows!Held, Coming
  <2>2. Nudged(x) => Nudged(x)' \/ x \in app'.excused \/ ToReopen'
    BY <1>1, <1>7 DEF Nudged
  <2> QED BY <1>1, <1>3, <1>6, <1>8, <2>1, <2>2 DEF Accounted
<1> QED BY <1>4, <1>5, <1>8

LEMMA RowsNext == ASSUME RowsInv, Rows!RowsAssumption, Rows!Next PROVE RowsInv'
  BY WriteRows, PublishRows, AnswerRows, ReceiveRows, MountRows, UnmountRows, OpenRows, NudgeRows,
     SocketRows DEF Rows!Next

LEMMA RowsSay == ASSUME RowsInv PROVE Rows!StaleOnlyForAReason
<1> SUFFICES ASSUME NEW r \in app.on,
                    app.sock = "open" /\ net.up /\ net.inbox = <<>> /\ hub.out = {},
                    ~Coming(r), r \notin app.excused
             PROVE  app.view[r] = hub.ver[r]
  BY DEF Rows!StaleOnlyForAReason, Coming
<1>1. Accounted(r)
  BY DEF RowsInv, Rows!Listening
<1>2. ~Nudged(r) /\ ~ToReopen
  BY DEF Nudged, ToReopen
<1>3. Rows!Held(r) = app.view[r]
  BY DEF RowsInv, Kept, Shown, Rows!Held
<1> QED BY <1>1, <1>2, <1>3 DEF Accounted

-------------------------------------------------------------------------------
(* The behaviours of MCFeeds, each about one of the feeds.                       *)

FeedsInv ==
  /\ which = "rows" => RowsInv
  /\ which = "candles" => CandleInv
  /\ which = "status" => StatusInv
  /\ which = "hub" => HubInv
  /\ which = "chart" => ChartInv
  /\ which = "watch" => WatchInv

\* The invariants of the feeds hold together, each where it is about something.
THEOREM FeedsAreSound == Spec => []FeedsInv
<1>1. Init => FeedsInv
  <2> SUFFICES ASSUME Init PROVE FeedsInv
    OBVIOUS
  <2>1. which = "candles" => CandleInv
    BY CandleInit DEF Init
  <2>2. which = "status" => StatusInv
    BY StatusInit, InstancesAssumption DEF Init
  <2>3. which = "hub" => HubInv
    BY HubInit DEF Init
  <2>4. which = "chart" => ChartInv
    BY ChartInit DEF Init
  <2>5. which = "watch" => WatchInv
    BY WatchInit DEF Init
  <2>6. which = "rows" => RowsInv
    BY RowsInit DEF Init
  <2> QED BY <2>1, <2>2, <2>3, <2>4, <2>5, <2>6 DEF FeedsInv
<1>2. FeedsInv /\ [Next]_<<which, hub, net, app>> => FeedsInv'
  <2> SUFFICES ASSUME FeedsInv, [Next]_<<which, hub, net, app>> PROVE FeedsInv'
    OBVIOUS
  <2>1. CASE UNCHANGED <<which, hub, net, app>>
    <3>1. which' = which /\ hub' = hub /\ net' = net /\ app' = app
      BY <2>1
    <3>2. CandleInv => CandleInv'
      BY <3>1 DEF CandleInv, RequestType, WasServers
    <3>3. StatusInv => StatusInv'
      BY <3>1 DEF StatusInv, StatusType, PollsApart, OldNewsCounted
    <3>4. HubInv => HubInv'
      BY <3>1 DEF HubInv, HubType
    <3>5. ChartInv => ChartInv'
      BY <3>1 DEF ChartInv, ChartType
    <3>6. WatchInv => WatchInv'
      BY <3>1 DEF WatchInv, RequestsType, Timely, Early, AskedFor
    <3>7. RowsInv => RowsInv'
      <4>1. Rows!Rows' = Rows!Rows /\ Rows!Listening' = Rows!Listening /\ News' = News
        BY <3>1 DEF Rows!Rows, Rows!Listening, News
      <4>2. RowsType => RowsType'
        BY <3>1, <4>1 DEF RowsType, HubRows, NetRows, AppRows, Reading
      <4>3. Kept => Kept'
        BY <3>1, <4>1 DEF Kept, Shown
      <4>4. \A r : Accounted(r) => Accounted(r)'
        BY <3>1 DEF Accounted, Rows!Held, Coming, Nudged, ToReopen
      <4> QED BY <4>1, <4>2, <4>3, <4>4 DEF RowsInv
    <3> QED BY <3>1, <3>2, <3>3, <3>4, <3>5, <3>6, <3>7 DEF FeedsInv
  <2>2. CASE Next
    <3>1. which' = which
      BY <2>2 DEF Next
    <3>2. which = "candles" => CandleInv'
      BY <2>2, CandleNext, InstancesAssumption DEF Next, FeedsInv
    <3>3. which = "status" => StatusInv'
      BY <2>2, StatusNext, InstancesAssumption DEF Next, FeedsInv
    <3>4. which = "hub" => HubInv'
      BY <2>2, HubNext DEF Next, FeedsInv
    <3>5. which = "chart" => ChartInv'
      BY <2>2, ChartNext, InstancesAssumption DEF Next, FeedsInv
    <3>6. which = "watch" => WatchInv'
      BY <2>2, WatchNext, InstancesAssumption DEF Next, FeedsInv
    <3>7. which = "rows" => RowsInv'
      BY <2>2, RowsNext, InstancesAssumption DEF Next, FeedsInv
    <3> QED BY <3>1, <3>2, <3>3, <3>4, <3>5, <3>6, <3>7 DEF FeedsInv
  <2> QED BY <2>1, <2>2
<1> QED BY <1>1, <1>2, PTL DEF Spec

\* With the socket up and nothing under way, a screen shows what the database holds,
\* but for the reasons named (live.ts:92-137, realtime.ts:40-121).
THEOREM RowsKeepUp == Spec => []StaleOnlyForAReason
<1>1. FeedsInv => StaleOnlyForAReason
  BY RowsSay DEF FeedsInv, StaleOnlyForAReason
<1> QED BY <1>1, FeedsAreSound, PTL

\* Whatever joins, leaves, sleeps or comes late, a client of the price hub shows the
\* latest price of every pair or has it on its way (price-hub/src/index.ts).
THEOREM LatestReachesEveryone == Spec => []EveryoneSeesTheLatest
<1>1. FeedsInv => EveryoneSeesTheLatest
  BY HubSays DEF FeedsInv, EveryoneSeesTheLatest
<1> QED BY <1>1, FeedsAreSound, PTL

\* The second answer after a switch of pairs is about the pair on screen, and no
\* reading counts twice towards the banner, for any times in the order of the
\* code's (candles.ts:277-380, useOtcStatus.ts).
THEOREM StatusIsOfThePair == Spec => []StatusCatchesUp
<1>1. FeedsInv => StatusCatchesUp
  BY StatusSays DEF FeedsInv, StatusCatchesUp
<1> QED BY <1>1, FeedsAreSound, PTL

\* No candle of another pair gets into the chart, except by an answer that was asked
\* for before the switch (chart.js:594-602, 745-775).
THEOREM ChartKeepsToItsPair == Spec => []OwnPairOnly
<1>1. FeedsInv => OwnPairOnly
  BY ChartSays DEF FeedsInv, OwnPairOnly
<1> QED BY <1>1, FeedsAreSound, PTL

\* A chart on screen is never left without a socket, a close to come or a reconnect
\* booked (chart.js:383-390, 611-619, 777-782).
THEOREM ChartIsNeverDeaf == Spec => []ListensOrWillListen
<1>1. FeedsInv => ListensOrWillListen
  BY ChartSays DEF FeedsInv, ListensOrWillListen
<1> QED BY <1>1, FeedsAreSound, PTL

\* A window extended by deltas is, candle for candle, one the server had, however
\* stale the copies the edge answered with (candles.ts:25-35, 82-93).
THEOREM DeltasMakeTheWindow == Spec => []WindowIsTheServers
<1>1. FeedsInv => WindowIsTheServers
  BY CandleSays, InstancesAssumption DEF FeedsInv, WindowIsTheServers
<1> QED BY <1>1, FeedsAreSound, PTL

\* Every trade the page placed keeps its card until it ends, and ends in time, unless
\* it is the chart's and its requests fail (useSignalEngine.ts:1366-1407).
THEOREM TradesEnd == Spec => []EveryTradeEnds
<1>1. FeedsInv => EveryTradeEnds
  BY WatchSays, InstancesAssumption DEF FeedsInv, EveryTradeEnds
<1> QED BY <1>1, FeedsAreSound, PTL
================================================================================
