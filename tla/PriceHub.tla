------------------------------- MODULE PriceHub -------------------------------
(* The price hub (price-hub/src/index.ts): one object, one feeder, every client. *)
(* Its sockets outlive it in memory; the prices it remembers do not.            *)
EXTENDS Naturals, Sequences, FiniteSets, SequencesExt

CONSTANTS
  Symbols, Prices, Clients,
  Unknown,              \* no price yet
  MaxBatches, MaxLeaves \* bounds of the runs

VARIABLES
  hub, \* [latest: symbol |-> price, clients, feeder: the feeder's socket is up, batches, drops]
  net, \* frames under way: client |-> sequence of price maps; "feeder" |-> sequence of counts
  app  \* [shown: client |-> symbol |-> price, told: the count the feeder has heard]

vars == <<hub, net, app>>
Nobody == [s \in Symbols |-> Unknown]
KnownPrices(p) == \E s \in Symbols : p[s] # Unknown

Init ==
  /\ hub = [latest |-> Nobody, clients |-> {}, feeder |-> FALSE, batches |-> 0, drops |-> 0]
  /\ net = [prices |-> [c \in Clients |-> <<>>], counts |-> <<>>]
  /\ app = [shown |-> [c \in Clients |-> Nobody], told |-> 0]

\* announceClientCount: to the feeder's socket, if it has one
Announced(counts, clients) == IF hub.feeder THEN Append(counts, Cardinality(clients)) ELSE counts

\* What a joining client is handed: whatever is known, if anything
NoSnap(latest) == <<>>
Snap(latest) == IF KnownPrices(latest) THEN <<latest>> ELSE <<>>

Join(c) == \* fetch
  /\ c \notin hub.clients
  /\ hub' = [hub EXCEPT !.clients = @ \union {c}]
  /\ net' = [prices |-> [net.prices EXCEPT ![c] = Snap(hub.latest)],
             counts |-> Announced(net.counts, hub'.clients)]
  /\ app' = [app EXCEPT !.shown[c] = Nobody]

Leave(c) == \* webSocketClose, webSocketError
  /\ c \in hub.clients /\ hub.drops < MaxLeaves
  /\ hub' = [hub EXCEPT !.clients = @ \ {c}, !.drops = @ + 1]
  /\ net' = [prices |-> [net.prices EXCEPT ![c] = <<>>], counts |-> Announced(net.counts, hub'.clients)]
  /\ UNCHANGED app

FeederJoins == \* a feeder that comes back is told nothing
  /\ ~hub.feeder
  /\ hub' = [hub EXCEPT !.feeder = TRUE]
  /\ UNCHANGED <<net, app>>

FeederLeaves ==
  /\ hub.feeder /\ hub.drops < MaxLeaves
  /\ hub' = [hub EXCEPT !.feeder = FALSE, !.drops = @ + 1]
  /\ net' = [net EXCEPT !.counts = <<>>]
  /\ UNCHANGED app

\* The newest prices, and the ones among a batch that are new; the others cost nothing.
Remember(latest, batch) == [s \in Symbols |-> IF batch[s] = Unknown THEN latest[s] ELSE batch[s]]
Changed(latest, batch) == [s \in Symbols |-> IF batch[s] = latest[s] THEN Unknown ELSE batch[s]]

Ingest(batch) == \* webSocketMessage on the feeder's socket
  /\ hub.feeder /\ hub.batches < MaxBatches
  /\ hub' = [hub EXCEPT !.latest = Remember(@, batch), !.batches = @ + 1]
  /\ LET out == Changed(hub.latest, batch)
     IN  net' = [net EXCEPT !.prices = [c \in Clients |->
                   IF c \in hub.clients /\ KnownPrices(out) THEN Append(@[c], out) ELSE @[c]]]
  /\ UNCHANGED app

\* Ten quiet seconds: the object leaves memory, every socket stays.
Hibernate ==
  /\ KnownPrices(hub.latest)
  /\ hub' = [hub EXCEPT !.latest = Nobody]
  /\ UNCHANGED <<net, app>>

Show(c) == \* chart.js onmessage: a snapshot is treated exactly like a price frame
  /\ net.prices[c] # <<>>
  /\ app' = [app EXCEPT !.shown[c] = Remember(@, Head(net.prices[c]))]
  /\ net' = [net EXCEPT !.prices[c] = Tail(@)]
  /\ UNCHANGED hub

Hear ==
  /\ net.counts # <<>>
  /\ app' = [app EXCEPT !.told = Head(net.counts)]
  /\ net' = [net EXCEPT !.counts = Tail(@)]
  /\ UNCHANGED hub

Next ==
  \/ \E c \in Clients : Join(c) \/ Leave(c) \/ Show(c)
  \/ FeederJoins \/ FeederLeaves \/ Hibernate \/ Hear
  \/ \E batch \in [Symbols -> Prices \union {Unknown}] : KnownPrices(batch) /\ Ingest(batch)
Spec == Init /\ [][Next]_vars

-------------------------------------------------------------------------------
(* Once its frames have arrived, a client shows every price the hub knows, at    *)
(* whatever moment it joined, left, came back, and the object slept              *)
(* (price-hub/src/index.ts:90-94, 118-121, 149-151).                             *)
EveryoneSeesTheLatest ==
  \A c \in hub.clients, s \in Symbols :
    net.prices[c] = <<>> /\ hub.latest[s] # Unknown => app.shown[c][s] = hub.latest[s]
===============================================================================
