----------------------------- MODULE SignalLedger -----------------------------
(***************************************************************************)
(* What the data hub promises about signals, with no D1, no spool and no   *)
(* request in it.  A signal may be offered on several days (a retry is a   *)
(* second offer).  Once the hub owns it, it owns it for ever; it is        *)
(* recorded at most once, and the day it is recorded under is a day on     *)
(* which it was offered, however long afterwards the row was written.      *)
(* apps/data-hub/src/spool.ts states the promise in its header comment.    *)
(***************************************************************************)
EXTENDS Integers

CONSTANTS Signals,      \* identities: version, symbol, timeframe, bar and slot
          Days,         \* the UTC days a row can be created on
          NotRecorded   \* the stamp of a signal that has no row; not a day

VARIABLES offered,      \* the days each signal was sent to the hub
          owned,        \* the signals the hub must not lose
          stamp         \* the day each recorded signal is filed under

vars == <<offered, owned, stamp>>

Init ==
  /\ offered = [s \in Signals |-> {}]
  /\ owned = {}
  /\ stamp = [s \in Signals |-> NotRecorded]

\* A record call arrives with the batch S on day d.
Offer(S, d) ==
  /\ offered' = [s \in Signals |-> IF s \in S THEN offered[s] \cup {d} ELSE offered[s]]
  /\ UNCHANGED <<owned, stamp>>

\* The hub takes the batch S over without recording it yet.
TakeOver(S) ==
  /\ \A s \in S : offered[s] # {}
  /\ owned' = owned \cup S
  /\ UNCHANGED <<offered, stamp>>

\* One row becomes part of the published record.
Record(s, d) ==
  /\ stamp[s] = NotRecorded
  /\ d \in offered[s]
  /\ stamp' = [stamp EXCEPT ![s] = d]
  /\ owned' = owned \cup {s}
  /\ UNCHANGED offered

Next ==
  \/ \E S \in SUBSET Signals, d \in Days : Offer(S, d)
  \/ \E S \in SUBSET Signals : TakeOver(S)
  \/ \E s \in Signals, d \in Days : Record(s, d)

Spec == Init /\ [][Next]_vars
===============================================================================
