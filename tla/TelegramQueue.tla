----------------------------- MODULE TelegramQueue -----------------------------
(* Manual publishing: the generator (not in the repository) writes the messages *)
(* of a trade into telegram_queue, an admin approves or rejects each of them on *)
(* a page (admin/telegram/page.tsx, lib/telegramQueue.ts), and the generator    *)
(* sends what was approved in time. The page is told of changes by the live     *)
(* channel and reads the table again each time. The list of past decisions, on  *)
(* which the page flags the result of a rejected opening, is left out.          *)
EXTENDS Naturals, FiniteSets

CONSTANTS
  Tabs,        \* admin tabs with the page open
  Messages,    \* event keys: the openings and the results
  OpeningOf,   \* result |-> the opening of its trade
  MaxLoads,    \* bound: answers to a page's reads on their way
  MaxFaults    \* bound: requests that fail

VARIABLES
  rows,    \* telegram_queue: message |-> [status, late]
  pages,   \* tab |-> [pending: its list, owes: it is to load again, answers: on
           \*          their way, decision: the one under way]
  past     \* requests that have failed

vars == <<rows, pages, past>>

NoDecision == [on |-> "nothing", asks |-> "rejected", took |-> "unknown"]

Init ==
  /\ rows = [m \in Messages |-> [status |-> "none", late |-> FALSE]]
  /\ pages = [t \in Tabs |-> [pending |-> {}, owes |-> TRUE, answers |-> {}, decision |-> NoDecision]]
  /\ past = 0

\* A write to the table nudges whoever is connected: the page will load again.
Nudged == [t \in Tabs |-> [pages[t] EXCEPT !.owes = TRUE]]
Fault == past < MaxFaults /\ past' = past + 1

-------------------------------------------------------------------------------
(* The generator.                                                               *)

Write(m, status) == rows' = [rows EXCEPT ![m].status = status] /\ pages' = Nudged

\* An opening is written when the signal is there, a result once its opening is.
Enqueue(m) ==
  /\ rows[m].status = "none"
  /\ m \in DOMAIN OpeningOf => rows[OpeningOf[m]].status # "none"
  /\ Write(m, "pending") /\ UNCHANGED past

\* expires_at passes; a result does not expire
Expire(m) ==
  /\ rows[m].status \in {"pending", "approved"} /\ ~rows[m].late
  /\ m \notin DOMAIN OpeningOf
  /\ rows' = [rows EXCEPT ![m].late = TRUE] /\ UNCHANGED <<pages, past>>

\* A tick closes what is late and sends what was approved.
Tick(m) ==
  /\ \/ rows[m].status \in {"pending", "approved"} /\ rows[m].late /\ Write(m, "rejected")
     \/ rows[m].status = "approved" /\ ~rows[m].late /\ Write(m, "sent")
  /\ UNCHANGED past

-------------------------------------------------------------------------------
(* The page.                                                                    *)

At(t, changes) == pages' = [pages EXCEPT ![t] = changes]

\* load(), on opening, on a nudge or a resync and after a decision, beside the
\* loads under way: the hub answers with what is pending now (fetchPending).
Load(t) ==
  /\ pages[t].owes /\ Cardinality(pages[t].answers) < MaxLoads
  /\ LET pending == {m \in Messages : rows[m].status = "pending"} IN
     At(t, [pages[t] EXCEPT !.owes = FALSE, !.answers = @ \cup {pending}])
  /\ UNCHANGED <<rows, past>>

\* The answers arrive in any order, and the last to arrive stays. One that fails
\* leaves the list as it is, and nothing asks again.
Loaded(t) ==
  /\ \E answer \in pages[t].answers :
       \/ /\ At(t, [pages[t] EXCEPT !.pending = answer, !.answers = @ \ {answer}])
          /\ UNCHANGED past
       \/ Fault /\ At(t, [pages[t] EXCEPT !.answers = @ \ {answer}])
  /\ UNCHANGED rows

\* onDecide: a row can be decided as long as it is shown, one at a time. (The page
\* disables "approve" by a clock of its own, up to TICK_MS behind.)
Click(t, m, status) ==
  /\ m \in pages[t].pending /\ pages[t].decision = NoDecision
  /\ At(t, [pages[t] EXCEPT !.decision = [on |-> m, asks |-> status, took |-> "unknown"]])
  /\ UNCHANGED <<rows, past>>

\* Variant: the update names the row only by its key.
DecideAnyway(t) ==
  LET d == pages[t].decision IN
  /\ d.on # "nothing" /\ d.took = "unknown"
  /\ rows' = [rows EXCEPT ![d.on].status = d.asks]
  /\ pages' = [Nudged EXCEPT ![t].decision.took = "yes"]
  /\ UNCHANGED past

\* decide(): the hub updates the row if it is still pending, and says how many
\* rows it changed.
Decide(t) ==
  LET d == pages[t].decision IN
  /\ d.on # "nothing" /\ d.took = "unknown"
  /\ IF rows[d.on].status = "pending"
     THEN /\ rows' = [rows EXCEPT ![d.on].status = d.asks]
          /\ pages' = [Nudged EXCEPT ![t].decision.took = "yes"]
     ELSE UNCHANGED rows /\ At(t, [pages[t] EXCEPT !.decision.took = "no"])
  /\ UNCHANGED past

\* The answer: taken or not, the list is loaded again; an error loads nothing.
Answer(t) ==
  /\ pages[t].decision.on # "nothing"
  /\ \/ pages[t].decision.took # "unknown" /\ UNCHANGED past
        /\ At(t, [pages[t] EXCEPT !.decision = NoDecision, !.owes = TRUE])
     \/ Fault /\ At(t, [pages[t] EXCEPT !.decision = NoDecision])
  /\ UNCHANGED rows

Next ==
  \/ \E m \in Messages : Enqueue(m) \/ Expire(m) \/ Tick(m)
  \/ \E t \in Tabs :
       \/ Load(t) \/ Loaded(t) \/ Decide(t) \/ Answer(t)
       \/ \E m \in Messages, status \in {"approved", "rejected"} : Click(t, m, status)

Spec == Init /\ [][Next]_vars

-------------------------------------------------------------------------------
(* A decision stands: what was sent or turned down stays so, an approval ends   *)
(* only by the message going out or its time running out, and nothing goes out  *)
(* unapproved, however old the lists the clicks were made on                    *)
(* (telegramQueue.ts:77: "makes a stale click update nothing").                 *)
Stands ==
  \A m \in Messages :
    LET old == rows[m].status
        new == rows'[m].status IN
    /\ old \in {"sent", "rejected"} => new = old
    /\ old = "approved" => new \in {"approved", "sent"} \/ (new = "rejected" /\ rows[m].late)
    /\ new = "sent" => old \in {"sent", "approved"}
===============================================================================
