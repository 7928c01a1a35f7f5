------------------------------ MODULE AdminProofs ------------------------------
(* What the admin's pages promise, for any number of tabs, texts and bounds: a   *)
(* decision on a queued message stands, a form's row says what was chosen, and a *)
(* closed offer is this offer; and of the accounts, for any number of them and   *)
(* of browsers: a finished activation covers everybody, one write reaches no row *)
(* its caller does not own, and a read is answered by the rows it means. Each    *)
(* machine of MCAdmin has an inductive invariant of its own; the others leave it *)
(* alone.                                                                        *)
EXTENDS MCAdmin, FiniteSetTheorems, SequenceTheorems, TLAPS

-------------------------------------------------------------------------------
(* The Telegram queue: a decision stands *)

Statuses == {"none", "pending", "approved", "rejected", "sent"}
Decisions == [on : Messages \cup {"nothing"}, asks : {"approved", "rejected"},
              took : {"unknown", "yes", "no"}]
QueuePages == [pending : SUBSET Messages, owes : BOOLEAN, answers : SUBSET SUBSET Messages,
               decision : Decisions]

QueueInv ==
  /\ rows \in [Messages -> [status : Statuses, late : BOOLEAN]]
  /\ pages \in [Tabs -> QueuePages]

\* A row is written by one field.
LEMMA Rewritten ==
  ASSUME QueueInv, NEW m \in Messages, NEW status \in Statuses,
         rows' = [rows EXCEPT ![m].status = status]
  PROVE  /\ rows' \in [Messages -> [status : Statuses, late : BOOLEAN]]
         /\ rows'[m].status = status
         /\ \A n \in Messages : n # m => rows'[n] = rows[n]
<1>1. rows[m] \in [status : Statuses, late : BOOLEAN]
  BY DEF QueueInv
<1>2. [rows[m] EXCEPT !.status = status] \in [status : Statuses, late : BOOLEAN]
  BY <1>1
<1>3. rows' = [rows EXCEPT ![m] = [rows[m] EXCEPT !.status = status]]
  BY DEF QueueInv
<1>4. rows'[m] = [rows[m] EXCEPT !.status = status]
  BY <1>3 DEF QueueInv
<1>5. rows'[m].status = status
  BY <1>1, <1>4
<1>6. \A n \in Messages : n # m => rows'[n] = rows[n]
  BY <1>3 DEF QueueInv
<1>7. rows' \in [Messages -> [status : Statuses, late : BOOLEAN]]
  BY <1>2, <1>3 DEF QueueInv
<1> QED
  BY <1>5, <1>6, <1>7

LEMMA NudgedPages ==
  ASSUME QueueInv
  PROVE  /\ Queue!Nudged \in [Tabs -> QueuePages]
         /\ \A t \in Tabs : Queue!Nudged[t].decision = pages[t].decision
<1>1. ASSUME NEW t \in Tabs
      PROVE  /\ [pages[t] EXCEPT !.owes = TRUE] \in QueuePages
             /\ [pages[t] EXCEPT !.owes = TRUE].decision = pages[t].decision
  <2>1. pages[t] \in QueuePages
    BY DEF QueueInv
  <2> QED
    BY <2>1 DEF QueuePages
<1> QED
  BY <1>1 DEF Queue!Nudged

\* What a step does to the status of a message.
Fits(m) ==
  LET old == rows[m].status
      new == rows'[m].status IN
  /\ old \in {"sent", "rejected"} => new = old
  /\ old = "approved" => new \in {"approved", "sent"} \/ (new = "rejected" /\ rows[m].late)
  /\ new = "sent" => old \in {"sent", "approved"}

LEMMA WriteKeeps ==
  ASSUME QueueInv, NEW m \in Messages, NEW status \in Statuses, Queue!Write(m, status),
         \/ rows[m].status = "none" /\ status = "pending"
         \/ rows[m].status = "pending" /\ status = "rejected"
         \/ rows[m].status = "approved" /\ status = "rejected" /\ rows[m].late
         \/ rows[m].status = "approved" /\ status = "sent"
  PROVE  QueueInv' /\ Queue!Stands
<1>1. rows' = [rows EXCEPT ![m].status = status] /\ pages' = Queue!Nudged
  BY DEF Queue!Write
<1>2. QueueInv'
  BY <1>1, Rewritten, NudgedPages DEF QueueInv
<1>3. Queue!Stands
  BY <1>1, Rewritten DEF Queue!Stands
<1> QED
  BY <1>2, <1>3

LEMMA GeneratorKeeps ==
  ASSUME QueueInv, NEW m \in Messages, Queue!Enqueue(m) \/ Queue!Expire(m) \/ Queue!Tick(m)
  PROVE  QueueInv' /\ Queue!Stands
<1>1. CASE Queue!Enqueue(m)
  BY <1>1, WriteKeeps DEF Queue!Enqueue, Statuses
<1>2. CASE Queue!Tick(m)
  <2>1. rows[m].status \in Statuses /\ "rejected" \in Statuses /\ "sent" \in Statuses
    BY DEF QueueInv, Statuses
  <2> QED
    BY <1>2, <2>1, WriteKeeps DEF Queue!Tick
<1>3. CASE Queue!Expire(m)
  <2>1. rows' = [rows EXCEPT ![m].late = TRUE] /\ pages' = pages
    BY <1>3 DEF Queue!Expire
  <2>2. rows[m] \in [status : Statuses, late : BOOLEAN]
    BY DEF QueueInv
  <2>3. rows' = [rows EXCEPT ![m] = [rows[m] EXCEPT !.late = TRUE]]
    BY <2>1 DEF QueueInv
  <2>4. /\ [rows[m] EXCEPT !.late = TRUE] \in [status : Statuses, late : BOOLEAN]
        /\ [rows[m] EXCEPT !.late = TRUE].status = rows[m].status
    BY <2>2
  <2>5. rows' \in [Messages -> [status : Statuses, late : BOOLEAN]]
        /\ \A n \in Messages : rows'[n].status = rows[n].status
    BY <2>3, <2>4 DEF QueueInv
  <2> QED
    BY <2>1, <2>5 DEF QueueInv, Queue!Stands
<1> QED
  BY <1>1, <1>2, <1>3

LEMMA PageKeeps ==
  ASSUME QueueInv, NEW t \in Tabs, NEW p \in QueuePages, Queue!At(t, p), UNCHANGED rows
  PROVE  QueueInv' /\ Queue!Stands
BY DEF QueueInv, Queue!At, Queue!Stands

\* The hub changes a row only if it is still pending.
LEMMA DecideKeeps ==
  ASSUME QueueInv, NEW t \in Tabs, Queue!Decide(t)
  PROVE  QueueInv' /\ Queue!Stands
<1> DEFINE d == pages[t].decision
<1>1. pages[t] \in QueuePages /\ d \in Decisions /\ d.on \in Messages /\ d.asks \in {"approved", "rejected"}
  BY DEF QueueInv, QueuePages, Decisions, Queue!Decide
<1>2. CASE rows[d.on].status = "pending"
  <2>1. /\ rows' = [rows EXCEPT ![d.on].status = d.asks]
        /\ pages' = [Queue!Nudged EXCEPT ![t].decision.took = "yes"]
    BY <1>2 DEF Queue!Decide
  <2> DEFINE q == Queue!Nudged[t]
  <2>2. q \in QueuePages /\ q.decision \in Decisions /\ Queue!Nudged \in [Tabs -> QueuePages]
    BY NudgedPages DEF QueuePages
  <2>3. [q.decision EXCEPT !.took = "yes"] \in Decisions
    BY <2>2 DEF Decisions
  <2>4. [q EXCEPT !.decision = [q.decision EXCEPT !.took = "yes"]] \in QueuePages
    BY <2>2, <2>3 DEF QueuePages
  <2>5. pages' = [Queue!Nudged EXCEPT ![t] = [q EXCEPT !.decision = [q.decision EXCEPT !.took = "yes"]]]
    BY <2>1, <2>2
  <2>6. pages' \in [Tabs -> QueuePages]
    <3> HIDE DEF q
    <3> QED BY <2>2, <2>4, <2>5
  <2>7. d.asks \in Statuses
    BY <1>1 DEF Statuses
  <2> HIDE DEF d
  <2>8. QueueInv' /\ Queue!Stands
    BY <1>1, <1>2, <2>1, <2>6, <2>7, Rewritten DEF QueueInv, Queue!Stands
  <2> QED
    BY <2>8
<1>3. CASE rows[d.on].status # "pending"
  <2>1. UNCHANGED rows /\ Queue!At(t, [pages[t] EXCEPT !.decision.took = "no"])
    BY <1>3 DEF Queue!Decide
  <2>2. [d EXCEPT !.took = "no"] \in Decisions
    BY <1>1 DEF Decisions
  <2>3. [pages[t] EXCEPT !.decision = [d EXCEPT !.took = "no"]] \in QueuePages
    BY <1>1, <2>2 DEF QueuePages
  <2>4. [pages[t] EXCEPT !.decision.took = "no"] = [pages[t] EXCEPT !.decision = [d EXCEPT !.took = "no"]]
    OBVIOUS
  <2> HIDE DEF d
  <2> QED
    BY <2>1, <2>3, <2>4, PageKeeps
<1> QED
  BY <1>2, <1>3

LEMMA TabKeeps ==
  ASSUME QueueInv, NEW t \in Tabs,
         \/ Queue!Load(t) \/ Queue!Loaded(t) \/ Queue!Answer(t)
         \/ \E m \in Messages, status \in {"approved", "rejected"} : Queue!Click(t, m, status)
  PROVE  QueueInv' /\ Queue!Stands
<1>0. pages[t] \in QueuePages
  BY DEF QueueInv
<1>1. CASE Queue!Load(t)
  <2> DEFINE pending == {m \in Messages : rows[m].status = "pending"}
  <2>1. [pages[t] EXCEPT !.owes = FALSE, !.answers = @ \cup {pending}] \in QueuePages
    BY <1>0 DEF QueuePages
  <2> QED
    BY <1>1, <2>1, PageKeeps DEF Queue!Load
<1>2. CASE Queue!Loaded(t)
  <2>1. PICK answer \in pages[t].answers :
          \/ Queue!At(t, [pages[t] EXCEPT !.pending = answer, !.answers = @ \ {answer}])
          \/ Queue!At(t, [pages[t] EXCEPT !.answers = @ \ {answer}])
    BY <1>2 DEF Queue!Loaded
  <2>2. answer \in SUBSET Messages
    BY <1>0 DEF QueuePages
  <2>3. /\ [pages[t] EXCEPT !.pending = answer, !.answers = @ \ {answer}] \in QueuePages
        /\ [pages[t] EXCEPT !.answers = @ \ {answer}] \in QueuePages
    BY <1>0, <2>2 DEF QueuePages
  <2>4. UNCHANGED rows
    BY <1>2 DEF Queue!Loaded
  <2> QED
    BY <2>1, <2>3, <2>4, PageKeeps
<1>3. CASE Queue!Answer(t)
  <2>1. Queue!NoDecision \in Decisions
    BY DEF Queue!NoDecision, Decisions
  <2>2. /\ [pages[t] EXCEPT !.decision = Queue!NoDecision, !.owes = TRUE] \in QueuePages
        /\ [pages[t] EXCEPT !.decision = Queue!NoDecision] \in QueuePages
    BY <1>0, <2>1 DEF QueuePages
  <2> QED
    BY <1>3, <2>2, PageKeeps DEF Queue!Answer
<1>4. ASSUME NEW m \in Messages, NEW status \in {"approved", "rejected"}, Queue!Click(t, m, status)
      PROVE  QueueInv' /\ Queue!Stands
  <2>1. [on |-> m, asks |-> status, took |-> "unknown"] \in Decisions
    BY DEF Decisions
  <2>2. [pages[t] EXCEPT !.decision = [on |-> m, asks |-> status, took |-> "unknown"]] \in QueuePages
    BY <1>0, <2>1 DEF QueuePages
  <2> QED
    BY <1>4, <2>2, PageKeeps DEF Queue!Click
<1> QED
  BY <1>1, <1>2, <1>3, <1>4

LEMMA QueueInit == Queue!Init => QueueInv
<1> SUFFICES ASSUME Queue!Init PROVE QueueInv
  OBVIOUS
<1>1. Queue!NoDecision \in Decisions
  BY DEF Queue!NoDecision, Decisions
<1>2. [pending |-> {}, owes |-> TRUE, answers |-> {}, decision |-> Queue!NoDecision] \in QueuePages
  BY <1>1 DEF QueuePages
<1> QED
  BY <1>2 DEF Queue!Init, QueueInv, Statuses

LEMMA QueueNext == QueueInv /\ Queue!Next => QueueInv' /\ Queue!Stands
BY GeneratorKeeps, TabKeeps, DecideKeeps DEF Queue!Next

\* A decision stands, whatever the lists the clicks were made on, for any number of
\* tabs and answers on their way (telegramQueue.ts:77: "makes a stale click update
\* nothing").
THEOREM QueueDecisionsStand == AdminSpec => DecisionsStand
<1> DEFINE Inv == which = "queue" => QueueInv
<1>1. AdminInit => Inv
  BY QueueInit DEF AdminInit
<1>2. Inv /\ [AdminNext]_<<vars, which, rows, pages, past>> => Inv'
  <2> SUFFICES ASSUME Inv, [AdminNext]_<<vars, which, rows, pages, past>> PROVE Inv'
    OBVIOUS
  <2>1. CASE UNCHANGED <<vars, which, rows, pages, past>>
    BY <2>1 DEF QueueInv
  <2>2. CASE AdminNext
    BY <2>2, QueueNext DEF AdminNext
  <2> QED
    BY <2>1, <2>2
<1>3. Inv /\ [AdminNext]_<<vars, which, rows, pages, past>> => [which = "queue" => Queue!Stands]_<<which, rows>>
  BY QueueNext DEF AdminNext
<1> QED
  BY <1>1, <1>2, <1>3, PTL DEF AdminSpec, DecisionsStand

-------------------------------------------------------------------------------
(* The forms: a row says what was chosen                                   *)
(*                                                                         *)
(* A field of a form that nobody touched is as it stands in the row the    *)
(* form was loaded from, and so is a field of a write under way. When the  *)
(* row is still that row, the write leaves what was chosen before.         *)

Kinds == DOMAIN Forms!CardsOf
Shape == [flag : BOOLEAN, text : BOOLEAN]
FormRows == Forms!Content \cup {Absent}
Bases == FormRows \cup {Unread}

\* Untouched fields are those of the row the content was made from.
FieldsKept(content, touched, base) ==
  /\ touched.flag \/ content.flag = Forms!Shown(base).flag
  /\ touched.text \/ content.text = Forms!Shown(base).text

Sending(cards, sent) ==
  /\ sent.card \in cards /\ sent.content \in Forms!Content /\ sent.touched \in Shape
  /\ sent.base \in Bases /\ FieldsKept(sent.content, sent.touched, sent.base)

Fields == {"op", "loads", "busy", "loaded", "form", "touched", "base", "sent"}

PageOK(cards, p) ==
  /\ DOMAIN p = Fields
  /\ p.form \in [cards -> Forms!Content] /\ p.touched \in [cards -> Shape]
  /\ p.base \in [cards -> Bases]
  /\ \A c \in cards : /\ FieldsKept(p.form[c], p.touched[c], p.base[c])
                      /\ c # "telegram" => ~p.touched[c].flag
  /\ p.op \in {"write", "landed"} => Sending(cards, p.sent)

PastOK(cards) ==
  /\ DOMAIN past = {"kind", "chosen", "excused", "edits", "saves", "faults"}
  /\ past.chosen \in [cards -> Forms!Content] /\ past.excused \in SUBSET cards

FormsOK(cards) ==
  /\ rows \in [cards -> FormRows] /\ PastOK(cards)
  /\ pages = [t \in Tabs |-> pages[t]] /\ \A t \in Tabs : PageOK(cards, pages[t])
  /\ \A c \in cards : c \in past.excused \/ Forms!Shown(rows[c]) = past.chosen[c]

FormsInv == past.kind \in Kinds /\ FormsOK(Forms!Cards)

LEMMA ShownIs ==
  /\ Forms!Default \in Forms!Content
  /\ Forms!Shown(Absent) = Forms!Default /\ Forms!Shown(Unread) = Forms!Default
  /\ \A row \in Forms!Content : Forms!Shown(row) = row
  /\ \A row \in Bases : Forms!Shown(row) \in Forms!Content
<1>1. Forms!Default \in Forms!Content
  BY FormsAssumption DEF Forms!FormsAssumption, Forms!Default, Forms!Content
<1>2. \A row \in Forms!Content : Forms!Shown(row) = row
  BY FormsAssumption DEF Forms!FormsAssumption, Forms!Content, Forms!Shown
<1>3. Forms!Shown(Absent) = Forms!Default /\ Forms!Shown(Unread) = Forms!Default
  BY DEF Forms!Shown
<1> QED
  BY <1>1, <1>2, <1>3 DEF Bases, FormRows

LEMMA FormsStart == Forms!Init => FormsInv
<1> SUFFICES ASSUME NEW kind \in DOMAIN Forms!CardsOf, Forms!InitOf(kind) PROVE FormsInv
  BY DEF Forms!Init
<1> DEFINE cards == Forms!CardsOf[kind]
<1>1. past = [kind |-> kind, chosen |-> [c \in cards |-> Forms!Default], excused |-> {},
              edits |-> 0, saves |-> 0, faults |-> 0]
  BY DEF Forms!InitOf
<1>2. past.kind = kind /\ Forms!Cards = cards
  BY <1>1 DEF Forms!Cards, Forms!Kind
<1>3. PastOK(cards)
  <2>1. past.chosen \in [cards -> Forms!Content]
    <3> HIDE DEF cards
    <3> QED BY <1>1, ShownIs
  <2> HIDE DEF cards
  <2> QED BY <1>1, <2>1 DEF PastOK
<1>4. rows = [c \in cards |-> Absent] /\ pages = [t \in Tabs |-> Forms!Opened]
  BY DEF Forms!InitOf
<1> HIDE DEF cards
<1>5. PageOK(cards, Forms!Opened)
  <2>1. Forms!Nobody \in Shape
    BY DEF Forms!Nobody, Shape
  <2> QED
    BY <1>2, <2>1, ShownIs DEF Forms!Opened, PageOK, Fields, FieldsKept, Forms!Nobody, Bases, FormRows
<1>6. \A c \in cards : Forms!Shown(rows[c]) = past.chosen[c]
  BY <1>1, <1>4, ShownIs
<1>7. FormsOK(cards)
  BY <1>3, <1>4, <1>5, <1>6 DEF FormsOK, FormRows
<1> QED
  BY <1>2, <1>7 DEF FormsInv, Kinds

\* What is spent changes nothing else.
LEMMA Spending ==
  ASSUME FormsInv, NEW b \in {"edits", "saves", "faults"}, NEW most,
         Forms!Spend(b, most) \/ UNCHANGED past
  PROVE  /\ DOMAIN past' = DOMAIN past /\ past'.kind = past.kind
         /\ past'.chosen = past.chosen /\ past'.excused = past.excused
         /\ Forms!Cards' = Forms!Cards
<1>1. /\ DOMAIN past' = DOMAIN past /\ past'.kind = past.kind
      /\ past'.chosen = past.chosen /\ past'.excused = past.excused
  BY DEF Forms!Spend, FormsInv, FormsOK, PastOK
<1> QED
  BY <1>1 DEF Forms!Cards, Forms!Kind

\* A step that changes one page, and leaves it in order.
LEMMA PageChanges ==
  ASSUME FormsInv, NEW b \in {"edits", "saves", "faults"}, NEW most,
         Forms!Spend(b, most) \/ UNCHANGED past, UNCHANGED rows,
         NEW t \in Tabs, NEW q, PageOK(Forms!Cards, q), pages' = [pages EXCEPT ![t] = q]
  PROVE  FormsInv'
<1>1. /\ DOMAIN past' = DOMAIN past /\ past'.kind = past.kind
      /\ past'.chosen = past.chosen /\ past'.excused = past.excused
      /\ Forms!Cards' = Forms!Cards
  BY Spending
<1>2. PICK cards : cards = Forms!Cards
  OBVIOUS
<1>3. FormsOK(cards)
  BY <1>2 DEF FormsInv
<1>4. pages' = [u \in Tabs |-> pages'[u]] /\ \A u \in Tabs : PageOK(cards, pages'[u])
  BY <1>2, <1>3 DEF FormsOK
<1>5. FormsOK(cards)'
  BY <1>1, <1>3, <1>4 DEF FormsOK, PastOK
<1> QED
  BY <1>1, <1>2, <1>5 DEF FormsInv

LEMMA FormLoadKeeps ==
  ASSUME FormsInv, NEW t \in Tabs, Forms!Load(t)
  PROVE  FormsInv'
<1> DEFINE p == pages[t]
<1>1. PICK w \in p.loads, fails \in BOOLEAN :
        /\ IF fails THEN Forms!Spend("faults", MaxFaults) ELSE UNCHANGED past
        /\ pages' = [pages EXCEPT ![t] =
             [p EXCEPT !.loads = p.loads \ {w}, !.loaded = TRUE,
                       !.op = IF w = "after" THEN "idle" ELSE p.op,
                       !.busy = p.busy /\ w # "after",
                       !.form = [c \in Forms!Cards |-> IF fails THEN Forms!Default ELSE Forms!Shown(rows[c])],
                       !.base = [c \in Forms!Cards |-> IF fails THEN Unread ELSE rows[c]],
                       !.touched = [c \in Forms!Cards |-> Forms!Nobody]]]
  BY DEF Forms!Load
<1>2. PICK cards : cards = Forms!Cards
  OBVIOUS
<1>3. FormsOK(cards) /\ PageOK(cards, p)
  BY <1>2 DEF FormsInv, FormsOK
<1> DEFINE form == [c \in cards |-> IF fails THEN Forms!Default ELSE Forms!Shown(rows[c])]
           base == [c \in cards |-> IF fails THEN Unread ELSE rows[c]]
           none == [c \in cards |-> Forms!Nobody]
           op == IF w = "after" THEN "idle" ELSE p.op
           busy == p.busy /\ w # "after"
           loads == p.loads \ {w}
           q == [p EXCEPT !.loads = loads, !.loaded = TRUE, !.op = op, !.busy = busy,
                          !.form = form, !.base = base, !.touched = none]
<1>4. pages' = [pages EXCEPT ![t] = q]
  BY <1>1, <1>2
<1>5. form \in [cards -> Forms!Content] /\ base \in [cards -> Bases] /\ none \in [cards -> Shape]
  BY <1>3, ShownIs DEF FormsOK, Bases, FormRows, Shape, Forms!Nobody
<1>6. \A c \in cards : FieldsKept(form[c], none[c], base[c]) /\ ~none[c].flag
  BY ShownIs DEF FieldsKept, Forms!Nobody
<1>7. op \in {"write", "landed"} => op = p.op
  OBVIOUS
<1> HIDE DEF form, base, none, op, busy, loads
<1>8. /\ DOMAIN q = Fields /\ q.form = form /\ q.base = base /\ q.touched = none
      /\ q.op = op /\ q.sent = p.sent
  BY <1>3 DEF PageOK, Fields
<1> HIDE DEF q, p
<1>9. PageOK(cards, q)
  BY <1>3, <1>5, <1>6, <1>7, <1>8 DEF PageOK
<1> QED
  BY <1>1, <1>2, <1>4, <1>9, PageChanges DEF Forms!Load

LEMMA ReopenKeeps ==
  ASSUME FormsInv, NEW t \in Tabs, Forms!Reopen(t)
  PROVE  FormsInv'
<1>1. PageOK(Forms!Cards, Forms!Opened)
  <2>1. Forms!Nobody \in Shape
    BY DEF Forms!Nobody, Shape
  <2> QED
    BY <2>1, ShownIs DEF Forms!Opened, PageOK, Fields, FieldsKept, Forms!Nobody, Bases, FormRows
<1> QED
  BY <1>1, PageChanges DEF Forms!Reopen

LEMMA TypeKeeps ==
  ASSUME FormsInv, NEW t \in Tabs, NEW c \in Forms!Cards, NEW x \in Texts, Forms!Type(t, c, x)
  PROVE  FormsInv'
<1> DEFINE p == pages[t]
<1>1. PICK cards : cards = Forms!Cards
  OBVIOUS
<1>2. FormsOK(cards) /\ PageOK(cards, p) /\ c \in cards
  BY <1>1 DEF FormsInv, FormsOK
<1> DEFINE f == [p.form[c] EXCEPT !.text = x]
           g == [p.touched[c] EXCEPT !.text = TRUE]
           form == [p.form EXCEPT ![c] = f]
           touched == [p.touched EXCEPT ![c] = g]
           q == [p EXCEPT !.form = form, !.touched = touched]
<1>3. p.form[c] \in Forms!Content /\ p.touched[c] \in Shape
  BY <1>2 DEF PageOK
<1>4. /\ f \in Forms!Content /\ f.flag = p.form[c].flag
      /\ g \in Shape /\ g.text /\ g.flag = p.touched[c].flag
  BY <1>3 DEF Forms!Content, Shape
<1>5. pages' = [pages EXCEPT ![t] = q]
  <2>1. pages' = [pages EXCEPT ![t].form[c].text = x, ![t].touched[c].text = TRUE]
    BY DEF Forms!Type
  <2> QED
    BY <1>2, <2>1 DEF FormsOK, PageOK, Fields
<1> HIDE DEF f, g
<1>6. /\ form \in [cards -> Forms!Content] /\ touched \in [cards -> Shape]
      /\ form[c] = f /\ touched[c] = g
      /\ \A d \in cards \ {c} : form[d] = p.form[d] /\ touched[d] = p.touched[d]
  BY <1>2, <1>4 DEF PageOK
<1> HIDE DEF form, touched
<1>7. /\ DOMAIN q = Fields /\ q.form = form /\ q.touched = touched /\ q.base = p.base
      /\ q.op = p.op /\ q.sent = p.sent
  BY <1>2 DEF PageOK, Fields
<1> HIDE DEF q, p
<1>8. \A d \in cards : /\ FieldsKept(q.form[d], q.touched[d], q.base[d])
                       /\ d # "telegram" => ~q.touched[d].flag
  BY <1>2, <1>4, <1>6, <1>7 DEF PageOK, FieldsKept
<1>9. PageOK(cards, q)
  BY <1>2, <1>6, <1>7, <1>8 DEF PageOK
<1> QED
  BY <1>1, <1>5, <1>9, PageChanges DEF Forms!Type

\* A write keeps what it does not say it touches, and the switch shown before its time.
LEMMA FormWriteKeeps ==
  ASSUME NEW base \in Bases, NEW form \in Forms!Content, NEW told \in Shape,
         FieldsKept(form, told, base), NEW choice \in BOOLEAN, NEW blank \in BOOLEAN,
         NEW content \in Forms!Content, content.flag = choice,
         ~blank => content.text = form.text,
         NEW touched, touched = [flag |-> told.flag \/ choice # form.flag,
                                 text |-> told.text \/ blank]
  PROVE  touched \in Shape /\ FieldsKept(content, touched, base)
<1>1. touched \in Shape
  BY DEF Shape
<1>2. touched.flag \/ content.flag = Forms!Shown(base).flag
  <2> SUFFICES ASSUME ~touched.flag PROVE content.flag = Forms!Shown(base).flag
    OBVIOUS
  <2>1. ~told.flag /\ choice = form.flag
    OBVIOUS
  <2> QED
    BY <2>1 DEF FieldsKept
<1>3. touched.text \/ content.text = Forms!Shown(base).text
  <2> SUFFICES ASSUME ~touched.text PROVE content.text = Forms!Shown(base).text
    OBVIOUS
  <2>1. ~told.text /\ ~blank
    OBVIOUS
  <2> QED
    BY <2>1 DEF FieldsKept
<1> QED
  BY <1>1, <1>2, <1>3 DEF FieldsKept

LEMMA WriteSent ==
  ASSUME NEW cards, NEW c \in cards, NEW content \in Forms!Content, NEW touched \in Shape,
         NEW base \in Bases, FieldsKept(content, touched, base)
  PROVE  Sending(cards, [card |-> c, content |-> content, touched |-> touched, base |-> base])
<1> DEFINE sent == [card |-> c, content |-> content, touched |-> touched, base |-> base]
<1>1. sent.card = c /\ sent.content = content /\ sent.touched = touched /\ sent.base = base
  OBVIOUS
<1> HIDE DEF sent
<1>2. Sending(cards, sent)
  BY <1>1 DEF Sending
<1> QED
  BY <1>2 DEF sent

LEMMA SaveKeeps ==
  ASSUME FormsInv, NEW t \in Tabs, NEW c \in Forms!Cards, NEW choice \in BOOLEAN,
         Forms!Save(t, c, choice)
  PROVE  FormsInv'
<1> DEFINE p == pages[t]
<1>1. PICK cards : cards = Forms!Cards
  OBVIOUS
<1>2. FormsOK(cards) /\ PageOK(cards, p) /\ c \in cards
  BY <1>1 DEF FormsInv, FormsOK
<1> DEFINE told == p.touched[c]
           touched == [flag |-> told.flag \/ choice # p.form[c].flag,
                       text |-> told.text \/ Forms!Blanks(c, choice)]
           content == Forms!Written(t, c, choice)
           sent == [card |-> c, content |-> content, touched |-> touched, base |-> p.base[c]]
           f == [p.form[c] EXCEPT !.flag = IF c = "telegram" THEN choice ELSE p.form[c].flag]
           g == [told EXCEPT !.flag = c = "telegram" /\ touched.flag]
           form == [p.form EXCEPT ![c] = f]
           touches == [p.touched EXCEPT ![c] = g]
           q == [p EXCEPT !.busy = TRUE, !.op = "write", !.sent = sent,
                          !.form = form, !.touched = touches]
<1>3. /\ p.form[c] \in Forms!Content /\ told \in Shape /\ p.base[c] \in Bases
      /\ FieldsKept(p.form[c], told, p.base[c]) /\ (c # "telegram" => ~told.flag)
  BY <1>2 DEF PageOK
<1>4. /\ content \in Forms!Content /\ content.flag = choice
      /\ ~Forms!Blanks(c, choice) => content.text = p.form[c].text
  BY <1>3, FormsAssumption DEF Forms!Written, Forms!Content, Forms!FormsAssumption
<1>5. Forms!Blanks(c, choice) \in BOOLEAN
  BY DEF Forms!Blanks
<1>6. touched \in Shape /\ FieldsKept(content, touched, p.base[c])
  <2>1. touched = [flag |-> told.flag \/ choice # p.form[c].flag,
                   text |-> told.text \/ Forms!Blanks(c, choice)]
    OBVIOUS
  <2> HIDE DEF touched, content, told, f, g, form, touches, q, sent, p
  <2> QED
    BY <1>3, <1>4, <1>5, <2>1, FormWriteKeeps
<1>7. Sending(cards, sent)
  <2>1. sent = [card |-> c, content |-> content, touched |-> touched, base |-> p.base[c]]
    OBVIOUS
  <2> HIDE DEF touched, content, told, f, g, form, touches, q, sent, p
  <2> QED
    BY <1>2, <1>3, <1>4, <1>6, <2>1, WriteSent
<1>8. /\ f \in Forms!Content /\ f.text = p.form[c].text
      /\ f.flag = IF c = "telegram" THEN choice ELSE p.form[c].flag
      /\ g \in Shape /\ g.text = told.text /\ g.flag = (c = "telegram" /\ touched.flag)
  BY <1>3, <1>6 DEF Forms!Content, Shape
<1>9. touched.flag = (told.flag \/ choice # p.form[c].flag)
  OBVIOUS
<1>10. pages' = [pages EXCEPT ![t] = q]
  <2>1. pages' = [pages EXCEPT ![t] =
          [p EXCEPT !.busy = TRUE, !.op = "write", !.sent = sent,
                    !.form[c].flag = IF c = "telegram" THEN choice ELSE @,
                    !.touched[c].flag = c = "telegram" /\ touched.flag]]
    BY DEF Forms!Save
  <2> HIDE DEF sent, touched
  <2>2. [p EXCEPT !.busy = TRUE, !.op = "write", !.sent = sent,
                  !.form[c].flag = IF c = "telegram" THEN choice ELSE @,
                  !.touched[c].flag = c = "telegram" /\ touched.flag] = q
    BY <1>2 DEF PageOK, Fields
  <2> QED
    BY <2>1, <2>2
<1> HIDE DEF f, g, sent, touched, content
<1>11. /\ form \in [cards -> Forms!Content] /\ touches \in [cards -> Shape]
       /\ form[c] = f /\ touches[c] = g
       /\ \A d \in cards \ {c} : form[d] = p.form[d] /\ touches[d] = p.touched[d]
  BY <1>2, <1>8 DEF PageOK
<1> HIDE DEF form, touches
<1>12. /\ DOMAIN q = Fields /\ q.form = form /\ q.touched = touches /\ q.base = p.base
       /\ q.sent = sent
  BY <1>2 DEF PageOK, Fields
<1>13. FieldsKept(f, g, p.base[c]) /\ (c # "telegram" => ~g.flag)
  BY <1>3, <1>8, <1>9 DEF FieldsKept
<1> HIDE DEF q, p, told
<1>14. \A d \in cards : /\ FieldsKept(q.form[d], q.touched[d], q.base[d])
                        /\ d # "telegram" => ~q.touched[d].flag
  BY <1>2, <1>11, <1>12, <1>13 DEF PageOK
<1>15. PageOK(cards, q)
  BY <1>2, <1>7, <1>11, <1>12, <1>14 DEF PageOK
<1> QED
  BY <1>1, <1>10, <1>15, PageChanges DEF Forms!Save

\* The row that a write replaces is the one its form was loaded from, and the fields
\* the form did not touch are as they were chosen; or the row is excused.
LEMMA LandsKeeps ==
  ASSUME FormsInv, NEW t \in Tabs, Forms!Lands(t)
  PROVE  FormsInv'
<1> DEFINE p == pages[t]
           sent == p.sent
           k == sent.card
<1>1. PICK cards : cards = Forms!Cards
  OBVIOUS
<1>2. FormsOK(cards) /\ PageOK(cards, p)
  BY <1>1 DEF FormsInv, FormsOK
<1>3. p.op = "write" /\ Sending(cards, sent)
  BY <1>2 DEF Forms!Lands, PageOK
<1>4. /\ k \in cards /\ sent.content \in Forms!Content /\ sent.touched \in Shape
      /\ sent.base \in Bases /\ FieldsKept(sent.content, sent.touched, sent.base)
  BY <1>3 DEF Sending
<1> DEFINE old == past.chosen[k]
           new == [flag |-> IF sent.touched.flag THEN sent.content.flag ELSE old.flag,
                   text |-> IF sent.touched.text THEN sent.content.text ELSE old.text]
           q == [p EXCEPT !.op = "landed"]
<1>5. pages' = [pages EXCEPT ![t] = q]
  BY <1>2 DEF Forms!Lands, FormsOK
<1>6. DOMAIN q = Fields /\ q.form = p.form /\ q.base = p.base /\ q.touched = p.touched
      /\ q.op = "landed" /\ q.sent = p.sent
  BY <1>2 DEF PageOK, Fields
<1>7. PageOK(cards, q)
  BY <1>2, <1>3, <1>6 DEF PageOK
<1>8. rows' = [rows EXCEPT ![k] = sent.content]
  BY DEF Forms!Lands
<1>9. /\ DOMAIN past' = DOMAIN past /\ past'.kind = past.kind
      /\ past'.chosen = [past.chosen EXCEPT ![k] = new]
      /\ past'.excused = IF sent.base # rows[k] THEN past.excused \cup {k} ELSE past.excused
  <2>1. past' = [past EXCEPT
          !.chosen[k] = [flag |-> IF sent.touched.flag THEN sent.content.flag ELSE @.flag,
                         text |-> IF sent.touched.text THEN sent.content.text ELSE @.text],
          !.excused = IF sent.base # rows[k] THEN @ \cup {k} ELSE @]
    BY DEF Forms!Lands
  <2> HIDE DEF sent, k
  <2>2. past' = [past EXCEPT !.chosen = [past.chosen EXCEPT ![k] = new],
                   !.excused = IF sent.base # rows[k] THEN past.excused \cup {k} ELSE past.excused]
    BY <1>2, <2>1 DEF FormsOK, PastOK
  <2> HIDE DEF new
  <2> QED
    BY <1>2, <2>2 DEF FormsOK, PastOK
<1>10. past.chosen[k] \in Forms!Content
  BY <1>2, <1>4 DEF FormsOK, PastOK
<1>11. new \in Forms!Content
  BY <1>4, <1>10 DEF Forms!Content, Shape
<1>12. Forms!Shown(sent.content) = sent.content
  BY <1>4, ShownIs
<1>13. sent.base # rows[k] \/ k \in past.excused \/ new = sent.content
  <2> SUFFICES ASSUME sent.base = rows[k], k \notin past.excused PROVE new = sent.content
    OBVIOUS
  <2>1. Forms!Shown(sent.base) = old
    BY <1>2, <1>4 DEF FormsOK
  <2>2. new.flag = sent.content.flag /\ new.text = sent.content.text
    BY <1>4, <2>1 DEF FieldsKept
  <2> HIDE DEF new
  <2> QED
    BY <1>4, <1>11, <2>2 DEF Forms!Content
<1> HIDE DEF new, old, k, sent, q, p
<1>14. FormsOK(cards)'
  <2>1. rows' \in [cards -> FormRows]
    BY <1>2, <1>4, <1>8 DEF FormsOK, FormRows
  <2>2. PastOK(cards)'
    BY <1>2, <1>4, <1>9, <1>11 DEF FormsOK, PastOK
  <2>3. pages' = [u \in Tabs |-> pages'[u]] /\ \A u \in Tabs : PageOK(cards, pages'[u])
    BY <1>2, <1>5, <1>7 DEF FormsOK
  <2>4. ASSUME NEW d \in cards PROVE d \in past'.excused \/ Forms!Shown(rows'[d]) = past'.chosen[d]
    <3>1. CASE d = k
      BY <1>2, <1>4, <1>8, <1>9, <1>12, <1>13, <3>1 DEF FormsOK, PastOK
    <3>2. CASE d # k
      BY <1>2, <1>8, <1>9, <3>2 DEF FormsOK, PastOK
    <3> QED
      BY <3>1, <3>2
  <2> QED
    BY <2>1, <2>2, <2>3, <2>4 DEF FormsOK
<1>15. Forms!Cards' = Forms!Cards
  BY <1>9 DEF Forms!Cards, Forms!Kind
<1> QED
  BY <1>1, <1>9, <1>14, <1>15 DEF FormsInv

LEMMA AnswerKeeps ==
  ASSUME FormsInv, NEW t \in Tabs, Forms!Answer(t)
  PROVE  FormsInv'
<1> DEFINE p == pages[t]
<1>1. PICK cards : cards = Forms!Cards
  OBVIOUS
<1>2. FormsOK(cards) /\ PageOK(cards, p)
  BY <1>1 DEF FormsInv, FormsOK
<1>3. CASE pages' = [pages EXCEPT ![t] = [p EXCEPT !.op = "idle", !.busy = FALSE]]
  <2> DEFINE q == [p EXCEPT !.op = "idle", !.busy = FALSE]
  <2>1. /\ DOMAIN q = Fields /\ q.form = p.form /\ q.base = p.base /\ q.touched = p.touched
        /\ q.op = "idle"
    BY <1>2 DEF PageOK, Fields
  <2>2. PageOK(cards, q)
    BY <1>2, <2>1 DEF PageOK
  <2> QED
    BY <1>1, <1>3, <2>2, PageChanges DEF Forms!Answer
<1>4. CASE /\ UNCHANGED past
           /\ pages' = [pages EXCEPT ![t] = [p EXCEPT !.op = "reload", !.loads = @ \cup {"after"}]]
  <2> DEFINE loads == p.loads \cup {"after"}
             q == [p EXCEPT !.op = "reload", !.loads = loads]
  <2>1. pages' = [pages EXCEPT ![t] = q]
    BY <1>4
  <2> HIDE DEF loads
  <2>2. /\ DOMAIN q = Fields /\ q.form = p.form /\ q.base = p.base /\ q.touched = p.touched
        /\ q.op = "reload"
    BY <1>2 DEF PageOK, Fields
  <2>3. PageOK(cards, q)
    BY <1>2, <2>2 DEF PageOK
  <2> QED
    BY <1>1, <1>4, <2>1, <2>3, PageChanges DEF Forms!Answer
<1>5. CASE /\ UNCHANGED past /\ p.op = "landed"
           /\ pages' = [pages EXCEPT ![t] =
                [p EXCEPT !.op = "idle", !.busy = FALSE,
                          !.base[p.sent.card] = p.sent.content,
                          !.form[p.sent.card].flag = p.sent.content.flag,
                          !.touched[p.sent.card].text = p.form[p.sent.card].text # p.sent.content.text]]
  <2> DEFINE k == p.sent.card
             content == p.sent.content
             f == [p.form[k] EXCEPT !.flag = content.flag]
             g == [p.touched[k] EXCEPT !.text = p.form[k].text # content.text]
             form == [p.form EXCEPT ![k] = f]
             touched == [p.touched EXCEPT ![k] = g]
             base == [p.base EXCEPT ![k] = content]
             q == [p EXCEPT !.op = "idle", !.busy = FALSE, !.base = base, !.form = form,
                            !.touched = touched]
  <2>1. k \in cards /\ content \in Forms!Content
    BY <1>2, <1>5 DEF PageOK, Sending
  <2>2. p.form[k] \in Forms!Content /\ p.touched[k] \in Shape
    BY <1>2, <2>1 DEF PageOK
  <2>3. /\ f \in Forms!Content /\ f.flag = content.flag /\ f.text = p.form[k].text
        /\ g \in Shape /\ g.flag = p.touched[k].flag /\ g.text = (p.form[k].text # content.text)
    BY <2>1, <2>2 DEF Forms!Content, Shape
  <2>4. pages' = [pages EXCEPT ![t] = q]
    <3>1. [p EXCEPT !.op = "idle", !.busy = FALSE, !.base[k] = content,
                    !.form[k].flag = content.flag,
                    !.touched[k].text = p.form[k].text # content.text] = q
      <4> HIDE DEF k, content
      <4> QED BY <1>2 DEF PageOK, Fields
    <3> QED
      BY <1>5, <3>1
  <2> HIDE DEF f, g
  <2>5. /\ form \in [cards -> Forms!Content] /\ touched \in [cards -> Shape]
        /\ base \in [cards -> Bases]
        /\ form[k] = f /\ touched[k] = g /\ base[k] = content
        /\ \A d \in cards \ {k} : /\ form[d] = p.form[d] /\ touched[d] = p.touched[d]
                                  /\ base[d] = p.base[d]
    BY <1>2, <2>1, <2>3 DEF PageOK, Bases, FormRows
  <2> HIDE DEF form, touched, base
  <2>6. /\ DOMAIN q = Fields /\ q.form = form /\ q.touched = touched /\ q.base = base
        /\ q.op = "idle"
    BY <1>2 DEF PageOK, Fields
  <2>7. FieldsKept(f, g, content) /\ (k # "telegram" => ~g.flag)
    BY <1>2, <2>1, <2>3, ShownIs DEF FieldsKept, PageOK
  <2> HIDE DEF q, p, k, content
  <2>8. \A d \in cards : /\ FieldsKept(q.form[d], q.touched[d], q.base[d])
                         /\ d # "telegram" => ~q.touched[d].flag
    BY <1>2, <2>5, <2>6, <2>7 DEF PageOK
  <2>9. PageOK(cards, q)
    BY <1>2, <2>5, <2>6, <2>8 DEF PageOK
  <2> QED
    BY <1>1, <1>5, <2>4, <2>9, PageChanges DEF Forms!Answer
<1>6. \/ pages' = [pages EXCEPT ![t] = [p EXCEPT !.op = "idle", !.busy = FALSE]]
      \/ /\ UNCHANGED past
         /\ pages' = [pages EXCEPT ![t] = [p EXCEPT !.op = "reload", !.loads = @ \cup {"after"}]]
      \/ /\ UNCHANGED past /\ p.op = "landed"
         /\ pages' = [pages EXCEPT ![t] =
              [p EXCEPT !.op = "idle", !.busy = FALSE,
                        !.base[p.sent.card] = p.sent.content,
                        !.form[p.sent.card].flag = p.sent.content.flag,
                        !.touched[p.sent.card].text = p.form[p.sent.card].text # p.sent.content.text]]
  BY Zenon DEF Forms!Answer
<1> QED
  BY <1>3, <1>4, <1>5, <1>6

LEMMA FormsStep == FormsInv /\ Forms!Next => FormsInv'
BY FormLoadKeeps, ReopenKeeps, TypeKeeps, SaveKeeps, LandsKeeps, AnswerKeeps DEF Forms!Next

\* A row says what the operators chose, each field the last time somebody touched it,
\* through failed loads, lost answers and reloads, however many tabs are open and
\* whatever is typed (control/page.tsx:170: "both fields go in every write").
THEOREM FormsSayWhatWasChosen == AdminSpec => []RowsSayWhatWasChosen
<1> DEFINE Inv == which = "forms" => FormsInv
<1>1. AdminInit => Inv
  BY FormsStart DEF AdminInit
<1>2. Inv /\ [AdminNext]_<<vars, which, rows, pages, past>> => Inv'
  <2> SUFFICES ASSUME Inv, [AdminNext]_<<vars, which, rows, pages, past>> PROVE Inv'
    OBVIOUS
  <2>1. CASE UNCHANGED <<vars, which, rows, pages, past>>
    BY <2>1 DEF FormsInv, FormsOK, PastOK, Forms!Cards, Forms!Kind
  <2>2. CASE AdminNext
    BY <2>2, FormsStep DEF AdminNext
  <2> QED
    BY <2>1, <2>2
<1>3. Inv => RowsSayWhatWasChosen
  BY DEF FormsInv, FormsOK, RowsSayWhatWasChosen, Forms!RowsSayWhatWasChosen
<1> QED
  BY <1>1, <1>2, <1>3, PTL DEF AdminSpec

-------------------------------------------------------------------------------
(* The promotional offer: a version means one offer                        *)
(*                                                                         *)
(* While nobody is excused there is one meaning of the versions given so   *)
(* far that the row, every copy of it a switch holds and every offer shown *)
(* or closed on a device agree with.                                       *)

OfferFields == {"there", "flag", "text", "version"}
OpFields == {"step", "flag", "read"}
Meant(means, top, x) == x.version \in Nat /\ x.version <= top /\ x.text = means[x.version]

SlotOK(means, top, o) ==
  DOMAIN o = OpFields /\ DOMAIN o.read = OfferFields /\ Meant(means, top, o.read)
\* What is being saved is the version after the one the page knows.
SavingOK(p, o) ==
  /\ DOMAIN o = OpFields
  /\ o.step \in {"write", "landed"} =>
       p.loaded /\ DOMAIN o.read = OfferFields /\ o.read.version = p.version + 1
OfferPageOK(means, top, p) ==
  /\ DOMAIN p = {"loaded", "flag", "text", "version", "save", "switches"}
  /\ p.version \in Nat /\ SavingOK(p, p.save)
  /\ DOMAIN p.switches = {1, 2} /\ \A s \in {1, 2} : SlotOK(means, top, p.switches[s])
DeviceOK(means, top, d, said) ==
  /\ DOMAIN d = {"shows", "closed"} /\ DOMAIN d.shows = {"flag", "text", "version"}
  /\ Meant(means, top, d.shows)
  /\ \A v \in d.closed : v \in Nat /\ v <= top /\ means[v] \in said

PastFields == {"closed", "top", "excused", "edits", "saves", "faults", "shown"}
OffersOK(means, top) ==
  /\ means[0] = Blank /\ top \in Nat
  /\ DOMAIN rows = OfferFields /\ Meant(means, top, rows)
  /\ DOMAIN pages = {"admin", "device"}
  /\ DOMAIN pages.admin = Tabs /\ \A t \in Tabs : OfferPageOK(means, top, pages.admin[t])
  /\ DOMAIN pages.device = Watchers /\ DOMAIN past.closed = Watchers
  /\ \A d \in Watchers : DeviceOK(means, top, pages.device[d], past.closed[d])
PromoInv ==
  /\ DOMAIN past = PastFields
  /\ past.excused \/ \E means : OffersOK(means, past.top)

\* An empty row has a meaning too.
LEMMA EmptyMeant ==
  ASSUME NEW means, means[0] = Blank, NEW top \in Nat
  PROVE  /\ DOMAIN Promo!Nothing = OfferFields /\ Meant(means, top, Promo!Nothing)
         /\ DOMAIN Promo!NotShown = {"flag", "text", "version"} /\ Meant(means, top, Promo!NotShown)
         /\ SlotOK(means, top, Promo!Idle) /\ Promo!Idle.step = "idle"
<1>1. /\ DOMAIN Promo!Nothing = OfferFields /\ Promo!Nothing.version = 0
      /\ Promo!Nothing.text = Blank
  BY DEF Promo!Nothing, OfferFields
<1>2. /\ DOMAIN Promo!NotShown = {"flag", "text", "version"} /\ Promo!NotShown.version = 0
      /\ Promo!NotShown.text = Blank
  BY DEF Promo!NotShown
<1>3. DOMAIN Promo!Idle = OpFields /\ Promo!Idle.read = Promo!Nothing /\ Promo!Idle.step = "idle"
  BY DEF Promo!Idle, OpFields
<1> QED
  BY <1>1, <1>2, <1>3 DEF Meant, SlotOK

LEMMA PromoStarts == Promo!Init => PromoInv
<1> SUFFICES ASSUME Promo!Init PROVE PromoInv
  OBVIOUS
<1>1. /\ DOMAIN past = PastFields /\ past.top = 1 /\ past.closed = [d \in Watchers |-> {}]
  BY DEF Promo!Init, PastFields
<1>2. /\ rows = Promo!Nothing /\ DOMAIN pages = {"admin", "device"}
      /\ pages.admin = [t \in Tabs |-> Promo!Opened]
      /\ pages.device = [d \in Watchers |-> [shows |-> Promo!NotShown, closed |-> {}]]
  BY DEF Promo!Init
<1>3. PICK means : means = [v \in Nat |-> Blank]
  OBVIOUS
<1>4. means[0] = Blank
  BY <1>3
<1>5. OfferPageOK(means, 1, Promo!Opened)
  <2>1. /\ DOMAIN Promo!Opened = {"loaded", "flag", "text", "version", "save", "switches"}
        /\ Promo!Opened.version = 1 /\ Promo!Opened.save = Promo!Idle
        /\ Promo!Opened.switches = [s \in {1, 2} |-> Promo!Idle]
    BY DEF Promo!Opened
  <2> QED
    BY <1>4, <2>1, EmptyMeant DEF OfferPageOK, SavingOK, SlotOK
<1>6. \A d \in Watchers : DeviceOK(means, 1, pages.device[d], past.closed[d])
  BY <1>1, <1>2, <1>4, EmptyMeant DEF DeviceOK
<1>7. DOMAIN rows = OfferFields /\ Meant(means, 1, rows)
  BY <1>2, <1>4, EmptyMeant
<1>8. OffersOK(means, 1)
  BY <1>1, <1>2, <1>4, <1>5, <1>6, <1>7 DEF OffersOK
<1> QED
  BY <1>1, <1>8 DEF PromoInv

\* What is spent changes nothing else.
LEMMA PromoSpending ==
  ASSUME PromoInv, NEW b \in {"edits", "saves", "faults", "shown"}, NEW most,
         Promo!Spend(b, most) \/ UNCHANGED past
  PROVE  /\ DOMAIN past' = PastFields /\ past'.top = past.top
         /\ past'.closed = past.closed /\ past'.excused = past.excused
BY DEF Promo!Spend, PromoInv, PastFields

\* A step of one tab's page that gives no version a new meaning.
LEMMA TabSteps ==
  ASSUME PromoInv, DOMAIN past' = PastFields, past'.top = past.top,
         past'.closed = past.closed, past'.excused = past.excused,
         NEW t \in Tabs, NEW q, Promo!Admin(t, q),
         \A means : OffersOK(means, past.top) =>
            /\ DOMAIN rows' = OfferFields /\ Meant(means, past.top, rows')
            /\ OfferPageOK(means, past.top, q)
  PROVE  PromoInv'
<1> SUFFICES ASSUME ~past.excused PROVE PromoInv'
  BY DEF PromoInv
<1>1. PICK means : OffersOK(means, past.top)
  BY DEF PromoInv
<1>2. pages' = [pages EXCEPT !.admin = [pages.admin EXCEPT ![t] = q]]
  BY DEF Promo!Admin
<1>3. DOMAIN pages' = {"admin", "device"} /\ pages'.device = pages.device
      /\ pages'.admin = [pages.admin EXCEPT ![t] = q]
  BY <1>1, <1>2 DEF OffersOK
<1>4. DOMAIN pages'.admin = Tabs /\ \A u \in Tabs : OfferPageOK(means, past.top, pages'.admin[u])
  BY <1>1, <1>3 DEF OffersOK
<1>5. PICK top : top = past.top
  OBVIOUS
<1>6. OffersOK(means, top)'
  BY <1>1, <1>3, <1>4, <1>5 DEF OffersOK
<1> QED
  BY <1>5, <1>6 DEF PromoInv

\* The load, typing and the request of a save.
LEMMA PromoLoadKeeps ==
  ASSUME PromoInv, NEW t \in Tabs, Promo!Load(t) PROVE PromoInv'
<1> DEFINE p == pages.admin[t]
<1>1. PICK fails \in BOOLEAN :
        /\ IF fails THEN Promo!Spend("faults", MaxFaults) ELSE UNCHANGED past
        /\ LET row == IF fails THEN Promo!Nothing ELSE rows IN
           Promo!Admin(t, [p EXCEPT !.loaded = TRUE, !.flag = row.flag, !.text = row.text,
                             !.version = IF row.version = 0 THEN 1 ELSE row.version])
  BY DEF Promo!Load
<1>2. UNCHANGED rows
  BY DEF Promo!Load
<1> DEFINE row == IF fails THEN Promo!Nothing ELSE rows
           version == IF row.version = 0 THEN 1 ELSE row.version
           q == [p EXCEPT !.loaded = TRUE, !.flag = row.flag, !.text = row.text, !.version = version]
<1>3. Promo!Admin(t, q)
  BY <1>1
<1>4. ~p.loaded
  BY DEF Promo!Load
<1>5. ASSUME NEW means, OffersOK(means, past.top)
      PROVE  /\ DOMAIN rows' = OfferFields /\ Meant(means, past.top, rows')
             /\ OfferPageOK(means, past.top, q)
  <2>1. DOMAIN rows = OfferFields /\ Meant(means, past.top, rows) /\ OfferPageOK(means, past.top, p)
    BY <1>5 DEF OffersOK
  <2>2. version \in Nat
    BY <2>1 DEF Meant, Promo!Nothing
  <2> HIDE DEF version, row
  <2>3. /\ DOMAIN q = {"loaded", "flag", "text", "version", "save", "switches"}
        /\ q.version = version /\ q.save = p.save /\ q.switches = p.switches
    BY <2>1 DEF OfferPageOK
  <2> QED
    BY <1>2, <1>4, <2>1, <2>2, <2>3 DEF OfferPageOK, SavingOK
<1>6. /\ DOMAIN past' = PastFields /\ past'.top = past.top
      /\ past'.closed = past.closed /\ past'.excused = past.excused
  BY <1>1, PromoSpending
<1> HIDE DEF q, row, version
<1> QED
  BY <1>3, <1>5, <1>6, TabSteps

LEMMA PromoTypeKeeps ==
  ASSUME PromoInv, NEW t \in Tabs, NEW x, Promo!Type(t, x) PROVE PromoInv'
<1> DEFINE p == pages.admin[t]
           q == [p EXCEPT !.text = x]
<1>1. Promo!Admin(t, q) /\ UNCHANGED rows
  BY DEF Promo!Type
<1>2. ASSUME NEW means, OffersOK(means, past.top)
      PROVE  /\ DOMAIN rows' = OfferFields /\ Meant(means, past.top, rows')
             /\ OfferPageOK(means, past.top, q)
  <2>1. DOMAIN rows = OfferFields /\ Meant(means, past.top, rows) /\ OfferPageOK(means, past.top, p)
    BY <1>2 DEF OffersOK
  <2>2. /\ DOMAIN q = {"loaded", "flag", "text", "version", "save", "switches"}
        /\ q.version = p.version /\ q.save = p.save /\ q.switches = p.switches
        /\ q.loaded = p.loaded
    BY <2>1 DEF OfferPageOK
  <2> QED
    BY <1>1, <2>1, <2>2 DEF OfferPageOK, SavingOK
<1>3. /\ DOMAIN past' = PastFields /\ past'.top = past.top
      /\ past'.closed = past.closed /\ past'.excused = past.excused
  BY PromoSpending DEF Promo!Type
<1> HIDE DEF q
<1> QED
  BY <1>1, <1>2, <1>3, TabSteps

LEMMA PromoSaveKeeps ==
  ASSUME PromoInv, NEW t \in Tabs, Promo!Save(t) PROVE PromoInv'
<1> DEFINE p == pages.admin[t]
<1>1. PICK flag : Promo!Admin(t, [p EXCEPT !.save =
                    [step |-> "write", flag |-> flag, read |-> Promo!Saved(p, flag)]])
  BY DEF Promo!Save
<1>2. UNCHANGED rows /\ p.loaded
  BY DEF Promo!Save
<1> DEFINE save == [step |-> "write", flag |-> flag, read |-> Promo!Saved(p, flag)]
           q == [p EXCEPT !.save = save]
<1>3. ASSUME NEW means, OffersOK(means, past.top)
      PROVE  /\ DOMAIN rows' = OfferFields /\ Meant(means, past.top, rows')
             /\ OfferPageOK(means, past.top, q)
  <2>1. DOMAIN rows = OfferFields /\ Meant(means, past.top, rows) /\ OfferPageOK(means, past.top, p)
    BY <1>3 DEF OffersOK
  <2>2. /\ DOMAIN save = OpFields /\ DOMAIN save.read = OfferFields
        /\ save.read.version = p.version + 1
    BY DEF OpFields, OfferFields, Promo!Saved
  <2> HIDE DEF save
  <2>3. /\ DOMAIN q = {"loaded", "flag", "text", "version", "save", "switches"}
        /\ q.version = p.version /\ q.save = save /\ q.switches = p.switches
        /\ q.loaded = p.loaded
    BY <2>1 DEF OfferPageOK
  <2> QED
    BY <1>2, <2>1, <2>2, <2>3 DEF OfferPageOK, SavingOK
<1>4. /\ DOMAIN past' = PastFields /\ past'.top = past.top
      /\ past'.closed = past.closed /\ past'.excused = past.excused
  BY PromoSpending DEF Promo!Save
<1> HIDE DEF q
<1> QED
  BY <1>1, <1>3, <1>4, TabSteps DEF q

\* Where a page that knows the highest version so far saves, the new one is new.
LEMMA PromoSaveLandsKeeps ==
  ASSUME PromoInv, NEW t \in Tabs, Promo!SaveLands(t) PROVE PromoInv'
<1> DEFINE p == pages.admin[t]
           save == [p.save EXCEPT !.step = "landed"]
           q == [p EXCEPT !.save = save]
           new == p.save.read
           behind == p.version < past.top
           top == IF new.version > past.top THEN new.version ELSE past.top
<1>1. /\ p.save.step = "write" /\ rows' = new
      /\ past' = [past EXCEPT !.top = top, !.excused = past.excused \/ behind]
  BY DEF Promo!SaveLands
<1>2. DOMAIN past' = PastFields /\ past'.excused = (past.excused \/ behind)
      /\ past'.top = top /\ past'.closed = past.closed
  <2> HIDE DEF top, behind
  <2> QED BY <1>1 DEF PromoInv, PastFields
<1> SUFFICES ASSUME ~past.excused, ~behind PROVE PromoInv'
  BY <1>2 DEF PromoInv
<1>3. PICK means : OffersOK(means, past.top)
  BY DEF PromoInv
<1>4. OfferPageOK(means, past.top, p) /\ past.top \in Nat
  BY <1>3 DEF OffersOK
<1>5. p.loaded /\ DOMAIN new = OfferFields /\ new.version = p.version + 1 /\ p.version \in Nat
  BY <1>1, <1>4 DEF OfferPageOK, SavingOK
<1>6. top = new.version /\ top > past.top /\ top \in Nat
  BY <1>4, <1>5
<1>7. PICK meant : meant = [v \in Nat |-> IF v = top THEN new.text ELSE means[v]]
  OBVIOUS
<1> HIDE DEF top, behind
<1>8. meant[top] = new.text /\ \A v \in Nat : v <= past.top => meant[v] = means[v] /\ v <= top
  <2>1. top \in Nat /\ past.top \in Nat /\ past.top < top
    BY <1>4, <1>6
  <2>2. meant[top] = new.text
    BY <1>7, <2>1
  <2>3. ASSUME NEW v \in Nat, v <= past.top PROVE meant[v] = means[v] /\ v <= top
    BY <1>7, <2>1, <2>3
  <2> QED
    BY <2>2, <2>3
<1>9. \A x : Meant(means, past.top, x) => Meant(meant, top, x)
  BY <1>8 DEF Meant
<1>10. \A x : OfferPageOK(means, past.top, x) => OfferPageOK(meant, top, x)
  BY <1>9 DEF OfferPageOK, SlotOK
<1>11. \A d, said : DeviceOK(means, past.top, d, said) => DeviceOK(meant, top, d, said)
  BY <1>8, <1>9 DEF DeviceOK
<1>12. DOMAIN rows' = OfferFields /\ Meant(meant, top, rows')
  BY <1>1, <1>5, <1>6, <1>8 DEF Meant
<1>13. pages' = [pages EXCEPT !.admin = [pages.admin EXCEPT ![t] = q]]
  BY DEF Promo!SaveLands, Promo!Admin
<1>14. OfferPageOK(means, past.top, q)
  <2>1. DOMAIN save = OpFields /\ save.read = new
    BY <1>4 DEF OfferPageOK, SavingOK, OpFields
  <2> HIDE DEF save
  <2>2. /\ DOMAIN q = {"loaded", "flag", "text", "version", "save", "switches"}
        /\ q.version = p.version /\ q.save = save /\ q.switches = p.switches
        /\ q.loaded = p.loaded
    BY <1>4 DEF OfferPageOK
  <2> QED
    BY <1>4, <1>5, <2>1, <2>2 DEF OfferPageOK, SavingOK
<1> HIDE DEF q, new, p
<1>15. DOMAIN pages' = {"admin", "device"} /\ pages'.device = pages.device
       /\ pages'.admin = [pages.admin EXCEPT ![t] = q]
  BY <1>3, <1>13 DEF OffersOK
<1>16. DOMAIN pages'.admin = Tabs /\ \A u \in Tabs : OfferPageOK(means, past.top, pages'.admin[u])
  BY <1>3, <1>14, <1>15 DEF OffersOK
<1>17. meant[0] = Blank
  BY <1>3, <1>4, <1>8 DEF OffersOK
<1>18. PICK m : m = top
  OBVIOUS
<1>19. \A d \in Watchers : DeviceOK(meant, m, pages'.device[d], past'.closed[d])
  BY <1>2, <1>3, <1>11, <1>15, <1>18 DEF OffersOK
<1>20. OffersOK(meant, m)'
  BY <1>2, <1>3, <1>6, <1>10, <1>12, <1>15, <1>16, <1>17, <1>18, <1>19 DEF OffersOK
<1> QED
  BY <1>2, <1>18, <1>20 DEF PromoInv

LEMMA PromoSaveAnswersKeeps ==
  ASSUME PromoInv, NEW t \in Tabs, Promo!SaveAnswers(t) PROVE PromoInv'
<1> DEFINE p == pages.admin[t]
           o == p.save.read
           took == [p EXCEPT !.save = Promo!Idle, !.version = o.version, !.flag = o.flag,
                             !.text = o.text]
           left == [p EXCEPT !.save = Promo!Idle]
<1>1. UNCHANGED rows
  BY DEF Promo!SaveAnswers
<1>2. \/ p.save.step = "landed" /\ UNCHANGED past /\ Promo!Admin(t, took)
      \/ Promo!Spend("faults", MaxFaults) /\ Promo!Admin(t, left)
  BY DEF Promo!SaveAnswers
<1>3. ASSUME NEW means, OffersOK(means, past.top)
      PROVE  /\ DOMAIN rows' = OfferFields /\ Meant(means, past.top, rows')
             /\ p.save.step = "landed" => OfferPageOK(means, past.top, took)
             /\ OfferPageOK(means, past.top, left)
  <2>1. DOMAIN rows = OfferFields /\ Meant(means, past.top, rows) /\ OfferPageOK(means, past.top, p)
    BY <1>3 DEF OffersOK
  <2>2. DOMAIN Promo!Idle = OpFields /\ Promo!Idle.step = "idle"
    BY DEF Promo!Idle, OpFields
  <2>3. p.save.step = "landed" => o.version \in Nat
    BY <2>1 DEF OfferPageOK, SavingOK
  <2> HIDE DEF o
  <2>4. /\ DOMAIN took = {"loaded", "flag", "text", "version", "save", "switches"}
        /\ took.version = o.version /\ took.save = Promo!Idle /\ took.switches = p.switches
    BY <2>1 DEF OfferPageOK
  <2>5. /\ DOMAIN left = {"loaded", "flag", "text", "version", "save", "switches"}
        /\ left.version = p.version /\ left.save = Promo!Idle /\ left.switches = p.switches
    BY <2>1 DEF OfferPageOK
  <2> HIDE DEF took, left
  <2>6. p.save.step = "landed" => OfferPageOK(means, past.top, took)
    BY <2>1, <2>2, <2>3, <2>4 DEF OfferPageOK, SavingOK
  <2>7. OfferPageOK(means, past.top, left)
    BY <2>1, <2>2, <2>5 DEF OfferPageOK, SavingOK
  <2> QED
    BY <1>1, <2>1, <2>6, <2>7
<1>4. /\ DOMAIN past' = PastFields /\ past'.top = past.top
      /\ past'.closed = past.closed /\ past'.excused = past.excused
  BY <1>2, PromoSpending
<1> HIDE DEF took, left
<1>5. CASE p.save.step = "landed" /\ Promo!Admin(t, took)
  <2>1. \A means : OffersOK(means, past.top) =>
          /\ DOMAIN rows' = OfferFields /\ Meant(means, past.top, rows')
          /\ OfferPageOK(means, past.top, took)
    BY <1>3, <1>5
  <2> QED
    BY <1>4, <1>5, <2>1, TabSteps
<1>6. CASE Promo!Admin(t, left)
  BY <1>3, <1>4, <1>6, TabSteps
<1> QED
  BY <1>2, <1>5, <1>6

\* A switch of a page, with a copy of an offer that was there.
LEMMA SwitchSteps ==
  ASSUME PromoInv, DOMAIN past' = PastFields, past'.top = past.top,
         past'.closed = past.closed, past'.excused = past.excused,
         NEW t \in Tabs, NEW flag, NEW s \in {1, 2}, NEW o,
         Promo!Admin(t, [pages.admin[t] EXCEPT !.flag = flag, !.switches[s] = o]),
         \A means : OffersOK(means, past.top) =>
            /\ DOMAIN rows' = OfferFields /\ Meant(means, past.top, rows')
            /\ SlotOK(means, past.top, o)
  PROVE  PromoInv'
<1> DEFINE p == pages.admin[t]
           switches == [p.switches EXCEPT ![s] = o]
           q == [p EXCEPT !.flag = flag, !.switches = switches]
<1>1. Promo!Admin(t, q)
  OBVIOUS
<1>2. ASSUME NEW means, OffersOK(means, past.top) PROVE OfferPageOK(means, past.top, q)
  <2>1. OfferPageOK(means, past.top, p) /\ SlotOK(means, past.top, o)
    BY <1>2 DEF OffersOK
  <2>2. DOMAIN switches = {1, 2} /\ \A r \in {1, 2} : SlotOK(means, past.top, switches[r])
    BY <2>1 DEF OfferPageOK
  <2> HIDE DEF switches
  <2>3. /\ DOMAIN q = {"loaded", "flag", "text", "version", "save", "switches"}
        /\ q.version = p.version /\ q.save = p.save /\ q.switches = switches
        /\ q.loaded = p.loaded
    BY <2>1 DEF OfferPageOK
  <2> QED
    BY <2>1, <2>2, <2>3 DEF OfferPageOK, SavingOK
<1> HIDE DEF q
<1> QED
  BY <1>1, <1>2, TabSteps

\* The same without a change of the form.
LEMMA SlotSteps ==
  ASSUME PromoInv, DOMAIN past' = PastFields, past'.top = past.top,
         past'.closed = past.closed, past'.excused = past.excused,
         NEW t \in Tabs, NEW s \in {1, 2}, NEW o, Promo!Slot(t, s, o),
         \A means : OffersOK(means, past.top) =>
            /\ DOMAIN rows' = OfferFields /\ Meant(means, past.top, rows')
            /\ SlotOK(means, past.top, o)
  PROVE  PromoInv'
<1> DEFINE p == pages.admin[t]
           switches == [p.switches EXCEPT ![s] = o]
           q == [p EXCEPT !.switches = switches]
<1>1. Promo!Admin(t, q)
  BY DEF Promo!Slot
<1>2. ASSUME NEW means, OffersOK(means, past.top) PROVE OfferPageOK(means, past.top, q)
  <2>1. OfferPageOK(means, past.top, p) /\ SlotOK(means, past.top, o)
    BY <1>2 DEF OffersOK
  <2>2. DOMAIN switches = {1, 2} /\ \A r \in {1, 2} : SlotOK(means, past.top, switches[r])
    BY <2>1 DEF OfferPageOK
  <2> HIDE DEF switches
  <2>3. /\ DOMAIN q = {"loaded", "flag", "text", "version", "save", "switches"}
        /\ q.version = p.version /\ q.save = p.save /\ q.switches = switches
        /\ q.loaded = p.loaded
    BY <2>1 DEF OfferPageOK
  <2> QED
    BY <2>1, <2>2, <2>3 DEF OfferPageOK, SavingOK
<1> HIDE DEF q
<1> QED
  BY <1>1, <1>2, TabSteps

LEMMA SwitchKeeps ==
  ASSUME PromoInv, NEW t \in Tabs, NEW s \in {1, 2}, NEW v \in BOOLEAN, Promo!Switch(t, s, v)
  PROVE  PromoInv'
<1> DEFINE o == [step |-> "read", flag |-> v, read |-> Promo!Nothing]
<1>1. /\ UNCHANGED rows /\ Promo!Spend("edits", MaxEdits)
      /\ Promo!Admin(t, [pages.admin[t] EXCEPT !.flag = v, !.switches[s] = o])
  BY DEF Promo!Switch
<1>2. ASSUME NEW means, OffersOK(means, past.top)
      PROVE  /\ DOMAIN rows' = OfferFields /\ Meant(means, past.top, rows')
             /\ SlotOK(means, past.top, o)
  <2>1. DOMAIN o = OpFields /\ o.read = Promo!Nothing
    BY DEF OpFields
  <2> HIDE DEF o
  <2>2. /\ means[0] = Blank /\ past.top \in Nat
        /\ DOMAIN rows = OfferFields /\ Meant(means, past.top, rows)
    BY <1>2 DEF OffersOK
  <2> QED
    BY <1>1, <2>1, <2>2, EmptyMeant DEF SlotOK
<1>3. /\ DOMAIN past' = PastFields /\ past'.top = past.top
      /\ past'.closed = past.closed /\ past'.excused = past.excused
  BY <1>1, PromoSpending
<1> HIDE DEF o
<1> QED
  BY <1>1, <1>2, <1>3, SwitchSteps

LEMMA SwitchReadsKeeps ==
  ASSUME PromoInv, NEW t \in Tabs, NEW s \in {1, 2}, Promo!SwitchReads(t, s)
  PROVE  PromoInv'
<1> DEFINE op == pages.admin[t].switches[s]
           of(row) == [op EXCEPT !.step = "write", !.read = row]
<1>1. /\ UNCHANGED rows
      /\ \/ UNCHANGED past /\ Promo!Slot(t, s, of(rows))
         \/ Promo!Spend("faults", MaxFaults) /\ Promo!Slot(t, s, of(Promo!Nothing))
  BY DEF Promo!SwitchReads
<1>2. ASSUME NEW means, OffersOK(means, past.top)
      PROVE  /\ DOMAIN rows' = OfferFields /\ Meant(means, past.top, rows')
             /\ SlotOK(means, past.top, of(rows)) /\ SlotOK(means, past.top, of(Promo!Nothing))
  <2>1. /\ means[0] = Blank /\ past.top \in Nat
        /\ DOMAIN rows = OfferFields /\ Meant(means, past.top, rows)
        /\ DOMAIN op = OpFields
    BY <1>2 DEF OffersOK, OfferPageOK, SlotOK
  <2> HIDE DEF op
  <2>2. \A row : DOMAIN of(row) = OpFields /\ of(row).read = row
    BY <2>1 DEF OpFields
  <2> HIDE DEF of
  <2>3. DOMAIN Promo!Nothing = OfferFields /\ Meant(means, past.top, Promo!Nothing)
    BY <2>1, EmptyMeant
  <2> QED
    BY <1>1, <2>1, <2>2, <2>3 DEF SlotOK
<1>3. /\ DOMAIN past' = PastFields /\ past'.top = past.top
      /\ past'.closed = past.closed /\ past'.excused = past.excused
  BY <1>1, PromoSpending
<1> HIDE DEF of
<1>4. CASE Promo!Slot(t, s, of(rows))
  BY <1>2, <1>3, <1>4, SlotSteps
<1>5. CASE Promo!Slot(t, s, of(Promo!Nothing))
  BY <1>2, <1>3, <1>5, SlotSteps
<1> QED
  BY <1>1, <1>4, <1>5

LEMMA SwitchLandsKeeps ==
  ASSUME PromoInv, NEW t \in Tabs, NEW s \in {1, 2}, Promo!SwitchLands(t, s)
  PROVE  PromoInv'
<1> DEFINE op == pages.admin[t].switches[s]
           row == [op.read EXCEPT !.there = TRUE, !.flag = op.flag]
<1>1. /\ \/ rows' = row /\ UNCHANGED past
         \/ UNCHANGED rows /\ Promo!Spend("faults", MaxFaults)
      /\ Promo!Slot(t, s, Promo!Idle)
  BY DEF Promo!SwitchLands
<1>2. ASSUME NEW means, OffersOK(means, past.top)
      PROVE  /\ DOMAIN rows' = OfferFields /\ Meant(means, past.top, rows')
             /\ SlotOK(means, past.top, Promo!Idle)
  <2>1. /\ means[0] = Blank /\ past.top \in Nat
        /\ DOMAIN rows = OfferFields /\ Meant(means, past.top, rows)
        /\ DOMAIN op.read = OfferFields /\ Meant(means, past.top, op.read)
    BY <1>2 DEF OffersOK, OfferPageOK, SlotOK
  <2> HIDE DEF op
  <2>2. DOMAIN row = OfferFields /\ row.version = op.read.version /\ row.text = op.read.text
    BY <2>1 DEF OfferFields
  <2> HIDE DEF row
  <2>3. SlotOK(means, past.top, Promo!Idle)
    BY <2>1, EmptyMeant
  <2> QED
    BY <1>1, <2>1, <2>2, <2>3 DEF Meant
<1>3. /\ DOMAIN past' = PastFields /\ past'.top = past.top
      /\ past'.closed = past.closed /\ past'.excused = past.excused
  BY <1>1, PromoSpending
<1> QED
  BY <1>1, <1>2, <1>3, SlotSteps

\* A step of one device that shows or closes what the row has.
LEMMA DeviceSteps ==
  ASSUME PromoInv, DOMAIN past' = PastFields, past'.top = past.top, UNCHANGED rows,
         past'.excused = past.excused, NEW d \in Watchers, NEW q, NEW said,
         pages' = [pages EXCEPT !.device = [pages.device EXCEPT ![d] = q]],
         DOMAIN past.closed = Watchers =>
           /\ DOMAIN past'.closed = Watchers /\ past'.closed[d] = said
           /\ \A e \in Watchers \ {d} : past'.closed[e] = past.closed[e],
         \A means : OffersOK(means, past.top) => DeviceOK(means, past.top, q, said)
  PROVE  PromoInv'
<1> SUFFICES ASSUME ~past.excused PROVE PromoInv'
  BY DEF PromoInv
<1>1. PICK means : OffersOK(means, past.top)
  BY DEF PromoInv
<1>2. DOMAIN pages' = {"admin", "device"} /\ pages'.admin = pages.admin
      /\ pages'.device = [pages.device EXCEPT ![d] = q]
  BY <1>1 DEF OffersOK
<1>3. /\ DOMAIN past'.closed = Watchers /\ past'.closed[d] = said
      /\ \A e \in Watchers \ {d} : past'.closed[e] = past.closed[e]
  BY <1>1 DEF OffersOK
<1>4. DOMAIN pages'.device = Watchers /\ DOMAIN past'.closed = Watchers
      /\ \A e \in Watchers : DeviceOK(means, past.top, pages'.device[e], past'.closed[e])
  BY <1>1, <1>2, <1>3 DEF OffersOK
<1>5. PICK top : top = past.top
  OBVIOUS
<1>6. OffersOK(means, top)'
  BY <1>1, <1>2, <1>4, <1>5 DEF OffersOK
<1> QED
  BY <1>5, <1>6 DEF PromoInv

LEMMA OpenKeeps ==
  ASSUME PromoInv, NEW d \in Watchers, Promo!Open(d) PROVE PromoInv'
<1>1. PICK fails \in BOOLEAN : pages' = [pages EXCEPT !.device[d].shows =
        IF fails \/ ~Promo!Gates(d) THEN Promo!NotShown
        ELSE [flag |-> TRUE, text |-> rows.text, version |-> rows.version]]
  BY DEF Promo!Open
<1> DEFINE shows == IF fails \/ ~Promo!Gates(d) THEN Promo!NotShown
                    ELSE [flag |-> TRUE, text |-> rows.text, version |-> rows.version]
           q == [pages.device[d] EXCEPT !.shows = shows]
<1>2. pages' = [pages EXCEPT !.device = [pages.device EXCEPT ![d] = q]]
  BY <1>1
<1>3. ASSUME NEW means, OffersOK(means, past.top)
      PROVE  DeviceOK(means, past.top, q, past.closed[d])
  <2>1. /\ means[0] = Blank /\ past.top \in Nat /\ Meant(means, past.top, rows)
        /\ DeviceOK(means, past.top, pages.device[d], past.closed[d])
    BY <1>3 DEF OffersOK
  <2>2. DOMAIN shows = {"flag", "text", "version"} /\ Meant(means, past.top, shows)
    BY <2>1, EmptyMeant DEF Meant
  <2> HIDE DEF shows
  <2>3. DOMAIN q = {"shows", "closed"} /\ q.shows = shows /\ q.closed = pages.device[d].closed
    BY <2>1 DEF DeviceOK
  <2> HIDE DEF q
  <2> QED
    BY <2>1, <2>2, <2>3 DEF DeviceOK
<1>4. /\ DOMAIN past' = PastFields /\ past'.top = past.top
      /\ past'.closed = past.closed /\ past'.excused = past.excused
  BY PromoSpending DEF Promo!Open
<1>5. UNCHANGED rows
  BY DEF Promo!Open
<1> HIDE DEF q
<1> QED
  BY <1>2, <1>3, <1>4, <1>5, DeviceSteps

LEMMA CloseKeeps ==
  ASSUME PromoInv, NEW d \in Watchers, Promo!Close(d) PROVE PromoInv'
<1> DEFINE s == pages.device[d].shows
           closed == pages.device[d].closed \cup {s.version}
           said == past.closed[d] \cup {s.text}
           gone == [shows |-> Promo!NotShown, closed |-> closed]
           over == [pages.device[d] EXCEPT !.shows = Promo!NotShown]
<1>1. UNCHANGED rows
  BY DEF Promo!Close
<1>2. \/ /\ pages' = [pages EXCEPT !.device = [pages.device EXCEPT ![d] = gone]]
         /\ past' = [past EXCEPT !.closed = [past.closed EXCEPT ![d] = said]]
      \/ /\ pages' = [pages EXCEPT !.device = [pages.device EXCEPT ![d] = over]]
         /\ UNCHANGED past
  BY DEF Promo!Close
<1>3. ASSUME NEW means, OffersOK(means, past.top)
      PROVE  /\ DeviceOK(means, past.top, gone, said)
             /\ DeviceOK(means, past.top, over, past.closed[d])
  <2>1. /\ means[0] = Blank /\ past.top \in Nat
        /\ DeviceOK(means, past.top, pages.device[d], past.closed[d])
    BY <1>3 DEF OffersOK
  <2>2. /\ DOMAIN Promo!NotShown = {"flag", "text", "version"}
        /\ Meant(means, past.top, Promo!NotShown)
    BY <2>1, EmptyMeant
  <2>3. \A v \in closed : v \in Nat /\ v <= past.top /\ means[v] \in said
    BY <2>1 DEF DeviceOK, Meant
  <2> HIDE DEF closed, said
  <2>4. /\ DOMAIN gone = {"shows", "closed"} /\ gone.shows = Promo!NotShown
        /\ gone.closed = closed
    OBVIOUS
  <2>5. DOMAIN over = {"shows", "closed"} /\ over.shows = Promo!NotShown
        /\ over.closed = pages.device[d].closed
    BY <2>1 DEF DeviceOK
  <2> HIDE DEF gone, over
  <2> QED
    BY <2>1, <2>2, <2>3, <2>4, <2>5 DEF DeviceOK
<1> HIDE DEF gone, over, said
<1>4. CASE /\ pages' = [pages EXCEPT !.device = [pages.device EXCEPT ![d] = gone]]
           /\ past' = [past EXCEPT !.closed = [past.closed EXCEPT ![d] = said]]
  <2>1. /\ DOMAIN past' = PastFields /\ past'.top = past.top /\ past'.excused = past.excused
        /\ past'.closed = [past.closed EXCEPT ![d] = said]
    BY <1>4 DEF PromoInv, PastFields
  <2> QED
    BY <1>1, <1>3, <1>4, <2>1, DeviceSteps
<1>5. CASE /\ pages' = [pages EXCEPT !.device = [pages.device EXCEPT ![d] = over]]
           /\ UNCHANGED past
  <2>1. DOMAIN past' = PastFields /\ past'.top = past.top /\ past'.excused = past.excused
    BY <1>5 DEF PromoInv
  <2> QED
    BY <1>1, <1>3, <1>5, <2>1, DeviceSteps
<1> QED
  BY <1>2, <1>4, <1>5

LEMMA PromoStep == PromoInv /\ Promo!Next => PromoInv'
BY PromoLoadKeeps, PromoTypeKeeps, PromoSaveKeeps, PromoSaveLandsKeeps, PromoSaveAnswersKeeps,
   SwitchKeeps, SwitchReadsKeeps, SwitchLandsKeeps, OpenKeeps, CloseKeeps DEF Promo!Next

\* A device that will not show the offer has closed this very offer, however many tabs
\* save and switch beside each other, unless one of them saved under a version that is
\* not the highest (promo/page.tsx:10).
THEOREM PromoClosedMeansThisOffer == AdminSpec => []ClosedMeansThisOffer
<1> DEFINE Inv == which = "promo" => PromoInv
<1>1. AdminInit => Inv
  BY PromoStarts DEF AdminInit
<1>2. Inv /\ [AdminNext]_<<vars, which, rows, pages, past>> => Inv'
  <2> SUFFICES ASSUME Inv, [AdminNext]_<<vars, which, rows, pages, past>> PROVE Inv'
    OBVIOUS
  <2>1. CASE UNCHANGED <<vars, which, rows, pages, past>>
    <3> SUFFICES ASSUME PromoInv PROVE PromoInv'
      BY <2>1
    <3>1. CASE past.excused
      BY <2>1, <3>1 DEF PromoInv
    <3>2. CASE ~past.excused
      <4>1. PICK means, top : top = past.top /\ OffersOK(means, top)
        BY <3>2 DEF PromoInv
      <4>2. OffersOK(means, top)'
        BY <2>1, <4>1 DEF OffersOK
      <4> QED
        BY <2>1, <4>1, <4>2 DEF PromoInv
    <3> QED
      BY <3>1, <3>2
  <2>2. CASE AdminNext
    BY <2>2, PromoStep DEF AdminNext
  <2> QED
    BY <2>1, <2>2
<1>3. Inv => ClosedMeansThisOffer
  <2> SUFFICES ASSUME PromoInv, NEW d \in Watchers, ~past.excused,
                      rows.version \in pages.device[d].closed
               PROVE  rows.text \in past.closed[d]
    BY DEF ClosedMeansThisOffer, Promo!ClosedMeansThisOffer
  <2>1. PICK means : OffersOK(means, past.top)
    BY DEF PromoInv
  <2> QED
    BY <2>1 DEF OffersOK, DeviceOK, Meant
<1> QED
  BY <1>1, <1>2, <1>3, PTL DEF AdminSpec

-------------------------------------------------------------------------------
(* The accounts: a finished activation covers everybody *)

TabFields == {"screen", "claim", "session", "seen", "step", "asks", "inHand"}
PageFields == {"phase", "on", "expiry", "listed", "ids", "total"}

\* A row a running activation has nothing left to do for.
Covered(row, expiry) == row.role = "vip" /\ row.vip_expiry_ms = expiry
RowFields == {"role", "vip_expiry_ms", "device_id", "is_banned"}
RowOK(row) == DOMAIN row = RowFields /\ row.vip_expiry_ms \in Nat /\ row.is_banned \in {0, 1}
TableOK(table) == IsFiniteSet(DOMAIN table) /\ \A a \in DOMAIN table : RowOK(table[a])
HandsOK(t) == \A d \in Devices : t[d].step = "upsert" => RowOK(t[d].inHand)
TabsOK(t) == DOMAIN t = Devices /\ \A d \in Devices : DOMAIN t[d] = TabFields
VipPageOK(p, table) ==
  /\ DOMAIN p = PageFields /\ p.phase \in {"idle", "list", "patch", "done"}
  /\ p.listed \in BOOLEAN /\ p.ids \subseteq DOMAIN table /\ p.total \in Int
  /\ p.expiry \in Nat
  /\ p.phase = "done" => p.ids = {}
\* Who is neither on the list nor covered is excused.
Cover(p, table, ex) == \A a \in DOMAIN table \ ex : a \in p.ids \/ Covered(table[a], p.expiry)
\* What a running activation can rely on: sign-ups that read the grant read this one.
Running(p, table, grant, t, ex) ==
  /\ grant = [enabled |-> TRUE, expiry |-> p.expiry]
  /\ \A d \in Devices : t[d].step = "upsert" => t[d].asks \in ex \/ Covered(t[d].inHand, p.expiry)
  /\ p.phase = "list" /\ p.listed /\ p.total # Unknown /\ Complete(p.total, p.ids) => Cover(p, table, ex)
  /\ p.phase \in {"patch", "done"} => Cover(p, table, ex)
Grants(p, table, grant, t, ex, hour) == p.on /\ p.expiry > hour => Running(p, table, grant, t, ex)
GrantInv ==
  /\ TableOK(users) /\ TabsOK(tab) /\ HandsOK(tab) /\ VipPageOK(page, users) /\ now \in Nat
  /\ globalVip.expiry \in Nat
  /\ Grants(page, users, globalVip, tab, excused, now)

LEMMA GrantTells == GrantInv => GrantMeansEverybody
<1> SUFFICES ASSUME GrantInv, page.phase = "done", page.on, page.expiry > now, NEW a \in DOMAIN users \ excused
             PROVE  users[a].role = "vip" /\ users[a].vip_expiry_ms = page.expiry
  BY DEF GrantMeansEverybody
<1>1. Cover(page, users, excused) /\ page.ids = {}
  BY DEF GrantInv, Grants, Running, VipPageOK
<1> QED
  BY <1>1 DEF Cover, Covered

LEMMA ClosedIsOK == ASSUME NEW table PROVE VipPageOK(Closed, table) /\ Closed.on = FALSE
<1>1. /\ DOMAIN Closed = PageFields /\ Closed.phase = "idle" /\ Closed.listed = FALSE
      /\ Closed.on = FALSE /\ Closed.ids = {} /\ Closed.total = Unknown
  BY DEF Closed, PageFields
<1>2. Unknown \in Int
  BY DEF Unknown
<1>3. Closed.listed \in BOOLEAN
  BY <1>1
<1>4. Closed.expiry = NoTime /\ NoTime \in Nat
  BY TimesAssumption DEF Closed
<1>5. PICK c : c = Closed
  OBVIOUS
<1>6. VipPageOK(c, table)
  BY <1>1, <1>2, <1>4, <1>5 DEF VipPageOK
<1> QED
  BY <1>1, <1>5, <1>6

LEMMA NewIsOK == RowOK(NewUser)
BY TimesAssumption DEF NewUser, RowOK, RowFields

LEMMA GrantStart == Init => GrantInv
<1> SUFFICES ASSUME Init PROVE GrantInv
  OBVIOUS
<1>1. PICK S \in SUBSET Accounts :
        users \in [S -> {NewUser} \cup
                        {[NewUser EXCEPT !.role = "vip", !.vip_expiry_ms = Bound.time + 1,
                                         !.device_id = d] : d \in Devices}]
  BY DEF Init
<1>2. TableOK(users)
  <2>1. IsFiniteSet(S)
    BY AccountsAssumption, FS_Subset
  <2>2. ASSUME NEW a \in S PROVE RowOK(users[a])
    <3>2. CASE users[a] = NewUser
      BY <3>2, NewIsOK
    <3>3. ASSUME NEW d \in Devices,
                 users[a] = [NewUser EXCEPT !.role = "vip", !.vip_expiry_ms = Bound.time + 1, !.device_id = d]
          PROVE  RowOK(users[a])
      <4>1. PICK t : t = Bound.time + 1
        OBVIOUS
      <4>2. t \in Nat
        BY <4>1, TimesAssumption
      <4> QED
        BY <3>3, <4>1, <4>2, NewIsOK DEF RowOK, RowFields
    <3>4. users[a] \in {NewUser} \cup
                      {[NewUser EXCEPT !.role = "vip", !.vip_expiry_ms = Bound.time + 1,
                                       !.device_id = d] : d \in Devices}
      BY <1>1
    <3> QED
      BY <3>2, <3>3, <3>4
  <2> QED
    BY <1>1, <2>1, <2>2 DEF TableOK
<1>3. TabsOK(tab) /\ HandsOK(tab)
  BY DEF Init, TabsOK, HandsOK, Fresh, TabFields
<1>4. page = Closed /\ now = 0
  BY DEF Init
<1>5. globalVip.expiry \in Nat
  BY TimesAssumption DEF Init
<1> QED
  BY <1>2, <1>3, <1>4, <1>5, ClosedIsOK DEF GrantInv, Grants

-------------------------------------------------------------------------------
(* What a write leaves of the table *)

\* The rows an update is for, and the table it leaves.
HitBy(table, w, caller) ==
  {x \in DOMAIN table : /\ InScope(x, Decide("users", "write", caller), caller)
                        /\ Matches(x, table[x], {OnWireOfWrite(f) : f \in w.where})}
UpdatedBy(table, w, caller) ==
  [x \in DOMAIN table |-> IF x \in HitBy(table, w, caller) THEN Updated(table[x], w.set) ELSE table[x]]

LEMMA Update ==
  ASSUME NEW table, NEW w, NEW caller, w.op = "update"
  PROVE  \/ Write(table, w, caller).users = table /\ Write(table, w, caller).status # 200
         \/ DOMAIN w.set \subseteq UserColumns /\ Write(table, w, caller).users = UpdatedBy(table, w, caller)
<1>1. PICK wire : wire = {OnWireOfWrite(f) : f \in w.where}
  OBVIOUS
<1>2. PICK decision : decision = Decide("users", "write", caller)
  OBVIOUS
<1>0. PICK hit : hit = {x \in DOMAIN table : /\ InScope(x, decision, caller) /\ Matches(x, table[x], wire)}
  OBVIOUS
<1>3. PICK after : after = [x \in DOMAIN table |-> IF x \in hit THEN Updated(table[x], w.set) ELSE table[x]]
  OBVIOUS
<1>4. PICK answer : answer = WriteWhere(table, w, wire, caller)
  OBVIOUS
<1>5. \/ answer.users = table /\ answer.status # 200
      \/ DOMAIN w.set \subseteq UserColumns /\ answer = [status |-> 200, users |-> after, hit |-> hit]
  <2>1. PICK status : status = IF ~decision.allowed THEN 403
                               ELSE IF ~(DOMAIN w.set \subseteq UserColumns) THEN 400
                               ELSE IF decision.scoped /\ w.op = "update" /\ "id" \in DOMAIN w.set THEN 403
                               ELSE IF DOMAIN w.set = {} /\ w.op = "update" THEN 400
                               ELSE IF Refused(wire) THEN 400
                               ELSE IF w.op \in {"update", "delete"} /\ wire = {} /\ ~decision.scoped THEN 400
                               ELSE IF w.op = "insert" /\ RowWritten(w, decision, caller) \in DOMAIN table THEN 500
                               ELSE IF w.op = "upsert" /\ DOMAIN w.set = {} THEN 400
                               ELSE 200
    OBVIOUS
  <2>2. status = 200 => DOMAIN w.set \subseteq UserColumns
    BY <2>1
  <2>3. answer = IF status # 200 THEN [status |-> status, users |-> table, hit |-> {}]
                 ELSE [status |-> status, users |-> after, hit |-> hit]
    <3>1. w.op # "delete"
      OBVIOUS
    <3> QED
      BY <1>0, <1>2, <1>3, <1>4, <2>1, <3>1 DEF WriteWhere
  <2>4. CASE status = 200
    BY <2>2, <2>3, <2>4
  <2>5. CASE status # 200
    BY <2>3, <2>5
  <2> QED
    BY <2>4, <2>5
<1>7. \/ answer.users = table /\ answer.status # 200
      \/ DOMAIN w.set \subseteq UserColumns /\ answer.users = after
  BY <1>5
<1> QED
  BY <1>0, <1>1, <1>2, <1>3, <1>4, <1>7 DEF Write, UpdatedBy, HitBy

\* What may be written into a row.
SetOK(set) ==
  /\ DOMAIN set \subseteq RowFields
  /\ "vip_expiry_ms" \in DOMAIN set => set.vip_expiry_ms \in Nat
  /\ "is_banned" \in DOMAIN set => set.is_banned \in {0, 1}

LEMMA RowUpdated ==
  ASSUME NEW row, RowOK(row), NEW set, SetOK(set)
  PROVE  RowOK(Updated(row, set))
<1>1. PICK u : u = Updated(row, set)
  OBVIOUS
<1>2. DOMAIN u = RowFields /\ \A c \in RowFields : u[c] = IF c \in DOMAIN set THEN set[c] ELSE row[c]
  BY <1>1 DEF Updated, SetOK, RowOK
<1>3. u.vip_expiry_ms \in Nat /\ u.is_banned \in {0, 1}
  BY <1>2 DEF SetOK, RowOK, RowFields
<1> QED
  BY <1>1, <1>2, <1>3 DEF RowOK

\* One that writes neither role nor expiry leaves both.
Modest(set) == {"role", "vip_expiry_ms"} \cap DOMAIN set = {} /\ SetOK(set)

LEMMA RoleIsKept ==
  ASSUME NEW table, TableOK(table), NEW w, NEW caller, w.op = "update",
         Modest(w.set) \/ ~(DOMAIN w.set \subseteq UserColumns),
         NEW after, after = Write(table, w, caller).users
  PROVE  /\ TableOK(after) /\ DOMAIN after = DOMAIN table
         /\ \A x \in DOMAIN table : after[x].role = table[x].role /\ after[x].vip_expiry_ms = table[x].vip_expiry_ms
<1>1. CASE after = table
  BY <1>1
<1>2. CASE DOMAIN w.set \subseteq UserColumns /\ after = UpdatedBy(table, w, caller)
  <2>1. ASSUME NEW x \in DOMAIN table
        PROVE  /\ RowOK(after[x])
               /\ after[x].role = table[x].role /\ after[x].vip_expiry_ms = table[x].vip_expiry_ms
    <3>1. RowOK(table[x]) /\ Modest(w.set)
      BY <1>2 DEF TableOK
    <3>2. after[x] \in {Updated(table[x], w.set), table[x]}
      BY <1>2 DEF UpdatedBy
    <3>3. RowOK(Updated(table[x], w.set))
      BY <3>1, RowUpdated DEF Modest
    <3>4. /\ Updated(table[x], w.set).role = table[x].role
          /\ Updated(table[x], w.set).vip_expiry_ms = table[x].vip_expiry_ms
      BY <3>1 DEF Updated, Modest, RowOK, RowFields
    <3> QED
      BY <3>1, <3>2, <3>3, <3>4
  <2> QED
    BY <1>2, <2>1 DEF TableOK, UpdatedBy
<1> QED
  BY <1>1, <1>2, Update

\* The table an upsert of the caller's own row leaves.
UpsertedBy(table, w) ==
  [x \in DOMAIN table \cup {w.id} |->
     IF x = w.id THEN Updated(IF w.id \in DOMAIN table THEN table[w.id] ELSE NewUser, w.set) ELSE table[x]]

LEMMA Upsert ==
  ASSUME NEW table, NEW w, NEW caller, w.op = "upsert", w.id = caller.account
  PROVE  Write(table, w, caller).users \in {table, UpsertedBy(table, w)}
<1>1. RowWritten(w, Decide("users", "write", caller), caller) = w.id
  BY DEF RowWritten
<1> QED
  BY <1>1 DEF Write, WriteWhere, UpsertedBy

-------------------------------------------------------------------------------
(* What the pages' steps leave of it *)

\* No step but the three below lets a browser start an upsert.
Signing(ts, t) == \* a tab `t` is as far with an upsert as `ts` was
  t.step = "upsert" => ts.step = "upsert" /\ t.asks = ts.asks /\ t.inHand = ts.inHand
Quiets(changes) ==
  /\ DOMAIN changes \subseteq TabFields
  /\ \/ "step" \in DOMAIN changes /\ changes.step # "upsert"
     \/ DOMAIN changes \cap {"step", "asks", "inHand"} = {}

LEMMA Moved ==
  ASSUME TabsOK(tab), NEW d \in Devices, NEW changes, DOMAIN changes \subseteq TabFields, Move(d, changes)
  PROVE  /\ TabsOK(tab')
         /\ \A e \in Devices : e # d => tab'[e] = tab[e]
         /\ \A f \in TabFields : tab'[d][f] = IF f \in DOMAIN changes THEN changes[f] ELSE tab[d][f]
<1>1. tab' = [tab EXCEPT ![d] = Updated(tab[d], changes)]
  BY DEF Move
<1>2. tab'[d] = Updated(tab[d], changes) /\ DOMAIN tab' = Devices /\ \A e \in Devices : e # d => tab'[e] = tab[e]
  BY <1>1 DEF TabsOK
<1>3. DOMAIN tab[d] = TabFields
  BY DEF TabsOK
<1>4. DOMAIN tab'[d] = TabFields
  BY <1>2, <1>3 DEF Updated
<1>5. TabsOK(tab')
  BY <1>2, <1>4 DEF TabsOK
<1> QED
  BY <1>2, <1>3, <1>5 DEF Updated

LEMMA QuietMove ==
  ASSUME TabsOK(tab), NEW d \in Devices, NEW changes, Quiets(changes), Move(d, changes)
  PROVE  TabsOK(tab') /\ \A e \in Devices : Signing(tab[e], tab'[e])
<1>1. DOMAIN changes \subseteq TabFields
  BY DEF Quiets
<1>2. /\ TabsOK(tab')
      /\ \A e \in Devices : e # d => tab'[e] = tab[e]
      /\ \A f \in TabFields : tab'[d][f] = IF f \in DOMAIN changes THEN changes[f] ELSE tab[d][f]
  BY <1>1, Moved
<1>3. CASE "step" \in DOMAIN changes /\ changes.step # "upsert"
  <2>1. tab'[d].step = changes.step
    BY <1>2, <1>3 DEF TabFields
  <2> QED
    BY <1>2, <1>3, <2>1 DEF Signing
<1>4. CASE DOMAIN changes \cap {"step", "asks", "inHand"} = {}
  <2>1. tab'[d].step = tab[d].step /\ tab'[d].asks = tab[d].asks /\ tab'[d].inHand = tab[d].inHand
    BY <1>2, <1>4 DEF TabFields
  <2> QED
    BY <1>2, <2>1 DEF Signing
<1> QED
  BY <1>3, <1>4 DEF Quiets

\* A step that ends no activation's hold: nothing covered comes undone, nobody new is
\* left out, and a sign-up under way was so before, is excused or has read this grant.
Follows(t, after, ex, p, grant) ==
  \A d \in Devices : after[d].step = "upsert" =>
    \/ Signing(t[d], after[d])
    \/ after[d].asks \in ex
    \/ grant = [enabled |-> TRUE, expiry |-> p.expiry] => Covered(after[d].inHand, p.expiry)

LEMMA Holding ==
  ASSUME GrantInv, UNCHANGED <<globalVip, page>>, now' \in Nat, now' >= now,
         TableOK(users'), DOMAIN users \subseteq DOMAIN users', TabsOK(tab'), HandsOK(tab'),
         excused \subseteq excused',
         page.on /\ page.expiry > now => Follows(tab, tab', excused', page, globalVip),
         Running(page, users, globalVip, tab, excused) /\ Cover(page, users, excused) => Cover(page, users', excused')
  PROVE  GrantInv'
<1>1. VipPageOK(page, users)' /\ VipPageOK(page, users)
  BY DEF VipPageOK, GrantInv
<1>2. ASSUME page.on, page.expiry > now' PROVE Running(page, users', globalVip, tab', excused')
  <2>1. page.expiry > now
    BY <1>1, <1>2 DEF VipPageOK, GrantInv
  <2>2. Running(page, users, globalVip, tab, excused)
    BY <1>2, <2>1 DEF GrantInv, Grants
  <2>3. ASSUME NEW d \in Devices, tab'[d].step = "upsert"
        PROVE  tab'[d].asks \in excused' \/ Covered(tab'[d].inHand, page.expiry)
    <3>1. CASE Signing(tab[d], tab'[d])
      BY <2>2, <2>3, <3>1 DEF Running, Signing
    <3> QED
      BY <1>2, <2>1, <2>2, <2>3, <3>1 DEF Running, Follows
  <2> QED
    BY <2>2, <2>3 DEF Running
<1> QED
  BY <1>1, <1>2 DEF GrantInv, Grants

LEMMA HandsStay ==
  ASSUME HandsOK(tab), \A d \in Devices : Signing(tab[d], tab'[d])
  PROVE  HandsOK(tab')
BY DEF HandsOK, Signing

\* The steps that touch neither table nor page.
LEMMA Quietly ==
  ASSUME GrantInv, UNCHANGED <<users, globalVip, page, excused>>, now' \in Nat, now' >= now,
         TabsOK(tab'), \A d \in Devices : Signing(tab[d], tab'[d])
  PROVE  GrantInv'
<1>1. TableOK(users')
  BY DEF GrantInv
<1>2. Follows(tab, tab', excused', page, globalVip)
  BY DEF Follows
<1>3. Cover(page, users, excused) => Cover(page, users', excused')
  OBVIOUS
<1>4. HandsOK(tab')
  BY HandsStay DEF GrantInv
<1> QED
  BY <1>1, <1>2, <1>3, <1>4, Holding

LEMMA QuietStep ==
  ASSUME GrantInv, NEW d \in Devices, NEW changes, Quiets(changes), Move(d, changes),
         UNCHANGED <<users, globalVip, now, page, excused>>
  PROVE  GrantInv'
<1>1. TabsOK(tab') /\ \A e \in Devices : Signing(tab[e], tab'[e])
  BY QuietMove DEF GrantInv
<1> QED
  BY <1>1, Quietly DEF GrantInv

LEMMA AcceptedIsQuiet ==
  ASSUME NEW d, NEW a
  PROVE  Quiets(Accepted(d)) /\ Quiets(Updated(Accepted(d), [claim |-> a]))
<1>1. PICK s : s = Accepted(d)
  OBVIOUS
<1>2. DOMAIN s \subseteq TabFields /\ "step" \in DOMAIN s /\ s.step = "idle"
  <2>1. CASE tab[d].screen = "login"
    BY <1>1, <2>1 DEF Accepted, TabFields
  <2>2. CASE tab[d].screen # "login"
    BY <1>1, <2>2 DEF Accepted, TabFields
  <2> QED
    BY <2>1, <2>2
<1>3. PICK c : c = [claim |-> a]
  OBVIOUS
<1>4. DOMAIN c = {"claim"}
  BY <1>3
<1>5. PICK u : u = Updated(s, c)
  OBVIOUS
<1>6. DOMAIN u = DOMAIN s \cup {"claim"} /\ u.step = s.step
  BY <1>2, <1>4, <1>5 DEF Updated
<1> QED
  BY <1>1, <1>2, <1>3, <1>5, <1>6 DEF Quiets, TabFields

LEMMA QuietRecords ==
  ASSUME NEW x, NEW y, NEW z
  PROVE  /\ Quiets([claim |-> x, screen |-> y]) /\ Quiets([seen |-> x, screen |-> y]) /\ Quiets([screen |-> x])
         /\ Quiets([step |-> "lookup", asks |-> x]) /\ Quiets([step |-> "grant"])
         /\ Quiets([step |-> "idle", claim |-> x]) /\ Quiets([step |-> "update", claim |-> x])
         /\ Quiets([screen |-> x, session |-> y, seen |-> z])
BY DEF Quiets, TabFields

LEMMA BootKeeps ==
  ASSUME GrantInv, NEW d \in Devices,
         BootMaintenance(d) \/ BootBan(d) \/ AppReadsUser(d) \/ AppReadsMaintenance(d) \/ MaintenancePolls(d)
  PROVE  GrantInv'
<1>1. CASE BootMaintenance(d)
  <2>1. PICK fails \in BOOLEAN :
          Move(d, [claim |-> tab[d].session,
                   screen |-> IF ~fails /\ maintenance.isActive /\ Until(maintenance.endsAt)
                              THEN "maintenance" ELSE "bootBan"])
    BY <1>1 DEF BootMaintenance
  <2> QED
    BY <1>1, <2>1, QuietRecords, QuietStep DEF BootMaintenance, Tables
<1>2. CASE BootBan(d)
  <2>1. \E y : Move(d, [seen |-> FALSE, screen |-> y])
    BY <1>2 DEF BootBan
  <2>2. PICK y : Move(d, [seen |-> FALSE, screen |-> y])
    BY <2>1
  <2> QED
    BY <1>2, <2>2, QuietRecords, QuietStep DEF BootBan, Tables
<1>3. CASE AppReadsUser(d)
  <2>1. \E x, y : Move(d, [seen |-> x, screen |-> y])
    BY <1>3 DEF AppReadsUser
  <2>2. PICK x, y : Move(d, [seen |-> x, screen |-> y])
    BY <2>1
  <2> QED
    BY <1>3, <2>2, QuietRecords, QuietStep DEF AppReadsUser, Tables
<1>4. CASE AppReadsMaintenance(d)
  BY <1>4, QuietRecords, QuietStep DEF AppReadsMaintenance, Tables
<1>5. CASE MaintenancePolls(d)
  <2>1. Move(d, [screen |-> "boot"])
    BY <1>5 DEF MaintenancePolls
  <2> QED
    BY <1>5, <2>1, QuietRecords, QuietStep DEF MaintenancePolls, Tables
<1> QED
  BY <1>1, <1>2, <1>3, <1>4, <1>5

LEMMA SignOutKeeps ==
  ASSUME GrantInv, NEW d \in Devices, SignOut(d)
  PROVE  GrantInv'
<1>1. PICK fresh : fresh = Fresh(NoAccount)
  OBVIOUS
<1>2. DOMAIN fresh = TabFields /\ fresh.step = "idle"
  BY <1>1 DEF Fresh, TabFields
<1>3. tab' = [tab EXCEPT ![d] = fresh]
  BY <1>1 DEF SignOut
<1>4. tab'[d] = fresh /\ DOMAIN tab' = Devices /\ \A e \in Devices : e # d => tab'[e] = tab[e]
  BY <1>3 DEF GrantInv, TabsOK
<1>5. TabsOK(tab')
  BY <1>2, <1>4 DEF GrantInv, TabsOK
<1>6. \A e \in Devices : Signing(tab[e], tab'[e])
  BY <1>2, <1>4 DEF Signing
<1> QED
  BY <1>5, <1>6, Quietly DEF SignOut, Tables, GrantInv

LEMMA SubmitKeeps ==
  ASSUME GrantInv, NEW d \in Devices, NEW a \in Accounts, Submit(d, a)
  PROVE  GrantInv'
BY QuietRecords, QuietStep DEF Submit, Tables

LEMMA LookupKeeps ==
  ASSUME GrantInv, NEW d \in Devices, Lookup(d) \/ LookupTimesOut(d)
  PROVE  GrantInv'
<1>1. CASE LookupTimesOut(d)
  BY <1>1, QuietRecords, QuietStep DEF LookupTimesOut, Tables
<1>2. CASE Lookup(d)
  <2>1. PICK a : a = tab[d].asks
    OBVIOUS
  <2>2. \/ Move(d, [step |-> "grant"])
        \/ Move(d, [step |-> "idle", claim |-> a])
        \/ Move(d, [step |-> "update", claim |-> a])
        \/ Move(d, Updated(Accepted(d), [claim |-> a]))
    <3>1. PICK fails \in BOOLEAN, found \in BOOLEAN, locked \in BOOLEAN, again \in BOOLEAN :
            CASE ~found -> Move(d, [step |-> "grant"])
              [] found /\ locked -> Move(d, [step |-> "idle", claim |-> a])
              [] found /\ ~locked /\ again -> Move(d, [step |-> "update", claim |-> a])
              [] found /\ ~locked /\ ~again -> Move(d, Updated(Accepted(d), [claim |-> a]))
      <4>1. PICK fails \in BOOLEAN :
              CASE ~(Given(d, a, fails) # {}) -> Move(d, [step |-> "grant"])
                [] Given(d, a, fails) # {} /\ (users[a].role = "vip" /\ users[a].device_id \notin {"", d}) ->
                     Move(d, [step |-> "idle", claim |-> a])
                [] Given(d, a, fails) # {} /\ ~(users[a].role = "vip" /\ users[a].device_id \notin {"", d})
                     /\ Rebinds(users[a], d) -> Move(d, [step |-> "update", claim |-> a])
                [] Given(d, a, fails) # {} /\ ~(users[a].role = "vip" /\ users[a].device_id \notin {"", d})
                     /\ ~Rebinds(users[a], d) -> Move(d, Updated(Accepted(d), [claim |-> a]))
        BY <1>2, <2>1 DEF Lookup
      <4>2. PICK found \in BOOLEAN, locked \in BOOLEAN, again \in BOOLEAN :
              /\ found = (Given(d, a, fails) # {})
              /\ locked = (users[a].role = "vip" /\ users[a].device_id \notin {"", d})
              /\ again = Rebinds(users[a], d)
        BY DEF Rebinds
      <4> QED
        BY <4>1, <4>2
    <3> QED
      BY <3>1
  <2>3. UNCHANGED <<users, globalVip, now, page, excused>>
    BY <1>2 DEF Lookup, Tables
  <2> QED
    BY <2>2, <2>3, QuietRecords, AcceptedIsQuiet, QuietStep
<1> QED
  BY <1>1, <1>2

\* Rows that keep role and expiry stay covered.
LEMMA CoverIsKept ==
  ASSUME NEW p, NEW table, NEW after, NEW ex, DOMAIN after = DOMAIN table, Cover(p, table, ex),
         \A x \in DOMAIN table : after[x].role = table[x].role /\ after[x].vip_expiry_ms = table[x].vip_expiry_ms
  PROVE  Cover(p, after, ex)
BY DEF Cover, Covered

LEMMA UpdateKeeps ==
  ASSUME GrantInv, NEW w, NEW caller, w.op = "update",
         Modest(w.set) \/ ~(DOMAIN w.set \subseteq UserColumns),
         users' = users \/ users' = Write(users, w, caller).users
  PROVE  /\ TableOK(users') /\ DOMAIN users' = DOMAIN users
         /\ Cover(page, users, excused) => Cover(page, users', excused)
<1>1. CASE users' = users
  BY <1>1 DEF GrantInv
<1>2. CASE users' = Write(users, w, caller).users
  <2>1. TableOK(users)
    BY DEF GrantInv
  <2>2. /\ TableOK(users') /\ DOMAIN users' = DOMAIN users
        /\ \A x \in DOMAIN users : users'[x].role = users[x].role /\ users'[x].vip_expiry_ms = users[x].vip_expiry_ms
    BY <1>2, <2>1, RoleIsKept
  <2> QED
    BY <2>2, CoverIsKept
<1> QED
  BY <1>1, <1>2

LEMMA RebindKeeps ==
  ASSUME GrantInv, NEW d \in Devices, Rebind(d)
  PROVE  GrantInv'
<1>1. PICK w : w = [op |-> "update", id |-> NoAccount, where |-> ById(tab[d].asks), set |-> [device_id |-> d]]
  OBVIOUS
<1>2. w.op = "update" /\ DOMAIN w.set = {"device_id"}
  BY <1>1
<1>3. users' = users \/ users' = Write(users, w, CallerOf(d)).users
  BY <1>1 DEF Rebind
<1>4. /\ TableOK(users') /\ DOMAIN users' = DOMAIN users
      /\ Cover(page, users, excused) => Cover(page, users', excused)
  <2>1. Modest(w.set)
    BY <1>2 DEF Modest, SetOK, RowFields
  <2> QED
    BY <1>2, <1>3, <2>1, UpdateKeeps
<1>5. UNCHANGED <<globalVip, now, page, excused>> /\ Move(d, Accepted(d))
  BY DEF Rebind
<1>6. TabsOK(tab') /\ \A e \in Devices : Signing(tab[e], tab'[e])
  <2>1. TabsOK(tab)
    BY DEF GrantInv
  <2> QED
    BY <1>5, <2>1, AcceptedIsQuiet, QuietMove
<1>7. Follows(tab, tab', excused', page, globalVip) /\ HandsOK(tab')
  BY <1>6, HandsStay DEF Follows, GrantInv
<1> QED
  BY <1>4, <1>5, <1>6, <1>7, Holding DEF GrantInv

LEMMA PatchUserKeeps ==
  ASSUME GrantInv, NEW a \in Accounts, PatchUser(a)
  PROVE  GrantInv'
<1>1. PICK set \in Patches :
        users' = Write(users, [op |-> "update", id |-> NoAccount, where |-> ById(a), set |-> set], Admin).users
  BY DEF PatchUser
<1>2. PICK w : w = [op |-> "update", id |-> NoAccount, where |-> ById(a), set |-> set]
  OBVIOUS
<1>3. w.op = "update" /\ w.set = set /\ users' = Write(users, w, Admin).users
  BY <1>1, <1>2
<1>4. Modest(w.set) \/ ~(DOMAIN w.set \subseteq UserColumns)
  <2>1. Modest(set) \/ "vip_expiry" \in DOMAIN set
    <3>1. CASE set \in {[is_banned |-> 1], [is_banned |-> 0], [device_id |-> ""]}
      <4>1. ASSUME NEW b \in {0, 1}, set = [is_banned |-> b] PROVE Modest(set)
        BY <4>1 DEF Modest, SetOK, RowFields
      <4>2. ASSUME NEW id, set = [device_id |-> id] PROVE Modest(set)
        BY <4>2 DEF Modest, SetOK, RowFields
      <4>3. \/ set = [is_banned |-> 1] \/ set = [is_banned |-> 0] \/ \E id : set = [device_id |-> id]
        BY <3>1
      <4> QED
        BY <4>1, <4>2, <4>3
    <3>2. CASE set \in {[role |-> "vip", vip_expiry |-> 1], [role |-> "standard", vip_expiry |-> NoTime]}
      BY <3>2
    <3> QED
      BY <3>1, <3>2 DEF Patches
  <2>2. "vip_expiry" \notin UserColumns
    BY DEF UserColumns
  <2> QED
    BY <1>3, <2>1, <2>2
<1>5. /\ TableOK(users') /\ DOMAIN users' = DOMAIN users
      /\ Cover(page, users, excused) => Cover(page, users', excused)
  BY <1>3, <1>4, UpdateKeeps
<1>6. UNCHANGED <<globalVip, now, tab, page, excused>>
  BY DEF PatchUser
<1>7. TabsOK(tab') /\ HandsOK(tab') /\ Follows(tab, tab', excused', page, globalVip)
  BY <1>6 DEF GrantInv, TabsOK, HandsOK, Follows, Signing
<1> QED
  BY <1>5, <1>6, <1>7, Holding DEF GrantInv

LEMMA ClockKeeps ==
  ASSUME GrantInv, SetMaintenance \/ Tick \/ UNCHANGED vars
  PROVE  GrantInv'
<1>1. UNCHANGED <<users, globalVip, page, excused, tab>> /\ (now' = now \/ now' = now + 1)
  BY DEF SetMaintenance, Tick, Tables, vars
<1>3. now' \in Nat /\ now' >= now
  <2>1. now \in Nat
    BY DEF GrantInv
  <2> QED
    BY <1>1, <2>1
<1>2. TabsOK(tab') /\ \A d \in Devices : Signing(tab[d], tab'[d])
  BY <1>1 DEF GrantInv, TabsOK, Signing
<1> QED
  BY <1>1, <1>2, <1>3, Quietly

\* A sign-up that reads the grant reads the running activation's.
LEMMA ReadGrantKeeps ==
  ASSUME GrantInv, NEW d \in Devices, ReadGrant(d)
  PROVE  GrantInv'
<1>1. PICK fails \in BOOLEAN, given \in BOOLEAN :
        /\ given = (~fails /\ globalVip.enabled /\ globalVip.expiry > now)
        /\ Move(d, [step |-> "upsert",
                    inHand |-> [NewUser EXCEPT !.device_id = d, !.role = IF given THEN "vip" ELSE "standard",
                                               !.vip_expiry_ms = IF given THEN globalVip.expiry ELSE NoTime]])
        /\ excused' = IF fails THEN excused \cup {tab[d].asks} ELSE excused
  <2>1. PICK fails \in BOOLEAN :
        /\ Move(d, [step |-> "upsert",
                    inHand |-> [NewUser EXCEPT !.device_id = d,
                      !.role = IF ~fails /\ globalVip.enabled /\ globalVip.expiry > now THEN "vip" ELSE "standard",
                      !.vip_expiry_ms = IF ~fails /\ globalVip.enabled /\ globalVip.expiry > now
                                        THEN globalVip.expiry ELSE NoTime]])
        /\ excused' = IF fails THEN excused \cup {tab[d].asks} ELSE excused
    BY DEF ReadGrant
  <2>2. PICK given \in BOOLEAN : given = (~fails /\ globalVip.enabled /\ globalVip.expiry > now)
    OBVIOUS
  <2> QED
    BY <2>1, <2>2
<1>2. PICK row : row = [NewUser EXCEPT !.device_id = d, !.role = IF given THEN "vip" ELSE "standard",
                                       !.vip_expiry_ms = IF given THEN globalVip.expiry ELSE NoTime]
  OBVIOUS
<1>3. (given => row.role = "vip" /\ row.vip_expiry_ms = globalVip.expiry) /\ RowOK(row)
  <2>1. DOMAIN NewUser = RowFields /\ NewUser.is_banned \in {0, 1}
    BY NewIsOK DEF RowOK
  <2>2. PICK t : t = IF given THEN globalVip.expiry ELSE NoTime
    OBVIOUS
  <2>3. t \in Nat
    BY <2>2, TimesAssumption DEF GrantInv
  <2>4. row = [NewUser EXCEPT !.device_id = d, !.role = IF given THEN "vip" ELSE "standard", !.vip_expiry_ms = t]
    BY <1>2, <2>2
  <2>5. DOMAIN row = RowFields /\ row.vip_expiry_ms = t /\ row.is_banned = NewUser.is_banned
        /\ row.role = IF given THEN "vip" ELSE "standard"
    BY <2>1, <2>4 DEF RowFields
  <2> QED
    BY <2>1, <2>2, <2>3, <2>5 DEF RowOK
<1>4. PICK changes : changes = [step |-> "upsert", inHand |-> row]
  OBVIOUS
<1>5. DOMAIN changes = {"step", "inHand"} /\ changes.inHand = row
  BY <1>4
<1>6. Move(d, changes)
  BY <1>1, <1>2, <1>4
<1>7. /\ TabsOK(tab')
      /\ \A e \in Devices : e # d => tab'[e] = tab[e]
      /\ \A f \in TabFields : tab'[d][f] = IF f \in DOMAIN changes THEN changes[f] ELSE tab[d][f]
  BY <1>5, <1>6, Moved DEF GrantInv, TabFields
<1>8. tab'[d].asks = tab[d].asks /\ tab'[d].inHand = row
  BY <1>5, <1>7 DEF TabFields
<1>9. UNCHANGED <<users, globalVip, maintenance, now, page>> /\ excused \subseteq excused'
  BY <1>1 DEF ReadGrant, Tables
<1>10. page.on /\ page.expiry > now => Follows(tab, tab', excused', page, globalVip)
  <2> SUFFICES ASSUME page.on, page.expiry > now, globalVip = [enabled |-> TRUE, expiry |-> page.expiry]
               PROVE  tab'[d].asks \in excused' \/ Covered(tab'[d].inHand, page.expiry)
    BY <1>7 DEF Follows, Signing
  <2>1. CASE fails
    BY <1>1, <1>8, <2>1
  <2>2. CASE ~fails
    <3>1. globalVip.enabled = TRUE /\ globalVip.expiry = page.expiry
      OBVIOUS
    <3>2. given
      BY <1>1, <2>2, <3>1
    <3> QED
      BY <1>3, <1>8, <3>1, <3>2 DEF Covered
  <2> QED
    BY <2>1, <2>2
<1>11. TableOK(users') /\ (Cover(page, users, excused) => Cover(page, users', excused'))
  BY <1>9 DEF Cover, GrantInv
<1>12. HandsOK(tab')
  BY <1>3, <1>7, <1>8 DEF HandsOK, GrantInv
<1> QED
  BY <1>7, <1>9, <1>10, <1>11, <1>12, Holding DEF GrantInv

\* The row of a sign-up is the one it has in hand.
LEMMA EnrolKeeps ==
  ASSUME GrantInv, NEW d \in Devices, Enrol(d)
  PROVE  GrantInv'
<1>1. PICK a, inHand : a = tab[d].asks /\ inHand = tab[d].inHand
  OBVIOUS
<1>2. PICK set : set = [c \in {"role", "vip_expiry_ms", "device_id"} |-> inHand[c]]
  OBVIOUS
<1>3. DOMAIN set = {"role", "vip_expiry_ms", "device_id"} /\ set.role = inHand.role
      /\ set.vip_expiry_ms = inHand.vip_expiry_ms
  BY <1>2
<1>4. PICK w : w = [op |-> "upsert", id |-> a, where |-> {}, set |-> set]
  OBVIOUS
<1>5. PICK caller : caller = [kind |-> "user", account |-> a]
  OBVIOUS
<1>6. tab[d].step = "upsert" /\ UNCHANGED <<globalVip, now, page, excused>>
      /\ Move(d, Updated(Accepted(d), [claim |-> a]))
      /\ (users' = users \/ users' = Write(users, w, caller).users)
  BY <1>1, <1>2, <1>4, <1>5 DEF Enrol
<1>7. PICK row : row = Updated(IF a \in DOMAIN users THEN users[a] ELSE NewUser, set)
  OBVIOUS
<1>8. users' = users \/ users' = [x \in DOMAIN users \cup {a} |-> IF x = a THEN row ELSE users[x]]
  <2>1. w.op = "upsert" /\ w.id = caller.account /\ w.id = a /\ w.set = set
    BY <1>4, <1>5
  <2>2. Write(users, w, caller).users \in {users, UpsertedBy(users, w)}
    BY <2>1, Upsert
  <2> QED
    BY <1>6, <1>7, <2>1, <2>2 DEF UpsertedBy
<1>9. RowOK(row) /\ row.role = inHand.role /\ row.vip_expiry_ms = inHand.vip_expiry_ms
  <2>1. RowOK(IF a \in DOMAIN users THEN users[a] ELSE NewUser)
    BY NewIsOK DEF GrantInv, TableOK
  <2>2. SetOK(set)
    BY <1>1, <1>3, <1>6 DEF SetOK, RowFields, GrantInv, HandsOK, RowOK
  <2>3. row.role = inHand.role /\ row.vip_expiry_ms = inHand.vip_expiry_ms
    BY <1>3, <1>7 DEF Updated
  <2> QED
    BY <1>7, <2>1, <2>2, <2>3, RowUpdated
<1>10. TableOK(users') /\ DOMAIN users \subseteq DOMAIN users'
  <2>1. CASE users' = users
    BY <2>1 DEF GrantInv
  <2>2. CASE users' = [x \in DOMAIN users \cup {a} |-> IF x = a THEN row ELSE users[x]]
    <3>1. IsFiniteSet(DOMAIN users')
      BY <2>2, FS_AddElement DEF GrantInv, TableOK
    <3> QED
      BY <1>9, <2>2, <3>1 DEF GrantInv, TableOK
  <2> QED
    BY <1>8, <2>1, <2>2
<1>11. ASSUME Running(page, users, globalVip, tab, excused), Cover(page, users, excused)
       PROVE  Cover(page, users', excused')
  <2>1. CASE users' = users
    BY <1>6, <1>11, <2>1
  <2>2. CASE users' = [x \in DOMAIN users \cup {a} |-> IF x = a THEN row ELSE users[x]]
    <3>1. a \in excused \/ Covered(row, page.expiry)
      BY <1>1, <1>6, <1>9, <1>11 DEF Running, Covered
    <3> QED
      BY <1>6, <1>11, <2>2, <3>1 DEF Cover
  <2> QED
    BY <1>8, <2>1, <2>2
<1>12. TabsOK(tab') /\ \A e \in Devices : Signing(tab[e], tab'[e])
  <2>1. TabsOK(tab)
    BY DEF GrantInv
  <2> QED
    BY <1>6, <2>1, AcceptedIsQuiet, QuietMove
<1>13. Follows(tab, tab', excused', page, globalVip) /\ HandsOK(tab')
  BY <1>12, HandsStay DEF Follows, GrantInv
<1> QED
  BY <1>6, <1>10, <1>11, <1>12, <1>13, Holding DEF GrantInv

-------------------------------------------------------------------------------
(* The VIP page's steps *)

LEMMA ClosedKeeps ==
  ASSUME GrantInv, page' = Closed, TableOK(users'), UNCHANGED <<globalVip, tab, now>>
  PROVE  GrantInv'
<1>1. VipPageOK(page, users)' /\ page'.on = FALSE
  BY ClosedIsOK
<1> QED
  BY <1>1 DEF GrantInv, Grants, TabsOK, HandsOK

LEMMA SwitchVipKeeps ==
  ASSUME GrantInv, NEW on \in BOOLEAN, SwitchVip(on)
  PROVE  GrantInv'
<1>1. PICK t \in (IF on THEN now + 1 .. Bound.time + 1 ELSE {NoTime}) :
        /\ globalVip' = [enabled |-> on, expiry |-> t]
        /\ page' = [Closed EXCEPT !.phase = "list", !.on = on, !.expiry = t]
  BY DEF SwitchVip
<1>2. t \in Nat
  <2>1. CASE on
    BY <1>1, <2>1, TimesAssumption DEF GrantInv
  <2>2. CASE ~on
    BY <1>1, <2>2, TimesAssumption
  <2> QED
    BY <2>1, <2>2
<1>3. /\ DOMAIN page' = PageFields /\ page'.phase = "list" /\ page'.on = on /\ page'.expiry = t
      /\ page'.listed = FALSE /\ page'.ids = {} /\ page'.total = Unknown
  <2>1. /\ DOMAIN Closed = PageFields /\ Closed.listed = FALSE /\ Closed.ids = {} /\ Closed.total = Unknown
    BY DEF Closed, PageFields
  <2> QED
    BY <1>1, <2>1 DEF PageFields
<1>4. VipPageOK(page, users)'
  <2>1. Unknown \in Int
    BY DEF Unknown
  <2> QED
    BY <1>2, <1>3, <2>1 DEF VipPageOK
<1>5. excused' = {tab[d].asks : d \in {e \in Devices : tab[e].step = "upsert"}} /\ UNCHANGED <<users, now, tab>>
  BY DEF SwitchVip
<1>6. on => Running(page, users, globalVip, tab, excused)'
  BY <1>1, <1>3, <1>5 DEF Running
<1>7. globalVip'.expiry \in Nat
  BY <1>1, <1>2
<1> QED
  BY <1>3, <1>4, <1>5, <1>6, <1>7 DEF GrantInv, Grants, TabsOK, HandsOK, TableOK

LEMMA Listed ==
  ASSUME NEW table
  PROVE  /\ \A filters, caller : Select(table, filters, caller).ids \subseteq DOMAIN table
         /\ Select(table, {}, Admin).ids = DOMAIN table
<1>1. ASSUME NEW filters, NEW caller PROVE Select(table, filters, caller).ids \subseteq DOMAIN table
  BY DEF Select, SelectWhere
<1>2. Decide("users", "read", Admin) = [allowed |-> TRUE, scoped |-> FALSE]
  <2>1. Rights("users") = <<"owner", "owner">>
    BY DEF Rights
  <2>2. Admin.kind = "admin"
    BY DEF Admin
  <2>3. PICK rule : rule = Rights("users")[1]
    OBVIOUS
  <2>4. rule = "owner"
    BY <2>1, <2>3
  <2>5. Decide("users", "read", Admin) =
          CASE rule = "never" -> [allowed |-> FALSE, scoped |-> FALSE]
            [] rule = "owner" -> IF Admin.kind = "public" THEN [allowed |-> FALSE, scoped |-> FALSE]
                                 ELSE [allowed |-> TRUE, scoped |-> Admin.kind = "user"]
            [] OTHER -> IF Rank[Admin.kind] >= Rank[rule] THEN [allowed |-> TRUE, scoped |-> FALSE]
                        ELSE [allowed |-> FALSE, scoped |-> FALSE]
    BY <2>3 DEF Decide
  <2>6. (Admin.kind = "user") = FALSE
    BY <2>2
  <2> QED
    BY <2>2, <2>4, <2>5, <2>6
<1>3. {OnWire(f) : f \in {}} = {}
  OBVIOUS
<1>4. ~Refused({}) /\ \A a \in DOMAIN table : Matches(a, table[a], {})
  BY DEF Refused, Matches
<1>5. \A a \in DOMAIN table : InScope(a, Decide("users", "read", Admin), Admin)
  BY <1>2 DEF InScope
<1> QED
  BY <1>1, <1>2, <1>3, <1>4, <1>5 DEF Select, SelectWhere

LEMMA AllOfThem ==
  /\ Select(users, Everyone, Admin).ids \subseteq DOMAIN users
  /\ page.on => Select(users, Everyone, Admin).ids = DOMAIN users
BY Listed DEF Everyone

\* A page that goes on as it was but for what it has listed, counted or patched.
LEMMA RunKeeps ==
  ASSUME GrantInv, VipPageOK(page', users'), TableOK(users'), UNCHANGED <<globalVip, tab, now>>,
         page'.on = page.on, page'.expiry = page.expiry, excused \subseteq excused',
         page.on /\ page.expiry > now /\ Running(page, users, globalVip, tab, excused) =>
           \/ page'.phase = "list" /\ ~(page'.listed /\ page'.total # Unknown /\ Complete(page'.total, page'.ids))
           \/ Cover(page', users', excused')
  PROVE  GrantInv'
<1>1. ASSUME page.on, page.expiry > now PROVE Running(page', users', globalVip', tab', excused')
  <2>1. Running(page, users, globalVip, tab, excused)
    BY <1>1 DEF GrantInv, Grants
  <2>2. globalVip' = [enabled |-> TRUE, expiry |-> page'.expiry]
    BY <2>1 DEF Running
  <2>3. \A d \in Devices : tab'[d].step = "upsert" => tab'[d].asks \in excused' \/ Covered(tab'[d].inHand, page'.expiry)
    BY <2>1 DEF Running
  <2>4. \/ page'.phase = "list" /\ ~(page'.listed /\ page'.total # Unknown /\ Complete(page'.total, page'.ids))
        \/ Cover(page', users', excused')
    BY <1>1, <2>1
  <2> QED
    BY <2>2, <2>3, <2>4 DEF Running
<1>2. TabsOK(tab') /\ HandsOK(tab') /\ now' \in Nat /\ globalVip'.expiry \in Nat
  BY DEF GrantInv, TabsOK, HandsOK
<1> QED
  BY <1>1, <1>2 DEF GrantInv, Grants

LEMMA ListIdsKeeps ==
  ASSUME GrantInv, ListIds
  PROVE  GrantInv'
<1>1. PICK all : all = Select(users, Everyone, Admin).ids
  OBVIOUS
<1>2. PICK fails \in BOOLEAN, ids \in Clamp(all) :
        /\ page' = IF fails THEN Closed ELSE [page EXCEPT !.listed = TRUE, !.ids = ids]
        /\ excused' = IF page.total = Unknown THEN excused ELSE excused \cup (all \ ids)
  BY <1>1 DEF ListIds
<1>3. UNCHANGED <<users, globalVip, tab, now>> /\ page.phase = "list" /\ TableOK(users')
  BY DEF ListIds, Tables, GrantInv, TableOK
<1>4. ids \subseteq all /\ all \subseteq DOMAIN users /\ (page.on => all = DOMAIN users)
  BY <1>1, <1>2, AllOfThem DEF Clamp
<1>5. CASE fails
  BY <1>2, <1>3, <1>5, ClosedKeeps
<1>6. CASE ~fails
  <2>1. page' = [page EXCEPT !.listed = TRUE, !.ids = ids]
    BY <1>2, <1>6
  <2>2. /\ DOMAIN page' = PageFields /\ page'.listed = TRUE /\ page'.ids = ids
        /\ page'.phase = "list" /\ page'.on = page.on /\ page'.expiry = page.expiry /\ page'.total = page.total
    BY <1>3, <2>1 DEF GrantInv, VipPageOK, PageFields
  <2>3. VipPageOK(page', users')
    BY <1>3, <1>4, <2>2 DEF GrantInv, VipPageOK
  <2>4. excused \subseteq excused'
    BY <1>2
  <2>5. page.on /\ page'.total # Unknown => Cover(page', users', excused')
    BY <1>2, <1>3, <1>4, <2>2 DEF Cover
  <2> QED
    BY <1>3, <2>2, <2>3, <2>4, <2>5, RunKeeps
<1> QED
  BY <1>5, <1>6

LEMMA CountIdsKeeps ==
  ASSUME GrantInv, CountIds
  PROVE  GrantInv'
<1>1. PICK all : all = Select(users, Everyone, Admin).ids
  OBVIOUS
<1>2. PICK fails \in BOOLEAN :
        /\ page' = [page EXCEPT !.total = IF fails THEN 0 ELSE Cardinality(all)]
        /\ excused' = IF fails THEN excused \cup DOMAIN users ELSE excused
  BY <1>1 DEF CountIds
<1>3. UNCHANGED <<users, globalVip, tab, now>> /\ page.phase = "list" /\ TableOK(users')
  BY DEF CountIds, Tables, GrantInv, TableOK
<1>4. all \subseteq DOMAIN users /\ (page.on => all = DOMAIN users) /\ IsFiniteSet(DOMAIN users)
  BY <1>1, AllOfThem DEF GrantInv, TableOK
<1>5. Cardinality(all) \in Nat
  BY <1>4, FS_Subset, FS_CardinalityType
<1>6. PICK total : total = IF fails THEN 0 ELSE Cardinality(all)
  OBVIOUS
<1>7. total \in Int
  BY <1>5, <1>6
<1>8. /\ DOMAIN page' = PageFields /\ page'.total = total /\ page'.phase = "list"
      /\ page'.listed = page.listed /\ page'.ids = page.ids /\ page'.on = page.on /\ page'.expiry = page.expiry
  BY <1>2, <1>3, <1>6 DEF GrantInv, VipPageOK, PageFields
<1>9. VipPageOK(page', users')
  BY <1>3, <1>7, <1>8 DEF GrantInv, VipPageOK
<1>10. ASSUME page.on, Complete(page'.total, page'.ids) PROVE Cover(page', users', excused')
  <2>1. CASE fails
    BY <1>2, <1>3, <2>1 DEF Cover
  <2>2. CASE ~fails
    <3>1. page.ids \subseteq DOMAIN users /\ Cardinality(DOMAIN users) <= Cardinality(page.ids)
      BY <1>4, <1>6, <1>8, <1>10, <2>2 DEF Complete, GrantInv, VipPageOK
    <3>2. page.ids = DOMAIN users
      <4>1. PICK S, T : S = DOMAIN users /\ T = page.ids
        OBVIOUS
      <4>2. IsFiniteSet(S) /\ T \in SUBSET S /\ Cardinality(S) <= Cardinality(T)
        BY <1>4, <3>1, <4>1
      <4>3. Cardinality(T) <= Cardinality(S) /\ (Cardinality(S) = Cardinality(T) => S = T)
        BY <4>2, FS_Subset
      <4>4. Cardinality(S) \in Nat /\ Cardinality(T) \in Nat
        BY <4>2, FS_Subset, FS_CardinalityType
      <4>5. Cardinality(S) = Cardinality(T)
        BY <4>2, <4>3, <4>4
      <4> QED
        BY <4>1, <4>3, <4>5
    <3> QED
      BY <1>3, <1>8, <3>2 DEF Cover
  <2> QED
    BY <2>1, <2>2
<1>11. excused \subseteq excused'
  BY <1>2
<1> QED
  BY <1>3, <1>8, <1>9, <1>10, <1>11, RunKeeps

LEMMA CheckIdsKeeps ==
  ASSUME GrantInv, CheckIds \/ ReportDone
  PROVE  GrantInv'
<1>1. UNCHANGED <<users, globalVip, tab, now, excused>> /\ TableOK(users')
  BY DEF CheckIds, ReportDone, Tables, GrantInv, TableOK
<1>2. CASE CheckIds /\ page' = Closed
  BY <1>1, <1>2, ClosedKeeps
<1>3. CASE CheckIds /\ Complete(page.total, page.ids) /\ page' = [page EXCEPT !.phase = "patch"]
  <2>1. /\ DOMAIN page' = PageFields /\ page'.phase = "patch" /\ page'.listed = page.listed
        /\ page'.ids = page.ids /\ page'.on = page.on /\ page'.expiry = page.expiry /\ page'.total = page.total
    BY <1>3 DEF GrantInv, VipPageOK, PageFields
  <2>2. VipPageOK(page', users')
    BY <1>1, <2>1 DEF GrantInv, VipPageOK
  <2>3. Running(page, users, globalVip, tab, excused) => Cover(page', users', excused')
    BY <1>1, <1>3, <2>1 DEF CheckIds, Running, Cover
  <2> QED
    BY <1>1, <2>1, <2>2, <2>3, RunKeeps
<1>4. CASE ReportDone
  <2>1. /\ DOMAIN page' = PageFields /\ page'.phase = "done" /\ page'.listed = page.listed
        /\ page'.ids = page.ids /\ page'.on = page.on /\ page'.expiry = page.expiry /\ page'.total = page.total
        /\ page.ids = {}
    BY <1>4 DEF GrantInv, VipPageOK, PageFields, ReportDone
  <2>2. VipPageOK(page', users')
    BY <1>1, <2>1 DEF GrantInv, VipPageOK
  <2>3. Running(page, users, globalVip, tab, excused) => Cover(page', users', excused')
    BY <1>1, <1>4, <2>1 DEF ReportDone, Running, Cover
  <2> QED
    BY <1>1, <2>1, <2>2, <2>3, RunKeeps
<1> QED
  BY <1>2, <1>3, <1>4 DEF CheckIds

\* A batch the admin asks for is written whole: no row of it escapes the filter.
LEMMA BatchIsHit ==
  ASSUME NEW table, NEW batch, batch \subseteq DOMAIN table, NEW w,
         w.where = {[column |-> "id", op |-> "in", values |-> {Text(a) : a \in batch}]}
  PROVE  batch \subseteq HitBy(table, w, Admin)
<1>1. PICK f : f = [column |-> "id", op |-> "in", values |-> {Text(a) : a \in batch}]
  OBVIOUS
<1>2. PICK wire : wire = OnWireOfWrite(f)
  OBVIOUS
<1>3. wire.column = "id" /\ wire.op = "in" /\ wire.values = {Text(a) : a \in batch}
  <2>1. AliasOut("id") = "id"
    BY DEF AliasOut, Aliases
  <2>2. \A a \in batch : HubValue(Text(a)) = Text(a)
    BY DEF HubValue, Text, Value
  <2>3. {HubValue(v) : v \in {Text(a) : a \in batch}} = {Text(a) : a \in batch}
    BY <2>2
  <2>4. /\ DOMAIN f = {"column", "op", "values"} /\ f.column = "id" /\ f.op = "in"
        /\ f.values = {Text(a) : a \in batch}
    BY <1>1
  <2> QED
    BY <1>2, <2>1, <2>3, <2>4 DEF OnWireOfWrite
<1>4. {OnWireOfWrite(g) : g \in w.where} = {wire}
  BY <1>1, <1>2
<1>5. ASSUME NEW x \in batch PROVE Matches(x, table[x], {wire})
  <2>1. Cell(x, table[x], "id") = Text(x)
    BY DEF Cell
  <2>2. Text(x).kind = "text" /\ Num(NoTime).kind = "number"
    BY DEF Text, Num, Value
  <2>3. Holds("eq", Cell(x, table[x], "id"), Text(x))
    BY <2>1, <2>2 DEF Holds
  <2> QED
    BY <1>3, <2>3 DEF Matches
<1>6. ASSUME NEW x PROVE InScope(x, Decide("users", "write", Admin), Admin)
  <2>1. Decide("users", "write", Admin).scoped => Admin.kind = "user"
    BY Zenon DEF Decide
  <2> QED
    BY <2>1 DEF InScope, Admin
<1> QED
  BY <1>4, <1>5, <1>6 DEF HitBy

LEMMA PatchBatchKeeps ==
  ASSUME GrantInv, PatchBatch
  PROVE  GrantInv'
<1> DEFINE Order(batch) ==
      [op |-> "update", id |-> NoAccount,
       where |-> {[column |-> "id", op |-> "in", values |-> {Text(a) : a \in batch}]},
       set |-> [role |-> IF page.on THEN "vip" ELSE "standard", vip_expiry_ms |-> page.expiry]]
<1>0. PICK batch \in SUBSET page.ids, fails \in BOOLEAN :
        /\ users' = IF fails THEN users ELSE Write(users, Order(batch), Admin).users
        /\ page' = IF fails \/ Write(users, Order(batch), Admin).status # 200 THEN Closed
                   ELSE [page EXCEPT !.ids = page.ids \ batch]
  BY DEF PatchBatch
<1> HIDE DEF Order
<1>10. PICK w : w = Order(batch)
  OBVIOUS
<1>11. PICK answer : answer = Write(users, w, Admin)
  OBVIOUS
<1>1. /\ users' = IF fails THEN users ELSE answer.users
      /\ page' = IF fails \/ answer.status # 200 THEN Closed ELSE [page EXCEPT !.ids = page.ids \ batch]
  BY <1>0, <1>10, <1>11
<1>2. UNCHANGED <<globalVip, tab, now, excused>> /\ page.phase = "patch"
  BY DEF PatchBatch
<1>3. PICK set : set = [role |-> IF page.on THEN "vip" ELSE "standard", vip_expiry_ms |-> page.expiry]
  OBVIOUS
<1>4. DOMAIN set = {"role", "vip_expiry_ms"} /\ (page.on => Covered(set, page.expiry))
  BY <1>3 DEF Covered
<1>5. /\ w.op = "update" /\ w.set = set
      /\ w.where = {[column |-> "id", op |-> "in", values |-> {Text(a) : a \in batch}]}
  BY <1>10, <1>3 DEF Order
<1>6. \/ users' = users
      \/ users' = UpdatedBy(users, w, Admin)
  BY <1>1, <1>11, <1>5, Update
<1>7. TableOK(users') /\ DOMAIN users' = DOMAIN users
  <2>1. SetOK(set)
    BY <1>3, <1>4 DEF SetOK, RowFields, GrantInv, VipPageOK
  <2>2. \A x \in DOMAIN users : RowOK(users[x]) /\ RowOK(Updated(users[x], set))
    BY <2>1, RowUpdated DEF GrantInv, TableOK
  <2> QED
    BY <1>5, <1>6, <2>2 DEF GrantInv, TableOK, UpdatedBy
<1>8. CASE fails \/ answer.status # 200
  BY <1>1, <1>2, <1>7, <1>8, ClosedKeeps
<1>9. CASE ~fails /\ answer.status = 200
  <2>1. users' = UpdatedBy(users, w, Admin) /\ page' = [page EXCEPT !.ids = page.ids \ batch]
    BY <1>1, <1>11, <1>5, <1>9, Update
  <2>2. /\ DOMAIN page' = PageFields /\ page'.phase = "patch" /\ page'.listed = page.listed
        /\ page'.ids = page.ids \ batch
        /\ page'.on = page.on /\ page'.expiry = page.expiry /\ page'.total = page.total
    BY <1>2, <2>1 DEF GrantInv, VipPageOK, PageFields
  <2>3. VipPageOK(page', users')
    BY <1>7, <2>2 DEF GrantInv, VipPageOK
  <2>4. batch \subseteq HitBy(users, w, Admin)
    BY <1>5, BatchIsHit DEF GrantInv, VipPageOK
  <2>5. ASSUME page.on, Running(page, users, globalVip, tab, excused), NEW x \in DOMAIN users \ excused
        PROVE  x \in page.ids \ batch \/ Covered(users'[x], page.expiry)
    <3>1. CASE x \in HitBy(users, w, Admin)
      BY <1>4, <1>5, <2>1, <2>5, <3>1 DEF UpdatedBy, Updated, Covered
    <3>2. CASE x \notin HitBy(users, w, Admin)
      <4>1. users'[x] = users[x] /\ x \notin batch
        BY <2>1, <2>4, <3>2 DEF UpdatedBy
      <4> QED
        BY <1>2, <2>5, <4>1 DEF Running, Cover
    <3> QED
      BY <3>1, <3>2
  <2>6. page.on /\ Running(page, users, globalVip, tab, excused) => Cover(page', users', excused')
    BY <1>2, <1>7, <2>2, <2>5 DEF Cover
  <2> QED
    BY <1>2, <1>7, <2>2, <2>3, <2>6, RunKeeps
<1> QED
  BY <1>8, <1>9

LEMMA GrantStep == GrantInv /\ [Next]_vars => GrantInv'
BY BootKeeps, SignOutKeeps, SubmitKeeps, LookupKeeps, RebindKeeps, ReadGrantKeeps, EnrolKeeps, SwitchVipKeeps,
   ListIdsKeeps, CountIdsKeeps, CheckIdsKeeps, PatchBatchKeeps, PatchUserKeeps, ClockKeeps DEF Next

\* A finished activation covers every account, those that signed up while it ran included,
\* however many accounts, browsers and batches there are and in whatever order the list,
\* the count, the batches and the sign-ups come (vip/page.tsx:133-167, auth.ts:54).
THEOREM ActivationCoversEverybody == AdminSpec => []GrantMeansEverybody
<1> DEFINE Inv == /\ which = "accounts" => GrantInv
                  /\ which # "accounts" => page.phase # "done"
<1>1. AdminInit => Inv
  <2> SUFFICES ASSUME AdminInit PROVE Inv
    OBVIOUS
  <2>1. CASE which = "accounts"
    BY <2>1, GrantStart DEF AdminInit
  <2>2. CASE which # "accounts"
    BY <2>2 DEF AdminInit, NoAccounts
  <2> QED
    BY <2>1, <2>2
<1>2. Inv /\ [AdminNext]_<<vars, which, rows, pages, past>> => Inv'
  <2> SUFFICES ASSUME Inv, [AdminNext]_<<vars, which, rows, pages, past>> PROVE Inv'
    OBVIOUS
  <2>1. UNCHANGED which /\ (which = "accounts" => [Next]_vars) /\ (which # "accounts" => UNCHANGED vars)
    BY DEF AdminNext
  <2>2. CASE which = "accounts"
    BY <2>1, <2>2, GrantStep
  <2>3. CASE which # "accounts"
    BY <2>1, <2>3 DEF vars
  <2> QED
    BY <2>2, <2>3
<1>3. Inv => GrantMeansEverybody
  <2>1. CASE which = "accounts"
    BY <2>1, GrantTells
  <2>2. CASE which # "accounts"
    BY <2>2 DEF GrantMeansEverybody
  <2> QED
    BY <2>1, <2>2
<1> QED
  BY <1>1, <1>2, <1>3, PTL DEF AdminSpec

-------------------------------------------------------------------------------
(* The accounts: one write reaches its caller's rows, and those its filters mean *)

\* A filter on an account, a role or a ban, in the words of the app.
PlainFilter(q) ==
  /\ DOMAIN q = {"column", "op", "values"}
  /\ q.op \in {"eq", "in", "ne"} /\ (q.op = "eq" => q.values # {})
  /\ \/ q.column \in {"id", "role"} /\ \A v \in q.values : \E s : v = Text(s)
     \/ q.column = "is_banned" /\ \A v \in q.values : v \in {Truth(TRUE), Truth(FALSE)}

LEMMA ValuesDiffer ==
  /\ \A s, t : Text(s) = Text(t) <=> s = t
  /\ \A m, n : Num(m) = Num(n) <=> m = n
  /\ \A s : Text(s).kind = "text" /\ Text(s).s = s
  /\ \A n : Num(n).kind = "number" /\ Num(n).n = n
  /\ \A b \in BOOLEAN : Truth(b).kind = "truth" /\ Truth(b).n = (IF b THEN 1 ELSE 0)
BY DEF Text, Num, Truth, Value

LEMMA HubValues ==
  /\ \A s : HubValue(Text(s)) = Text(s)
  /\ \A b \in BOOLEAN : HubValue(Truth(b)) = Num(Truth(b).n)
BY ValuesDiffer DEF HubValue

\* A value is what a row has in a column, and what it is compared with once on the wire.
Is(a, row, column, v) ==
  CASE column = "id" -> a = v.s
    [] column = "role" -> row["role"] = v.s
    [] column = "is_banned" -> row["is_banned"] = v.n
    [] column = "vip_expiry" -> row["vip_expiry_ms"] = v.n

LEMMA HoldsMeans ==
  ASSUME NEW a, NEW row, NEW column, NEW v,
         \/ column \in {"id", "role"} /\ \E s : v = Text(s)
         \/ column = "is_banned" /\ v \in {Truth(TRUE), Truth(FALSE)}
  PROVE  /\ Holds("eq", Cell(a, row, column), HubValue(v)) => Is(a, row, column, v)
         /\ Holds("ne", Cell(a, row, column), HubValue(v)) => ~Is(a, row, column, v)
<1>1. CASE column \in {"id", "role"} /\ \E s : v = Text(s)
  <2>1. PICK s : v = Text(s)
    BY <1>1
  <2>2. HubValue(v) = Text(s) /\ v.s = s
    BY <2>1, HubValues, ValuesDiffer
  <2>3. PICK held : held = IF column = "id" THEN a ELSE row["role"]
    OBVIOUS
  <2>4. Cell(a, row, column) = Text(held)
    BY <1>1, <2>3 DEF Cell
  <2>5. Holds("eq", Text(held), Text(s)) => held = s
    BY ValuesDiffer DEF Holds
  <2>6. Holds("ne", Text(held), Text(s)) => held # s
    BY ValuesDiffer DEF Holds
  <2> QED
    BY <1>1, <2>2, <2>3, <2>4, <2>5, <2>6 DEF Is
<1>2. CASE column = "is_banned" /\ v \in {Truth(TRUE), Truth(FALSE)}
  <2>1. PICK n : n = v.n
    OBVIOUS
  <2>2. HubValue(v) = Num(n)
    BY <1>2, <2>1, HubValues
  <2>3. Cell(a, row, column) = Num(row["is_banned"])
    BY <1>2 DEF Cell
  <2>4. Holds("eq", Num(row["is_banned"]), Num(n)) => row["is_banned"] = n
    BY ValuesDiffer DEF Holds
  <2>5. Holds("ne", Num(row["is_banned"]), Num(n)) => row["is_banned"] # n
    BY ValuesDiffer DEF Holds
  <2> QED
    BY <1>2, <2>1, <2>2, <2>3, <2>4, <2>5 DEF Is
<1> QED
  BY <1>1, <1>2

LEMMA FilterMeans ==
  ASSUME NEW a, NEW row, NEW q, PlainFilter(q), NEW wire, OnWireOfWrite(q) \in wire, Matches(a, row, wire)
  PROVE  Meaning(a, row, q)
<1>1. PICK f : f = OnWireOfWrite(q)
  OBVIOUS
<1>2. f.column = q.column /\ f.op = q.op /\ f.values = {HubValue(v) : v \in q.values}
  <2>1. AliasOut(q.column) = q.column
    BY DEF PlainFilter, AliasOut, Aliases
  <2> QED
    BY <1>1, <2>1 DEF OnWireOfWrite, PlainFilter
<1>3. IF q.op = "in" THEN \E v \in q.values : Holds("eq", Cell(a, row, q.column), HubValue(v))
      ELSE \A v \in q.values : Holds(q.op, Cell(a, row, q.column), HubValue(v))
  <2>1. IF f.op = "in" THEN \E v \in f.values : Holds("eq", Cell(a, row, f.column), v)
        ELSE \A v \in f.values : Holds(f.op, Cell(a, row, f.column), v)
    BY <1>1 DEF Matches
  <2> QED
    BY <1>2, <2>1
<1>4. ASSUME NEW v \in q.values
      PROVE  /\ Holds("eq", Cell(a, row, q.column), HubValue(v)) => Is(a, row, q.column, v)
             /\ Holds("ne", Cell(a, row, q.column), HubValue(v)) => ~Is(a, row, q.column, v)
  <2>1. \/ q.column \in {"id", "role"} /\ \E s : v = Text(s)
        \/ q.column = "is_banned" /\ v \in {Truth(TRUE), Truth(FALSE)}
    BY DEF PlainFilter
  <2> QED
    BY <2>1, HoldsMeans
<1>5. q.op \in {"eq", "in", "ne"} /\ (q.op = "eq" => q.values # {})
  BY DEF PlainFilter
<1>6. q.op \in {"eq", "in"} => \E v \in q.values : Is(a, row, q.column, v)
  BY <1>3, <1>4, <1>5
<1>7. q.op = "ne" => \A v \in q.values : ~Is(a, row, q.column, v)
  BY <1>3, <1>4
<1> QED
  BY <1>5, <1>6, <1>7 DEF Meaning, Is

LEMMA DecideWrite ==
  ASSUME NEW caller, caller.kind \in DOMAIN Rank
  PROVE  Decide("users", "write", caller) =
           IF caller.kind = "public" THEN [allowed |-> FALSE, scoped |-> FALSE]
           ELSE [allowed |-> TRUE, scoped |-> caller.kind = "user"]
<1>1. PICK rule : rule = Rights("users")[2]
  OBVIOUS
<1>2. rule = "owner"
  BY <1>1 DEF Rights
<1>3. Decide("users", "write", caller) =
        CASE rule = "never" -> [allowed |-> FALSE, scoped |-> FALSE]
          [] rule = "owner" -> IF caller.kind = "public" THEN [allowed |-> FALSE, scoped |-> FALSE]
                               ELSE [allowed |-> TRUE, scoped |-> caller.kind = "user"]
          [] OTHER -> IF Rank[caller.kind] >= Rank[rule] THEN [allowed |-> TRUE, scoped |-> FALSE]
                      ELSE [allowed |-> FALSE, scoped |-> FALSE]
  BY <1>1 DEF Decide
<1> QED
  BY <1>2, <1>3

\* The table a write leaves, and what that has done to the row of an account.
Left(table, w, wire, caller) == WriteWhere(table, w, wire, caller).users
Changed(a, table, after) == \/ (a \in DOMAIN table) # (a \in DOMAIN after)
                            \/ a \in DOMAIN table /\ table[a] # after[a]

\* One write changes rows of its caller's only, and an update or a delete those its
\* filters match, and never a table without one.
LEMMA WriteWhereStays ==
  ASSUME NEW table, NEW w, w.op \in {"insert", "upsert", "update", "delete"}, NEW wire,
         NEW caller, caller.kind \in DOMAIN Rank,
         NEW a, Changed(a, table, Left(table, w, wire, caller))
  PROVE  /\ caller.kind # "public" /\ Mine(a, caller)
         /\ w.op \in {"update", "delete"} =>
              Matches(a, table[a], wire) /\ (wire # {} \/ caller.kind = "user")
<1>2. PICK decision : decision = Decide("users", "write", caller)
  OBVIOUS
<1>3. PICK own : own = RowWritten(w, decision, caller)
  OBVIOUS
<1>4. PICK hit : hit = {x \in DOMAIN table : /\ InScope(x, decision, caller)
                                             /\ Matches(x, table[x], wire)}
  OBVIOUS
<1>5. PICK after : after = WriteWhere(table, w, wire, caller).users
  OBVIOUS
<1>6. Changed(a, table, after)
  BY <1>5 DEF Left
<1>7. after # table /\ (a \in DOMAIN table \/ a \in DOMAIN after)
  BY <1>6 DEF Changed
<1>8. PICK status : status = IF ~decision.allowed THEN 403
                             ELSE IF ~(DOMAIN w.set \subseteq UserColumns) THEN 400
                             ELSE IF decision.scoped /\ w.op = "update" /\ "id" \in DOMAIN w.set THEN 403
                             ELSE IF DOMAIN w.set = {} /\ w.op = "update" THEN 400
                             ELSE IF Refused(wire) THEN 400
                             ELSE IF w.op \in {"update", "delete"} /\ wire = {} /\ ~decision.scoped THEN 400
                             ELSE IF w.op = "insert" /\ own \in DOMAIN table THEN 500
                             ELSE IF w.op = "upsert" /\ DOMAIN w.set = {} THEN 400
                             ELSE 200
  OBVIOUS
<1>9. after = CASE status # 200 -> table
                [] status = 200 /\ w.op = "update" ->
                     [x \in DOMAIN table |-> IF x \in hit THEN Updated(table[x], w.set) ELSE table[x]]
                [] status = 200 /\ w.op = "delete" -> [x \in DOMAIN table \ hit |-> table[x]]
                [] OTHER -> [x \in DOMAIN table \cup {own} |->
                               IF x = own THEN Updated(IF own \in DOMAIN table THEN table[own] ELSE NewUser, w.set)
                               ELSE table[x]]
  BY <1>2, <1>3, <1>4, <1>5, <1>8 DEF WriteWhere
<1>10. status = 200
  BY <1>7, <1>9
<1>11. decision.allowed /\ (w.op \in {"update", "delete"} => wire # {} \/ decision.scoped)
  BY <1>8, <1>10
<1>12. caller.kind # "public" /\ decision = [allowed |-> TRUE, scoped |-> caller.kind = "user"]
  BY <1>2, <1>11, DecideWrite
<1>13. (caller.kind = "user") => decision.scoped
  BY <1>12
<1>14. ~decision.scoped \/ caller.kind = "user"
  BY <1>12
<1>15. CASE w.op \in {"update", "delete"}
  <2>1. a \in hit
    BY <1>6, <1>9, <1>10, <1>15 DEF Changed
  <2>2. Mine(a, caller)
    BY <1>4, <1>13, <2>1 DEF InScope, Mine
  <2>3. Matches(a, table[a], wire)
    BY <1>4, <2>1
  <2>4. wire # {} \/ caller.kind = "user"
    BY <1>11, <1>14, <1>15
  <2> QED
    BY <1>12, <2>2, <2>3, <2>4
<1>16. CASE w.op \in {"insert", "upsert"}
  <2>1. a = own
    BY <1>6, <1>9, <1>10, <1>16 DEF Changed
  <2> QED
    BY <1>3, <1>12, <1>13, <1>16, <2>1 DEF RowWritten, Mine
<1> QED
  BY <1>15, <1>16

\* The same of a write as a page names it: it reaches the rows its filters mean.
LEMMA AWriteStaysInScope ==
  ASSUME NEW w, w.op \in {"insert", "upsert", "update", "delete"}, \A q \in w.where : PlainFilter(q),
         NEW caller, caller.kind \in DOMAIN Rank,
         NEW a, Differs(a, Write(users, w, caller).users)
  PROVE  /\ caller.kind # "public" /\ Mine(a, caller)
         /\ w.op \in {"update", "delete"} =>
              /\ \A q \in w.where : Meaning(a, users[a], q)
              /\ w.where # {} \/ caller.kind = "user"
<1>1. PICK wire : wire = {OnWireOfWrite(f) : f \in w.where}
  OBVIOUS
<1>2. Changed(a, users, Left(users, w, wire, caller))
  BY <1>1 DEF Differs, Changed, Write, Left
<1>3. /\ caller.kind # "public" /\ Mine(a, caller)
      /\ w.op \in {"update", "delete"} =>
           Matches(a, users[a], wire) /\ (wire # {} \/ caller.kind = "user")
  BY <1>2, WriteWhereStays
<1>4. ASSUME NEW q \in w.where, Matches(a, users[a], wire) PROVE Meaning(a, users[a], q)
  BY <1>1, <1>4, FilterMeans
<1>5. w.where # {} \/ wire = {}
  BY <1>1
<1> QED
  BY <1>3, <1>4, <1>5

\* A write that is not refused.
Accepts(table, w, wire, caller) == WriteWhere(table, w, wire, caller).status = 200
\* What it has left, of an upsert.
LEMMA UpsertLands ==
  ASSUME NEW table, NEW w, w.op = "upsert", NEW wire, NEW caller, caller.kind \in DOMAIN Rank,
         Accepts(table, w, wire, caller)
  PROVE  /\ DOMAIN table \subseteq DOMAIN Left(table, w, wire, caller)
         /\ caller.kind # "user" => w.id \in DOMAIN Left(table, w, wire, caller)
<1>0. PICK answer : answer = WriteWhere(table, w, wire, caller)
  OBVIOUS
<1>1. PICK decision : decision = Decide("users", "write", caller)
  OBVIOUS
<1>2. PICK own : own = RowWritten(w, decision, caller)
  OBVIOUS
<1>3. PICK status : status = IF ~decision.allowed THEN 403
                             ELSE IF ~(DOMAIN w.set \subseteq UserColumns) THEN 400
                             ELSE IF decision.scoped /\ w.op = "update" /\ "id" \in DOMAIN w.set THEN 403
                             ELSE IF DOMAIN w.set = {} /\ w.op = "update" THEN 400
                             ELSE IF Refused(wire) THEN 400
                             ELSE IF w.op \in {"update", "delete"} /\ wire = {} /\ ~decision.scoped THEN 400
                             ELSE IF w.op = "insert" /\ own \in DOMAIN table THEN 500
                             ELSE IF w.op = "upsert" /\ DOMAIN w.set = {} THEN 400
                             ELSE 200
  OBVIOUS
<1>4. PICK after : after = [x \in DOMAIN table \cup {own} |->
                              IF x = own THEN Updated(IF own \in DOMAIN table THEN table[own] ELSE NewUser, w.set)
                              ELSE table[x]]
  OBVIOUS
<1>5. answer = IF status # 200 THEN [status |-> status, users |-> table, hit |-> {}]
               ELSE [status |-> status, users |-> after, hit |-> {own}]
  BY <1>0, <1>1, <1>2, <1>3, <1>4 DEF WriteWhere
<1>6. status = 200
  BY <1>0, <1>5 DEF Accepts
<1>7. answer.users = after /\ decision.allowed
  BY <1>3, <1>5, <1>6
<1>8. decision = [allowed |-> TRUE, scoped |-> caller.kind = "user"]
  BY <1>1, <1>7, DecideWrite
<1>9. caller.kind # "user" => ~decision.scoped
  BY <1>8
<1>10. caller.kind # "user" => own = w.id
  BY <1>2, <1>9 DEF RowWritten
<1> QED
  BY <1>0, <1>4, <1>7, <1>10 DEF Left

-------------------------------------------------------------------------------
(* The rows of one request, one after the other *)

Unwritten == [status |-> 200, users |-> users]
\* What the first row, and the second after it, come to.
First(op, wire, caller, r) == AndRow(users, op, wire, caller, Unwritten, r)
Second(op, wire, caller, r, s) == AndRow(users, op, wire, caller, First(op, wire, caller, r), s)

LEMMA OneRow ==
  ASSUME NEW op, NEW items, NEW r, NEW caller
  PROVE  WriteRoute(users, op, <<r>>, items, caller) = First(op, ParseFilters(items), caller, r)
<1>1. PICK wire : wire = ParseFilters(items)
  OBVIOUS
<1>2. PICK first : first = First(op, wire, caller, r)
  OBVIOUS
<1>3. PICK done : done = CHOOSE d : d = [n \in 0..Len(<<r>>) |->
                           IF n = 0 THEN [status |-> 200, users |-> users]
                           ELSE AndRow(users, op, wire, caller, d[n - 1], <<r>>[n])]
  OBVIOUS
<1>4. PICK d : d = [n \in 0..1 |-> IF n = 0 THEN Unwritten ELSE first]
  OBVIOUS
<1>5. d[0] = Unwritten /\ d[1] = first
  BY <1>4
<1>6. 0..Len(<<r>>) = {0, 1} /\ 0..1 = {0, 1} /\ <<r>>[1] = r
  OBVIOUS
<1>7. ASSUME NEW n \in 0..1
      PROVE  d[n] = IF n = 0 THEN [status |-> 200, users |-> users]
                    ELSE AndRow(users, op, wire, caller, d[n - 1], <<r>>[n])
  <2>1. CASE n = 0
    BY <1>5, <2>1 DEF Unwritten
  <2>2. CASE n = 1
    BY <1>2, <1>5, <2>2, 1 - 1 = 0, 1 # 0 DEF First
  <2> QED
    BY <1>6, <2>1, <2>2
<1>8. d = [n \in 0..Len(<<r>>) |-> IF n = 0 THEN [status |-> 200, users |-> users]
                                   ELSE AndRow(users, op, wire, caller, d[n - 1], <<r>>[n])]
  BY <1>4, <1>6, <1>7
<1>9. done = [n \in 0..Len(<<r>>) |-> IF n = 0 THEN [status |-> 200, users |-> users]
                                      ELSE AndRow(users, op, wire, caller, done[n - 1], <<r>>[n])]
  BY <1>3, <1>8
<1>10. done[0] = Unwritten
  BY <1>6, <1>9 DEF Unwritten
<1>11. done[1] = AndRow(users, op, wire, caller, done[0], r)
  BY <1>6, <1>9, 1 - 1 = 0, 1 # 0
<1>12. WriteRoute(users, op, <<r>>, items, caller) = done[Len(<<r>>)]
  BY <1>1, <1>3, <<r>> # <<>> DEF WriteRoute
<1> QED
  BY <1>1, <1>10, <1>11, <1>12, Len(<<r>>) = 1 DEF First

LEMMA TwoRows ==
  ASSUME NEW op, NEW items, NEW r, NEW s, NEW caller
  PROVE  WriteRoute(users, op, <<r, s>>, items, caller) = Second(op, ParseFilters(items), caller, r, s)
<1>1. PICK wire : wire = ParseFilters(items)
  OBVIOUS
<1>2. PICK first : first = First(op, wire, caller, r)
  OBVIOUS
<1>3. PICK done : done = CHOOSE d : d = [n \in 0..Len(<<r, s>>) |->
                           IF n = 0 THEN [status |-> 200, users |-> users]
                           ELSE AndRow(users, op, wire, caller, d[n - 1], <<r, s>>[n])]
  OBVIOUS
<1>13. PICK second : second = Second(op, wire, caller, r, s)
  OBVIOUS
<1>4. PICK d : d = [n \in 0..2 |-> IF n = 0 THEN Unwritten ELSE IF n = 1 THEN first ELSE second]
  OBVIOUS
<1>5. d[0] = Unwritten /\ d[1] = first /\ d[2] = second
  BY <1>4
<1>6. 0..Len(<<r, s>>) = {0, 1, 2} /\ 0..2 = {0, 1, 2} /\ <<r, s>>[1] = r /\ <<r, s>>[2] = s
  OBVIOUS
<1>7. ASSUME NEW n \in 0..2
      PROVE  d[n] = IF n = 0 THEN [status |-> 200, users |-> users]
                    ELSE AndRow(users, op, wire, caller, d[n - 1], <<r, s>>[n])
  <2>1. CASE n = 0
    BY <1>5, <2>1 DEF Unwritten
  <2>2. CASE n = 1
    BY <1>2, <1>5, <2>2, <1>6, 1 - 1 = 0, 1 # 0 DEF First
  <2>3. CASE n = 2
    BY <1>2, <1>13, <1>5, <1>6, <2>3, 2 - 1 = 1, 2 # 0 DEF Second
  <2> QED
    BY <1>6, <2>1, <2>2, <2>3
<1>8. d = [n \in 0..Len(<<r, s>>) |-> IF n = 0 THEN [status |-> 200, users |-> users]
                                      ELSE AndRow(users, op, wire, caller, d[n - 1], <<r, s>>[n])]
  BY <1>4, <1>6, <1>7
<1>9. done = [n \in 0..Len(<<r, s>>) |-> IF n = 0 THEN [status |-> 200, users |-> users]
                                         ELSE AndRow(users, op, wire, caller, done[n - 1], <<r, s>>[n])]
  BY <1>3, <1>8
<1>10. done[0] = Unwritten
  BY <1>6, <1>9 DEF Unwritten
<1>11. done[1] = AndRow(users, op, wire, caller, done[0], r)
  BY <1>6, <1>9, 1 - 1 = 0, 1 # 0
<1>14. done[2] = AndRow(users, op, wire, caller, done[1], s)
  BY <1>6, <1>9, 2 - 1 = 1, 2 # 0
<1>12. WriteRoute(users, op, <<r, s>>, items, caller) = done[Len(<<r, s>>)]
  BY <1>1, <1>3, <<r, s>> # <<>> DEF WriteRoute
<1> QED
  BY <1>1, <1>10, <1>11, <1>12, <1>14, Len(<<r, s>>) = 2 DEF First, Second

\* What a request may have come to after some of its rows: nothing is written of one
\* that is refused, and what is changed is its caller's.
Fair(done, caller) ==
  /\ done.status # 200 => done.users = users
  /\ \A x : Changed(x, users, done.users) => caller.kind # "public" /\ Mine(x, caller)

LEMMA NothingYet == ASSUME NEW caller PROVE Fair(Unwritten, caller)
BY DEF Fair, Unwritten, Changed

LEMMA OrderKind ==
  ASSUME NEW op, NEW set
  PROVE  /\ OrderOf(op, set).op = op
         /\ "id" \in DOMAIN set => OrderOf(op, set).id = set["id"]
BY DEF OrderOf

LEMMA RowStays ==
  ASSUME NEW op \in {"insert", "upsert", "update", "delete"}, NEW wire, NEW caller,
         caller.kind \in DOMAIN Rank, NEW done, NEW set, Fair(done, caller)
  PROVE  Fair(AndRow(users, op, wire, caller, done, set), caller)
<1>1. PICK w : w = OrderOf(op, set)
  OBVIOUS
<1>2. w.op \in {"insert", "upsert", "update", "delete"}
  BY <1>1, OrderKind
<1>3. PICK table : table = done.users
  OBVIOUS
<1>4. PICK answer : answer = WriteWhere(table, w, wire, caller)
  OBVIOUS
<1>5. PICK left : left = Left(table, w, wire, caller)
  OBVIOUS
<1>6. left = answer.users
  BY <1>4, <1>5 DEF Left
<1>7. ASSUME NEW x, Changed(x, table, left) PROVE caller.kind # "public" /\ Mine(x, caller)
  <2>1. Changed(x, table, Left(table, w, wire, caller))
    BY <1>5, <1>7
  <2> QED
    BY <1>2, <2>1, WriteWhereStays
<1>8. ASSUME NEW x, Changed(x, users, left) PROVE caller.kind # "public" /\ Mine(x, caller)
  <2>1. Changed(x, users, table) \/ Changed(x, table, left)
    BY <1>8 DEF Changed
  <2> QED
    BY <1>3, <1>7, <2>1 DEF Fair
<1>9. PICK next : next = AndRow(users, op, wire, caller, done, set)
  OBVIOUS
<1>10. next = IF done.status # 200 THEN done
              ELSE [status |-> answer.status, users |-> IF answer.status = 200 THEN answer.users ELSE users]
  BY <1>1, <1>3, <1>4, <1>9 DEF AndRow
<1>11. CASE done.status # 200
  BY <1>9, <1>10, <1>11
<1>12. CASE done.status = 200
  <2>1. next.status # 200 => next.users = users
    BY <1>10, <1>12
  <2>2. next.users = left \/ next.users = users
    BY <1>6, <1>10, <1>12
  <2>3. ASSUME NEW x, Changed(x, users, next.users) PROVE caller.kind # "public" /\ Mine(x, caller)
    <3>1. next.users # users
      BY <2>3 DEF Changed
    <3> QED
      BY <1>8, <2>2, <2>3, <3>1
  <2> QED
    BY <1>9, <2>1, <2>3 DEF Fair
<1> QED
  BY <1>11, <1>12

LEMMA DiffersIsChanged == \A a, table : Differs(a, table) <=> Changed(a, users, table)
BY DEF Differs, Changed

\* What comes back for a filter that counts is what it says.
LEMMA ItemsAreFilters ==
  ASSUME NEW items \in SUBSET Items, NEW f \in items, WellFormed(f), NEW a, NEW row,
         Matches(a, row, ParseFilters(items))
  PROVE  Meaning(a, row, f)
<1>1. PICK q : q = [column |-> f.column, op |-> f.op, values |-> f.values]
  OBVIOUS
<1>2. q \in ParseFilters(items)
  BY <1>1 DEF ParseFilters
<1>3. /\ f.column \in {"id", "role"} /\ f.op \in {"eq", "ne"}
      /\ \E s : f.values = {Text(s)}
  <2>1. \/ \E b \in Accounts : f = Item("object", "id", "eq", Text(b))
        \/ f \in {Item("object", "role", "eq", Null), Item("object", "", "eq", Text("vip")),
                  Item("object", "role", "ne", Text("vip")), Item("number", "role", "eq", Text("vip"))}
    BY DEF Items
  <2>2. \A shape, column, op, v :
          /\ Item(shape, column, op, v).shape = shape /\ Item(shape, column, op, v).column = column
          /\ Item(shape, column, op, v).op = op /\ Item(shape, column, op, v).values = {v}
    BY DEF Item
  <2>3. f.shape = "object" /\ f.column # "" /\ Null \notin f.values
    BY DEF WellFormed
  <2>4. ASSUME NEW b \in Accounts, f = Item("object", "id", "eq", Text(b))
        PROVE  f.column = "id" /\ f.op = "eq" /\ f.values = {Text(b)}
    BY <2>2, <2>4
  <2>5. f # Item("object", "role", "eq", Null) /\ f # Item("object", "", "eq", Text("vip"))
    <3>1. Item("object", "role", "eq", Null).values = {Null}
      BY DEF Item
    <3>3. Item("object", "", "eq", Text("vip")).column = ""
      BY DEF Item
    <3>2. Null \in {Null}
      OBVIOUS
    <3> QED
      BY <2>3, <3>1, <3>2, <3>3
  <2>6. f # Item("number", "role", "eq", Text("vip"))
    <3>1. Item("number", "role", "eq", Text("vip")).shape = "number"
      BY <2>2
    <3> QED
      BY <2>3, <3>1
  <2>7. f = Item("object", "role", "ne", Text("vip"))
          => f.column = "role" /\ f.op = "ne" /\ f.values = {Text("vip")}
    BY <2>2
  <2> QED
    BY <2>1, <2>4, <2>5, <2>6, <2>7
<1>4. PICK s : f.values = {Text(s)}
  BY <1>3
<1>5. PlainFilter(q)
  BY <1>1, <1>3, <1>4 DEF PlainFilter
<1>6. OnWireOfWrite(q) = q
  <2>1. AliasOut(q.column) = q.column
    BY <1>1, <1>3 DEF AliasOut, Aliases
  <2>2. {HubValue(v) : v \in q.values} = q.values
    BY <1>1, <1>4, HubValues
  <2> QED
    BY <1>1, <2>1, <2>2 DEF OnWireOfWrite
<1>7. Meaning(a, row, q)
  BY <1>2, <1>5, <1>6, FilterMeans
<1> QED
  BY <1>1, <1>7 DEF Meaning

LEMMA OneRowStays ==
  ASSUME NEW op \in {"update", "delete"}, NEW items \in SUBSET Items, NEW r,
         NEW caller, caller.kind \in DOMAIN Rank,
         NEW a, Differs(a, WriteRoute(users, op, <<r>>, items, caller).users)
  PROVE  /\ Mine(a, caller) /\ \A f \in items : WellFormed(f) => Meaning(a, users[a], f)
         /\ {i \in items : WellFormed(i)} # {} \/ caller.kind = "user"
<1>1. PICK wire : wire = ParseFilters(items)
  OBVIOUS
<1>2. PICK w : w = OrderOf(op, r)
  OBVIOUS
<1>3. w.op \in {"update", "delete"}
  BY <1>2, OrderKind
<1>4. PICK answer : answer = WriteWhere(users, w, wire, caller)
  OBVIOUS
<1>5. WriteRoute(users, op, <<r>>, items, caller) =
        [status |-> answer.status, users |-> IF answer.status = 200 THEN answer.users ELSE users]
  BY <1>1, <1>2, <1>4, OneRow DEF First, AndRow, Unwritten
<1>6. Changed(a, users, IF answer.status = 200 THEN answer.users ELSE users)
  BY <1>5, DiffersIsChanged
<1>7. Changed(a, users, Left(users, w, wire, caller))
  BY <1>4, <1>6 DEF Changed, Left
<1>8. /\ Mine(a, caller) /\ Matches(a, users[a], wire)
      /\ wire # {} \/ caller.kind = "user"
  BY <1>3, <1>7, WriteWhereStays
<1>9. wire # {} => {i \in items : WellFormed(i)} # {}
  BY <1>1 DEF ParseFilters
<1> QED
  BY <1>1, <1>8, <1>9, ItemsAreFilters

LEMMA TwoRowsStay ==
  ASSUME NEW r, NEW s, "id" \in DOMAIN r, "id" \in DOMAIN s, NEW caller, caller.kind \in DOMAIN Rank,
         NEW answer, answer = WriteRoute(users, "upsert", <<r, s>>, {}, caller)
  PROVE  /\ \A x : Differs(x, answer.users) => Mine(x, caller) /\ caller.kind # "public"
         /\ answer.status # 200 => answer.users = users
         /\ answer.status = 200 => (caller.kind = "user" \/ {r["id"], s["id"]} \subseteq DOMAIN answer.users)
<1>1. PICK wire : wire = ParseFilters({})
  OBVIOUS
<1>2. PICK first : first = AndRow(users, "upsert", wire, caller, Unwritten, r)
  OBVIOUS
<1>3. answer = AndRow(users, "upsert", wire, caller, first, s)
  BY <1>1, <1>2, TwoRows DEF First, Second
<1>4. Fair(first, caller)
  BY <1>2, NothingYet, RowStays
<1>5. Fair(answer, caller)
  BY <1>3, <1>4, RowStays
<1>6. ASSUME NEW done, done.status = 200, NEW row, "id" \in DOMAIN row,
             NEW next, next = AndRow(users, "upsert", wire, caller, done, row), next.status = 200
      PROVE  /\ DOMAIN done.users \subseteq DOMAIN next.users
             /\ caller.kind # "user" => row["id"] \in DOMAIN next.users
  <2>1. PICK w : w = OrderOf("upsert", row)
    OBVIOUS
  <2>2. w.op = "upsert" /\ w.id = row["id"]
    BY <1>6, <2>1, OrderKind
  <2>3. PICK table : table = done.users
    OBVIOUS
  <2>4. PICK left : left = WriteWhere(table, w, wire, caller)
    OBVIOUS
  <2>5. next = [status |-> left.status, users |-> IF left.status = 200 THEN left.users ELSE users]
    BY <1>6, <2>1, <2>3, <2>4 DEF AndRow
  <2>6. left.status = 200 /\ next.users = left.users
    BY <1>6, <2>5
  <2>7. Accepts(table, w, wire, caller) /\ Left(table, w, wire, caller) = left.users
    BY <2>4, <2>6 DEF Left, Accepts
  <2>8. /\ DOMAIN table \subseteq DOMAIN Left(table, w, wire, caller)
        /\ caller.kind # "user" => w.id \in DOMAIN Left(table, w, wire, caller)
    BY <2>2, <2>7, UpsertLands
  <2> QED
    BY <2>2, <2>3, <2>6, <2>7, <2>8
<1>7. ASSUME answer.status = 200, caller.kind # "user"
      PROVE  {r["id"], s["id"]} \subseteq DOMAIN answer.users
  <2>1. first.status = 200
    BY <1>3, <1>7 DEF AndRow
  <2>2. Unwritten.status = 200
    BY DEF Unwritten
  <2>3. r["id"] \in DOMAIN first.users
    BY <1>2, <1>6, <1>7, <2>1, <2>2
  <2>4. DOMAIN first.users \subseteq DOMAIN answer.users /\ s["id"] \in DOMAIN answer.users
    BY <1>3, <1>6, <1>7, <2>1
  <2> QED
    BY <2>3, <2>4
<1> QED
  BY <1>5, <1>7, DiffersIsChanged DEF Fair

LEMMA PlainOrders ==
  ASSUME NEW w \in Orders
  PROVE  w.op \in {"insert", "upsert", "update", "delete"} /\ \A q \in w.where : PlainFilter(q)
<1>1. CASE w \in [op : {"insert", "upsert"}, id : Accounts, where : {{}}, set : {[role |-> "vip"]}]
  BY <1>1
<1>2. CASE w \in [op : {"update", "delete"}, id : {NoAccount},
                  where : {{}} \cup {{q} : q \in {p \in Questions : p.column # "vip_expiry"}},
                  set : {[role |-> "vip"], [device_id |-> ""]}]
  <2>1. ASSUME NEW q \in Questions, q.column # "vip_expiry" PROVE PlainFilter(q)
    <3>1. \A column, op, values : /\ Question(column, op, values).column = column
                                  /\ Question(column, op, values).op = op
                                  /\ Question(column, op, values).values = values
                                  /\ DOMAIN Question(column, op, values) = {"column", "op", "values"}
      BY DEF Question
    <3>2. CASE \E a \in Accounts : q = Question("id", "eq", {Text(a)})
      <4>1. PICK a \in Accounts : q = Question("id", "eq", {Text(a)})
        BY <3>2
      <4>2. q.column = "id" /\ q.op = "eq" /\ q.values = {Text(a)} /\ DOMAIN q = {"column", "op", "values"}
        BY <3>1, <4>1
      <4> QED
        BY <4>2 DEF PlainFilter
    <3>3. CASE \E S \in SUBSET Accounts : q = Question("id", "in", {Text(a) : a \in S})
      <4>1. PICK S \in SUBSET Accounts : q = Question("id", "in", {Text(a) : a \in S})
        BY <3>3
      <4>2. PICK texts : texts = {Text(a) : a \in S}
        OBVIOUS
      <4>3. q.column = "id" /\ q.op = "in" /\ q.values = texts /\ DOMAIN q = {"column", "op", "values"}
        BY <3>1, <4>1, <4>2
      <4>4. \A v \in texts : \E s : v = Text(s)
        BY <4>2
      <4> QED
        BY <4>3, <4>4 DEF PlainFilter
    <3>4. CASE \E op \in {"eq", "ne"} : q = Question("role", op, {Text("vip")})
      <4>1. PICK op \in {"eq", "ne"} : q = Question("role", op, {Text("vip")})
        BY <3>4
      <4>2. q.column = "role" /\ q.op = op /\ q.values = {Text("vip")} /\ DOMAIN q = {"column", "op", "values"}
        BY <3>1, <4>1
      <4> QED
        BY <4>2 DEF PlainFilter
    <3>5. CASE \E b \in BOOLEAN : q = Question("is_banned", "eq", {Truth(b)})
      <4>1. PICK b \in BOOLEAN : q = Question("is_banned", "eq", {Truth(b)})
        BY <3>5
      <4>2. PICK v : v = Truth(b)
        OBVIOUS
      <4>3. v \in {Truth(TRUE), Truth(FALSE)}
        BY <4>2
      <4>4. q.column = "is_banned" /\ q.op = "eq" /\ q.values = {v} /\ DOMAIN q = {"column", "op", "values"}
        BY <3>1, <4>1, <4>2
      <4> QED
        BY <4>3, <4>4 DEF PlainFilter
    <3>6. /\ q \notin {Question("vip_expiry", "gte", {Iso(t)}) : t \in 0..Bound.time + 1}
          /\ q \notin {Question("vip_expiry", "lte", {Iso(t)}) : t \in 0..Bound.time + 1}
      <4>1. ASSUME NEW op, NEW t, q = Question("vip_expiry", op, {Iso(t)}) PROVE FALSE
        BY <2>1, <3>1, <4>1
      <4> QED
        BY <4>1
    <3>7. \/ q \in {Question("id", "eq", {Text(a)}) : a \in Accounts}
          \/ q \in {Question("id", "in", {Text(a) : a \in S}) : S \in SUBSET Accounts}
          \/ q \in {Question("role", op, {Text("vip")}) : op \in {"eq", "ne"}}
          \/ q \in {Question("is_banned", "eq", {Truth(b)}) : b \in BOOLEAN}
      BY <2>1, <3>6 DEF Questions
    <3>8. q \in {Question("id", "in", {Text(a) : a \in S}) : S \in SUBSET Accounts}
            => \E S \in SUBSET Accounts : q = Question("id", "in", {Text(a) : a \in S})
      OBVIOUS
    <3> QED
      BY <3>2, <3>3, <3>4, <3>5, <3>7, <3>8
  <2>2. w.op \in {"update", "delete"} /\ (w.where = {} \/ \E q \in Questions : q.column # "vip_expiry" /\ w.where = {q})
    BY <1>2
  <2> QED
    BY <2>1, <2>2
<1> QED
  BY <1>1, <1>2 DEF Orders

\* The three kinds of requests together, and the one the app does not send.
LEMMA ScopeHolds == WritesStayInScope
<1>1. ASSUME NEW caller \in Anyone
      PROVE  caller.kind \in DOMAIN Rank
  BY DEF Anyone
<1>2. ASSUME NEW caller \in Anyone, NEW w \in Orders, NEW a \in Accounts,
             Differs(a, Write(users, w, caller).users)
      PROVE  /\ caller.kind # "public" /\ Mine(a, caller)
             /\ w.op \in {"update", "delete"} =>
                  /\ \A q \in w.where : Meaning(a, users[a], q)
                  /\ w.where # {} \/ caller.kind = "user"
  BY <1>1, <1>2, PlainOrders, AWriteStaysInScope
<1>3. ASSUME NEW caller \in Anyone, NEW op \in {"update", "delete"}, NEW items \in SUBSET Items,
             NEW a \in Accounts,
             Differs(a, WriteRoute(users, op, <<[role |-> "vip"]>>, items, caller).users)
      PROVE  /\ Mine(a, caller) /\ \A f \in {i \in items : WellFormed(i)} : Meaning(a, users[a], f)
             /\ {i \in items : WellFormed(i)} # {} \/ caller.kind = "user"
  <2>1. PICK row : row = [role |-> "vip"]
    OBVIOUS
  <2>2. Differs(a, WriteRoute(users, op, <<row>>, items, caller).users)
    BY <1>3, <2>1
  <2>3. /\ Mine(a, caller) /\ \A f \in items : WellFormed(f) => Meaning(a, users[a], f)
        /\ {i \in items : WellFormed(i)} # {} \/ caller.kind = "user"
    BY <1>1, <2>2, OneRowStays
  <2> QED
    BY <2>3
<1>4. ASSUME NEW caller \in Anyone, NEW a \in Accounts, NEW b \in Accounts, NEW set \in Patches,
             NEW answer,
             answer = WriteRoute(users, "upsert", <<[id |-> a, role |-> "vip"], Updated(set, [id |-> b])>>, {}, caller)
      PROVE  /\ \A x \in Accounts : Differs(x, answer.users) => Mine(x, caller) /\ caller.kind # "public"
             /\ answer.status # 200 => answer.users = users
             /\ answer.status = 200 => (caller.kind = "user" \/ {a, b} \subseteq DOMAIN answer.users)
  <2>1. PICK r : r = [id |-> a, role |-> "vip"]
    OBVIOUS
  <2>2. PICK s : s = Updated(set, [id |-> b])
    OBVIOUS
  <2>3. "id" \in DOMAIN r /\ r["id"] = a
    BY <2>1
  <2>4. "id" \in DOMAIN s /\ s["id"] = b
    BY <2>2 DEF Updated
  <2>5. answer = WriteRoute(users, "upsert", <<r, s>>, {}, caller)
    BY <1>4, <2>1, <2>2
  <2> QED
    BY <1>1, <2>3, <2>4, <2>5, TwoRowsStay
<1>5. ASSUME NEW caller \in Anyone, NEW op \in {"update", "delete"}
      PROVE  AppWrites(users, op, [role |-> Text("vip")], {}, caller).users = users
  BY DEF AppWrites
<1> QED
  BY <1>2, <1>3, <1>4, <1>5 DEF WritesStayInScope

\* Whatever is in the table and whoever asks: no write reaches a row its caller does not
\* own, an update or a delete only rows its filters mean and never the whole table, and
\* of the rows of one request all are written or none (db.ts:321-514, index.ts:743-810).
THEOREM WritesReachTheirOwn == AdminSpec => []WritesStayInScope
BY ScopeHolds, PTL

-------------------------------------------------------------------------------
(* Reads: what comes back of a question is what it means *)

LEMMA DecideRead ==
  ASSUME NEW caller, caller.kind \in DOMAIN Rank
  PROVE  Decide("users", "read", caller) =
           IF caller.kind = "public" THEN [allowed |-> FALSE, scoped |-> FALSE]
           ELSE [allowed |-> TRUE, scoped |-> caller.kind = "user"]
<1>1. PICK rule : rule = Rights("users")[1]
  OBVIOUS
<1>2. rule = "owner"
  BY <1>1 DEF Rights
<1>3. Decide("users", "read", caller) =
        CASE rule = "never" -> [allowed |-> FALSE, scoped |-> FALSE]
          [] rule = "owner" -> IF caller.kind = "public" THEN [allowed |-> FALSE, scoped |-> FALSE]
                               ELSE [allowed |-> TRUE, scoped |-> caller.kind = "user"]
          [] OTHER -> IF Rank[caller.kind] >= Rank[rule] THEN [allowed |-> TRUE, scoped |-> FALSE]
                      ELSE [allowed |-> FALSE, scoped |-> FALSE]
  BY <1>1 DEF Decide
<1> QED
  BY <1>2, <1>3

\* A question, in one of the three ways there are.
Named(q) ==
  /\ q.column \in {"id", "role"} /\ q.op \in {"eq", "in", "ne"}
  /\ \A v \in q.values : \E s : v = Text(s)
Flagged(q) == q.column = "is_banned" /\ q.op = "eq" /\ \E b \in BOOLEAN : q.values = {Truth(b)}
Timed(q) == q.column = "vip_expiry" /\ q.op \in {"gte", "lte"} /\ \E t \in Nat : q.values = {Iso(t)}
\* A question has one value, or a list of accounts that names each once.
Single(q) == \E v : q.values = {v}
Listing(q) == q.column = "id" /\ q.op = "in" /\ \E S \in SUBSET Accounts : q.values = {Text(a) : a \in S}
IsQuestion(q) ==
  /\ DOMAIN q = {"column", "op", "values"} /\ q = Question(q.column, q.op, q.values)
  /\ Named(q) \/ Flagged(q) \/ Timed(q)
  /\ (Single(q) /\ q.op # "in") \/ Listing(q)

LEMMA QuestionsAre == \A q \in Questions : IsQuestion(q)
<1>1. \A column, op, values : LET q == Question(column, op, values) IN
        /\ DOMAIN q = {"column", "op", "values"}
        /\ q.column = column /\ q.op = op /\ q.values = values
        /\ q = Question(q.column, q.op, q.values)
  BY DEF Question
<1>2. ASSUME NEW q, NEW v, \E s : v = Text(s), NEW column \in {"id", "role"}, NEW op \in {"eq", "ne"},
             q = Question(column, op, {v})
      PROVE  IsQuestion(q)
  BY <1>1, <1>2 DEF IsQuestion, Named, Single
<1>3. ASSUME NEW q, NEW S \in SUBSET Accounts, q = Question("id", "in", {Text(a) : a \in S})
      PROVE  IsQuestion(q)
  BY <1>1, <1>3 DEF IsQuestion, Named, Listing
<1>4. ASSUME NEW q, NEW b \in BOOLEAN, q = Question("is_banned", "eq", {Truth(b)})
      PROVE  IsQuestion(q)
  BY <1>1, <1>4 DEF IsQuestion, Flagged, Single
<1>5. ASSUME NEW q, NEW t \in Nat, NEW op \in {"gte", "lte"}, q = Question("vip_expiry", op, {Iso(t)})
      PROVE  IsQuestion(q)
  <2>1. /\ DOMAIN q = {"column", "op", "values"}
        /\ q.column = "vip_expiry" /\ q.op = op /\ q.values = {Iso(t)}
        /\ q = Question(q.column, q.op, q.values)
    BY <1>1, <1>5
  <2>2. Timed(q)
    BY <2>1 DEF Timed
  <2>3. Single(q) /\ q.op # "in"
    BY <2>1 DEF Single
  <2> QED
    BY <2>1, <2>2, <2>3 DEF IsQuestion
<1>6. \A t \in 0..Bound.time + 1 : t \in Nat
  BY TimesAssumption
<1> SUFFICES ASSUME NEW q \in Questions PROVE IsQuestion(q)
  OBVIOUS
<1>7. \/ \E a \in Accounts : q = Question("id", "eq", {Text(a)})
      \/ \E S \in SUBSET Accounts : q = Question("id", "in", {Text(a) : a \in S})
      \/ \E op \in {"eq", "ne"} : q = Question("role", op, {Text("vip")})
      \/ \E b \in BOOLEAN : q = Question("is_banned", "eq", {Truth(b)})
      \/ \E t \in 0..Bound.time + 1 : q = Question("vip_expiry", "gte", {Iso(t)})
      \/ \E t \in 0..Bound.time + 1 : q = Question("vip_expiry", "lte", {Iso(t)})
  BY DEF Questions
<1>8. ASSUME NEW a \in Accounts, q = Question("id", "eq", {Text(a)}) PROVE IsQuestion(q)
  BY <1>2, <1>8
<1>9. ASSUME NEW op \in {"eq", "ne"}, q = Question("role", op, {Text("vip")}) PROVE IsQuestion(q)
  BY <1>2, <1>9
<1> QED
  BY <1>3, <1>4, <1>5, <1>6, <1>7, <1>8, <1>9

LEMMA Times ==
  /\ \A n : Iso(n).kind = "iso" /\ Iso(n).n = n
  /\ \A n : HubValue(Num(n)) = Num(n)
  /\ \A n : TimeValue("vip_expiry", Iso(n)) = Num(n) /\ TimeValue("vip_expiry", Num(n)) = Num(n)
  /\ \A column, v : column \notin {"vip_expiry", "created_at"} => TimeValue(column, v) = v
  /\ AliasOut("vip_expiry") = "vip_expiry_ms"
  /\ \A column \in {"id", "role", "is_banned", "vip_expiry_ms", "device_id"} : AliasOut(column) = column
<1>1. \A n : Iso(n).kind = "iso" /\ Iso(n).n = n
  BY DEF Iso, Value
<1>2. AliasOut("vip_expiry") = "vip_expiry_ms"
  BY DEF AliasOut, Aliases
<1>3. \A column : column \notin {"vip_expiry", "created_at"} => AliasOut(column) = column
  BY DEF AliasOut, Aliases
<1>4. \A n : HubValue(Num(n)) = Num(n)
  BY ValuesDiffer DEF HubValue
<1>5. \A n : TimeValue("vip_expiry", Iso(n)) = Num(n) /\ TimeValue("vip_expiry", Num(n)) = Num(n)
  BY <1>1, <1>2, ValuesDiffer DEF TimeValue
<1>6. \A column, v : column \notin {"vip_expiry", "created_at"} => TimeValue(column, v) = v
  BY <1>3 DEF TimeValue
<1> QED
  BY <1>1, <1>2, <1>3, <1>4, <1>5, <1>6

\* A question on the wire.
LEMMA OnWireIs ==
  ASSUME NEW q, DOMAIN q = {"column", "op", "values"}
  PROVE  /\ OnWire(q).column = AliasOut(q.column) /\ OnWire(q).op = q.op
         /\ OnWire(q).values = {HubValue(TimeValue(q.column, v)) : v \in q.values}
         /\ DOMAIN OnWire(q) = {"column", "op", "values"}
BY DEF OnWire

LEMMA WireIs ==
  ASSUME NEW q, IsQuestion(q)
  PROVE  /\ DOMAIN OnWire(q) = {"column", "op", "values"}
         /\ OnWire(q).op = q.op /\ OnWire(q).column \in UserColumns
         /\ Named(q) => OnWire(q).column = q.column /\ OnWire(q).values = q.values
         /\ \A b \in BOOLEAN : Flagged(q) /\ q.values = {Truth(b)} =>
              OnWire(q).column = "is_banned" /\ OnWire(q).values = {Num(Truth(b).n)}
         /\ \A t : Timed(q) /\ q.values = {Iso(t)} =>
              OnWire(q).column = "vip_expiry_ms" /\ OnWire(q).values = {Num(t)}
<1>1. PICK wire : wire = OnWire(q)
  OBVIOUS
<1>2. /\ wire.column = AliasOut(q.column) /\ wire.op = q.op
      /\ wire.values = {HubValue(TimeValue(q.column, v)) : v \in q.values}
      /\ DOMAIN wire = {"column", "op", "values"}
  BY <1>1, OnWireIs DEF IsQuestion
<1>3. ASSUME Named(q) PROVE wire.column = q.column /\ wire.values = q.values
  <2>1. wire.column = q.column
    BY <1>2, <1>3, Times DEF Named
  <2>2. \A v \in q.values : HubValue(TimeValue(q.column, v)) = v
    BY <1>3, Times, HubValues DEF Named
  <2> QED
    BY <1>2, <2>1, <2>2
<1>4. ASSUME NEW b \in BOOLEAN, Flagged(q), q.values = {Truth(b)}
      PROVE  wire.column = "is_banned" /\ wire.values = {Num(Truth(b).n)}
  <2>1. HubValue(TimeValue(q.column, Truth(b))) = Num(Truth(b).n)
    BY <1>4, Times, HubValues DEF Flagged
  <2> QED
    BY <1>2, <1>4, <2>1, Times DEF Flagged
<1>5. ASSUME NEW t, Timed(q), q.values = {Iso(t)}
      PROVE  wire.column = "vip_expiry_ms" /\ wire.values = {Num(t)}
  <2>1. HubValue(TimeValue(q.column, Iso(t))) = Num(t)
    BY <1>5, Times DEF Timed
  <2> QED
    BY <1>2, <1>5, <2>1, Times DEF Timed
<1>6. wire.column \in UserColumns
  <2>1. {"id", "role", "is_banned", "vip_expiry_ms"} \subseteq UserColumns
    BY DEF UserColumns
  <2> QED
    BY <1>3, <1>4, <1>5, <2>1 DEF IsQuestion, Named, Flagged, Timed
<1> QED
  BY <1>1, <1>2, <1>3, <1>4, <1>5, <1>6

LEMMA Comparisons ==
  /\ \A h, s : Holds("eq", Text(h), Text(s)) <=> h = s
  /\ \A h, s : Holds("ne", Text(h), Text(s)) <=> h # s
  /\ \A m, n : m # NoTime => (Holds("eq", Num(m), Num(n)) <=> m = n)
  /\ \A m, n : Holds("gte", Num(m), Num(n)) <=> m # NoTime /\ m >= n
  /\ \A m, n : Holds("lte", Num(m), Num(n)) <=> m # NoTime /\ m <= n
<1>1. \A s : Text(s) # Num(NoTime)
  BY ValuesDiffer
<1>2. \A h, s : Holds("eq", Text(h), Text(s)) <=> h = s
  BY <1>1, ValuesDiffer DEF Holds
<1>3. \A h, s : Holds("ne", Text(h), Text(s)) <=> h # s
  BY <1>1, ValuesDiffer DEF Holds
<1>4. \A m, n : m # NoTime => (Holds("eq", Num(m), Num(n)) <=> m = n)
  BY ValuesDiffer DEF Holds
<1>5. \A m, n : Holds("gte", Num(m), Num(n)) <=> m # NoTime /\ m >= n
  BY ValuesDiffer DEF Holds
<1>6. \A m, n : Holds("lte", Num(m), Num(n)) <=> m # NoTime /\ m <= n
  BY ValuesDiffer DEF Holds
<1> QED
  BY <1>2, <1>3, <1>4, <1>5, <1>6

LEMMA Cells ==
  ASSUME NEW a, NEW row
  PROVE  /\ Cell(a, row, "id") = Text(a) /\ Cell(a, row, "role") = Text(row["role"])
         /\ Cell(a, row, "device_id") = Text(row["device_id"])
         /\ Cell(a, row, "is_banned") = Num(row["is_banned"])
         /\ Cell(a, row, "vip_expiry_ms") = Num(row["vip_expiry_ms"])
BY DEF Cell

\* What matches a question on the wire is what the question means.
LEMMA ReadMeans ==
  ASSUME NEW q, IsQuestion(q), NEW a, NEW row, RowOK(row)
  PROVE  Matches(a, row, {OnWire(q)}) <=> Meaning(a, row, q)
<1>1. PICK wire : wire = OnWire(q)
  OBVIOUS
<1>2. Matches(a, row, {wire}) <=>
        IF q.op = "in" THEN \E v \in wire.values : Holds("eq", Cell(a, row, wire.column), v)
        ELSE \A v \in wire.values : Holds(q.op, Cell(a, row, wire.column), v)
  BY <1>1, WireIs DEF Matches
<1>3. CASE Named(q)
  <2>1. wire.column = q.column /\ wire.values = q.values
    BY <1>1, <1>3, WireIs
  <2>2. ASSUME NEW v \in q.values
        PROVE  /\ Holds("eq", Cell(a, row, q.column), v) <=> Is(a, row, q.column, v)
               /\ Holds("ne", Cell(a, row, q.column), v) <=> ~Is(a, row, q.column, v)
    <3>1. PICK s : v = Text(s)
      BY <1>3 DEF Named
    <3>2. v.s = s
      BY <3>1, ValuesDiffer
    <3>3. CASE q.column = "id"
      BY <3>1, <3>2, <3>3, Cells, Comparisons DEF Is
    <3>4. CASE q.column = "role"
      <4>1. PICK held : held = row["role"]
        OBVIOUS
      <4>2. Cell(a, row, q.column) = Text(held)
        BY <3>4, <4>1, Cells
      <4>3. Is(a, row, q.column, v) <=> held = s
        BY <3>2, <3>4, <4>1 DEF Is
      <4> QED
        BY <3>1, <4>2, <4>3, Comparisons
    <3> QED
      BY <1>3, <3>3, <3>4 DEF Named
  <2>3. CASE q.op = "in"
    <3>1. Matches(a, row, {wire}) <=> \E v \in q.values : Is(a, row, q.column, v)
      BY <1>2, <2>1, <2>2, <2>3
    <3>2. Meaning(a, row, q) <=> \E v \in q.values : Is(a, row, q.column, v)
      BY <2>3 DEF Meaning, Is
    <3> QED
      BY <1>1, <3>1, <3>2
  <2>4. CASE q.op = "eq"
    <3>1. PICK v : q.values = {v}
      BY <2>4 DEF IsQuestion, Single, Listing
    <3>2. Matches(a, row, {wire}) <=> Is(a, row, q.column, v)
      BY <1>2, <2>1, <2>2, <2>4, <3>1
    <3>3. Meaning(a, row, q) <=> \E u \in q.values : Is(a, row, q.column, u)
      BY <2>4 DEF Meaning, Is
    <3> QED
      BY <1>1, <3>1, <3>2, <3>3
  <2>5. CASE q.op = "ne"
    <3>1. Matches(a, row, {wire}) <=> \A v \in q.values : ~Is(a, row, q.column, v)
      BY <1>2, <2>1, <2>2, <2>5
    <3>2. Meaning(a, row, q) <=> \A v \in q.values : ~Is(a, row, q.column, v)
      BY <2>5 DEF Meaning, Is
    <3> QED
      BY <1>1, <3>1, <3>2
  <2> QED
    BY <1>3, <2>3, <2>4, <2>5 DEF Named
<1>4. CASE Flagged(q)
  <2>1. PICK b \in BOOLEAN : q.values = {Truth(b)}
    BY <1>4 DEF Flagged
  <2>2. PICK n : n = Truth(b).n
    OBVIOUS
  <2>3. wire.column = "is_banned" /\ wire.values = {Num(n)} /\ q.op = "eq" /\ q.column = "is_banned"
    BY <1>1, <1>4, <2>1, <2>2, WireIs DEF Flagged
  <2>4. PICK held : held = row["is_banned"]
    OBVIOUS
  <2>5. held # NoTime
    <3>1. held \in {0, 1}
      BY <2>4 DEF RowOK
    <3> QED
      BY <3>1, TimesAssumption
  <2>6. Matches(a, row, {wire}) <=> held = n
    <3>1. Matches(a, row, {wire}) <=> Holds("eq", Num(held), Num(n))
      BY <1>2, <2>3, <2>4, Cells
    <3> QED
      BY <2>5, <3>1, Comparisons
  <2>7. Meaning(a, row, q) <=> held = n
    BY <2>1, <2>2, <2>3, <2>4 DEF Meaning
  <2> QED
    BY <1>1, <2>6, <2>7
<1>5. CASE Timed(q)
  <2>1. PICK t \in Nat : q.values = {Iso(t)}
    BY <1>5 DEF Timed
  <2>2. wire.column = "vip_expiry_ms" /\ wire.values = {Num(t)} /\ q.op \in {"gte", "lte"}
        /\ q.column = "vip_expiry"
    BY <1>1, <1>5, <2>1, WireIs DEF Timed
  <2>3. PICK held : held = row["vip_expiry_ms"]
    OBVIOUS
  <2>4. Matches(a, row, {wire}) <=> Holds(q.op, Num(held), Num(t))
    BY <1>2, <2>2, <2>3, Cells
  <2>5. Iso(t).n = t
    BY Times
  <2>6. CASE q.op = "gte"
    <3>1. Meaning(a, row, q) <=> held # NoTime /\ held >= t
      BY <2>1, <2>3, <2>5, <2>6 DEF Meaning
    <3> QED
      BY <1>1, <2>4, <2>6, <3>1, Comparisons
  <2>7. CASE q.op = "lte"
    <3>1. Meaning(a, row, q) <=> held # NoTime /\ held <= t
      BY <2>1, <2>3, <2>5, <2>7 DEF Meaning
    <3> QED
      BY <1>1, <2>4, <2>7, <3>1, Comparisons
  <2> QED
    BY <2>2, <2>6, <2>7
<1> QED
  BY <1>3, <1>4, <1>5 DEF IsQuestion

\* A list is refused when it is too long, and as many values are compared with as were named.
LEMMA AsManyValues ==
  ASSUME NEW q, IsQuestion(q)
  PROVE  Cardinality(OnWire(q).values) = Cardinality(q.values)
<1>1. CASE Named(q)
  BY <1>1, WireIs
<1>2. CASE ~Named(q)
  <2>1. (\E b \in BOOLEAN : Flagged(q) /\ q.values = {Truth(b)}) \/ (\E t \in Nat : Timed(q) /\ q.values = {Iso(t)})
    BY <1>2 DEF IsQuestion, Flagged, Timed
  <2>2. (\E v : q.values = {v}) /\ (\E v : OnWire(q).values = {v})
    BY <2>1, WireIs
  <2> QED
    BY <2>2, FS_Singleton
<1> QED
  BY <1>1, <1>2

Denied(q, caller) == caller.kind = "public" \/ Cardinality(q.values) > MaxInValues
MeantBy(table, q, caller) == {a \in DOMAIN table : Meaning(a, table[a], q) /\ Mine(a, caller)}

LEMMA SelectMeans ==
  ASSUME NEW table, TableOK(table), NEW q, IsQuestion(q), NEW caller, caller.kind \in DOMAIN Rank
  PROVE  SelectWhere(table, {OnWire(q)}, caller) =
           IF Denied(q, caller) THEN [ok |-> FALSE, ids |-> {}] ELSE [ok |-> TRUE, ids |-> MeantBy(table, q, caller)]
<1>1. PICK wire : wire = OnWire(q)
  OBVIOUS
<1>2. Refused({wire}) <=> Cardinality(q.values) > MaxInValues
  BY <1>1, AsManyValues, WireIs DEF Refused
<1>3. PICK decision : decision = Decide("users", "read", caller)
  OBVIOUS
<1>4. SelectWhere(table, {wire}, caller) =
        IF ~decision.allowed \/ Refused({wire}) THEN [ok |-> FALSE, ids |-> {}]
        ELSE [ok |-> TRUE, ids |-> {a \in DOMAIN table : InScope(a, decision, caller) /\ Matches(a, table[a], {wire})}]
  BY <1>3 DEF SelectWhere
<1>5. decision = IF caller.kind = "public" THEN [allowed |-> FALSE, scoped |-> FALSE]
                 ELSE [allowed |-> TRUE, scoped |-> caller.kind = "user"]
  BY <1>3, DecideRead
<1>6. CASE caller.kind = "public"
  <2>1. ~decision.allowed
    BY <1>5, <1>6
  <2> QED
    BY <1>1, <1>4, <1>6, <2>1 DEF Denied
<1>7. CASE caller.kind # "public"
  <2>1. decision = [allowed |-> TRUE, scoped |-> caller.kind = "user"]
    BY <1>5, <1>7
  <2>2. decision.allowed /\ ((caller.kind = "user") => decision.scoped) /\ (decision.scoped => caller.kind = "user")
    BY <2>1
  <2>3. ASSUME NEW a \in DOMAIN table
        PROVE  InScope(a, decision, caller) /\ Matches(a, table[a], {wire})
               <=> Meaning(a, table[a], q) /\ Mine(a, caller)
    <3>1. Matches(a, table[a], {wire}) <=> Meaning(a, table[a], q)
      BY <1>1, ReadMeans DEF TableOK
    <3>2. InScope(a, decision, caller) <=> Mine(a, caller)
      BY <2>2 DEF InScope, Mine
    <3> QED
      BY <3>1, <3>2
  <2>4. {a \in DOMAIN table : InScope(a, decision, caller) /\ Matches(a, table[a], {wire})} = MeantBy(table, q, caller)
    BY <2>3 DEF MeantBy
  <2> QED
    BY <1>1, <1>2, <1>4, <1>7, <2>2, <2>4 DEF Denied
<1> QED
  BY <1>6, <1>7

(* The chain of calls a page builds, and the query it comes to *)

\* A chain for rows, for how many there are, and for the one row.
Chained(cols, filters, order, limit, tally, single) ==
  [cols |-> cols, filters |-> filters, order |-> order, limit |-> limit, count |-> tally, single |-> single]
Rows(cols, filters, order, limit) == Chained(cols, filters, order, limit, FALSE, FALSE)
HowMany(cols, filters, order, limit) == Chained(cols, filters, order, limit, TRUE, FALSE)
TheOne(cols, filters, order, limit) == Chained(cols, filters, order, limit, FALSE, TRUE)
Down(column) == [column |-> column, desc |-> TRUE]
TimesDown == Down("vip_expiry")
Who == {"id", "vip_expiry"}
Plain(values) == "*" \notin values

\* What one call changes.
WithCols(q, new) == [q EXCEPT !.cols = new]
WithOrder(q, new) == [q EXCEPT !.order = new]
WithLimit(q, new) == [q EXCEPT !.limit = new]
WithCount(q, new) == [q EXCEPT !.count = new]
WithSingle(q, new) == [q EXCEPT !.single = new]
Plus(filters, new) == filters \cup {new}
WithFilter(q, new) == [q EXCEPT !.filters = @ \cup {new}]

LEMMA ChangesTo ==
  ASSUME NEW cols, NEW filters, NEW order, NEW limit, NEW tally, NEW single, NEW new,
         NEW q, q = Chained(cols, filters, order, limit, tally, single)
  PROVE  /\ WithCols(q, new) = Chained(new, filters, order, limit, tally, single)
         /\ WithOrder(q, new) = Chained(cols, filters, new, limit, tally, single)
         /\ WithLimit(q, new) = Chained(cols, filters, order, new, tally, single)
         /\ WithCount(q, new) = Chained(cols, filters, order, limit, new, single)
         /\ WithSingle(q, new) = Chained(cols, filters, order, limit, tally, new)
         /\ WithFilter(q, new) = Chained(cols, Plus(filters, new), order, limit, tally, single)
BY DEF Chained, WithCols, WithOrder, WithLimit, WithCount, WithSingle, WithFilter, Plus

LEMMA ThenSteps ==
  ASSUME NEW cols, NEW filters, NEW order, NEW limit, NEW q, q = Rows(cols, filters, order, limit), NEW c
  PROVE  /\ c.call = "select" /\ Plain(c.values) /\ c.n = 0 => Then(q, c) = Rows(c.values, filters, order, limit)
         /\ c.call = "select" /\ Plain(c.values) /\ c.n = 1 => Then(q, c) = HowMany(c.values, filters, order, limit)
         /\ c.call = "order" /\ c.n = 1 => Then(q, c) = Rows(cols, filters, Down(c.column), limit)
         /\ c.call = "limit" => Then(q, c) = Rows(cols, filters, order, c.n)
         /\ c.call = "maybeSingle" => Then(q, c) = TheOne(cols, filters, order, 1)
         /\ c.call \in {"eq", "ne", "in", "gte", "lte"} =>
              Then(q, c) = Rows(cols, Plus(filters, Question(c.column, c.call, c.values)), order, limit)
<1>1. PICK no : no = FALSE
  OBVIOUS
<1>2. PICK yes : yes = TRUE
  OBVIOUS
<1>3. q = Chained(cols, filters, order, limit, no, no)
  BY <1>1, Zenon DEF Rows
<1>4. ASSUME c.call = "select", Plain(c.values)
      PROVE  Then(q, c) = WithCount(WithCols(q, c.values), q.count \/ c.n = 1)
  <2>1. Then(q, c) = [q EXCEPT !.cols = IF "*" \in c.values THEN All ELSE c.values, !.count = @ \/ c.n = 1]
    BY <1>4, Zenon DEF Then
  <2>2. Then(q, c) = [q EXCEPT !.cols = c.values, !.count = @ \/ c.n = 1]
    BY <1>4, <2>1, Zenon DEF Plain
  <2>3. [q EXCEPT !.cols = c.values, !.count = @ \/ c.n = 1]
          = [[q EXCEPT !.cols = c.values] EXCEPT !.count = q.count \/ c.n = 1]
    OBVIOUS
  <2> QED
    BY <2>2, <2>3, Zenon DEF WithCount, WithCols
<1>5. PICK chosen : chosen = WithCols(q, c.values)
  OBVIOUS
<1>6. chosen = Chained(c.values, filters, order, limit, no, no)
  BY <1>3, <1>5, ChangesTo
<1>7. q.count = no
  BY <1>3 DEF Chained
<1>8. ASSUME c.call = "select", Plain(c.values), c.n = 0
      PROVE  Then(q, c) = Rows(c.values, filters, order, limit)
  <2>4. (c.n = 1) = FALSE
    BY <1>8
  <2>1. (q.count \/ c.n = 1) = no
    BY <1>1, <1>7, <2>4, Zenon
  <2>2. WithCount(chosen, no) = Chained(c.values, filters, order, limit, no, no)
    BY <1>6, ChangesTo
  <2>3. Then(q, c) = WithCount(chosen, no)
    BY <1>4, <1>5, <1>8, <2>1, Zenon
  <2> QED
    BY <1>1, <2>2, <2>3, Zenon DEF Rows
<1>9. ASSUME c.call = "select", Plain(c.values), c.n = 1
      PROVE  Then(q, c) = HowMany(c.values, filters, order, limit)
  <2>1. (q.count \/ c.n = 1) = yes
    BY <1>1, <1>2, <1>7, <1>9
  <2>2. WithCount(chosen, yes) = Chained(c.values, filters, order, limit, yes, no)
    BY <1>6, ChangesTo
  <2>3. Then(q, c) = WithCount(chosen, yes)
    BY <1>4, <1>5, <1>9, <2>1, Zenon
  <2> QED
    BY <1>1, <1>2, <2>2, <2>3, Zenon DEF HowMany
<1>10. ASSUME c.call = "order", c.n = 1 PROVE Then(q, c) = Rows(cols, filters, Down(c.column), limit)
  <2>1. Then(q, c) = [q EXCEPT !.order = [column |-> c.column, desc |-> c.n = 1]]
    BY <1>10 DEF Then
  <2>2. (c.n = 1) = TRUE
    BY <1>10
  <2>3. Then(q, c) = WithOrder(q, Down(c.column))
    BY <2>1, <2>2, Zenon DEF WithOrder, Down
  <2>4. WithOrder(q, Down(c.column)) = Chained(cols, filters, Down(c.column), limit, no, no)
    BY <1>3, ChangesTo
  <2> QED
    BY <1>1, <2>3, <2>4, Zenon DEF Rows
<1>11. ASSUME c.call = "limit" PROVE Then(q, c) = Rows(cols, filters, order, c.n)
  <2>1. Then(q, c) = WithLimit(q, c.n)
    BY <1>11 DEF Then, WithLimit
  <2>2. WithLimit(q, c.n) = Chained(cols, filters, order, c.n, no, no)
    BY <1>3, ChangesTo
  <2> QED
    BY <1>1, <2>1, <2>2, Zenon DEF Rows
<1>12. ASSUME c.call = "maybeSingle" PROVE Then(q, c) = TheOne(cols, filters, order, 1)
  <2>1. Then(q, c) = [q EXCEPT !.single = TRUE, !.limit = 1]
    BY <1>12 DEF Then
  <2>2. [q EXCEPT !.single = TRUE, !.limit = 1] = [[q EXCEPT !.single = TRUE] EXCEPT !.limit = 1]
    OBVIOUS
  <2>3. Then(q, c) = WithLimit(WithSingle(q, yes), 1)
    BY <1>2, <2>1, <2>2, Zenon DEF WithLimit, WithSingle
  <2>4. PICK alone : alone = WithSingle(q, yes)
    OBVIOUS
  <2>5. alone = Chained(cols, filters, order, limit, no, yes)
    BY <1>3, <2>4, ChangesTo
  <2>6. WithLimit(alone, 1) = Chained(cols, filters, order, 1, no, yes)
    BY <2>5, ChangesTo
  <2> QED
    BY <1>1, <1>2, <2>3, <2>4, <2>6, Zenon DEF TheOne
<1>13. ASSUME c.call \in {"eq", "ne", "in", "gte", "lte"}
       PROVE  Then(q, c) = Rows(cols, Plus(filters, Question(c.column, c.call, c.values)), order, limit)
  <2>1. PICK new : new = Question(c.column, c.call, c.values)
    OBVIOUS
  <2>2. Then(q, c) = WithFilter(q, new)
    BY <1>13, <2>1 DEF Then, WithFilter, Question
  <2>3. WithFilter(q, new) = Chained(cols, Plus(filters, new), order, limit, no, no)
    BY <1>3, ChangesTo
  <2> QED
    BY <1>1, <2>1, <2>2, <2>3, Zenon DEF Rows
<1> QED
  BY <1>8, <1>9, <1>10, <1>11, <1>12, <1>13

\* The call of a page, one after another.
LEMMA ThreeCalls ==
  ASSUME NEW a, NEW b, NEW c
  PROVE  Query(<<a, b, c>>) = Then(Then(Then(NewQuery, a), b), c)
<1>1. PICK calls : calls = <<a, b, c>>
  OBVIOUS
<1>2. Len(calls) = 3 /\ calls[1] = a /\ calls[2] = b /\ calls[3] = c
  BY <1>1
<1>3. PICK one : one = Then(NewQuery, a)
  OBVIOUS
<1>4. PICK two : two = Then(one, b)
  OBVIOUS
<1>5. PICK three : three = Then(two, c)
  OBVIOUS
<1>6. PICK after : after = CHOOSE f : f = [n \in 0..Len(calls) |-> IF n = 0 THEN NewQuery ELSE Then(f[n - 1], calls[n])]
  OBVIOUS
<1>7. PICK d : d = [n \in 0..3 |-> IF n = 0 THEN NewQuery ELSE IF n = 1 THEN one ELSE IF n = 2 THEN two ELSE three]
  OBVIOUS
<1>8. d[0] = NewQuery /\ d[1] = one /\ d[2] = two /\ d[3] = three
  BY <1>7
<1>9. 0..3 = {0, 1, 2, 3}
  OBVIOUS
<1>10. ASSUME NEW n \in 0..3 PROVE d[n] = IF n = 0 THEN NewQuery ELSE Then(d[n - 1], calls[n])
  <2>1. CASE n = 0
    BY <1>8, <2>1
  <2>2. CASE n = 1
    BY <1>2, <1>3, <1>8, <2>2, 1 - 1 = 0, 1 # 0
  <2>3. CASE n = 2
    BY <1>2, <1>4, <1>8, <2>3, 2 - 1 = 1, 2 # 0
  <2>4. CASE n = 3
    BY <1>2, <1>5, <1>8, <2>4, 3 - 1 = 2, 3 # 0
  <2> QED
    BY <1>9, <2>1, <2>2, <2>3, <2>4
<1>11. d = [n \in 0..Len(calls) |-> IF n = 0 THEN NewQuery ELSE Then(d[n - 1], calls[n])]
  BY <1>2, <1>7, <1>10
<1>12. after = [n \in 0..Len(calls) |-> IF n = 0 THEN NewQuery ELSE Then(after[n - 1], calls[n])]
  BY <1>6, <1>11
<1>13. after[Len(calls)] = Query(calls)
  BY <1>6 DEF Query
<1>14. \A n \in 0..3 : after[n] = IF n = 0 THEN NewQuery ELSE Then(after[n - 1], calls[n])
  BY <1>2, <1>12
<1>15. after[0] = NewQuery
  BY <1>14
<1>16. after[1] = one
  BY <1>2, <1>3, <1>14, <1>15, 1 - 1 = 0, 1 # 0, 1 \in 0..3
<1>17. after[2] = two
  BY <1>2, <1>4, <1>14, <1>16, 2 - 1 = 1, 2 # 0, 2 \in 0..3
<1>18. after[3] = three
  BY <1>2, <1>5, <1>14, <1>17, 3 - 1 = 2, 3 # 0, 3 \in 0..3
<1> QED
  BY <1>1, <1>2, <1>3, <1>4, <1>5, <1>13, <1>18

LEMMA FourCalls ==
  ASSUME NEW a, NEW b, NEW c, NEW e
  PROVE  Query(<<a, b, c, e>>) = Then(Then(Then(Then(NewQuery, a), b), c), e)
<1>1. PICK calls : calls = <<a, b, c, e>>
  OBVIOUS
<1>2. Len(calls) = 4 /\ calls[1] = a /\ calls[2] = b /\ calls[3] = c /\ calls[4] = e
  BY <1>1
<1>3. PICK one : one = Then(NewQuery, a)
  OBVIOUS
<1>4. PICK two : two = Then(one, b)
  OBVIOUS
<1>5. PICK three : three = Then(two, c)
  OBVIOUS
<1>19. PICK four : four = Then(three, e)
  OBVIOUS
<1>6. PICK after : after = CHOOSE f : f = [n \in 0..Len(calls) |-> IF n = 0 THEN NewQuery ELSE Then(f[n - 1], calls[n])]
  OBVIOUS
<1>7. PICK d : d = [n \in 0..4 |-> IF n = 0 THEN NewQuery ELSE IF n = 1 THEN one ELSE IF n = 2 THEN two
                                  ELSE IF n = 3 THEN three ELSE four]
  OBVIOUS
<1>8. d[0] = NewQuery /\ d[1] = one /\ d[2] = two /\ d[3] = three /\ d[4] = four
  BY <1>7
<1>9. 0..4 = {0, 1, 2, 3, 4}
  OBVIOUS
<1>10. ASSUME NEW n \in 0..4 PROVE d[n] = IF n = 0 THEN NewQuery ELSE Then(d[n - 1], calls[n])
  <2>1. CASE n = 0
    BY <1>8, <2>1
  <2>2. CASE n = 1
    BY <1>2, <1>3, <1>8, <2>2, 1 - 1 = 0, 1 # 0
  <2>3. CASE n = 2
    BY <1>2, <1>4, <1>8, <2>3, 2 - 1 = 1, 2 # 0
  <2>4. CASE n = 3
    BY <1>2, <1>5, <1>8, <2>4, 3 - 1 = 2, 3 # 0
  <2>5. CASE n = 4
    BY <1>2, <1>19, <1>8, <2>5, 4 - 1 = 3, 4 # 0
  <2> QED
    BY <1>9, <2>1, <2>2, <2>3, <2>4, <2>5
<1>11. d = [n \in 0..Len(calls) |-> IF n = 0 THEN NewQuery ELSE Then(d[n - 1], calls[n])]
  BY <1>2, <1>7, <1>10
<1>12. after = [n \in 0..Len(calls) |-> IF n = 0 THEN NewQuery ELSE Then(after[n - 1], calls[n])]
  BY <1>6, <1>11
<1>13. after[Len(calls)] = Query(calls)
  BY <1>6 DEF Query
<1>14. \A n \in 0..4 : after[n] = IF n = 0 THEN NewQuery ELSE Then(after[n - 1], calls[n])
  BY <1>2, <1>12
<1>15. after[0] = NewQuery
  BY <1>14
<1>16. after[1] = one
  BY <1>2, <1>3, <1>14, <1>15, 1 - 1 = 0, 1 # 0, 1 \in 0..4
<1>17. after[2] = two
  BY <1>2, <1>4, <1>14, <1>16, 2 - 1 = 1, 2 # 0, 2 \in 0..4
<1>18. after[3] = three
  BY <1>2, <1>5, <1>14, <1>17, 3 - 1 = 2, 3 # 0, 3 \in 0..4
<1>20. after[4] = four
  BY <1>2, <1>19, <1>14, <1>18, 4 - 1 = 3, 4 # 0, 4 \in 0..4
<1> QED
  BY <1>1, <1>2, <1>3, <1>4, <1>5, <1>19, <1>13, <1>20

LEMMA GluedTwo ==
  ASSUME NEW a, NEW b
  PROVE  <<a>> \o <<b>> = <<a, b>>
<1>1. PICK S : S = {a, b}
  OBVIOUS
<1>2. <<a>> \in Seq(S) /\ <<b>> \in Seq(S)
  BY <1>1
<1>3. PICK s : s = <<a>> \o <<b>>
  OBVIOUS
<1>4. s \in Seq(S) /\ Len(s) = 2 /\ s[1] = a /\ s[2] = b
  BY <1>2, <1>3, ConcatProperties
<1>5. s = <<a, b>>
  BY <1>4
<1> QED
  BY <1>3, <1>5

LEMMA GluedThree ==
  ASSUME NEW a, NEW b, NEW c
  PROVE  <<a, b>> \o <<c>> = <<a, b, c>>
<1>1. PICK S : S = {a, b, c}
  OBVIOUS
<1>2. <<a, b>> \in Seq(S) /\ <<c>> \in Seq(S)
  BY <1>1
<1>3. PICK s : s = <<a, b>> \o <<c>>
  OBVIOUS
<1>4. s \in Seq(S) /\ Len(s) = 3 /\ s[1] = a /\ s[2] = b /\ s[3] = c
  BY <1>2, <1>3, ConcatProperties
<1>5. s = <<a, b, c>>
  BY <1>4
<1> QED
  BY <1>3, <1>5

LEMMA GluedFour ==
  ASSUME NEW a, NEW b, NEW c, NEW e
  PROVE  <<a, b>> \o <<c, e>> = <<a, b, c, e>>
<1>1. PICK S : S = {a, b, c, e}
  OBVIOUS
<1>2. <<a, b>> \in Seq(S) /\ <<c, e>> \in Seq(S)
  BY <1>1
<1>3. PICK s : s = <<a, b>> \o <<c, e>>
  OBVIOUS
<1>4. s \in Seq(S) /\ Len(s) = 4 /\ s[1] = a /\ s[2] = b /\ s[3] = c /\ s[4] = e
  BY <1>2, <1>3, ConcatProperties
<1>5. s = <<a, b, c, e>>
  BY <1>4
<1> QED
  BY <1>3, <1>5

\* The four chains the app builds.
LEMMA ChainsAre ==
  ASSUME NEW q, IsQuestion(q), NEW n
  PROVE  /\ Query(Asks(q, <<Call("select", "", {"id"}, 1)>>)) = HowMany({"id"}, {q}, All, All)
         /\ Query(Asks(q, Newest)) = Rows(Who, {q}, TimesDown, All)
         /\ Query(Asks(q, UpTo(n))) = Rows(Who, {q}, TimesDown, n)
         /\ Query(Asks(q, <<Call("maybeSingle", "", {}, 0)>>)) = TheOne(Who, {q}, All, 1)
<1>1. \A name, column, values, m :
        /\ Call(name, column, values, m).call = name /\ Call(name, column, values, m).column = column
        /\ Call(name, column, values, m).values = values /\ Call(name, column, values, m).n = m
  BY DEF Call
<1>33. PICK none : none = ""
  OBVIOUS
<1>2. PICK what : what = Call("select", none, Who, 0)
  OBVIOUS
<1>3. PICK whom : whom = Call(q.op, q.column, q.values, 0)
  OBVIOUS
<1>4. what.call = "select" /\ what.values = Who /\ what.n = 0
  BY <1>1, <1>2
<1>5. whom.call = q.op /\ whom.column = q.column /\ whom.values = q.values
  BY <1>1, <1>3
<1>6. \A more : Asks(q, more) = <<what, whom>> \o more
  BY <1>2, <1>3, <1>33, Zenon DEF Asks, Who
<1>7. PICK one : one = Then(NewQuery, what)
  OBVIOUS
<1>8. Plain(Who) /\ Plain({"id"})
  BY Zenon DEF Who, Plain
<1>9. NewQuery = Rows(All, {}, All, All)
  BY Zenon DEF NewQuery, Rows, Chained
<1>10. one = Rows(Who, {}, All, All)
  BY <1>4, <1>7, <1>8, <1>9, ThenSteps
<1>11. PICK two : two = Then(one, whom)
  OBVIOUS
<1>12. q.op \in {"eq", "ne", "in", "gte", "lte"} /\ Question(q.column, q.op, q.values) = q
  BY DEF IsQuestion, Named, Flagged, Timed
<1>13. Plus({}, q) = {q}
  BY DEF Plus
<1>14. two = Rows(Who, {q}, All, All)
  <2>1. two = Rows(Who, Plus({}, Question(whom.column, whom.call, whom.values)), All, All)
    <3>1. whom.call \in {"eq", "ne", "in", "gte", "lte"}
      BY <1>5, <1>12
    <3> QED
      BY <1>10, <1>11, <3>1, ThenSteps
  <2> QED
    BY <1>5, <1>12, <1>13, <2>1
<1>15. \A c : Query(<<what, whom>> \o <<c>>) = Then(two, c)
  <2> SUFFICES ASSUME NEW c PROVE Query(<<what, whom>> \o <<c>>) = Then(two, c)
    OBVIOUS
  <2>1. <<what, whom>> \o <<c>> = <<what, whom, c>>
    BY GluedThree
  <2>2. Query(<<what, whom, c>>) = Then(Then(Then(NewQuery, what), whom), c)
    BY ThreeCalls
  <2> QED
    BY <1>7, <1>11, <2>1, <2>2, Zenon
<1>16. \A c, e : Query(<<what, whom>> \o <<c, e>>) = Then(Then(two, c), e)
  <2> SUFFICES ASSUME NEW c, NEW e PROVE Query(<<what, whom>> \o <<c, e>>) = Then(Then(two, c), e)
    OBVIOUS
  <2>1. <<what, whom>> \o <<c, e>> = <<what, whom, c, e>>
    BY GluedFour
  <2>2. Query(<<what, whom, c, e>>) = Then(Then(Then(Then(NewQuery, what), whom), c), e)
    BY FourCalls
  <2> QED
    BY <1>7, <1>11, <2>1, <2>2, Zenon
<1>17. PICK heads : heads = Call("select", none, {"id"}, 1)
  OBVIOUS
<1>18. PICK down : down = Call("order", "vip_expiry", {}, 1)
  OBVIOUS
<1>19. PICK most : most = Call("limit", none, {}, n)
  OBVIOUS
<1>20. PICK alone : alone = Call("maybeSingle", none, {}, 0)
  OBVIOUS
<1>21. heads.call = "select" /\ heads.values = {"id"} /\ heads.n = 1
  BY <1>1, <1>17
<1>22. down.call = "order" /\ down.column = "vip_expiry" /\ down.n = 1
  BY <1>1, <1>18
<1>23. most.call = "limit" /\ most.n = n
  BY <1>1, <1>19
<1>24. alone.call = "maybeSingle"
  BY <1>1, <1>20
<1>25. Then(two, heads) = HowMany({"id"}, {q}, All, All)
  BY <1>8, <1>14, <1>21, ThenSteps
<1>26. PICK three : three = Then(two, down)
  OBVIOUS
<1>27. three = Rows(Who, {q}, TimesDown, All)
  <2>1. three = Rows(Who, {q}, Down(down.column), All)
    BY <1>14, <1>22, <1>26, ThenSteps
  <2> QED
    BY <1>22, <2>1, Zenon DEF TimesDown
<1>28. Then(three, most) = Rows(Who, {q}, TimesDown, n)
  <2>1. Then(three, most) = Rows(Who, {q}, TimesDown, most.n)
    BY <1>23, <1>27, ThenSteps
  <2> QED
    BY <1>23, <2>1, Zenon
<1>29. Then(two, alone) = TheOne(Who, {q}, All, 1)
  BY <1>14, <1>24, ThenSteps
<1>30. Newest = <<down>>
  BY <1>18, <1>33, Zenon DEF Newest
<1>31. UpTo(n) = <<down, most>>
  <2>1. UpTo(n) = <<down>> \o <<most>>
    BY <1>19, <1>30, <1>33, Zenon DEF UpTo
  <2>2. <<down>> \o <<most>> = <<down, most>>
    BY GluedTwo
  <2> QED
    BY <2>1, <2>2, Zenon
<1>32. Asks(q, <<heads>>) = <<what, whom>> \o <<heads>> /\ Asks(q, <<alone>>) = <<what, whom>> \o <<alone>>
       /\ Asks(q, Newest) = <<what, whom>> \o <<down>> /\ Asks(q, UpTo(n)) = <<what, whom>> \o <<down, most>>
  BY <1>6, <1>30, <1>31
<1> QED
  BY <1>15, <1>16, <1>17, <1>20, <1>25, <1>26, <1>27, <1>28, <1>29, <1>32, <1>33, Zenon

(* The query sent, as the hub parses it *)

\* A filter of a read as it leaves the app.
Sent(f) == LET wire == OnWire(f) IN IF f.op = "in" THEN [wire EXCEPT !.values = Joined(@)] ELSE wire

\* A list of accounts is a list of words.
LEMMA JoinedIs ==
  ASSUME NEW S \in SUBSET Accounts
  PROVE  Joined({Text(a) : a \in S}) = {Text(a) : a \in S}
<1>1. PICK two : two = "a,b"
  OBVIOUS
<1>2. PICK none : none = ""
  OBVIOUS
<1>3. PICK values : values = {Text(a) : a \in S}
  OBVIOUS
<1>4. \A a \in S : a # two /\ a # none
  <2>1. \A a \in Accounts : a \notin {"", "a,b"}
    BY WireAssumption, Zenon
  <2> QED
    BY <1>1, <1>2, <2>1, Zenon
<1>5. \A v \in values : v # Text(two) /\ v # Text(none)
  BY <1>3, <1>4, ValuesDiffer
<1>6. \A v \in values : Words(v) = {v}
  BY <1>1, <1>5, Zenon DEF Words
<1>7. PICK words : words = UNION {Words(v) : v \in values}
  OBVIOUS
<1>8. words = values
  BY <1>6, <1>7
<1>9. words # {Text(none)}
  BY <1>5, <1>8
<1>10. Joined(values) = IF words = {Text(none)} THEN {} ELSE words
  BY <1>2, <1>7, Zenon DEF Joined
<1> QED
  BY <1>3, <1>8, <1>9, <1>10

LEMMA SentIs ==
  ASSUME NEW q, IsQuestion(q)
  PROVE  Sent(q) = OnWire(q)
<1>1. PICK wire : wire = OnWire(q)
  OBVIOUS
<1>2. CASE q.op = "in"
  <2>1. PICK S \in SUBSET Accounts : q.values = {Text(a) : a \in S}
    BY <1>2 DEF IsQuestion, Single, Listing
  <2>2. Named(q)
    BY <1>2 DEF IsQuestion, Flagged, Timed
  <2>3. Joined(wire.values) = wire.values
    BY <1>1, <2>1, <2>2, JoinedIs, WireIs
  <2>4. PICK column : column = AliasOut(q.column)
    OBVIOUS
  <2>5. PICK values : values = {HubValue(TimeValue(q.column, v)) : v \in q.values}
    OBVIOUS
  <2>6. wire = [q EXCEPT !.column = column, !.values = values]
    BY <1>1, <2>4, <2>5, Zenon DEF OnWire
  <2>7. PICK r : r = [q EXCEPT !.column = column]
    OBVIOUS
  <2>8. wire = [r EXCEPT !.values = values]
    BY <2>6, <2>7
  <2>9. r = Question(column, q.op, q.values)
    BY <2>7 DEF IsQuestion, Question
  <2>10. wire = Question(column, q.op, values)
    BY <2>8, <2>9 DEF Question
  <2>11. [wire EXCEPT !.values = wire.values] = wire
    BY <2>10 DEF Question
  <2>12. Sent(q) = [wire EXCEPT !.values = Joined(wire.values)]
    BY <1>1, <1>2 DEF Sent
  <2> QED
    BY <1>1, <2>3, <2>11, <2>12
<1>3. CASE q.op # "in"
  BY <1>3 DEF Sent
<1> QED
  BY <1>2, <1>3

\* Columns and an order on the wire.
ColsOnWire(cols) == IF cols = All THEN All ELSE {AliasOut(c) : c \in cols}
OrderOnWire(order) == IF order = All THEN All ELSE [order EXCEPT !.column = AliasOut(@)]

\* What the hub reads out of the URL of a chain.
LEMMA Arrives ==
  ASSUME NEW q, IsQuestion(q), NEW chain, chain.filters = {q}, NEW query, query = ParseQuery(UrlOf(chain))
  PROVE  /\ query.cols = ColsOnWire(chain.cols)
         /\ query.where = {OnWire(q)}
         /\ query.order = OrderOnWire(chain.order)
         /\ query.limit = IF chain.limit = All THEN DefaultLimit ELSE chain.limit
         /\ query.count = chain.count
<1>1. PICK cols : cols = ColsOnWire(chain.cols)
  OBVIOUS
<1>2. PICK where : where = {Sent(f) : f \in chain.filters}
  OBVIOUS
<1>3. PICK order : order = OrderOnWire(chain.order)
  OBVIOUS
<1>4. PICK url : url = UrlOf(chain)
  OBVIOUS
<1>5. url = [cols |-> cols, where |-> where, order |-> order, limit |-> chain.limit, count |-> chain.count]
  BY <1>1, <1>2, <1>3, <1>4, Zenon DEF UrlOf, Sent, ColsOnWire, OrderOnWire
<1>6. PICK none : none = ""
  OBVIOUS
<1>7. PICK named : named = {f \in url.where : f.column # none}
  OBVIOUS
<1>8. PICK limit : limit = IF url.limit = All THEN DefaultLimit ELSE url.limit
  OBVIOUS
<1>9. query = [url EXCEPT !.where = named, !.limit = limit]
  BY <1>4, <1>6, <1>7, <1>8, Zenon DEF ParseQuery
<1>10. /\ query.cols = cols /\ query.where = named /\ query.order = order /\ query.limit = limit
       /\ query.count = chain.count
  BY <1>5, <1>9
<1>11. where = {OnWire(q)}
  BY <1>2, SentIs
<1>12. OnWire(q).column # none
  <2>1. \A c \in UserColumns : c # ""
    BY Zenon DEF UserColumns
  <2>2. OnWire(q).column \in UserColumns
    BY WireIs
  <2> QED
    BY <1>6, <2>1, <2>2, Zenon
<1>13. named = {OnWire(q)}
  BY <1>5, <1>7, <1>11, <1>12
<1>14. limit = IF chain.limit = All THEN DefaultLimit ELSE chain.limit
  BY <1>5, <1>8
<1> QED
  BY <1>1, <1>3, <1>10, <1>13, <1>14

\* A chain of rows arrives: its columns, its question, its order, and its limit or DefaultLimit.
RowsArrive(q, limit) ==
  LET query == ParseQuery(UrlOf(Rows(Who, {q}, TimesDown, limit))) IN
  /\ query.cols = {"id", "vip_expiry_ms"} /\ query.where = {OnWire(q)} /\ query.count = FALSE
  /\ query.order = Down("vip_expiry_ms")
  /\ query.limit = IF limit = All THEN DefaultLimit ELSE limit

\* The same of the chains there are.
LEMMA ChainArrives ==
  ASSUME NEW q, IsQuestion(q), NEW limit, limit = All \/ limit \in Nat
  PROVE  /\ LET query == ParseQuery(UrlOf(HowMany({"id"}, {q}, All, All))) IN
              /\ query.cols = {"id"} /\ query.where = {OnWire(q)} /\ query.count = TRUE
         /\ RowsArrive(q, limit)
         /\ LET query == ParseQuery(UrlOf(TheOne(Who, {q}, All, 1))) IN
              /\ query.cols = {"id", "vip_expiry_ms"} /\ query.where = {OnWire(q)} /\ query.count = FALSE
              /\ query.order = All /\ query.limit = 1
<1>1. PICK yes : yes = TRUE
  OBVIOUS
<1>2. PICK no : no = FALSE
  OBVIOUS
<1>3. \A cols, order, some, tally, single :
        LET chain == Chained(cols, {q}, order, some, tally, single) IN
        /\ chain.cols = cols /\ chain.filters = {q} /\ chain.order = order /\ chain.limit = some
        /\ chain.count = tally
  BY DEF Chained
<1>4. {"id"} \in SUBSET (UserColumns \cup DOMAIN Aliases) /\ Who \in SUBSET (UserColumns \cup DOMAIN Aliases)
  <2>1. {"id", "vip_expiry"} \subseteq UserColumns \cup DOMAIN Aliases
    BY Zenon DEF UserColumns, Aliases
  <2> QED
    BY <2>1 DEF Who
<1>5. {"id"} # All /\ Who # All
  BY <1>4, WireAssumption, Zenon
<1>6. TimesDown # All
  <2>1. "vip_expiry" \in UserColumns \cup DOMAIN Aliases
    BY <1>4 DEF Who
  <2> QED
    BY <2>1, WireAssumption, Zenon DEF TimesDown, Down
<1>7. ColsOnWire({"id"}) = {"id"} /\ ColsOnWire(Who) = {"id", "vip_expiry_ms"}
  <2>1. {AliasOut(c) : c \in {"id"}} = {"id"} /\ {AliasOut(c) : c \in Who} = {"id", "vip_expiry_ms"}
    BY Times DEF Who
  <2> QED
    BY <1>5, <2>1, Zenon DEF ColsOnWire
<1>8. OrderOnWire(TimesDown) = Down("vip_expiry_ms")
  <2>1. PICK desc : desc = TRUE
    OBVIOUS
  <2>2. PICK order : order = [column |-> "vip_expiry", desc |-> desc]
    OBVIOUS
  <2>3. [order EXCEPT !.column = "vip_expiry_ms"] = [column |-> "vip_expiry_ms", desc |-> desc]
    BY <2>2
  <2>4. order.column = "vip_expiry"
    BY <2>2
  <2>5. order = TimesDown
    BY <2>1, <2>2, Zenon DEF TimesDown, Down
  <2>6. AliasOut("vip_expiry") = "vip_expiry_ms"
    BY Times
  <2> QED
    BY <1>6, <2>1, <2>3, <2>4, <2>5, <2>6, Zenon DEF OrderOnWire, Down
<1>9. OrderOnWire(All) = All /\ 1 # All
  <2>1. All \notin Int
    BY WireAssumption, Zenon
  <2> QED
    BY <2>1 DEF OrderOnWire
<1>10. PICK heads : heads = Chained({"id"}, {q}, All, All, yes, no)
  OBVIOUS
<1>11. PICK many : many = Chained(Who, {q}, TimesDown, limit, no, no)
  OBVIOUS
<1>12. PICK one : one = Chained(Who, {q}, All, 1, no, yes)
  OBVIOUS
<1>13. heads = HowMany({"id"}, {q}, All, All) /\ many = Rows(Who, {q}, TimesDown, limit)
       /\ one = TheOne(Who, {q}, All, 1)
  BY <1>1, <1>2, <1>10, <1>11, <1>12, Zenon DEF HowMany, Rows, TheOne
<1>14. heads.cols = {"id"} /\ heads.filters = {q} /\ heads.count = yes
  BY <1>10 DEF Chained
<1>15. many.cols = Who /\ many.filters = {q} /\ many.count = no /\ many.order = TimesDown /\ many.limit = limit
  BY <1>11 DEF Chained
<1>16. one.cols = Who /\ one.filters = {q} /\ one.count = no /\ one.order = All /\ one.limit = 1
  BY <1>12 DEF Chained
<1>17. LET query == ParseQuery(UrlOf(heads)) IN
         /\ query.cols = {"id"} /\ query.where = {OnWire(q)} /\ query.count = yes
  BY <1>5, <1>7, <1>14, Arrives
<1>18. LET query == ParseQuery(UrlOf(many)) IN
         /\ query.cols = {"id", "vip_expiry_ms"} /\ query.where = {OnWire(q)} /\ query.count = no
         /\ query.order = Down("vip_expiry_ms")
         /\ query.limit = IF limit = All THEN DefaultLimit ELSE limit
  BY <1>5, <1>6, <1>7, <1>8, <1>15, Arrives
<1>19. LET query == ParseQuery(UrlOf(one)) IN
         /\ query.cols = {"id", "vip_expiry_ms"} /\ query.where = {OnWire(q)} /\ query.count = no
         /\ query.order = All /\ query.limit = 1
  BY <1>5, <1>7, <1>9, <1>16, Arrives
<1> QED
  BY <1>1, <1>2, <1>13, <1>17, <1>18, <1>19, Zenon DEF RowsArrive

(* The rows the hub finds, in the order it is asked for *)

ShownCols == {"id", "vip_expiry_ms"}
\* A row as the app reads it, and where it stands among the others.
Shown(a, row) == [id |-> Text(a), vip_expiry |-> IF row.vip_expiry_ms = NoTime THEN Null ELSE Iso(row.vip_expiry_ms)]
Standing(row) == IF row.vip_expiry_ms = NoTime THEN 0 - 1 ELSE row.vip_expiry_ms

LEMMA KindsDiffer ==
  /\ Null.kind = "null" /\ Null.n = 0
  /\ \A s : Text(s) # Null /\ Text(s) # Num(NoTime)
  /\ \A n : Num(n) # Null /\ Iso(n) # Null
  /\ \A m, n : Iso(m) = Iso(n) <=> m = n
<1>1. PICK none : none = ""
  OBVIOUS
<1>2. \A kind, n, s : Value(kind, n, s).kind = kind /\ Value(kind, n, s).n = n
  BY DEF Value
<1>3. Null = Value("null", 0, none)
  BY <1>1, Zenon DEF Null
<1>4. Null.kind = "null" /\ Null.n = 0
  BY <1>2, <1>3
<1>5. \A s : Text(s) # Null /\ Text(s) # Num(NoTime)
  BY <1>4, ValuesDiffer
<1>6. \A n : Num(n) # Null
  BY <1>4, ValuesDiffer
<1>7. \A n : Iso(n).kind = "iso" /\ Iso(n).n = n
  BY Times
<1>8. \A n : Iso(n) # Null
  BY <1>4, <1>7
<1>9. \A m, n : Iso(m) = Iso(n) <=> m = n
  BY <1>7
<1> QED
  BY <1>4, <1>5, <1>6, <1>8, <1>9

LEMMA RawIs ==
  ASSUME NEW a, NEW row, NEW raw, raw = RawRow(a, row, ShownCols)
  PROVE  /\ DOMAIN raw = ShownCols /\ raw["id"] = Text(a)
         /\ raw["vip_expiry_ms"] = IF row.vip_expiry_ms = NoTime THEN Null ELSE Num(row.vip_expiry_ms)
<1>1. ShownCols \cap Kept = ShownCols
  BY DEF ShownCols, Kept
<1>2. raw = [c \in ShownCols |-> LET cell == Cell(a, row, c) IN IF cell = Num(NoTime) THEN Null ELSE cell]
  BY <1>1 DEF RawRow
<1>3. raw["id"] = Text(a)
  <2>1. raw["id"] = IF Cell(a, row, "id") = Num(NoTime) THEN Null ELSE Cell(a, row, "id")
    BY <1>2 DEF ShownCols
  <2> QED
    BY <2>1, Cells, KindsDiffer
<1>4. raw["vip_expiry_ms"] = IF row.vip_expiry_ms = NoTime THEN Null ELSE Num(row.vip_expiry_ms)
  <2>1. raw["vip_expiry_ms"] = IF Cell(a, row, "vip_expiry_ms") = Num(NoTime) THEN Null
                               ELSE Cell(a, row, "vip_expiry_ms")
    BY <1>2 DEF ShownCols
  <2> QED
    BY <2>1, Cells, ValuesDiffer
<1> QED
  BY <1>2, <1>3, <1>4

LEMMA BackIs ==
  /\ BackOf("id") = "id" /\ BackOf("role") = "role" /\ BackOf("vip_expiry_ms") = "vip_expiry"
<1>1. DOMAIN Aliases = {"vip_expiry", "created_at"} /\ Aliases["vip_expiry"] = "vip_expiry_ms"
      /\ Aliases["created_at"] = "created_ms"
  BY DEF Aliases
<1>2. \A column : (\A k \in DOMAIN Aliases : Aliases[k] # column) => BackOf(column) = column
  BY Zenon DEF BackOf
<1>3. BackOf("id") = "id" /\ BackOf("role") = "role"
  BY <1>1, <1>2
<1>4. BackOf("vip_expiry_ms") = CHOOSE k \in DOMAIN Aliases : Aliases[k] = "vip_expiry_ms"
  BY <1>1, Zenon DEF BackOf
<1>5. PICK k : k = BackOf("vip_expiry_ms")
  OBVIOUS
<1>6. k \in DOMAIN Aliases /\ Aliases[k] = "vip_expiry_ms"
  BY <1>1, <1>4, <1>5
<1>7. k = "vip_expiry"
  BY <1>1, <1>6
<1> QED
  BY <1>3, <1>5, <1>7

LEMMA ComesBackAs ==
  ASSUME NEW a, NEW row
  PROVE  TimesBack(RawRow(a, row, ShownCols)) = Shown(a, row)
<1>1. PICK raw : raw = RawRow(a, row, ShownCols)
  OBVIOUS
<1>2. DOMAIN raw = ShownCols /\ raw["id"] = Text(a)
      /\ raw["vip_expiry_ms"] = IF row.vip_expiry_ms = NoTime THEN Null ELSE Num(row.vip_expiry_ms)
  BY <1>1, RawIs
<1>3. {BackOf(c) : c \in DOMAIN raw} = {"id", "vip_expiry"}
  BY <1>2, BackIs DEF ShownCols
<1>4. PICK back : back = TimesBack(raw)
  OBVIOUS
<1>5. back = [k \in {"id", "vip_expiry"} |->
               LET v == raw[AliasOut(k)]
               IN  IF AliasOut(k) = k THEN v ELSE IF v.kind = "number" THEN Iso(v.n) ELSE Null]
  BY <1>3, <1>4 DEF TimesBack
<1>6. back["id"] = Text(a)
  <2>1. AliasOut("id") = "id"
    BY Times
  <2> QED
    BY <1>2, <1>5, <2>1
<1>7. back["vip_expiry"] = IF row.vip_expiry_ms = NoTime THEN Null ELSE Iso(row.vip_expiry_ms)
  <2>1. AliasOut("vip_expiry") = "vip_expiry_ms"
    BY Times
  <2>2. PICK v : v = raw["vip_expiry_ms"]
    OBVIOUS
  <2>3. back["vip_expiry"] = IF v.kind = "number" THEN Iso(v.n) ELSE Null
    BY <1>5, <2>1, <2>2
  <2> QED
    BY <1>2, <2>2, <2>3, KindsDiffer, ValuesDiffer
<1>8. PICK time : time = IF row.vip_expiry_ms = NoTime THEN Null ELSE Iso(row.vip_expiry_ms)
  OBVIOUS
<1>9. back = [id |-> Text(a), vip_expiry |-> time]
  BY <1>5, <1>6, <1>7, <1>8
<1> QED
  BY <1>1, <1>4, <1>8, <1>9 DEF Shown

\* Who is asked for by the order is who stands higher.
LEMMA SortedIs ==
  ASSUME NEW table, NEW ids, NEW s \in Sorted(table, Down("vip_expiry_ms"), ids)
  PROVE  /\ s \in Injection(1..Cardinality(ids), ids)
         /\ \A i, j \in DOMAIN s : i < j => Standing(table[s[i]]) >= Standing(table[s[j]])
<1>1. PICK order : order = Down("vip_expiry_ms")
  OBVIOUS
<1>2. order.column = "vip_expiry_ms" /\ order.desc
  BY <1>1 DEF Down
<1>3. order # All
  <2>1. "vip_expiry_ms" \in UserColumns \cup DOMAIN Aliases
    BY DEF UserColumns
  <2> QED
    BY <1>1, <2>1, WireAssumption, Zenon DEF Down
<1>4. \A row, a : Above(RawRow(a, row, {"vip_expiry_ms"})["vip_expiry_ms"]) = Standing(row)
  <2> TAKE row, a
  <2>1. {"vip_expiry_ms"} \cap Kept = {"vip_expiry_ms"}
    BY DEF Kept
  <2>2. PICK raw : raw = RawRow(a, row, {"vip_expiry_ms"})
    OBVIOUS
  <2>3. raw = [c \in {"vip_expiry_ms"} |-> LET cell == Cell(a, row, c) IN IF cell = Num(NoTime) THEN Null ELSE cell]
    BY <2>1, <2>2 DEF RawRow
  <2>4. raw["vip_expiry_ms"] = IF Cell(a, row, "vip_expiry_ms") = Num(NoTime) THEN Null
                               ELSE Cell(a, row, "vip_expiry_ms")
    BY <2>3
  <2>5. raw["vip_expiry_ms"] = IF row.vip_expiry_ms = NoTime THEN Null ELSE Num(row.vip_expiry_ms)
    BY <2>4, Cells, ValuesDiffer
  <2>6. Above(Null) = 0 - 1
    BY KindsDiffer DEF Above
  <2>7. \A n : Above(Num(n)) = n
    BY ValuesDiffer DEF Above
  <2> QED
    BY <2>2, <2>5, <2>6, <2>7 DEF Standing
<1>5. PICK key : key = [a \in ids |-> Above(RawRow(a, table[a], {"vip_expiry_ms"})["vip_expiry_ms"])]
  OBVIOUS
<1>6. /\ s \in Unsorted(ids)
      /\ \A i, j \in DOMAIN s : i < j =>
           Above(RawRow(s[i], table[s[i]], {"vip_expiry_ms"})["vip_expiry_ms"])
             >= Above(RawRow(s[j], table[s[j]], {"vip_expiry_ms"})["vip_expiry_ms"])
  BY <1>1, <1>2, <1>3 DEF Sorted
<1> QED
  BY <1>4, <1>6 DEF Unsorted

(* What the hub answers, and what the app makes of it *)

\* What is answered for an order and a limit, and what the app makes of it.
FirstOf(s, limit) == SubSeq(s, 1, IF Len(s) < limit THEN Len(s) ELSE limit)
Answered(table, columns, order, limit, ids) ==
  {[i \in DOMAIN s |-> RawRow(s[i], table[s[i]], columns)] :
     s \in {FirstOf(t, limit) : t \in Sorted(table, order, ids)}}
Back(given) == [i \in DOMAIN given |-> TimesBack(given[i])]

LEMMA RouteAnswers ==
  ASSUME NEW table, TableOK(table), NEW q, IsQuestion(q), NEW caller, caller.kind \in DOMAIN Rank,
         NEW query, query.where = {OnWire(q)}
  PROVE  /\ Denied(q, caller) => ReadRoute(table, query, caller).ok = FALSE
         /\ ~Denied(q, caller) /\ query.cols = {"id"} /\ query.count = TRUE =>
              /\ ReadRoute(table, query, caller).ok = TRUE
              /\ ReadRoute(table, query, caller).count = Cardinality(MeantBy(table, q, caller))
         /\ /\ ~Denied(q, caller) /\ query.cols = ShownCols /\ query.count = FALSE
            /\ query.order \in {All, Down("vip_expiry_ms")}
            => /\ ReadRoute(table, query, caller).ok = TRUE
               /\ ReadRoute(table, query, caller).rows =
                    Answered(table, ShownCols, query.order, LimitFor(query.limit, caller), MeantBy(table, q, caller))
<1>1. PICK found : found = SelectWhere(table, query.where, caller)
  OBVIOUS
<1>2. PICK ids : ids = MeantBy(table, q, caller)
  OBVIOUS
<1>3. found = IF Denied(q, caller) THEN [ok |-> FALSE, ids |-> {}] ELSE [ok |-> TRUE, ids |-> ids]
  BY <1>1, <1>2, SelectMeans
<1>4. PICK answer : answer = ReadRoute(table, query, caller)
  OBVIOUS
<1>5. PICK columns : columns = ColumnsFor(query.cols)
  OBVIOUS
<1>6. PICK limit : limit = LimitFor(query.limit, caller)
  OBVIOUS
<1>7. answer = IF ~found.ok \/ columns = {} THEN [ok |-> FALSE, count |-> 0, rows |-> {}]
               ELSE IF query.count THEN [ok |-> TRUE, count |-> Cardinality(found.ids), rows |-> {}]
               ELSE IF query.order # All /\ query.order.column \notin UserColumns
               THEN [ok |-> FALSE, count |-> 0, rows |-> {}]
               ELSE [ok |-> TRUE, count |-> 0, rows |-> Answered(table, columns, query.order, limit, found.ids)]
  <2>1. ReadRoute(table, query, caller) =
          LET f == SelectWhere(table, query.where, caller)
              c == ColumnsFor(query.cols)
              no == [ok |-> FALSE, count |-> 0, rows |-> {}]
          IN  IF ~f.ok \/ c = {} THEN no
              ELSE IF query.count THEN [ok |-> TRUE, count |-> Cardinality(f.ids), rows |-> {}]
              ELSE IF query.order # All /\ query.order.column \notin UserColumns THEN no
              ELSE [ok |-> TRUE, count |-> 0,
                    rows |-> Answered(table, c, query.order, LimitFor(query.limit, caller), f.ids)]
    BY Zenon DEF ReadRoute, Answered, FirstOf
  <2> QED
    BY <1>1, <1>4, <1>5, <1>6, <2>1, Zenon
<1>8. ASSUME Denied(q, caller) PROVE answer.ok = FALSE
  <2>1. ~found.ok
    BY <1>3, <1>8
  <2>2. answer = [ok |-> FALSE, count |-> 0, rows |-> {}]
    BY <1>7, <2>1, Zenon
  <2> QED
    BY <2>2
<1>9. {"id"} \subseteq UserColumns /\ ShownCols \subseteq UserColumns
  BY DEF UserColumns, ShownCols
<1>10. {"id"} # All /\ ShownCols # All
  <2>1. {"id"} \in SUBSET (UserColumns \cup DOMAIN Aliases) /\ ShownCols \in SUBSET (UserColumns \cup DOMAIN Aliases)
    BY <1>9
  <2> QED
    BY <2>1, WireAssumption, Zenon
<1>11. ASSUME ~Denied(q, caller), query.cols = {"id"}, query.count = TRUE
       PROVE  answer.ok = TRUE /\ answer.count = Cardinality(ids)
  <2>1. found.ok /\ found.ids = ids
    BY <1>3, <1>11
  <2>2. columns # {}
    BY <1>5, <1>9, <1>10, <1>11 DEF ColumnsFor
  <2>3. answer = [ok |-> TRUE, count |-> Cardinality(found.ids), rows |-> {}]
    BY <1>7, <1>11, <2>1, <2>2, Zenon
  <2> QED
    BY <2>1, <2>3
<1>12. ASSUME ~Denied(q, caller), query.cols = ShownCols, query.count = FALSE,
              query.order \in {All, Down("vip_expiry_ms")}
       PROVE  /\ answer.ok = TRUE
              /\ answer.rows = Answered(table, ShownCols, query.order, limit, ids)
  <2>1. found.ok /\ found.ids = ids
    BY <1>3, <1>12
  <2>2. columns = ShownCols /\ columns # {}
    BY <1>5, <1>9, <1>10, <1>12 DEF ColumnsFor, ShownCols
  <2>3. ~(query.order # All /\ query.order.column \notin UserColumns)
    <3>1. Down("vip_expiry_ms").column = "vip_expiry_ms"
      BY DEF Down
    <3>2. "vip_expiry_ms" \in UserColumns
      BY DEF UserColumns
    <3> QED
      BY <1>12, <3>1, <3>2
  <2>4. PICK given : given = Answered(table, ShownCols, query.order, limit, ids)
    OBVIOUS
  <2>5. answer = [ok |-> TRUE, count |-> 0, rows |-> given]
    BY <1>7, <1>12, <2>1, <2>2, <2>3, <2>4, Zenon
  <2> QED
    BY <2>4, <2>5
<1> QED
  BY <1>2, <1>4, <1>6, <1>8, <1>11, <1>12

\* What the app gets of a chain: an error, a count, rows, or the first of them.
Failure == [error |-> TRUE, count |-> 0, data |-> Null]
Counted(n) == [error |-> FALSE, count |-> n, data |-> <<>>]
CountOf(n) == {Counted(n)}
Many(given) == [error |-> FALSE, count |-> 0, data |-> Back(given)]
ManyOf(answers) == {Many(given) : given \in answers}
One(given) == [error |-> FALSE, count |-> 0, data |-> IF given = <<>> THEN Null ELSE Back(given)[1]]
OneOf(answers) == {One(given) : given \in answers}
LEMMA AppGets ==
  ASSUME NEW table, NEW calls, NEW caller, NEW chain, chain = Query(calls),
         NEW answer, answer = ReadRoute(table, ParseQuery(UrlOf(chain)), caller)
  PROVE  /\ answer.ok = FALSE => AppAnswers(table, calls, caller) = {Failure}
         /\ answer.ok = TRUE /\ chain.count = TRUE => AppAnswers(table, calls, caller) = CountOf(answer.count)
         /\ answer.ok = TRUE /\ chain.count = FALSE /\ chain.single = FALSE =>
              AppAnswers(table, calls, caller) = ManyOf(answer.rows)
         /\ answer.ok = TRUE /\ chain.count = FALSE /\ chain.single = TRUE =>
              AppAnswers(table, calls, caller) = OneOf(answer.rows)
<1>1. AppAnswers(table, calls, caller) =
        IF ~answer.ok THEN {[error |-> TRUE, count |-> 0, data |-> Null]}
        ELSE IF chain.count THEN {[error |-> FALSE, count |-> answer.count, data |-> <<>>]}
        ELSE {[error |-> FALSE, count |-> 0,
               data |-> IF ~chain.single THEN Back(given) ELSE IF given = <<>> THEN Null ELSE Back(given)[1]] :
                given \in answer.rows}
  BY Zenon DEF AppAnswers, Back
<1> QED
  BY <1>1, Zenon DEF Failure, Counted, CountOf, Many, ManyOf, One, OneOf

(* The newest come first *)

LEMMA RowsDiffer ==
  /\ \A a : Row(a) = Shown(a, users[a])
  /\ \A a, b : Row(a) = Row(b) => a = b
<1>1. \A a : Row(a) = Shown(a, users[a])
  BY DEF Row, Shown
<1>2. \A a, row : Shown(a, row).id = Text(a)
  BY DEF Shown
<1>3. \A a, b : Text(a) = Text(b) => a = b
  BY ValuesDiffer
<1> QED
  BY <1>1, <1>2, <1>3

LEMMA EarlierIs ==
  ASSUME NEW a, NEW b, RowOK(users[a]), RowOK(users[b]), Standing(users[a]) <= Standing(users[b])
  PROVE  Earlier(Row(a), Row(b))
<1>1. PICK m : m = users[a].vip_expiry_ms
  OBVIOUS
<1>2. PICK n : n = users[b].vip_expiry_ms
  OBVIOUS
<1>3. m \in Nat /\ n \in Nat
  BY <1>1, <1>2 DEF RowOK
<1>4. Row(a).vip_expiry = IF m = NoTime THEN Null ELSE Iso(m)
  BY <1>1 DEF Row
<1>5. Row(b).vip_expiry = IF n = NoTime THEN Null ELSE Iso(n)
  BY <1>2 DEF Row
<1>6. m # NoTime => n # NoTime /\ m <= n
  <2>1. m # NoTime => Standing(users[a]) = m
    BY <1>1 DEF Standing
  <2>2. Standing(users[b]) = IF n = NoTime THEN 0 - 1 ELSE n
    BY <1>2 DEF Standing
  <2> QED
    BY <1>3, <2>1, <2>2
<1>7. Iso(m).n = m /\ Iso(n).n = n
  BY Times
<1> QED
  BY <1>4, <1>5, <1>6, <1>7, KindsDiffer DEF Earlier

LEMMA FirstIs ==
  ASSUME NEW ids, IsFiniteSet(ids), NEW t \in Injection(1..Cardinality(ids), ids), NEW limit \in Nat
  PROVE  LET m == IF limit < Cardinality(ids) THEN limit ELSE Cardinality(ids) IN
         /\ Cardinality(ids) \in Nat /\ m \in Nat /\ DOMAIN t = 1..Cardinality(ids)
         /\ DOMAIN FirstOf(t, limit) = 1..m
         /\ \A i \in 1..m : FirstOf(t, limit)[i] = t[i] /\ t[i] \in ids
         /\ \A i, j \in 1..Cardinality(ids) : t[i] = t[j] => i = j
         /\ \A a \in ids : \E i \in 1..Cardinality(ids) : t[i] = a
<1>1. PICK N : N = Cardinality(ids)
  OBVIOUS
<1>2. N \in Nat
  BY <1>1, FS_CardinalityType
<1>3. PICK m : m = IF limit < N THEN limit ELSE N
  OBVIOUS
<1>4. m \in Nat /\ m <= N
  BY <1>2, <1>3
<1>5. t \in [1..N -> ids] /\ \A i, j \in 1..N : t[i] = t[j] => i = j
  BY <1>1 DEF Injection, IsInjective
<1>6. t \in Seq(ids) /\ Len(t) = N
  BY <1>2, <1>5
<1>7. \A a \in ids : \E i \in 1..N : t[i] = a
  <2>1. IsFiniteSet(1..N) /\ Cardinality(1..N) = N
    BY <1>2, FS_Interval
  <2>2. t \in Surjection(1..N, ids)
    BY <1>1, <2>1, FS_Injection
  <2> QED
    BY <2>2 DEF Surjection
<1>8. FirstOf(t, limit) = SubSeq(t, 1, m)
  <2>1. (IF Len(t) < limit THEN Len(t) ELSE limit) = m
    BY <1>2, <1>3, <1>6
  <2> QED
    BY <2>1, Zenon DEF FirstOf
<1>9. \A i \in 1..m : t[i] \in ids
  BY <1>2, <1>4, <1>5
<1>10. PICK s : s = SubSeq(t, 1, m)
  OBVIOUS
<1>11. s \in Seq(ids) /\ Len(s) = m /\ \A i \in 1..m : s[i] = t[i]
  BY <1>4, <1>9, <1>10, SubSeqProperties
<1>12. DOMAIN s = 1..m
  BY <1>11, LenProperties
<1> QED
  BY <1>1, <1>2, <1>3, <1>4, <1>5, <1>7, <1>8, <1>9, <1>10, <1>11, <1>12

\* The rows answered in the order of their times are the newest, as the app reads them.
LEMMA NewestCome ==
  ASSUME TableOK(users), NEW ids \in SUBSET DOMAIN users, NEW limit \in Nat,
         NEW given \in Answered(users, ShownCols, Down("vip_expiry_ms"), limit, ids)
  PROVE  TheNewest(Back(given), ids, limit)
<1>1. IsFiniteSet(ids)
  BY FS_Subset DEF TableOK
<1>2. PICK t \in Sorted(users, Down("vip_expiry_ms"), ids) :
        given = [i \in DOMAIN FirstOf(t, limit) |->
                 RawRow(FirstOf(t, limit)[i], users[FirstOf(t, limit)[i]], ShownCols)]
  BY DEF Answered
<1>3. /\ t \in Injection(1..Cardinality(ids), ids)
      /\ \A i, j \in DOMAIN t : i < j => Standing(users[t[i]]) >= Standing(users[t[j]])
  BY SortedIs
<1>4. PICK N : N = Cardinality(ids)
  OBVIOUS
<1>5. PICK m : m = IF limit < N THEN limit ELSE N
  OBVIOUS
<1>6. PICK s : s = FirstOf(t, limit)
  OBVIOUS
<1>7. /\ N \in Nat /\ m \in Nat /\ DOMAIN t = 1..N /\ DOMAIN s = 1..m
      /\ \A i \in 1..m : s[i] = t[i] /\ t[i] \in ids
      /\ \A i, j \in 1..N : t[i] = t[j] => i = j
      /\ \A a \in ids : \E i \in 1..N : t[i] = a
  BY <1>1, <1>3, <1>4, <1>5, <1>6, FirstIs
<1>8. m <= N
  BY <1>5, <1>7
<1>9. PICK data : data = Back(given)
  OBVIOUS
<1>10. DOMAIN data = 1..m /\ \A i \in 1..m : data[i] = Row(t[i])
  <2>1. DOMAIN given = 1..m
    BY <1>2, <1>6, <1>7
  <2>2. data = [i \in 1..m |-> TimesBack(given[i])]
    BY <1>9, <2>1 DEF Back
  <2>3. ASSUME NEW i \in 1..m PROVE TimesBack(given[i]) = Row(t[i])
    <3>1. given[i] = RawRow(t[i], users[t[i]], ShownCols)
      BY <1>2, <1>6, <1>7, <2>1
    <3>2. TimesBack(given[i]) = Shown(t[i], users[t[i]])
      BY <3>1, ComesBackAs
    <3> QED
      BY <3>2, RowsDiffer
  <2> QED
    BY <2>2, <2>3
<1>11. data = [i \in 1..m |-> data[i]]
  BY <1>9, <1>10 DEF Back
<1>12. PICK shown : shown = {data[i] : i \in DOMAIN data}
  OBVIOUS
<1>13. shown \subseteq {Row(a) : a \in ids}
  BY <1>7, <1>10, <1>12
<1>14. Cardinality(shown) = m
  <2>1. IsFiniteSet(1..m) /\ Cardinality(1..m) = m
    BY <1>7, FS_Interval
  <2>2. data \in [1..m -> shown] /\ \A x \in shown : \E i \in 1..m : data[i] = x
    BY <1>10, <1>11, <1>12
  <2>3. \A i, j \in 1..m : data[i] = data[j] => i = j
    <3>1. \A i \in 1..m : i \in 1..N
      BY <1>7, <1>8
    <3> QED
      BY <1>7, <1>10, <3>1, RowsDiffer
  <2>4. data \in Surjection(1..m, shown) /\ data \in Injection(1..m, shown)
    BY <1>10, <2>2, <2>3 DEF Surjection, Injection, IsInjective
  <2>5. Cardinality(shown) = Cardinality(1..m)
    BY <2>1, <2>4, FS_Surjection
  <2> QED
    BY <2>1, <2>5
<1>15. Len(data) = m
  <2>1. data \in Seq(shown)
    <3>1. data \in [1..m -> shown]
      BY <1>10, <1>11, <1>12
    <3> QED
      BY <1>7, <3>1
  <2>2. Len(data) \in Nat /\ DOMAIN data = 1..Len(data)
    BY <2>1, LenProperties
  <2> QED
    BY <1>7, <1>10, <2>2
<1>16. ASSUME NEW i \in 1..N, NEW j \in 1..N, i < j
       PROVE  Earlier(Row(t[j]), Row(t[i]))
  <2>1. RowOK(users[t[i]]) /\ RowOK(users[t[j]])
    <3>1. t[i] \in ids /\ t[j] \in ids
      BY <1>3, <1>4 DEF Injection
    <3> QED
      BY <3>1 DEF TableOK
  <2>2. Standing(users[t[i]]) >= Standing(users[t[j]])
    BY <1>3, <1>7, <1>16
  <2>3. Standing(users[t[i]]) \in Int /\ Standing(users[t[j]]) \in Int
    BY <2>1 DEF RowOK, Standing
  <2>4. Standing(users[t[j]]) <= Standing(users[t[i]])
    BY <2>2, <2>3
  <2> QED
    BY <2>1, <2>4, EarlierIs
<1>17. \A i, j \in DOMAIN data : i < j => Earlier(data[j], data[i])
  <2>1. \A i \in 1..m : i \in 1..N
    BY <1>7, <1>8
  <2> QED
    BY <1>10, <1>16, <2>1
<1>18. ASSUME NEW a \in ids PROVE Row(a) \in shown \/ \A r \in shown : Earlier(Row(a), r)
  <2>1. PICK j \in 1..N : t[j] = a
    BY <1>7
  <2>2. CASE j <= m
    <3>1. j \in DOMAIN data
      BY <1>7, <1>10, <2>1, <2>2
    <3> QED
      BY <1>10, <1>12, <2>1, <3>1
  <2>3. CASE ~(j <= m)
    <3> SUFFICES ASSUME NEW r \in shown PROVE Earlier(Row(a), r)
      OBVIOUS
    <3>1. PICK i \in 1..m : r = data[i]
      BY <1>10, <1>12
    <3>2. i \in 1..N /\ i < j
      BY <1>7, <1>8, <2>3
    <3> QED
      BY <1>10, <1>16, <2>1, <3>1, <3>2
  <2> QED
    BY <2>2, <2>3
<1>19. TheNewest(data, ids, limit)
  <2>1. m = IF limit < Cardinality(ids) THEN limit ELSE Cardinality(ids)
    BY <1>4, <1>5
  <2> QED
    BY <1>12, <1>13, <1>14, <1>15, <1>17, <1>18, <2>1 DEF TheNewest
<1> QED
  BY <1>9, <1>19

LEMMA LimitIs ==
  ASSUME NEW caller, NEW n \in Nat, n > 0
  PROVE  /\ n <= MaxLimitService /\ (caller.kind = "service") =>
              LimitFor(n, caller) = n
         /\ caller.kind # "service" => LimitFor(n, caller) = IF n < MaxLimit THEN n ELSE MaxLimit
         /\ LimitFor(DefaultLimit, caller) = DefaultLimit
<1>1. /\ DefaultLimit \in Nat \ {0} /\ MaxLimit \in Nat /\ MaxLimitService \in Nat
      /\ DefaultLimit <= MaxLimit /\ MaxLimit <= MaxLimitService
  BY WireAssumption, Zenon
<1>2. PICK cap : cap = IF caller.kind = "service" THEN MaxLimitService ELSE MaxLimit
  OBVIOUS
<1>3. \A m : LimitFor(m, caller) = IF m <= 0 THEN DefaultLimit ELSE IF m < cap THEN m ELSE cap
  BY <1>2 DEF LimitFor
<1>4. cap \in Nat /\ DefaultLimit <= cap
  BY <1>1, <1>2
<1>5. LimitFor(DefaultLimit, caller) = DefaultLimit
  BY <1>1, <1>3, <1>4
<1>6. LimitFor(n, caller) = IF n < cap THEN n ELSE cap
  BY <1>3
<1> QED
  BY <1>1, <1>2, <1>4, <1>5, <1>6

\* An account reads its own row.
LEMMA OwnRow ==
  ASSUME NEW table, TableOK(table), NEW a \in DOMAIN table, a \in Accounts
  PROVE  AppAnswers(table, Asks(Question("id", "eq", {Text(a)}), <<Call("maybeSingle", "", {}, 0)>>),
                    [kind |-> "user", account |-> a])
           = {[error |-> FALSE, count |-> 0, data |-> Shown(a, table[a])]}
<1>1. PICK q : q = Question("id", "eq", {Text(a)})
  OBVIOUS
<1>2. IsQuestion(q)
  <2>1. q \in Questions
    BY <1>1 DEF Questions
  <2> QED
    BY <2>1, QuestionsAre
<1>3. q.column = "id" /\ q.op = "eq" /\ q.values = {Text(a)}
  BY <1>1 DEF Question
<1>4. PICK me : me = [kind |-> "user", account |-> a]
  OBVIOUS
<1>5. me.kind = "user" /\ me.account = a /\ me.kind \in DOMAIN Rank
  BY <1>4 DEF Rank
<1>6. ~Denied(q, me)
  <2>1. Cardinality(q.values) = 1
    BY <1>3, FS_Singleton
  <2>2. MaxInValues \in Nat \ {0}
    BY WireAssumption, Zenon
  <2> QED
    BY <1>5, <2>1, <2>2 DEF Denied
<1>7. MeantBy(table, q, me) = {a}
  <2>1. \A x, row : Meaning(x, row, q) <=> x = a
    <3> TAKE x, row
    <3>1. Meaning(x, row, q) <=> \E v \in q.values : x = v.s
      BY <1>3 DEF Meaning
    <3>2. Text(a).s = a
      BY ValuesDiffer
    <3> QED
      BY <1>3, <3>1, <3>2
  <2>2. \A x : Mine(x, me) <=> x = a
    BY <1>5 DEF Mine
  <2> QED
    BY <2>1, <2>2 DEF MeantBy
<1>8. PICK calls : calls = Asks(q, <<Call("maybeSingle", "", {}, 0)>>)
  OBVIOUS
<1>9. PICK chain : chain = TheOne(Who, {q}, All, 1)
  OBVIOUS
<1>10. Query(calls) = chain
  BY <1>2, <1>8, <1>9, ChainsAre, Zenon
<1>11. chain.count = FALSE /\ chain.single = TRUE
  <2>1. PICK yes : yes = TRUE
    OBVIOUS
  <2>2. PICK no : no = FALSE
    OBVIOUS
  <2>3. chain = Chained(Who, {q}, All, 1, no, yes)
    BY <1>9, <2>1, <2>2, Zenon DEF TheOne
  <2>4. chain.count = no /\ chain.single = yes
    BY <2>3 DEF Chained
  <2> QED
    BY <2>1, <2>2, <2>4, Zenon
<1>12. PICK query : query = ParseQuery(UrlOf(chain))
  OBVIOUS
<1>13. /\ query.cols = ShownCols /\ query.where = {OnWire(q)} /\ query.count = FALSE
       /\ query.order = All /\ query.limit = 1
  <2>1. All = All \/ All \in Nat
    OBVIOUS
  <2> QED
    BY <1>2, <1>9, <1>12, <2>1, ChainArrives, Zenon DEF ShownCols
<1>14. PICK answer : answer = ReadRoute(table, query, me)
  OBVIOUS
<1>26. PICK limit \in Nat : limit = 1
  OBVIOUS
<1>15. LimitFor(query.limit, me) = limit
  <2>1. MaxLimit \in Nat /\ 1 <= MaxLimit
    <3>1. DefaultLimit \in Nat \ {0} /\ MaxLimit \in Nat /\ DefaultLimit <= MaxLimit
      BY WireAssumption, Zenon
    <3> QED
      BY <3>1
  <2>2. limit > 0 /\ me.kind # "service"
    BY <1>5, <1>26
  <2>3. LimitFor(limit, me) = IF limit < MaxLimit THEN limit ELSE MaxLimit
    BY <2>2, LimitIs
  <2>4. LimitFor(limit, me) = limit
    BY <1>26, <2>1, <2>3
  <2> QED
    BY <1>13, <1>26, <2>4
<1>27. PICK alone : alone = {a}
  OBVIOUS
<1>28. IsFiniteSet(alone) /\ Cardinality(alone) = 1
  BY <1>27, FS_Singleton
<1>16. answer.ok = TRUE /\ answer.rows = Answered(table, ShownCols, All, limit, alone)
  <2>1. query.order \in {All, Down("vip_expiry_ms")}
    BY <1>13
  <2>2. /\ answer.ok = TRUE
        /\ answer.rows = Answered(table, ShownCols, query.order, LimitFor(query.limit, me), MeantBy(table, q, me))
    BY <1>2, <1>5, <1>6, <1>13, <1>14, <2>1, RouteAnswers
  <2> QED
    BY <1>7, <1>13, <1>15, <1>27, <2>2
<1>17. \A t \in Sorted(table, All, alone) : t \in Injection(1..Cardinality(alone), alone)
  BY DEF Sorted, Unsorted
<1>18. Sorted(table, All, alone) # {}
  <2>1. PICK t : t = [i \in 1..1 |-> a]
    OBVIOUS
  <2>2. t \in Injection(1..1, alone)
    BY <1>27, <2>1 DEF Injection, IsInjective
  <2> QED
    BY <1>28, <2>2 DEF Sorted, Unsorted
<1>19. ASSUME NEW t \in Sorted(table, All, alone)
       PROVE  DOMAIN FirstOf(t, limit) = 1..1 /\ FirstOf(t, limit)[1] = a
  <2>1. t \in Injection(1..Cardinality(alone), alone)
    BY <1>17
  <2>2. PICK m : m = IF limit < Cardinality(alone) THEN limit ELSE Cardinality(alone)
    OBVIOUS
  <2>3. m = 1
    BY <1>26, <1>28, <2>2
  <2>4. DOMAIN FirstOf(t, limit) = 1..m /\ \A i \in 1..m : FirstOf(t, limit)[i] = t[i] /\ t[i] \in alone
    <3>1. limit \in Nat /\ IsFiniteSet(alone)
      BY <1>26, <1>28
    <3> QED
      BY <2>1, <2>2, <3>1, FirstIs
  <2> QED
    BY <1>27, <2>3, <2>4
<1>20. ASSUME NEW given \in answer.rows PROVE given # <<>> /\ Back(given)[1] = Shown(a, table[a])
  <2>1. given \in Answered(table, ShownCols, All, limit, alone)
    BY <1>16
  <2>2. PICK t \in Sorted(table, All, alone) :
          given = [i \in DOMAIN FirstOf(t, limit) |->
                   RawRow(FirstOf(t, limit)[i], table[FirstOf(t, limit)[i]], ShownCols)]
    BY <2>1 DEF Answered
  <2>3. DOMAIN given = 1..1 /\ given[1] = RawRow(a, table[a], ShownCols)
    BY <1>19, <2>2
  <2>4. Back(given)[1] = TimesBack(given[1])
    BY <2>3 DEF Back
  <2> QED
    BY <2>3, <2>4, ComesBackAs
<1>21. answer.rows # {}
  <2>1. PICK t : t \in Sorted(table, All, alone)
    BY <1>18
  <2>2. [i \in DOMAIN FirstOf(t, limit) |-> RawRow(FirstOf(t, limit)[i], table[FirstOf(t, limit)[i]], ShownCols)]
          \in Answered(table, ShownCols, All, limit, alone)
    BY <2>1 DEF Answered
  <2> QED
    BY <1>16, <2>2
<1>22. AppAnswers(table, calls, me) = OneOf(answer.rows)
  BY <1>10, <1>11, <1>12, <1>14, <1>16, AppGets
<1>23. PICK mine : mine = [error |-> FALSE, count |-> 0, data |-> Shown(a, table[a])]
  OBVIOUS
<1>24. \A given \in answer.rows : One(given) = mine
  BY <1>20, <1>23, Zenon DEF One
<1>25. OneOf(answer.rows) = {mine}
  BY <1>21, <1>24 DEF OneOf
<1> QED
  BY <1>1, <1>4, <1>8, <1>22, <1>23, <1>25, Zenon

(* What an account writes of itself comes back *)

\* What an account writes of itself, and what a cell of it holds.
Set(time) == [role |-> Text("vip"), vip_expiry |-> time]
RoleOnly == [role |-> "vip"]
RoleAndTime(n) == [role |-> "vip", vip_expiry_ms |-> n]

LEMMA CellsHold ==
  /\ CellOf(Null) = NoTime /\ \A s : CellOf(Text(s)) = s /\ \A n : CellOf(Num(n)) = n
<1>1. CellOf(Null) = NoTime
  BY KindsDiffer DEF CellOf
<1>2. \A s : CellOf(Text(s)) = s
  BY KindsDiffer, ValuesDiffer DEF CellOf
<1>3. \A n : CellOf(Num(n)) = n
  BY KindsDiffer, ValuesDiffer DEF CellOf
<1> QED
  BY <1>1, <1>2, <1>3

LEMMA StoredIs ==
  ASSUME NEW time
  PROVE  /\ time.kind = "text" => Stored(UsersRowFor(Set(time))) = RoleOnly
         /\ time.kind \in {"iso", "number", "null"} =>
              Stored(UsersRowFor(Set(time))) = RoleAndTime(CellOf(TimeValue("vip_expiry", time)))
<1>1. PICK set : set = Set(time)
  OBVIOUS
<1>2. DOMAIN set = {"role", "vip_expiry"} /\ set["role"] = Text("vip") /\ set["vip_expiry"] = time
  BY <1>1 DEF Set
<1>3. PICK sent : sent = {c \in DOMAIN set : ~Unparsable(c, set[c])}
  OBVIOUS
<1>4. PICK row : row = UsersRowFor(set)
  OBVIOUS
<1>5. row = [k \in {AliasOut(c) : c \in sent} |-> TimeValue(BackOf(k), set[IF k \in sent THEN k ELSE BackOf(k)])]
  BY <1>3, <1>4 DEF UsersRowFor
<1>6. AliasOut("role") = "role" /\ AliasOut("vip_expiry") = "vip_expiry_ms"
  BY Times
<1>7. "role" \in sent
  BY <1>2, <1>3, <1>6 DEF Unparsable
<1>8. "vip_expiry" \in sent <=> time.kind \in {"iso", "number", "null"}
  BY <1>2, <1>3, <1>6 DEF Unparsable
<1>9. sent \subseteq {"role", "vip_expiry"}
  BY <1>2, <1>3
<1>10. row["role"] = Text("vip") /\ "role" \in DOMAIN row
  <2>1. "role" \in {AliasOut(c) : c \in sent}
    BY <1>6, <1>7
  <2>2. row["role"] = TimeValue(BackOf("role"), set["role"])
    BY <1>5, <1>7, <2>1
  <2> QED
    BY <1>2, <1>5, <2>1, <2>2, BackIs, Times
<1>11. PICK stored : stored = Stored(row)
  OBVIOUS
<1>12. stored = [c \in DOMAIN row |-> CellOf(row[c])]
  BY <1>11 DEF Stored
<1>13. stored["role"] = "vip"
  BY <1>10, <1>12, CellsHold
<1>14. ASSUME time.kind = "text" PROVE stored = RoleOnly
  <2>1. sent = {"role"}
    BY <1>7, <1>8, <1>9, <1>14
  <2>2. DOMAIN row = {"role"}
    BY <1>5, <1>6, <2>1
  <2> QED
    BY <1>12, <1>13, <2>2 DEF RoleOnly
<1>15. ASSUME time.kind \in {"iso", "number", "null"}
       PROVE  stored = RoleAndTime(CellOf(TimeValue("vip_expiry", time)))
  <2>1. sent = {"role", "vip_expiry"}
    BY <1>7, <1>8, <1>9, <1>15
  <2>2. DOMAIN row = {"role", "vip_expiry_ms"}
    BY <1>5, <1>6, <2>1
  <2>3. row["vip_expiry_ms"] = TimeValue(BackOf("vip_expiry_ms"), set[BackOf("vip_expiry_ms")])
    BY <1>5, <2>1, <2>2
  <2>4. row["vip_expiry_ms"] = TimeValue("vip_expiry", time)
    BY <1>2, <2>3, BackIs
  <2>5. PICK n : n = CellOf(TimeValue("vip_expiry", time))
    OBVIOUS
  <2>6. stored["vip_expiry_ms"] = n /\ DOMAIN stored = {"role", "vip_expiry_ms"}
    BY <1>12, <2>2, <2>4, <2>5
  <2>7. stored = [role |-> "vip", vip_expiry_ms |-> n]
    BY <1>12, <1>13, <2>2, <2>6
  <2> QED
    BY <2>5, <2>7 DEF RoleAndTime
<1> QED
  BY <1>1, <1>4, <1>11, <1>14, <1>15

\* The table an upsert of its own leaves.
OwnUpsert(a, set) ==
  [x \in DOMAIN users \cup {a} |->
     IF x = a THEN Updated(IF a \in DOMAIN users THEN users[a] ELSE NewUser, set) ELSE users[x]]

LEMMA UpsertOfOnesOwn ==
  ASSUME NEW a, NEW set, DOMAIN set \subseteq {"role", "vip_expiry_ms"}, "role" \in DOMAIN set,
         set = [c \in DOMAIN set |-> set[c]], NEW me, me = [kind |-> "user", account |-> a]
  PROVE  WriteRoute(users, "upsert", <<set>>, {}, me).users = OwnUpsert(a, set)
<1>1. me.kind = "user" /\ me.account = a /\ me.kind \in DOMAIN Rank
  BY DEF Rank
<1>2. PICK wire : wire = ParseFilters({})
  OBVIOUS
<1>3. wire = {}
  BY <1>2 DEF ParseFilters
<1>4. PICK w : w = OrderOf("upsert", set)
  OBVIOUS
<1>5. w.op = "upsert" /\ w.set = set
  <2>1. "id" \notin DOMAIN set
    OBVIOUS
  <2>2. [c \in DOMAIN set \ {"id"} |-> set[c]] = set
    BY <2>1
  <2>3. PICK id : id = IF "id" \in DOMAIN set THEN set["id"] ELSE ""
    OBVIOUS
  <2>4. PICK cells : cells = [c \in DOMAIN set \ {"id"} |-> set[c]]
    OBVIOUS
  <2>5. w = [op |-> "upsert", id |-> id, where |-> {},
             set |-> IF "upsert" \in {"insert", "upsert"} THEN cells ELSE set]
    BY <1>4, <2>3, <2>4, Zenon DEF OrderOf
  <2> QED
    BY <2>2, <2>4, <2>5
<1>6. PICK answer : answer = WriteWhere(users, w, wire, me)
  OBVIOUS
<1>7. PICK decision : decision = Decide("users", "write", me)
  OBVIOUS
<1>8. decision = [allowed |-> TRUE, scoped |-> me.kind = "user"]
  <2>1. me.kind # "public"
    BY <1>1
  <2> QED
    BY <1>1, <1>7, <2>1, DecideWrite
<1>9. decision.allowed /\ decision.scoped
  BY <1>1, <1>8
<1>18. PICK own : own = RowWritten(w, decision, me)
  OBVIOUS
<1>10. own = a
  BY <1>1, <1>9, <1>18 DEF RowWritten
<1>11. PICK status : status = IF ~decision.allowed THEN 403
                              ELSE IF ~(DOMAIN w.set \subseteq UserColumns) THEN 400
                              ELSE IF decision.scoped /\ w.op = "update" /\ "id" \in DOMAIN w.set THEN 403
                              ELSE IF DOMAIN w.set = {} /\ w.op = "update" THEN 400
                              ELSE IF Refused(wire) THEN 400
                              ELSE IF w.op \in {"update", "delete"} /\ wire = {} /\ ~decision.scoped THEN 400
                              ELSE IF w.op = "insert" /\ own \in DOMAIN users THEN 500
                              ELSE IF w.op = "upsert" /\ DOMAIN w.set = {} THEN 400
                              ELSE 200
  OBVIOUS
<1>12. status = 200
  <2>1. DOMAIN w.set \subseteq UserColumns /\ DOMAIN w.set # {}
    BY <1>5 DEF UserColumns
  <2>2. ~Refused(wire)
    BY <1>3 DEF Refused
  <2>3. w.op # "update" /\ w.op # "delete" /\ w.op # "insert"
    BY <1>5
  <2> QED
    BY <1>9, <1>11, <2>1, <2>2, <2>3
<1>13. PICK after : after = [x \in DOMAIN users \cup {own} |->
                               IF x = own THEN Updated(IF own \in DOMAIN users THEN users[own] ELSE NewUser, w.set)
                               ELSE users[x]]
  OBVIOUS
<1>14. answer = IF status # 200 THEN [status |-> status, users |-> users, hit |-> {}]
                ELSE [status |-> status, users |-> after, hit |-> {own}]
  <2>1. w.op = "upsert"
    BY <1>5
  <2> QED
    BY <1>6, <1>7, <1>11, <1>13, <1>18, <2>1 DEF WriteWhere
<1>15. answer.status = 200 /\ answer.users = after
  BY <1>12, <1>14
<1>16. after = OwnUpsert(a, set)
  BY <1>5, <1>10, <1>13 DEF OwnUpsert
<1>17. WriteRoute(users, "upsert", <<set>>, {}, me) =
         [status |-> answer.status, users |-> IF answer.status = 200 THEN answer.users ELSE users]
  BY <1>2, <1>4, <1>6, OneRow DEF First, AndRow, Unwritten
<1> QED
  BY <1>15, <1>16, <1>17

OldRow(a) == IF a \in DOMAIN users THEN users[a] ELSE NewUser
OldTime(a) == IF a \in DOMAIN users THEN Row(a).vip_expiry ELSE Null
\* What an account reads of a time it wrote, given what was there.
TimeRead(time, old) == CASE time.kind = "number" -> Iso(time.n) [] time.kind = "text" -> old [] OTHER -> time

\* The upsert of a row of its own, read back.
LEMMA OwnUpsertReads ==
  ASSUME TableOK(users), NEW a \in Accounts, NEW set, DOMAIN set \subseteq {"role", "vip_expiry_ms"},
         "role" \in DOMAIN set, set = [c \in DOMAIN set |-> set[c]],
         "vip_expiry_ms" \in DOMAIN set => set.vip_expiry_ms \in Nat,
         NEW me, me = [kind |-> "user", account |-> a]
  PROVE  LET mine == Asks(Question("id", "eq", {Text(a)}), <<Call("maybeSingle", "", {}, 0)>>)
         IN  AppAnswers(OwnUpsert(a, set), mine, me)
               = {[error |-> FALSE, count |-> 0, data |-> Shown(a, Updated(OldRow(a), set))]}
<1>1. PICK table : table = OwnUpsert(a, set)
  OBVIOUS
<1>2. RowOK(OldRow(a))
  BY NewIsOK DEF OldRow, TableOK
<1>3. SetOK(set)
  BY DEF SetOK, RowFields
<1>4. PICK new : new = Updated(OldRow(a), set)
  OBVIOUS
<1>5. RowOK(new)
  BY <1>2, <1>3, <1>4, RowUpdated
<1>6. table = [x \in DOMAIN users \cup {a} |-> IF x = a THEN new ELSE users[x]]
  BY <1>1, <1>4 DEF OwnUpsert, OldRow
<1>7. TableOK(table)
  <2>1. IsFiniteSet(DOMAIN users \cup {a})
    BY FS_AddElement DEF TableOK
  <2> QED
    BY <1>5, <1>6, <2>1 DEF TableOK
<1>8. a \in DOMAIN table /\ table[a] = new
  BY <1>6
<1>9. AppAnswers(table, Asks(Question("id", "eq", {Text(a)}), <<Call("maybeSingle", "", {}, 0)>>),
                 [kind |-> "user", account |-> a])
        = {[error |-> FALSE, count |-> 0, data |-> Shown(a, table[a])]}
  BY <1>7, <1>8, OwnRow, Zenon
<1> QED
  BY <1>1, <1>4, <1>8, <1>9, Zenon

LEMMA TimeLands ==
  ASSUME TableOK(users), NEW a, NEW time, time \in {Iso(1), Num(1), Null, Text("soon")}
  PROVE  LET set == Stored(UsersRowFor(Set(time))) IN
         /\ DOMAIN set \subseteq {"role", "vip_expiry_ms"} /\ "role" \in DOMAIN set
         /\ set = [c \in DOMAIN set |-> set[c]]
         /\ "vip_expiry_ms" \in DOMAIN set => set.vip_expiry_ms \in Nat
         /\ Shown(a, Updated(OldRow(a), set)) = [id |-> Text(a), vip_expiry |-> TimeRead(time, OldTime(a))]
<1>1. PICK set : set = Stored(UsersRowFor(Set(time)))
  OBVIOUS
<1>2. PICK new : new = Updated(OldRow(a), set)
  OBVIOUS
<1>3. RowOK(OldRow(a))
  BY NewIsOK DEF OldRow, TableOK
<1>4. NoTime \in Nat /\ NoTime # 1
  BY TimesAssumption
<1>5. \A row : Shown(a, row) = [id |-> Text(a), vip_expiry |-> Shown(a, row).vip_expiry]
  BY DEF Shown
<1>6. Shown(a, new).vip_expiry = IF new.vip_expiry_ms = NoTime THEN Null ELSE Iso(new.vip_expiry_ms)
  BY DEF Shown
<1>7. CASE time = Text("soon")
  <2>1. time.kind = "text"
    BY <1>7, ValuesDiffer
  <2>2. set = [role |-> "vip"]
    BY <1>1, <2>1, StoredIs DEF RoleOnly
  <2>3. new.vip_expiry_ms = OldRow(a).vip_expiry_ms
    BY <1>2, <1>3, <2>2 DEF Updated, RowOK, RowFields
  <2>4. Shown(a, new).vip_expiry = OldTime(a)
    <3>1. CASE a \in DOMAIN users
      BY <1>6, <2>3, <3>1 DEF OldRow, OldTime, Row
    <3>2. CASE a \notin DOMAIN users
      <4>1. OldRow(a) = NewUser
        BY <3>2 DEF OldRow
      <4>2. NewUser.vip_expiry_ms = NoTime
        <5>1. PICK none : none = ""
          OBVIOUS
        <5>2. NewUser = [role |-> "standard", vip_expiry_ms |-> NoTime, device_id |-> none, is_banned |-> 0]
          BY <5>1, Zenon DEF NewUser
        <5> QED
          BY <5>2
      <4> QED
        BY <1>6, <2>3, <3>2, <4>1, <4>2 DEF OldTime
    <3> QED
      BY <3>1, <3>2
  <2>5. TimeRead(time, OldTime(a)) = OldTime(a)
    BY <2>1 DEF TimeRead
  <2>6. /\ DOMAIN set \subseteq {"role", "vip_expiry_ms"} /\ "role" \in DOMAIN set
        /\ set = [c \in DOMAIN set |-> set[c]] /\ "vip_expiry_ms" \notin DOMAIN set
    BY <2>2
  <2> QED
    BY <1>1, <1>2, <1>5, <2>4, <2>5, <2>6
<1>8. CASE time \in {Iso(1), Num(1), Null}
  <2>1. time.kind \in {"iso", "number", "null"}
    BY <1>8, Times, ValuesDiffer, KindsDiffer
  <2>2. PICK n : n = CellOf(TimeValue("vip_expiry", time))
    OBVIOUS
  <2>3. set = [role |-> "vip", vip_expiry_ms |-> n]
    BY <1>1, <2>1, <2>2, StoredIs DEF RoleAndTime
  <2>4. time = Null => n = NoTime
    <3>1. TimeValue("vip_expiry", Null) = Null
      BY KindsDiffer DEF TimeValue
    <3> QED
      BY <2>2, <3>1, CellsHold
  <2>5. time # Null => n = 1
    BY <1>8, <2>2, Times, CellsHold
  <2>6. n \in Nat
    BY <1>4, <2>4, <2>5
  <2>7. new.vip_expiry_ms = n
    BY <1>2, <1>3, <2>3 DEF Updated, RowOK, RowFields
  <2>8. TimeRead(time, OldTime(a)) = IF time = Null THEN Null ELSE Iso(1)
    <3>1. CASE time = Iso(1)
      <4>1. time.kind = "iso"
        BY <3>1, Times
      <4> QED
        BY <3>1, <4>1, KindsDiffer DEF TimeRead
    <3>2. CASE time = Num(1)
      <4>1. time.kind = "number" /\ time.n = 1
        BY <3>2, ValuesDiffer
      <4> QED
        BY <3>2, <4>1, KindsDiffer DEF TimeRead
    <3>3. CASE time = Null
      BY <3>3, KindsDiffer DEF TimeRead
    <3> QED
      BY <1>8, <3>1, <3>2, <3>3
  <2>9. Shown(a, new).vip_expiry = TimeRead(time, OldTime(a))
    BY <1>4, <1>6, <2>4, <2>5, <2>7, <2>8
  <2>10. /\ DOMAIN set \subseteq {"role", "vip_expiry_ms"} /\ "role" \in DOMAIN set
         /\ set = [c \in DOMAIN set |-> set[c]] /\ set.vip_expiry_ms \in Nat
    BY <2>3, <2>6
  <2> QED
    BY <1>1, <1>2, <1>5, <2>9, <2>10
<1> QED
  BY <1>7, <1>8

LEMMA WritesComeBack ==
  ASSUME TableOK(users), NEW a \in Accounts, NEW time \in {Iso(1), Num(1), Null, Text("soon")}
  PROVE  ComesBack(a, time)
<1>1. PICK me : me = [kind |-> "user", account |-> a]
  OBVIOUS
<1>2. PICK set : set = Stored(UsersRowFor(Set(time)))
  OBVIOUS
<1>3. /\ DOMAIN set \subseteq {"role", "vip_expiry_ms"} /\ "role" \in DOMAIN set
      /\ set = [c \in DOMAIN set |-> set[c]]
      /\ "vip_expiry_ms" \in DOMAIN set => set.vip_expiry_ms \in Nat
      /\ Shown(a, Updated(OldRow(a), set)) = [id |-> Text(a), vip_expiry |-> TimeRead(time, OldTime(a))]
  BY <1>2, TimeLands
<1>4. AppWrites(users, "upsert", UsersRowFor(Set(time)), {}, me) = WriteRoute(users, "upsert", <<set>>, {}, me)
  <2>1. {Updated(OnWireOfWrite(f), [shape |-> "object"]) : f \in {}} = {}
    OBVIOUS
  <2>2. "upsert" \notin {"update", "delete"}
    OBVIOUS
  <2> QED
    BY <1>2, <2>1, <2>2, Zenon DEF AppWrites
<1>5. WriteRoute(users, "upsert", <<set>>, {}, me).users = OwnUpsert(a, set)
  BY <1>1, <1>3, UpsertOfOnesOwn
<1>6. PICK mine : mine = Asks(Question("id", "eq", {Text(a)}), <<Call("maybeSingle", "", {}, 0)>>)
  OBVIOUS
<1>7. AppAnswers(OwnUpsert(a, set), mine, me)
        = {[error |-> FALSE, count |-> 0, data |-> Shown(a, Updated(OldRow(a), set))]}
  BY <1>1, <1>3, <1>6, OwnUpsertReads, Zenon
<1>8. AppAnswers(AppWrites(users, "upsert", UsersRowFor(Set(time)), {}, me).users, mine, me)
        = {[error |-> FALSE, count |-> 0, data |-> [id |-> Text(a), vip_expiry |-> TimeRead(time, OldTime(a))]]}
  BY <1>3, <1>4, <1>5, <1>7, Zenon
<1> QED
  BY <1>1, <1>6, <1>8, Zenon DEF ComesBack, Set, TimeRead, OldTime

\* A value survives its JSON, which is never written twice, and a truth value its cell.
LEMMA JsonComesBack ==
  ASSUME NEW v \in {Doc(1), Num(1), Truth(TRUE), Null, Iso(1), Text("a"), Json(Doc(1))}
  PROVE  JsonOut(JsonOut(v)) = JsonOut(v) /\ (v.kind # "json" => JsonIn(JsonOut(v)) = v)
<1>1. PICK none : none = ""
  OBVIOUS
<1>2. \A kind, n, s : LET x == Value(kind, n, s) IN x.kind = kind /\ x.n = n /\ x.s = s
  BY DEF Value
<1>3. /\ Doc(1) = Value("object", 1, none) /\ Num(1) = Value("number", 1, none)
      /\ Null = Value("null", 0, none) /\ Iso(1) = Value("iso", 1, none)
  BY <1>1, Zenon DEF Doc, Num, Null, Iso
<1>4. Truth(TRUE) = Value("truth", 1, none)
  BY <1>1, Zenon DEF Truth
<1>5. \A x : Json(x) = Value("json", x.n, x.kind)
  BY DEF Json
<1>6. \A x : JsonIn(x) = IF x.kind = "json" THEN Value(x.s, x.n, none) ELSE x
  BY <1>1, Zenon DEF JsonIn
<1>7. \A x : JsonOut(x) = IF x.kind \in {"text", "iso", "json", "null"} THEN x ELSE Json(x)
  BY DEF JsonOut, Strings
<1>8. \A x : JsonOut(x).kind \in {"text", "iso", "json", "null"}
  BY <1>2, <1>5, <1>7
<1>9. JsonOut(JsonOut(v)) = JsonOut(v)
  BY <1>7, <1>8
<1>10. \A kind, n : kind # "json" => JsonIn(JsonOut(Value(kind, n, none))) = Value(kind, n, none)
  <2> TAKE kind, n
  <2>1. PICK x : x = Value(kind, n, none)
    OBVIOUS
  <2>2. x.kind = kind /\ x.n = n
    BY <1>2, <2>1
  <2>3. Json(x).kind = "json" /\ Json(x).n = n /\ Json(x).s = kind
    BY <1>2, <1>5, <2>2
  <2>4. JsonIn(Json(x)) = x
    BY <1>6, <2>1, <2>3
  <2> QED
    BY <1>6, <1>7, <2>1, <2>2, <2>4
<1>11. JsonIn(JsonOut(Text("a"))) = Text("a")
  BY <1>6, <1>7, ValuesDiffer
<1>12. Json(Doc(1)).kind = "json"
  BY <1>2, <1>5
<1>13. v.kind # "json" => JsonIn(JsonOut(v)) = v
  BY <1>3, <1>4, <1>10, <1>11, <1>12
<1> QED
  BY <1>9, <1>13

LEMMA FlagsComeBack ==
  ASSUME TableOK(users), NEW a \in DOMAIN users
  PROVE  DbBool(Cell(a, users[a], "is_banned")) = (users[a].is_banned = 1)
<1>1. PICK n : n = users[a].is_banned
  OBVIOUS
<1>2. n \in {0, 1}
  BY <1>1 DEF TableOK, RowOK
<1>3. Cell(a, users[a], "is_banned") = Num(n)
  BY <1>1, Cells
<1>4. Num(n) \notin {Truth(TRUE), Text("true"), Text("t"), Text("1")}
  <2>1. Num(n).kind = "number" /\ Truth(TRUE).kind = "truth" /\ \A s : Text(s).kind = "text"
    BY ValuesDiffer
  <2> QED
    BY <2>1
<1>5. DbBool(Num(n)) <=> n # 0
  BY <1>4, ValuesDiffer DEF DbBool
<1>6. DbBool(Num(n)) \in BOOLEAN
  BY <1>4, ValuesDiffer DEF DbBool
<1> QED
  BY <1>1, <1>2, <1>3, <1>5, <1>6

(* Every read of the table means what it says *)

LEMMA CountsAreRight ==
  ASSUME TableOK(users), NEW q, IsQuestion(q), NEW caller, caller.kind \in DOMAIN Rank
  PROVE  AppAnswers(users, Asks(q, <<Call("select", "", {"id"}, 1)>>), caller)
           = {[error |-> Denied(q, caller),
               count |-> IF Denied(q, caller) THEN 0 ELSE Cardinality(MeantBy(users, q, caller)),
               data |-> IF Denied(q, caller) THEN Null ELSE <<>>]}
<1>1. PICK calls : calls = Asks(q, <<Call("select", "", {"id"}, 1)>>)
  OBVIOUS
<1>2. PICK chain : chain = HowMany({"id"}, {q}, All, All)
  OBVIOUS
<1>3. Query(calls) = chain
  BY <1>1, <1>2, ChainsAre, Zenon
<1>4. chain.count = TRUE
  <2>1. PICK yes : yes = TRUE
    OBVIOUS
  <2>2. PICK no : no = FALSE
    OBVIOUS
  <2>3. chain = Chained({"id"}, {q}, All, All, yes, no)
    BY <1>2, <2>1, <2>2, Zenon DEF HowMany
  <2>4. chain.count = yes
    BY <2>3 DEF Chained
  <2> QED
    BY <2>1, <2>4, Zenon
<1>5. PICK query : query = ParseQuery(UrlOf(chain))
  OBVIOUS
<1>6. query.cols = {"id"} /\ query.where = {OnWire(q)} /\ query.count = TRUE
  <2>1. All = All \/ All \in Nat
    OBVIOUS
  <2> QED
    BY <1>2, <1>5, <2>1, ChainArrives, Zenon
<1>7. PICK answer : answer = ReadRoute(users, query, caller)
  OBVIOUS
<1>8. CASE Denied(q, caller)
  <2>1. answer.ok = FALSE
    BY <1>6, <1>7, <1>8, RouteAnswers
  <2>2. AppAnswers(users, calls, caller) = {Failure}
    BY <1>3, <1>5, <1>7, <2>1, AppGets
  <2>3. Denied(q, caller) = TRUE
    BY <1>8 DEF Denied
  <2> QED
    BY <1>1, <2>2, <2>3, Zenon DEF Failure
<1>9. CASE ~Denied(q, caller)
  <2>1. answer.ok = TRUE /\ answer.count = Cardinality(MeantBy(users, q, caller))
    BY <1>6, <1>7, <1>9, RouteAnswers
  <2>2. AppAnswers(users, calls, caller) = CountOf(answer.count)
    BY <1>3, <1>4, <1>5, <1>7, <2>1, AppGets
  <2>3. Denied(q, caller) = FALSE
    BY <1>9 DEF Denied
  <2> QED
    BY <1>1, <2>1, <2>2, <2>3, Zenon DEF Counted, CountOf
<1> QED
  BY <1>8, <1>9

LEMMA NewestAreRight ==
  ASSUME TableOK(users), NEW q, IsQuestion(q), NEW caller, caller.kind \in DOMAIN Rank, ~Denied(q, caller),
         NEW asked, asked = All \/ asked \in Nat,
         NEW calls, Query(calls) = Rows(Who, {q}, TimesDown, asked),
         NEW limit \in Nat, limit = LimitFor(IF asked = All THEN DefaultLimit ELSE asked, caller),
         NEW got \in AppAnswers(users, calls, caller)
  PROVE  TheNewest(got.data, MeantBy(users, q, caller), limit)
<1>1. PICK chain : chain = Rows(Who, {q}, TimesDown, asked)
  OBVIOUS
<1>2. chain.count = FALSE /\ chain.single = FALSE
  <2>1. PICK no : no = FALSE
    OBVIOUS
  <2>2. chain = Chained(Who, {q}, TimesDown, asked, no, no)
    BY <1>1, <2>1, Zenon DEF Rows
  <2>3. chain.count = no /\ chain.single = no
    BY <2>2 DEF Chained
  <2> QED
    BY <2>1, <2>3, Zenon
<1>3. PICK query : query = ParseQuery(UrlOf(chain))
  OBVIOUS
<1>4. /\ query.cols = ShownCols /\ query.where = {OnWire(q)} /\ query.count = FALSE
      /\ query.order = Down("vip_expiry_ms")
      /\ query.limit = IF asked = All THEN DefaultLimit ELSE asked
  <2>1. RowsArrive(q, asked)
    BY ChainArrives
  <2> QED
    BY <1>1, <1>3, <2>1, Zenon DEF ShownCols, RowsArrive
<1>5. PICK answer : answer = ReadRoute(users, query, caller)
  OBVIOUS
<1>6. PICK meant : meant = MeantBy(users, q, caller)
  OBVIOUS
<1>7. answer.ok = TRUE /\ answer.rows = Answered(users, ShownCols, Down("vip_expiry_ms"), limit, meant)
  <2>1. query.order \in {All, Down("vip_expiry_ms")}
    BY <1>4
  <2>2. /\ answer.ok = TRUE
        /\ answer.rows = Answered(users, ShownCols, query.order, LimitFor(query.limit, caller),
                                   MeantBy(users, q, caller))
    BY <1>4, <1>5, <2>1, RouteAnswers
  <2>3. LimitFor(query.limit, caller) = limit
    BY <1>4
  <2> QED
    BY <1>4, <1>6, <2>2, <2>3
<1>8. AppAnswers(users, calls, caller) = ManyOf(answer.rows)
  BY <1>1, <1>2, <1>3, <1>5, <1>7, AppGets
<1>9. PICK given \in answer.rows : got = Many(given)
  BY <1>8 DEF ManyOf
<1>10. got.data = Back(given)
  BY <1>9 DEF Many
<1>11. meant \subseteq DOMAIN users
  BY <1>6 DEF MeantBy
<1>12. given \in Answered(users, ShownCols, Down("vip_expiry_ms"), limit, meant)
  BY <1>7, <1>9
<1> QED
  BY <1>6, <1>10, <1>11, <1>12, NewestCome

\* What is asked about one question.
LEMMA QuestionIsAnswered ==
  ASSUME TableOK(users), NEW q \in Questions, NEW caller \in Anyone
  PROVE  LET answer == Select(users, {q}, caller)
             meant  == {a \in DOMAIN users : Meaning(a, users[a], q) /\ Mine(a, caller)}
             counts == AppAnswers(users, Asks(q, <<Call("select", "", {"id"}, 1)>>), caller)
             refused == caller.kind = "public" \/ Cardinality(q.values) > MaxInValues
         IN  /\ answer.ok = ~refused /\ (answer.ok => answer.ids = meant)
             /\ counts = {[error |-> refused, count |-> IF refused THEN 0 ELSE Cardinality(meant),
                           data |-> IF refused THEN Null ELSE <<>>]}
             /\ ~refused =>
                  /\ \A n \in 1..MaxLimitService :
                       \A got \in AppAnswers(users, Asks(q, UpTo(n)), caller) :
                         TheNewest(got.data, meant,
                                   IF n < MaxLimit \/ caller.kind = "service" THEN n ELSE MaxLimit)
                  /\ \A got \in AppAnswers(users, Asks(q, Newest), caller) :
                       TheNewest(got.data, meant, DefaultLimit)
<1>1. IsQuestion(q)
  BY QuestionsAre
<1>2. caller.kind \in DOMAIN Rank
  BY DEF Anyone
<1>3. PICK meant : meant = MeantBy(users, q, caller)
  OBVIOUS
<1>4. PICK answer : answer = Select(users, {q}, caller)
  OBVIOUS
<1>5. answer = IF Denied(q, caller) THEN [ok |-> FALSE, ids |-> {}] ELSE [ok |-> TRUE, ids |-> meant]
  <2>1. {OnWire(f) : f \in {q}} = {OnWire(q)}
    OBVIOUS
  <2> QED
    BY <1>1, <1>2, <1>3, <1>4, <2>1, SelectMeans DEF Select
<1>6. answer.ok = ~Denied(q, caller) /\ (answer.ok => answer.ids = meant)
  BY <1>5 DEF Denied
<1>7. AppAnswers(users, Asks(q, <<Call("select", "", {"id"}, 1)>>), caller)
        = {[error |-> Denied(q, caller), count |-> IF Denied(q, caller) THEN 0 ELSE Cardinality(meant),
            data |-> IF Denied(q, caller) THEN Null ELSE <<>>]}
  BY <1>1, <1>2, <1>3, CountsAreRight, Zenon
<1>8. /\ DefaultLimit \in Nat \ {0} /\ MaxLimit \in Nat /\ MaxLimitService \in Nat /\ All \notin Int
      /\ DefaultLimit <= MaxLimit /\ MaxLimit <= MaxLimitService
  BY WireAssumption, Zenon
<1>9. ASSUME ~Denied(q, caller), NEW n \in 1..MaxLimitService, NEW got \in AppAnswers(users, Asks(q, UpTo(n)), caller)
      PROVE  TheNewest(got.data, meant, IF n < MaxLimit \/ caller.kind = "service" THEN n ELSE MaxLimit)
  <2>1. n \in Nat /\ n > 0 /\ n <= MaxLimitService /\ n # All
    BY <1>8
  <2>2. PICK calls : calls = Asks(q, UpTo(n))
    OBVIOUS
  <2>3. Query(calls) = Rows(Who, {q}, TimesDown, n)
    BY <1>1, <2>2, ChainsAre, Zenon
  <2>4. PICK limit : limit = IF n < MaxLimit \/ caller.kind = "service" THEN n ELSE MaxLimit
    OBVIOUS
  <2>5. limit = LimitFor(n, caller)
    BY <2>1, <2>4, LimitIs
  <2>6. limit = LimitFor(IF n = All THEN DefaultLimit ELSE n, caller)
    BY <2>1, <2>5
  <2>7. limit \in Nat
    BY <1>8, <2>1, <2>4
  <2> QED
    BY <1>1, <1>2, <1>3, <1>9, <2>1, <2>2, <2>3, <2>4, <2>6, <2>7, NewestAreRight
<1>10. ASSUME ~Denied(q, caller), NEW got \in AppAnswers(users, Asks(q, Newest), caller)
       PROVE  TheNewest(got.data, meant, DefaultLimit)
  <2>1. PICK calls : calls = Asks(q, Newest)
    OBVIOUS
  <2>2. Query(calls) = Rows(Who, {q}, TimesDown, All)
    BY <1>1, <2>1, ChainsAre, Zenon
  <2>3. LimitFor(DefaultLimit, caller) = DefaultLimit
    BY <1>8, LimitIs
  <2>4. PICK limit : limit = DefaultLimit
    OBVIOUS
  <2>5. limit \in Nat /\ limit = LimitFor(IF All = All THEN DefaultLimit ELSE All, caller)
    BY <1>8, <2>3, <2>4
  <2> QED
    BY <1>1, <1>2, <1>3, <1>10, <2>1, <2>2, <2>4, <2>5, NewestAreRight
<1>11. Denied(q, caller) = (caller.kind = "public" \/ Cardinality(q.values) > MaxInValues)
  BY Zenon DEF Denied
<1>12. meant = {a \in DOMAIN users : Meaning(a, users[a], q) /\ Mine(a, caller)}
  BY <1>3 DEF MeantBy
<1> QED
  BY <1>4, <1>6, <1>7, <1>9, <1>10, <1>11, <1>12, Zenon

LEMMA ReadsHold ==
  ASSUME GrantInv
  PROVE  ReadsMeanWhatTheySay
<1>1. TableOK(users)
  BY DEF GrantInv
<1>2. \A a \in Accounts, time \in {Iso(1), Num(1), Null, Text("soon")} : ComesBack(a, time)
  BY <1>1, WritesComeBack
<1>3. \A a \in DOMAIN users : DbBool(Cell(a, users[a], "is_banned")) = (users[a].is_banned = 1)
  BY <1>1, FlagsComeBack
<1> QED
  BY <1>1, <1>2, <1>3, QuestionIsAnswered, JsonComesBack, Zenon DEF ReadsMeanWhatTheySay

\* Whatever is in the table, whoever asks and whatever the caps: a question is answered by
\* the rows it means, of the caller's own when it is an account, counted or the newest of
\* them up to the caller's cap; a time, a value or a flag written comes back as it was
\* (dataHub.ts:92-262, db.ts:62-287, index.ts:702-741).
THEOREM ReadsAreTrue == AdminSpec => []ReadsMeanWhatTheySay
<1> DEFINE Inv == /\ which = "accounts" => GrantInv
                  /\ which # "accounts" => page.phase = "elsewhere"
<1>1. AdminInit => Inv
  <2> SUFFICES ASSUME AdminInit PROVE Inv
    OBVIOUS
  <2>1. CASE which = "accounts"
    BY <2>1, GrantStart DEF AdminInit
  <2>2. CASE which # "accounts"
    BY <2>2 DEF AdminInit, NoAccounts
  <2> QED
    BY <2>1, <2>2
<1>2. Inv /\ [AdminNext]_<<vars, which, rows, pages, past>> => Inv'
  <2> SUFFICES ASSUME Inv, [AdminNext]_<<vars, which, rows, pages, past>> PROVE Inv'
    OBVIOUS
  <2>1. UNCHANGED which /\ (which = "accounts" => [Next]_vars) /\ (which # "accounts" => UNCHANGED vars)
    BY DEF AdminNext
  <2>2. CASE which = "accounts"
    BY <2>1, <2>2, GrantStep
  <2>3. CASE which # "accounts"
    BY <2>1, <2>3 DEF vars
  <2> QED
    BY <2>2, <2>3
<1>3. Inv => ReadsMeanWhatTheySay
  <2>1. CASE which = "accounts"
    BY <2>1, ReadsHold
  <2>2. ASSUME which # "accounts", Inv PROVE ~Quiet
    <3>1. Closed.phase = "idle"
      BY DEF Closed
    <3> QED
      BY <2>2, <3>1 DEF Quiet
  <2>3. CASE which # "accounts"
    BY <2>2, <2>3, Zenon DEF ReadsMeanWhatTheySay
  <2> QED
    BY <2>1, <2>3
<1> QED
  BY <1>1, <1>2, <1>3, PTL DEF AdminSpec
================================================================================
