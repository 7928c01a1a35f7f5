------------------------------ MODULE AdminForms ------------------------------
(* The admin's control, updates and theme pages (web/app/admin): forms over the *)
(* `configs` rows, each row replaced whole by a save. A row is abstracted to a  *)
(* switch and a text: what is pressed and what is typed. Two tabs may be open.  *)
EXTENDS Naturals, FiniteSets

CONSTANTS
  Tabs,      \* browser tabs with the page open
  Texts,     \* what may be typed, Blank among it
  Blank,     \* an empty field
  Bad,       \* a text that is no address, as a pasted @handle is
  Absent,    \* no row
  Unread,    \* what a form knows whose load failed, or has not answered
  MaxEdits, MaxSaves, MaxFaults   \* bounds of a run

\* What the constants may be; the module that instantiates this one assumes it.
FormsAssumption ==
  /\ Blank \in Texts
  /\ \A row \in [flag : BOOLEAN, text : Texts] : row \notin {Absent, Unread}

VARIABLES
  rows,    \* configs: id |-> content, or Absent
  pages,   \* tab |-> its form and what it is waiting for
  past     \* history: what operators chose, which rows are excused, what is spent

vars == <<rows, pages, past>>

Content == [flag : BOOLEAN, text : Texts]

\* The cards of each page; a page is one component with one `busy` and one load.
CardsOf == [control |-> {"telegram", "social"}, window |-> {"maintenance", "display_source"},
            updates |-> {"appUpdate"}, theme |-> {"theme"}]

\* What the page shows for a row that is not there (get(id) of nothing).
Default == [flag |-> FALSE, text |-> Blank]
Shown(row) == IF row \in {Absent, Unread} THEN Default ELSE row
Nobody == [flag |-> FALSE, text |-> FALSE]    \* no field of a card touched

Kind == past.kind
Cards == CardsOf[Kind]

\* A page as its component mounts: the form is shown before its load has
\* answered only by the updates page.
Opened == [op |-> "idle", loads |-> {"first"}, busy |-> FALSE, loaded |-> Kind = "updates",
           form |-> [c \in Cards |-> Default], touched |-> [c \in Cards |-> Nobody],
           base |-> [c \in Cards |-> Unread], sent |-> Unread]

InitOf(kind) ==
  /\ past = [kind |-> kind, chosen |-> [c \in CardsOf[kind] |-> Default], excused |-> {},
             edits |-> 0, saves |-> 0, faults |-> 0]
  /\ rows = [c \in CardsOf[kind] |-> Absent]
  /\ pages = [t \in Tabs |-> Opened]
Init == \E kind \in DOMAIN CardsOf : InitOf(kind)

-------------------------------------------------------------------------------
(* The load.                                                                    *)

Spend(b, most) == past[b] < most /\ past' = [past EXCEPT ![b] = @ + 1]

\* load(): the answer replaces the whole form, the cards nobody asked about too.
\* A failed read is an answer without rows (dataHub.ts:422), so it shows defaults.
Load(t) ==
  /\ \E which \in pages[t].loads, fails \in BOOLEAN :
       /\ IF fails THEN Spend("faults", MaxFaults) ELSE UNCHANGED past
       /\ pages' = [pages EXCEPT ![t] =
            [pages[t] EXCEPT
                      !.loads = @ \ {which}, !.loaded = TRUE,
                      !.op = IF which = "after" THEN "idle" ELSE @,
                      !.busy = @ /\ which # "after",
                      !.form = [c \in Cards |-> IF fails THEN Default ELSE Shown(rows[c])],
                      !.base = [c \in Cards |-> IF fails THEN Unread ELSE rows[c]],
                      !.touched = [c \in Cards |-> Nobody]]]
  /\ UNCHANGED rows

\* The page is left and opened again.
Reopen(t) ==
  /\ pages[t].op = "idle" /\ Spend("edits", MaxEdits)
  /\ pages' = [pages EXCEPT ![t] = Opened]
  /\ UNCHANGED rows

-------------------------------------------------------------------------------
(* Typing and saving.                                                           *)

\* The text fields of the telegram card are disabled while busy; the others are not.
Type(t, c, x) ==
  /\ pages[t].loaded /\ x # pages[t].form[c].text
  /\ c = "telegram" => ~pages[t].busy
  /\ c # "display_source"
  /\ Spend("edits", MaxEdits)
  /\ pages' = [pages EXCEPT ![t].form[c].text = x, ![t].touched[c].text = TRUE]
  /\ UNCHANGED rows

\* socialUrlError: a text that cannot be made an address. Empty is allowed.
Unusable(text) == text = Bad

\* Is a card's save button enabled, and for which choices of its switch?
Choices(t, c) ==
  LET f == pages[t].form[c] IN
  CASE c = "telegram" -> {f.flag, ~f.flag}                  \* a blur, or the switch
    [] c = "social" -> IF Unusable(f.text) THEN {} ELSE {f.flag}
    [] c = "appUpdate" -> (IF f.text # Blank THEN {TRUE} ELSE {}) \cup
                          (IF Shown(pages[t].base[c]).flag THEN {FALSE} ELSE {})
    [] c = "theme" -> {TRUE}
    [] OTHER -> BOOLEAN

\* Switching maintenance or an update off drops its text; a source has none.
Blanks(c, choice) == c = "display_source" \/ (c \in {"maintenance", "appUpdate"} /\ ~choice)

\* Variant: only what was changed goes into the write.
WrittenAlone(t, c, choice) ==
  [flag |-> choice,
   text |-> IF Blanks(c, choice) \/ ~pages[t].touched[c].text THEN Blank ELSE pages[t].form[c].text]

\* The row a save sends: the whole form of the card, since the row is replaced
\* rather than merged.
Written(t, c, choice) ==
  [flag |-> choice, text |-> IF Blanks(c, choice) THEN Blank ELSE pages[t].form[c].text]

\* setConfig, publish, clear and the theme's save, up to their request. The
\* telegram card shows its choice before the answer.
Save(t, c, choice) ==
  LET p == pages[t]
      new == Written(t, c, choice)
      touched == [flag |-> p.touched[c].flag \/ choice # p.form[c].flag,
                  text |-> p.touched[c].text \/ Blanks(c, choice)] IN
  /\ p.loaded /\ ~p.busy /\ p.op = "idle" /\ choice \in Choices(t, c)
  /\ Spend("saves", MaxSaves)
  /\ pages' = [pages EXCEPT ![t] =
       [p EXCEPT !.busy = TRUE, !.op = "write",
                 !.sent = [card |-> c, content |-> new, touched |-> touched, base |-> p.base[c]],
                 !.form[c].flag = IF c = "telegram" THEN choice ELSE @,
                 !.touched[c].flag = c = "telegram" /\ touched.flag]]
  /\ UNCHANGED rows

\* The hub replaces the row. A field nobody touched on this form is whatever it
\* was meant to be; a form that was not loaded from the row it replaces is excused.
Lands(t) ==
  LET sent == pages[t].sent IN
  /\ pages[t].op = "write"
  /\ rows' = [rows EXCEPT ![sent.card] = sent.content]
  /\ pages' = [pages EXCEPT ![t].op = "landed"]
  /\ past' = [past EXCEPT
       !.chosen[sent.card] = [flag |-> IF sent.touched.flag THEN sent.content.flag ELSE @.flag,
                              text |-> IF sent.touched.text THEN sent.content.text ELSE @.text],
       !.excused = IF sent.base # rows[sent.card] THEN @ \cup {sent.card} ELSE @]

\* The answer: an error leaves the form as it is; success loads the page again,
\* except the theme's, which goes on with what it has.
Answer(t) ==
  LET p == pages[t] IN
  /\ \/ p.op = "landed" /\ UNCHANGED past
        /\ pages' = [pages EXCEPT ![t] =
             IF Kind # "theme" THEN [p EXCEPT !.op = "reload", !.loads = @ \cup {"after"}]
             ELSE [p EXCEPT !.op = "idle", !.busy = FALSE,
                            !.base[p.sent.card] = p.sent.content,
                            !.form[p.sent.card].flag = p.sent.content.flag,
                            !.touched[p.sent.card].text = p.form[p.sent.card].text # p.sent.content.text]]
     \/ p.op \in {"write", "landed"} /\ Spend("faults", MaxFaults)
        /\ pages' = [pages EXCEPT ![t] = [p EXCEPT !.op = "idle", !.busy = FALSE]]
  /\ UNCHANGED rows

Next ==
  \E t \in Tabs :
    \/ Load(t) \/ Reopen(t) \/ Lands(t) \/ Answer(t)
    \/ \E c \in Cards : \/ \E x \in Texts : Type(t, c, x)
                        \/ \E choice \in BOOLEAN : Save(t, c, choice)

Spec == Init /\ [][Next]_vars

-------------------------------------------------------------------------------
(* A row says what the operators chose, each field the last time somebody       *)
(* touched it, unless a form replaced it that was not loaded from it: another   *)
(* tab had written since, or the load had failed (control/page.tsx:170: "both   *)
(* fields go in every write"). Nothing else, no error, lost answer, reload or   *)
(* switch shown before its time, puts back what nobody chose.                   *)
RowsSayWhatWasChosen ==
  \A c \in Cards : c \in past.excused \/ Shown(rows[c]) = past.chosen[c]
===============================================================================
