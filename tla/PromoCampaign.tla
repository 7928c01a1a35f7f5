----------------------------- MODULE PromoCampaign -----------------------------
(* The promotional announcement: the admin's page (admin/promo/page.tsx), which *)
(* saves the row `configs/promo` whole and switches it on and off by reading it *)
(* and writing it back, and the overlay of the users' app (PromoOverlay.tsx),   *)
(* which shows an offer until its version has been closed on the device.        *)
EXTENDS Naturals

CONSTANTS
  Tabs,      \* the admin's tabs with the page open
  Devices,   \* users' devices, storage not blocked
  Texts,     \* what an offer may say
  Blank,     \* an offer without text
  MaxEdits, MaxSaves, MaxFaults, MaxShown   \* bounds of a run

VARIABLES
  rows,    \* configs/promo: [there, flag (enabled), text, version]
  pages,   \* [admin: tab |-> the page, device: device |-> what it shows and has closed]
  past     \* history: which offer was closed, excuses, what is spent

vars == <<rows, pages, past>>

Nothing == [there |-> FALSE, flag |-> FALSE, text |-> Blank, version |-> 0]
Idle == [step |-> "idle", flag |-> FALSE, read |-> Nothing]
\* The page before its load has answered: no form is shown.
Opened == [loaded |-> FALSE, flag |-> FALSE, text |-> Blank, version |-> 1,
           save |-> Idle, switches |-> [s \in {1, 2} |-> Idle]]
NotShown == [flag |-> FALSE, text |-> Blank, version |-> 0]

Init ==
  /\ rows = Nothing
  /\ pages = [admin |-> [t \in Tabs |-> Opened],
              device |-> [d \in Devices |-> [shows |-> NotShown, closed |-> {}]]]
  /\ past = [closed |-> [d \in Devices |-> {}], top |-> 1, excused |-> FALSE,
             edits |-> 0, saves |-> 0, faults |-> 0, shown |-> 0]

Spend(b, most) == past[b] < most /\ past' = [past EXCEPT ![b] = @ + 1]
Admin(t, new) == pages' = [pages EXCEPT !.admin[t] = new]

-------------------------------------------------------------------------------
(* The admin's page.                                                            *)

\* load(), once per page. A failed read is an empty row, version 1.
Load(t) ==
  /\ ~pages.admin[t].loaded
  /\ \E fails \in BOOLEAN :
       /\ IF fails THEN Spend("faults", MaxFaults) ELSE UNCHANGED past
       /\ LET row == IF fails THEN Nothing ELSE rows IN
          Admin(t, [pages.admin[t] EXCEPT
                      !.loaded = TRUE, !.flag = row.flag, !.text = row.text,
                      !.version = IF row.version = 0 THEN 1 ELSE row.version])
  /\ UNCHANGED rows

Type(t, x) ==
  /\ pages.admin[t].loaded /\ x # pages.admin[t].text
  /\ Spend("edits", MaxEdits)
  /\ Admin(t, [pages.admin[t] EXCEPT !.text = x])
  /\ UNCHANGED rows

\* Variant: an edited offer keeps its version.
SavedAgain(p, flag) == [there |-> TRUE, flag |-> flag, text |-> p.text, version |-> p.version]

\* The row a save writes: the form, under the version after the one the page knows.
Saved(p, flag) == [there |-> TRUE, flag |-> flag, text |-> p.text, version |-> p.version + 1]

\* save(), with the switch as it is, or off.
Save(t) ==
  LET p == pages.admin[t] IN
  /\ p.loaded /\ p.save.step = "idle"
  /\ Spend("saves", MaxSaves)
  /\ \E flag \in {p.flag, FALSE} :
       Admin(t, [p EXCEPT !.save = [step |-> "write", flag |-> flag, read |-> Saved(p, flag)]])
  /\ UNCHANGED rows

\* A page that does not know the highest version so far gives one a second meaning.
SaveLands(t) ==
  LET p == pages.admin[t] IN
  /\ p.save.step = "write"
  /\ rows' = p.save.read
  /\ Admin(t, [p EXCEPT !.save.step = "landed"])
  /\ past' = [past EXCEPT !.top = IF rows'.version > @ THEN rows'.version ELSE @,
                          !.excused = @ \/ p.version < past.top]

\* The answer. Success: the page takes the version and its form as it was when
\* the save began. An error leaves both, also when the save had landed: its
\* version will be used again.
SaveAnswers(t) ==
  LET p == pages.admin[t] IN
  /\ \/ p.save.step = "landed" /\ UNCHANGED past
        /\ Admin(t, [p EXCEPT !.save = Idle, !.version = p.save.read.version,
                              !.flag = p.save.read.flag, !.text = p.save.read.text])
     \/ p.save.step \in {"write", "landed"} /\ Spend("faults", MaxFaults)
        /\ Admin(t, [p EXCEPT !.save = Idle])
  /\ UNCHANGED rows

Slot(t, s, op) == Admin(t, [pages.admin[t] EXCEPT !.switches[s] = op])

\* setEnabled(v): the form shows it, the row is asked for; nothing keeps a second
\* press, or a save, from running beside it.
Switch(t, s, v) ==
  LET p == pages.admin[t] IN
  /\ p.loaded /\ p.switches[s].step = "idle" /\ v # p.flag
  /\ Spend("edits", MaxEdits)
  /\ Admin(t, [p EXCEPT !.flag = v, !.switches[s] = [step |-> "read", flag |-> v, read |-> Nothing]])
  /\ UNCHANGED rows

\* A failed read is an empty row here too, and is written back over the offer.
SwitchReads(t, s) ==
  LET op == pages.admin[t].switches[s] IN
  /\ op.step = "read"
  /\ \/ UNCHANGED past /\ Slot(t, s, [op EXCEPT !.step = "write", !.read = rows])
     \/ Spend("faults", MaxFaults) /\ Slot(t, s, [op EXCEPT !.step = "write", !.read = Nothing])
  /\ UNCHANGED rows

\* Only `enabled` is changed in what was read; nobody looks at the answer.
SwitchLands(t, s) ==
  LET op == pages.admin[t].switches[s] IN
  /\ op.step = "write"
  /\ \/ rows' = [op.read EXCEPT !.there = TRUE, !.flag = op.flag] /\ UNCHANGED past
     \/ UNCHANGED rows /\ Spend("faults", MaxFaults)
  /\ Slot(t, s, Idle)

-------------------------------------------------------------------------------
(* The users' overlay.                                                          *)

\* The gates: enabled (target and end left out), and not closed on this device.
Gates(d) == rows.there /\ rows.flag /\ rows.version \notin pages.device[d].closed

\* The app is opened, which is when the row is read, once.
Open(d) ==
  /\ Spend("shown", MaxShown)
  /\ \E fails \in BOOLEAN :
       pages' = [pages EXCEPT !.device[d].shows =
         IF fails \/ ~Gates(d) THEN NotShown
         ELSE [flag |-> TRUE, text |-> rows.text, version |-> rows.version]]
  /\ UNCHANGED rows

\* The user closes it; an offer whose time is up closes itself and is not recorded.
Close(d) ==
  LET s == pages.device[d].shows IN
  /\ s.flag
  /\ \/ /\ pages' = [pages EXCEPT !.device[d] =
               [shows |-> NotShown, closed |-> pages.device[d].closed \cup {s.version}]]
        /\ past' = [past EXCEPT !.closed[d] = @ \cup {s.text}]
     \/ pages' = [pages EXCEPT !.device[d].shows = NotShown] /\ UNCHANGED past
  /\ UNCHANGED rows

Next ==
  \/ \E t \in Tabs :
       \/ Load(t) \/ Save(t) \/ SaveLands(t) \/ SaveAnswers(t)
       \/ \E x \in Texts : Type(t, x)
       \/ \E s \in {1, 2} : SwitchReads(t, s) \/ SwitchLands(t, s)
                            \/ \E v \in BOOLEAN : Switch(t, s, v)
  \/ \E d \in Devices : Open(d) \/ Close(d)

Spec == Init /\ [][Next]_vars

-------------------------------------------------------------------------------
(* A device that will not show the offer has closed this very offer, whichever  *)
(* saves and switches ran beside each other (promo/page.tsx:10: "editing the    *)
(* offer makes it appear again for users who already closed the previous one"). *)
(* Excused: a save by a page whose version is behind, because another tab saved, *)
(* the answer to its own save was lost, or it loaded a row that was wiped.      *)
ClosedMeansThisOffer ==
  \A d \in Devices :
    rows.version \in pages.device[d].closed /\ ~past.excused => rows.text \in past.closed[d]
===============================================================================
