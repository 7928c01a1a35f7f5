------------------------------ MODULE AdminLists ------------------------------
(* The admin's lists of brokers, pairs and accounts (web/app/admin/brokers/      *)
(* page.tsx, pairs/page.tsx, page.tsx): a page shows the table as it last read   *)
(* it, and writes are followed by a read. A colleague may change the same table  *)
(* meanwhile. What the pages say of a write (most say "done") is left out.       *)
EXTENDS Naturals, FiniteSets

CONSTANTS
  Names,     \* brokers, chart symbols of pairs, or accounts
  Unread,    \* a list no answer has come for yet
  MaxPresses, MaxOthers, MaxFaults   \* bounds: writes asked here, elsewhere; requests that fail

VARIABLES
  hub,   \* the table: name |-> "gone", "on" or "off" (a broker's colour, a pair's
         \* `enabled`, an account's ban, guarantee or device)
  net,   \* the handlers under way
  app    \* the page, what the behaviour has used up, and the writes no read of the page's
         \* follows (`missed`) with those the list shown has seen

vars == <<hub, net, app>>

Looks == {"on", "off"}
NoRows == [n \in Names |-> "gone"]

Init ==
  /\ hub \in [Names -> {"gone", "on"}]
  /\ net = {[n |-> 1, does |-> "load", name |-> Unread, to |-> "on", step |-> "read", list |-> NoRows, at |-> 0]}
  /\ \E page \in {"brokers", "pairs", "users"} :
       app = [page |-> page, list |-> Unread, library |-> FALSE, dialog |-> Unread, busy |-> {},
              asked |-> 1, presses |-> 0, others |-> 0, faults |-> 0,
              missed |-> 0, seen |-> 0, landed |-> 0, good |-> TRUE]

Fault == app.faults < MaxFaults
OnPage(name) == app.list # Unread /\ app.list[name] # "gone"

Free == app.busy = {}   \* else the rows whose buttons wait

\* A handler starts: it makes the page busy and asks something of the hub.
Starts(does, name, to, step) ==
  /\ app.presses < MaxPresses
  /\ net' = net \cup {[n |-> app.asked + 1, does |-> does, name |-> name, to |-> to,
                       step |-> step, list |-> NoRows, at |-> 0]}
  /\ app' = [app EXCEPT !.asked = @ + 1, !.presses = @ + 1,
                        !.busy = IF app.page = "users" THEN {name} ELSE Names]
  /\ UNCHANGED hub

-------------------------------------------------------------------------------
(* Brokers. The rows' buttons do not look at `busy`, those of the dialogs do.    *)

\* openDialog(): a draft of the row shown, or an empty one.
OpenDialog(name) ==
  /\ app.page = "brokers" /\ app.dialog = Unread
  /\ app' = [app EXCEPT !.dialog = name] /\ UNCHANGED <<hub, net>>
CloseDialog ==
  /\ app.dialog # Unread /\ app' = [app EXCEPT !.dialog = Unread] /\ UNCHANGED <<hub, net>>

\* save(), of a draft with a name and a link.
Save ==
  /\ app.page = "brokers" /\ app.dialog # Unread /\ Free
  /\ Starts("save", app.dialog, "off", "write")

RemoveBroker(name) == app.page = "brokers" /\ OnPage(name) /\ Starts("remove", name, "gone", "write")
SaveQuickColor(name) ==
  /\ app.page = "brokers" /\ OnPage(name) /\ Free
  /\ \E to \in Looks \ {app.list[name]} : Starts("colour", name, to, "write")

-------------------------------------------------------------------------------
(* Pairs. Every button waits until the page is not busy.                         *)

Patch(name) ==
  /\ app.page = "pairs" /\ OnPage(name) /\ Free
  /\ \E to \in Looks \ {app.list[name]} : Starts("patch", name, to, "write")
RemovePair(name) ==
  app.page = "pairs" /\ OnPage(name) /\ Free /\ Starts("remove", name, "gone", "write")

\* loadLibrary(): the scraper's own catalogue, here every name there is.
LoadLibrary == app.page = "pairs" /\ Free /\ Starts("library", Unread, "on", "read")

\* importPair(): "already" looks at the list shown, one that is not there is empty.
ImportPair(name) ==
  /\ app.page = "pairs" /\ app.library /\ ~OnPage(name) /\ Free
  /\ Starts("import", name, "on", "write")

-------------------------------------------------------------------------------
(* Accounts. Only the buttons of the row last acted on wait: `busy` is one id,   *)
(* and whichever patch ends first forgets it.                                    *)

PatchUser(name) ==
  /\ app.page = "users" /\ OnPage(name) /\ name \notin app.busy
  /\ \E to \in Looks \ {app.list[name]} : Starts("patch", name, to, "write")
\* VipDialog: a role and a date go out together.
GrantVip(name) ==
  app.page = "users" /\ OnPage(name) /\ name \notin app.busy /\ Starts("vip", name, "off", "write")

-------------------------------------------------------------------------------
(* The hub (data-hub/src/db.ts buildWrite, access.ts POLICY, the schema).         *)

\* save() names updated_at, which is no column of `brokers` there: 400. importPair()
\* leaves out created_ms, which may not be NULL and has no default: 500. And the date
\* of the dialog goes out as vip_expiry: a write's values are not renamed.
SavedColumns == {"name", "themeColor", "updated_at"}
BrokerColumns == {"name", "themeColor", "updated_ms"}
ImportedColumns == {"symbol", "chart_symbol", "enabled", "order"}
NeededByPairs == {"symbol", "chart_symbol", "created_ms"}
GrantedColumns == {"role", "vip_expiry"}
UserColumns == {"role", "vip_expiry_ms", "is_banned"}
Accepts(r) ==
  /\ r.does = "save" => SavedColumns \subseteq BrokerColumns
  /\ r.does = "import" => NeededByPairs \subseteq ImportedColumns /\ hub[r.name] = "gone"
  /\ r.does = "vip" => GrantedColumns \subseteq UserColumns

\* What a write leaves: a row that is not there any more is not an error.
Written(r) ==
  IF hub[r.name] = "gone" /\ r.does # "import" THEN hub ELSE [hub EXCEPT ![r.name] = r.to]

Write(r) ==
  /\ r.step = "write"
  /\ \E step \in IF Accepts(r) THEN {"done"} ELSE {"refused"} :
       /\ net' = (net \ {r}) \cup {[r EXCEPT !.step = step]}
       /\ hub' = IF step = "done" THEN Written(r) ELSE hub
  /\ UNCHANGED app

\* The hub answers 500 (an error that the chain hands over), or the connection
\* fails, before or after the hub has written: insert() makes an error of that too,
\* but WriteChain.run throws it.
WriteFails(r) ==
  /\ r.step = "write" /\ Fault
  /\ \E step \in {"refused", "thrown"} :
       /\ net' = (net \ {r}) \cup {[r EXCEPT !.step = step]}
       /\ \/ UNCHANGED hub
          \/ step = "thrown" /\ Accepts(r) /\ hub' = Written(r)
       /\ r.does = "import" => step = "refused"
       /\ app' = [app EXCEPT !.faults = @ + 1, !.missed = @ + (IF step = "thrown" THEN 1 ELSE 0)]

\* A read is answered with the table of that moment; one that fails, with nothing.
Read(r) ==
  /\ r.step = "read"
  /\ \/ net' = (net \ {r}) \cup {[r EXCEPT !.step = "answered", !.list = hub, !.at = app.missed]} /\ UNCHANGED app
     \/ /\ Fault /\ app' = [app EXCEPT !.faults = @ + 1]
        /\ net' = (net \ {r}) \cup {[r EXCEPT !.step = "unanswered", !.list = NoRows]}
  /\ UNCHANGED hub

\* A colleague's page.
Elsewhere ==
  /\ app.others < MaxOthers
  /\ \E name \in Names, to \in Looks \cup {"gone"} :
       hub[name] \notin {"gone", to} /\ hub' = [hub EXCEPT ![name] = to]
  /\ app' = [app EXCEPT !.others = @ + 1, !.missed = @ + 1] /\ UNCHANGED net

-------------------------------------------------------------------------------
(* The answers.                                                                  *)

\* Variant: a row's own buttons do not load the list again.
ReloadsSaved(r) == r.step = "done" /\ r.does = "save"
\* save() and the accounts' patch() look at the error they are answered with: the
\* others load the list again and say that it is done. What is thrown loads nothing.
Reloads(r) == r.step = "done" \/ (r.step = "refused" /\ r.does # "save" /\ app.page # "users")

Answered(r) ==
  /\ r.step \in {"done", "refused", "thrown"}
  /\ IF Reloads(r)
     THEN /\ net' = (net \ {r}) \cup {[r EXCEPT !.step = "read", !.n = app.asked + 1]}
          /\ app' = [app EXCEPT !.asked = @ + 1,
                                !.dialog = IF r.does \in {"save", "colour"} THEN Unread ELSE @]
     ELSE net' = net \ {r} /\ app' = [app EXCEPT !.busy = {}]
  /\ UNCHANGED hub

\* The list arrives and takes the shown one's place, whichever was asked first.
Landed(r) ==
  /\ r.step \in {"answered", "unanswered"} /\ net' = net \ {r} /\ UNCHANGED hub
  /\ app' = IF r.does = "library"
            THEN [app EXCEPT !.library = r.step = "answered", !.busy = {}]
            ELSE [app EXCEPT !.list = r.list, !.busy = IF r.does = "load" THEN @ ELSE {},
                             !.seen = r.at, !.landed = IF r.n > @ THEN r.n ELSE @,
                             !.good = r.step = "answered" /\ r.n > app.landed]

Next ==
  \/ \E r \in net : Write(r) \/ WriteFails(r) \/ Read(r) \/ Answered(r) \/ Landed(r)
  \/ \E name \in Names :
       \/ OpenDialog(name) \/ RemoveBroker(name) \/ SaveQuickColor(name) \/ PatchUser(name) \/ GrantVip(name)
       \/ Patch(name) \/ RemovePair(name) \/ ImportPair(name)
  \/ CloseDialog \/ Save \/ LoadLibrary \/ Elsewhere

Spec == Init /\ [][Next]_vars

-------------------------------------------------------------------------------
(* When nothing is under way the list is the table and the buttons work, unless  *)
(* the last list to land was not the last asked for, or none, a connection broke *)
(* before the list was read again, or a colleague has written since.             *)
ListIsTheTable == net = {} => Free /\ (app.list = hub \/ ~app.good \/ app.seen < app.missed)
===============================================================================
