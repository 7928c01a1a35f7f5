-------------------------------- MODULE MCAdmin --------------------------------
(* The accounts and the admin's pages, one machine at a time: `which` says which *)
(* one a behaviour is about. The pages' machines share their variables' names.   *)
EXTENDS MCAccounts

CONSTANTS
  Tabs, Texts, Blank, Bad, Absent, Unread, MaxEdits, MaxSaves, MaxFaults,  \* AdminForms
  MaxShown,                                                                \* PromoCampaign
  MaxLoads                                                                 \* TelegramQueue

Messages == {"opening", "result"}
OpeningOf == [result |-> "opening"]
Watchers == {"w1"}

AdminSymmetry == Symmetry \cup Permutations(Tabs)

VARIABLES which, rows, pages, past

Forms == INSTANCE AdminForms
Promo == INSTANCE PromoCampaign WITH Devices <- Watchers, Texts <- Texts \ {Bad}
Queue == INSTANCE TelegramQueue
ASSUME FormsAssumption == Forms!FormsAssumption

Nowhere == rows = <<>> /\ pages = <<>> /\ past = <<>>
NoAccounts == \* the accounts' machine does not run
  /\ users = <<>> /\ globalVip = <<>> /\ maintenance = <<>> /\ now = 0 /\ tab = <<>>
  /\ page = [phase |-> "elsewhere"] /\ excused = {} /\ count = <<>>

AdminInit ==
  \/ which = "accounts" /\ Init /\ Nowhere
  \/ which = "forms" /\ Forms!Init /\ NoAccounts
  \/ which = "promo" /\ Promo!Init /\ NoAccounts
  \/ which = "queue" /\ Queue!Init /\ NoAccounts
AdminNext ==
  /\ UNCHANGED which
  /\ \/ which = "accounts" /\ Next /\ UNCHANGED <<rows, pages, past>>
     \/ which = "forms" /\ Forms!Next /\ UNCHANGED vars
     \/ which = "promo" /\ Promo!Next /\ UNCHANGED vars
     \/ which = "queue" /\ Queue!Next /\ UNCHANGED vars
AdminSpec == AdminInit /\ [][AdminNext]_<<vars, which, rows, pages, past>>

\* The pages' properties, each where it is about something.
RowsSayWhatWasChosen == which = "forms" => Forms!RowsSayWhatWasChosen
ClosedMeansThisOffer == which = "promo" => Promo!ClosedMeansThisOffer
DecisionsStand == [][which = "queue" => Queue!Stands]_<<which, rows>>
================================================================================
