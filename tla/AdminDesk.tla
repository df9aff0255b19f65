------------------------------ MODULE AdminDesk ------------------------------
(***************************************************************************)
(* The administrator's pages of farmers and of tasks: farmers.vue and      *)
(* tasks.vue of frontend/src/pages/foster/admin, opened from index.vue.    *)
(* The list of farmers is loaded when a page is mounted and after each     *)
(* change, nothing on the form is disabled while it is being saved, and    *)
(* tasks are generated behind a dialog and a flag (FarmerTasks has what    *)
(* comes of two generations at a time).                                    *)
(* Bounds: a farmer's fields are "old" (blank, for a new one) or           *)
(* "entered"; Turns requests at a time; the farmers that a form has made   *)
(* are counted up to two; storage has a farmer's id, for which onMounted   *)
(* asks.                                                                   *)
(***************************************************************************)
EXTENDS AdminForms, FiniteSets

CONSTANTS Staff, Turns, NoOne

ASSUME DeskAssumption == NoOne \notin Staff \cup {"new"}

VARIABLES
  cadre,       \* backend: the fields of each farmer, or NoOne
  desk,        \* the page that is open: "menu", "farmers" or "tasks"
  listed, deskLoading,       \* farmers and loading, or loadingFarmers
  entry,       \* editId ("new" when isEdit is false; NoOne: no form) and the fields; history:
               \* it was saved, and that is not answered yet, or not well
  choice,      \* selectedFarmerId, the farmer that the dialog names, and submitting
  turns,       \* requests on their way; `here` while the page that sent them is open
  hired, twice,   \* history: farmers that the form has made; whether it was saved again before,
                  \* or without, an answer; `form` in a save: of the form that was opened last
  amiss        \* history: since the page was mounted a request failed, two lists were asked for
               \* at a time, or the table changed, but not by this page

deskPage == <<listed, deskLoading>>
deskVars == <<cadre, desk, deskPage, entry, choice, turns, hired, twice, amiss>>

NoTurn == [kind |-> "free"]
OnWay == {k \in Turns : turns[k] # NoTurn}
AskedHere(kinds) == {k \in OnWay : turns[k].here /\ turns[k].kind \in kinds}
Asking(t) == \E k \in Turns \ OnWay : /\ \A j \in Turns \ OnWay : k <= j
                                      /\ turns' = [turns EXCEPT ![k] = t]
Kinds == {"load", "loaded", "save", "saved", "drop", "dropped", "generate", "generated"}
Employed == {f \in Staff : cadre[f] # NoOne}

(***************************************************************************)
(* The backend.                                                            *)
(***************************************************************************)
\* registerNewFarmer, from a farmer's own program.
Joins(f) ==
  /\ f \notin Employed
  /\ cadre' = [cadre EXCEPT ![f] = "old"] /\ amiss' = (desk # "menu")
  /\ UNCHANGED <<desk, deskPage, entry, choice, turns, hired, twice>>

\* An answer to a page that was left changes nothing that anybody sees.
Reply(k, a) ==
  turns' = [turns EXCEPT ![k] = IF turns[k].here THEN a ELSE NoTurn]
\* adminGetFarmers.
GetStaff(k) ==
  /\ turns[k].kind = "load"
  /\ Reply(k, [kind |-> "loaded", here |-> TRUE, staff |-> [f \in Employed |-> cadre[f]]])
  /\ UNCHANGED <<cadre, hired>>
\* adminCreateFarmer, adminUpdateFarmer.
SaveFarmer(k) ==
  /\ turns[k].kind = "save" /\ Reply(k, [kind |-> "saved", here |-> TRUE])
  /\ \E f \in Staff :
       /\ IF turns[k].who = "new" THEN f \notin Employed ELSE f = turns[k].who /\ f \in Employed
       /\ cadre' = [cadre EXCEPT ![f] = turns[k].fields]
  /\ hired' = IF turns[k].who = "new" /\ turns[k].here /\ turns[k].form /\ hired < 2
              THEN hired + 1 ELSE hired
\* adminDeleteFarmer.
DropFarmer(k) ==
  /\ turns[k].kind = "drop" /\ turns[k].who \in Employed
  /\ Reply(k, [kind |-> "dropped", here |-> TRUE])
  /\ cadre' = [cadre EXCEPT ![turns[k].who] = NoOne] /\ UNCHANGED hired
\* adminCreateTodayTasks, which does not look for the farmer.
CreateTasks(k) ==
  /\ turns[k].kind = "generate" /\ Reply(k, [kind |-> "generated", here |-> TRUE])
  /\ UNCHANGED <<cadre, hired>>
ServesDesk(k) ==
  /\ GetStaff(k) \/ SaveFarmer(k) \/ DropFarmer(k) \/ CreateTasks(k)
  /\ amiss' = (amiss \/ (desk # "menu" /\ cadre' # cadre /\ ~turns[k].here))
  /\ UNCHANGED <<desk, deskPage, entry, choice, twice>>

(***************************************************************************)
(* The pages.                                                              *)
(***************************************************************************)
Filled(w, f) == [who |-> w, fields |-> f, sent |-> FALSE]
NoStaff == [f \in {} |-> NoOne]
NoEntry == Filled(NoOne, "old")
NoChoice == [who |-> NoOne, named |-> NoOne, submitting |-> FALSE]
Loading == [kind |-> "load", here |-> TRUE]
Left == [k \in Turns |-> IF k \in AskedHere({"save", "drop"}) THEN [turns[k] EXCEPT !.here = FALSE]
                         ELSE IF k \in AskedHere(Kinds) THEN NoTurn ELSE turns[k]]

\* go of the menu, and onMounted.
Go(d) ==
  /\ desk = "menu" /\ desk' = d /\ Asking(Loading)
  /\ UNCHANGED <<cadre, deskPage, entry, choice, hired, twice, amiss>>
\* A page that is left is gone, but for its requests.
BackToMenu ==
  /\ desk # "menu" /\ choice.named = NoOne
  /\ desk' = "menu" /\ turns' = Left
  /\ listed' = NoStaff /\ deskLoading' = TRUE /\ entry' = NoEntry /\ choice' = NoChoice
  /\ hired' = 0 /\ twice' = FALSE /\ amiss' = FALSE
  /\ UNCHANGED cadre

StaffAnswered(k) ==
  /\ turns[k].kind = "loaded" /\ turns' = [turns EXCEPT ![k] = NoTurn]
  /\ listed' = turns[k].staff /\ deskLoading' = FALSE
  /\ UNCHANGED <<cadre, desk, entry, choice, hired, twice, amiss>>
DeskAnswered(k) ==
  /\ turns[k].kind \in {"saved", "dropped"}
  /\ turns' = [turns EXCEPT ![k] = Loading] /\ deskLoading' = TRUE
  /\ amiss' = (amiss \/ AskedHere({"load", "loaded"}) # {})
  /\ entry' = IF turns[k].kind = "saved" THEN NoEntry ELSE entry
  /\ UNCHANGED <<cadre, desk, listed, choice, hired, twice>>
Generated(k) ==
  /\ turns[k].kind = "generated" /\ turns' = [turns EXCEPT ![k] = NoTurn]
  /\ choice' = [choice EXCEPT !.submitting = FALSE]
  /\ UNCHANGED <<cadre, desk, deskPage, entry, hired, twice, amiss>>
\* A toast; the request may have been handled, and the form stays.
TurnFails(k) ==
  /\ k \in OnWay /\ turns' = [turns EXCEPT ![k] = NoTurn]
  /\ deskLoading' = (deskLoading /\ k \notin AskedHere({"load", "loaded"}))
  /\ choice' = IF k \in AskedHere({"generate", "generated"})
               THEN [choice EXCEPT !.submitting = FALSE] ELSE choice
  /\ amiss' = (amiss \/ turns[k].here)
  /\ UNCHANGED <<cadre, desk, listed, entry, hired, twice>>

OnDesk(d) == desk = d /\ UNCHANGED <<cadre, desk, deskPage, amiss>>
OpenEntry(w) ==
  /\ OnDesk("farmers") /\ entry.who = NoOne
  /\ w = "new" \/ w \in DOMAIN listed
  /\ entry' = Filled(w, IF w = "new" THEN "old" ELSE listed[w])
  /\ hired' = 0 /\ twice' = FALSE
  /\ turns' = [k \in Turns |-> IF turns[k].kind = "save" THEN [turns[k] EXCEPT !.form = FALSE]
                                                         ELSE turns[k]]
  /\ UNCHANGED choice
TypeFields ==
  /\ OnDesk("farmers") /\ entry.who # NoOne
  /\ entry' = [entry EXCEPT !.fields = "entered"] /\ UNCHANGED <<choice, turns, hired, twice>>
CancelEntry ==
  /\ OnDesk("farmers") /\ entry.who # NoOne
  /\ entry' = NoEntry /\ UNCHANGED <<choice, turns, hired, twice>>
SaveEntry ==
  /\ OnDesk("farmers") /\ entry.who # NoOne
  /\ entry.who = "new" => entry.fields = "entered"
  /\ Asking([kind |-> "save", here |-> TRUE, who |-> entry.who, fields |-> entry.fields, form |-> TRUE])
  /\ entry' = [entry EXCEPT !.sent = (entry.who = "new")] /\ twice' = (twice \/ entry.sent)
  /\ UNCHANGED <<choice, hired>>
\* doDelete, once its dialog is confirmed.
DeleteFarmer(f) ==
  /\ OnDesk("farmers") /\ entry.who = NoOne /\ f \in DOMAIN listed
  /\ Asking([kind |-> "drop", here |-> TRUE, who |-> f])
  /\ UNCHANGED <<entry, choice, hired, twice>>

\* A farmer is tapped; the dialog lies over the list.
SelectFarmer(f) ==
  /\ OnDesk("tasks") /\ ~deskLoading /\ f \in DOMAIN listed /\ choice.named = NoOne
  /\ choice' = [choice EXCEPT !.who = f] /\ UNCHANGED <<entry, turns, hired, twice>>
AskGenerate ==
  /\ OnDesk("tasks") /\ choice.who # NoOne /\ choice.named = NoOne /\ ~choice.submitting
  /\ choice' = [choice EXCEPT !.named = choice.who] /\ UNCHANGED <<entry, turns, hired, twice>>
AnswerDialog ==
  /\ OnDesk("tasks") /\ choice.named # NoOne /\ UNCHANGED <<entry, hired, twice>>
  /\ \/ choice' = [choice EXCEPT !.named = NoOne] /\ UNCHANGED turns
     \/ /\ choice' = [choice EXCEPT !.named = NoOne, !.submitting = TRUE]
        /\ Asking([kind |-> "generate", here |-> TRUE, who |-> choice.who])

DeskInit ==
  /\ cadre \in [Staff -> {"old", NoOne}] /\ desk = "menu"
  /\ listed = NoStaff /\ deskLoading = TRUE /\ entry = NoEntry /\ choice = NoChoice
  /\ turns = [k \in Turns |-> NoTurn]
  /\ hired = 0 /\ twice = FALSE /\ amiss = FALSE

TurnGoesOn(k) ==
  ServesDesk(k) \/ StaffAnswered(k) \/ DeskAnswered(k) \/ Generated(k) \/ TurnFails(k)

DeskNext ==
  \/ \E k \in Turns : TurnGoesOn(k)
  \/ \E f \in Staff : Joins(f) \/ DeleteFarmer(f) \/ SelectFarmer(f)
  \/ \E d \in {"farmers", "tasks"} : Go(d)
  \/ \E w \in Staff \cup {"new"} : OpenEntry(w)
  \/ BackToMenu \/ TypeFields \/ CancelEntry \/ SaveEntry \/ AskGenerate \/ AnswerDialog

DeskSpec == DeskInit /\ [][DeskNext]_deskVars

(***************************************************************************)
(* Properties.                                                             *)
(***************************************************************************)

\* The page names farmers that there may be, and what it asks for is of its own kind.
DeskTypeOK ==
  /\ DOMAIN listed \subseteq Staff
  /\ entry.who # NoOne => entry.who \in Staff \cup {"new"}
  /\ desk = "farmers" => AskedHere({"generate", "generated"}) = {}

\* When nothing is on its way the page of farmers lists those there are, unless a request
\* failed, lists crossed, or the table was changed elsewhere since it was mounted.
StaffCurrent ==
  desk = "farmers" /\ AskedHere(Kinds) = {} /\ ~amiss
    => listed = [f \in Employed |-> cadre[f]]

\* The form for a new farmer makes one, unless it is saved again before, or without, an answer.
HiredOnce == ~twice => hired <= 1

\* A page of tasks generates for one farmer at a time, the one that the dialog named: what
\* FarmerTasks asks of those who do not race.
GeneratesOnce ==
  /\ choice.named \in {NoOne, choice.who}
  /\ Cardinality(AskedHere({"generate", "generated"})) <= (IF choice.submitting THEN 1 ELSE 0)

\* The administrator's pages save what they show, and nothing that they were not opened for
\* (foster/admin/pigs, farmers, tasks).
AdminInv ==
  /\ AdminTypeOK /\ PickedIsShown /\ WeightKept
  /\ DeskTypeOK /\ StaffCurrent /\ HiredOnce /\ GeneratesOnce

=============================================================================
