------------------------------ MODULE AdminForms ------------------------------
(***************************************************************************)
(* The administrator's page of pigs: pages/foster/admin/pigs.vue of        *)
(* frontend/src, and its handlers in foster.service.ts.  A form is filled  *)
(* from the list that is on the page and saved whole, while the farmers    *)
(* weigh their pigs; the farmer of a pig is picked by its place in a list  *)
(* that a load may replace under the form.                                 *)
(* Bound: of the fields of a pig, its farmer and its weight, which the     *)
(* administrator leaves as the form has it; Calls requests at a time.      *)
(***************************************************************************)
EXTENDS Naturals, Sequences

CONSTANTS PigIds, Crew, MaxWeight, Calls, Without
  \* Crew: the number of farmers

ASSUME AdminAssumption == Crew \in Nat /\ MaxWeight \in Nat

VARIABLES
  stock,       \* backend: the farmer and the weight of each pig, or Without
  crew,        \* backend: the farmers
  measured,    \* history: the weight last measured of each pig
  overwritten, \* history: pigs saved from a form that was opened with a weight other than the
               \* table then had, or with 0
  pigs, farmers, adminLoading,     \* the lists on the page
  form,        \* showForm, editId ("new" when isEdit is false), farmerIndex (0: none), farmerId
               \* and weightKg; history: the weight in the list that it was opened from
  reloaded,    \* history: the list of farmers was replaced since the form shows its farmer
  calls        \* requests on their way

adminPage == <<pigs, farmers, adminLoading>>
adminVars == <<stock, crew, measured, overwritten, adminPage, form, reloaded, calls>>

NoCall == [kind |-> "free"]
Calling(c) == \E k \in Calls : /\ calls[k] = NoCall /\ \A j \in Calls : calls[j] = NoCall => k <= j
                               /\ calls' = [calls EXCEPT ![k] = c]
CallEnds(k) == calls' = [calls EXCEPT ![k] = NoCall]
Existent == {p \in PigIds : stock[p] # Without}

(***************************************************************************)
(* The backend.                                                            *)
(***************************************************************************)
\* The farmer of a pig weighs it (FosterPages); farmers are registered and removed.
Weigh(p) ==
  /\ p \in Existent
  /\ \E w \in 1..MaxWeight : /\ stock' = [stock EXCEPT ![p].weight = w]
                             /\ measured' = [measured EXCEPT ![p] = w]
  /\ overwritten' = overwritten \ {p}
  /\ UNCHANGED <<crew, adminPage, form, reloaded, calls>>
CrewChanges ==
  /\ \E i \in DOMAIN crew : crew' = SubSeq(crew, 1, i - 1) \o SubSeq(crew, i + 1, Len(crew))
  /\ UNCHANGED <<stock, measured, overwritten, adminPage, form, reloaded, calls>>

\* adminGetPigs and adminGetFarmers, asked at once; nothing relates their answers.
AdminGetLists(k) ==
  /\ calls[k].kind = "load"
  /\ calls' = [calls EXCEPT ![k] = [kind |-> "loaded", farmers |-> crew,
                                   pigs |-> [p \in Existent |-> stock[p]]]]
\* adminUpdatePig and adminCreatePig; the farmer need not exist.
Writes(p, c) ==
  /\ stock' = [stock EXCEPT ![p] = [farmer |-> c.farmer, weight |-> c.weight]]
  /\ overwritten' = IF stock[p] = Without THEN overwritten \ {p}
                    ELSE IF c.listed = 0 \/ c.listed # stock[p].weight THEN overwritten \cup {p}
                    ELSE overwritten
  /\ measured' = IF stock[p] = Without THEN [measured EXCEPT ![p] = c.weight] ELSE measured
AdminSave(k) ==
  /\ calls[k].kind = "save"
  /\ \E p \in PigIds : /\ IF calls[k].pig = "new" THEN stock[p] = Without
                         ELSE p = calls[k].pig /\ p \in Existent
                       /\ Writes(p, calls[k])
  /\ calls' = [calls EXCEPT ![k].kind = "saved"]
\* adminDeletePig; or the status of a pig is set (PigCatalog has what comes of that).
AdminPatch(k) ==
  /\ calls[k].kind \in {"toggle", "delete"} /\ calls[k].pig \in Existent
  /\ stock' = IF calls[k].kind = "delete" THEN [stock EXCEPT ![calls[k].pig] = Without] ELSE stock
  /\ calls' = [calls EXCEPT ![k].kind = "patched"]
  /\ UNCHANGED <<measured, overwritten>>
ServesAdmin(k) ==
  /\ \/ AdminGetLists(k) /\ UNCHANGED <<stock, measured, overwritten>>
     \/ AdminSave(k) \/ AdminPatch(k)
  /\ UNCHANGED <<crew, adminPage, form, reloaded>>

(***************************************************************************)
(* The page.                                                               *)
(***************************************************************************)
LoadLists == [kind |-> "load"]
\* load: both lists, or neither.
ListsAnswered(k) ==
  /\ calls[k].kind = "loaded" /\ CallEnds(k)
  /\ pigs' = calls[k].pigs /\ farmers' = calls[k].farmers /\ adminLoading' = FALSE
  /\ reloaded' = (reloaded \/ farmers' # farmers)
  /\ UNCHANGED <<stock, crew, measured, overwritten, form>>
\* A failure is a toast; the form of a save that fails stays.
CallFails(k) ==
  /\ calls[k] # NoCall /\ CallEnds(k)
  /\ adminLoading' = (adminLoading /\ calls[k].kind \notin {"load", "loaded"})
  /\ UNCHANGED <<stock, crew, measured, overwritten, pigs, farmers, form, reloaded>>

IndexOf(f) == IF \E i \in DOMAIN farmers : farmers[i] = f
              THEN CHOOSE i \in DOMAIN farmers : farmers[i] = f ELSE 0
ShutForm == [open |-> FALSE, pig |-> Without, index |-> 0, farmer |-> Without, weight |-> 0,
             listed |-> 0]
ShowsForm(f) == form' = f /\ reloaded' = FALSE
OnPage == UNCHANGED <<stock, crew, measured, overwritten, adminPage>>

OpenAdd ==
  /\ OnPage /\ ~form.open
  /\ ShowsForm([ShutForm EXCEPT !.open = TRUE, !.pig = "new"]) /\ UNCHANGED calls
OpenFormBlank(p) ==                                            \* mutant
  /\ OnPage /\ ~form.open /\ p \in DOMAIN pigs
  /\ ShowsForm([open |-> TRUE, pig |-> p, index |-> IndexOf(pigs[p].farmer),
            farmer |-> pigs[p].farmer, weight |-> 0, listed |-> pigs[p].weight])
  /\ UNCHANGED calls
OpenForm(p) ==
  /\ OnPage /\ ~form.open /\ p \in DOMAIN pigs
  /\ ShowsForm([open |-> TRUE, pig |-> p, index |-> IndexOf(pigs[p].farmer),
            farmer |-> pigs[p].farmer, weight |-> pigs[p].weight, listed |-> pigs[p].weight])
  /\ UNCHANGED calls
OnPickFarmer(i) ==
  /\ OnPage /\ form.open /\ i \in DOMAIN farmers
  /\ ShowsForm([form EXCEPT !.index = i, !.farmer = farmers[i]]) /\ UNCHANGED calls
CancelForm ==
  /\ OnPage /\ form.open
  /\ ShowsForm(ShutForm) /\ UNCHANGED calls
\* doSave: Number(form.weightKg) || 30, so that a weight of 0 becomes one of 30.
DefaultWeight == MaxWeight + 1
DoSaveForm ==
  /\ OnPage /\ form.open /\ form.farmer # Without
  /\ Calling([kind |-> "save", pig |-> form.pig, farmer |-> form.farmer, listed |-> form.listed,
              weight |-> IF form.weight = 0 THEN DefaultWeight ELSE form.weight])
  /\ UNCHANGED <<form, reloaded>>
ToggleOrDelete(p) ==
  /\ OnPage /\ ~form.open /\ p \in DOMAIN pigs
  /\ \E kind \in {"toggle", "delete"} : Calling([kind |-> kind, pig |-> p])
  /\ UNCHANGED <<form, reloaded>>
\* A save that is answered closes the form, be it another by now; each write is followed by load.
WriteAnswered(k) ==
  /\ calls[k].kind \in {"saved", "patched"}
  /\ form' = IF calls[k].kind = "saved" THEN ShutForm ELSE form
  /\ reloaded' = (reloaded /\ form'.open)
  /\ calls' = [calls EXCEPT ![k] = LoadLists] /\ adminLoading' = TRUE
  /\ UNCHANGED <<stock, crew, measured, overwritten, pigs, farmers>>

AdminInit ==
  /\ stock \in [PigIds -> {Without} \cup [farmer : 1..Crew, weight : {0}]]
  /\ crew = [i \in 1..Crew |-> i]
  /\ measured = [p \in PigIds |-> 0] /\ overwritten = {}
  /\ pigs = [p \in {} |-> Without] /\ farmers = <<>> /\ adminLoading = TRUE
  /\ form = ShutForm /\ reloaded = FALSE
  /\ calls = [k \in Calls |-> IF \A j \in Calls : k <= j THEN LoadLists ELSE NoCall]

CallGoesOn(k) == ServesAdmin(k) \/ ListsAnswered(k) \/ CallFails(k) \/ WriteAnswered(k)

AdminNext ==
  \/ \E k \in Calls : CallGoesOn(k)
  \/ \E p \in PigIds : OpenForm(p) \/ ToggleOrDelete(p) \/ Weigh(p)
  \/ \E i \in DOMAIN farmers : OnPickFarmer(i)
  \/ OpenAdd \/ CancelForm \/ DoSaveForm \/ CrewChanges

AdminSpec == AdminInit /\ [][AdminNext]_adminVars

(***************************************************************************)
(* Properties.                                                             *)
(***************************************************************************)

\* The form and the requests name pigs and farmers that there were.
AdminTypeOK ==
  /\ DOMAIN pigs \subseteq PigIds
  /\ form.open => form.index \in 0..Crew /\ form.pig \in PigIds \cup {"new"}
  /\ \A p \in Existent : stock[p].farmer \in 1..Crew

\* The farmer whose name the form shows is the one it saves, unless the list of farmers was
\* replaced since it was opened, or picked.
PickedIsShown ==
  form.open /\ ~reloaded /\ form.index # 0 => farmers[form.index] = form.farmer

\* The form has no field of its own for what the farmers do, and still a pig keeps the weight
\* last measured, unless a form was saved that had an older weight, or 0.
WeightKept ==
  \A p \in Existent : stock[p].weight # measured[p] => p \in overwritten

=============================================================================
