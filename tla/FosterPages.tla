------------------------------ MODULE FosterPages ------------------------------
(***************************************************************************)
(* The farmer's pages of the tab bar: pages/foster/workbench, tasks, pigs  *)
(* and earnings of frontend/src, and the handlers they call.  A page is    *)
(* opened afresh by the tab bar and loads its rows each time it is shown;  *)
(* nothing orders the answers of two loads, or of a load and a check-in,   *)
(* and the dialog of a pig may be closed and opened while one is saved.    *)
(* The farmer is the same throughout (FosterLogin has the changes).        *)
(* Bound: a note is not told apart from another; Posts requests at a time. *)
(* editSaving is the label of a button, which it does not disable.         *)
(***************************************************************************)
EXTENDS Naturals

CONSTANTS Chores, Pigs, Weights, Posts, Nil

ASSUME ChoresAreNotPigs == Chores \cap Pigs = {}
ASSUME WeightsAreNotStatuses ==
  (Weights \cup {Nil}) \cap {"pending", "in_progress", "done", "gone"} = {}

VARIABLES
  table,       \* backend: each task "pending", "in_progress" or "done", each pig's weight
               \* (Nil: not weighed yet); a removed task is "gone"
  tab,         \* the page that is open
  shown, fosterLoading,      \* the rows on the page
  dialog,      \* the page of pigs: editPig, the form's photo (the pig it was taken for), and the
               \* pig for which a photo is being chosen
  posts,       \* requests on their way; `here` while the page that sent them is open
  outdated     \* history: the rows of which the page may show what was: others, or a page that
               \* was left, wrote them after the load shown was read; that load was answered only
               \* after a write of this page that it had not seen; or an answer was lost

fosterVars == <<table, tab, shown, fosterLoading, dialog, posts, outdated>>

Entries(t) == CASE t = "pigs" -> Pigs [] t = "earnings" -> {} [] OTHER -> Chores
Rows(t) == [r \in {e \in Entries(t) : table[e] # "gone"} |-> table[r]]

NoPost == [kind |-> "free"]
FreePost(p) == posts[p] = NoPost /\ \A q \in Posts : posts[q] = NoPost => p <= q
Post(request) == \E p \in Posts : FreePost(p) /\ posts' = [posts EXCEPT ![p] = request]
Is(p, kind) == posts[p].kind = kind
\* A row is written: the loads that were read before did not see it.
Unseen(row, requests) ==
  [q \in Posts |-> IF requests[q].kind = "loaded" THEN [requests[q] EXCEPT !.missed = @ \cup {row}]
                   ELSE requests[q]]
\* A page that was left has no answer.
AnswerTo(p, kind) ==
  [posts EXCEPT ![p] = IF @.here THEN [@ EXCEPT !.kind = kind] ELSE NoPost]
Closed == [editPig |-> Nil, photo |-> Nil, choosing |-> Nil]
Empty == [r \in {} |-> Nil]

(***************************************************************************)
(* The backend.                                                            *)
(***************************************************************************)
\* getDashboard, getTodayTasks, getFarmerPigs, getEarnings.
GetRows(p) ==
  /\ Is(p, "load")
  /\ posts' = [posts EXCEPT ![p] = [kind |-> "loaded", rows |-> Rows(tab), missed |-> {}]]
  /\ UNCHANGED table
\* checkinTask, whatever the task's hours are.
CheckinTask(p) ==
  /\ Is(p, "checkin") /\ table[posts[p].row] # "gone"
  /\ table' = [table EXCEPT ![posts[p].row] = "done"]
  /\ posts' = Unseen(posts[p].row, AnswerTo(p, "checked"))
\* farmerUpdatePig: a weight needs its photo.
FarmerUpdatePig(p) ==
  /\ Is(p, "save")
  /\ posts[p].weight # Nil => posts[p].photo # Nil
  /\ table' = IF posts[p].weight = Nil THEN table
              ELSE [table EXCEPT ![posts[p].row] = posts[p].weight]
  /\ posts' = Unseen(posts[p].row, AnswerTo(p, "saved"))
AtBackend(p) ==
  /\ GetRows(p) \/ CheckinTask(p) \/ FarmerUpdatePig(p)
  /\ outdated' = IF Is(p, "load") \/ posts[p].here THEN outdated ELSE outdated \cup {posts[p].row}
  /\ UNCHANGED <<tab, shown, fosterLoading, dialog>>

\* A task's hour comes, it is removed, or a pig is weighed by others.  (The other pages' rows
\* may change when these are opened, before they are loaded.)
RowsChange ==
  /\ \E r \in Entries(tab) :
       /\ \E to \in IF r \in Pigs THEN Weights
                   ELSE IF table[r] = "pending" THEN {"in_progress", "gone"} ELSE {"gone"} :
            table' = [table EXCEPT ![r] = to]
       /\ outdated' = outdated \cup {r} /\ posts' = Unseen(r, posts)
  /\ UNCHANGED <<tab, shown, fosterLoading, dialog>>

(***************************************************************************)
(* The pages.                                                              *)
(***************************************************************************)
LoadRows == [kind |-> "load"]

\* go of the tab bar, and the links of the workbench: what the page had loaded, or asked for,
\* is no more; its writes go on.
GoTab(t) ==
  /\ t # tab /\ dialog.choosing = Nil /\ dialog.editPig = Nil
  /\ tab' = t /\ shown' = Empty /\ fosterLoading' = TRUE /\ dialog' = Closed
  /\ LET left == [p \in Posts |-> IF posts[p].kind \in {"checkin", "save"}
                                  THEN [posts[p] EXCEPT !.here = FALSE] ELSE NoPost]
     IN  \E p \in Posts : left[p] = NoPost /\ posts' = [left EXCEPT ![p] = LoadRows]
  /\ outdated' = {}
  /\ UNCHANGED table
\* The page is shown again: the program comes to the foreground.
LoadTab ==
  /\ fosterLoading' = TRUE /\ Post(LoadRows)
  /\ UNCHANGED <<table, tab, shown, dialog, outdated>>

Answers(p) == posts' = [posts EXCEPT ![p] = NoPost]
RowsAnswered(p) ==
  /\ Is(p, "loaded") /\ Answers(p)
  /\ shown' = posts[p].rows /\ fosterLoading' = FALSE
  /\ outdated' = posts[p].missed
  /\ UNCHANGED <<table, tab, dialog>>
\* A request is refused, or lost before or after its handler: a toast.
PostFails(p) ==
  /\ posts[p] # NoPost /\ Answers(p)
  /\ fosterLoading' = (fosterLoading /\ posts[p].kind \notin {"load", "loaded"})
  /\ outdated' = outdated \cup CASE posts[p].kind \in {"load", "loaded"} -> Entries(tab)
                                 [] posts[p].kind \in {"checked", "saved"} -> {posts[p].row}
                                 [] OTHER -> {}
  /\ UNCHANGED <<table, tab, shown, dialog>>

\* checkin: its button is enabled while the row is in progress.
Checkin(t) ==
  /\ tab = "tasks" /\ ~fosterLoading /\ t \in DOMAIN shown /\ shown[t] = "in_progress"
  /\ Post([kind |-> "checkin", row |-> t, here |-> TRUE])
  /\ UNCHANGED <<table, tab, shown, fosterLoading, dialog, outdated>>
CheckinAnsweredUnshown(p) ==                                   \* mutant
  /\ Is(p, "checked") /\ Answers(p)
  /\ UNCHANGED <<table, tab, shown, fosterLoading, dialog, outdated>>
CheckinAnswered(p) ==
  /\ Is(p, "checked") /\ Answers(p)
  /\ shown' = IF posts[p].row \in DOMAIN shown
              THEN [shown EXCEPT ![posts[p].row] = "done"] ELSE shown
  /\ UNCHANGED <<table, tab, fosterLoading, dialog, outdated>>

InDialog == dialog.editPig # Nil /\ dialog.choosing = Nil
           /\ UNCHANGED <<table, tab, shown, fosterLoading, outdated>>
OpenEdit(pig) ==
  /\ tab = "pigs" /\ ~fosterLoading /\ pig \in DOMAIN shown
  /\ dialog.editPig = Nil /\ dialog.choosing = Nil
  /\ dialog' = [Closed EXCEPT !.editPig = pig]
  /\ UNCHANGED <<table, tab, shown, fosterLoading, posts, outdated>>
CloseEdit ==
  /\ InDialog
  /\ dialog' = [dialog EXCEPT !.editPig = Nil]
  /\ UNCHANGED posts
\* The photo is removed, or the camera opened.
EditPhoto ==
  /\ InDialog
  /\ \/ dialog' = [dialog EXCEPT !.photo = Nil]
     \/ dialog.photo = Nil /\ dialog' = [dialog EXCEPT !.choosing = dialog.editPig]
  /\ UNCHANGED posts
\* chooseWeightImage answers, whether or not the dialog is still there.
Chosen ==
  /\ dialog.choosing # Nil
  /\ \/ dialog' = [dialog EXCEPT !.photo = dialog.choosing, !.choosing = Nil]
     \/ dialog' = [dialog EXCEPT !.choosing = Nil]
  /\ UNCHANGED <<table, tab, shown, fosterLoading, posts, outdated>>
\* doSave: of the weight in the form with its photo, or of the note alone.
DoSave ==
  /\ InDialog
  /\ \E weight \in Weights \cup {Nil} :
       /\ weight # Nil => dialog.photo # Nil
       /\ Post([kind |-> "save", row |-> dialog.editPig, weight |-> weight,
                photo |-> IF weight = Nil THEN Nil ELSE dialog.photo, here |-> TRUE])
  /\ UNCHANGED dialog
SaveAnswered(p) ==
  /\ Is(p, "saved")
  /\ dialog' = [dialog EXCEPT !.editPig = Nil]
  /\ fosterLoading' = TRUE /\ posts' = [posts EXCEPT ![p] = LoadRows]
  /\ UNCHANGED <<table, tab, shown, outdated>>

FosterPagesInit ==
  /\ table \in [Chores \cup Pigs -> {"pending", "in_progress", "done", "gone", Nil}]
  /\ \A t \in Chores : table[t] \in {"pending", "in_progress"}
  /\ \A g \in Pigs : table[g] = Nil
  /\ tab = "workbench" /\ shown = Empty /\ fosterLoading = TRUE /\ dialog = Closed
  /\ posts = [p \in Posts |-> IF \A q \in Posts : p <= q THEN LoadRows ELSE NoPost]
  /\ outdated = {}

PostGoesOn(p) ==
  \/ AtBackend(p) \/ RowsAnswered(p) \/ PostFails(p) \/ CheckinAnswered(p) \/ SaveAnswered(p)

FosterPagesNext ==
  \/ \E p \in Posts : PostGoesOn(p)
  \/ \E t \in {"workbench", "tasks", "pigs", "earnings"} : GoTab(t)
  \/ \E t \in Chores : Checkin(t)
  \/ \E pig \in Pigs : OpenEdit(pig)
  \/ LoadTab \/ CloseEdit \/ EditPhoto \/ Chosen \/ DoSave \/ RowsChange

FosterPagesSpec == FosterPagesInit /\ [][FosterPagesNext]_fosterVars

(***************************************************************************)
(* Properties.                                                             *)
(***************************************************************************)

\* The page shows rows of its own kind.
FosterPagesTypeOK ==
  /\ DOMAIN shown \subseteq Entries(tab)
  /\ \A r \in DOMAIN shown : shown[r] \in {"pending", "in_progress", "done", Nil} \cup Weights
  /\ dialog.editPig # Nil => tab = "pigs"

\* Once no check-in or weight is on its way, the page shows each row as the table has it, or
\* does not show it when it is gone.  A load is asked for before the answer of a check-in or
\* after it, and two loads may cross: a row is excused only when the load that came last was
\* read before the row was written (tasks, load and checkin: nothing orders them), when
\* others wrote it since, or when a failure was shown.
ShownCurrent ==
  ~fosterLoading /\ (\A p \in Posts : posts[p].kind \in {"free", "load", "loaded"})
    => \A r \in Entries(tab) \ outdated :
         /\ r \in DOMAIN shown <=> table[r] # "gone"
         /\ r \in DOMAIN shown => shown[r] = table[r]

\* A weight is saved with a photo, and it is one that was chosen for the same pig.
PhotoOfPig == \A p \in Posts : Is(p, "save") /\ posts[p].weight # Nil => posts[p].photo = posts[p].row

\* What a farmer's pages show is what is stored, and what they save belongs to the row it is
\* saved for (tasks, pigs and dashboard under pages/foster).
FosterPagesInv == FosterPagesTypeOK /\ ShownCurrent /\ PhotoOfPig

=============================================================================
