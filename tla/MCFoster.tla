------------------------------ MODULE MCFoster ------------------------------
(***************************************************************************)
(* Instances of FarmerBinding, FarmerTasks, FosterLogin and FosterPages    *)
(* for TLC.  Each has the writes of the others that it depends on as       *)
(* steps from elsewhere, so a behaviour is one of a single part.           *)
(***************************************************************************)
EXTENDS FarmerTasks, FosterLogin, FosterPages

CONSTANTS f1, f2, f3, u1, u2, t1, t2, t3, m1, r1, r2

VARIABLE part

allVars == <<part, vars, taskVars, loginVars, fosterVars>>
OfBinding == part = "binding" /\ UNCHANGED <<part, taskVars, loginVars, fosterVars>>
OfTasks == part = "tasks" /\ UNCHANGED <<part, vars, loginVars, fosterVars>>
OfLogin == part = "login" /\ UNCHANGED <<part, vars, taskVars, fosterVars>>
OfTabs == part = "tabs" /\ UNCHANGED <<part, vars, taskVars, loginVars>>

\* The parts that do not run stand at one initial state.
FosterInit ==
  /\ part \in {"binding", "tasks", "login", "tabs"}
  /\ Init /\ TaskInit /\ LoginInit /\ FosterPagesInit
  /\ part # "login" => world = [h5 |-> FALSE, secret |-> FALSE] /\ Existing = {}
  /\ part # "tabs" => \A t \in Chores : table[t] = "pending"

FosterNext ==
  \/ OfBinding /\ Next
  \/ OfTasks /\ TaskNext
  \/ OfLogin /\ LoginNext
  \/ OfTabs /\ FosterPagesNext

\* The steps that fairness is for.
TicksHere == OfTasks /\ Tick
GoesOnHere(r) == OfTasks /\ GoOn(r)

FosterSpec ==
  /\ FosterInit /\ [][FosterNext]_allVars
  /\ WF_allVars(TicksHere)
  /\ \A r \in Handlers : WF_allVars(GoesOnHere(r))
=============================================================================
