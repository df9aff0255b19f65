----------------------------- MODULE FarmerTasks -----------------------------
(***************************************************************************)
(* The feeding tasks of the farmers, written by an administrator and       *)
(* checked in by the farmer: backend/src/modules/foster/foster.service.ts. *)
(*                                                                         *)
(* Generating a day's tasks deletes those that are there and inserts new   *)
(* ones, as two statements.  Checking in loads a task and saves it, which  *)
(* INSERTs it when it was deleted meanwhile.  Tasks are written for the    *)
(* local day and read for the UTC day (toISOString): China's days begin    *)
(* eight hours before those of UTC.  Tasks name farmers and look at no     *)
(* farmer's row, nor the other way round.                                  *)
(***************************************************************************)
EXTENDS FarmerBinding, Integers

CONSTANTS
  Tasks,     \* ids of tasks
  Meals,
  MaxTime    \* bound: the clock stops

ASSUME TaskAssumption ==
  /\ MaxTime \in Nat \ {0}
  /\ None \notin Tasks \cup (Farmers \X Nat) \cup [list : Farmers \X Nat, meal : Meals]

VARIABLES
  now,       \* the clock: an even step is 0:00 to 8:00 in China, an odd one the rest of
             \* the day
  rows,      \* the farmer_task table: ids of the rows that are there
  slot,      \* of each id handed out: its list (farmer and day) and its meal
  checked,   \* rows with checked_at
  answered,  \* history: tasks whose check-in was answered
  erased,    \* history: tasks that a generation deleted
  work,      \* per handler: what it does, on which list and task, since when
  raced      \* history: lists on which a generation met another handler

taskTable == <<rows, slot, checked>>
taskHistory == <<answered, erased, raced>>
taskVars == <<now, taskTable, taskHistory, work>>

LocalDay(t) == t \div 2
UtcDayWest(t) == (t + 1) \div 2                                \* mutant
UtcDay(t) == (t - 1) \div 2

Lists == Farmers \X Nat
Today(f) == <<f, LocalDay(now)>>
OnList(L) == {t \in rows : slot[t].list = L}
\* getTodayTasks and getDashboard.
Shown(f) == OnList(<<f, UtcDay(now)>>)

Work(l, L, t, s) == [pc |-> l, list |-> L, task |-> t, since |-> s]
Resting == Work("idle", None, None, 0)

TaskInit ==
  /\ now = 1
  /\ rows = {}
  /\ slot = [t \in Tasks |-> None]
  /\ checked = {}
  /\ answered = {}
  /\ erased = {}
  /\ work = [r \in Handlers |-> Resting]
  /\ raced = {}

Doing(r, l) == work[r].pc = l
Finish(r) == work' = [work EXCEPT ![r] = Resting]
TakeUp(r, j) == Doing(r, "idle") /\ work' = [work EXCEPT ![r] = j]

\* A handler is through long before the clock moves twice.
Tick ==
  /\ now < MaxTime
  /\ \A r \in Handlers : Doing(r, "idle") \/ work[r].since = now
  /\ now' = now + 1
  /\ UNCHANGED <<taskTable, taskHistory, work>>

(***************************************************************************)
(* adminCreateTodayTasks: DELETE by farmer and day, then one INSERT of a   *)
(* task per meal.  The day is the one it began on.                         *)
(***************************************************************************)
EraseNone(L) ==                                                \* mutant
  UNCHANGED <<rows, checked, erased>>
Erase(L) ==
  /\ rows' = rows \ OnList(L)
  /\ checked' = checked \ OnList(L)
  /\ erased' = erased \cup OnList(L)

GenerateDelete(r, f) ==
  /\ TakeUp(r, Work("generate", Today(f), None, now))
  /\ Erase(Today(f))
  /\ raced' = IF \E q \in Handlers : work[q].list = Today(f)
                THEN raced \cup {Today(f)} ELSE raced
  /\ UNCHANGED <<now, slot, answered>>

GenerateInsert(r) ==
  /\ Doing(r, "generate")
  /\ \E new \in [Meals -> {t \in Tasks : slot[t] = None}] :
       /\ \A m, n \in Meals : new[m] = new[n] => m = n
       /\ rows' = rows \cup {new[m] : m \in Meals}
       /\ slot' = [t \in Tasks |->
                     IF \E m \in Meals : t = new[m]
                       THEN [list |-> work[r].list, meal |-> CHOOSE m \in Meals : t = new[m]]
                       ELSE slot[t]]
  /\ Finish(r)
  /\ UNCHANGED <<now, checked, taskHistory>>

(***************************************************************************)
(* checkinTask, which finds the task by its id, whatever day it is of.     *)
(***************************************************************************)
CheckinLoad(r, t) ==
  /\ t \in rows /\ t \notin checked
  /\ TakeUp(r, Work("loaded", slot[t].list, t, now))
  /\ UNCHANGED <<now, taskTable, taskHistory>>

\* A task that is done is answered as it is.
CheckinAgain(t) ==
  /\ t \in rows /\ t \in checked
  /\ answered' = answered \cup {t}
  /\ UNCHANGED <<now, taskTable, erased, raced, work>>

\* save reads the row again.
CheckinCompare(r) ==
  /\ Doing(r, "loaded")
  /\ work' = [work EXCEPT ![r].pc = IF work[r].task \in rows THEN "update" ELSE "insert"]
  /\ UNCHANGED <<now, taskTable, taskHistory>>

\* An UPDATE of a row that went away changes nothing, and is answered all the same.
CheckinUpdateUnstored(r) ==                                    \* mutant
  /\ Doing(r, "update")
  /\ answered' = answered \cup {work[r].task}
  /\ Finish(r)
  /\ UNCHANGED <<now, taskTable, erased, raced>>
CheckinUpdate(r) ==
  /\ Doing(r, "update")
  /\ checked' = checked \cup ({work[r].task} \cap rows)
  /\ answered' = answered \cup {work[r].task}
  /\ Finish(r)
  /\ UNCHANGED <<now, rows, slot, erased, raced>>

CheckinInsert(r) ==
  /\ Doing(r, "insert") /\ work[r].task \notin rows
  /\ rows' = rows \cup {work[r].task}
  /\ checked' = checked \cup {work[r].task}
  /\ answered' = answered \cup {work[r].task}
  /\ Finish(r)
  /\ UNCHANGED <<now, slot, erased, raced>>

\* A statement fails or the process exits: what was deleted stays deleted.
TaskFail(r) ==
  /\ ~Doing(r, "idle")
  /\ Finish(r)
  /\ UNCHANGED <<now, taskTable, taskHistory>>

\* A handler at work goes on, and fails if it cannot.
GoOn(r) ==
  GenerateInsert(r) \/ CheckinCompare(r) \/ CheckinUpdate(r) \/ CheckinInsert(r) \/ TaskFail(r)

TaskNext ==
  \/ Tick
  \/ \E t \in Tasks : CheckinAgain(t)
  \/ \E r \in Handlers :
       \/ \E f \in Farmers : GenerateDelete(r, f)
       \/ \E t \in Tasks : CheckinLoad(r, t)
       \/ GoOn(r)

\* Time passes, and a statement returns or fails.
TaskFairness == WF_taskVars(Tick) /\ \A r \in Handlers : WF_taskVars(GoOn(r))

TaskSpec == TaskInit /\ [][TaskNext]_taskVars /\ TaskFairness

(***************************************************************************)
(* Properties.                                                             *)
(***************************************************************************)

\* Rows, ids and jobs hold values of their types; what is stored was handed out.
TaskTypeOK ==
  /\ now \in 1..MaxTime
  /\ slot \in [Tasks -> [list : Lists, meal : Meals] \cup {None}]
  /\ rows \cup answered \cup erased \subseteq {t \in Tasks : slot[t] # None}
  /\ checked \subseteq rows
  /\ work \in [Handlers -> {Resting} \cup
                [pc : {"generate"}, list : Lists, task : {None}, since : Nat] \cup
                [pc : {"loaded", "update", "insert"}, list : Lists, task : Tasks, since : Nat]]
  /\ \A r \in Handlers : work[r].task # None =>
       slot[work[r].task] # None /\ slot[work[r].task].list = work[r].list
  /\ raced \subseteq Lists

\* A farmer has each meal of a day once on his list, however often the day is generated
\* again and whatever failed, unless a generation met another one, or a check-in, of the
\* same list.
OneTaskPerMeal ==
  \A s, t \in rows :
    slot[s] = slot[t] /\ slot[s].list \notin raced => s = t

\* A check-in that was answered is stored, unless the administrator generated the day's
\* tasks again.
CheckinStored ==
  \A t \in answered : t \in checked \/ t \in erased

\* A task of a day that is not over and that stays on its list is shown to the farmer
\* sooner or later, although it is written for the local day and read for the UTC day.
TasksReachFarmer ==
  \A t \in Tasks :
    (t \in rows /\ slot[t].list[2] >= LocalDay(now) /\ now < MaxTime)
      ~> (t \notin rows \/ t \in Shown(slot[t].list[1]))
=============================================================================
