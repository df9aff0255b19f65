---------------------------- MODULE FarmerBinding ----------------------------
(***************************************************************************)
(* Who a WeChat account is among the farmers:                              *)
(* backend/src/modules/foster/foster.service.ts and its controller.        *)
(*                                                                         *)
(* Binding, registration and the administrator's edits load an entity,     *)
(* check it and save it, with no transaction around the two.  save reads   *)
(* the row again and UPDATEs the columns that differ, so an edit of the    *)
(* name writes back the openid it had loaded; it INSERTs the entity when   *)
(* the row is gone.  The column openid is unique.                          *)
(***************************************************************************)
EXTENDS FiniteSets

CONSTANTS
  Farmers,        \* ids of farmers
  Openids,        \* WeChat accounts
  Handlers,       \* handlers that may run at the same time
  Unbound, Gone,  \* openid is NULL; there is no row
  None            \* "no farmer", "no account"

ASSUME BindingAssumption ==
  /\ {Unbound, Gone, None} \cap (Farmers \cup Openids) = {}
  /\ Unbound # Gone /\ Unbound # None /\ Gone # None

VARIABLES
  openid,   \* the farmer table: the openid column of each row
  used,     \* history: ids given to farmers so far
  token,    \* history: <<account, farmer>>, who was answered a token of whom
  job,      \* per handler: what it does, for which account, and what it holds
  crossed   \* history: farmers written while another handler was about to write
            \* something else

vars == <<openid, used, token, job, crossed>>

Bound == Openids \cup {Unbound}

\* A handler that loaded an entity ("loaded"), knows the column to write ("write",
\* None if it is right already), has an entity to insert or a row to remove.
Job(l, f, u, e) == [pc |-> l, farmer |-> f, account |-> u, entity |-> e]
Idle == Job("idle", None, None, None)

Init ==
  /\ openid = [f \in Farmers |-> Gone]
  /\ used = {}
  /\ token = {}
  /\ job = [r \in Handlers |-> Idle]
  /\ crossed = {}

Exists(f) == openid[f] # Gone
At(r, l) == job[r].pc = l
End(r) == job' = [job EXCEPT ![r] = Idle]
Begin(r, j) == job[r] = Idle /\ job' = [job EXCEPT ![r] = j]

\* The unique index on openid refuses e for farmer f.
TakenNever(f, e) == FALSE                                      \* mutant
Taken(f, e) == e \in Openids /\ \E g \in Farmers \ {f} : openid[g] = e

\* Handler r sets the row of f to e; another one may be about to set it differently.
Set(r, f, e) ==
  /\ openid' = [openid EXCEPT ![f] = e]
  /\ crossed' = IF \E q \in Handlers \ {r} :
                     job[q].farmer = f /\ ~At(q, "remove") /\ job[q].entity \notin {None, e}
                  THEN crossed \cup {f} ELSE crossed

\* generateFosterToken, in the answer of a handler that has an account.
Answer(r) == token' = token \cup ({job[r].account} \ {None}) \X {job[r].farmer}

(***************************************************************************)
(* wxLoginByCode; an account without a farmer is offered the unbound ones, *)
(* or a registration.                                                      *)
(***************************************************************************)
Login(u) ==
  /\ \E f \in Farmers : openid[f] = u /\ token' = token \cup {<<u, f>>}
  /\ UNCHANGED <<openid, used, job, crossed>>

(***************************************************************************)
(* bindFarmerOpenid and adminUpdateFarmer: load, check, save.              *)
(***************************************************************************)
Bind(r, u, f) ==
  /\ openid[f] \in {Unbound, u}
  /\ Begin(r, Job("loaded", f, u, u))
  /\ UNCHANGED <<openid, used, token, crossed>>

AdminUpdate(r, f) ==
  /\ Exists(f)
  /\ Begin(r, Job("loaded", f, None, openid[f]))
  /\ UNCHANGED <<openid, used, token, crossed>>

SaveCompare(r) ==
  LET f == job[r].farmer
      e == job[r].entity IN
  /\ At(r, "loaded")
  /\ job' = [job EXCEPT ![r] = Job(IF Exists(f) THEN "write" ELSE "insert", f, @.account,
                                   IF openid[f] = e THEN None ELSE e)]
  /\ UNCHANGED <<openid, used, token, crossed>>

\* An UPDATE of a row that went away changes nothing, and is answered all the same.
SaveWrite(r) ==
  LET f == job[r].farmer
      e == job[r].entity IN
  /\ At(r, "write") /\ ~Taken(f, e)
  /\ IF e # None /\ Exists(f) THEN Set(r, f, e) ELSE UNCHANGED <<openid, crossed>>
  /\ Answer(r)
  /\ End(r)
  /\ UNCHANGED used

SaveInsert(r) ==
  LET f == job[r].farmer
      e == job[r].entity IN
  /\ At(r, "insert") /\ ~Exists(f) /\ ~Taken(f, e)
  /\ Set(r, f, e)
  /\ Answer(r)
  /\ End(r)
  /\ UNCHANGED used

(***************************************************************************)
(* registerNewFarmer of an account that has no farmer (one that has is     *)
(* answered like a login), and adminCreateFarmer.                          *)
(***************************************************************************)
Register(r, u, f) ==
  /\ \A g \in Farmers : openid[g] # u
  /\ f \notin used
  /\ Begin(r, Job("insert", f, u, u))
  /\ used' = used \cup {f}
  /\ UNCHANGED <<openid, token, crossed>>

AdminCreate(f) ==
  /\ f \notin used
  /\ openid' = [openid EXCEPT ![f] = Unbound]
  /\ used' = used \cup {f}
  /\ UNCHANGED <<token, job, crossed>>

(***************************************************************************)
(* adminDeleteFarmer, whatever tokens the farmer has.                      *)
(***************************************************************************)
RemoveLoad(r, f) ==
  /\ Exists(f)
  /\ Begin(r, Job("remove", f, None, None))
  /\ UNCHANGED <<openid, used, token, crossed>>

RemoveRow(r) ==
  /\ At(r, "remove")
  /\ Set(r, job[r].farmer, Gone)
  /\ End(r)
  /\ UNCHANGED <<used, token>>

\* A statement fails, on an index or otherwise, or the process exits.
Fail(r) ==
  /\ ~At(r, "idle")
  /\ End(r)
  /\ UNCHANGED <<openid, used, token, crossed>>

Next ==
  \/ \E u \in Openids : Login(u)
  \/ \E f \in Farmers : AdminCreate(f)
  \/ \E r \in Handlers :
       \/ \E f \in Farmers :
            \/ \E u \in Openids : Bind(r, u, f) \/ Register(r, u, f)
            \/ AdminUpdate(r, f) \/ RemoveLoad(r, f)
       \/ SaveCompare(r) \/ SaveWrite(r) \/ SaveInsert(r) \/ RemoveRow(r)
       \/ Fail(r)

Spec == Init /\ [][Next]_vars

(***************************************************************************)
(* Properties.                                                             *)
(***************************************************************************)
Jobs == [pc : {"idle", "loaded", "write", "insert", "remove"}, farmer : Farmers \cup {None},
         account : Openids \cup {None}, entity : Bound \cup {None}]

\* What a handler holds: a farmer whose id was given out; the entity to save has the
\* account it is saved for.
JobOK(j) ==
  \/ j = Idle
  \/ j.pc = "remove" /\ j.farmer \in used /\ j.account = None /\ j.entity = None
  \/ /\ j.pc \in {"loaded", "write", "insert"}
     /\ j.farmer \in used
     /\ j.entity = None => j.pc = "write"
     /\ j.account # None => j.entity \in {j.account, None}

\* Columns and jobs hold values of their types, and every row, token and job is about a
\* farmer whose id was given out.
TypeOK ==
  /\ openid \in [Farmers -> Bound \cup {Gone}]
  /\ used \subseteq Farmers
  /\ \A f \in Farmers : Exists(f) => f \in used
  /\ token \subseteq Openids \X used
  /\ job \in [Handlers -> Jobs] /\ \A r \in Handlers : JobOK(job[r])
  /\ crossed \subseteq Farmers

\* foster.service.ts:165, an account bound by another WeChat account is refused: who was
\* answered a farmer's token is still that farmer's account as long as there is a row,
\* unless two writes of the row crossed.
TokenTruthful ==
  \A u \in Openids, f \in Farmers :
    <<u, f>> \in token => f \in crossed \/ openid[f] \in {u, Gone}

\* farmer.entity.ts:34, "the openid identifies the farmer": of the farmers that are there
\* and were not written by two handlers at a time, no account was ever answered as two,
\* and none was answered to two accounts, however binding, registration, login, edits and
\* deletions interleave.
TokensIdentify ==
  \A u, v \in Openids, f, g \in {h \in Farmers \ crossed : Exists(h)} :
    <<u, f>> \in token /\ <<v, g>> \in token => (u = v <=> f = g)
=============================================================================
