---------------------------- MODULE FosterProofs ----------------------------
(***************************************************************************)
(* Proofs about FarmerBinding, FarmerTasks, FosterLogin and FosterPages, for *)
(* every set of farmers, accounts, tasks, meals, pigs, handlers and        *)
(* requests.                                                               *)
(*                                                                         *)
(* What was answered says nothing about what the handlers at work are      *)
(* about to write, so TokenTruthful is not inductive.  PendingFits speaks  *)
(* of the entities they hold: for a farmer that was never written under    *)
(* another handler's hands, an entity to save agrees with the row, and an  *)
(* entity to insert is the only job about its farmer.  Likewise            *)
(* OneTaskPerMeal needs GenerationAlone: a list that is being generated,   *)
(* and on which no other handler was met, is empty.                        *)
(***************************************************************************)
EXTENDS FarmerTasks, FosterLogin, FosterPages, TLAPS

(***************************************************************************)
(* FarmerBinding.                                                          *)
(***************************************************************************)

\* The unique index: no account is in two rows.
AccountUnique ==
  \A f, g \in Farmers : openid[f] \in Openids /\ openid[f] = openid[g] => f = g

\* The job of r fits the row of its farmer, who was not crossed.
Fits(r) ==
  LET f == job[r].farmer
      e == job[r].entity IN
  /\ job[r].pc = "loaded" => openid[f] \in {Unbound, e}
  /\ job[r].pc = "write" /\ e # None => openid[f] \in {Unbound, e}
  /\ job[r].pc = "write" /\ e = None /\ job[r].account # None =>
       openid[f] \in {job[r].account, Gone}
  /\ job[r].pc = "insert" =>
       /\ openid[f] = Gone
       /\ \A q \in Handlers \ {r} : job[q].farmer # f
       /\ \A u \in Openids : <<u, f>> \notin token

PendingFits ==
  \A r \in Handlers : job[r].farmer \notin crossed => Fits(r)

BindingInv == TypeOK /\ AccountUnique /\ PendingFits /\ TokenTruthful

\* No row, no token and no handler to begin with.
LEMMA BindingInitInv == Init => BindingInv
  BY BindingAssumption
  DEF Init, BindingInv, TypeOK, AccountUnique, PendingFits, Fits, TokenTruthful, Idle, Job,
      Jobs, JobOK, Bound, Exists

\* Logging in answers the account that is in the row.
LEMMA LoginKeeps ==
  ASSUME BindingInv, NEW u \in Openids, Login(u)
  PROVE  BindingInv'
<1> USE BindingAssumption
<1>1. PICK f \in Farmers : openid[f] = u /\ token' = token \cup {<<u, f>>}
  BY DEF Login
<1>2. UNCHANGED <<openid, used, job, crossed>>
  BY DEF Login
<1>3. TypeOK'
  BY <1>1, <1>2 DEF BindingInv, TypeOK, Exists, JobOK, Idle, Job, Bound
<1>4. AccountUnique'
  BY <1>2 DEF BindingInv, AccountUnique
<1>5. PendingFits'
  BY <1>1, <1>2 DEF BindingInv, TypeOK, PendingFits, Fits, Jobs, Bound
<1>6. TokenTruthful'
  BY <1>1, <1>2 DEF BindingInv, TokenTruthful
<1> QED BY <1>3, <1>4, <1>5, <1>6 DEF BindingInv

\* A handler that begins with the column as it loaded it, with the account of an
\* unbound or its own farmer, or about to remove a row, fits.
LEMMA BeginInv ==
  ASSUME BindingInv, NEW r \in Handlers, NEW f \in Farmers, NEW l, NEW u, NEW e,
         Exists(f), Begin(r, Job(l, f, u, e)), UNCHANGED <<openid, used, token, crossed>>,
         \/ /\ l = "loaded" /\ e \in Bound /\ openid[f] \in {Unbound, e}
            /\ u \in {None, e} \cap (Openids \cup {None})
         \/ l = "remove" /\ u = None /\ e = None
  PROVE  BindingInv'
<1> USE BindingAssumption
<1>1. job' = [job EXCEPT ![r] = [pc |-> l, farmer |-> f, account |-> u, entity |-> e]]
  BY DEF Begin, Job
<1>2. f \in used
  BY DEF BindingInv, TypeOK
<1>3. job' \in [Handlers -> Jobs] /\ \A q \in Handlers : JobOK(job[q])'
  BY <1>1, <1>2 DEF BindingInv, TypeOK, Jobs, JobOK, Idle, Job, Bound
<1>4. TypeOK'
  BY <1>3 DEF BindingInv, TypeOK, Exists, Bound
<1>5. AccountUnique'
  BY DEF BindingInv, AccountUnique
<1>6. PendingFits'
  BY <1>1 DEF BindingInv, TypeOK, PendingFits, Fits, Exists
<1>7. TokenTruthful'
  BY DEF BindingInv, TokenTruthful
<1> QED BY <1>4, <1>5, <1>6, <1>7 DEF BindingInv

\* A farmer to register has a fresh id: no row, no token and no other handler.
LEMMA RegisterInv ==
  ASSUME BindingInv, NEW r \in Handlers, NEW u \in Openids, NEW f \in Farmers,
         Register(r, u, f)
  PROVE  BindingInv'
<1> USE BindingAssumption
<1>1. /\ job' = [job EXCEPT ![r] = [pc |-> "insert", farmer |-> f, account |-> u, entity |-> u]]
      /\ used' = used \cup {f} /\ f \notin used
      /\ UNCHANGED <<openid, token, crossed>>
  BY DEF Register, Begin, Job
<1>2. job' \in [Handlers -> Jobs] /\ \A q \in Handlers : JobOK(job[q])'
  BY <1>1 DEF BindingInv, TypeOK, Jobs, JobOK, Idle, Job, Bound
<1>3. TypeOK'
  BY <1>1, <1>2 DEF BindingInv, TypeOK, Exists, Bound
<1>4. AccountUnique'
  BY <1>1 DEF BindingInv, AccountUnique
<1>5. openid[f] = Gone /\ (\A v \in Openids : <<v, f>> \notin token)
      /\ \A q \in Handlers : job[q].farmer # f
  BY <1>1 DEF BindingInv, TypeOK, Exists, JobOK, Idle, Job
<1>6. PendingFits'
  BY <1>1, <1>5 DEF BindingInv, TypeOK, PendingFits, Fits
<1>7. TokenTruthful'
  BY <1>1 DEF BindingInv, TokenTruthful
<1> QED BY <1>3, <1>4, <1>6, <1>7 DEF BindingInv

\* Nobody holds or was answered the farmer that an administrator creates.
LEMMA AdminCreateInv ==
  ASSUME BindingInv, NEW f \in Farmers, AdminCreate(f)
  PROVE  BindingInv'
<1> USE BindingAssumption
<1>1. /\ openid' = [openid EXCEPT ![f] = Unbound]
      /\ used' = used \cup {f} /\ f \notin used
      /\ UNCHANGED <<token, job, crossed>>
  BY DEF AdminCreate
<1>2. TypeOK'
  BY <1>1 DEF BindingInv, TypeOK, Exists, JobOK, Idle, Job, Bound
<1>3. AccountUnique'
  BY <1>1 DEF BindingInv, TypeOK, AccountUnique, Bound
<1>4. (\A v \in Openids : <<v, f>> \notin token) /\ \A q \in Handlers : job[q].farmer # f
  BY <1>1 DEF BindingInv, TypeOK, JobOK, Idle, Job
<1>5. PendingFits'
  <2> SUFFICES ASSUME NEW r \in Handlers, job[r].farmer \notin crossed
               PROVE  Fits(r)'
    BY <1>1 DEF PendingFits
  <2>1. Fits(r) /\ job[r].farmer # f
    BY <1>4 DEF BindingInv, PendingFits
  <2>2. CASE job[r].farmer \in Farmers
    BY <2>1, <2>2, <1>1 DEF BindingInv, TypeOK, Fits
  <2>3. CASE job[r].farmer = None
    BY <2>3, <1>1 DEF BindingInv, TypeOK, Fits, JobOK, Idle, Job
  <2> QED BY <2>2, <2>3 DEF BindingInv, TypeOK, Jobs
<1>6. TokenTruthful'
  BY <1>1, <1>4 DEF BindingInv, TypeOK, TokenTruthful
<1> QED BY <1>2, <1>3, <1>5, <1>6 DEF BindingInv

\* save finds a row that agrees with the entity, unless writes crossed.
LEMMA SaveCompareInv ==
  ASSUME BindingInv, NEW r \in Handlers, SaveCompare(r)
  PROVE  BindingInv'
<1> USE BindingAssumption
<1> DEFINE f == job[r].farmer
           e == job[r].entity
<1>1. /\ job[r].pc = "loaded" /\ f \in used /\ e \in Bound
      /\ job[r].account \in Openids => e = job[r].account
      /\ job[r].account \in Openids \cup {None}
  BY DEF SaveCompare, At, BindingInv, TypeOK, JobOK, Jobs, Idle, Job
<1>2. job' = [job EXCEPT ![r] = [pc |-> IF Exists(f) THEN "write" ELSE "insert",
                                 farmer |-> f, account |-> job[r].account,
                                 entity |-> IF openid[f] = e THEN None ELSE e]]
      /\ UNCHANGED <<openid, used, token, crossed>>
  BY DEF SaveCompare, Job
<1>3. ~Exists(f) => openid[f] # e
  BY <1>1 DEF Exists, Bound
<1>4. job' \in [Handlers -> Jobs] /\ \A q \in Handlers : JobOK(job[q])'
  BY <1>1, <1>2, <1>3 DEF BindingInv, TypeOK, Jobs, JobOK, Idle, Job
<1>5. TypeOK'
  BY <1>2, <1>4 DEF BindingInv, TypeOK, Exists, Bound
<1>6. AccountUnique' /\ TokenTruthful'
  BY <1>2 DEF BindingInv, AccountUnique, TokenTruthful
<1>7. f \notin crossed => Exists(f) /\ openid[f] \in {Unbound, e}
  BY <1>1 DEF BindingInv, PendingFits, Fits, Exists, Bound
<1>8. PendingFits'
  <2> SUFFICES ASSUME NEW q \in Handlers, job'[q].farmer \notin crossed
               PROVE  Fits(q)'
    BY <1>2 DEF PendingFits
  <2>1. CASE q = r
    BY <2>1, <1>1, <1>2, <1>7 DEF BindingInv, TypeOK, Fits, Bound
  <2>2. CASE q # r
    <3>1. Fits(q) /\ job'[q] = job[q]
      BY <2>2, <1>2 DEF BindingInv, TypeOK, PendingFits
    <3>2. \A p \in Handlers : job'[p].farmer = job[p].farmer
      BY <1>2 DEF BindingInv, TypeOK
    <3> QED BY <3>1, <3>2, <1>2 DEF Fits
  <2> QED BY <2>1, <2>2
<1> QED BY <1>5, <1>6, <1>8 DEF BindingInv

\* What is answered for an entity that was saved, or was right already, is the
\* account in the row.
LEMMA SaveWriteInv ==
  ASSUME BindingInv, NEW r \in Handlers, SaveWrite(r)
  PROVE  BindingInv'
<1> USE BindingAssumption
<1> DEFINE f == job[r].farmer
           e == job[r].entity
           u == job[r].account
           writes == e # None /\ Exists(f)
<1>1. /\ job[r].pc = "write" /\ f \in used /\ f \in Farmers /\ e \in Bound \cup {None}
      /\ u \in Openids \cup {None} /\ (u # None => e \in {u, None})
  BY DEF SaveWrite, At, BindingInv, TypeOK, JobOK, Jobs, Idle, Job
<1>2. /\ ~Taken(f, e)
      /\ job' = [job EXCEPT ![r] = Idle]
      /\ used' = used
      /\ token' = token \cup ({u} \ {None}) \X {f}
      /\ ~writes => UNCHANGED <<openid, crossed>>
      /\ writes => openid' = [openid EXCEPT ![f] = e]
      /\ writes => crossed' = IF \E q \in Handlers \ {r} :
                                   job[q].farmer = f /\ job[q].pc # "remove"
                                     /\ job[q].entity \notin {None, e}
                                THEN crossed \cup {f} ELSE crossed
  BY DEF SaveWrite, End, Answer, Set, At
<1>3. crossed \subseteq crossed' /\ crossed' \subseteq Farmers
  BY <1>1, <1>2 DEF BindingInv, TypeOK
<1>4. job' \in [Handlers -> Jobs] /\ \A q \in Handlers : JobOK(job[q])'
  BY <1>2 DEF BindingInv, TypeOK, Jobs, JobOK, Idle, Job
<1>5. openid' \in [Farmers -> Bound \cup {Gone}] /\ \A g \in Farmers : Exists(g)' => g \in used'
  BY <1>1, <1>2 DEF BindingInv, TypeOK, Exists, Bound
<1>6. TypeOK'
  BY <1>1, <1>2, <1>3, <1>4, <1>5 DEF BindingInv, TypeOK, Bound
<1>7. AccountUnique'
  BY <1>1, <1>2 DEF BindingInv, TypeOK, AccountUnique, Taken, Bound
<1>8. \A q \in Handlers : job[q].farmer \notin crossed' => Fits(q)
  BY <1>3 DEF BindingInv, PendingFits
<1>9. \A q \in Handlers \ {r} : job[q].farmer = f /\ f \notin crossed' =>
        job[q].pc # "insert" /\ (writes => job[q].pc = "remove" \/ job[q].entity \in {None, e})
  BY <1>2, <1>8 DEF Fits
<1>10. f \notin crossed' => (e # None => openid[f] \in {Unbound, e})
                            /\ (e = None /\ u # None => openid[f] \in {u, Gone})
  BY <1>1, <1>8 DEF Fits
<1>11. PendingFits'
  <2> SUFFICES ASSUME NEW q \in Handlers, job'[q].farmer \notin crossed'
               PROVE  Fits(q)'
    BY DEF PendingFits
  <2>1. CASE q = r
    BY <2>1, <1>2 DEF BindingInv, TypeOK, Fits, Idle, Job
  <2>2. CASE q # r /\ job[q].farmer # f
    <3>1. Fits(q) /\ job'[q] = job[q]
      BY <2>2, <1>2, <1>8 DEF BindingInv, TypeOK
    <3>2. \A p \in Handlers : job'[p] = job[p] \/ job'[p] = Idle
      BY <1>2 DEF BindingInv, TypeOK
    <3>3. job[q].pc # "idle" => job[q].farmer \in Farmers \ {None}
      BY DEF BindingInv, TypeOK, JobOK, Idle, Job
    <3> QED BY <2>2, <3>1, <3>2, <3>3, <1>1, <1>2 DEF Fits, Idle, Job, BindingInv, TypeOK, Jobs
  <2>3. CASE q # r /\ job[q].farmer = f
    <3>1. Fits(q) /\ job'[q] = job[q] /\ f \notin crossed'
      BY <2>3, <1>2, <1>8 DEF BindingInv, TypeOK
    <3>2. /\ job[q].account \in Openids \cup {None}
          /\ job[q].account # None => job[q].entity \in {job[q].account, None}
      BY <2>3, <1>1 DEF BindingInv, TypeOK, JobOK, Jobs, Idle, Job
    <3>3. CASE writes
      <4>1. openid'[f] = e /\ openid[f] # Gone /\ openid[f] \in {Unbound, e}
        BY <3>1, <3>3, <1>1, <1>2, <1>10 DEF BindingInv, TypeOK, Exists
      <4>2. job[q].pc # "insert" /\ (job[q].pc = "remove" \/ job[q].entity \in {None, e})
        BY <2>3, <3>1, <3>3, <1>9
      <4>3. job[q].pc = "loaded" => job[q].entity # None
        BY <2>3, <1>1 DEF BindingInv, TypeOK, JobOK, Idle, Job
      <4>4. job[q].account # None /\ openid[f] = job[q].account => e = job[q].account
        BY <3>2, <4>1
      <4> QED BY <2>3, <3>1, <4>1, <4>2, <4>3, <4>4 DEF Fits
    <3>4. CASE ~writes
      BY <2>3, <3>1, <3>4, <1>2, <1>9 DEF Fits
    <3> QED BY <3>3, <3>4
  <2> QED BY <2>1, <2>2, <2>3
<1>12. TokenTruthful'
  <2> SUFFICES ASSUME NEW v \in Openids, NEW g \in Farmers, <<v, g>> \in token', g \notin crossed'
               PROVE  openid'[g] \in {v, Gone}
    BY DEF TokenTruthful
  <2>1. CASE <<v, g>> \in token
    <3>1. openid[g] \in {v, Gone}
      BY <2>1, <1>3 DEF BindingInv, TokenTruthful
    <3> QED BY <3>1, <1>1, <1>2, <1>10 DEF BindingInv, TypeOK, Exists
  <2>2. CASE v = u /\ g = f
    BY <2>2, <1>1, <1>2, <1>10 DEF BindingInv, TypeOK, Exists, Bound
  <2> QED BY <2>1, <2>2, <1>2
<1> QED BY <1>6, <1>7, <1>11, <1>12 DEF BindingInv

\* A farmer who is inserted had no token and no other handler, or writes crossed.
LEMMA SaveInsertInv ==
  ASSUME BindingInv, NEW r \in Handlers, SaveInsert(r)
  PROVE  BindingInv'
<1> USE BindingAssumption
<1> DEFINE f == job[r].farmer
           e == job[r].entity
           u == job[r].account
<1>1. /\ job[r].pc = "insert" /\ f \in used /\ f \in Farmers /\ e \in Bound
      /\ u \in Openids \cup {None} /\ (u # None => e = u)
  BY DEF SaveInsert, At, BindingInv, TypeOK, JobOK, Jobs, Idle, Job
<1>2. /\ ~Taken(f, e) /\ openid[f] = Gone
      /\ job' = [job EXCEPT ![r] = Idle]
      /\ used' = used
      /\ token' = token \cup ({u} \ {None}) \X {f}
      /\ openid' = [openid EXCEPT ![f] = e]
      /\ crossed \subseteq crossed' /\ crossed' \subseteq crossed \cup {f}
  BY DEF SaveInsert, End, Answer, Set, Exists
<1>3. job' \in [Handlers -> Jobs] /\ \A q \in Handlers : JobOK(job[q])'
  BY <1>2 DEF BindingInv, TypeOK, Jobs, JobOK, Idle, Job
<1>4. openid' \in [Farmers -> Bound \cup {Gone}] /\ \A g \in Farmers : Exists(g)' => g \in used'
  BY <1>1, <1>2 DEF BindingInv, TypeOK, Exists, Bound
<1>5. TypeOK'
  BY <1>1, <1>2, <1>3, <1>4 DEF BindingInv, TypeOK, Bound
<1>6. AccountUnique'
  BY <1>1, <1>2 DEF BindingInv, TypeOK, AccountUnique, Taken, Bound
<1>7. f \notin crossed' => /\ \A q \in Handlers \ {r} : job[q].farmer # f
                          /\ \A v \in Openids : <<v, f>> \notin token
  BY <1>1, <1>2 DEF BindingInv, PendingFits, Fits
<1>8. PendingFits'
  <2> SUFFICES ASSUME NEW q \in Handlers, job'[q].farmer \notin crossed'
               PROVE  Fits(q)'
    BY DEF PendingFits
  <2>1. CASE q = r
    BY <2>1, <1>2 DEF BindingInv, TypeOK, Fits, Idle, Job
  <2>2. CASE q # r
    <3>1. job'[q] = job[q] /\ Fits(q) /\ job[q].farmer # f
      BY <2>2, <1>2, <1>7 DEF BindingInv, TypeOK, PendingFits
    <3>2. \A p \in Handlers : job'[p] = job[p] \/ job'[p] = Idle
      BY <1>2 DEF BindingInv, TypeOK
    <3>3. job[q].pc # "idle" => job[q].farmer \in Farmers \ {None}
      BY DEF BindingInv, TypeOK, JobOK, Idle, Job
    <3> QED BY <3>1, <3>2, <3>3, <1>1, <1>2 DEF Fits, Idle, Job, BindingInv, TypeOK, Jobs
  <2> QED BY <2>1, <2>2
<1>9. TokenTruthful'
  BY <1>1, <1>2, <1>7 DEF BindingInv, TypeOK, TokenTruthful, Bound
<1> QED BY <1>5, <1>6, <1>8, <1>9 DEF BindingInv

\* A row goes away: whoever holds the farmer to save it is crossed.
LEMMA RemoveRowInv ==
  ASSUME BindingInv, NEW r \in Handlers, RemoveRow(r)
  PROVE  BindingInv'
<1> USE BindingAssumption
<1> DEFINE f == job[r].farmer
<1>1. job[r].pc = "remove" /\ f \in Farmers
  BY DEF RemoveRow, At, BindingInv, TypeOK, JobOK, Jobs, Idle, Job
<1>2. /\ job' = [job EXCEPT ![r] = Idle]
      /\ UNCHANGED <<used, token>>
      /\ openid' = [openid EXCEPT ![f] = Gone]
      /\ crossed' = IF \E q \in Handlers \ {r} :
                         job[q].farmer = f /\ job[q].pc # "remove"
                           /\ job[q].entity \notin {None, Gone}
                      THEN crossed \cup {f} ELSE crossed
  BY DEF RemoveRow, End, Set, At
<1>3. job' \in [Handlers -> Jobs] /\ \A q \in Handlers : JobOK(job[q])'
  BY <1>2 DEF BindingInv, TypeOK, Jobs, JobOK, Idle, Job
<1>4. TypeOK'
  BY <1>1, <1>2, <1>3 DEF BindingInv, TypeOK, Exists
<1>5. AccountUnique'
  BY <1>1, <1>2 DEF BindingInv, TypeOK, AccountUnique
<1>6. PendingFits'
  <2> SUFFICES ASSUME NEW q \in Handlers, job'[q].farmer \notin crossed'
               PROVE  Fits(q)'
    BY DEF PendingFits
  <2>1. CASE q = r
    BY <2>1, <1>2 DEF BindingInv, TypeOK, Fits, Idle, Job
  <2>2. CASE q # r
    <3>1. job'[q] = job[q] /\ Fits(q)
      BY <2>2, <1>2 DEF BindingInv, TypeOK, PendingFits
    <3>2. \A p \in Handlers : job'[p] = job[p] \/ job'[p] = Idle
      BY <1>2 DEF BindingInv, TypeOK
    <3>3. job[q].pc # "idle" => job[q].farmer \in Farmers \ {None}
      BY DEF BindingInv, TypeOK, JobOK, Idle, Job
    <3>4. job[q].farmer = f => job[q].pc \in {"idle", "remove"} \/ job[q].entity = None
      BY <2>2, <3>1, <1>2 DEF BindingInv, TypeOK, Jobs, Bound
    <3>5. job[q].pc \in {"loaded", "insert"} => job[q].entity # None
      BY DEF BindingInv, TypeOK, JobOK, Idle, Job
    <3> QED BY <3>1, <3>2, <3>3, <3>4, <3>5, <1>1, <1>2 DEF Fits, Idle, Job, BindingInv, TypeOK,
               Jobs
  <2> QED BY <2>1, <2>2
<1>7. TokenTruthful'
  BY <1>1, <1>2 DEF BindingInv, TypeOK, TokenTruthful
<1> QED BY <1>4, <1>5, <1>6, <1>7 DEF BindingInv

\* A handler that gives up leaves the rows and the tokens as they are.
LEMMA FailInv ==
  ASSUME BindingInv, NEW r \in Handlers, Fail(r)
  PROVE  BindingInv'
<1> USE BindingAssumption
<1>1. job' = [job EXCEPT ![r] = Idle] /\ UNCHANGED <<openid, used, token, crossed>>
  BY DEF Fail, End
<1>2. job' \in [Handlers -> Jobs] /\ \A q \in Handlers : JobOK(job[q])'
  BY <1>1 DEF BindingInv, TypeOK, Jobs, JobOK, Idle, Job
<1>3. TypeOK' /\ AccountUnique' /\ TokenTruthful'
  BY <1>1, <1>2 DEF BindingInv, TypeOK, Exists, Bound, AccountUnique, TokenTruthful
<1>4. \A q \in Handlers : job[q].pc # "idle" => job[q].farmer \in Farmers \ {None}
  BY DEF BindingInv, TypeOK, JobOK, Idle, Job
<1>5. PendingFits'
  BY <1>1, <1>4 DEF BindingInv, TypeOK, PendingFits, Fits, Idle, Job
<1> QED BY <1>3, <1>5 DEF BindingInv

\* Binding and editing load the row and begin with its column.
LEMMA LoadInv ==
  ASSUME BindingInv, NEW r \in Handlers, NEW f \in Farmers,
         (\E u \in Openids : Bind(r, u, f)) \/ AdminUpdate(r, f) \/ RemoveLoad(r, f)
  PROVE  BindingInv'
<1> USE BindingAssumption
<1>1. ASSUME NEW u \in Openids, Bind(r, u, f) PROVE BindingInv'
  BY <1>1, BeginInv DEF Bind, Exists, Bound
<1>2. CASE AdminUpdate(r, f)
  <2>1. PICK e \in Bound : e = openid[f]
    BY <1>2 DEF AdminUpdate, Exists, BindingInv, TypeOK
  <2>2. Begin(r, Job("loaded", f, None, e))
    BY <1>2, <2>1 DEF AdminUpdate
  <2>3. Exists(f) /\ UNCHANGED <<openid, used, token, crossed>> /\ openid[f] \in {Unbound, e}
    BY <1>2, <2>1 DEF AdminUpdate
  <2> QED BY <2>1, <2>2, <2>3, BeginInv
<1>3. CASE RemoveLoad(r, f)
  BY <1>3, BeginInv DEF RemoveLoad
<1> QED BY <1>1, <1>2, <1>3

\* The invariant is inductive.
LEMMA BindingNextInv == BindingInv /\ [Next]_vars => BindingInv'
<1> SUFFICES ASSUME BindingInv, [Next]_vars PROVE BindingInv'
  OBVIOUS
<1>1. CASE UNCHANGED vars
  BY <1>1 DEF vars, BindingInv, TypeOK, AccountUnique, PendingFits, Fits, TokenTruthful,
              Exists, JobOK
<1>2. CASE Next
  BY <1>2, LoginKeeps, AdminCreateInv, LoadInv, RegisterInv, SaveCompareInv, SaveWriteInv,
     SaveInsertInv, RemoveRowInv, FailInv DEF Next
<1> QED BY <1>1, <1>2

\* The invariant holds in every state the handlers reach.
THEOREM BindingInvHolds == Spec => []BindingInv
  BY BindingInitInv, BindingNextInv, PTL DEF Spec

\* foster.service.ts:149-300: rows, tokens and jobs are about farmers whose id was given
\* out, whatever interleaves and fails.
THEOREM FarmerTypes == Spec => []TypeOK
  BY BindingInvHolds, PTL DEF BindingInv

\* foster.service.ts:165: a token that was answered keeps naming its farmer's account,
\* unless two writes of the row crossed.
THEOREM TokensStayTruthful == Spec => []TokenTruthful
  BY BindingInvHolds, PTL DEF BindingInv

\* farmer.entity.ts:34: no account is answered as two farmers, and no farmer to two
\* accounts, of the farmers that are there and whose writes never crossed.
THEOREM OneAccountPerFarmer == Spec => []TokensIdentify
<1>1. BindingInv => TokensIdentify
  BY BindingAssumption DEF BindingInv, AccountUnique, TokenTruthful, TokensIdentify, Exists
<1> QED BY <1>1, BindingInvHolds, PTL

(***************************************************************************)
(* FarmerTasks.                                                            *)
(***************************************************************************)

\* A task that is being checked in is in the table, or a generation deleted it
\* and met the handler.
HeldTaskKnown ==
  \A r \in Handlers : work[r].task # None /\ work[r].task \notin rows =>
    work[r].task \in erased /\ work[r].list \in raced

\* A generation that met nobody on its list has it empty and to itself.
GenerationAlone ==
  \A r \in Handlers : work[r].pc = "generate" /\ work[r].list \notin raced =>
    /\ \A t \in rows : slot[t].list # work[r].list
    /\ \A q \in Handlers \ {r} : work[q].list # work[r].list

TaskInv == TaskTypeOK /\ OneTaskPerMeal /\ CheckinStored /\ HeldTaskKnown /\ GenerationAlone

\* The table is empty to begin with.
LEMMA TaskInitInv == TaskInit => TaskInv
  BY TaskAssumption
  DEF TaskInit, TaskInv, TaskTypeOK, OneTaskPerMeal, CheckinStored, HeldTaskKnown,
      GenerationAlone, Resting, Work

\* The clock has nothing to do with the table.
LEMMA TickInv == ASSUME TaskInv, Tick PROVE TaskInv'
  BY TaskAssumption
  DEF Tick, taskTable, taskHistory, TaskInv, TaskTypeOK, OneTaskPerMeal, CheckinStored,
      HeldTaskKnown, GenerationAlone, Lists

\* What a handler can be at.
LEMMA WorkShape ==
  ASSUME TaskInv, NEW r \in Handlers
  PROVE  \/ work[r] = Resting
         \/ work[r].pc = "generate" /\ work[r].list \in Lists /\ work[r].task = None
         \/ /\ work[r].pc \in {"loaded", "update", "insert"} /\ work[r].list \in Lists
            /\ work[r].task \in Tasks /\ work[r].task # None
            /\ slot[work[r].task] # None /\ slot[work[r].task].list = work[r].list
  BY TaskAssumption DEF TaskInv, TaskTypeOK

\* Days are natural numbers, so the list of today is a list.
LEMMA TodayIsList == ASSUME TaskInv, NEW f \in Farmers PROVE Today(f) \in Lists
<1>1. now \in Nat
  BY TaskAssumption DEF TaskInv, TaskTypeOK
<1>2. now \div 2 \in Nat
  BY <1>1
<1> QED BY <1>2 DEF Today, Lists, LocalDay

\* A step that leaves the table alone and lets a handler rest, or begin or go on
\* with a task that is there or that it had.
LEMMA HandlerInv ==
  ASSUME TaskInv, NEW r \in Handlers, NEW j, work' = [work EXCEPT ![r] = j],
         UNCHANGED <<now, rows, slot, checked, erased, raced>>, answered' \in SUBSET Tasks,
         \A t \in answered' : t \in answered \/ t \in checked \/ t \in erased,
         \/ j = Resting
         \/ /\ j \in [pc : {"loaded", "update", "insert"}, list : Lists, task : Tasks, since : Nat]
            /\ slot[j.task] # None /\ slot[j.task].list = j.list
            /\ \/ j.task \in rows
               \/ work[r].task = j.task /\ work[r].list = j.list /\ j.task # None
  PROVE  TaskInv'
<1> USE TaskAssumption
<1>1. /\ slot \in [Tasks -> [list : Lists, meal : Meals] \cup {None}]
      /\ erased \subseteq {t \in Tasks : slot[t] # None} /\ checked \subseteq rows
      /\ rows \cup answered \subseteq {t \in Tasks : slot[t] # None}
  BY DEF TaskInv, TaskTypeOK
<1>2. answered' \subseteq {t \in Tasks : slot[t] # None}
  BY <1>1
<1>3. TaskTypeOK'
  <2>1. work' \in [Handlers -> {Resting} \cup
                [pc : {"generate"}, list : Lists, task : {None}, since : Nat] \cup
                [pc : {"loaded", "update", "insert"}, list : Lists, task : Tasks, since : Nat]]
    BY DEF TaskInv, TaskTypeOK
  <2>2. \A q \in Handlers : work'[q].task # None =>
          slot[work'[q].task] # None /\ slot[work'[q].task].list = work'[q].list
    BY DEF TaskInv, TaskTypeOK, Resting, Work
  <2> QED BY <1>1, <1>2, <2>1, <2>2 DEF TaskInv, TaskTypeOK
<1>4. OneTaskPerMeal' /\ CheckinStored'
  BY DEF TaskInv, OneTaskPerMeal, CheckinStored
<1>5. HeldTaskKnown'
  BY DEF TaskInv, TaskTypeOK, HeldTaskKnown, Resting, Work
<1>6. GenerationAlone'
  <2> SUFFICES ASSUME NEW q \in Handlers, work'[q].pc = "generate", work'[q].list \notin raced
               PROVE  /\ \A t \in rows : slot[t].list # work'[q].list
                      /\ \A p \in Handlers \ {q} : work'[p].list # work'[q].list
    BY DEF GenerationAlone
  <2>1. q # r /\ work'[q] = work[q]
    BY DEF TaskInv, TaskTypeOK, Resting, Work
  <2>2. /\ \A t \in rows : slot[t].list # work[q].list
        /\ \A p \in Handlers \ {q} : work[p].list # work[q].list
    BY <2>1 DEF TaskInv, GenerationAlone
  <2>3. work'[r].list # work[q].list
    <3>1. CASE j = Resting
      BY <3>1, <2>1, WorkShape DEF TaskInv, TaskTypeOK, Resting, Work, Lists
    <3>2. CASE j # Resting
      BY <3>2, <2>1, <2>2 DEF TaskInv, TaskTypeOK, OnList
    <3> QED BY <3>1, <3>2
  <2> QED BY <2>1, <2>2, <2>3 DEF TaskInv, TaskTypeOK
<1> QED BY <1>3, <1>4, <1>5, <1>6 DEF TaskInv

\* Deleting a list empties it; who held a task of it was met.
LEMMA GenerateDeleteInv ==
  ASSUME TaskInv, NEW r \in Handlers, NEW f \in Farmers, GenerateDelete(r, f)
  PROVE  TaskInv'
<1> USE TaskAssumption
<1>1. PICK L \in Lists : L = Today(f)
  BY TodayIsList
<1>2. /\ work[r].pc = "idle"
      /\ work' = [work EXCEPT ![r] = [pc |-> "generate", list |-> L, task |-> None, since |-> now]]
      /\ rows' = rows \ OnList(L) /\ checked' = checked \ OnList(L)
      /\ erased' = erased \cup OnList(L)
      /\ raced' = IF \E q \in Handlers : work[q].list = L THEN raced \cup {L} ELSE raced
      /\ UNCHANGED <<now, slot, answered>>
  BY <1>1 DEF GenerateDelete, TakeUp, Doing, Work, Erase
<1>3. now \in Nat /\ raced \subseteq raced'
  BY <1>2 DEF TaskInv, TaskTypeOK
<1>4. TaskTypeOK'
  <2>1. work' \in [Handlers -> {Resting} \cup
                [pc : {"generate"}, list : Lists, task : {None}, since : Nat] \cup
                [pc : {"loaded", "update", "insert"}, list : Lists, task : Tasks, since : Nat]]
    BY <1>2, <1>3 DEF TaskInv, TaskTypeOK
  <2>2. \A q \in Handlers : work'[q].task # None =>
          slot[work'[q].task] # None /\ slot[work'[q].task].list = work'[q].list
    BY <1>2 DEF TaskInv, TaskTypeOK
  <2> QED BY <1>2, <2>1, <2>2 DEF TaskInv, TaskTypeOK, OnList
<1>5. OneTaskPerMeal'
  BY <1>2, <1>3 DEF TaskInv, OneTaskPerMeal
<1>6. CheckinStored'
  BY <1>2 DEF TaskInv, CheckinStored
<1>7. HeldTaskKnown'
  <2> SUFFICES ASSUME NEW q \in Handlers, work'[q].task # None, work'[q].task \notin rows'
               PROVE  work'[q].task \in erased' /\ work'[q].list \in raced'
    BY DEF HeldTaskKnown
  <2>1. work'[q] = work[q]
    BY <1>2 DEF TaskInv, TaskTypeOK
  <2>2. CASE work[q].task \in rows
    <3>1. work[q].task \in OnList(L) /\ work[q].list = L
      BY <2>1, <2>2, <1>2 DEF TaskInv, TaskTypeOK, OnList
    <3> QED BY <2>1, <3>1, <1>2
  <2>3. CASE work[q].task \notin rows
    BY <2>1, <2>3, <1>2, <1>3 DEF TaskInv, HeldTaskKnown
  <2> QED BY <2>2, <2>3
<1>8. GenerationAlone'
  <2> SUFFICES ASSUME NEW q \in Handlers, work'[q].pc = "generate", work'[q].list \notin raced'
               PROVE  /\ \A t \in rows' : slot'[t].list # work'[q].list
                      /\ \A p \in Handlers \ {q} : work'[p].list # work'[q].list
    BY DEF GenerationAlone
  <2>1. CASE q = r
    BY <2>1, <1>2 DEF TaskInv, TaskTypeOK, OnList
  <2>2. CASE q # r
    <3>1. work'[q] = work[q] /\ work[q].list # L
      BY <2>2, <1>2 DEF TaskInv, TaskTypeOK
    <3>2. /\ \A t \in rows : slot[t].list # work[q].list
          /\ \A p \in Handlers \ {q} : work[p].list # work[q].list
      BY <2>2, <3>1, <1>3 DEF TaskInv, GenerationAlone
    <3> QED BY <3>1, <3>2, <1>2 DEF TaskInv, TaskTypeOK, OnList
  <2> QED BY <2>1, <2>2
<1> QED BY <1>4, <1>5, <1>6, <1>7, <1>8 DEF TaskInv

\* The tasks that are inserted have fresh ids, one per meal, and are alone on a list on
\* which nobody was met.
LEMMA GenerateInsertInv ==
  ASSUME TaskInv, NEW r \in Handlers, GenerateInsert(r)
  PROVE  TaskInv'
<1> USE TaskAssumption
<1>1. PICK L \in Lists : L = work[r].list /\ work[r].pc = "generate"
  BY WorkShape DEF GenerateInsert, Doing, Resting, Work
<1>2. PICK new \in [Meals -> {t \in Tasks : slot[t] = None}] :
        /\ \A m, n \in Meals : new[m] = new[n] => m = n
        /\ rows' = rows \cup {new[m] : m \in Meals}
        /\ slot' = [t \in Tasks |->
                      IF \E m \in Meals : t = new[m]
                        THEN [list |-> L, meal |-> CHOOSE m \in Meals : t = new[m]]
                        ELSE slot[t]]
  BY <1>1 DEF GenerateInsert
<1>3. work' = [work EXCEPT ![r] = Resting] /\ UNCHANGED <<now, checked, answered, erased, raced>>
  BY DEF GenerateInsert, Finish, taskHistory
<1>4. \A m \in Meals : new[m] \in Tasks /\ slot[new[m]] = None
                       /\ slot'[new[m]] # None
                       /\ slot'[new[m]].list = L /\ slot'[new[m]].meal = m
  <2> SUFFICES ASSUME NEW m \in Meals
               PROVE  /\ new[m] \in Tasks /\ slot[new[m]] = None /\ slot'[new[m]] # None
                      /\ slot'[new[m]].list = L /\ slot'[new[m]].meal = m
    OBVIOUS
  <2>1. new[m] \in Tasks /\ slot[new[m]] = None
    BY <1>2
  <2>2. (CHOOSE n \in Meals : new[m] = new[n]) = m
    BY <1>2
  <2>3. slot'[new[m]] = [list |-> L, meal |-> m]
    BY <1>2, <2>1, <2>2
  <2>4. [list |-> L, meal |-> m] # None
    BY <1>1 DEF Lists
  <2> QED BY <2>1, <2>3, <2>4
<1>5. \A t \in Tasks : slot[t] # None => slot'[t] = slot[t]
  BY <1>2
<1>6. slot' \in [Tasks -> [list : Lists, meal : Meals] \cup {None}]
  BY <1>1, <1>2 DEF TaskInv, TaskTypeOK
<1>7. rows \cup answered \cup erased \subseteq {t \in Tasks : slot[t] # None}
  BY DEF TaskInv, TaskTypeOK
<1>8. \A t \in rows' : t \in rows \/ \E m \in Meals : t = new[m]
  BY <1>2
<1>9. TaskTypeOK'
  <2>1. work' \in [Handlers -> {Resting} \cup
                [pc : {"generate"}, list : Lists, task : {None}, since : Nat] \cup
                [pc : {"loaded", "update", "insert"}, list : Lists, task : Tasks, since : Nat]]
    BY <1>3 DEF TaskInv, TaskTypeOK
  <2>2. \A q \in Handlers : work'[q].task # None =>
          slot'[work'[q].task] # None /\ slot'[work'[q].task].list = work'[q].list
    <3> SUFFICES ASSUME NEW q \in Handlers, work'[q].task # None
                 PROVE  slot'[work'[q].task] # None /\ slot'[work'[q].task].list = work'[q].list
      OBVIOUS
    <3>1. work'[q] = work[q] /\ work[q].task \in Tasks
      BY <1>3, WorkShape DEF TaskInv, TaskTypeOK, Resting, Work
    <3> QED BY <3>1, <1>5 DEF TaskInv, TaskTypeOK
  <2>3. rows' \cup answered \cup erased \subseteq {t \in Tasks : slot'[t] # None}
    <3>1. \A m \in Meals : new[m] \in Tasks /\ slot'[new[m]] # None
      BY <1>4
    <3> QED BY <3>1, <1>5, <1>7, <1>8
  <2> QED BY <1>2, <1>3, <1>6, <2>1, <2>2, <2>3 DEF TaskInv, TaskTypeOK
<1>10. \A t \in rows : slot'[t] = slot[t]
  BY <1>5, <1>7
<1>11. L \notin raced => /\ \A t \in rows : slot[t].list # L
                          /\ \A q \in Handlers \ {r} : work[q].list # L
  BY <1>1 DEF TaskInv, GenerationAlone
<1>12. OneTaskPerMeal'
  <2> SUFFICES ASSUME NEW s \in rows', NEW t \in rows', slot'[s] = slot'[t],
                      slot'[s].list \notin raced
               PROVE  s = t
    BY <1>3 DEF OneTaskPerMeal
  <2>1. CASE s \in rows /\ t \in rows
    BY <2>1, <1>10 DEF TaskInv, OneTaskPerMeal
  <2>2. ASSUME NEW m \in Meals, s = new[m], t \in rows PROVE FALSE
    BY <2>2, <1>4, <1>10, <1>11
  <2>3. ASSUME NEW m \in Meals, t = new[m], s \in rows PROVE FALSE
    BY <2>3, <1>4, <1>10, <1>11
  <2>4. ASSUME NEW m \in Meals, NEW n \in Meals, s = new[m], t = new[n] PROVE s = t
    BY <2>4, <1>4
  <2> QED BY <1>8, <2>1, <2>2, <2>3, <2>4
<1>13. CheckinStored'
  BY <1>3 DEF TaskInv, CheckinStored
<1>14. HeldTaskKnown'
  BY <1>2, <1>3 DEF TaskInv, TaskTypeOK, HeldTaskKnown, Resting, Work
<1>15. GenerationAlone'
  <2> SUFFICES ASSUME NEW q \in Handlers, work'[q].pc = "generate", work'[q].list \notin raced
               PROVE  /\ \A t \in rows' : slot'[t].list # work'[q].list
                      /\ \A p \in Handlers \ {q} : work'[p].list # work'[q].list
    BY <1>3 DEF GenerationAlone
  <2>1. q # r /\ work'[q] = work[q]
    BY <1>3 DEF TaskInv, TaskTypeOK, Resting, Work
  <2>2. /\ \A t \in rows : slot[t].list # work[q].list
        /\ \A p \in Handlers \ {q} : work[p].list # work[q].list
    BY <2>1 DEF TaskInv, GenerationAlone
  <2>3. work[q].list # L /\ work[q].list # None
    BY <1>1, <2>1, <2>2, WorkShape DEF Lists, Resting, Work
  <2>4. \A t \in rows' : slot'[t].list # work[q].list
    BY <2>1, <2>2, <2>3, <1>4, <1>8, <1>10
  <2> QED BY <2>1, <2>2, <2>3, <2>4, <1>3 DEF TaskInv, TaskTypeOK, Resting, Work
<1> QED BY <1>9, <1>12, <1>13, <1>14, <1>15 DEF TaskInv

\* A task that is done is stored.
LEMMA CheckinAgainInv ==
  ASSUME TaskInv, NEW t \in Tasks, CheckinAgain(t)
  PROVE  TaskInv'
<1>1. /\ t \in rows /\ t \in checked /\ answered' = answered \cup {t}
      /\ UNCHANGED <<now, rows, slot, checked, erased, raced, work>>
  BY DEF CheckinAgain, taskTable
<1>2. TaskTypeOK' /\ CheckinStored'
  BY <1>1 DEF TaskInv, TaskTypeOK, CheckinStored
<1>3. OneTaskPerMeal' /\ HeldTaskKnown' /\ GenerationAlone'
  BY <1>1 DEF TaskInv, OneTaskPerMeal, HeldTaskKnown, GenerationAlone
<1> QED BY <1>2, <1>3 DEF TaskInv

\* Loading, reading again and giving up leave the table alone.
LEMMA CheckinLoadInv ==
  ASSUME TaskInv, NEW r \in Handlers, NEW t \in Tasks, CheckinLoad(r, t)
  PROVE  TaskInv'
<1>1. PICK L \in Lists : L = slot[t].list /\ slot[t] # None /\ t \in rows
  BY DEF CheckinLoad, TaskInv, TaskTypeOK
<1>2. PICK n \in Nat : n = now
  BY TaskAssumption DEF TaskInv, TaskTypeOK
<1>3. /\ work' = [work EXCEPT ![r] = [pc |-> "loaded", list |-> L, task |-> t, since |-> n]]
      /\ UNCHANGED <<now, rows, slot, checked, answered, erased, raced>>
  BY <1>1, <1>2 DEF CheckinLoad, TakeUp, Work, taskTable, taskHistory
<1> DEFINE j == [pc |-> "loaded", list |-> L, task |-> t, since |-> n]
<1>4. answered' \in SUBSET Tasks /\ \A s \in answered' : s \in answered \/ s \in checked
        \/ s \in erased
  BY <1>3 DEF TaskInv, TaskTypeOK
<1>5. /\ j \in [pc : {"loaded", "update", "insert"}, list : Lists, task : Tasks, since : Nat]
      /\ slot[j.task] # None /\ slot[j.task].list = j.list /\ j.task \in rows
  BY <1>1
<1>6. work' = [work EXCEPT ![r] = j] /\ UNCHANGED <<now, rows, slot, checked, erased, raced>>
  BY <1>3
<1> HIDE DEF j
<1> QED BY <1>4, <1>5, <1>6, HandlerInv

LEMMA CheckinCompareInv ==
  ASSUME TaskInv, NEW r \in Handlers, CheckinCompare(r)
  PROVE  TaskInv'
<1>1. work[r].pc = "loaded" /\ UNCHANGED <<now, rows, slot, checked, answered, erased, raced>>
  BY DEF CheckinCompare, Doing, taskTable, taskHistory
<1>2. /\ work[r] \in [pc : {"loaded", "update", "insert"}, list : Lists, task : Tasks, since : Nat]
      /\ work[r].task # None /\ slot[work[r].task] # None
      /\ slot[work[r].task].list = work[r].list
  BY <1>1, TaskAssumption DEF TaskInv, TaskTypeOK, Resting, Work
<1>3. PICK l \in {"update", "insert"} : work' = [work EXCEPT ![r].pc = l]
  BY DEF CheckinCompare
<1>4. PICK j : j = [work[r] EXCEPT !.pc = l]
  OBVIOUS
<1>5. work' = [work EXCEPT ![r] = j]
  BY <1>3, <1>4 DEF TaskInv, TaskTypeOK
<1>6. /\ j \in [pc : {"loaded", "update", "insert"}, list : Lists, task : Tasks, since : Nat]
      /\ j.task = work[r].task /\ j.list = work[r].list
  BY <1>2, <1>4
<1>7. answered' \in SUBSET Tasks /\ \A s \in answered' : s \in answered \/ s \in checked
        \/ s \in erased
  BY <1>1 DEF TaskInv, TaskTypeOK
<1> QED BY <1>1, <1>2, <1>5, <1>6, <1>7, HandlerInv

LEMMA TaskFailInv ==
  ASSUME TaskInv, NEW r \in Handlers, TaskFail(r)
  PROVE  TaskInv'
<1>1. /\ work' = [work EXCEPT ![r] = Resting]
      /\ UNCHANGED <<now, rows, slot, checked, answered, erased, raced>>
  BY DEF TaskFail, Finish, taskTable, taskHistory
<1>2. answered' \in SUBSET Tasks /\ \A s \in answered' : s \in answered \/ s \in checked
        \/ s \in erased
  BY <1>1 DEF TaskInv, TaskTypeOK
<1> QED BY <1>1, <1>2, HandlerInv

\* An UPDATE stores the check-in, or the task was deleted by a generation.
LEMMA CheckinUpdateInv ==
  ASSUME TaskInv, NEW r \in Handlers, CheckinUpdate(r)
  PROVE  TaskInv'
<1> USE TaskAssumption
<1>1. PICK t \in Tasks : t = work[r].task /\ t # None /\ slot[t] # None
  BY WorkShape DEF CheckinUpdate, Doing, Resting, Work
<1>2. /\ checked' = checked \cup ({t} \cap rows) /\ answered' = answered \cup {t}
      /\ work' = [work EXCEPT ![r] = Resting]
      /\ UNCHANGED <<now, rows, slot, erased, raced>>
  BY <1>1 DEF CheckinUpdate, Finish
<1>3. TaskTypeOK'
  BY <1>1, <1>2 DEF TaskInv, TaskTypeOK, Resting, Work
<1>4. t \in rows \/ t \in erased
  BY <1>1 DEF TaskInv, HeldTaskKnown
<1>5. CheckinStored' /\ OneTaskPerMeal'
  BY <1>2, <1>4 DEF TaskInv, CheckinStored, OneTaskPerMeal
<1>6. HeldTaskKnown'
  BY <1>2 DEF TaskInv, TaskTypeOK, HeldTaskKnown, Resting, Work
<1>7. GenerationAlone'
  <2>1. \A q \in Handlers : work'[q] = work[q] \/ work'[q] = Resting
    BY <1>2 DEF TaskInv, TaskTypeOK
  <2>2. \A q \in Handlers : work[q].pc = "generate" => work[q].list # None
    BY WorkShape DEF Lists, Resting, Work
  <2> QED BY <1>2, <2>1, <2>2 DEF TaskInv, GenerationAlone, Resting, Work
<1> QED BY <1>3, <1>5, <1>6, <1>7 DEF TaskInv

\* A task that is inserted again was deleted by a generation that met its handler.
LEMMA CheckinInsertInv ==
  ASSUME TaskInv, NEW r \in Handlers, CheckinInsert(r)
  PROVE  TaskInv'
<1> USE TaskAssumption
<1>1. PICK t \in Tasks : t = work[r].task /\ t # None /\ slot[t] # None
             /\ slot[t].list = work[r].list
  BY WorkShape DEF CheckinInsert, Doing, Resting, Work
<1>2. /\ t \notin rows /\ rows' = rows \cup {t}
      /\ checked' = checked \cup {t} /\ answered' = answered \cup {t}
      /\ work' = [work EXCEPT ![r] = Resting]
      /\ UNCHANGED <<now, slot, erased, raced>>
  BY <1>1 DEF CheckinInsert, Finish
<1>3. TaskTypeOK'
  BY <1>1, <1>2 DEF TaskInv, TaskTypeOK, Resting, Work
<1>4. slot[t].list \in raced
  BY <1>1, <1>2 DEF TaskInv, HeldTaskKnown
<1>5. OneTaskPerMeal'
  BY <1>2, <1>4 DEF TaskInv, OneTaskPerMeal
<1>6. CheckinStored'
  BY <1>2 DEF TaskInv, CheckinStored
<1>7. HeldTaskKnown'
  BY <1>2 DEF TaskInv, TaskTypeOK, HeldTaskKnown, Resting, Work
<1>8. GenerationAlone'
  <2>1. \A q \in Handlers : work'[q] = work[q] \/ work'[q] = Resting
    BY <1>2 DEF TaskInv, TaskTypeOK
  <2>2. \A q \in Handlers : work[q].pc = "generate" => work[q].list # None
    BY WorkShape DEF Lists, Resting, Work
  <2> QED BY <1>2, <1>4, <2>1, <2>2 DEF TaskInv, GenerationAlone, Resting, Work
<1> QED BY <1>3, <1>5, <1>6, <1>7, <1>8 DEF TaskInv

\* The invariant is inductive.
LEMMA TaskNextInv == TaskInv /\ [TaskNext]_taskVars => TaskInv'
<1> SUFFICES ASSUME TaskInv, [TaskNext]_taskVars PROVE TaskInv'
  OBVIOUS
<1>1. CASE UNCHANGED taskVars
  BY <1>1 DEF taskVars, taskTable, taskHistory, TaskInv, TaskTypeOK, OneTaskPerMeal,
              CheckinStored, HeldTaskKnown, GenerationAlone
<1>2. CASE TaskNext
  BY <1>2, TickInv, CheckinAgainInv, GenerateDeleteInv, CheckinLoadInv, GenerateInsertInv,
     CheckinCompareInv, CheckinUpdateInv, CheckinInsertInv, TaskFailInv DEF TaskNext, GoOn
<1> QED BY <1>1, <1>2

\* The invariant holds in every state the handlers reach.
THEOREM TaskInvHolds == TaskSpec => []TaskInv
  BY TaskInitInv, TaskNextInv, PTL DEF TaskSpec

\* foster.service.ts:230-300, 470-500: what is stored was handed out, and handlers hold
\* tasks of their lists.
THEOREM TaskTypes == TaskSpec => []TaskTypeOK
  BY TaskInvHolds, PTL DEF TaskInv

\* foster.service.ts:476: a day that is generated again has each meal once, unless the
\* generation met another handler of the list.
THEOREM MealsOnce == TaskSpec => []OneTaskPerMeal
  BY TaskInvHolds, PTL DEF TaskInv

\* foster.service.ts:283: an answered check-in is stored, or a generation deleted the task.
THEOREM CheckinsKept == TaskSpec => []CheckinStored
  BY TaskInvHolds, PTL DEF TaskInv

(***************************************************************************)
(* The farmer's login.                                                     *)
(*                                                                         *)
(* LoginInv speaks of what the page shows, and says nothing of the answers *)
(* on their way.  WaysFit does, for each request: where it comes from and  *)
(* whom it is about (HereFits), and that an answer that names a farmer     *)
(* was given by a backend that knew the account as its own (AnswerFits),   *)
(* which stays so because a bound farmer is given to nobody else.          *)
(* PagesFit relates the page that is open to what is in storage.           *)
(***************************************************************************)

SomeoneOrNobody == People \cup {Nobody}
LoginRefs ==
  [step : {"init", "loading", "logged_in", "select_farmer", "register", "dev_mode"},
   name : SomeoneOrNobody, selected : SomeoneOrNobody, openid : BOOLEAN,
   offered : SUBSET People, devs : SUBSET People, busy : SUBSET {"wx", "bind", "register", "dev"}]
WayAnswers ==
  [type : {"awaited", "failed", "dev_mode", "new_user"}]
    \cup [type : {"success"}, farmer : People]
    \cup [type : {"farmers", "unbound"}, farmers : SUBSET People]
Outliving == {"check", "login", "bind", "register", "dev"}
WayRequests ==
  [kind : Outliving \cup {"list", "board"}, what : SomeoneOrNobody \cup {"mount", "tap"},
   got : WayAnswers, here : BOOLEAN]

\* What a request and its answer are, wherever the user has gone since.
AnswerFits(c) ==
  /\ c.kind \in {"check", "bind", "dev", "board"} => c.what \in People
  /\ c.kind \in {"list", "dev"} => world.h5
  /\ c.got.type = "unbound" => c.got.farmers # {}
  /\ c.kind \in {"login", "bind", "register"} /\ c.got.type = "success" /\ ~world.h5 =>
       owner[c.got.farmer] \in {"mine", "gone"}
\* Where it comes from.
HereFits(c) ==
  /\ c.kind \in {"list", "board"} => c.here
  /\ c.here => place = (IF c.kind = "board" THEN "workbench" ELSE "login")
  /\ ~wiped /\ c.here /\ c.kind \in {"check", "board"} => c.what = farmerId
  /\ c.here /\ c.kind = "check" => login.step # "logged_in"
WayFits(c) == c = Unused \/ (c \in WayRequests /\ AnswerFits(c) /\ HereFits(c))
CheckHere(w) == ways[w].kind = "check" /\ ways[w].here
WaysFit ==
  /\ DOMAIN ways = Ways
  /\ \A w \in Ways : WayFits(ways[w])
  /\ \A v, w \in Ways : CheckHere(v) /\ CheckHere(w) => v = w

PagesFit ==
  /\ world \in [h5 : BOOLEAN, secret : BOOLEAN]
  /\ owner \in [People -> {"none", "free", "mine", "other", "gone"}]
  /\ place \in {"client", "login", "workbench"} /\ wiped \in BOOLEAN
  /\ login \in LoginRefs
  /\ place # "workbench" => board = Nobody

LoginIndInv == LoginInv /\ PagesFit /\ WaysFit

\* The page of login as it is mounted.
LEMMA FreshLoginFits == FreshLogin \in LoginRefs /\ FreshLogin.step = "init"
  BY DEF FreshLogin, LoginRefs, SomeoneOrNobody

\* The three parts hold at first.
LEMMA LoginInitInv == LoginInit => LoginIndInv
<1> SUFFICES ASSUME LoginInit PROVE LoginIndInv
  OBVIOUS
<1>1. WaysFit
  <2>1. DOMAIN ways = Ways /\ \A w \in Ways : ways[w] = Unused /\ ways[w].kind = "free"
    BY DEF LoginInit, Unused
  <2> QED BY <2>1 DEF WaysFit, WayFits, CheckHere
<1>2. PagesFit
  BY FreshLoginFits DEF LoginInit, PagesFit
<1>3. LoginInv
  BY FreshLoginFits DEF LoginInit, LoginInv, LoginTypeOK, IdentityMine, ShownIsStored, Mine
<1> QED BY <1>1, <1>2, <1>3 DEF LoginIndInv

\* A request that outlives its page is no longer here.
LEMMA OutlivesFits ==
  ASSUME LoginIndInv, NEW w \in Ways
  PROVE  Outlives(w) = Unused \/ (Outlives(w) \in WayRequests /\ AnswerFits(Outlives(w))
                                  /\ ~Outlives(w).here
                                   /\ Outlives(w).kind \in Outliving)
<1>1. CASE ways[w].kind \in Outliving
  <2>1. ways[w] \in WayRequests /\ AnswerFits(ways[w])
          /\ Outlives(w) = [ways[w] EXCEPT !.here = FALSE]
    BY <1>1 DEF LoginIndInv, WaysFit, WayFits, Outlives, Unused, Outliving
  <2> QED BY <1>1, <2>1 DEF WayRequests, AnswerFits
<1>2. CASE ways[w].kind \notin Outliving
  BY <1>2 DEF Outlives, Outliving
<1> QED BY <1>1, <1>2

\* Leaving a page leaves requests that fit, and none of them is here any more.
LEMMA LeftFits ==
  ASSUME UNCHANGED <<world, owner>>, NEW c \in WayRequests, AnswerFits(c), ~c.here,
         c.kind \in Outliving
  PROVE  WayFits(c)'
  BY DEF WayFits, AnswerFits, HereFits, Outliving

\* A request of a page that was left fits wherever the user is now.
LEMMA RequestFits ==
  ASSUME NEW kind \in {"check", "list", "board"}, NEW what \in People \cup {"mount"},
         kind \in {"check", "board"} => what \in People /\ what = farmerId',
         kind = "list" => world.h5, UNCHANGED world,
         place' = (IF kind = "board" THEN "workbench" ELSE "login"), login'.step # "logged_in"
  PROVE  WayFits(Request(kind, what))' /\ Request(kind, what).kind = kind
<1>1. PICK c : c = Request(kind, what)
  OBVIOUS
<1>2. c \in WayRequests /\ c.kind = kind /\ c.what = what /\ c.here /\ c.got.type = "awaited"
  BY <1>1 DEF Request, Awaited, WayRequests, WayAnswers, SomeoneOrNobody, Outliving
<1>3. WayFits(c)'
  BY <1>2 DEF WayFits, AnswerFits, HereFits
<1> QED BY <1>1, <1>2, <1>3

\* The requests of before outlive their page, and at most one is new.
LEMMA OthersOutlive ==
  ASSUME LoginIndInv, UNCHANGED <<world, owner>>, DOMAIN ways' = Ways,
         NEW w \in Ways, WayFits(ways[w])', \A v \in Ways \ {w} : ways'[v] = Outlives(v)
  PROVE  WaysFit'
<1>1. ASSUME NEW v \in Ways \ {w}
      PROVE  WayFits(ways[v])' /\ ~CheckHere(v)'
  <2>1. PICK c : c = Outlives(v)
    OBVIOUS
  <2>2. c = Unused \/ (c \in WayRequests /\ AnswerFits(c) /\ ~c.here /\ c.kind \in Outliving)
    BY <2>1, OutlivesFits
  <2>3. WayFits(c)'
    BY <2>2, LeftFits DEF WayFits
  <2> QED BY <2>1, <2>2, <2>3 DEF Unused, CheckHere
<1> QED BY <1>1 DEF WaysFit

\* A page is left for another.
LEMMA LeavesKeeps ==
  ASSUME LoginIndInv, NEW kind \in {"check", "list", "board", "none"}, NEW what,
         Leaves(kind, what), kind # "none" => what \in People \cup {"mount"},
         kind \in {"check", "board"} => what \in People /\ what = farmerId',
         kind = "list" => world.h5, UNCHANGED <<world, owner>>, login' = FreshLogin,
         kind # "none" => place' = (IF kind = "board" THEN "workbench" ELSE "login")
  PROVE  WaysFit'
<1>1. CASE kind = "none"
  <2>1. ways' = [w \in Ways |-> Outlives(w)]
    BY <1>1 DEF Leaves
  <2>2. CASE Ways = {}
    BY <2>1, <2>2 DEF WaysFit
  <2>3. CASE Ways # {}
    <3>1. PICK w \in Ways : TRUE
      BY <2>3
    <3>2. PICK c : c = Outlives(w)
      OBVIOUS
    <3>3. WayFits(c)'
      BY <3>2, OutlivesFits, LeftFits DEF WayFits
    <3> QED BY <2>1, <3>2, <3>3, OthersOutlive
  <2> QED BY <2>2, <2>3
<1>2. CASE kind # "none"
  <2>1. PICK w \in Ways : ways' = [[v \in Ways |-> Outlives(v)] EXCEPT ![w] = Request(kind, what)]
    BY <1>2 DEF Leaves
  <2>2. PICK c : c = Request(kind, what)
    OBVIOUS
  <2>3. WayFits(c)'
    BY <1>2, <2>2, RequestFits, FreshLoginFits
  <2> QED BY <2>1, <2>2, <2>3, OthersOutlive
<1> QED BY <1>1, <1>2

\* Another page opens.
LEMMA LeavesInv ==
  ASSUME LoginIndInv, WaysFit', UNCHANGED <<world, owner, wiped>>,
         login' = FreshLogin, board' = Nobody, place' \in {"client", "login", "workbench"},
         farmerId' \in {farmerId, Nobody}, fosterToken' = farmerId'
  PROVE  LoginIndInv'
<1>1. PagesFit'
  BY FreshLoginFits DEF LoginIndInv, PagesFit
<1>2. LoginInv'
  BY FreshLoginFits DEF LoginIndInv, LoginInv, LoginTypeOK, IdentityMine, ShownIsStored
<1> QED BY <1>1, <1>2 DEF LoginIndInv

\* The page of login is mounted with the identity that storage has, or with none.
LEMMA MountInv ==
  ASSUME LoginIndInv, NEW id, Mount(id), id \in {farmerId', Nobody},
         UNCHANGED <<world, owner, wiped>>,
         farmerId' \in {farmerId, Nobody}, fosterToken' = farmerId'
  PROVE  LoginIndInv'
<1>1. farmerId' \in SomeoneOrNobody
  BY DEF LoginIndInv, LoginInv, LoginTypeOK, SomeoneOrNobody
<1>2. CASE Leaves("check", id) /\ id # Nobody
  BY <1>1, <1>2, LeavesKeeps, LeavesInv DEF Mount, SomeoneOrNobody
<1>3. CASE world.h5 /\ Leaves("list", "mount")
  BY <1>3, LeavesKeeps, LeavesInv DEF Mount
<1>4. CASE Leaves("none", Nobody)
  BY <1>4, LeavesKeeps, LeavesInv DEF Mount
<1> QED BY <1>2, <1>3, <1>4 DEF Mount

\* The steps by which the user moves between the pages.
LEMMA PageInv ==
  ASSUME LoginIndInv, OpenLogin \/ ToClient \/ GoWorkbench \/ SwitchFarmer
  PROVE  LoginIndInv'
<1>1. farmerId \in SomeoneOrNobody /\ fosterToken = farmerId
  BY DEF LoginIndInv, LoginInv, LoginTypeOK, IdentityMine, SomeoneOrNobody
<1>2. CASE OpenLogin
  BY <1>1, <1>2, MountInv DEF OpenLogin, sessionVars
<1>3. CASE ToClient
  BY <1>1, <1>3, LeavesKeeps, LeavesInv DEF ToClient, sessionVars
<1>4. CASE GoWorkbench
  <2>1. CASE farmerId = Nobody
    BY <1>1, <1>4, <2>1, MountInv DEF GoWorkbench, sessionVars
  <2>2. CASE farmerId # Nobody
    <3>1. WaysFit'
      BY <1>1, <1>4, <2>2, LeavesKeeps DEF GoWorkbench, Workbench, sessionVars, SomeoneOrNobody
    <3> QED BY <1>1, <1>4, <2>2, <3>1, LeavesInv DEF GoWorkbench, Workbench, sessionVars
  <2> QED BY <2>1, <2>2
<1>5. CASE SwitchFarmer
  BY <1>1, <1>5, MountInv DEF SwitchFarmer, ClearAuth
<1> QED BY <1>2, <1>3, <1>4, <1>5

\* A farmer that is the user's stays so, or is removed.
OwnersMove ==
  /\ owner' \in [People -> {"none", "free", "mine", "other", "gone"}]
  /\ \A f \in People : owner[f] \in {"mine", "gone"} => owner'[f] \in {"mine", "gone"}

\* One request is replaced, while those of the others stay where they are.
LEMMA PutWayKeeps ==
  ASSUME LoginIndInv, NEW w \in Ways, NEW c, ways' = [ways EXCEPT ![w] = c], WayFits(c)',
         c.kind = "check" /\ c.here => CheckHere(w), UNCHANGED world, OwnersMove,
         \A v \in Ways \ {w}, d \in WayRequests : d = ways[v] /\ HereFits(d) => HereFits(d)'
  PROVE  WaysFit'
<1>1. DOMAIN ways' = Ways /\ ways'[w] = c /\ \A v \in Ways \ {w} : ways'[v] = ways[v]
  BY DEF LoginIndInv, WaysFit
<1>2. ASSUME NEW v \in Ways \ {w} PROVE WayFits(ways[v])'
  <2>1. PICK d : d = ways[v]
    OBVIOUS
  <2>2. d = Unused \/ (d \in WayRequests /\ AnswerFits(d) /\ HereFits(d))
    BY <2>1 DEF LoginIndInv, WaysFit, WayFits
  <2>3. d \in WayRequests /\ AnswerFits(d) => AnswerFits(d)'
    BY DEF OwnersMove, AnswerFits, WayRequests, WayAnswers
  <2>4. WayFits(d)'
    BY <2>1, <2>2, <2>3 DEF WayFits
  <2> QED BY <1>1, <2>1, <2>4
<1>3. \A v, u \in Ways : CheckHere(v)' /\ CheckHere(u)' => v = u
  BY <1>1 DEF LoginIndInv, WaysFit, CheckHere
<1> QED BY <1>1, <1>2, <1>3 DEF WaysFit

\* A request that is here stays where it is as long as its page does.
LEMMA HereKeeps ==
  ASSUME UNCHANGED <<place, farmerId, wiped>>,
         login'.step = login.step \/ login'.step # "logged_in",
         NEW c, HereFits(c)
  PROVE  HereFits(c)'
  BY DEF HereFits

\* A slot in use holds a request that fits.
LEMMA WayOf ==
  ASSUME LoginIndInv, NEW w \in Ways, ways[w] # Unused
  PROVE  ways[w] \in WayRequests /\ AnswerFits(ways[w]) /\ HereFits(ways[w])
  BY DEF LoginIndInv, WaysFit, WayFits

\* The requests while one is answered, or another sent, on a page that stays open.
LEMMA OnPageKeeps ==
  ASSUME LoginIndInv, NEW w \in Ways, NEW c, ways' = [ways EXCEPT ![w] = c], WayFits(c)',
         c.kind = "check" /\ c.here => CheckHere(w),
         UNCHANGED <<world, place, farmerId, wiped>>, OwnersMove,
         login'.step = login.step \/ login'.step # "logged_in"
  PROVE  WaysFit'
  BY PutWayKeeps, HereKeeps

\* Farmers that are ours, or gone, are not given to others.
LEMMA OwnersStay ==
  ASSUME LoginIndInv, UNCHANGED owner
  PROVE  OwnersMove
  BY DEF LoginIndInv, PagesFit, OwnersMove

\* A free slot fits any state.
LEMMA UnusedFits == WayFits(Unused)' /\ Unused.kind = "free"
  BY DEF WayFits, Unused

\* The page of login sends a request.
LEMMA LoginAsksFits ==
  ASSUME NEW kind \in {"login", "bind", "register", "dev", "list", "board"},
         NEW what \in SomeoneOrNobody \cup {"mount", "tap"},
         kind \in {"bind", "dev", "board"} => what \in People, kind = "board" => what = farmerId',
         kind \in {"dev", "list"} => world.h5, UNCHANGED world,
         place' = (IF kind = "board" THEN "workbench" ELSE "login")
  PROVE  WayFits(Request(kind, what))' /\ Request(kind, what).kind = kind
<1>1. PICK c : c = Request(kind, what)
  OBVIOUS
<1>2. c \in WayRequests /\ c.kind = kind /\ c.what = what /\ c.here /\ c.got.type = "awaited"
  BY <1>1 DEF Request, Awaited, WayRequests, WayAnswers, SomeoneOrNobody, Outliving
<1>3. WayFits(c)'
  BY <1>2 DEF WayFits, AnswerFits, HereFits
<1> QED BY <1>1, <1>2, <1>3

\* The invariant after a step on the login page.
LEMMA LoginPageInv ==
  ASSUME LoginIndInv, WaysFit', UNCHANGED <<world, owner, sessionVars, place, board, wiped>>,
         place = "login", login' \in LoginRefs, login'.step # "logged_in" \/ login' = login
           \/ (login'.step = "logged_in" /\ login.step = "logged_in" /\ login'.name = login.name),
         login'.step = "select_farmer" => login'.openid /\ login'.offered # {},
         login'.step = "register" => login'.openid,
         login'.step = "dev_mode" => world.h5
  PROVE  LoginIndInv'
<1>1. PagesFit'
  BY DEF LoginIndInv, PagesFit
<1>2. LoginInv'
  BY DEF LoginIndInv, LoginInv, LoginTypeOK, IdentityMine, ShownIsStored, sessionVars
<1> QED BY <1>1, <1>2 DEF LoginIndInv

\* The invariant after a step that leaves the pages and the storage alone.
LEMMA StandsInv ==
  ASSUME LoginIndInv, WaysFit', OwnersMove,
         UNCHANGED <<world, sessionVars, place, login, board, wiped>>
  PROVE  LoginIndInv'
<1>1. PagesFit'
  BY DEF LoginIndInv, PagesFit, OwnersMove
<1>2. LoginInv'
  BY DEF LoginIndInv, LoginInv, LoginTypeOK, IdentityMine, ShownIsStored, sessionVars, OwnersMove,
     FreshLogin
<1> QED BY <1>1, <1>2 DEF LoginIndInv

\* The backend answers a request, and may write a farmer as it does.
LEMMA SaysInv ==
  ASSUME LoginIndInv, NEW w \in Ways, ways[w] # Unused, NEW result \in WayAnswers,
         Says(w, result), OwnersMove,
         result.type = "unbound" => result.farmers # {},
         result.type = "success" /\ ways[w].kind \in {"login", "bind", "register"} /\ ~world.h5 =>
           owner'[result.farmer] \in {"mine", "gone"},
         UNCHANGED <<world, sessionVars, place, login, board, wiped>>
  PROVE  LoginIndInv'
<1>1. ways[w] \in WayRequests /\ AnswerFits(ways[w]) /\ HereFits(ways[w])
  BY WayOf
<1>2. PICK c : c = [ways[w] EXCEPT !.got = result]
  OBVIOUS
<1>3. /\ c \in WayRequests /\ c.kind = ways[w].kind /\ c.what = ways[w].what
      /\ c.here = ways[w].here
      /\ c.got = result
  BY <1>1, <1>2 DEF WayRequests
<1>4. AnswerFits(c)'
  BY <1>1, <1>3 DEF AnswerFits
<1>5. HereFits(c)'
  BY <1>1, <1>3 DEF HereFits, sessionVars
<1>6. ways' = [ways EXCEPT ![w] = c]
  BY <1>2 DEF Says, LoginIndInv, WaysFit
<1>7. WaysFit'
  BY <1>3, <1>4, <1>5, <1>6, OnPageKeeps DEF WayFits, CheckHere, sessionVars
<1> QED BY <1>7, StandsInv

\* Each handler of the backend answers what fits.
LEMMA ReachesInv ==
  ASSUME LoginIndInv, NEW w \in Ways, Reaches(w)
  PROVE  LoginIndInv'
<1> DEFINE stands == UNCHANGED <<world, sessionVars, place, login, board, wiped>>
<1>1. /\ ways[w] # Unused /\ ways[w] \in WayRequests /\ AnswerFits(ways[w]) /\ stands
      /\ owner \in [People -> {"none", "free", "mine", "other", "gone"}]
  BY WayOf DEF Reaches, LoginIndInv, PagesFit
<1>2. UNCHANGED owner => OwnersMove
  BY OwnersStay
<1>3. \A f \in People : Session(f) \in WayAnswers /\ Session(f).type = "success"
        /\ Session(f).farmer = f
  BY DEF Session, WayAnswers
<1>4. Failure \in WayAnswers /\ Failure.type = "failed"
  BY DEF Failure, WayAnswers
<1>5. \A F \in SUBSET People, t \in {"farmers", "unbound"} :
        LET c == [type |-> t, farmers |-> F] IN c \in WayAnswers /\ c.type = t /\ c.farmers = F
  BY DEF WayAnswers
<1>6. \A t \in {"dev_mode", "new_user"} : LET c == [type |-> t] IN c \in WayAnswers /\ c.type = t
  BY DEF WayAnswers
<1>7. Existing \subseteq People /\ Mine \subseteq People /\ Unclaimed \subseteq People
  BY DEF Existing, Mine, Unclaimed
<1>8. CASE GetFarmers(w)
  <2>1. PICK c : c = [type |-> "farmers", farmers |-> Existing]
    OBVIOUS
  <2>2. c \in WayAnswers /\ c.type = "farmers"
    BY <1>5, <1>7, <2>1
  <2> QED BY <1>1, <1>2, <1>8, <2>1, <2>2, SaysInv DEF GetFarmers
<1>9. CASE WxLogin(w)
  <2>1. CASE Says(w, [type |-> "dev_mode"])
    BY <1>1, <1>2, <1>6, <1>9, <2>1, SaysInv DEF WxLogin
  <2>2. ASSUME NEW f \in Mine, Says(w, Session(f)) PROVE LoginIndInv'
    <3>1. f \in People /\ owner'[f] = "mine" /\ UNCHANGED owner
      BY <1>9 DEF WxLogin, Mine
    <3> QED BY <1>1, <1>2, <1>3, <2>2, <3>1, SaysInv
  <2>3. CASE Unclaimed # {} /\ Says(w, [type |-> "unbound", farmers |-> Unclaimed])
    <3>1. PICK c : c = [type |-> "unbound", farmers |-> Unclaimed]
      OBVIOUS
    <3>2. c \in WayAnswers /\ c.type = "unbound" /\ c.farmers = Unclaimed
      BY <1>5, <1>7, <3>1
    <3> QED BY <1>1, <1>2, <1>9, <2>3, <3>1, <3>2, SaysInv DEF WxLogin
  <2>4. CASE Says(w, [type |-> "new_user"])
    BY <1>1, <1>2, <1>6, <1>9, <2>4, SaysInv DEF WxLogin
  <2> QED BY <1>9, <2>1, <2>2, <2>3, <2>4 DEF WxLogin
<1>10. CASE BindFarmer(w)
  <2>1. PICK f \in People : f = ways[w].what
    BY <1>1, <1>10 DEF BindFarmer, AnswerFits
  <2>2. CASE Says(w, Session(f)) /\ owner' = [owner EXCEPT ![f] = "mine"]
               /\ owner[f] \in {"free", "mine"}
    <3>1. OwnersMove /\ owner'[f] = "mine"
      BY <1>1, <2>2 DEF OwnersMove
    <3> QED BY <1>1, <1>3, <2>2, <3>1, SaysInv
  <2>3. CASE Says(w, Failure) /\ UNCHANGED owner
    BY <1>1, <1>2, <1>4, <2>3, SaysInv
  <2> QED BY <1>10, <2>1, <2>2, <2>3 DEF BindFarmer
<1>11. CASE RegisterFarmer(w)
  <2>1. ASSUME NEW f \in Mine, Says(w, Session(f)), UNCHANGED owner PROVE LoginIndInv'
    <3>1. f \in People /\ owner'[f] = "mine"
      BY <2>1 DEF Mine
    <3> QED BY <1>1, <1>2, <1>3, <2>1, <3>1, SaysInv
  <2>2. ASSUME NEW f \in People, owner[f] = "none", Says(w, Session(f)),
               owner' = [owner EXCEPT ![f] = "mine"]
        PROVE  LoginIndInv'
    <3>1. OwnersMove /\ owner'[f] = "mine"
      BY <1>1, <2>2 DEF OwnersMove
    <3> QED BY <1>1, <1>3, <2>2, <3>1, SaysInv
  <2> QED BY <1>11, <2>1, <2>2 DEF RegisterFarmer
<1>12. CASE DevLogin(w) \/ Dashboard(w)
  <2>1. ways[w].kind \in {"dev", "board"} /\ ways[w].what \in People /\ UNCHANGED owner
    BY <1>1, <1>12 DEF DevLogin, Dashboard, AnswerFits
  <2>2. CASE Says(w, Session(ways[w].what))
    BY <1>1, <1>2, <1>3, <2>1, <2>2, SaysInv
  <2>3. CASE Says(w, Failure)
    BY <1>1, <1>2, <1>4, <2>1, <2>3, SaysInv
  <2> QED BY <1>12, <2>2, <2>3 DEF DevLogin, Dashboard
<1>13. CASE Lost(w)
  BY <1>1, <1>2, <1>4, <1>13, SaysInv DEF Lost
<1> QED BY <1>8, <1>9, <1>10, <1>11, <1>12, <1>13 DEF Reaches

\* Farmers are written by other accounts and by the administrator.
LEMMA ElsewhereInv ==
  ASSUME LoginIndInv, Elsewhere
  PROVE  LoginIndInv'
<1>1. OwnersMove
  BY DEF Elsewhere, Existing, LoginIndInv, PagesFit, OwnersMove
<1>2. WaysFit'
  <2>1. ASSUME NEW v \in Ways PROVE WayFits(ways[v])'
    <3>1. PICK d : d = ways[v]
      OBVIOUS
    <3>2. d = Unused \/ (d \in WayRequests /\ AnswerFits(d) /\ HereFits(d))
      BY <3>1 DEF LoginIndInv, WaysFit, WayFits
    <3>3. d \in WayRequests /\ AnswerFits(d) => AnswerFits(d)'
      BY <1>1 DEF OwnersMove, AnswerFits, WayRequests, WayAnswers, Elsewhere
    <3>4. HereFits(d) => HereFits(d)'
      BY DEF HereFits, Elsewhere, sessionVars
    <3> QED BY <3>1, <3>2, <3>3, <3>4 DEF WayFits, Elsewhere
  <2> QED BY <2>1 DEF LoginIndInv, WaysFit, CheckHere, Elsewhere
<1> QED BY <1>1, <1>2, StandsInv DEF Elsewhere

\* The identity in storage was checked.
LEMMA CheckAnsweredInv ==
  ASSUME LoginIndInv, NEW w \in Ways, CheckAnswered(w)
  PROVE  LoginIndInv'
<1>1. /\ ways[w] \in WayRequests /\ AnswerFits(ways[w]) /\ HereFits(ways[w])
      /\ ways[w].kind = "check" /\ ways[w].what \in People
      /\ UNCHANGED <<world, owner, place, board>>
  BY WayOf DEF CheckAnswered, Returned, AnswerFits, Unused
<1>2. OwnersMove
  BY <1>1, OwnersStay
<1>3. ways[w].here => place = "login" /\ board = Nobody
  BY <1>1 DEF HereFits, LoginIndInv, PagesFit
<1>4. ASSUME ways[w].here, NEW v \in Ways \ {w}, NEW d \in WayRequests, d = ways[v], HereFits(d)
      PROVE  HereFits(d)'
  <2>1. ~(d.here /\ d.kind \in {"check", "board"})
    BY <1>1, <1>3, <1>4 DEF HereFits, LoginIndInv, WaysFit, CheckHere
  <2> QED BY <1>1, <1>4, <2>1 DEF HereFits
<1>5. CASE /\ login' = IF ways[w].here
                THEN [login EXCEPT !.step = "logged_in", !.name = ways[w].what] ELSE login
           /\ Done(w) /\ UNCHANGED <<sessionVars, wiped>>
  <2>1. \A v \in Ways \ {w}, d \in WayRequests : d = ways[v] /\ HereFits(d) => HereFits(d)'
    BY <1>1, <1>4, <1>5, HereKeeps DEF sessionVars
  <2>2. WaysFit'
    BY <1>1, <1>2, <1>5, <2>1, UnusedFits, PutWayKeeps DEF Done
  <2>3. login' \in LoginRefs
    BY <1>1, <1>5 DEF LoginIndInv, PagesFit, LoginRefs, SomeoneOrNobody
  <2>4. PagesFit'
    BY <1>1, <1>5, <2>3 DEF LoginIndInv, PagesFit
  <2>5. LoginTypeOK'
    BY <1>1, <1>3, <1>5 DEF LoginIndInv, PagesFit, LoginRefs, LoginInv, LoginTypeOK, sessionVars
  <2>6. IdentityMine' /\ ShownIsStored'
    BY <1>1, <1>5 DEF HereFits, LoginIndInv, PagesFit, LoginRefs, LoginInv, IdentityMine,
       ShownIsStored, sessionVars
  <2> QED BY <2>2, <2>4, <2>5, <2>6 DEF LoginIndInv, LoginInv
<1>6. CASE /\ ClearAuth /\ wiped' = (wiped \/ ~ways[w].here)
           /\ IF world.h5 /\ ways[w].here
              THEN ways' = [ways EXCEPT ![w].kind = "list", ![w].what = "mount",
                            ![w].got = Awaited] /\ UNCHANGED login
              ELSE Done(w) /\ Sets(w, "step", "init")
  <2>1. ways[w].here => login.step # "logged_in"
    BY <1>1 DEF HereFits
  <2>2. login' \in LoginRefs /\ (login' = login
                                 \/ (ways[w].here /\ login' = [login EXCEPT !.step = "init"]
                                     /\ login'.step = "init"))
    BY <1>6 DEF Sets, LoginIndInv, PagesFit, LoginRefs
  <2>3. \A v \in Ways \ {w}, d \in WayRequests : d = ways[v] /\ HereFits(d) => HereFits(d)'
    <3>1. CASE ~ways[w].here
      BY <1>1, <1>6, <2>2, <3>1 DEF HereFits
    <3> QED BY <1>4, <3>1
  <2>4. WaysFit'
    <3>1. CASE Done(w)
      BY <1>1, <1>2, <2>3, <3>1, UnusedFits, PutWayKeeps DEF Done
    <3>2. CASE /\ world.h5 /\ ways[w].here
               /\ ways' = [ways EXCEPT ![w].kind = "list", ![w].what = "mount", ![w].got = Awaited]
      <4>1. PICK c : c = [ways[w] EXCEPT !.kind = "list", !.what = "mount", !.got = Awaited]
        OBVIOUS
      <4>2. c \in WayRequests /\ c.kind = "list" /\ c.here /\ c.got.type = "awaited"
        BY <1>1, <3>2, <4>1 DEF WayRequests, WayAnswers, Awaited
      <4>3. WayFits(c)'
        BY <1>1, <1>3, <3>2, <4>2 DEF WayFits, AnswerFits, HereFits
      <4>4. ways' = [ways EXCEPT ![w] = c]
        BY <3>2, <4>1 DEF LoginIndInv, WaysFit
      <4> QED BY <1>1, <1>2, <2>3, <4>2, <4>3, <4>4, PutWayKeeps
    <3> QED BY <1>6, <3>1, <3>2
  <2>5. PagesFit'
    BY <1>1, <1>6, <2>2 DEF LoginIndInv, PagesFit
  <2>6. LoginTypeOK'
    BY <1>1, <1>3, <1>6, <2>2 DEF ClearAuth, LoginIndInv, PagesFit, LoginRefs, LoginInv, LoginTypeOK
  <2>7. IdentityMine' /\ ShownIsStored'
    BY <1>1, <1>3, <1>6, <2>1, <2>2 DEF ClearAuth, LoginIndInv, PagesFit, LoginInv, IdentityMine,
       ShownIsStored
  <2> QED BY <2>4, <2>5, <2>6, <2>7 DEF LoginIndInv, LoginInv
<1> QED BY <1>5, <1>6 DEF CheckAnswered

\* The list of farmers of a development build was answered.
LEMMA DevListAnsweredInv ==
  ASSUME LoginIndInv, NEW w \in Ways, DevListAnswered(w)
  PROVE  LoginIndInv'
<1>1. /\ ways[w] \in WayRequests /\ AnswerFits(ways[w]) /\ HereFits(ways[w])
      /\ ways[w].kind = "list"
      /\ UNCHANGED <<world, owner, sessionVars, place, board, wiped>>
  BY WayOf DEF DevListAnswered, Returned, Unused
<1>2. place = "login" /\ world.h5
  BY <1>1 DEF HereFits, AnswerFits
<1>3. PICK devs \in SUBSET People :
        login' = IF ways[w].what = "tap"
                  THEN [login EXCEPT !.devs = devs, !.step = "dev_mode", !.busy = @ \ {"wx"}]
                  ELSE [login EXCEPT !.devs = devs, !.step = IF devs # {} THEN "dev_mode"
                        ELSE "init"]
  <2>1. login.devs \subseteq People
    BY DEF LoginIndInv, PagesFit, LoginRefs
  <2>2. ways[w].got.type = "farmers" => ways[w].got.farmers \subseteq People
    BY <1>1 DEF WayRequests, WayAnswers
  <2> QED BY <2>1, <2>2 DEF DevListAnswered
<1>4. login' \in LoginRefs /\ login'.step \in {"dev_mode", "init"}
  BY <1>3 DEF LoginIndInv, PagesFit, LoginRefs
<1>5. WaysFit'
  BY <1>1, <1>4, OwnersStay, UnusedFits, OnPageKeeps DEF DevListAnswered, Done, sessionVars
<1> QED BY <1>1, <1>2, <1>4, <1>5, LoginPageInv

\* The farmer of a login is kept, and the workbench opened.
LEMMA EntersInv ==
  ASSUME LoginIndInv, NEW w \in Ways, Enters(w),
         Returned(w, "login") \/ Returned(w, "bind") \/ Returned(w, "register")
           \/ Returned(w, "dev"),
         ways[w].got.type = "success", UNCHANGED <<world, owner>>
  PROVE  LoginIndInv'
<1>1. ways[w] \in WayRequests /\ AnswerFits(ways[w])
        /\ ways[w].kind \in {"login", "bind", "register", "dev"}
  BY WayOf DEF Returned, Unused
<1>2. PICK f \in People : f = ways[w].got.farmer
  BY <1>1 DEF WayRequests, WayAnswers
<1>3. ~world.h5 => owner[f] \in {"mine", "gone"}
  BY <1>1, <1>2 DEF AnswerFits
<1>4. WaysFit'
  <2>1. PICK c : c = Request("board", f)
    OBVIOUS
  <2>2. WayFits(c)'
    BY <1>2, <2>1, RequestFits, FreshLoginFits DEF Enters
  <2> QED BY <1>2, <2>1, <2>2, OthersOutlive DEF Enters
<1>5. PagesFit'
  BY FreshLoginFits DEF Enters, LoginIndInv, PagesFit
<1>6. LoginInv'
  BY <1>2, <1>3, FreshLoginFits DEF Enters, LoginInv, LoginTypeOK, IdentityMine, ShownIsStored
<1> QED BY <1>4, <1>5, <1>6 DEF LoginIndInv

\* An answer changes the page of login, which stays.
LEMMA StaysInv ==
  ASSUME LoginIndInv, NEW w \in Ways, NEW to,
         ways[w].kind \in {"login", "bind", "register", "dev"}, Stays(w, to),
         UNCHANGED <<world, owner>>, to \in LoginRefs,
         to.step # "logged_in" \/ (to.step = login.step /\ to.name = login.name),
         to.step = "select_farmer" => to.openid /\ to.offered # {},
         to.step = "register" => to.openid,
         to.step = "dev_mode" => world.h5
  PROVE  LoginIndInv'
<1>1. HereFits(ways[w])
  BY WayOf DEF Unused
<1>2. WaysFit'
  BY OwnersStay, UnusedFits, OnPageKeeps DEF Stays, Done, sessionVars
<1>3. CASE ways[w].here
  <2>1. place = "login" /\ login' = to
    BY <1>1, <1>3 DEF HereFits, Stays
  <2> QED BY <1>2, <2>1, LoginPageInv DEF Stays, sessionVars
<1>4. CASE ~ways[w].here
  BY <1>2, <1>4, OwnersStay, StandsInv DEF Stays
<1> QED BY <1>3, <1>4

\* A login, a binding or a registration was answered.
LEMMA PostAnsweredInv ==
  ASSUME LoginIndInv, NEW w \in Ways, PostAnswered(w)
  PROVE  LoginIndInv'
<1>1. PICK kind \in {"bind", "register", "dev"} :
        /\ Returned(w, kind)
        /\ IF ways[w].got.type = "success" THEN Enters(w)
             ELSE Stays(w, [login EXCEPT !.busy = Calm(kind)])
  BY DEF PostAnswered
<1>2. UNCHANGED <<world, owner>> /\ ways[w].kind = kind
  BY <1>1 DEF PostAnswered, Returned
<1>3. CASE ways[w].got.type = "success"
  BY <1>1, <1>2, <1>3, EntersInv
<1>4. CASE ways[w].got.type # "success"
  <2>1. PICK to : to = [login EXCEPT !.busy = Calm(kind)]
    OBVIOUS
  <2>2. /\ to \in LoginRefs /\ to.step = login.step /\ to.name = login.name
        /\ to.openid = login.openid
        /\ to.offered = login.offered
    BY <2>1 DEF Calm, LoginIndInv, PagesFit, LoginRefs
  <2>3. /\ to.step = "select_farmer" => to.openid /\ to.offered # {}
        /\ to.step = "register" => to.openid
        /\ to.step = "dev_mode" => world.h5
    BY <2>2 DEF LoginIndInv, LoginInv, LoginTypeOK
  <2>4. Stays(w, to)
    BY <1>1, <1>4, <2>1
  <2> QED BY <1>2, <2>2, <2>3, <2>4, StaysInv
<1> QED BY <1>3, <1>4

\* The login by WeChat was answered: with a farmer, with a choice, or with none.
LEMMA WxAnsweredInv ==
  ASSUME LoginIndInv, NEW w \in Ways, WxAnswered(w)
  PROVE  LoginIndInv'
<1> DEFINE got == ways[w].got
           calm == Calm("wx")
<1>1. /\ Returned(w, "login") /\ UNCHANGED <<world, owner>> /\ ways[w].kind = "login"
      /\ ways[w] \in WayRequests /\ AnswerFits(ways[w]) /\ login \in LoginRefs
      /\ calm \in SUBSET {"wx", "bind", "register", "dev"}
  BY WayOf DEF WxAnswered, Returned, Unused, Calm, LoginIndInv, PagesFit, LoginRefs
<1>2. CASE got.type = "success"
  <2>1. Enters(w)
    BY <1>2 DEF WxAnswered
  <2> QED BY <1>1, <1>2, <2>1, EntersInv
<1>3. CASE got.type = "unbound"
  <2>1. PICK to : to = [login EXCEPT !.openid = TRUE, !.offered = got.farmers,
                        !.step = "select_farmer", !.busy = calm]
    OBVIOUS
  <2>2. Stays(w, to)
    BY <1>3, <2>1 DEF WxAnswered
  <2>3. got.farmers \in SUBSET People /\ got.farmers # {}
    BY <1>1, <1>3 DEF AnswerFits, WayRequests, WayAnswers
  <2>4. to \in LoginRefs /\ to.step = "select_farmer" /\ to.openid /\ to.offered # {}
    BY <1>1, <2>1, <2>3 DEF LoginRefs
  <2> QED BY <1>1, <2>2, <2>4, StaysInv
<1>4. CASE got.type = "new_user"
  <2>1. PICK to : to = [login EXCEPT !.openid = TRUE, !.step = "register", !.busy = calm]
    OBVIOUS
  <2>2. Stays(w, to)
    BY <1>4, <2>1 DEF WxAnswered
  <2>3. to \in LoginRefs /\ to.step = "register" /\ to.openid
    BY <1>1, <2>1 DEF LoginRefs
  <2> QED BY <1>1, <2>2, <2>3, StaysInv
<1>5. CASE got.type \notin {"success", "unbound", "new_user"}
  <2>1. PICK to : to = [login EXCEPT !.step = "init", !.busy = calm]
    OBVIOUS
  <2>2. Stays(w, to)
    BY <1>5, <2>1 DEF WxAnswered
  <2>3. to \in LoginRefs /\ to.step = "init"
    BY <1>1, <2>1 DEF LoginRefs
  <2> QED BY <1>1, <2>2, <2>3, StaysInv
<1> QED BY <1>2, <1>3, <1>4, <1>5

\* Taps that send nothing.
LEMMA TapInv ==
  ASSUME LoginIndInv, (\E f \in People : Select(f)) \/ ToRegister \/ Back
  PROVE  LoginIndInv'
<1>1. /\ place = "login" /\ UNCHANGED <<world, owner, sessionVars, place, board, wiped, ways>>
  BY DEF Select, ToRegister, Back, OnLoginPage
<1>2. /\ login' \in LoginRefs /\ login'.openid = login.openid /\ login'.offered = login.offered
      /\ login'.step \in {"select_farmer", "register", "init"}
      /\ login.step \in {"select_farmer", "register"}
      /\ login'.step = "select_farmer" => login.offered # {}
      /\ login'.step = "register" => login.openid
  BY DEF Select, ToRegister, Back, LoginIndInv, PagesFit, LoginRefs, SomeoneOrNobody, LoginInv,
     LoginTypeOK
<1>3. login'.step = "select_farmer" => login.openid
  BY <1>2 DEF LoginIndInv, LoginInv, LoginTypeOK
<1>4. WaysFit'
  <2>1. ASSUME NEW v \in Ways PROVE WayFits(ways[v])'
    <3>1. PICK d : d = ways[v]
      OBVIOUS
    <3> QED BY <1>1, <1>2, <3>1 DEF LoginIndInv, WaysFit, WayFits, AnswerFits, HereFits, sessionVars
  <2> QED BY <1>1, <2>1 DEF LoginIndInv, WaysFit, CheckHere
<1> QED BY <1>1, <1>2, <1>3, <1>4, LoginPageInv

\* Taps that send a request.
LEMMA AskedInv ==
  ASSUME LoginIndInv, NEW kind \in {"login", "bind", "register", "dev", "list"},
         NEW what \in SomeoneOrNobody \cup {"mount", "tap"}, Asks(kind, what), OnLoginPage,
         kind \in {"bind", "dev"} => what \in People, kind \in {"dev", "list"} => world.h5,
         login' \in LoginRefs, login'.openid = login.openid, login'.offered = login.offered,
         login'.name = login.name,
         login'.step = "loading" \/ login'.step = login.step
  PROVE  LoginIndInv'
<1>1. PICK w \in Ways : ways' = [ways EXCEPT ![w] = Request(kind, what)]
  BY DEF Asks
<1>2. PICK c : c = Request(kind, what)
  OBVIOUS
<1>3. WayFits(c)' /\ c.kind = kind
  BY <1>2, LoginAsksFits DEF OnLoginPage
<1>4. WaysFit'
  BY <1>1, <1>2, <1>3, OwnersStay, OnPageKeeps DEF OnLoginPage, sessionVars
<1>5. /\ login'.step = "select_farmer" => login'.openid /\ login'.offered # {}
      /\ login'.step = "register" => login'.openid
      /\ login'.step = "dev_mode" => world.h5
  BY DEF LoginIndInv, LoginInv, LoginTypeOK
<1>6. login'.step # "logged_in" \/ (login'.step = "logged_in" /\ login.step = "logged_in"
                                    /\ login'.name = login.name)
  OBVIOUS
<1>7. UNCHANGED <<world, owner, sessionVars, place, board, wiped>> /\ place = "login"
  BY DEF OnLoginPage
<1> QED BY <1>4, <1>5, <1>6, <1>7, LoginPageInv

\* The buttons of the page of login that send a request.
LEMMA SubmitInv ==
  ASSUME LoginIndInv, StartWxLogin \/ ConfirmBind \/ ConfirmRegister \/ ConfirmDevLogin
  PROVE  LoginIndInv'
<1>1. login \in LoginRefs /\ Nobody \in SomeoneOrNobody
  BY DEF LoginIndInv, PagesFit, SomeoneOrNobody
<1>2. ASSUME NEW kind \in {"wx", "bind", "register", "dev"}
      PROVE  LET to == [login EXCEPT !.busy = @ \cup {kind}]
             IN  to \in LoginRefs /\ to.openid = login.openid /\ to.offered = login.offered
                   /\ to.name = login.name
                 /\ to.step = login.step
  BY <1>1 DEF LoginRefs
<1>3. CASE StartWxLogin
  <2>1. CASE world.h5
    BY <1>2, <1>3, <2>1, AskedInv DEF StartWxLogin
  <2>2. CASE ~world.h5
    <3>1. PICK to : to = [login EXCEPT !.busy = @ \cup {"wx"}, !.step = "loading"]
      OBVIOUS
    <3>2. to \in LoginRefs /\ to.openid = login.openid /\ to.offered = login.offered
            /\ to.name = login.name /\ to.step = "loading"
      BY <1>1, <3>1 DEF LoginRefs
    <3> QED BY <1>1, <1>3, <2>2, <3>1, <3>2, AskedInv DEF StartWxLogin
  <2> QED BY <2>1, <2>2
<1>4. CASE ConfirmBind
  <2>1. login.selected \in People
    BY <1>1, <1>4 DEF ConfirmBind, LoginRefs, SomeoneOrNobody
  <2> QED BY <1>2, <1>4, <2>1, AskedInv DEF ConfirmBind, PostsOnce, SomeoneOrNobody
<1>5. CASE ConfirmRegister
  BY <1>1, <1>2, <1>5, AskedInv DEF ConfirmRegister, PostsOnce
<1>6. CASE ConfirmDevLogin
  <2>1. PICK f \in login.devs : login' = [login EXCEPT !.selected = f, !.busy = @ \cup {"dev"}]
               /\ Asks("dev", f)
    BY <1>6 DEF ConfirmDevLogin
  <2>2. world.h5 /\ f \in People
    BY <1>1, <1>6 DEF ConfirmDevLogin, LoginIndInv, LoginInv, LoginTypeOK, LoginRefs
  <2>3. login' \in LoginRefs /\ login'.openid = login.openid /\ login'.offered = login.offered
          /\ login'.name = login.name
        /\ login'.step = login.step
    BY <1>1, <2>1, <2>2 DEF LoginRefs, SomeoneOrNobody
  <2> QED BY <1>6, <2>1, <2>2, <2>3, AskedInv DEF ConfirmDevLogin, SomeoneOrNobody
<1> QED BY <1>3, <1>4, <1>5, <1>6

\* The workbench asks for its farmer, is answered, and sends the user back.
LEMMA BoardInv ==
  ASSUME LoginIndInv, LoadBoard \/ \E w \in Ways : BoardAnswered(w)
  PROVE  LoginIndInv'
<1>1. farmerId \in SomeoneOrNobody /\ fosterToken = farmerId
  BY DEF LoginIndInv, LoginInv, LoginTypeOK, IdentityMine, SomeoneOrNobody
<1>2. CASE LoadBoard /\ farmerId = Nobody
  BY <1>1, <1>2, MountInv DEF LoadBoard, sessionVars
<1>3. CASE LoadBoard /\ farmerId # Nobody
  <2>1. /\ place = "workbench" /\ UNCHANGED <<world, owner, sessionVars, place, login, board,
                                              wiped>>
        /\ Asks("board", farmerId)
    BY <1>3 DEF LoadBoard
  <2>2. PICK v \in Ways : ways' = [ways EXCEPT ![v] = Request("board", farmerId)]
    BY <2>1 DEF Asks
  <2>3. PICK c : c = Request("board", farmerId)
    OBVIOUS
  <2>4. WayFits(c)' /\ c.kind = "board"
    BY <1>1, <1>3, <2>1, <2>3, LoginAsksFits DEF SomeoneOrNobody, sessionVars
  <2>5. WaysFit'
    BY <2>1, <2>2, <2>3, <2>4, OwnersStay, OnPageKeeps DEF sessionVars
  <2> QED BY <2>1, <2>5, OwnersStay, StandsInv
<1>4. ASSUME NEW w \in Ways, BoardAnswered(w) PROVE LoginIndInv'
  <2>1. /\ ways[w].kind = "board" /\ AnswerFits(ways[w]) /\ HereFits(ways[w])
        /\ UNCHANGED <<world, owner, sessionVars, place, login, wiped>>
    BY <1>4, WayOf DEF BoardAnswered, Returned, Unused
  <2>2. place = "workbench" /\ ways[w].what \in People /\ (~wiped => ways[w].what = farmerId)
    BY <2>1 DEF AnswerFits, HereFits
  <2>3. WaysFit'
    BY <1>4, <2>1, OwnersStay, UnusedFits, OnPageKeeps DEF BoardAnswered, Done, sessionVars
  <2>4. board' \in {ways[w].what, board}
    BY <1>4 DEF BoardAnswered
  <2>5. PagesFit'
    BY <2>1, <2>2 DEF LoginIndInv, PagesFit
  <2>6. LoginInv'
    BY <2>1, <2>2, <2>4 DEF LoginIndInv, LoginInv, LoginTypeOK, IdentityMine, ShownIsStored,
       sessionVars, FreshLogin
  <2> QED BY <2>3, <2>5, <2>6 DEF LoginIndInv
<1> QED BY <1>2, <1>3, <1>4

\* Every step of the login keeps the invariant.
LEMMA LoginStepInv == LoginIndInv /\ [LoginNext]_loginVars => LoginIndInv'
<1> SUFFICES ASSUME LoginIndInv, [LoginNext]_loginVars PROVE LoginIndInv'
  OBVIOUS
<1>1. CASE UNCHANGED loginVars
  BY <1>1 DEF loginVars, sessionVars, LoginIndInv, LoginInv, LoginTypeOK, IdentityMine,
     ShownIsStored, FreshLogin,
     PagesFit, WaysFit, WayFits, AnswerFits, HereFits, CheckHere
<1>2. ASSUME NEW w \in Ways, WayGoesOn(w) PROVE LoginIndInv'
  BY <1>2, ReachesInv, CheckAnsweredInv, DevListAnsweredInv, WxAnsweredInv, PostAnsweredInv,
     BoardInv DEF WayGoesOn
<1> QED
  BY <1>1, <1>2, TapInv, BoardInv, PageInv, SubmitInv, ElsewhereInv DEF LoginNext

\* Whatever requests cross or outlive their page, the farmer in storage is one that
\* the user was given, and the page shows that one (login/index.vue, workbench/index.vue).
THEOREM IdentityIsTheFarmers == LoginSpec => []LoginInv
<1>1. LoginIndInv => LoginInv
  BY DEF LoginIndInv
<1> QED BY <1>1, LoginInitInv, LoginStepInv, PTL DEF LoginSpec

(***************************************************************************)
(* The farmer's pages.                                                     *)
(*                                                                         *)
(* ShownTracks says when the rows of a page that nothing overtook are      *)
(* those of the table, PostsFit what a request on its way may carry, and   *)
(* DialogFits that the photo in the form is that of the pig it was opened  *)
(* for, which is what a save sends.                                        *)
(***************************************************************************)

\* What each page lists.
LEMMA EntriesAre ==
  /\ Entries("pigs") = Pigs
  /\ \A t : Entries(t) \in {Chores, Pigs, {}}
<1>1. ASSUME NEW t PROVE Entries(t) \in {Chores, Pigs, {}}
  <2>1. CASE t = "pigs"
    BY <2>1 DEF Entries
  <2>2. CASE t = "earnings"
    BY <2>2 DEF Entries
  <2>3. CASE t \notin {"pigs", "earnings"}
    BY <2>3 DEF Entries
  <2> QED BY <2>1, <2>2, <2>3
<1> QED BY <1>1 DEF Entries

ShownValues == {"pending", "in_progress", "done", Nil} \cup Weights
TableFits ==
  /\ table \in [Chores \cup Pigs -> ShownValues \cup {"gone"}]
  /\ \A g \in Pigs : table[g] \in Weights \cup {Nil}
RowsFit(listing) ==
  /\ listing = [r \in DOMAIN listing |-> listing[r]] /\ DOMAIN listing \subseteq Entries(tab)
  /\ \A r \in DOMAIN listing : listing[r] \in ShownValues

\* A listing has each row as the table has it, those of `except` apart.
Agrees(listing, except) ==
  \A r \in Entries(tab) \ except :
    /\ r \in DOMAIN listing <=> table[r] # "gone"
    /\ r \in DOMAIN listing => listing[r] = table[r]

CheckinPosts == [kind : {"checkin", "checked"}, row : Chores, here : BOOLEAN]
SavePosts ==
  [kind : {"save", "saved"}, row : Pigs, weight : Weights \cup {Nil}, photo : Pigs \cup {Nil},
   here : BOOLEAN]
PostFits(c) ==
  /\ c.kind \in {"free", "load", "loaded", "checkin", "checked", "save", "saved"}
  /\ c.kind = "free" => c = NoPost
  /\ c.kind \in {"checkin", "checked"} => c \in CheckinPosts
  /\ c.kind \in {"save", "saved"} => c \in SavePosts /\ (c.weight # Nil => c.photo = c.row)
  /\ c.kind \in {"checked", "saved"} => c.here
  /\ c.kind = "loaded" => /\ c = [kind |-> "loaded", rows |-> c.rows, missed |-> c.missed]
                          /\ RowsFit(c.rows) /\ Agrees(c.rows, c.missed)
  /\ c.kind = "checked" => table[c.row] \in {"done", "gone"}
PostsFit == DOMAIN posts = Posts /\ \A p \in Posts : PostFits(posts[p])

DialogFits ==
  /\ dialog \in [editPig : Pigs \cup {Nil}, photo : Pigs \cup {Nil}, choosing : Pigs \cup {Nil}]
  /\ dialog.editPig # Nil => /\ tab = "pigs" /\ dialog.photo \in {Nil, dialog.editPig}
                             /\ dialog.choosing \in {Nil, dialog.editPig}

\* A row that was written, with its answer on its way.
AnswerComes(r) == \E p \in Posts : posts[p].kind \in {"checked", "saved"} /\ posts[p].row = r
ShownTracks ==
  ~fosterLoading =>
    \A r \in Entries(tab) \ outdated :
      /\ r \in DOMAIN shown <=> table[r] # "gone"
      /\ r \in DOMAIN shown => shown[r] = table[r] \/ AnswerComes(r)
FlagsFit == fosterLoading \in BOOLEAN

FosterIndInv == TableFits /\ RowsFit(shown) /\ PostsFit /\ DialogFits /\ ShownTracks /\ FlagsFit

\* The rows that the backend answers fit the page that asks.
LEMMA RowsAre ==
  ASSUME TableFits
  PROVE  /\ DOMAIN Rows(tab) = {e \in Entries(tab) : table[e] # "gone"}
         /\ \A r \in DOMAIN Rows(tab) : Rows(tab)[r] = table[r]
         /\ Rows(tab) = [r \in DOMAIN Rows(tab) |-> table[r]]
         /\ RowsFit(Rows(tab)) /\ Agrees(Rows(tab), {})
<1>1. /\ DOMAIN Rows(tab) = {e \in Entries(tab) : table[e] # "gone"}
      /\ \A r \in DOMAIN Rows(tab) : Rows(tab)[r] = table[r]
      /\ Rows(tab) = [r \in DOMAIN Rows(tab) |-> table[r]]
  BY DEF Rows
<1>2. Entries(tab) \subseteq Chores \cup Pigs
  BY EntriesAre
<1>3. RowsFit(Rows(tab))
  BY <1>1, <1>2 DEF RowsFit, TableFits
<1>4. Agrees(Rows(tab), {})
  BY <1>1 DEF Agrees
<1> QED BY <1>1, <1>3, <1>4

\* The invariant has the module's properties.
LEMMA FosterIndInvImplies == FosterIndInv => FosterPagesInv
<1> SUFFICES ASSUME FosterIndInv PROVE FosterPagesInv
  OBVIOUS
<1>1. FosterPagesTypeOK
  BY DEF FosterIndInv, FosterPagesTypeOK, RowsFit, ShownValues, DialogFits
<1>2. PhotoOfPig
  BY DEF FosterIndInv, PostsFit, PostFits, PhotoOfPig, Is
<1>3. ShownCurrent
  BY DEF FosterIndInv, ShownTracks, AnswerComes, ShownCurrent
<1> QED BY <1>1, <1>2, <1>3 DEF FosterPagesInv

\* It holds at first.
LEMMA FosterInitInv == FosterPagesInit => FosterIndInv
<1> SUFFICES ASSUME FosterPagesInit PROVE FosterIndInv
  OBVIOUS
<1>1. TableFits
  BY DEF FosterPagesInit, TableFits, ShownValues
<1>2. \A p \in Posts : posts[p] \in {LoadRows, NoPost}
  BY DEF FosterPagesInit
<1>3. PostsFit
  BY <1>2 DEF PostsFit, PostFits, LoadRows, NoPost, FosterPagesInit
<1> QED
  BY <1>1, <1>3 DEF FosterPagesInit, FosterIndInv, RowsFit, DialogFits, ShownTracks, FlagsFit,
     Empty, Closed

\* One request is replaced on the page that is open.
LEMMA PutPostKeeps ==
  ASSUME FosterIndInv, NEW p \in Posts, NEW c, PostFits(c)', posts' = [posts EXCEPT ![p] = c],
         UNCHANGED <<table, tab>>
  PROVE  PostsFit'
<1>1. ASSUME NEW q \in Posts PROVE PostFits(posts[q])'
  <2>1. PICK d : d = posts[q]
    OBVIOUS
  <2>2. PostFits(d) => PostFits(d)'
    BY DEF PostFits, RowsFit, Agrees, CheckinPosts
  <2>3. posts'[q] = IF q = p THEN c ELSE d
    BY <2>1 DEF FosterIndInv, PostsFit
  <2> QED BY <2>1, <2>2, <2>3 DEF FosterIndInv, PostsFit
<1> QED BY <1>1 DEF FosterIndInv, PostsFit

\* The invariant while the table and the rows on the page stand.
LEMMA RowsStand ==
  ASSUME FosterIndInv, UNCHANGED <<table, tab, shown>>, PostsFit', DialogFits',
         fosterLoading' \in BOOLEAN, ShownTracks'
  PROVE  FosterIndInv'
  BY DEF FosterIndInv, TableFits, RowsFit, FlagsFit

\* The dialog stays while the page does.
LEMMA DialogStands ==
  ASSUME FosterIndInv, UNCHANGED <<tab, dialog>>
  PROVE  DialogFits'
  BY DEF FosterIndInv, DialogFits

\* A request is sent, while nothing else moves.
LEMMA PostInv ==
  ASSUME FosterIndInv, NEW c, Post(c), PostFits(c)', c.kind \notin {"checked", "saved"},
         DialogFits',
         UNCHANGED <<table, tab, shown, outdated>>, fosterLoading' \in {fosterLoading, TRUE}
  PROVE  FosterIndInv'
<1>1. PICK p \in Posts : posts[p] = NoPost /\ posts' = [posts EXCEPT ![p] = c]
  BY DEF Post, FreePost
<1>2. PostsFit'
  BY <1>1, PutPostKeeps
<1>3. \A r : AnswerComes(r) => AnswerComes(r)'
  BY <1>1 DEF AnswerComes, NoPost, FosterIndInv, PostsFit
<1>4. ShownTracks'
  BY <1>3 DEF FosterIndInv, ShownTracks
<1> QED BY <1>2, <1>4, RowsStand DEF FosterIndInv, FlagsFit

\* A page is shown again, and loads.
LEMMA LoadTabInv ==
  ASSUME FosterIndInv, LoadTab
  PROVE  FosterIndInv'
<1>1. PostFits(LoadRows)' /\ LoadRows.kind = "load"
  BY DEF PostFits, LoadRows
<1> QED BY <1>1, PostInv, DialogStands DEF LoadTab

\* A task is checked in.
LEMMA CheckinInv ==
  ASSUME FosterIndInv, NEW t \in Chores, Checkin(t)
  PROVE  FosterIndInv'
<1>1. PICK c : c = [kind |-> "checkin", row |-> t, here |-> TRUE]
  OBVIOUS
<1>2. PostFits(c)' /\ c.kind = "checkin"
  BY <1>1 DEF PostFits, CheckinPosts
<1> QED BY <1>1, <1>2, PostInv, DialogStands DEF Checkin, FosterIndInv, FlagsFit

\* The weighing of a pig is saved.
LEMMA DoSaveInv ==
  ASSUME FosterIndInv, DoSave
  PROVE  FosterIndInv'
<1>1. PICK weight \in Weights \cup {Nil} :
        /\ weight # Nil => dialog.photo # Nil
        /\ Post([kind |-> "save", row |-> dialog.editPig, weight |-> weight,
                 photo |-> IF weight = Nil THEN Nil ELSE dialog.photo, here |-> TRUE])
  BY DEF DoSave
<1>2. dialog.editPig \in Pigs /\ (weight # Nil => dialog.photo = dialog.editPig)
  BY <1>1 DEF DoSave, InDialog, FosterIndInv, DialogFits
<1>3. PICK c : c = [kind |-> "save", row |-> dialog.editPig, weight |-> weight,
                    photo |-> IF weight = Nil THEN Nil ELSE dialog.photo, here |-> TRUE]
  OBVIOUS
<1>4. PostFits(c)' /\ c.kind = "save"
  BY <1>2, <1>3 DEF PostFits, SavePosts
<1>5. DialogFits'
  BY DialogStands DEF DoSave, InDialog
<1> QED BY <1>1, <1>3, <1>4, <1>5, PostInv DEF DoSave, InDialog, FosterIndInv, FlagsFit

\* Steps of the dialog alone.
LEMMA EditInv ==
  ASSUME FosterIndInv, (\E pig \in Pigs : OpenEdit(pig)) \/ CloseEdit \/ EditPhoto \/ Chosen
  PROVE  FosterIndInv'
<1>1. UNCHANGED <<table, tab, shown, fosterLoading, posts, outdated>>
  BY DEF OpenEdit, CloseEdit, EditPhoto, Chosen, InDialog
<1>2. DialogFits'
  <2>1. ASSUME NEW pig \in Pigs, OpenEdit(pig) PROVE DialogFits'
    BY <2>1 DEF OpenEdit, Closed, FosterIndInv, DialogFits
  <2>2. CASE CloseEdit
    BY <2>2 DEF CloseEdit, InDialog, FosterIndInv, DialogFits
  <2>3. CASE EditPhoto
    BY <2>3 DEF EditPhoto, InDialog, FosterIndInv, DialogFits
  <2>4. CASE Chosen
    BY <2>4 DEF Chosen, FosterIndInv, DialogFits
  <2> QED BY <2>1, <2>2, <2>3, <2>4
<1>3. PostsFit' /\ ShownTracks'
  BY <1>1 DEF FosterIndInv, PostsFit, PostFits, RowsFit, Agrees, ShownTracks, AnswerComes
<1> QED BY <1>1, <1>2, <1>3, RowsStand DEF FosterIndInv, FlagsFit

\* A slot holds a request that fits.
LEMMA PostOf ==
  ASSUME FosterIndInv, NEW p \in Posts
  PROVE  PostFits(posts[p]) /\ DOMAIN posts = Posts
  BY DEF FosterIndInv, PostsFit

\* A free slot fits any state.
LEMMA NoPostFits == PostFits(NoPost)' /\ NoPost.kind = "free"
  BY DEF PostFits, NoPost

\* A request is dropped.
LEMMA AnswersKeeps ==
  ASSUME FosterIndInv, NEW p \in Posts, Answers(p), UNCHANGED <<table, tab>>
  PROVE  /\ PostsFit'
         /\ \A r : AnswerComes(r) => AnswerComes(r)'
              \/ (posts[p].kind \in {"checked", "saved"} /\ posts[p].row = r)
<1>1. PostsFit'
  BY NoPostFits, PutPostKeeps DEF Answers
<1> QED BY <1>1, PostOf DEF Answers, AnswerComes

\* The rows of a page were answered.
LEMMA RowsAnsweredInv ==
  ASSUME FosterIndInv, NEW p \in Posts, RowsAnswered(p)
  PROVE  FosterIndInv'
<1>1. PostsFit' /\ DialogFits'
  BY AnswersKeeps, DialogStands DEF RowsAnswered
<1>2. RowsFit(shown)'
  BY PostOf DEF RowsAnswered, Is, PostFits, RowsFit
<1>3. ShownTracks'
  BY PostOf DEF RowsAnswered, Is, PostFits, Agrees, ShownTracks
<1> QED BY <1>1, <1>2, <1>3 DEF RowsAnswered, FosterIndInv, TableFits, FlagsFit

\* A request fails.
LEMMA PostFailsInv ==
  ASSUME FosterIndInv, NEW p \in Posts, PostFails(p)
  PROVE  FosterIndInv'
<1>1. PostsFit' /\ DialogFits'
  BY AnswersKeeps, DialogStands DEF PostFails
<1>2. fosterLoading' \in BOOLEAN
  BY DEF PostFails, FosterIndInv, FlagsFit
<1>3. CASE posts[p].kind \in {"load", "loaded"}
  <2>1. Entries(tab) \subseteq outdated'
    BY <1>3 DEF PostFails
  <2>2. ShownTracks'
    BY <2>1 DEF PostFails, ShownTracks
  <2> QED BY <1>1, <1>2, <2>2, RowsStand DEF PostFails
<1>4. CASE posts[p].kind \notin {"load", "loaded"}
  <2>1. /\ outdated \subseteq outdated' /\ fosterLoading' = fosterLoading
        /\ posts[p].kind \in {"checked", "saved"} => posts[p].row \in outdated'
    BY <1>4 DEF PostFails, FosterIndInv, FlagsFit
  <2>2. \A r : AnswerComes(r) => AnswerComes(r)' \/ r \in outdated'
    BY <2>1, AnswersKeeps DEF PostFails
  <2>3. ShownTracks'
    BY <2>1, <2>2 DEF PostFails, FosterIndInv, ShownTracks
  <2> QED BY <1>1, <1>2, <2>3, RowsStand DEF PostFails
<1> QED BY <1>3, <1>4

\* A check-in was answered.
LEMMA CheckinAnsweredInv ==
  ASSUME FosterIndInv, NEW p \in Posts, CheckinAnswered(p)
  PROVE  FosterIndInv'
<1>1. PostsFit' /\ DialogFits'
  BY AnswersKeeps, DialogStands DEF CheckinAnswered
<1>2. posts[p].kind = "checked" /\ posts[p].row \in Chores
        /\ table[posts[p].row] \in {"done", "gone"}
  BY PostOf DEF CheckinAnswered, Is, PostFits, CheckinPosts
<1>3. DOMAIN shown' = DOMAIN shown /\ \A r \in DOMAIN shown : shown'[r] = IF r = posts[p].row
        THEN "done" ELSE shown[r]
  BY DEF CheckinAnswered, FosterIndInv, RowsFit
<1>4. RowsFit(shown)'
  BY <1>3 DEF CheckinAnswered, FosterIndInv, RowsFit, ShownValues
<1>5. ShownTracks'
  <2>1. \A r : r # posts[p].row /\ AnswerComes(r) => AnswerComes(r)'
    BY AnswersKeeps DEF CheckinAnswered
  <2> QED BY <1>2, <1>3, <2>1 DEF CheckinAnswered, FosterIndInv, ShownTracks
<1> QED BY <1>1, <1>4, <1>5 DEF CheckinAnswered, FosterIndInv, TableFits, FlagsFit

\* A weighing was answered.
LEMMA SaveAnsweredInv ==
  ASSUME FosterIndInv, NEW p \in Posts, SaveAnswered(p)
  PROVE  FosterIndInv'
<1>1. PostFits(LoadRows)'
  BY DEF PostFits, LoadRows
<1>2. PostsFit'
  BY <1>1, PutPostKeeps DEF SaveAnswered
<1>3. DialogFits' /\ ShownTracks' /\ fosterLoading' /\ fosterLoading' \in BOOLEAN
  BY DEF SaveAnswered, FosterIndInv, FlagsFit, DialogFits, ShownTracks
<1> QED BY <1>2, <1>3, RowsStand DEF SaveAnswered

\* The tab bar opens another page: what is on its way is no longer of it.
LEMMA GoTabInv ==
  ASSUME FosterIndInv, NEW t, GoTab(t)
  PROVE  FosterIndInv'
<1> DEFINE left == [p \in Posts |-> IF posts[p].kind \in {"checkin", "save"}
                                    THEN [posts[p] EXCEPT !.here = FALSE] ELSE NoPost]
<1>1. PICK p \in Posts : posts' = [left EXCEPT ![p] = LoadRows]
  BY DEF GoTab
<1>2. ASSUME NEW q \in Posts PROVE PostFits(posts[q])'
  <2>1. PICK c : c = posts[q]
    OBVIOUS
  <2>2. PICK d : d = IF c.kind \in {"checkin", "save"} THEN [c EXCEPT !.here = FALSE] ELSE NoPost
    OBVIOUS
  <2>3. PostFits(d)'
    <3>1. CASE c.kind \in {"checkin", "save"}
      <4>1. PostFits(c)
        BY <2>1, PostOf
      <4> QED BY <2>2, <3>1, <4>1 DEF PostFits, CheckinPosts, SavePosts
    <3>2. CASE c.kind \notin {"checkin", "save"}
      BY <2>2, <3>2, NoPostFits
    <3> QED BY <3>1, <3>2
  <2>4. PostFits(LoadRows)'
    BY DEF PostFits, LoadRows
  <2>5. posts'[q] = IF q = p THEN LoadRows ELSE d
    BY <1>1, <2>1, <2>2
  <2> QED BY <2>3, <2>4, <2>5
<1>3. PostsFit'
  BY <1>1, <1>2 DEF PostsFit
<1>4. RowsFit(shown)' /\ DialogFits' /\ ShownTracks'
  BY DEF GoTab, Empty, Closed, RowsFit, DialogFits, ShownTracks
<1> QED BY <1>3, <1>4 DEF GoTab, FosterIndInv, TableFits, FlagsFit

\* The backend reads the rows.
LEMMA GetRowsInv ==
  ASSUME FosterIndInv, NEW p \in Posts, AtBackend(p), GetRows(p)
  PROVE  FosterIndInv'
<1>1. PICK c : c = [kind |-> "loaded", rows |-> Rows(tab), missed |-> {}]
  OBVIOUS
<1>2. /\ posts' = [posts EXCEPT ![p] = c] /\ posts[p].kind = "load" /\ UNCHANGED <<table, outdated>>
      /\ UNCHANGED <<tab, shown, fosterLoading, dialog>>
  BY <1>1 DEF GetRows, Is, AtBackend
<1>3. RowsFit(c.rows) /\ Agrees(c.rows, c.missed)
  BY <1>1, RowsAre DEF FosterIndInv
<1>4. PostFits(c)'
  BY <1>1, <1>2, <1>3 DEF PostFits, RowsFit, Agrees
<1>5. PostsFit' /\ DialogFits'
  BY <1>2, <1>4, PutPostKeeps, DialogStands
<1>6. \A r : AnswerComes(r) => AnswerComes(r)'
  BY <1>2, PostOf DEF AnswerComes
<1>7. ShownTracks'
  BY <1>2, <1>6 DEF FosterIndInv, ShownTracks
<1> QED BY <1>2, <1>5, <1>7, RowsStand DEF FosterIndInv, FlagsFit

\* A row is written: the loads read before have it among the rows they missed.
LEMMA UnseenKeeps ==
  ASSUME FosterIndInv, NEW base, NEW e, posts' = Unseen(e, base), UNCHANGED tab,
         \A q \in Posts : base[q] = posts[q] \/ (PostFits(base[q])' /\ base[q].kind # "loaded"),
         \A r \in Entries(tab) \ {e} : table'[r] = table[r],
         \A r \in Chores : table[r] \in {"done", "gone"} => table'[r] \in {"done", "gone"}
  PROVE  PostsFit'
<1>1. ASSUME NEW q \in Posts PROVE PostFits(posts[q])'
  <2>1. PICK d : d = base[q]
    OBVIOUS
  <2>2. PICK u : u = [d EXCEPT !.missed = @ \cup {e}]
    OBVIOUS
  <2>3. posts'[q] = IF d.kind = "loaded" THEN u ELSE d
    BY <2>1, <2>2 DEF Unseen
  <2>4. CASE d = posts[q] /\ d.kind = "loaded"
    <3>1. PostFits(d)
      BY <2>4, PostOf
    <3>2. u = [kind |-> "loaded", rows |-> d.rows, missed |-> d.missed \cup {e}]
            /\ RowsFit(d.rows) /\ Agrees(d.rows, d.missed)
      BY <2>2, <2>4, <3>1 DEF PostFits
    <3>3. RowsFit(d.rows)' /\ Agrees(d.rows, d.missed \cup {e})'
      BY <3>2 DEF RowsFit, Agrees
    <3>4. PostFits(u)'
      BY <3>2, <3>3 DEF PostFits
    <3> QED BY <2>3, <2>4, <3>4
  <2>5. CASE d = posts[q] /\ d.kind # "loaded"
    <3>1. PostFits(d)
      BY <2>5, PostOf
    <3>2. PostFits(d)'
      BY <2>5, <3>1 DEF PostFits, CheckinPosts
    <3> QED BY <2>3, <2>5, <3>2
  <2>6. CASE PostFits(d)' /\ d.kind # "loaded"
    BY <2>3, <2>6
  <2> QED BY <2>1, <2>4, <2>5, <2>6
<1> QED BY <1>1 DEF Unseen, PostsFit

\* The page that is open is answered, one that was left leaves the row outdated on this one.
LEMMA WrittenInv ==
  ASSUME FosterIndInv, NEW p \in Posts, AtBackend(p), NEW c, NEW e,
         posts' = Unseen(e, [posts EXCEPT ![p] = c]), PostFits(c)', c.kind # "loaded", TableFits',
         \A r \in Entries(tab) \ {e} : table'[r] = table[r],
         \A r \in Chores : table[r] \in {"done", "gone"} => table'[r] \in {"done", "gone"},
         e \in outdated' \/ (/\ c.kind \in {"checked", "saved"} /\ c.row = e
                             /\ e \in Entries(tab) => (table'[e] = "gone" <=> table[e] = "gone")),
         posts[p].kind \in {"checkin", "save"}
  PROVE  FosterIndInv'
<1>1. UNCHANGED <<tab, shown, fosterLoading, dialog>> /\ outdated \subseteq outdated'
  BY DEF AtBackend
<1>2. PICK base : base = [posts EXCEPT ![p] = c]
  OBVIOUS
<1>3. \A q \in Posts : base[q] = IF q = p THEN c ELSE posts[q]
  BY <1>2, PostOf
<1>4. PostsFit' /\ DialogFits'
  <2>1. posts' = Unseen(e, base)
    BY <1>2
  <2>2. \A q \in Posts : base[q] = posts[q] \/ (PostFits(base[q])' /\ base[q].kind # "loaded")
    BY <1>3
  <2>3. PostsFit'
    BY <1>1, <2>1, <2>2, UnseenKeeps
  <2> QED BY <1>1, <2>3, DialogStands
<1>5. \A q \in Posts : posts'[q].kind = base[q].kind
        /\ (base[q].kind # "loaded" => posts'[q] = base[q])
  BY <1>2, <1>3, PostOf DEF Unseen, PostFits
<1>6. \A r : AnswerComes(r) => AnswerComes(r)'
  BY <1>3, <1>5 DEF AnswerComes
<1>7. e \in outdated' \/ (AnswerComes(e)'
                          /\ (e \in Entries(tab) => (table'[e] = "gone" <=> table[e] = "gone")))
  BY <1>3, <1>5 DEF AnswerComes
<1>8. ShownTracks'
  BY <1>1, <1>6, <1>7 DEF FosterIndInv, ShownTracks
<1> QED BY <1>1, <1>4, <1>8 DEF FosterIndInv, FlagsFit, RowsFit

\* The backend writes a check-in.
LEMMA CheckinTaskInv ==
  ASSUME FosterIndInv, NEW p \in Posts, AtBackend(p), CheckinTask(p)
  PROVE  FosterIndInv'
<1>1. PICK d : d = posts[p]
  OBVIOUS
<1>2. /\ PostFits(d) /\ d.kind = "checkin" /\ d \in CheckinPosts /\ d.row \in Chores
      /\ table[d.row] # "gone"
      /\ table' = [table EXCEPT ![d.row] = "done"] /\ (~d.here => d.row \in outdated')
  BY <1>1, PostOf DEF CheckinTask, Is, PostFits, AtBackend, CheckinPosts
<1>3. PICK c : c = IF d.here THEN [d EXCEPT !.kind = "checked"] ELSE NoPost
  OBVIOUS
<1>4. posts' = Unseen(d.row, [posts EXCEPT ![p] = c])
  BY <1>1, <1>3, PostOf DEF CheckinTask, AnswerTo
<1>5. TableFits'
  BY <1>2, ChoresAreNotPigs DEF FosterIndInv, TableFits, ShownValues
<1>6. /\ d.here => c.kind = "checked" /\ c.row = d.row /\ c.here /\ c \in CheckinPosts
      /\ ~d.here => c = NoPost
  BY <1>2, <1>3 DEF CheckinPosts
<1>7. table'[d.row] = "done"
  BY <1>2 DEF FosterIndInv, TableFits
<1>8. PostFits(c)' /\ c.kind # "loaded"
  <2>1. CASE d.here
    BY <1>2, <1>6, <1>7, <2>1 DEF PostFits
  <2>2. CASE ~d.here
    BY <1>6, <2>2, NoPostFits
  <2> QED BY <2>1, <2>2 DEF CheckinPosts
<1>9. /\ \A r \in Chores : table[r] \in {"done", "gone"} => table'[r] \in {"done", "gone"}
      /\ \A r \in Entries(tab) \ {d.row} : table'[r] = table[r]
  BY <1>2, EntriesAre DEF FosterIndInv, TableFits
<1> QED BY <1>1, <1>2, <1>4, <1>5, <1>6, <1>7, <1>8, <1>9, WrittenInv DEF CheckinPosts

\* The backend writes a weighing.
LEMMA FarmerUpdatePigInv ==
  ASSUME FosterIndInv, NEW p \in Posts, AtBackend(p), FarmerUpdatePig(p)
  PROVE  FosterIndInv'
<1>1. PICK d : d = posts[p]
  OBVIOUS
<1>2. /\ PostFits(d) /\ d.kind = "save" /\ d \in SavePosts /\ d.row \in Pigs
      /\ table' = IF d.weight = Nil THEN table ELSE [table EXCEPT ![d.row] = d.weight]
      /\ (~d.here => d.row \in outdated')
  BY <1>1, PostOf DEF FarmerUpdatePig, Is, PostFits, AtBackend, SavePosts
<1>3. PICK c : c = IF d.here THEN [d EXCEPT !.kind = "saved"] ELSE NoPost
  OBVIOUS
<1>4. posts' = Unseen(d.row, [posts EXCEPT ![p] = c])
  BY <1>1, <1>3, PostOf DEF FarmerUpdatePig, AnswerTo
<1>5. TableFits'
  BY <1>2, ChoresAreNotPigs DEF SavePosts, FosterIndInv, TableFits, ShownValues
<1>6. /\ d.here => c.kind = "saved" /\ c.row = d.row /\ c.here /\ c \in SavePosts
           /\ c.weight = d.weight /\ c.photo = d.photo
      /\ ~d.here => c = NoPost
  BY <1>2, <1>3 DEF SavePosts
<1>7. PostFits(c)' /\ c.kind # "loaded"
  <2>1. CASE d.here
    BY <1>2, <1>6, <2>1 DEF PostFits
  <2>2. CASE ~d.here
    BY <1>6, <2>2, NoPostFits
  <2> QED BY <2>1, <2>2
<1>8. /\ \A r \in Chores : table[r] \in {"done", "gone"} => table'[r] \in {"done", "gone"}
      /\ \A r \in Entries(tab) \ {d.row} : table'[r] = table[r]
  BY <1>2, EntriesAre, ChoresAreNotPigs DEF FosterIndInv, TableFits
<1>9. table[d.row] # "gone" /\ table'[d.row] # "gone"
  BY <1>2, <1>5, WeightsAreNotStatuses DEF FosterIndInv, TableFits
<1>10. d.row \in outdated' \/ (c.kind \in {"checked", "saved"} /\ c.row = d.row)
  BY <1>2, <1>6 DEF SavePosts
<1> QED BY <1>1, <1>2, <1>4, <1>5, <1>7, <1>8, <1>9, <1>10, WrittenInv

\* The table is changed elsewhere.
LEMMA RowsChangeInv ==
  ASSUME FosterIndInv, RowsChange
  PROVE  FosterIndInv'
<1>1. PICK r \in Entries(tab) :
        /\ \E to \in IF r \in Pigs THEN Weights
                    ELSE IF table[r] = "pending" THEN {"in_progress", "gone"} ELSE {"gone"} :
             table' = [table EXCEPT ![r] = to]
        /\ outdated' = outdated \cup {r} /\ posts' = Unseen(r, posts)
  BY DEF RowsChange
<1>2. PICK to : /\ r \in Pigs => to \in Weights
                /\ r \in Chores => to \in {"in_progress", "gone"}
                     /\ (table[r] # "pending" => to = "gone")
                /\ table' = [table EXCEPT ![r] = to]
  BY <1>1, ChoresAreNotPigs
<1>3. r \in Chores \cup Pigs
  BY EntriesAre
<1>4. TableFits'
  BY <1>2, <1>3, ChoresAreNotPigs DEF FosterIndInv, TableFits, ShownValues
<1>5. /\ \A q \in Chores : table[q] \in {"done", "gone"} => table'[q] \in {"done", "gone"}
      /\ \A q \in Entries(tab) \ {r} : table'[q] = table[q]
  BY <1>2, ChoresAreNotPigs, EntriesAre DEF FosterIndInv, TableFits
<1>6. PostsFit' /\ DialogFits' /\ UNCHANGED <<tab, shown, fosterLoading, dialog>>
  BY <1>1, <1>5, UnseenKeeps, DialogStands DEF RowsChange
<1>7. \A q : AnswerComes(q) => AnswerComes(q)'
  BY <1>1, PostOf DEF AnswerComes, Unseen
<1>8. ShownTracks'
  BY <1>1, <1>5, <1>6, <1>7 DEF FosterIndInv, ShownTracks
<1> QED BY <1>4, <1>6, <1>8 DEF FosterIndInv, RowsFit, FlagsFit

\* Every step of the farmer's pages keeps the invariant.
LEMMA FosterStepInv == FosterIndInv /\ [FosterPagesNext]_fosterVars => FosterIndInv'
<1> SUFFICES ASSUME FosterIndInv, [FosterPagesNext]_fosterVars PROVE FosterIndInv'
  OBVIOUS
<1>1. ASSUME NEW p \in Posts, PostGoesOn(p) PROVE FosterIndInv'
  <2>1. CASE AtBackend(p)
    BY <2>1, GetRowsInv, CheckinTaskInv, FarmerUpdatePigInv DEF AtBackend
  <2> QED
    BY <1>1, <2>1, RowsAnsweredInv, PostFailsInv, CheckinAnsweredInv, SaveAnsweredInv DEF PostGoesOn
<1>2. CASE UNCHANGED fosterVars
  BY <1>2 DEF fosterVars, FosterIndInv, TableFits, RowsFit, PostsFit, PostFits, Agrees,
     DialogFits, ShownTracks,
              AnswerComes, FlagsFit
<1> QED
  BY <1>1, <1>2, GoTabInv, CheckinInv, EditInv, LoadTabInv, DoSaveInv, RowsChangeInv
     DEF FosterPagesNext

\* For any tasks, pigs and requests: a row on the page is the row of the table, but for the rows
\* that others changed, that a lost answer or a page left behind wrote, or that this page wrote
\* while a load that had read them was on its way; and a pig is saved with its own photo
\* (foster/tasks, pigs, workbench).
THEOREM FarmerSeesTheTable == FosterPagesSpec => []FosterPagesInv
<1>1. FosterPagesSpec => []FosterIndInv
  BY FosterInitInv, FosterStepInv, PTL DEF FosterPagesSpec
<1> QED
  BY <1>1, FosterIndInvImplies, PTL

=============================================================================
