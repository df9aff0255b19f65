----------------------------- MODULE PigCatalog -----------------------------
(***************************************************************************)
(* One table, three kinds of writers: payments and refunds                 *)
(* (backend/src/modules/order/order.service.ts) count a pig's shares, its  *)
(* farmer weighs it and administrators edit or delete it                   *)
(* (backend/src/modules/foster/foster.service.ts).                         *)
(*                                                                         *)
(* Payments and refunds read and save the row within one transaction, so   *)
(* that save writes the columns they changed and no others.  The handlers  *)
(* of foster.service.ts have no transaction: save reads the row a second   *)
(* time, compares it with the entity that was loaded before, and UPDATEs   *)
(* every column that differs, the ones others wrote meanwhile included; it *)
(* INSERTs the entity when the row is gone.                                *)
(***************************************************************************)
EXTENDS Integers, FiniteSets

CONSTANTS
  Pigs,
  Orders, PigOf, Shares,   \* orders, the pig and the number of shares of each
  Totals,                  \* values of total_shares
  Weights,                 \* values of weight_kg
  Handlers,                \* handlers that may run at the same time
  None                     \* "no row", "no pig", "no order", "no photo"

\* A pig: photo is the weight that the newest photo shows.
Column == [sold |-> Nat, total |-> Totals, status |-> {"listed", "sold_out", "closed"},
           weight |-> Weights, photo |-> Weights \cup {None}]
Columns == DOMAIN Column
Row == [sold : Column.sold, total : Column.total, status : Column.status,
        weight : Column.weight, photo : Column.photo]

ASSUME PigAssumption ==
  /\ PigOf \in [Orders -> Pigs]
  /\ Shares \in [Orders -> Nat \ {0}]
  /\ Totals \subseteq Nat \ {0}
  /\ None \notin Pigs \cup Orders \cup Weights \cup Row

\* What the properties say of each column: the count of shares, what is for sale, the
\* weight.
Facet == [sold |-> "count", total |-> "sale", status |-> "sale",
          weight |-> "weight", photo |-> "weight"]
Facets == {"count", "sale", "weight", "row"}

VARIABLES
  row,       \* the pig table, None where there is no row
  paid,      \* orders paid and not refunded
  held,      \* history: the shares of those orders, per pig
  job,       \* per handler: what it does, and what it holds
  removed,   \* history: pigs an administrator deleted
  waived     \* history: per pig, the facets that an administrator set by hand, or that
             \* were written while another handler was about to write them too

history == <<removed, waived>>
vars == <<row, paid, held, job, history>>

\* A handler at work on a pig: an order's payment or refund (a transaction), the save of
\* an entity (loaded, then compared or about to be inserted) or a remove.  "pay",
\* "refund" and "compared" hold the columns that they will write.
Writing == {"pay", "refund", "compared"}
Job(l, p, o, e) == [pc |-> l, pig |-> p, order |-> o, entity |-> e]
Idle == Job("idle", None, None, None)
JobOK(j) ==
  /\ DOMAIN j = DOMAIN Idle
  /\ j.pc \in {"idle", "loaded", "insert", "remove"} \cup Writing
  /\ IF j.pc = "idle" THEN j = Idle ELSE j.pig \in Pigs
  /\ IF j.pc \in {"pay", "refund"} THEN j.order \in Orders ELSE j.order = None
  /\ j.pc \in {"loaded", "insert"} => j.entity \in Row
  /\ j.pc \in Writing =>
       /\ DOMAIN j.entity \subseteq Columns
       /\ \A c \in DOMAIN j.entity : j.entity[c] \in Column[c]

Init ==
  /\ row = [p \in Pigs |-> None]
  /\ paid = {}
  /\ held = [p \in Pigs |-> 0]
  /\ job = [r \in Handlers |-> Idle]
  /\ removed = {}
  /\ waived = [p \in Pigs |-> {}]

Exists(p) == row[p] # None
At(r, l) == job[r].pc = l
End(r) == job' = [job EXCEPT ![r] = Idle]
Busy(o) == \E r \in Handlers : job[r].order = o

\* The facets of pig p that handler r may write over.
MayWrite(r, p) ==
  IF job[r].pig # p THEN {}
  ELSE IF job[r].pc \in {"loaded", "insert"} THEN Facets
  ELSE IF job[r].pc \in Writing /\ Exists(p)
    THEN {Facet[c] : c \in {b \in DOMAIN job[r].entity : job[r].entity[b] # row[p][b]}}
  ELSE {}

\* Handler r writes facets of pig p; the row itself is every facet.
Touch(r, p, F) ==
  LET clash == F \cap UNION {MayWrite(q, p) : q \in Handlers \ {r}} IN
  waived' = [waived EXCEPT ![p] = @ \cup IF "row" \in clash THEN Facets ELSE clash]

\* The columns in which e differs from d, with their values in e.
Changes(d, e) == [c \in {b \in Columns : d[b] # e[b]} |-> e[c]]
\* The row d after an UPDATE of the columns of e.
Updated(d, e) == [c \in Columns |-> IF c \in DOMAIN e THEN e[c] ELSE d[c]]

\* adminCreatePig: one INSERT; a new pig has a new id.
Create(p, t, w) ==
  /\ ~Exists(p) /\ p \notin removed
  /\ row' = [row EXCEPT ![p] = [sold |-> 0, total |-> t, status |-> "listed",
                                weight |-> w, photo |-> None]]
  /\ UNCHANGED <<paid, held, job, history>>

(***************************************************************************)
(* Payments and refunds: a snapshot, and at the commit the columns that    *)
(* differ from it.  An UPDATE of a row that is gone changes nothing.  An   *)
(* order refunded may be paid again: it is then another one of its size.   *)
(***************************************************************************)
Sold(e, n) ==
  [e EXCEPT !.sold = @ + n,
            !.status = IF e.sold + n >= e.total THEN "sold_out" ELSE @]

ReleasedKept(e, n) ==                                          \* mutant
  [e EXCEPT !.sold = IF e.sold > n THEN e.sold - n ELSE 0]
Released(e, n) ==
  LET left == IF e.sold > n THEN e.sold - n ELSE 0 IN
  [e EXCEPT !.sold = left,
            !.status = IF @ = "sold_out" /\ left < e.total THEN "listed" ELSE @]

Open(r, l, o, e) == job' = [job EXCEPT ![r] = Job(l, PigOf[o], o, e)]

PayOpen(r, o) ==
  LET p == PigOf[o] IN
  /\ At(r, "idle") /\ o \notin paid /\ ~Busy(o)
  /\ Exists(p)
  /\ row[p].sold + Shares[o] <= row[p].total
  /\ Open(r, "pay", o, Changes(row[p], Sold(row[p], Shares[o])))
  /\ UNCHANGED <<row, paid, held, history>>

\* approveRefund goes on without the pig.
RefundOpen(r, o) ==
  LET p == PigOf[o] IN
  /\ At(r, "idle") /\ o \in paid /\ ~Busy(o)
  /\ Open(r, "refund", o,
          IF Exists(p) THEN Changes(row[p], Released(row[p], Shares[o])) ELSE <<>>)
  /\ UNCHANGED <<row, paid, held, history>>

\* The UPDATE of the columns a handler holds, if the row is still there.
Write(r) ==
  LET p == job[r].pig IN
  IF Exists(p)
    THEN /\ row' = [row EXCEPT ![p] = Updated(@, job[r].entity)]
         /\ Touch(r, p, {Facet[c] : c \in DOMAIN job[r].entity})
    ELSE UNCHANGED <<row, waived>>

PayCommit(r) ==
  /\ At(r, "pay")
  /\ Write(r)
  /\ paid' = paid \cup {job[r].order}
  /\ held' = [held EXCEPT ![job[r].pig] = @ + Shares[job[r].order]]
  /\ End(r)
  /\ UNCHANGED removed

RefundCommit(r) ==
  /\ At(r, "refund")
  /\ Write(r)
  /\ paid' = paid \ {job[r].order}
  /\ held' = [held EXCEPT ![job[r].pig] = @ - Shares[job[r].order]]
  /\ End(r)
  /\ UNCHANGED removed

(***************************************************************************)
(* farmerUpdatePig and adminUpdatePig: a row is loaded, edited and saved.  *)
(***************************************************************************)
Load(r, p, l, e) ==
  /\ At(r, "idle") /\ Exists(p)
  /\ job' = [job EXCEPT ![r] = Job(l, p, None, e)]
  /\ UNCHANGED <<row, paid, held, removed>>

FarmerUpdateUnproven(r, p) ==                                  \* mutant
  /\ \E w \in Weights :
       \/ Load(r, p, "loaded", [row[p] EXCEPT !.weight = w, !.photo = w])
       \/ Load(r, p, "loaded", [row[p] EXCEPT !.weight = w])
  /\ UNCHANGED waived
\* A new weight comes with its photo; without one only the note changes.  (To weigh a
\* pig and find nothing new is left out.)
FarmerUpdate(r, p) ==
  /\ Exists(p)
  /\ \/ \E w \in Weights \ {row[p].weight} :
          Load(r, p, "loaded", [row[p] EXCEPT !.weight = w, !.photo = w])
     \/ Load(r, p, "loaded", row[p])
  /\ UNCHANGED waived

\* An administrator may set any column but the count and the photos.
AdminUpdate(r, p) ==
  \E t \in Totals, s \in Column.status, w \in Weights :
    LET e == [row[p] EXCEPT !.total = t, !.status = s, !.weight = w] IN
    /\ Load(r, p, "loaded", e)
    /\ waived' = [waived EXCEPT ![p] =
                    @ \cup {Facet[c] : c \in DOMAIN Changes(row[p], e)}]

\* save reads the row again.
SaveCompareNone(r) ==                                          \* mutant
  /\ At(r, "loaded")
  /\ job' = IF Exists(job[r].pig) THEN [job EXCEPT ![r].pc = "compared"]
            ELSE [job EXCEPT ![r].pc = "insert"]
  /\ UNCHANGED <<row, paid, held, history>>
SaveCompare(r) ==
  LET p == job[r].pig IN
  /\ At(r, "loaded")
  /\ job' = [job EXCEPT ![r] =
                IF Exists(p) THEN Job("compared", p, None, Changes(row[p], @.entity))
                ELSE Job("insert", p, None, @.entity)]
  /\ UNCHANGED <<row, paid, held, history>>

SaveWrite(r) ==
  /\ At(r, "compared")
  /\ Write(r)
  /\ End(r)
  /\ UNCHANGED <<paid, held, removed>>

\* The INSERT fails on the primary key if the row is there again.
SaveInsert(r) ==
  LET p == job[r].pig IN
  /\ At(r, "insert")
  /\ IF Exists(p) THEN UNCHANGED <<row, waived>>
     ELSE /\ row' = [row EXCEPT ![p] = job[r].entity]
          /\ Touch(r, p, Facets)
  /\ End(r)
  /\ UNCHANGED <<paid, held, removed>>

(***************************************************************************)
(* adminDeletePig, whatever orders the pig has.                            *)
(***************************************************************************)
RemoveLoad(r, p) ==
  /\ Load(r, p, "remove", None)
  /\ UNCHANGED waived

RemoveRowUnnoticed(r) ==                                       \* mutant
  /\ At(r, "remove")
  /\ removed' = removed \cup {job[r].pig}
  /\ Touch(r, job[r].pig, Facets)
  /\ End(r)
  /\ UNCHANGED <<row, paid, held>>
RemoveRow(r) ==
  /\ At(r, "remove")
  /\ row' = [row EXCEPT ![job[r].pig] = None]
  /\ removed' = removed \cup {job[r].pig}
  /\ Touch(r, job[r].pig, Facets)
  /\ End(r)
  /\ UNCHANGED <<paid, held>>

\* A statement fails, a transaction is rolled back or the process exits.
Fail(r) ==
  /\ ~At(r, "idle")
  /\ End(r)
  /\ UNCHANGED <<row, paid, held, history>>

Next ==
  \/ \E p \in Pigs, t \in Totals, w \in Weights : Create(p, t, w)
  \/ \E r \in Handlers :
       \/ \E o \in Orders : PayOpen(r, o) \/ RefundOpen(r, o)
       \/ PayCommit(r) \/ RefundCommit(r)
       \/ \E p \in Pigs : FarmerUpdate(r, p) \/ AdminUpdate(r, p) \/ RemoveLoad(r, p)
       \/ SaveCompare(r) \/ SaveWrite(r) \/ SaveInsert(r) \/ RemoveRow(r)
       \/ Fail(r)

Spec == Init /\ [][Next]_vars

(***************************************************************************)
(* Properties.                                                             *)
(***************************************************************************)

\* Every row and job holds values of their types; no count of shares goes below zero,
\* even when a payment's share of it was lost.
TypeOK ==
  /\ row \in [Pigs -> Row \cup {None}]
  /\ paid \subseteq Orders
  /\ held \in [Pigs -> Nat]
  /\ DOMAIN job = Handlers /\ \A r \in Handlers : JobOK(job[r])
  /\ removed \subseteq Pigs
  /\ waived \in [Pigs -> SUBSET Facets]

Promised(p, F) == Exists(p) /\ F \cap waived[p] = {}

\* The shares counted in the row are those of the orders paid and not refunded, although
\* farmers and administrators save whole entities all the time: only a count written
\* inside another writer's load and compare, or another order's transaction, is lost.
SharesExact == \A p \in Pigs : Promised(p, {"count"}) => row[p].sold = held[p]

\* Unless an administrator sets either, a pig is never oversold and is sold out exactly
\* when its last share is.
SoldOutExact ==
  \A p \in Pigs : Promised(p, {"count", "sale"}) =>
    /\ row[p].sold <= row[p].total
    /\ row[p].status = "sold_out" <=> row[p].sold = row[p].total

\* Unless an administrator sets it, the weight is the one that the newest photo shows.
WeightProven ==
  \A p \in Pigs : Promised(p, {"weight"}) => row[p].photo \in {None, row[p].weight}

\* A deleted pig is not in the catalogue again, unless someone who had loaded it before
\* saves it afterwards.
DeletedStaysDeleted == \A p \in removed : "row" \notin waived[p] => ~Exists(p)

\* foster.service.ts:345, "the farmer updates the weight and the owner's note": only an
\* order's payment or refund changes the count of shares.
OnlyOrdersMoveShares ==
  [][\A p \in Pigs : Exists(p) /\ Exists(p)' /\ row'[p].sold # row[p].sold
                       => paid' # paid]_vars
=============================================================================
