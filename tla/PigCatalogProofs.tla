-------------------------- MODULE PigCatalogProofs --------------------------
(***************************************************************************)
(* Proofs about PigCatalog, for any pigs, orders, totals and handlers.     *)
(*                                                                         *)
(* What a handler holds stays true of the row until another handler writes *)
(* a facet that the first may write over, and then the facet is waived.    *)
(* The invariant says for each job what, as long as nothing is waived, its *)
(* columns still are to the row.                                           *)
(*                                                                         *)
(* Shares are counted as a set of units, one for each share of an order    *)
(* that is paid: an order more or less is a set more or less, and its      *)
(* cardinality follows from the lemmas of the library without induction.   *)
(***************************************************************************)
EXTENDS PigCatalog, FiniteSetTheorems, TLAPS

\* What SoldOutExact and WeightProven say of a row.
SoldRight(d) == d.sold <= d.total /\ (d.status = "sold_out" <=> d.sold = d.total)
WeighedRight(d) == d.photo \in {None, d.weight}

\* What an entity that was loaded still has in common with the row.
LoadedRight(e, d, W) ==
  /\ "count" \notin W => e.sold = d.sold
  /\ "sale" \notin W => e.total = d.total /\ e.status = d.status
  /\ "weight" \notin W => WeighedRight(e)

\* What is written over differs from the row.
Pending(e, d, W) == \A c \in DOMAIN e : Facet[c] \notin W => e[c] # d[c]

\* A save writes over the columns that it changed on purpose.
ComparedRight(e, d, W) ==
  /\ \A c \in DOMAIN e : c \notin {"weight", "photo"} => Facet[c] \in W
  /\ "weight" \notin W => WeighedRight(Updated(d, e))

\* A transaction keeps the row right.
CountedRight(e, d, W) ==
  "count" \notin W /\ "sale" \notin W =>
    /\ "status" \in DOMAIN e => "sold" \in DOMAIN e
    /\ SoldRight(Updated(d, e))

JobRight(j, d, W) ==
  /\ j.pc = "insert" => W = Facets
  /\ j.pc = "loaded" => IF d = None THEN W = Facets ELSE LoadedRight(j.entity, d, W)
  /\ j.pc \in Writing /\ d # None => Pending(j.entity, d, W)
  /\ j.pc = "compared" /\ d # None => ComparedRight(j.entity, d, W)
  /\ j.pc \in {"pay", "refund"} => DOMAIN j.entity \subseteq {"sold", "status"}
  /\ j.pc \in {"pay", "refund"} /\ d # None => CountedRight(j.entity, d, W)

\* A refund that did not find the pig.
Empty(j) == j.pc = "refund" /\ DOMAIN j.entity = {}

RowRight(d, W) ==
  d # None =>
    /\ "count" \notin W /\ "sale" \notin W => SoldRight(d)
    /\ "weight" \notin W => WeighedRight(d)

Typed ==
  /\ row \in [Pigs -> Row \cup {None}]
  /\ job = [r \in Handlers |-> job[r]] /\ \A r \in Handlers : JobOK(job[r])
  /\ removed \subseteq Pigs
  /\ waived \in [Pigs -> SUBSET Facets]

PigInv ==
  /\ Typed
  /\ \A p \in Pigs : RowRight(row[p], waived[p])
  /\ \A p \in removed : Exists(p) => waived[p] = Facets
  /\ \A r \in Handlers : ~At(r, "idle") =>
       /\ Exists(job[r].pig) \/ job[r].pig \in removed \/ Empty(job[r])
       /\ JobRight(job[r], row[job[r].pig], waived[job[r].pig])

LEMMA ColumnNames == Columns = {"sold", "total", "status", "weight", "photo"}
BY DEF Columns, Column

LEMMA FacetNames ==
  /\ Facet["sold"] = "count" /\ Facet["total"] = "sale" /\ Facet["status"] = "sale"
  /\ Facet["weight"] = "weight" /\ Facet["photo"] = "weight"
BY DEF Facet

LEMMA EveryFacet ==
  ASSUME NEW W \in SUBSET Facets, "row" \in W, "count" \in W, "sale" \in W, "weight" \in W
  PROVE  W = Facets
BY DEF Facets

\* An UPDATE gives a row, which differs only in the columns written.
LEMMA UpdatedRow ==
  ASSUME NEW d \in Row, NEW e, DOMAIN e \subseteq Columns,
         \A c \in DOMAIN e : e[c] \in Column[c]
  PROVE  /\ Updated(d, e) \in Row
         /\ \A c \in Columns : Updated(d, e)[c] = IF c \in DOMAIN e THEN e[c] ELSE d[c]
<1> DEFINE u == Updated(d, e)
<1>1. \A c \in Columns : u[c] = IF c \in DOMAIN e THEN e[c] ELSE d[c]
  BY DEF Updated
<1>2. \A c \in Columns : d[c] \in Column[c]
  BY ColumnNames DEF Row, Column
<1>3. \A c \in Columns : u[c] \in Column[c]
  BY <1>1, <1>2
<1>4. u = [c \in Columns |-> u[c]]
  BY DEF Updated
<1>5. /\ u.sold \in Column.sold /\ u.total \in Column.total /\ u.status \in Column.status
      /\ u.weight \in Column.weight /\ u.photo \in Column.photo
  BY <1>3, ColumnNames
<1>6. u \in Row
  BY <1>4, <1>5, ColumnNames DEF Row
<1> QED
  BY <1>1, <1>6

\* The columns that save compares.
LEMMA ChangedColumns ==
  ASSUME NEW d \in Row, NEW e \in Row
  PROVE  LET x == Changes(d, e) IN
         /\ DOMAIN x \subseteq Columns
         /\ \A c \in DOMAIN x : x[c] \in Column[c] /\ x[c] = e[c] /\ x[c] # d[c]
         /\ \A c \in Columns : c \notin DOMAIN x => d[c] = e[c]
         /\ \A c \in Columns : Updated(d, x)[c] = e[c]
<1> DEFINE x == Changes(d, e)
<1>1. /\ DOMAIN x = {b \in Columns : d[b] # e[b]}
      /\ \A c \in DOMAIN x : x[c] = e[c]
  BY DEF Changes
<1>2. \A c \in Columns : e[c] \in Column[c]
  BY ColumnNames DEF Row, Column
<1>3. \A c \in Columns : Updated(d, x)[c] = IF c \in DOMAIN x THEN x[c] ELSE d[c]
  BY DEF Updated
<1> HIDE DEF x
<1> QED
  BY <1>1, <1>2, <1>3 DEF x

(***************************************************************************)
(* The effect of one handler's UPDATE.                                     *)
(***************************************************************************)

\* What a job may write over.
Over(j, d) ==
  IF j.pc \in {"loaded", "insert"} THEN Facets
  ELSE IF j.pc \in Writing
    THEN {Facet[c] : c \in {b \in DOMAIN j.entity : j.entity[b] # d[b]}}
  ELSE {}

\* The row is right afterwards.
LEMMA WriterKeepsRow ==
  ASSUME NEW d \in Row, NEW W \in SUBSET Facets, NEW V \in SUBSET Facets, NEW k,
         k.pc \in Writing, JobOK(k), JobRight(k, d, W), RowRight(d, W), W \subseteq V
  PROVE  /\ Updated(d, k.entity) \in Row
         /\ RowRight(Updated(d, k.entity), V)
<1> DEFINE e == k.entity
           u == Updated(d, e)
<1>1. d # None
  BY PigAssumption
<1>2. DOMAIN e \subseteq Columns /\ \A c \in DOMAIN e : e[c] \in Column[c]
  BY DEF JobOK
<1>3. u \in Row /\ \A c \in Columns : u[c] = IF c \in DOMAIN e THEN e[c] ELSE d[c]
  BY <1>2, UpdatedRow
<1>4. CASE k.pc = "compared"
  <2>1. ComparedRight(e, d, W)
    BY <1>1, <1>4 DEF JobRight, Writing
  <2>2. "weight" \notin V => WeighedRight(u)
    BY <2>1 DEF ComparedRight
  <2>3. ASSUME "count" \notin V, "sale" \notin V
        PROVE  u.sold = d.sold /\ u.total = d.total /\ u.status = d.status
    <3>1. "sold" \notin DOMAIN e /\ "total" \notin DOMAIN e /\ "status" \notin DOMAIN e
      BY <2>1, <2>3, FacetNames DEF ComparedRight
    <3> QED
      BY <3>1, <1>3, ColumnNames
  <2>4. ASSUME "count" \notin V, "sale" \notin V PROVE SoldRight(u)
    BY <2>3, <2>4, <1>1 DEF RowRight, SoldRight
  <2> QED
    BY <1>3, <2>2, <2>4 DEF RowRight
<1>5. CASE k.pc \in {"pay", "refund"}
  <2>1. CountedRight(e, d, W)
    BY <1>1, <1>5 DEF JobRight
  <2>2. "count" \notin V /\ "sale" \notin V => SoldRight(u)
    BY <2>1 DEF CountedRight
  <2>3. u.weight = d.weight /\ u.photo = d.photo
    BY <1>3, <1>5, ColumnNames DEF JobRight
  <2>4. "weight" \notin V => WeighedRight(u)
    BY <2>3, <1>1 DEF RowRight, WeighedRight
  <2> QED
    BY <1>3, <2>2, <2>4 DEF RowRight
<1> QED
  BY <1>4, <1>5 DEF Writing

\* What another job holds is still right, for what the UPDATE writes of it is waived.
LEMMA WriterKeepsJob ==
  ASSUME NEW d \in Row, NEW W \in SUBSET Facets, NEW V \in SUBSET Facets, NEW k, NEW j,
         k.pc \in Writing, JobOK(k), JobRight(k, d, W), RowRight(d, W), W \subseteq V,
         JobOK(j), JobRight(j, d, W),
         \A c \in DOMAIN k.entity : Facet[c] \in Over(j, d) => Facet[c] \in V
  PROVE  JobRight(j, Updated(d, k.entity), V)
<1> DEFINE e == k.entity
           u == Updated(d, e)
           f == j.entity
<1>1. d # None /\ u # None /\ u \in Row
  BY PigAssumption, WriterKeepsRow
<1>2. DOMAIN e \subseteq Columns /\ \A c \in DOMAIN e : e[c] \in Column[c]
  BY DEF JobOK
<1>3. \A c \in Columns : u[c] = IF c \in DOMAIN e THEN e[c] ELSE d[c]
  BY <1>2, UpdatedRow
<1>4. RowRight(u, V)
  BY WriterKeepsRow
<1>5. CASE j.pc \notin {"loaded", "insert"} \cup Writing
  BY <1>5 DEF JobRight, Writing
<1>6. CASE j.pc = "insert"
  <2>1. V = Facets
    BY <1>6 DEF JobRight
  <2> QED
    BY <1>6, <2>1 DEF JobRight, Writing
<1>7. CASE j.pc = "loaded"
  <2>1. LoadedRight(f, d, W)
    BY <1>1, <1>7 DEF JobRight
  <2>2. \A c \in DOMAIN e : Facet[c] \in Facets => Facet[c] \in V
    BY <1>7 DEF Over
  <2>3. /\ "count" \notin V => "sold" \notin DOMAIN e
        /\ "sale" \notin V => "total" \notin DOMAIN e /\ "status" \notin DOMAIN e
    BY <2>2, FacetNames DEF Facets
  <2>4. LoadedRight(f, u, V)
    BY <2>1, <2>3, <1>3, ColumnNames DEF LoadedRight
  <2> QED
    BY <1>1, <1>7, <2>4 DEF JobRight, Writing
<1>8. CASE j.pc \in Writing
  <2>1. Pending(f, d, W) /\ DOMAIN f \subseteq Columns
    BY <1>1, <1>8 DEF JobRight, JobOK
  <2>2. \A b \in DOMAIN f : \A c \in DOMAIN e :
          Facet[b] = Facet[c] => Facet[b] \in V
    <3> SUFFICES ASSUME NEW b \in DOMAIN f, NEW c \in DOMAIN e, Facet[b] = Facet[c],
                        Facet[b] \notin V
                 PROVE  FALSE
      OBVIOUS
    <3>1. f[b] # d[b]
      BY <2>1 DEF Pending
    <3>2. Facet[b] \in Over(j, d)
      BY <1>8, <3>1 DEF Over, Writing
    <3> QED
      BY <3>2
  <2>3. Pending(f, u, V)
    <3> SUFFICES ASSUME NEW c \in DOMAIN f, Facet[c] \notin V
                 PROVE  f[c] # u[c]
      BY DEF Pending
    <3>1. c \notin DOMAIN e
      BY <2>2
    <3>2. u[c] = d[c]
      BY <1>3, <2>1, <3>1
    <3> QED
      BY <2>1, <3>2 DEF Pending
  <2>4. \A c \in Columns : Updated(u, f)[c] = IF c \in DOMAIN f THEN f[c] ELSE u[c]
    BY DEF Updated
  <2>5. \A c \in Columns : Updated(d, f)[c] = IF c \in DOMAIN f THEN f[c] ELSE d[c]
    BY DEF Updated
  <2>6. CASE j.pc = "compared"
    <3>1. ComparedRight(f, d, W)
      BY <1>1, <2>6 DEF JobRight, Writing
    <3>2. ASSUME "weight" \notin V PROVE WeighedRight(Updated(u, f))
      <4>1. CASE "weight" \in DOMAIN f \/ "photo" \in DOMAIN f
        <5>1. "weight" \notin DOMAIN e /\ "photo" \notin DOMAIN e
          BY <2>2, <3>2, <4>1, FacetNames
        <5>2. /\ Updated(u, f)["weight"] = Updated(d, f)["weight"]
              /\ Updated(u, f)["photo"] = Updated(d, f)["photo"]
          BY <5>1, <1>3, <2>4, <2>5, ColumnNames
        <5> QED
          BY <5>2, <3>1, <3>2 DEF ComparedRight, WeighedRight
      <4>2. CASE "weight" \notin DOMAIN f /\ "photo" \notin DOMAIN f
        <5>1. Updated(u, f)["weight"] = u["weight"] /\ Updated(u, f)["photo"] = u["photo"]
          BY <4>2, <2>4, ColumnNames
        <5> QED
          BY <5>1, <1>1, <1>4, <3>2 DEF RowRight, WeighedRight
      <4> QED
        BY <4>1, <4>2
    <3>3. ComparedRight(f, u, V)
      BY <3>1, <3>2 DEF ComparedRight
    <3> QED
      BY <1>1, <2>3, <2>6, <3>3 DEF JobRight, Writing
  <2>7. CASE j.pc \in {"pay", "refund"}
    <3>1. CountedRight(f, d, W)
      BY <1>1, <2>7 DEF JobRight
    <3>2. ASSUME "count" \notin V, "sale" \notin V PROVE SoldRight(Updated(u, f))
      <4>1. CASE "sold" \notin DOMAIN f
        <5>1. DOMAIN f = {}
          BY <2>7, <3>1, <3>2, <4>1 DEF CountedRight, JobRight
        <5>2. /\ Updated(u, f)["sold"] = u["sold"] /\ Updated(u, f)["total"] = u["total"]
              /\ Updated(u, f)["status"] = u["status"]
          BY <5>1, <2>4, ColumnNames
        <5> QED
          BY <5>2, <1>1, <1>4, <3>2 DEF RowRight, SoldRight
      <4>2. CASE "sold" \in DOMAIN f
        <5>1. "sold" \notin DOMAIN e
          BY <2>2, <3>2, <4>2, FacetNames
        <5>2. "total" \notin DOMAIN e /\ "status" \notin DOMAIN e
          <6>1. CASE k.pc = "compared"
            BY <6>1, <1>1, <3>2, FacetNames DEF JobRight, ComparedRight, Writing
          <6>2. CASE k.pc \in {"pay", "refund"}
            BY <6>2, <1>1, <3>2, <5>1 DEF JobRight, CountedRight
          <6> QED
            BY <6>1, <6>2 DEF Writing
        <5>3. /\ Updated(u, f)["sold"] = Updated(d, f)["sold"]
              /\ Updated(u, f)["total"] = Updated(d, f)["total"]
              /\ Updated(u, f)["status"] = Updated(d, f)["status"]
          BY <5>1, <5>2, <1>3, <2>4, <2>5, ColumnNames
        <5>4. SoldRight(Updated(d, f))
          BY <3>1, <3>2 DEF CountedRight
        <5> QED
          BY <5>3, <5>4 DEF SoldRight
      <4> QED
        BY <4>1, <4>2
    <3>3. CountedRight(f, u, V)
      BY <3>1, <3>2 DEF CountedRight
    <3> QED
      BY <1>1, <2>3, <2>7, <3>3 DEF JobRight, Writing
  <2> QED
    BY <1>8, <2>6, <2>7 DEF Writing
<1> QED
  BY <1>5, <1>6, <1>7, <1>8

(***************************************************************************)
(* The actions.                                                            *)
(***************************************************************************)

LEMMA WaivingKeeps ==
  ASSUME NEW W \in SUBSET Facets, NEW V \in SUBSET Facets, W \subseteq V, NEW d
  PROVE  /\ RowRight(d, W) => RowRight(d, V)
         /\ \A j : JobRight(j, d, W) => JobRight(j, d, V)
<1>1. RowRight(d, W) => RowRight(d, V)
  BY DEF RowRight
<1>2. W = Facets => V = Facets
  OBVIOUS
<1>3. \A e : /\ LoadedRight(e, d, W) => LoadedRight(e, d, V)
             /\ Pending(e, d, W) => Pending(e, d, V)
             /\ ComparedRight(e, d, W) => ComparedRight(e, d, V)
             /\ CountedRight(e, d, W) => CountedRight(e, d, V)
  BY DEF LoadedRight, Pending, ComparedRight, CountedRight
<1>4. \A j : JobRight(j, d, W) => JobRight(j, d, V)
  BY <1>2, <1>3 DEF JobRight
<1> QED
  BY <1>1, <1>4

\* A handler that leaves the rows alone only has to be right itself.
LEMMA JobStep ==
  ASSUME PigInv, NEW r \in Handlers, NEW n, job' = [job EXCEPT ![r] = n], JobOK(n),
         row' = row, removed' = removed, waived' \in [Pigs -> SUBSET Facets],
         \A p \in Pigs : waived[p] \subseteq waived'[p],
         n.pc # "idle" => /\ Exists(n.pig) \/ n.pig \in removed \/ Empty(n)
                          /\ JobRight(n, row[n.pig], waived'[n.pig])
  PROVE  PigInv'
<1>1. Typed'
  BY DEF PigInv, Typed
<1>2. \A p \in Pigs : RowRight(row'[p], waived'[p])
  BY WaivingKeeps DEF PigInv, Typed
<1>3. \A p \in removed' : Exists(p)' => waived'[p] = Facets
  BY DEF PigInv, Typed, Exists
<1>4. ASSUME NEW q \in Handlers, ~At(q, "idle")'
      PROVE  /\ Exists(job[q].pig)' \/ job'[q].pig \in removed' \/ Empty(job'[q])
             /\ JobRight(job'[q], row'[job'[q].pig], waived'[job'[q].pig])
  <2>1. CASE q = r
    <3>1. job'[q] = n
      BY <2>1 DEF PigInv, Typed
    <3> QED
      BY <3>1, <1>4 DEF At, Exists
  <2>2. CASE q # r
    <3>1. job'[q] = job[q] /\ ~At(q, "idle")
      BY <2>2, <1>4 DEF PigInv, Typed, At
    <3>2. /\ Exists(job[q].pig) \/ job[q].pig \in removed \/ Empty(job[q])
          /\ JobRight(job[q], row[job[q].pig], waived[job[q].pig])
      BY <3>1 DEF PigInv
    <3>3. job[q].pig \in Pigs
      BY <3>1 DEF PigInv, Typed, JobOK, At
    <3> QED
      BY <3>1, <3>2, <3>3, WaivingKeeps DEF PigInv, Typed, Exists
  <2> QED
    BY <2>1, <2>2
<1> QED
  BY <1>1, <1>2, <1>3, <1>4 DEF PigInv, At

LEMMA IdleOK == JobOK(Idle) /\ Idle.pc = "idle"
BY DEF JobOK, Idle, Job, Writing

\* What is waived when a handler writes.
LEMMA Touched ==
  ASSUME PigInv, NEW r \in Handlers, NEW p \in Pigs, NEW F \in SUBSET Facets, Touch(r, p, F)
  PROVE  /\ waived' \in [Pigs -> SUBSET Facets]
         /\ \A x \in Pigs : waived[x] \subseteq waived'[x]
         /\ \A x \in Pigs \ {p} : waived'[x] = waived[x]
         /\ \A q \in Handlers \ {r} : job[q].pig = p =>
              /\ Exists(p) => F \cap Over(job[q], row[p]) \subseteq waived'[p]
              /\ job[q].pc \in {"loaded", "insert"} /\ "row" \in F => waived'[p] = Facets
<1> DEFINE clash == F \cap UNION {MayWrite(q, p) : q \in Handlers \ {r}}
           add == IF "row" \in clash THEN Facets ELSE clash
<1>1. waived' = [waived EXCEPT ![p] = @ \cup add]
  BY DEF Touch
<1>2. clash \subseteq add /\ add \subseteq Facets
  OBVIOUS
<1>3. ASSUME NEW q \in Handlers \ {r}, job[q].pig = p, Exists(p)
      PROVE  F \cap Over(job[q], row[p]) \subseteq clash
  <2>1. MayWrite(q, p) = Over(job[q], row[p])
    BY <1>3 DEF MayWrite, Over
  <2> QED
    BY <2>1
<1>4. ASSUME NEW q \in Handlers \ {r}, job[q].pig = p, job[q].pc \in {"loaded", "insert"},
             "row" \in F
      PROVE  add = Facets
  <2>1. MayWrite(q, p) = Facets
    BY <1>4 DEF MayWrite
  <2>2. "row" \in clash
    BY <2>1, <1>4 DEF Facets
  <2> QED
    BY <2>2
<1> HIDE DEF add, clash
<1>5. waived \in [Pigs -> SUBSET Facets]
  BY DEF PigInv, Typed
<1>6. waived'[p] = waived[p] \cup add /\ \A x \in Pigs \ {p} : waived'[x] = waived[x]
  BY <1>1, <1>5
<1>7. waived' \in [Pigs -> SUBSET Facets]
  BY <1>1, <1>2, <1>5
<1> QED
  BY <1>2, <1>3, <1>4, <1>5, <1>6, <1>7

LEMMA WriteStep ==
  ASSUME PigInv, NEW r \in Handlers, job[r].pc \in Writing, Write(r), End(r),
         removed' = removed
  PROVE  PigInv'
<1> DEFINE p == job[r].pig
           k == job[r]
           u == Updated(row[p], k.entity)
           F == {Facet[c] : c \in DOMAIN k.entity}
<1>1. p \in Pigs /\ JobOK(k) /\ JobRight(k, row[p], waived[p])
  BY DEF PigInv, Typed, JobOK, At, Writing
<1>2. CASE ~Exists(p)
  <2>1. row' = row /\ waived' = waived
    BY <1>2 DEF Write
  <2> QED
    BY <2>1, IdleOK, JobStep DEF End, PigInv, Typed
<1>3. CASE Exists(p)
  <2>1. row' = [row EXCEPT ![p] = u] /\ Touch(r, p, F)
    BY <1>3 DEF Write
  <2>2. F \in SUBSET Facets
    BY <1>1, ColumnNames, FacetNames DEF JobOK, Facets
  <2>3. /\ waived' \in [Pigs -> SUBSET Facets]
        /\ \A x \in Pigs : waived[x] \subseteq waived'[x]
        /\ \A x \in Pigs \ {p} : waived'[x] = waived[x]
        /\ \A q \in Handlers \ {r} : job[q].pig = p =>
             F \cap Over(job[q], row[p]) \subseteq waived'[p]
    BY <1>1, <1>3, <2>1, <2>2, Touched
  <2>4. /\ row[p] \in Row
        /\ waived[p] \in SUBSET Facets /\ waived'[p] \in SUBSET Facets
        /\ waived[p] \subseteq waived'[p]
        /\ RowRight(row[p], waived[p])
    BY <1>1, <1>3, <2>3 DEF PigInv, Typed, Exists
  <2>5. u \in Row /\ RowRight(u, waived'[p])
    BY <1>1, <2>4, WriterKeepsRow
  <2>6. /\ row'[p] = u /\ \A x \in Pigs \ {p} : row'[x] = row[x]
        /\ row' \in [Pigs -> Row \cup {None}]
    BY <1>1, <2>1, <2>5 DEF PigInv, Typed
  <2>7. /\ job'[r] = Idle /\ \A q \in Handlers \ {r} : job'[q] = job[q]
        /\ job' = [q \in Handlers |-> job'[q]]
    BY DEF End, PigInv, Typed
  <2>8. Typed'
    BY <2>3, <2>6, <2>7, IdleOK DEF PigInv, Typed
  <2>9. \A x \in Pigs : RowRight(row'[x], waived'[x])
    BY <2>3, <2>5, <2>6 DEF PigInv
  <2>10. \A x \in removed' : Exists(x)' => waived'[x] = Facets
    <3> SUFFICES ASSUME NEW x \in removed, Exists(x)' PROVE waived'[x] = Facets
      OBVIOUS
    <3>1. x \in Pigs /\ Exists(x)
      BY <1>3, <2>6 DEF PigInv, Typed, Exists
    <3> QED
      BY <3>1, <2>3 DEF PigInv
  <2>11. ASSUME NEW q \in Handlers, ~At(q, "idle")'
         PROVE  /\ Exists(job[q].pig)' \/ job'[q].pig \in removed' \/ Empty(job'[q])
                /\ JobRight(job'[q], row'[job'[q].pig], waived'[job'[q].pig])
    <3>1. q # r /\ job'[q] = job[q] /\ ~At(q, "idle")
      BY <2>7, <2>11, IdleOK DEF At
    <3>2. /\ Exists(job[q].pig) \/ job[q].pig \in removed \/ Empty(job[q])
          /\ JobRight(job[q], row[job[q].pig], waived[job[q].pig])
          /\ JobOK(job[q]) /\ job[q].pig \in Pigs
      BY <3>1 DEF PigInv, Typed, JobOK, At
    <3>3. CASE job[q].pig # p
      BY <3>1, <3>2, <3>3, <2>3, <2>6 DEF Exists
    <3>4. CASE job[q].pig = p
      <4>1. \A c \in DOMAIN k.entity :
              Facet[c] \in Over(job[q], row[p]) => Facet[c] \in waived'[p]
        BY <3>1, <3>4, <2>3
      <4>2. JobRight(job[q], u, waived'[p])
        BY <4>1, <1>1, <2>4, <3>2, <3>4, WriterKeepsJob
      <4>3. row'[p] = u /\ u # None
        BY <2>5, <2>6, PigAssumption
      <4> QED
        BY <4>2, <4>3, <3>1, <3>4 DEF Exists
    <3> QED
      BY <3>3, <3>4
  <2> QED
    BY <2>8, <2>9, <2>10, <2>11 DEF PigInv, At
<1> QED
  BY <1>2, <1>3

\* A row that comes or goes: the pig is right if nobody else could write it or if all of
\* it is waived.
LEMMA RowStep ==
  ASSUME PigInv, NEW r \in Handlers, NEW p \in Pigs, NEW d \in Row \cup {None},
         row' = [row EXCEPT ![p] = d], Touch(r, p, Facets), End(r), removed' \subseteq Pigs,
         removed \subseteq removed', removed' \subseteq removed \cup {p},
         RowRight(d, waived'[p]), p \in removed',
         d # None => waived'[p] = Facets /\ ~Exists(p)
  PROVE  PigInv'
<1>1. /\ waived' \in [Pigs -> SUBSET Facets]
      /\ \A x \in Pigs : waived[x] \subseteq waived'[x]
      /\ \A x \in Pigs \ {p} : waived'[x] = waived[x]
      /\ \A q \in Handlers \ {r} : job[q].pig = p /\ job[q].pc \in {"loaded", "insert"}
           => waived'[p] = Facets
  BY Touched DEF Facets
<1>2. /\ row'[p] = d /\ \A x \in Pigs \ {p} : row'[x] = row[x]
      /\ row' \in [Pigs -> Row \cup {None}]
  BY DEF PigInv, Typed
<1>3. /\ job'[r] = Idle /\ \A q \in Handlers \ {r} : job'[q] = job[q]
      /\ job' = [q \in Handlers |-> job'[q]]
  BY DEF End, PigInv, Typed
<1>4. Typed'
  BY <1>1, <1>2, <1>3, IdleOK DEF PigInv, Typed
<1>5. \A x \in Pigs : RowRight(row'[x], waived'[x])
  BY <1>1, <1>2 DEF PigInv
<1>6. \A x \in removed' : Exists(x)' => waived'[x] = Facets
  BY <1>1, <1>2 DEF PigInv, Exists
<1>7. ASSUME NEW q \in Handlers, ~At(q, "idle")'
      PROVE  /\ Exists(job[q].pig)' \/ job'[q].pig \in removed' \/ Empty(job'[q])
             /\ JobRight(job'[q], row'[job'[q].pig], waived'[job'[q].pig])
  <2>1. q # r /\ job'[q] = job[q] /\ ~At(q, "idle")
    BY <1>3, <1>7, IdleOK DEF At
  <2>2. /\ Exists(job[q].pig) \/ job[q].pig \in removed \/ Empty(job[q])
        /\ JobRight(job[q], row[job[q].pig], waived[job[q].pig])
        /\ JobOK(job[q]) /\ job[q].pig \in Pigs
    BY <2>1 DEF PigInv, Typed, JobOK, At
  <2>3. CASE job[q].pig # p
    BY <2>1, <2>2, <2>3, <1>1, <1>2 DEF Exists
  <2>4. CASE job[q].pig = p
    <3>1. CASE d = None
      BY <3>1, <2>1, <2>2, <2>4, <1>1, <1>2 DEF JobRight, Writing
    <3>2. CASE d # None
      <4>1. waived'[p] = Facets
        BY <3>2
      <4>2. \A c \in DOMAIN job[q].entity : job[q].pc \in Writing => Facet[c] \in Facets
        BY <2>2, ColumnNames, FacetNames DEF JobOK, Facets
      <4>3. /\ LoadedRight(job[q].entity, d, Facets)
            /\ CountedRight(job[q].entity, d, Facets)
        BY DEF LoadedRight, CountedRight, Facets
      <4>4. job[q].pc \in Writing => /\ Pending(job[q].entity, d, Facets)
                                     /\ ComparedRight(job[q].entity, d, Facets)
        BY <4>2 DEF Pending, ComparedRight, Facets
      <4>5. JobRight(job[q], d, Facets)
        BY <2>2, <3>2, <4>3, <4>4 DEF JobRight, Writing
      <4> QED
        BY <2>1, <2>4, <3>2, <4>1, <4>5, <1>2 DEF Exists
    <3> QED
      BY <3>1, <3>2
  <2> QED
    BY <2>3, <2>4
<1> QED
  BY <1>4, <1>5, <1>6, <1>7 DEF PigInv, At

\* What a handler that loads a row may make of it.
LEMMA LoadStep ==
  ASSUME PigInv, NEW r \in Handlers, NEW p \in Pigs, NEW e \in Row, Load(r, p, "loaded", e),
         waived' \in [Pigs -> SUBSET Facets], \A x \in Pigs : waived[x] \subseteq waived'[x],
         e.sold = row[p].sold,
         "sale" \notin waived'[p] => e.total = row[p].total /\ e.status = row[p].status,
         "weight" \notin waived'[p] => WeighedRight(e)
  PROVE  PigInv'
<1> DEFINE n == Job("loaded", p, None, e)
<1>1. Exists(p) /\ job' = [job EXCEPT ![r] = n] /\ row' = row /\ removed' = removed
  BY DEF Load
<1>2. JobOK(n) /\ n.pc = "loaded" /\ n.pig = p /\ n.entity = e
  BY DEF JobOK, Job, Idle, Writing
<1>3. LoadedRight(e, row[p], waived'[p])
  BY DEF LoadedRight
<1>4. JobRight(n, row[p], waived'[p])
  BY <1>1, <1>2, <1>3 DEF JobRight, Writing, Exists
<1> HIDE DEF n
<1> QED
  BY <1>1, <1>2, <1>4, JobStep

LEMMA FarmerStep ==
  ASSUME PigInv, NEW r \in Handlers, NEW p \in Pigs, FarmerUpdate(r, p)
  PROVE  PigInv'
<1>1. /\ waived' = waived /\ waived \in [Pigs -> SUBSET Facets]
      /\ RowRight(row[p], waived[p])
  BY DEF FarmerUpdate, PigInv, Typed
<1>2. row[p] \in Row /\ row[p] # None
  BY DEF FarmerUpdate, Load, PigInv, Typed, Exists
<1>3. ASSUME NEW w \in Weights \ {row[p].weight},
             Load(r, p, "loaded", [row[p] EXCEPT !.weight = w, !.photo = w])
      PROVE  PigInv'
  <2> DEFINE e == [row[p] EXCEPT !.weight = w, !.photo = w]
  <2>1. e \in Row /\ e.sold = row[p].sold /\ e.total = row[p].total
        /\ e.status = row[p].status /\ e.photo = w /\ e.weight = w
    BY <1>2 DEF Row, Column
  <2>2. WeighedRight(e)
    BY <2>1 DEF WeighedRight
  <2> HIDE DEF e
  <2>3. Load(r, p, "loaded", e)
    BY <1>3 DEF e
  <2> QED
    BY <1>1, <2>1, <2>2, <2>3, LoadStep
<1>4. CASE Load(r, p, "loaded", row[p])
  BY <1>1, <1>2, <1>4, LoadStep DEF RowRight
<1> QED
  BY <1>3, <1>4 DEF FarmerUpdate

\* What an administrator changes is waived.
LEMMA AdminStep ==
  ASSUME PigInv, NEW r \in Handlers, NEW p \in Pigs, AdminUpdate(r, p)
  PROVE  PigInv'
<1>1. PICK t \in Totals, s \in Column.status, w \in Weights :
        LET e == [row[p] EXCEPT !.total = t, !.status = s, !.weight = w] IN
        /\ Load(r, p, "loaded", e)
        /\ waived' = [waived EXCEPT ![p] =
                        @ \cup {Facet[c] : c \in DOMAIN Changes(row[p], e)}]
  BY DEF AdminUpdate
<1> DEFINE e == [row[p] EXCEPT !.total = t, !.status = s, !.weight = w]
           C == DOMAIN Changes(row[p], e)
<1>2. row[p] \in Row /\ row[p] # None
  BY <1>1 DEF Load, PigInv, Typed, Exists
<1>3. /\ e \in Row /\ e.sold = row[p].sold /\ e.total = t /\ e.status = s
      /\ e.weight = w /\ e.photo = row[p].photo
  BY <1>2 DEF Row, Column
<1>4. /\ Load(r, p, "loaded", e)
      /\ waived' = [waived EXCEPT ![p] = @ \cup {Facet[c] : c \in C}]
  BY <1>1
<1> HIDE DEF e
<1>5. C \subseteq Columns /\ \A c \in Columns : c \notin C => row[p][c] = e[c]
  BY <1>2, <1>3, ChangedColumns
<1> HIDE DEF C
<1>6. {Facet[c] : c \in C} \subseteq Facets
  BY <1>5, ColumnNames, FacetNames DEF Facets
<1>7. /\ waived \in [Pigs -> SUBSET Facets] /\ waived' \in [Pigs -> SUBSET Facets]
      /\ \A x \in Pigs : waived[x] \subseteq waived'[x]
      /\ \A c \in C : Facet[c] \in waived'[p]
  BY <1>4, <1>6 DEF PigInv, Typed
<1>8. "sale" \notin waived'[p] => e.total = row[p].total /\ e.status = row[p].status
  <2>1. "sale" \notin waived'[p] => "total" \notin C /\ "status" \notin C
    BY <1>7, FacetNames
  <2> QED
    BY <2>1, <1>5, ColumnNames
<1>9. "weight" \notin waived'[p] => WeighedRight(e)
  <2>1. "weight" \notin waived'[p] => "weight" \notin C /\ "photo" \notin C
    BY <1>7, FacetNames
  <2>2. "weight" \notin waived'[p] => e.weight = row[p].weight /\ e.photo = row[p].photo
    BY <2>1, <1>5, ColumnNames
  <2>3. "weight" \notin waived'[p] => WeighedRight(row[p])
    BY <1>2, <1>7 DEF PigInv, RowRight
  <2> QED
    BY <2>2, <2>3 DEF WeighedRight
<1> QED
  BY <1>3, <1>4, <1>7, <1>8, <1>9, LoadStep

LEMMA SoldFields ==
  ASSUME NEW d \in Row, NEW n \in Nat
  PROVE  LET e == Sold(d, n) IN
         /\ e \in Row /\ e.total = d.total /\ e.weight = d.weight /\ e.photo = d.photo
         /\ e.sold = d.sold + n
         /\ e.status = IF d.sold + n >= d.total THEN "sold_out" ELSE d.status
<1> DEFINE s == IF d.sold + n >= d.total THEN "sold_out" ELSE d.status
           m == d.sold + n
<1>1. Sold(d, n) = [d EXCEPT !.sold = m, !.status = s]
  BY DEF Sold
<1>2. m \in Nat /\ s \in {"listed", "sold_out", "closed"}
  <2>1. d.sold \in Nat /\ d.total \in Totals /\ d.status \in {"listed", "sold_out", "closed"}
    BY DEF Row, Column
  <2> QED
    BY <2>1, PigAssumption
<1> HIDE DEF s, m
<1>3. LET e == [d EXCEPT !.sold = m, !.status = s] IN
      /\ e \in Row /\ e.total = d.total /\ e.weight = d.weight /\ e.photo = d.photo
      /\ e.sold = m /\ e.status = s
  BY <1>2 DEF Row, Column
<1> QED
  BY <1>1, <1>3 DEF s, m

LEMMA ReleasedFields ==
  ASSUME NEW d \in Row, NEW n \in Nat
  PROVE  LET e == Released(d, n) IN
         /\ e \in Row /\ e.total = d.total /\ e.weight = d.weight /\ e.photo = d.photo
         /\ e.sold = IF d.sold > n THEN d.sold - n ELSE 0
         /\ e.status = IF d.status = "sold_out" /\ e.sold < d.total THEN "listed"
                       ELSE d.status
<1> DEFINE m == IF d.sold > n THEN d.sold - n ELSE 0
           s == IF d.status = "sold_out" /\ m < d.total THEN "listed" ELSE d.status
<1>1. Released(d, n) = [d EXCEPT !.sold = m, !.status = s]
  BY DEF Released
<1>2. m \in Nat /\ s \in {"listed", "sold_out", "closed"}
  <2>1. d.sold \in Nat /\ d.total \in Totals /\ d.status \in {"listed", "sold_out", "closed"}
    BY DEF Row, Column
  <2> QED
    BY <2>1, PigAssumption
<1> HIDE DEF s, m
<1>3. LET e == [d EXCEPT !.sold = m, !.status = s] IN
      /\ e \in Row /\ e.total = d.total /\ e.weight = d.weight /\ e.photo = d.photo
      /\ e.sold = m /\ e.status = s
  BY <1>2 DEF Row, Column
<1> QED
  BY <1>1, <1>3 DEF s, m

\* What a payment or refund may make of the row.
LEMMA OpenStep ==
  ASSUME PigInv, NEW r \in Handlers, NEW o \in Orders, NEW l \in {"pay", "refund"},
         NEW e \in Row, Exists(PigOf[o]), Open(r, l, o, Changes(row[PigOf[o]], e)),
         row' = row, removed' = removed, waived' = waived,
         e.total = row[PigOf[o]].total, e.weight = row[PigOf[o]].weight,
         e.photo = row[PigOf[o]].photo,
         SoldRight(row[PigOf[o]]) =>
           SoldRight(e) /\ (e.status # row[PigOf[o]].status => e.sold # row[PigOf[o]].sold)
  PROVE  PigInv'
<1> DEFINE p == PigOf[o]
           d == row[p]
           W == waived[p]
           x == Changes(d, e)
           n == Job(l, p, o, x)
<1>1. p \in Pigs
  BY PigAssumption
<1>2. d \in Row /\ d # None /\ RowRight(d, W) /\ waived \in [Pigs -> SUBSET Facets]
  BY <1>1 DEF PigInv, Typed, Exists
<1>3. /\ DOMAIN x \subseteq Columns
      /\ \A c \in DOMAIN x : x[c] \in Column[c] /\ x[c] = e[c] /\ x[c] # d[c]
      /\ \A c \in Columns : c \notin DOMAIN x => d[c] = e[c]
      /\ \A c \in Columns : Updated(d, x)[c] = e[c]
  BY <1>2, ChangedColumns
<1> HIDE DEF x
<1>4. DOMAIN x \subseteq {"sold", "status"}
  BY <1>3, ColumnNames
<1>5. Pending(x, d, W)
  BY <1>3 DEF Pending
<1>6. SoldRight(d) => /\ "status" \in DOMAIN x => "sold" \in DOMAIN x
                      /\ SoldRight(Updated(d, x))
  BY <1>3, ColumnNames DEF SoldRight
<1>7. CountedRight(x, d, W)
  BY <1>2, <1>6 DEF CountedRight, RowRight
<1>8. JobOK(n) /\ n.pc = l /\ n.pig = p /\ n.entity = x
  BY <1>1, <1>3 DEF JobOK, Job, Idle, Writing
<1>9. JobRight(n, d, W)
  BY <1>2, <1>4, <1>5, <1>7, <1>8 DEF JobRight, Writing
<1>10. job' = [job EXCEPT ![r] = n]
  BY DEF Open, x
<1> HIDE DEF n
<1> QED
  BY <1>1, <1>2, <1>8, <1>9, <1>10, JobStep

LEMMA PayOpenStep ==
  ASSUME PigInv, NEW r \in Handlers, NEW o \in Orders, PayOpen(r, o)
  PROVE  PigInv'
<1> DEFINE d == row[PigOf[o]]
           e == Sold(d, Shares[o])
<1>1. d \in Row /\ Shares[o] \in Nat \ {0} /\ Totals \subseteq Nat
  BY PigAssumption DEF PayOpen, PigInv, Typed, Exists
<1>2. d.sold \in Nat /\ d.total \in Nat /\ d.sold + Shares[o] <= d.total
  BY <1>1 DEF PayOpen, Row, Column
<1>3. /\ e \in Row /\ e.total = d.total /\ e.weight = d.weight /\ e.photo = d.photo
      /\ e.sold = d.sold + Shares[o]
      /\ e.status = IF d.sold + Shares[o] >= d.total THEN "sold_out" ELSE d.status
  BY <1>1, SoldFields
<1>4. SoldRight(d) => SoldRight(e) /\ e.sold # d.sold
  BY <1>1, <1>2, <1>3 DEF SoldRight
<1>5. Open(r, "pay", o, Changes(d, e))
  BY DEF PayOpen
<1>6. Exists(PigOf[o]) /\ row' = row /\ removed' = removed /\ waived' = waived
  BY DEF PayOpen, history
<1> HIDE DEF e
<1> QED
  BY <1>3, <1>4, <1>5, <1>6, OpenStep

LEMMA RefundOpenStep ==
  ASSUME PigInv, NEW r \in Handlers, NEW o \in Orders, RefundOpen(r, o)
  PROVE  PigInv'
<1> DEFINE d == row[PigOf[o]]
           e == Released(d, Shares[o])
<1>1. CASE Exists(PigOf[o])
  <2>1. d \in Row /\ Shares[o] \in Nat \ {0} /\ Totals \subseteq Nat \ {0}
    BY <1>1, PigAssumption DEF PigInv, Typed, Exists
  <2>2. d.sold \in Nat /\ d.total \in Nat \ {0}
    BY <2>1 DEF Row, Column
  <2>3. /\ e \in Row /\ e.total = d.total /\ e.weight = d.weight /\ e.photo = d.photo
        /\ e.sold = IF d.sold > Shares[o] THEN d.sold - Shares[o] ELSE 0
        /\ e.status = IF d.status = "sold_out" /\ e.sold < d.total THEN "listed"
                      ELSE d.status
    BY <2>1, ReleasedFields
  <2>4. SoldRight(d) => SoldRight(e) /\ (e.status # d.status => e.sold # d.sold)
    BY <2>1, <2>2, <2>3 DEF SoldRight
  <2>5. Open(r, "refund", o, Changes(d, e))
    BY <1>1 DEF RefundOpen
  <2>6. row' = row /\ removed' = removed /\ waived' = waived
    BY DEF RefundOpen, history
  <2> HIDE DEF e
  <2> QED
    BY <1>1, <2>3, <2>4, <2>5, <2>6, OpenStep
<1>2. CASE ~Exists(PigOf[o])
  <2> DEFINE n == Job("refund", PigOf[o], o, <<>>)
  <2>1. job' = [job EXCEPT ![r] = n] /\ row' = row /\ removed' = removed /\ waived' = waived
    BY <1>2 DEF RefundOpen, Open, history
  <2>2. JobOK(n) /\ n.pc = "refund" /\ n.pig = PigOf[o] /\ n.entity = <<>> /\ n.pig \in Pigs
    BY PigAssumption DEF JobOK, Job, Idle, Writing
  <2>3. DOMAIN n.entity = {}
    BY <2>2
  <2>4. JobRight(n, row[n.pig], waived[n.pig]) /\ Empty(n)
    BY <1>2, <2>2, <2>3 DEF JobRight, Writing, Exists, Empty
  <2>5. waived \in [Pigs -> SUBSET Facets]
    BY DEF PigInv, Typed
  <2> HIDE DEF n
  <2> QED
    BY <2>1, <2>2, <2>4, <2>5, JobStep
<1> QED
  BY <1>1, <1>2

LEMMA CompareStep ==
  ASSUME PigInv, NEW r \in Handlers, SaveCompare(r)
  PROVE  PigInv'
<1> DEFINE p == job[r].pig
           d == row[p]
           W == waived[p]
           e == job[r].entity
           x == Changes(d, e)
<1>1. /\ p \in Pigs /\ e \in Row /\ JobRight(job[r], d, W) /\ job[r].pc = "loaded"
      /\ Exists(p) \/ p \in removed
      /\ waived \in [Pigs -> SUBSET Facets] /\ row \in [Pigs -> Row \cup {None}]
      /\ row' = row /\ removed' = removed /\ waived' = waived
  BY DEF SaveCompare, At, PigInv, Typed, JobOK, Empty, history
<1>2. CASE Exists(p)
  <2> DEFINE n == Job("compared", p, None, x)
  <2>1. d \in Row /\ d # None /\ LoadedRight(e, d, W)
    BY <1>1, <1>2 DEF Exists, JobRight
  <2>2. /\ DOMAIN x \subseteq Columns
        /\ \A c \in DOMAIN x : x[c] \in Column[c] /\ x[c] = e[c] /\ x[c] # d[c]
        /\ \A c \in Columns : Updated(d, x)[c] = e[c]
    BY <1>1, <2>1, ChangedColumns
  <2>3. job' = [job EXCEPT ![r] = n]
    BY <1>2 DEF SaveCompare
  <2> HIDE DEF x
  <2>4. Pending(x, d, W)
    BY <2>2 DEF Pending
  <2>5. \A c \in DOMAIN x : c \notin {"weight", "photo"} => Facet[c] \in W
    BY <2>1, <2>2, ColumnNames, FacetNames DEF LoadedRight
  <2>6. "weight" \notin W => WeighedRight(Updated(d, x))
    BY <2>1, <2>2, ColumnNames DEF LoadedRight, WeighedRight
  <2>7. ComparedRight(x, d, W)
    BY <2>5, <2>6 DEF ComparedRight
  <2>8. JobOK(n) /\ n.pc = "compared" /\ n.pig = p /\ n.entity = x
    BY <1>1, <2>2 DEF JobOK, Job, Idle, Writing
  <2>9. JobRight(n, d, W)
    BY <2>1, <2>4, <2>7, <2>8 DEF JobRight, Writing
  <2> HIDE DEF n
  <2> QED
    BY <1>1, <1>2, <2>3, <2>8, <2>9, JobStep
<1>3. CASE ~Exists(p)
  <2> DEFINE n == Job("insert", p, None, e)
  <2>1. job' = [job EXCEPT ![r] = n]
    BY <1>3 DEF SaveCompare
  <2>2. JobOK(n) /\ n.pc = "insert" /\ n.pig = p /\ n.entity = e
    BY <1>1 DEF JobOK, Job, Idle, Writing
  <2>3. JobRight(n, d, W)
    BY <1>1, <1>3, <2>2 DEF JobRight, Writing, Exists
  <2> HIDE DEF n
  <2> QED
    BY <1>1, <1>3, <2>1, <2>2, <2>3, JobStep
<1> QED
  BY <1>2, <1>3

LEMMA InsertStep ==
  ASSUME PigInv, NEW r \in Handlers, SaveInsert(r)
  PROVE  PigInv'
<1> DEFINE p == job[r].pig
           e == job[r].entity
<1>1. /\ p \in Pigs /\ e \in Row /\ JobRight(job[r], row[p], waived[p])
      /\ Exists(p) \/ p \in removed
      /\ waived \in [Pigs -> SUBSET Facets] /\ removed \subseteq Pigs
      /\ removed' = removed /\ End(r)
  BY DEF SaveInsert, At, PigInv, Typed, JobOK, Empty
<1>2. waived[p] = Facets
  BY <1>1 DEF SaveInsert, At, JobRight
<1>3. CASE Exists(p)
  <2>1. row' = row /\ waived' = waived
    BY <1>3 DEF SaveInsert
  <2> QED
    BY <1>1, <2>1, IdleOK, JobStep DEF End
<1>4. CASE ~Exists(p)
  <2>1. row' = [row EXCEPT ![p] = e] /\ Touch(r, p, Facets)
    BY <1>4 DEF SaveInsert
  <2>2. waived'[p] = Facets
    <3>1. /\ waived' \in [Pigs -> SUBSET Facets]
          /\ \A x \in Pigs : waived[x] \subseteq waived'[x]
      BY <1>1, <2>1, Touched
    <3> QED
      BY <1>1, <1>2, <3>1
  <2>3. RowRight(e, waived'[p])
    BY <2>2 DEF RowRight, Facets
  <2> HIDE DEF p, e
  <2> QED
    BY <1>1, <1>4, <2>1, <2>2, <2>3, RowStep
<1> QED
  BY <1>3, <1>4

LEMMA RemoveStep ==
  ASSUME PigInv, NEW r \in Handlers, RemoveRow(r)
  PROVE  PigInv'
<1> DEFINE p == job[r].pig
<1>1. /\ p \in Pigs /\ removed \subseteq Pigs
      /\ removed' = removed \cup {p} /\ End(r)
      /\ row' = [row EXCEPT ![p] = None] /\ Touch(r, p, Facets)
  BY DEF RemoveRow, At, PigInv, Typed, JobOK
<1>2. RowRight(None, waived'[p])
  BY DEF RowRight
<1> HIDE DEF p
<1> QED
  BY <1>1, <1>2, RowStep

\* A new pig has an id that no handler ever heard of.
LEMMA CreateStep ==
  ASSUME PigInv, NEW p \in Pigs, NEW t \in Totals, NEW w \in Weights, Create(p, t, w)
  PROVE  PigInv'
<1> DEFINE d == [sold |-> 0, total |-> t, status |-> "listed", weight |-> w, photo |-> None]
<1>1. d \in Row /\ d # None
  BY PigAssumption DEF Row, Column
<1>2. RowRight(d, waived[p])
  BY PigAssumption DEF RowRight, SoldRight, WeighedRight
<1>3. row' = [row EXCEPT ![p] = d] /\ p \notin removed /\ ~Exists(p)
  BY DEF Create
<1>4. job' = job /\ removed' = removed /\ waived' = waived
  BY DEF Create, history
<1> HIDE DEF d
<1>5. /\ row'[p] = d /\ \A x \in Pigs \ {p} : row'[x] = row[x]
      /\ row' \in [Pigs -> Row \cup {None}]
  BY <1>1, <1>3 DEF PigInv, Typed
<1>6. Typed'
  BY <1>4, <1>5 DEF PigInv, Typed
<1>7. \A x \in Pigs : RowRight(row'[x], waived'[x])
  BY <1>2, <1>4, <1>5 DEF PigInv
<1>8. \A x \in removed' : Exists(x)' => waived'[x] = Facets
  BY <1>3, <1>4, <1>5 DEF PigInv, Typed, Exists
<1>9. ASSUME NEW q \in Handlers, ~At(q, "idle")
      PROVE  /\ Exists(job[q].pig)' \/ job'[q].pig \in removed' \/ Empty(job'[q])
             /\ JobRight(job'[q], row'[job'[q].pig], waived'[job'[q].pig])
  <2>1. /\ Exists(job[q].pig) \/ job[q].pig \in removed \/ Empty(job[q])
        /\ JobRight(job[q], row[job[q].pig], waived[job[q].pig])
        /\ job[q].pig \in Pigs
    BY <1>9 DEF PigInv, Typed, JobOK, At
  <2>2. CASE job[q].pig # p
    BY <2>1, <2>2, <1>4, <1>5 DEF Exists
  <2>3. CASE job[q].pig = p
    <3>1. Empty(job[q])
      BY <2>1, <2>3, <1>3
    <3>2. \A c \in Columns : Updated(d, job[q].entity)[c] = d[c]
      BY <3>1 DEF Updated, Empty
    <3>3. SoldRight(d) => SoldRight(Updated(d, job[q].entity))
      BY <3>2, ColumnNames DEF SoldRight
    <3>4. /\ Pending(job[q].entity, d, waived[p])
          /\ CountedRight(job[q].entity, d, waived[p])
      BY <3>1, <3>3, <1>1, <1>2 DEF Empty, Pending, CountedRight, RowRight
    <3> QED
      BY <2>3, <3>1, <3>4, <1>1, <1>4, <1>5 DEF JobRight, Empty, Writing
  <2> QED
    BY <2>2, <2>3
<1> QED
  BY <1>4, <1>6, <1>7, <1>8, <1>9 DEF PigInv, At

(***************************************************************************)
(* The theorems.                                                           *)
(***************************************************************************)

LEMMA InitRight == Init => PigInv
<1> SUFFICES ASSUME Init PROVE PigInv
  OBVIOUS
<1>1. Typed
  BY IdleOK DEF Init, Typed
<1>2. \A p \in Pigs : RowRight(row[p], waived[p])
  BY DEF Init, RowRight
<1>3. \A r \in Handlers : At(r, "idle")
  BY IdleOK DEF Init, At
<1> QED
  BY <1>1, <1>2, <1>3 DEF PigInv, Init

LEMMA StepRight == PigInv /\ [Next]_vars => PigInv'
<1> SUFFICES ASSUME PigInv, [Next]_vars PROVE PigInv'
  OBVIOUS
<1> USE DEF PigInv
<1>1. CASE UNCHANGED vars
  BY <1>1 DEF vars, history, Typed, RowRight, Exists, At
<1>2. ASSUME NEW p \in Pigs, NEW t \in Totals, NEW w \in Weights, Create(p, t, w)
      PROVE  PigInv'
  BY <1>2, CreateStep
<1>3. ASSUME NEW r \in Handlers, NEW o \in Orders, PayOpen(r, o) \/ RefundOpen(r, o)
      PROVE  PigInv'
  BY <1>3, PayOpenStep, RefundOpenStep
<1>4. ASSUME NEW r \in Handlers, PayCommit(r) \/ RefundCommit(r) \/ SaveWrite(r)
      PROVE  PigInv'
  BY <1>4, WriteStep DEF PayCommit, RefundCommit, SaveWrite, At, Writing
<1>5. ASSUME NEW r \in Handlers, NEW p \in Pigs, FarmerUpdate(r, p) \/ AdminUpdate(r, p)
      PROVE  PigInv'
  BY <1>5, FarmerStep, AdminStep
<1>6. ASSUME NEW r \in Handlers, NEW p \in Pigs, RemoveLoad(r, p) PROVE PigInv'
  <2> DEFINE n == Job("remove", p, None, None)
  <2>1. /\ Exists(p) /\ job' = [job EXCEPT ![r] = n] /\ row' = row /\ removed' = removed
        /\ waived' = waived
    BY <1>6 DEF RemoveLoad, Load
  <2>2. JobOK(n) /\ n.pc = "remove" /\ n.pig = p
    BY DEF JobOK, Job, Idle, Writing
  <2>3. JobRight(n, row[p], waived[p])
    BY <2>2 DEF JobRight, Writing
  <2>4. waived \in [Pigs -> SUBSET Facets]
    BY DEF Typed
  <2> HIDE DEF n
  <2> QED
    BY <2>1, <2>2, <2>3, <2>4, JobStep
<1>7. ASSUME NEW r \in Handlers, SaveCompare(r) \/ SaveInsert(r) \/ RemoveRow(r)
      PROVE  PigInv'
  BY <1>7, CompareStep, InsertStep, RemoveStep
<1>8. ASSUME NEW r \in Handlers, Fail(r) PROVE PigInv'
  BY <1>8, IdleOK, JobStep DEF Fail, End, history, Typed
<1> QED
  BY <1>1, <1>2, <1>3, <1>4, <1>5, <1>6, <1>7, <1>8 DEF Next

\* The invariant of the proofs, in every state.
THEOREM PigRight == Spec => []PigInv
BY InitRight, StepRight, PTL DEF Spec

\* For any pigs, orders and handlers: unless an administrator set it, or two handlers were
\* about to write it at the same time, a pig is sold out exactly when its last share is.
THEOREM SoldOutIsExact == Spec => []SoldOutExact
<1>1. PigInv => SoldOutExact
  BY DEF PigInv, RowRight, SoldRight, SoldOutExact, Promised, Exists
<1> QED
  BY <1>1, PigRight, PTL

\* And its weight is the one that the newest photo shows.
THEOREM WeightIsProven == Spec => []WeightProven
<1>1. PigInv => WeightProven
  BY DEF PigInv, RowRight, WeighedRight, WeightProven, Promised, Exists
<1> QED
  BY <1>1, PigRight, PTL

\* And a deleted pig stays deleted unless a handler that had loaded it saves it.
THEOREM DeletionIsFinal == Spec => []DeletedStaysDeleted
<1>1. PigInv => DeletedStaysDeleted
  BY DEF PigInv, DeletedStaysDeleted, Facets
<1> QED
  BY <1>1, PigRight, PTL

(***************************************************************************)
(* Counting shares.  The count in a row is that of a set, the units of the *)
(* orders paid; a payment or refund at work holds the next count, and a    *)
(* commit of another one makes it wrong only where it is waived.           *)
(***************************************************************************)
Units(S) == UNION {{o} \X (1 .. Shares[o]) : o \in S}
PaidOf(p) == {o \in paid : PigOf[o] = p}

\* What a payment or a refund holds.
Counting(j) ==
  j.pc \in {"pay", "refund"} =>
    /\ j.pig = PigOf[j.order]
    /\ j.pc = "pay" <=> j.order \notin paid
    /\ Promised(j.pig, {"count"}) =>
         /\ "sold" \in DOMAIN j.entity
         /\ j.entity["sold"] = IF j.pc = "pay" THEN row[j.pig].sold + Shares[j.order]
                               ELSE row[j.pig].sold - Shares[j.order]

CountInv ==
  /\ paid \subseteq Orders
  /\ held \in [Pigs -> Nat]
  /\ \A p \in Pigs : IsFiniteSet(Units(PaidOf(p))) /\ held[p] = Cardinality(Units(PaidOf(p)))
  /\ \A o \in paid : Exists(PigOf[o]) \/ PigOf[o] \in removed
  /\ \A r \in Handlers : Counting(job[r])
  /\ \A q, r \in Handlers : job[q].order = job[r].order /\ job[r].order \in Orders => q = r
  /\ SharesExact

\* An order more is its number of shares more.
LEMMA UnitsOfOneMore ==
  ASSUME NEW S \in SUBSET Orders, NEW o \in Orders, o \notin S,
         IsFiniteSet(Units(S)) \/ IsFiniteSet(Units(S \cup {o}))
  PROVE  /\ IsFiniteSet(Units(S)) /\ IsFiniteSet(Units(S \cup {o}))
         /\ Cardinality(Units(S)) \in Nat
         /\ Cardinality(Units(S \cup {o})) = Cardinality(Units(S)) + Shares[o]
<1> DEFINE n == Shares[o]
           one == {o}
           many == 1 .. n
           A == Units(S)
           B == one \X many
           C == Units(S \cup {o})
<1>1. n \in Nat
  BY PigAssumption
<1>2. IsFiniteSet(one) /\ Cardinality(one) = 1 /\ IsFiniteSet(many) /\ Cardinality(many) = n
  <2>1. IsFiniteSet(many) /\ Cardinality(many) = n
    BY <1>1, FS_Interval
  <2>2. IsFiniteSet(one) /\ Cardinality(one) = 1
    BY FS_Singleton
  <2> QED
    BY <2>1, <2>2
<1>3. C = A \cup B /\ A \cap B = {}
  BY DEF Units
<1>4. IsFiniteSet(A)
  BY <1>3, FS_Subset
<1> HIDE DEF one, many, A, C
<1>5. IsFiniteSet(B) /\ Cardinality(B) = 1 * n
  BY <1>2, FS_Product
<1> HIDE DEF B
<1>6. IsFiniteSet(C) /\ Cardinality(C) = Cardinality(A) + Cardinality(B) - Cardinality(A \cap B)
  BY <1>3, <1>4, <1>5, FS_Union
<1>7. Cardinality(A \cap B) = 0 /\ Cardinality(A) \in Nat
  BY <1>3, <1>4, FS_EmptySet, FS_CardinalityType
<1> HIDE DEF n
<1>8. Cardinality(C) = Cardinality(A) + n
  BY <1>1, <1>5, <1>6, <1>7
<1> QED
  BY <1>4, <1>6, <1>7, <1>8 DEF A, C, n

\* The shares of an order paid are in the count of its pig.
LEMMA PaidIsHeld ==
  ASSUME CountInv, NEW o \in paid
  PROVE  held[PigOf[o]] >= Shares[o]
<1> DEFINE p == PigOf[o]
           S == PaidOf(p) \ {o}
<1>1. p \in Pigs /\ o \in Orders /\ Shares[o] \in Nat
  BY PigAssumption DEF CountInv
<1>2. S \in SUBSET Orders /\ o \notin S /\ S \cup {o} = PaidOf(p)
  BY DEF CountInv, PaidOf
<1>3. IsFiniteSet(Units(PaidOf(p))) /\ held[p] = Cardinality(Units(PaidOf(p)))
  BY <1>1 DEF CountInv
<1> HIDE DEF S, p
<1>4. Cardinality(Units(S)) \in Nat /\ held[p] = Cardinality(Units(S)) + Shares[o]
  BY <1>1, <1>2, <1>3, UnitsOfOneMore
<1> QED
  BY <1>1, <1>4 DEF p

\* What an UPDATE does to the counts.
LEMMA WriteCounts ==
  ASSUME PigInv, NEW r \in Handlers, job[r].pc \in Writing, Write(r),
         NEW p \in Pigs, p = job[r].pig
  PROVE  /\ \A x \in Pigs : (Exists(x)' <=> Exists(x)) /\ waived[x] \subseteq waived'[x]
         /\ \A x \in Pigs \ {p} : row'[x] = row[x]
         /\ Exists(p) => row'[p].sold = IF "sold" \in DOMAIN job[r].entity
                                        THEN job[r].entity["sold"] ELSE row[p].sold
         /\ \A q \in Handlers \ {r} :
              /\ job[q].pc \in Writing /\ job[q].pig = p /\ Exists(p)
              /\ "sold" \in DOMAIN job[q].entity /\ "sold" \in DOMAIN job[r].entity
              /\ job[q].entity["sold"] # row[p].sold
              => "count" \in waived'[p]
<1> DEFINE e == job[r].entity
           F == {Facet[c] : c \in DOMAIN e}
<1>1. /\ JobOK(job[r]) /\ DOMAIN e \subseteq Columns
      /\ \A c \in DOMAIN e : e[c] \in Column[c]
  BY DEF PigInv, Typed, JobOK, Writing
<1>2. CASE ~Exists(p)
  <2>1. row' = row /\ waived' = waived
    BY <1>2 DEF Write
  <2> QED
    BY <1>1, <1>2, <2>1 DEF Exists
<1>3. CASE Exists(p)
  <2>1. row' = [row EXCEPT ![p] = Updated(row[p], e)] /\ Touch(r, p, F)
    BY <1>3 DEF Write
  <2>2. row[p] \in Row /\ row \in [Pigs -> Row \cup {None}]
    BY <1>1, <1>3 DEF PigInv, Typed, Exists
  <2>3. /\ Updated(row[p], e) \in Row
        /\ \A c \in Columns : Updated(row[p], e)[c] = IF c \in DOMAIN e THEN e[c] ELSE row[p][c]
    BY <1>1, <2>2, UpdatedRow
  <2>4. F \in SUBSET Facets
    BY <1>1, ColumnNames, FacetNames DEF Facets
  <2>5. /\ \A x \in Pigs : waived[x] \subseteq waived'[x]
        /\ \A q \in Handlers \ {r} : job[q].pig = p =>
             F \cap Over(job[q], row[p]) \subseteq waived'[p]
    BY <1>1, <1>3, <2>1, <2>4, Touched
  <2>6. row'[p] = Updated(row[p], e) /\ \A x \in Pigs \ {p} : row'[x] = row[x]
    BY <1>1, <2>1, <2>2
  <2>7. row'[p].sold = IF "sold" \in DOMAIN e THEN e["sold"] ELSE row[p].sold
    BY <2>3, <2>6, ColumnNames
  <2>8. ASSUME NEW q \in Handlers \ {r}, job[q].pc \in Writing, job[q].pig = p,
               "sold" \in DOMAIN job[q].entity, "sold" \in DOMAIN e,
               job[q].entity["sold"] # row[p].sold
        PROVE  "count" \in waived'[p]
    <3>1. "count" \in F
      BY <2>8, FacetNames
    <3>2. "count" \in Over(job[q], row[p])
      BY <2>8, FacetNames DEF Over, Writing
    <3> QED
      BY <2>5, <2>8, <3>1, <3>2
  <2>9. \A x \in Pigs : Exists(x)' <=> Exists(x)
    BY <1>3, <2>3, <2>6, PigAssumption DEF Exists
  <2> QED
    BY <1>1, <2>5, <2>6, <2>7, <2>8, <2>9
<1> QED
  BY <1>2, <1>3

\* The steps that count nothing: each row keeps its count, is new, or is waived.
LEMMA UncountedStep ==
  ASSUME PigInv, CountInv, paid' = paid, held' = held,
         \A p \in Pigs : Exists(p) \/ p \in removed => Exists(p)' \/ p \in removed',
         \A p \in Pigs : Promised(p, {"count"})' =>
           \/ Promised(p, {"count"}) /\ row'[p].sold = row[p].sold
           \/ ~Exists(p) /\ p \notin removed /\ row'[p].sold = 0,
         \A r \in Handlers : job'[r] = job[r] \/ job'[r].order = None,
         \A r \in Handlers : job'[r].pc \in {"pay", "refund"} => job'[r] = job[r]
  PROVE  CountInv'
<1>1. \A p \in Pigs : PaidOf(p)' = PaidOf(p)
  BY DEF PaidOf
<1>2. \A S : Units(S)' = Units(S)
  BY DEF Units
<1>3. \A p \in Pigs : /\ IsFiniteSet(Units(PaidOf(p)))'
                      /\ held'[p] = Cardinality(Units(PaidOf(p)))'
  <2> SUFFICES ASSUME NEW p \in Pigs
               PROVE  /\ IsFiniteSet(Units(PaidOf(p)))'
                      /\ held'[p] = Cardinality(Units(PaidOf(p)))'
    OBVIOUS
  <2>1. Units(PaidOf(p))' = Units(PaidOf(p))
    BY <1>1 DEF Units
  <2> QED
    BY <2>1 DEF CountInv
<1>4. ASSUME NEW p \in Pigs, ~Exists(p), p \notin removed PROVE PaidOf(p) = {} /\ held[p] = 0
  <2>1. PaidOf(p) = {}
    BY <1>4 DEF PaidOf, CountInv
  <2>2. Units(PaidOf(p)) = {}
    BY <2>1 DEF Units
  <2> QED
    BY <2>1, <2>2, FS_EmptySet DEF CountInv
<1>5. SharesExact'
  <2> SUFFICES ASSUME NEW p \in Pigs, Promised(p, {"count"})' PROVE row'[p].sold = held'[p]
    BY DEF SharesExact
  <2> QED
    BY <1>4 DEF CountInv, SharesExact
<1>6. ASSUME NEW r \in Handlers PROVE Counting(job[r])'
  <2> SUFFICES ASSUME job'[r].pc \in {"pay", "refund"} PROVE Counting(job[r])'
    BY DEF Counting
  <2>1. job'[r] = job[r] /\ Counting(job[r]) /\ JobOK(job[r])
    BY DEF CountInv, PigInv, Typed
  <2> DEFINE p == job[r].pig
  <2>2. p \in Pigs /\ p = PigOf[job[r].order]
    BY <2>1 DEF JobOK, Counting
  <2>3. CASE Promised(p, {"count"})' => Promised(p, {"count"}) /\ row'[p].sold = row[p].sold
    BY <2>1, <2>2, <2>3 DEF Counting
  <2>4. CASE ~Exists(p) /\ p \notin removed
    <3>1. Empty(job[r])
      BY <2>1, <2>4 DEF PigInv, At
    <3>2. job[r].order \in paid
      BY <2>1, <3>1 DEF Counting, Empty
    <3> QED
      BY <2>2, <2>4, <3>2 DEF CountInv
  <2> QED
    BY <2>2, <2>3, <2>4
<1>7. \A q, r \in Handlers : job'[q].order = job'[r].order /\ job'[r].order \in Orders => q = r
  BY PigAssumption DEF CountInv
<1>8. \A o \in paid' : Exists(PigOf[o])' \/ PigOf[o] \in removed'
  BY PigAssumption DEF CountInv
<1>9. paid' \subseteq Orders /\ held' \in [Pigs -> Nat]
  BY DEF CountInv
<1> QED
  BY <1>3, <1>5, <1>6, <1>7, <1>8, <1>9, Zenon DEF CountInv

\* A payment or refund begins.
LEMMA CountOpenStep ==
  ASSUME PigInv, CountInv, NEW r \in Handlers, NEW o \in Orders, PayOpen(r, o) \/ RefundOpen(r, o)
  PROVE  CountInv'
<1> DEFINE p == PigOf[o]
           d == row[p]
           l == job'[r].pc
           e == job'[r].entity
<1>1. /\ p \in Pigs /\ Shares[o] \in Nat \ {0}
      /\ row' = row /\ paid' = paid /\ held' = held /\ removed' = removed /\ waived' = waived
      /\ ~Busy(o)
      /\ \A q \in Handlers \ {r} : job'[q] = job[q]
  BY PigAssumption DEF PayOpen, RefundOpen, Open, history, PigInv, Typed
<1>2. /\ job'[r].pig = p /\ job'[r].order = o
      /\ l \in {"pay", "refund"} /\ (l = "pay" <=> o \notin paid)
  <2>1. ASSUME NEW x \in {"pay", "refund"}, NEW y, Open(r, x, o, y)
        PROVE  /\ job'[r].pig = p /\ job'[r].order = o /\ l = x
    BY <2>1 DEF Open, Job, PigInv, Typed
  <2>2. CASE PayOpen(r, o)
    BY <2>1, <2>2 DEF PayOpen
  <2>3. CASE RefundOpen(r, o)
    BY <2>1, <2>3 DEF RefundOpen
  <2> QED
    BY <2>2, <2>3
<1>3. ASSUME Promised(p, {"count"})
      PROVE  /\ "sold" \in DOMAIN e
             /\ e["sold"] = IF l = "pay" THEN d.sold + Shares[o] ELSE d.sold - Shares[o]
  <2>1. d \in Row /\ d.sold \in Nat /\ d.sold = held[p]
    BY <1>1, <1>3 DEF Promised, Exists, PigInv, Typed, Row, Column, CountInv, SharesExact
  <2>2. \A u \in Row : LET x == Changes(d, u) IN
          u.sold # d.sold => "sold" \in DOMAIN x /\ x["sold"] = u.sold
    <3> SUFFICES ASSUME NEW u \in Row, u.sold # d.sold
                 PROVE  "sold" \in DOMAIN Changes(d, u) /\ Changes(d, u)["sold"] = u.sold
      OBVIOUS
    <3> QED
      BY ColumnNames DEF Changes
  <2>3. CASE PayOpen(r, o)
    <3> DEFINE u == Sold(d, Shares[o])
    <3>1. u \in Row /\ u.sold = d.sold + Shares[o]
      BY <1>1, <2>1, SoldFields
    <3>2. e = Changes(d, u) /\ l = "pay"
      BY <2>3 DEF PayOpen, Open, Job, PigInv, Typed
    <3> HIDE DEF u
    <3>3. u.sold # d.sold
      BY <1>1, <2>1, <3>1
    <3> QED
      BY <2>2, <3>1, <3>2, <3>3
  <2>4. CASE RefundOpen(r, o)
    <3> DEFINE u == Released(d, Shares[o])
    <3>1. d.sold >= Shares[o]
      BY <1>1, <2>1, <2>4, PaidIsHeld DEF RefundOpen
    <3>2. u \in Row /\ u.sold = IF d.sold > Shares[o] THEN d.sold - Shares[o] ELSE 0
      BY <1>1, <2>1, ReleasedFields
    <3>3. e = Changes(d, u) /\ l = "refund"
      BY <1>3, <2>4 DEF RefundOpen, Open, Job, PigInv, Typed, Promised
    <3> HIDE DEF u
    <3>4. u.sold = d.sold - Shares[o] /\ u.sold # d.sold
      BY <1>1, <2>1, <3>1, <3>2
    <3> QED
      BY <2>2, <3>2, <3>3, <3>4
  <2> QED
    BY <2>3, <2>4
<1> HIDE DEF l, e, d
<1>4. \A q \in Handlers \ {r} : Counting(job[q])'
  BY <1>1 DEF CountInv, Counting, Promised, Exists
<1>5. Counting(job[r])'
  BY <1>1, <1>2, <1>3 DEF Counting, Promised, Exists, l, e, d
<1>6. \A q, s \in Handlers : job'[q].order = job'[s].order /\ job'[s].order \in Orders => q = s
  BY <1>1, <1>2 DEF CountInv, Busy
<1>7. \A x \in Pigs : /\ IsFiniteSet(Units(PaidOf(x)))'
                      /\ held'[x] = Cardinality(Units(PaidOf(x)))'
  BY <1>1 DEF CountInv, Units, PaidOf
<1>8. SharesExact'
  BY <1>1 DEF CountInv, SharesExact, Promised, Exists
<1> QED
  BY <1>1, <1>4, <1>5, <1>6, <1>7, <1>8 DEF CountInv, Exists

\* And ends.
LEMMA CountCommitStep ==
  ASSUME PigInv, CountInv, NEW r \in Handlers, PayCommit(r) \/ RefundCommit(r)
  PROVE  CountInv'
<1> SUFFICES ASSUME NEW p \in Pigs, p = job[r].pig, NEW o \in Orders, o = job[r].order
             PROVE  CountInv'
  <2>1. job[r].pc \in {"pay", "refund"} /\ JobOK(job[r])
    BY DEF PayCommit, RefundCommit, At, PigInv, Typed
  <2>2. job[r].pig \in Pigs /\ job[r].order \in Orders
    BY <2>1 DEF JobOK
  <2> QED
    BY <2>2
<1> DEFINE e == job[r].entity
           n == IF job[r].pc = "pay" THEN held[p] + Shares[o] ELSE held[p] - Shares[o]
<1>1. /\ job[r].pc \in {"pay", "refund"} /\ Write(r) /\ removed' = removed
      /\ p = PigOf[o] /\ Shares[o] \in Nat \ {0}
      /\ held[p] \in Nat
      /\ job'[r] = Idle /\ \A q \in Handlers \ {r} : job'[q] = job[q]
  <2>1. job[r].pc \in {"pay", "refund"} /\ Write(r) /\ removed' = removed /\ End(r)
    BY DEF PayCommit, RefundCommit, At
  <2>2. p = PigOf[o]
    BY <2>1 DEF CountInv, Counting
  <2>3. Shares[o] \in Nat \ {0} /\ held[p] \in Nat
    BY PigAssumption DEF CountInv
  <2>4. job'[r] = Idle /\ \A q \in Handlers \ {r} : job'[q] = job[q]
    BY <2>1 DEF End, PigInv, Typed
  <2> QED
    BY <2>1, <2>2, <2>3, <2>4
<1>2. /\ job[r].pc = "pay" => o \notin paid /\ paid' = paid \cup {o}
      /\ job[r].pc = "refund" => o \in paid /\ paid' = paid \ {o}
      /\ held' = [held EXCEPT ![p] = n]
  BY <1>1 DEF PayCommit, RefundCommit, At, CountInv, Counting
<1>3. /\ \A x \in Pigs : (Exists(x)' <=> Exists(x)) /\ waived[x] \subseteq waived'[x]
      /\ \A x \in Pigs \ {p} : row'[x] = row[x]
      /\ Exists(p) => row'[p].sold = IF "sold" \in DOMAIN e THEN e["sold"] ELSE row[p].sold
      /\ \A q \in Handlers \ {r} :
           /\ job[q].pc \in Writing /\ job[q].pig = p /\ Exists(p)
           /\ "sold" \in DOMAIN job[q].entity /\ "sold" \in DOMAIN e
           /\ job[q].entity["sold"] # row[p].sold
           => "count" \in waived'[p]
  BY <1>1, WriteCounts DEF Writing
<1>4. ASSUME Promised(p, {"count"})'
      PROVE  /\ Promised(p, {"count"}) /\ "sold" \in DOMAIN e
             /\ row[p].sold = held[p] /\ row[p].sold \in Nat /\ row'[p].sold = n
  <2>1. Promised(p, {"count"})
    BY <1>1, <1>3, <1>4 DEF Promised
  <2>2. row[p].sold = held[p]
    BY <1>1, <2>1 DEF CountInv, SharesExact
  <2>3. "sold" \in DOMAIN e /\ e["sold"] = IF job[r].pc = "pay" THEN row[p].sold + Shares[o]
                                            ELSE row[p].sold - Shares[o]
    BY <1>1, <2>1 DEF CountInv, Counting
  <2> QED
    BY <1>1, <1>3, <2>1, <2>2, <2>3 DEF Promised
<1>5. /\ n \in Nat
      /\ IsFiniteSet(Units(PaidOf(p)))' /\ Cardinality(Units(PaidOf(p)))' = n
  <2>1. IsFiniteSet(Units(PaidOf(p))) /\ held[p] = Cardinality(Units(PaidOf(p)))
        /\ PaidOf(p) \in SUBSET Orders
    BY <1>1 DEF CountInv, PaidOf
  <2>2. CASE job[r].pc = "pay"
    <3>1. o \notin PaidOf(p) /\ PaidOf(p)' = PaidOf(p) \cup {o}
      BY <1>1, <1>2, <2>2 DEF PaidOf
    <3>2. Units(PaidOf(p))' = Units(PaidOf(p) \cup {o})
      BY <3>1 DEF Units
    <3>3. /\ IsFiniteSet(Units(PaidOf(p) \cup {o}))
          /\ Cardinality(Units(PaidOf(p) \cup {o})) = held[p] + Shares[o]
      BY <1>1, <2>1, <3>1, UnitsOfOneMore
    <3> QED
      BY <1>1, <2>2, <3>2, <3>3
  <2>3. CASE job[r].pc = "refund"
    <3> DEFINE S == PaidOf(p) \ {o}
    <3>1. /\ PaidOf(p)' = S /\ S \cup {o} = PaidOf(p) /\ o \notin S /\ S \in SUBSET Orders
      BY <1>1, <1>2, <2>1, <2>3 DEF PaidOf
    <3>2. Units(PaidOf(p))' = Units(S)
      BY <3>1 DEF Units
    <3> HIDE DEF S
    <3>3. /\ IsFiniteSet(Units(S)) /\ Cardinality(Units(S)) \in Nat
          /\ held[p] = Cardinality(Units(S)) + Shares[o]
      BY <1>1, <2>1, <3>1, UnitsOfOneMore
    <3>4. n = held[p] - Shares[o]
      BY <2>3
    <3> HIDE DEF n
    <3> QED
      BY <1>1, <3>2, <3>3, <3>4
  <2> QED
    BY <1>1, <2>2, <2>3
<1> HIDE DEF n
<1>6. held' \in [Pigs -> Nat] /\ held'[p] = n /\ \A x \in Pigs \ {p} : held'[x] = held[x]
  BY <1>1, <1>2, <1>5 DEF CountInv
<1>7. \A x \in Pigs : /\ IsFiniteSet(Units(PaidOf(x)))'
                      /\ held'[x] = Cardinality(Units(PaidOf(x)))'
  <2> SUFFICES ASSUME NEW x \in Pigs
               PROVE  /\ IsFiniteSet(Units(PaidOf(x)))'
                      /\ held'[x] = Cardinality(Units(PaidOf(x)))'
    OBVIOUS
  <2>1. CASE x = p
    BY <2>1, <1>5, <1>6
  <2>2. CASE x # p
    <3>1. PaidOf(x)' = PaidOf(x)
      BY <1>1, <1>2, <2>2 DEF PaidOf
    <3>2. Units(PaidOf(x))' = Units(PaidOf(x))
      BY <3>1 DEF Units
    <3> QED
      BY <1>6, <2>2, <3>2 DEF CountInv
  <2> QED
    BY <2>1, <2>2
<1>8. SharesExact'
  <2> SUFFICES ASSUME NEW x \in Pigs, Promised(x, {"count"})' PROVE row'[x].sold = held'[x]
    BY DEF SharesExact
  <2>1. CASE x = p
    BY <2>1, <1>4, <1>6
  <2>2. CASE x # p
    <3>1. Promised(x, {"count"}) /\ row'[x] = row[x]
      BY <1>3, <2>2 DEF Promised
    <3> QED
      BY <2>2, <3>1, <1>6 DEF CountInv, SharesExact
  <2> QED
    BY <2>1, <2>2
<1>9. \A x \in paid' : Exists(PigOf[x])' \/ PigOf[x] \in removed'
  <2>1. \A x \in paid : Exists(PigOf[x])' \/ PigOf[x] \in removed'
    BY <1>1, <1>3, PigAssumption DEF CountInv
  <2>2. job[r].pc = "pay" => Exists(p)' \/ p \in removed'
    BY <1>1, <1>3 DEF PigInv, At, Empty
  <2> QED
    BY <1>1, <1>2, <2>1, <2>2
<1>10. ASSUME NEW q \in Handlers PROVE Counting(job[q])'
  <2>1. CASE q = r
    BY <2>1, <1>1 DEF Counting, Idle, Job
  <2>2. CASE q # r
    <3> SUFFICES ASSUME job[q].pc \in {"pay", "refund"} PROVE Counting(job[q])'
      BY <1>1, <2>2 DEF Counting
    <3>1. job'[q] = job[q] /\ Counting(job[q]) /\ JobOK(job[q])
      BY <1>1, <2>2 DEF CountInv, PigInv, Typed
    <3>2. PICK x \in Pigs : x = job[q].pig
      BY <3>1 DEF JobOK
    <3>3. job[q].order \in Orders /\ job[q].order # o
      BY <2>2, <3>1 DEF JobOK, CountInv
    <3>4. job[q].order \in paid' <=> job[q].order \in paid
      BY <1>1, <1>2, <3>3
    <3>5. ASSUME Promised(x, {"count"})'
          PROVE  Promised(x, {"count"}) /\ row'[x].sold = row[x].sold
      <4>1. CASE x # p
        BY <4>1, <1>3, <3>5 DEF Promised
      <4>2. CASE x = p
        <5>1. Promised(p, {"count"}) /\ "sold" \in DOMAIN e /\ row[p].sold \in Nat
          BY <1>4, <3>5, <4>2
        <5>2. /\ "sold" \in DOMAIN job[q].entity
              /\ job[q].entity["sold"] = IF job[q].pc = "pay"
                                         THEN row[p].sold + Shares[job[q].order]
                                         ELSE row[p].sold - Shares[job[q].order]
          BY <3>1, <3>2, <4>2, <5>1 DEF Counting
        <5>3. Shares[job[q].order] \in Nat \ {0}
          BY <3>3, PigAssumption
        <5>4. job[q].entity["sold"] # row[p].sold
          BY <5>1, <5>2, <5>3
        <5>5. q \in Handlers \ {r} /\ job[q].pc \in Writing /\ job[q].pig = p /\ Exists(p)
          BY <2>2, <3>2, <4>2, <5>1 DEF Writing, Promised
        <5>6. "count" \in waived'[p]
          BY <1>3, <5>1, <5>2, <5>4, <5>5
        <5> QED
          BY <3>5, <4>2, <5>6 DEF Promised
      <4> QED
        BY <4>1, <4>2
    <3>6. job'[q].pig = x
      BY <3>1, <3>2
    <3> QED
      BY <3>1, <3>2, <3>4, <3>5, <3>6 DEF Counting
  <2> QED
    BY <2>1, <2>2
<1>11. \A q, s \in Handlers : job'[q].order = job'[s].order /\ job'[s].order \in Orders => q = s
  BY <1>1, PigAssumption DEF CountInv, Idle, Job
<1>12. paid' \subseteq Orders
  BY <1>1, <1>2 DEF CountInv
<1> QED
  BY <1>6, <1>7, <1>8, <1>9, <1>10, <1>11, <1>12, Zenon DEF CountInv

\* The saves and removes, and the rows that come.
LEMMA CountOtherStep ==
  ASSUME PigInv, CountInv, NEW r \in Handlers,
         \/ \E p \in Pigs : FarmerUpdate(r, p) \/ AdminUpdate(r, p) \/ RemoveLoad(r, p)
         \/ SaveCompare(r) \/ SaveWrite(r) \/ SaveInsert(r) \/ RemoveRow(r) \/ Fail(r)
  PROVE  CountInv'
<1>1. paid' = paid /\ held' = held
  BY DEF FarmerUpdate, AdminUpdate, RemoveLoad, Load, SaveCompare, SaveWrite, SaveInsert,
         RemoveRow, Fail
<1>2. \A q \in Handlers : /\ job'[q] = job[q] \/ job'[q].order = None
                          /\ job'[q].pc \in {"pay", "refund"} => job'[q] = job[q]
  <2>1. ASSUME NEW n, job' = [job EXCEPT ![r] = n], n.order = None, n.pc \notin {"pay", "refund"}
        PROVE  <1>2!:
    BY <2>1 DEF PigInv, Typed
  <2>2. Idle.order = None /\ Idle.pc = "idle"
    BY DEF Idle, Job
  <2>3. ASSUME NEW p \in Pigs, NEW x, NEW l \in {"loaded", "remove", "compared", "insert"}
        PROVE  Job(l, p, None, x).order = None /\ Job(l, p, None, x).pc = l
    BY DEF Job
  <2>4. ASSUME NEW p \in Pigs, NEW x, NEW l \in {"loaded", "remove"}, Load(r, p, l, x)
        PROVE  <1>2!:
    BY <2>1, <2>3, <2>4 DEF Load
  <2>5. CASE \E p \in Pigs : FarmerUpdate(r, p) \/ AdminUpdate(r, p) \/ RemoveLoad(r, p)
    BY <2>4, <2>5 DEF FarmerUpdate, AdminUpdate, RemoveLoad
  <2>6. CASE SaveCompare(r)
    <3>1. job[r].pig \in Pigs
      BY <2>6 DEF SaveCompare, At, PigInv, Typed, JobOK
    <3> QED
      BY <2>1, <2>3, <2>6, <3>1 DEF SaveCompare, PigInv, Typed
  <2>7. CASE SaveWrite(r) \/ SaveInsert(r) \/ RemoveRow(r) \/ Fail(r)
    BY <2>1, <2>2, <2>7 DEF SaveWrite, SaveInsert, RemoveRow, Fail, End
  <2> QED
    BY <2>5, <2>6, <2>7
<1>3. /\ \A p \in Pigs : Exists(p) \/ p \in removed => Exists(p)' \/ p \in removed'
      /\ \A p \in Pigs : Promised(p, {"count"})' =>
           Promised(p, {"count"}) /\ row'[p].sold = row[p].sold
  <2>1. ASSUME row' = row, removed' = removed,
               \A x \in Pigs : waived[x] \subseteq waived'[x]
        PROVE  <1>3!:
    BY <2>1 DEF Promised, Exists
  <2>2. CASE \E x \in Pigs : FarmerUpdate(r, x) \/ AdminUpdate(r, x) \/ RemoveLoad(r, x)
    <3>1. row' = row /\ removed' = removed
      BY <2>2 DEF FarmerUpdate, AdminUpdate, RemoveLoad, Load
    <3>2. \A x \in Pigs : waived[x] \subseteq waived'[x]
      BY <2>2 DEF FarmerUpdate, AdminUpdate, RemoveLoad, PigInv, Typed
    <3> QED
      BY <2>1, <3>1, <3>2
  <2>3. CASE SaveCompare(r) \/ Fail(r)
    BY <2>1, <2>3 DEF SaveCompare, Fail, history
  <2>4. CASE SaveWrite(r)
    <3> PICK p \in Pigs : p = job[r].pig
      BY <2>4 DEF SaveWrite, At, PigInv, Typed, JobOK
    <3>1. /\ job[r].pc = "compared" /\ Write(r) /\ removed' = removed
          /\ JobRight(job[r], row[p], waived[p])
      BY <2>4 DEF SaveWrite, At, PigInv, Typed, JobOK
    <3>2. /\ \A x \in Pigs : (Exists(x)' <=> Exists(x)) /\ waived[x] \subseteq waived'[x]
          /\ \A x \in Pigs \ {p} : row'[x] = row[x]
          /\ Exists(p) => row'[p].sold = IF "sold" \in DOMAIN job[r].entity
                                         THEN job[r].entity["sold"] ELSE row[p].sold
      BY <3>1, WriteCounts DEF Writing
    <3>3. Promised(p, {"count"}) => "sold" \notin DOMAIN job[r].entity
      BY <3>1, FacetNames DEF Promised, Exists, JobRight, ComparedRight
    <3> QED
      BY <3>1, <3>2, <3>3 DEF Promised
  <2>5. CASE SaveInsert(r)
    <3> PICK p \in Pigs : p = job[r].pig
      BY <2>5 DEF SaveInsert, At, PigInv, Typed, JobOK
    <3>1. /\ removed' = removed /\ waived[p] = Facets
          /\ waived \in [Pigs -> SUBSET Facets] /\ row \in [Pigs -> Row \cup {None}]
          /\ Exists(p) \/ p \in removed
      BY <2>5 DEF SaveInsert, At, PigInv, Typed, JobOK, JobRight, Empty
    <3>2. CASE Exists(p)
      BY <2>1, <2>5, <3>1, <3>2 DEF SaveInsert
    <3>3. CASE ~Exists(p)
      <4>1. row' = [row EXCEPT ![p] = job[r].entity] /\ Touch(r, p, Facets)
        BY <2>5, <3>3 DEF SaveInsert
      <4>2. \A x \in Pigs : waived[x] \subseteq waived'[x]
        BY <3>1, <4>1, Touched DEF Facets
      <4>3. ~Promised(p, {"count"})'
        BY <3>1, <4>2 DEF Promised, Facets
      <4>4. \A x \in Pigs \ {p} : row'[x] = row[x]
        BY <3>1, <4>1
      <4> QED
        BY <3>1, <3>3, <4>2, <4>3, <4>4 DEF Promised, Exists
    <3> QED
      BY <3>2, <3>3
  <2>6. CASE RemoveRow(r)
    <3> PICK p \in Pigs : p = job[r].pig
      BY <2>6 DEF RemoveRow, At, PigInv, Typed, JobOK
    <3>1. /\ removed' = removed \cup {p} /\ row' = [row EXCEPT ![p] = None]
          /\ Touch(r, p, Facets) /\ row \in [Pigs -> Row \cup {None}]
      BY <2>6 DEF RemoveRow, At, PigInv, Typed, JobOK
    <3>2. \A x \in Pigs : waived[x] \subseteq waived'[x]
      BY <3>1, Touched DEF Facets
    <3>3. row'[p] = None /\ \A x \in Pigs \ {p} : row'[x] = row[x]
      BY <3>1
    <3> QED
      BY <3>1, <3>2, <3>3 DEF Promised, Exists
  <2> QED
    BY <2>2, <2>3, <2>4, <2>5, <2>6
<1> QED
  BY <1>1, <1>2, <1>3, UncountedStep

LEMMA InitCounts == Init => CountInv
<1> SUFFICES ASSUME Init PROVE CountInv
  OBVIOUS
<1>1. \A p \in Pigs : Units(PaidOf(p)) = {}
  BY DEF Init, Units, PaidOf
<1>2. \A p \in Pigs : IsFiniteSet(Units(PaidOf(p))) /\ held[p] = Cardinality(Units(PaidOf(p)))
  BY <1>1, FS_EmptySet DEF Init
<1>3. SharesExact
  BY DEF Init, SharesExact, Promised, Exists
<1>4. /\ \A r \in Handlers : Counting(job[r])
      /\ \A q, r \in Handlers : job[q].order = job[r].order /\ job[r].order \in Orders => q = r
  BY PigAssumption DEF Init, Counting, Idle, Job
<1> QED
  BY <1>2, <1>3, <1>4 DEF Init, CountInv

LEMMA StepCounts == PigInv /\ CountInv /\ [Next]_vars => CountInv'
<1> SUFFICES ASSUME PigInv, CountInv, [Next]_vars PROVE CountInv'
  OBVIOUS
<1>1. CASE UNCHANGED vars
  <2>1. /\ row' = row /\ paid' = paid /\ held' = held /\ job' = job /\ removed' = removed
        /\ waived' = waived
    BY <1>1 DEF vars, history
  <2> QED
    BY <2>1, UncountedStep DEF Promised, Exists
<1>2. ASSUME NEW p \in Pigs, NEW t \in Totals, NEW w \in Weights, Create(p, t, w)
      PROVE  CountInv'
  <2>1. /\ paid' = paid /\ held' = held /\ job' = job /\ removed' = removed /\ waived' = waived
        /\ ~Exists(p) /\ p \notin removed
        /\ row'[p].sold = 0 /\ \A x \in Pigs \ {p} : row'[x] = row[x]
    BY <1>2 DEF Create, history, PigInv, Typed
  <2> QED
    BY <2>1, UncountedStep DEF Promised, Exists
<1>3. ASSUME NEW r \in Handlers, NEW o \in Orders, PayOpen(r, o) \/ RefundOpen(r, o)
      PROVE  CountInv'
  BY <1>3, CountOpenStep
<1>4. ASSUME NEW r \in Handlers, PayCommit(r) \/ RefundCommit(r) PROVE CountInv'
  BY <1>4, CountCommitStep
<1>5. ASSUME NEW r \in Handlers,
             \/ \E p \in Pigs : FarmerUpdate(r, p) \/ AdminUpdate(r, p) \/ RemoveLoad(r, p)
             \/ SaveCompare(r) \/ SaveWrite(r) \/ SaveInsert(r) \/ RemoveRow(r) \/ Fail(r)
      PROVE  CountInv'
  BY <1>5, CountOtherStep
<1> QED
  BY <1>1, <1>2, <1>3, <1>4, <1>5 DEF Next

\* The count of shares and what the handlers at work hold of it, in every state.
THEOREM CountRight == Spec => []CountInv
<1>1. Init /\ PigInv => CountInv
  BY InitCounts
<1> QED
  BY <1>1, StepCounts, PigRight, PTL DEF Spec

\* For any pigs, orders and handlers: sold_shares is the number of shares that the orders paid
\* and not refunded hold, but for counts written inside another writer's load and compare
\* (order.service.ts, markPaidInTx and approveRefund; foster.service.ts, the saves of pigs).
THEOREM SharesAreExact == Spec => []SharesExact
<1>1. CountInv => SharesExact
  BY DEF CountInv
<1> QED
  BY <1>1, CountRight, PTL

\* The rows of pigs and what their writers hold stay in their types; no count of shares goes
\* below zero.
THEOREM PigTypes == Spec => []TypeOK
<1>1. PigInv /\ CountInv => TypeOK
  <2> SUFFICES ASSUME PigInv, CountInv PROVE TypeOK
    OBVIOUS
  <2>1. DOMAIN job = Handlers
    BY DEF PigInv, Typed
  <2> QED
    BY <2>1 DEF PigInv, Typed, CountInv, TypeOK
<1> QED
  BY <1>1, PigRight, CountRight, PTL
=============================================================================
