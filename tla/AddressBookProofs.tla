-------------------------- MODULE AddressBookProofs --------------------------
(***************************************************************************)
(* What AddressBook guarantees for any number of users and requests.  The  *)
(* invariant says, for a user whose requests never overlap, what his one   *)
(* request in progress knows: which address it works on, that it still     *)
(* exists, and whether the user has a default address at this point.       *)
(***************************************************************************)
EXTENDS AddressBook, FiniteSetTheorems, TLAPS

\* An address that its create has not inserted yet.
Fresh(a) == a \notin rows /\ a \notin removed /\ owner[a] = None

Sole == \A q, r \in Requests :
  Active(q) /\ Active(r) /\ user[q] = user[r] /\ user[r] \notin overlapped => q = r

\* The user of an active request, and its address, which is his even when his
\* requests overlap; when they do not, it is there.
Located == \A r \in Requests :
  /\ pc[r] = "idle" => Fresh(r)
  /\ pc[r] = "insert" => Fresh(r) /\ target[r] = r
  /\ Active(r) => user[r] \in Users
  /\ pc[r] \in {"clear", "save", "delete", "promote"} =>
       /\ target[r] \in Requests /\ owner[target[r]] = user[r]
       /\ user[r] \notin overlapped => target[r] \in rows

\* What a request is to write is no second default.
WritesSole(r) ==
  /\ pc[r] = "insert" /\ flag[r] => \A a \in AddressesOf(user[r]) : ~isDefault[a]
  /\ pc[r] = "save" /\ flag[r] => \A a \in AddressesOf(user[r]) : isDefault[a] => a = target[r]
  /\ pc[r] = "clear" => flag[r]
  /\ pc[r] = "delete" => flag[r] = isDefault[target[r]]
  /\ pc[r] \in {"next", "promote"} => \A a \in AddressesOf(user[r]) : ~isDefault[a]

Writes == \A r \in Requests : Active(r) /\ user[r] \notin overlapped => WritesSole(r)

HasDefault(u) == \E a \in AddressesOf(u) : isDefault[a]

\* The user has a default address, or his request is about to write one.
Kept == \A u \in Users \ (overlapped \cup disturbed) :
  \/ AddressesOf(u) = {}
  \/ HasDefault(u)
  \/ \E r \in Requests : /\ Active(r) /\ user[r] = u
                         /\ \/ pc[r] \in {"insert", "save"} /\ flag[r]
                            \/ pc[r] \in {"next", "promote"}

\* A request that is to write a plain address leaves a default one in place.
LeavesDefault(r) ==
  /\ pc[r] = "insert" /\ ~flag[r] => AddressesOf(user[r]) # {} /\ HasDefault(user[r])
  /\ pc[r] = "save" /\ ~flag[r] => HasDefault(user[r]) /\ ~isDefault[target[r]]

KeptBy == \A r \in Requests :
  Active(r) /\ user[r] \notin overlapped \cup disturbed => LeavesDefault(r)

AddressInv ==
  TypeOK /\ Sole /\ Located /\ DefaultUnique /\ Writes /\ Kept /\ KeptBy /\ RemovedStaysRemoved

\* There is no address and no request.
LEMMA AddressInitInv == Init => AddressInv
  BY AddressAssumption
  DEF Init, AddressInv, TypeOK, PCs, Sole, Located, Fresh, Active, DefaultUnique, DefaultsOf,
      AddressesOf, Writes, WritesSole, Kept, KeptBy, HasDefault, RemovedStaysRemoved

\* A count of requests is a number.
LEMMA BornIsNat ==
  ASSUME NEW P \in SUBSET Requests
  PROVE  Cardinality(P) \in Nat
  BY AddressAssumption, FS_CardinalityType, FS_Subset

\* The mark is cleared before the new address takes it, and the request is about to
\* insert it.
LEMMA CreateDefaultInv ==
  ASSUME AddressInv, NEW r \in Requests, NEW u \in Users, CreateDefault(r, u)
  PROVE  AddressInv'
<1> USE AddressAssumption DEF AddressInv, TypeOK, PCs, Active, AddressesOf,
                              CreateDefault, Start, ClearDefaults, tableVars
<1>1. TypeOK'
  BY DEF Located, Fresh
<1>2. Sole'
  BY DEF Sole
<1>3. Located'
  BY DEF Located, Fresh, Sole
<1>4. DefaultUnique'
  BY DEF DefaultUnique, DefaultsOf, Writes, WritesSole, Located, Fresh, Sole
<1>5. Writes'
  BY DEF DefaultUnique, DefaultsOf, Writes, WritesSole, Located, Fresh, Sole
<1>6. Kept'
  <2> SUFFICES ASSUME NEW v \in Users, v \notin overlapped', v \notin disturbed', AddressesOf(v)' # {}
               PROVE  \/ HasDefault(v)'
                      \/ \E q \in Requests : /\ Active(q)' /\ user'[q] = v
                                             /\ \/ pc'[q] \in {"insert", "save"} /\ flag'[q]
                                                \/ pc'[q] \in {"next", "promote"}
    BY DEF Kept
  <2>1. CASE v = u
    BY <2>1
  <2>2. CASE v # u
    <3>1. \A a \in AddressesOf(v) : isDefault'[a] = isDefault[a]
      BY <2>2
    <3>2. v \notin overlapped /\ v \notin disturbed /\ AddressesOf(v) # {}
      OBVIOUS
    <3>3. CASE HasDefault(v)
      BY <3>1, <3>3 DEF HasDefault
    <3>4. CASE ~HasDefault(v)
      <4>1. PICK q \in Requests : /\ Active(q) /\ user[q] = v
                                  /\ \/ pc[q] \in {"insert", "save"} /\ flag[q]
                                     \/ pc[q] \in {"next", "promote"}
        BY <3>2, <3>4 DEF Kept
      <4>2. q # r
        BY <4>1
      <4> QED BY <4>1, <4>2
    <3> QED BY <3>3, <3>4
  <2> QED BY <2>1, <2>2
<1>7. KeptBy'
  BY DEF KeptBy, LeavesDefault, HasDefault, Kept, Sole, Located, Fresh, Writes, WritesSole
<1>8. RemovedStaysRemoved'
  BY DEF RemovedStaysRemoved, Located, Fresh
<1> QED BY <1>1, <1>2, <1>3, <1>4, <1>5, <1>6, <1>7, <1>8

\* Without a wish for the mark, it is taken exactly when there is no other address.
LEMMA CreatePlainInv ==
  ASSUME AddressInv, NEW r \in Requests, NEW u \in Users, CreatePlain(r, u)
  PROVE  AddressInv'
<1> USE AddressAssumption DEF AddressInv, TypeOK, PCs, Active, AddressesOf,
                              CreatePlain, Start, FirstIsDefault, tableVars
<1>1. TypeOK'
  BY DEF Located, Fresh
<1>2. Sole'
  BY DEF Sole
<1>3. Located'
  BY DEF Located, Fresh, Sole
<1>4. DefaultUnique'
  BY DEF DefaultUnique, DefaultsOf, Writes, WritesSole, Located, Fresh, Sole
<1>5. Writes'
  BY DEF DefaultUnique, DefaultsOf, Writes, WritesSole, Located, Fresh, Sole
<1>6. Kept'
  BY DEF Kept, HasDefault, KeptBy, LeavesDefault, Located, Fresh, Writes, WritesSole, Sole
<1>7. KeptBy'
  <2> SUFFICES ASSUME NEW q \in Requests, Active(q)', user'[q] \notin overlapped' \cup disturbed'
               PROVE  LeavesDefault(q)'
    BY DEF KeptBy
  <2>1. CASE q = r
    <3>1. u \notin overlapped \cup disturbed /\ \A s \in Requests : Active(s) => user[s] # u
      BY <2>1
    <3>2. AddressesOf(u) = {} \/ HasDefault(u)
      BY <3>1 DEF Kept
    <3> QED BY <2>1, <3>2 DEF LeavesDefault, HasDefault
  <2>2. CASE q # r
    BY <2>2 DEF KeptBy, LeavesDefault, HasDefault
  <2> QED BY <2>1, <2>2
<1>8. RemovedStaysRemoved'
  BY DEF RemovedStaysRemoved, Located, Fresh
<1> QED BY <1>1, <1>2, <1>3, <1>4, <1>5, <1>6, <1>7, <1>8

\* The row is new, and takes the mark only if no other address has it.
LEMMA InsertInv ==
  ASSUME AddressInv, NEW r \in Requests, Insert(r)
  PROVE  AddressInv'
<1> USE AddressAssumption DEF AddressInv, TypeOK, PCs, Active, AddressesOf,
                              Insert, Save, Goto
<1>1. TypeOK'
  BY BornIsNat DEF Located, Fresh
<1>2. Sole'
  BY DEF Sole
<1>3. Located'
  BY DEF Located, Fresh, Sole
<1>4. DefaultUnique'
  BY DEF DefaultUnique, DefaultsOf, Writes, WritesSole, Located, Fresh, Sole
<1>5. Writes'
  BY DEF DefaultUnique, DefaultsOf, Writes, WritesSole, Located, Fresh, Sole
<1>6. Kept'
  BY DEF Kept, HasDefault, KeptBy, LeavesDefault, Located, Fresh, Writes, WritesSole, Sole
<1>7. KeptBy'
  BY DEF KeptBy, LeavesDefault, HasDefault, Kept, Sole, Located, Fresh, Writes, WritesSole
<1>8. RemovedStaysRemoved'
  BY DEF RemovedStaysRemoved, Located, Fresh
<1> QED BY <1>1, <1>2, <1>3, <1>4, <1>5, <1>6, <1>7, <1>8

\* What the loaded row says of the mark is what the request will write.
LEMMA UpdateLoadInv ==
  ASSUME AddressInv, NEW r \in Requests, NEW u \in Users, NEW a \in Requests, UpdateLoad(r, u, a)
  PROVE  AddressInv'
<1> USE AddressAssumption DEF AddressInv, TypeOK, PCs, Active, AddressesOf,
                              UpdateLoad, Start, tableVars
<1>1. TypeOK'
  <2>1. \E l \in {"save", "clear"}, f \in BOOLEAN : Start(r, u, a, l, f)
    BY DEF Start
  <2>2. disturbed' \subseteq disturbed \cup {u} /\ UNCHANGED tableVars
    OBVIOUS
  <2> QED BY <2>1, <2>2
<1>2. Sole'
  BY DEF Sole
<1>3. Located'
  BY DEF Located, Fresh, Sole
<1>4. DefaultUnique'
  BY DEF DefaultUnique, DefaultsOf, Writes, WritesSole, Located, Fresh, Sole
<1>5. Writes'
  BY DEF DefaultUnique, DefaultsOf, Writes, WritesSole, Located, Fresh, Sole
<1>6. Kept'
  BY DEF Kept, HasDefault, KeptBy, LeavesDefault, Located, Fresh, Writes, WritesSole, Sole
<1>7. KeptBy'
  BY DEF KeptBy, LeavesDefault, HasDefault, Kept, Sole, Located, Fresh, Writes, WritesSole
<1>8. RemovedStaysRemoved'
  BY DEF RemovedStaysRemoved, Located, Fresh
<1> QED BY <1>1, <1>2, <1>3, <1>4, <1>5, <1>6, <1>7, <1>8

\* After the clear, the address to be saved is the only one that may be marked.
LEMMA UpdateClearInv ==
  ASSUME AddressInv, NEW r \in Requests, UpdateClear(r)
  PROVE  AddressInv'
<1> USE AddressAssumption DEF AddressInv, TypeOK, PCs, Active, AddressesOf,
                              UpdateClear, ClearDefaults, Goto
<1>1. TypeOK'
  BY DEF Located, Fresh
<1>2. Sole'
  BY DEF Sole
<1>3. Located'
  BY DEF Located, Fresh, Sole
<1>4. DefaultUnique'
  BY DEF DefaultUnique, DefaultsOf, Writes, WritesSole, Located, Fresh, Sole
<1>5. Writes'
  BY DEF DefaultUnique, DefaultsOf, Writes, WritesSole, Located, Fresh, Sole
<1>6. Kept'
  BY DEF Kept, HasDefault, KeptBy, LeavesDefault, Located, Fresh, Writes, WritesSole, Sole
<1>7. KeptBy'
  BY DEF KeptBy, LeavesDefault, HasDefault, Kept, Sole, Located, Fresh, Writes, WritesSole
<1>8. RemovedStaysRemoved'
  BY DEF RemovedStaysRemoved, Located, Fresh
<1> QED BY <1>1, <1>2, <1>3, <1>4, <1>5, <1>6, <1>7, <1>8

\* The saved row is still there, and its mark is the only one.
LEMMA UpdateSaveInv ==
  ASSUME AddressInv, NEW r \in Requests, UpdateSave(r)
  PROVE  AddressInv'
<1> USE AddressAssumption DEF AddressInv, TypeOK, PCs, Active, AddressesOf,
                              UpdateSave, Save, Goto
<1>1. TypeOK'
  BY DEF Located, Fresh
<1>2. Sole'
  BY DEF Sole
<1>3. Located'
  BY DEF Located, Fresh, Sole
<1>4. DefaultUnique'
  BY DEF DefaultUnique, DefaultsOf, Writes, WritesSole, Located, Fresh, Sole
<1>5. Writes'
  BY DEF DefaultUnique, DefaultsOf, Writes, WritesSole, Located, Fresh, Sole
<1>6. Kept'
  BY DEF Kept, HasDefault, KeptBy, LeavesDefault, Located, Fresh, Writes, WritesSole, Sole
<1>7. KeptBy'
  BY DEF KeptBy, LeavesDefault, HasDefault, Kept, Sole, Located, Fresh, Writes, WritesSole
<1>8. RemovedStaysRemoved'
  BY DEF RemovedStaysRemoved, Located, Fresh
<1> QED BY <1>1, <1>2, <1>3, <1>4, <1>5, <1>6, <1>7, <1>8

\* The request remembers whether the row it is to delete has the mark.
LEMMA RemoveLoadInv ==
  ASSUME AddressInv, NEW r \in Requests, NEW u \in Users, NEW a \in Requests, RemoveLoad(r, u, a)
  PROVE  AddressInv'
<1> USE AddressAssumption DEF AddressInv, TypeOK, PCs, Active, AddressesOf,
                              RemoveLoad, Start, tableVars
<1>1. TypeOK'
  BY DEF Located, Fresh
<1>2. Sole'
  BY DEF Sole
<1>3. Located'
  BY DEF Located, Fresh, Sole
<1>4. DefaultUnique'
  BY DEF DefaultUnique, DefaultsOf, Writes, WritesSole, Located, Fresh, Sole
<1>5. Writes'
  BY DEF DefaultUnique, DefaultsOf, Writes, WritesSole, Located, Fresh, Sole
<1>6. Kept'
  BY DEF Kept, HasDefault, KeptBy, LeavesDefault, Located, Fresh, Writes, WritesSole, Sole
<1>7. KeptBy'
  BY DEF KeptBy, LeavesDefault, HasDefault, Kept, Sole, Located, Fresh, Writes, WritesSole
<1>8. RemovedStaysRemoved'
  BY DEF RemovedStaysRemoved, Located, Fresh
<1> QED BY <1>1, <1>2, <1>3, <1>4, <1>5, <1>6, <1>7, <1>8

\* When the marked row goes, the request is about to promote another.
LEMMA RemoveRowInv ==
  ASSUME AddressInv, NEW r \in Requests, RemoveRow(r)
  PROVE  AddressInv'
<1> USE AddressAssumption DEF AddressInv, TypeOK, PCs, Active, AddressesOf,
                              RemoveRow, Goto
<1>1. TypeOK'
  BY DEF Located, Fresh
<1>2. Sole'
  BY DEF Sole
<1>3. Located'
  BY DEF Located, Fresh, Sole
<1>4. DefaultUnique'
  BY DEF DefaultUnique, DefaultsOf, Writes, WritesSole, Located, Fresh, Sole
<1>5. Writes'
  <2> SUFFICES ASSUME NEW q \in Requests, Active(q)', user'[q] \notin overlapped'
               PROVE  WritesSole(q)'
    BY DEF Writes
  <2>1. CASE q = r
    BY <2>1 DEF Located, Writes, WritesSole, DefaultUnique, DefaultsOf
  <2>2. CASE q # r
    <3>1. user[q] # user[r] /\ WritesSole(q)
      BY <2>2 DEF Sole, Writes
    <3>2. pc[q] = "delete" => target[q] # target[r] /\ target[q] \in Requests
      BY <2>2, <3>1 DEF Located
    <3> QED BY <2>2, <3>1, <3>2 DEF WritesSole
  <2> QED BY <2>1, <2>2
<1>6. Kept'
  BY DEF Kept, HasDefault, KeptBy, LeavesDefault, Located, Fresh, Writes, WritesSole, Sole
<1>7. KeptBy'
  BY DEF KeptBy, LeavesDefault, HasDefault, Kept, Sole, Located, Fresh, Writes, WritesSole
<1>8. RemovedStaysRemoved'
  BY DEF RemovedStaysRemoved, Located, Fresh
<1> QED BY <1>1, <1>2, <1>3, <1>4, <1>5, <1>6, <1>7, <1>8

\* The row to promote is one of the user's.
LEMMA PromoteLoadInv ==
  ASSUME AddressInv, NEW r \in Requests, PromoteLoad(r)
  PROVE  AddressInv'
<1> USE AddressAssumption DEF AddressInv, TypeOK, PCs, Active, AddressesOf,
                              PromoteLoad, Newest, tableVars
<1>1. TypeOK'
  BY DEF Located, Fresh
<1>2. Sole'
  BY DEF Sole
<1>3. Located'
  BY DEF Located, Fresh, Sole
<1>4. DefaultUnique'
  BY DEF DefaultUnique, DefaultsOf, Writes, WritesSole, Located, Fresh, Sole
<1>5. Writes'
  BY DEF DefaultUnique, DefaultsOf, Writes, WritesSole, Located, Fresh, Sole
<1>6. Kept'
  BY DEF Kept, HasDefault, KeptBy, LeavesDefault, Located, Fresh, Writes, WritesSole, Sole
<1>7. KeptBy'
  BY DEF KeptBy, LeavesDefault, HasDefault, Kept, Sole, Located, Fresh, Writes, WritesSole
<1>8. RemovedStaysRemoved'
  BY DEF RemovedStaysRemoved, Located, Fresh
<1> QED BY <1>1, <1>2, <1>3, <1>4, <1>5, <1>6, <1>7, <1>8

\* With no address left, none needs the mark.
LEMMA PromoteNoneInv ==
  ASSUME AddressInv, NEW r \in Requests, PromoteNone(r)
  PROVE  AddressInv'
<1> USE AddressAssumption DEF AddressInv, TypeOK, PCs, Active, AddressesOf,
                              PromoteNone, Goto, tableVars
<1>1. TypeOK'
  BY DEF Located, Fresh
<1>2. Sole'
  BY DEF Sole
<1>3. Located'
  BY DEF Located, Fresh, Sole
<1>4. DefaultUnique'
  BY DEF DefaultUnique, DefaultsOf, Writes, WritesSole, Located, Fresh, Sole
<1>5. Writes'
  BY DEF DefaultUnique, DefaultsOf, Writes, WritesSole, Located, Fresh, Sole
<1>6. Kept'
  BY DEF Kept, HasDefault, KeptBy, LeavesDefault, Located, Fresh, Writes, WritesSole, Sole
<1>7. KeptBy'
  BY DEF KeptBy, LeavesDefault, HasDefault, Kept, Sole, Located, Fresh, Writes, WritesSole
<1>8. RemovedStaysRemoved'
  BY DEF RemovedStaysRemoved, Located, Fresh
<1> QED BY <1>1, <1>2, <1>3, <1>4, <1>5, <1>6, <1>7, <1>8

\* The promoted row is still there, and no other has the mark.
LEMMA PromoteInv ==
  ASSUME AddressInv, NEW r \in Requests, Promote(r)
  PROVE  AddressInv'
<1> USE AddressAssumption DEF AddressInv, TypeOK, PCs, Active, AddressesOf,
                              Promote, Save, Goto
<1>1. TypeOK'
  BY DEF Located, Fresh
<1>2. Sole'
  BY DEF Sole
<1>3. Located'
  BY DEF Located, Fresh, Sole
<1>4. DefaultUnique'
  BY DEF DefaultUnique, DefaultsOf, Writes, WritesSole, Located, Fresh, Sole
<1>5. Writes'
  <2> SUFFICES ASSUME NEW q \in Requests, Active(q)', user'[q] \notin overlapped'
               PROVE  WritesSole(q)'
    BY DEF Writes
  <2>1. q # r /\ user[q] # user[r] /\ WritesSole(q)
    BY DEF Sole, Writes
  <2>2. /\ AddressesOf(user[q])' = AddressesOf(user[q])
        /\ \A a \in AddressesOf(user[q]) : isDefault'[a] = isDefault[a]
        /\ pc[q] = "delete" => target[q] # target[r] /\ target[q] \in Requests
    BY <2>1 DEF Located
  <2> QED BY <2>1, <2>2 DEF WritesSole
<1>6. Kept'
  BY DEF Kept, HasDefault, KeptBy, LeavesDefault, Located, Fresh, Writes, WritesSole, Sole
<1>7. KeptBy'
  BY DEF KeptBy, LeavesDefault, HasDefault, Kept, Sole, Located, Fresh, Writes, WritesSole
<1>8. RemovedStaysRemoved'
  BY DEF RemovedStaysRemoved, Located, Fresh
<1> QED BY <1>1, <1>2, <1>3, <1>4, <1>5, <1>6, <1>7, <1>8

\* A handler that stops half-way leaves no second mark, and is on record.
LEMMA FailInv ==
  ASSUME AddressInv, NEW r \in Requests, Fail(r)
  PROVE  AddressInv'
<1> USE AddressAssumption DEF AddressInv, TypeOK, PCs, Active, AddressesOf,
                              Fail, Goto, tableVars
<1>1. TypeOK'
  BY DEF Located, Fresh
<1>2. Sole'
  BY DEF Sole
<1>3. Located'
  BY DEF Located, Fresh, Sole
<1>4. DefaultUnique'
  BY DEF DefaultUnique, DefaultsOf, Writes, WritesSole, Located, Fresh, Sole
<1>5. Writes'
  BY DEF DefaultUnique, DefaultsOf, Writes, WritesSole, Located, Fresh, Sole
<1>6. Kept'
  BY DEF Kept, HasDefault, KeptBy, LeavesDefault, Located, Fresh, Writes, WritesSole, Sole
<1>7. KeptBy'
  BY DEF KeptBy, LeavesDefault, HasDefault, Kept, Sole, Located, Fresh, Writes, WritesSole
<1>8. RemovedStaysRemoved'
  BY DEF RemovedStaysRemoved, Located, Fresh
<1> QED BY <1>1, <1>2, <1>3, <1>4, <1>5, <1>6, <1>7, <1>8

\* Every step of every request preserves the invariant.
LEMMA AddressStepInv == AddressInv /\ [Next]_vars => AddressInv'
<1> SUFFICES ASSUME AddressInv, [Next]_vars PROVE AddressInv'
  OBVIOUS
<1>1. ASSUME NEW r \in Requests, NEW u \in Users, CreateDefault(r, u) \/ CreatePlain(r, u)
      PROVE  AddressInv'
  BY <1>1, CreateDefaultInv, CreatePlainInv
<1>2. ASSUME NEW r \in Requests, NEW u \in Users, NEW a \in Requests,
             UpdateLoad(r, u, a) \/ RemoveLoad(r, u, a)
      PROVE  AddressInv'
  BY <1>2, UpdateLoadInv, RemoveLoadInv
<1>3. ASSUME NEW r \in Requests, Insert(r) \/ UpdateClear(r) \/ UpdateSave(r)
      PROVE  AddressInv'
  BY <1>3, InsertInv, UpdateClearInv, UpdateSaveInv
<1>4. ASSUME NEW r \in Requests,
             RemoveRow(r) \/ PromoteLoad(r) \/ PromoteNone(r) \/ Promote(r) \/ Fail(r)
      PROVE  AddressInv'
  BY <1>4, RemoveRowInv, PromoteLoadInv, PromoteNoneInv, PromoteInv, FailInv
<1>5. CASE UNCHANGED vars
  BY <1>5 DEF vars, tableVars, requestVars, AddressInv, TypeOK, Sole, Located, Fresh, Active,
     DefaultUnique, DefaultsOf, AddressesOf, Writes, WritesSole, Kept, KeptBy, LeavesDefault,
     HasDefault, RemovedStaysRemoved
<1> QED BY <1>1, <1>2, <1>3, <1>4, <1>5 DEF Next

\* The columns keep their types in every reachable state.
THEOREM AddressTypeCorrect == Spec => []TypeOK
<1>1. AddressInv => TypeOK
  BY DEF AddressInv
<1> QED BY AddressInitInv, AddressStepInv, <1>1, PTL DEF Spec

\* No user whose requests are handled one after the other ever has two default
\* addresses, whichever of them failed and wherever.
THEOREM DefaultIsUnique == Spec => []DefaultUnique
<1>1. AddressInv => DefaultUnique
  BY DEF AddressInv
<1> QED BY AddressInitInv, AddressStepInv, <1>1, PTL DEF Spec

\* Nor is such a user, between his requests, without one, as long as none failed and
\* none unset it.
THEOREM DefaultIsKept == Spec => []DefaultKept
<1>1. AddressInv => DefaultKept
  BY DEF AddressInv, Kept, DefaultKept, HasDefault, DefaultsOf, TypeOK
<1> QED BY AddressInitInv, AddressStepInv, <1>1, PTL DEF Spec

\* What such a user removed does not come back.
THEOREM RemovedIsFinal == Spec => []RemovedStaysRemoved
<1>1. AddressInv => RemovedStaysRemoved
  BY DEF AddressInv
<1> QED BY AddressInitInv, AddressStepInv, <1>1, PTL DEF Spec
=============================================================================
