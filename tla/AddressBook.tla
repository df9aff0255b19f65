----------------------------- MODULE AddressBook -----------------------------
(***************************************************************************)
(* The delivery addresses of a user:                                       *)
(* backend/src/modules/address/address.service.ts.                         *)
(*                                                                         *)
(* Each handler is a sequence of single statements with nothing around     *)
(* them, so a request is cut at every await.  save of a loaded entity      *)
(* writes its columns back by id, and INSERTs the row when it is gone by   *)
(* then.  A request is used once; an address is named after the request    *)
(* that created it.                                                        *)
(***************************************************************************)
EXTENDS Integers, FiniteSets

CONSTANTS
  Users,
  Requests,     \* handlers, and the addresses they may create
  MaxInFlight,  \* bound: requests being handled at the same time
  None          \* "no user", "no address"

ASSUME AddressAssumption ==
  /\ None \notin Users \cup Requests
  /\ IsFiniteSet(Requests)
  /\ MaxInFlight \in Nat

VARIABLES
  rows,         \* ids in the address table
  owner,        \* user_id of every address ever inserted
  isDefault,    \* its is_default column
  born,         \* its created_at, as a count of earlier inserts
  removed,      \* history: ids that a remove deleted
  pc, user, target, flag,
                \* per request: where its handler is, whose it is, which address
                \* it is about, and the is_default it read or is to write
  overlapped,   \* history: users with two requests in progress at once
  disturbed     \* history: users with a failed request or one that said
                \* isDefault = false

tableVars == <<rows, owner, isDefault, born, removed>>
requestVars == <<pc, user, target, flag, overlapped>>
vars == <<tableVars, requestVars, disturbed>>

PCs == {"idle", "insert", "clear", "save", "delete", "next", "promote", "done"}

Init ==
  /\ rows = {}
  /\ owner = [a \in Requests |-> None]
  /\ isDefault = [a \in Requests |-> FALSE]
  /\ born = [a \in Requests |-> 0]
  /\ removed = {}
  /\ pc = [r \in Requests |-> "idle"]
  /\ user = [r \in Requests |-> None]
  /\ target = [r \in Requests |-> None]
  /\ flag = [r \in Requests |-> FALSE]
  /\ overlapped = {}
  /\ disturbed = {}

AddressesOf(u) == {a \in rows : owner[a] = u}

Active(r) == pc[r] \notin {"idle", "done"}

\* A request of u about address a reaches l after its first statement.
Start(r, u, a, l, f) ==
  /\ pc[r] = "idle"
  /\ Cardinality({q \in Requests : Active(q)}) < MaxInFlight
  /\ pc' = [pc EXCEPT ![r] = l]
  /\ user' = [user EXCEPT ![r] = u]
  /\ target' = [target EXCEPT ![r] = a]
  /\ flag' = [flag EXCEPT ![r] = f]
  /\ overlapped' = IF \E q \in Requests : Active(q) /\ user[q] = u
                     THEN overlapped \cup {u} ELSE overlapped

Goto(r, l) ==
  /\ pc' = [pc EXCEPT ![r] = l]
  /\ UNCHANGED <<user, target, flag, overlapped>>

ClearDefaultsOfAll(u) ==                                       \* mutant
  isDefault' = [a \in Requests |-> FALSE]
ClearDefaultsNever(u) == UNCHANGED isDefault                   \* mutant
ClearDefaults(u) ==
  isDefault' = [a \in Requests |-> isDefault[a] /\ ~(a \in rows /\ owner[a] = u)]

\* save: UPDATE of the row, or INSERT with the id and created_at of the entity.
Save(a, f) ==
  /\ isDefault' = [isDefault EXCEPT ![a] = f]
  /\ rows' = rows \cup {a}

(***************************************************************************)
(* create.                                                                 *)
(***************************************************************************)
CreateDefault(r, u) ==
  /\ Start(r, u, r, "insert", TRUE)
  /\ ClearDefaults(u)
  /\ UNCHANGED <<rows, owner, born, removed, disturbed>>

\* The count: the first address of a user becomes the default one.
FirstIsDefault(u) == AddressesOf(u) = {}

CreatePlain(r, u) ==
  /\ Start(r, u, r, "insert", FirstIsDefault(u))
  /\ UNCHANGED <<tableVars, disturbed>>

Insert(r) ==
  /\ pc[r] = "insert"
  /\ Save(r, flag[r])
  /\ owner' = [owner EXCEPT ![r] = user[r]]
  /\ born' = [born EXCEPT ![r] = 1 + Cardinality({a \in Requests : born[a] # 0})]
  /\ Goto(r, "done")
  /\ UNCHANGED <<removed, disturbed>>

(***************************************************************************)
(* update, with isDefault true, false or absent in the request.            *)
(***************************************************************************)
UpdateLoad(r, u, a) ==
  /\ a \in AddressesOf(u)
  /\ \/ /\ Start(r, u, a, IF isDefault[a] THEN "save" ELSE "clear", TRUE)
        /\ UNCHANGED disturbed
     \/ /\ Start(r, u, a, "save", FALSE)
        /\ disturbed' = disturbed \cup {u}
     \/ /\ Start(r, u, a, "save", isDefault[a])
        /\ UNCHANGED disturbed
  /\ UNCHANGED tableVars

UpdateClear(r) ==
  /\ pc[r] = "clear"
  /\ ClearDefaults(user[r])
  /\ Goto(r, "save")
  /\ UNCHANGED <<rows, owner, born, removed, disturbed>>

UpdateSave(r) ==
  /\ pc[r] = "save"
  /\ Save(target[r], flag[r])
  /\ Goto(r, "done")
  /\ UNCHANGED <<owner, born, removed, disturbed>>

(***************************************************************************)
(* remove: the address that was read as the default one is replaced by the *)
(* newest of the others.                                                   *)
(***************************************************************************)
RemoveLoad(r, u, a) ==
  /\ a \in AddressesOf(u)
  /\ Start(r, u, a, "delete", isDefault[a])
  /\ UNCHANGED <<tableVars, disturbed>>

RemoveRow(r) ==
  /\ pc[r] = "delete"
  /\ rows' = rows \ {target[r]}
  /\ isDefault' = [isDefault EXCEPT ![target[r]] = FALSE]
  /\ removed' = removed \cup {target[r]}
  /\ Goto(r, IF flag[r] THEN "next" ELSE "done")
  /\ UNCHANGED <<owner, born, disturbed>>

NewestEver(u, a) ==                                            \* mutant
  owner[a] = u /\ \A b \in Requests : owner[b] = u => born[b] <= born[a]
Newest(u, a) ==
  a \in AddressesOf(u) /\ \A b \in AddressesOf(u) : born[b] <= born[a]

PromoteLoad(r) ==
  /\ pc[r] = "next"
  /\ \E a \in Requests :
       /\ Newest(user[r], a)
       /\ pc' = [pc EXCEPT ![r] = "promote"]
       /\ target' = [target EXCEPT ![r] = a]
  /\ UNCHANGED <<user, flag, overlapped, tableVars, disturbed>>

PromoteNone(r) ==
  /\ pc[r] = "next"
  /\ AddressesOf(user[r]) = {}
  /\ Goto(r, "done")
  /\ UNCHANGED <<tableVars, disturbed>>

Promote(r) ==
  /\ pc[r] = "promote"
  /\ Save(target[r], TRUE)
  /\ Goto(r, "done")
  /\ UNCHANGED <<owner, born, removed, disturbed>>

(***************************************************************************)
(* A statement fails or the process exits: what was written stays.         *)
(***************************************************************************)
Fail(r) ==
  /\ Active(r)
  /\ Goto(r, "done")
  /\ disturbed' = disturbed \cup {user[r]}
  /\ UNCHANGED tableVars

Next ==
  \E r \in Requests :
    \/ \E u \in Users : CreateDefault(r, u) \/ CreatePlain(r, u)
    \/ \E u \in Users, a \in Requests : UpdateLoad(r, u, a) \/ RemoveLoad(r, u, a)
    \/ Insert(r) \/ UpdateClear(r) \/ UpdateSave(r)
    \/ RemoveRow(r) \/ PromoteLoad(r) \/ PromoteNone(r) \/ Promote(r)
    \/ Fail(r)

Spec == Init /\ [][Next]_vars

(***************************************************************************)
(* Properties.                                                             *)
(***************************************************************************)

\* Every column and place holds a value of its type; only rows are default, and
\* every row has an owner.
TypeOK ==
  /\ rows \subseteq Requests
  /\ owner \in [Requests -> Users \cup {None}]
  /\ isDefault \in [Requests -> BOOLEAN]
  /\ born \in [Requests -> Nat]
  /\ removed \subseteq Requests
  /\ pc \in [Requests -> PCs]
  /\ user \in [Requests -> Users \cup {None}]
  /\ target \in [Requests -> Requests \cup {None}]
  /\ flag \in [Requests -> BOOLEAN]
  /\ overlapped \subseteq Users
  /\ disturbed \subseteq Users
  /\ \A a \in Requests : isDefault[a] => a \in rows
  /\ \A a \in rows : owner[a] \in Users

DefaultsOf(u) == {a \in AddressesOf(u) : isDefault[a]}

\* A user whose requests never overlap has at most one default address, also
\* between the statements of a handler and after any of them failed: the old
\* default is cleared before a new one is written.
DefaultUnique ==
  \A u \in Users \ overlapped : \A a, b \in DefaultsOf(u) : a = b

\* If none of those requests failed or unset the default, a user with addresses
\* has a default one whenever no request is in progress: creating the first,
\* moving the mark and removing the marked one all leave one.
DefaultKept ==
  \A u \in Users \ (overlapped \cup disturbed) :
    AddressesOf(u) # {} /\ (\A r \in Requests : Active(r) => user[r] # u)
      => DefaultsOf(u) # {}

\* A removed address stays removed, unless a request that had read it before
\* saves it afterwards.
RemovedStaysRemoved ==
  \A a \in removed : owner[a] \notin overlapped => a \notin rows
=============================================================================
