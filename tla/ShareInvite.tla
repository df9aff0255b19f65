----------------------------- MODULE ShareInvite -----------------------------
(***************************************************************************)
(* Sharing a paid order with friends:                                      *)
(* backend/src/modules/share/share.service.ts.                             *)
(*                                                                         *)
(* createInvite hands out a short code for an order, join makes a user a   *)
(* member under a code, members lists them.  None of them runs in a        *)
(* transaction, so a handler is cut at every await; the unique indexes on  *)
(* code and on (invite_id, user_id) are all that holds between the cuts.   *)
(* An invite is named by its code.  lookup only reads and has no action.   *)
(***************************************************************************)
EXTENDS Integers

CONSTANTS
  Users,
  Orders,
  HostOf,       \* the user_id of each order
  Codes,        \* short codes
  Handlers,     \* handlers that may run at the same time, each used again and again
  TTL,          \* TTL_DAYS
  Draws,        \* how many codes createInvite draws before it gives up
  MaxTime,      \* bound: the clock stops here
  None          \* "no order", "no user", "no code"

ASSUME ShareAssumption ==
  /\ HostOf \in [Orders -> Users]
  /\ None \notin Users \cup Orders \cup Codes
  /\ {TTL, Draws} \subseteq Nat \ {0}
  /\ MaxTime \in Nat

VARIABLES
  clock,
  paid,         \* orders whose status is 'paid'
  orderOf,      \* order_id of the invite with this code, None when there is no row
  expires,      \* its expires_at
  role,         \* share_member: the role under a code of each user
  req,          \* per handler: where it is and what it holds
  raced         \* history: orders with two createInvites in progress at once

inviteVars == <<orderOf, expires>>
vars == <<clock, paid, inviteVars, role, req, raced>>

Roles == {"none", "member", "host"}

Places == {"idle", "reuse", "draw", "insert", "view", "find", "add", "raise", "list",
           "duplicate"}

\* A handler, for a call by actor: createInvite for an order, join or members for a
\* code; when it read the clock, and how many draws it has left.
Handling == [
  pc    : Places,
  job   : {"none", "create", "join", "members"},
  actor : Users \cup {None},
  order : Orders \cup {None},
  code  : Codes \cup {None},
  since : 0..MaxTime,
  draws : 0..Draws]

Idle == [pc |-> "idle", job |-> "none", actor |-> None, order |-> None, code |-> None,
         since |-> 0, draws |-> 0]

Init ==
  /\ clock = 0
  /\ paid = {}
  /\ orderOf = [c \in Codes |-> None]
  /\ expires = [c \in Codes |-> 0]
  /\ role = [c \in Codes |-> [u \in Users |-> "none"]]
  /\ req = [r \in Handlers |-> Idle]
  /\ raced = {}

Invites == {c \in Codes : orderOf[c] # None}
Host(c) == HostOf[orderOf[c]]

At(r, l) == req[r].pc = l
Goto(r, l) == req' = [req EXCEPT ![r].pc = l]
End(r) == req' = [req EXCEPT ![r] = Idle]

(***************************************************************************)
(* The clock, and the payments and refunds of orders.                      *)
(***************************************************************************)
Tick ==
  /\ clock < MaxTime
  /\ clock' = clock + 1
  /\ UNCHANGED <<paid, inviteVars, role, req, raced>>

OrderMoves(o) ==
  /\ paid' = IF o \in paid THEN paid \ {o} ELSE paid \cup {o}
  /\ UNCHANGED <<clock, inviteVars, role, req, raced>>

(***************************************************************************)
(* createInvite.                                                           *)
(***************************************************************************)
CreateLoad(r, o) ==
  /\ At(r, "idle")
  /\ o \in paid
  /\ req' = [req EXCEPT ![r] = [pc |-> "reuse", job |-> "create", actor |-> HostOf[o],
                                order |-> o, code |-> None, since |-> clock, draws |-> Draws]]
  /\ raced' = IF \E q \in Handlers : req[q].order = o THEN raced \cup {o} ELSE raced
  /\ UNCHANGED <<clock, paid, inviteVars, role>>

SpentFor(o, t) == {c \in Invites : orderOf[c] = o /\ expires[c] < t}      \* mutant
LiveFor(o, t) == {c \in Invites : orderOf[c] = o /\ expires[c] > t}

Reuse(r) ==
  /\ At(r, "reuse")
  /\ LiveFor(req[r].order, req[r].since) # {}
  /\ End(r)
  /\ UNCHANGED <<clock, paid, inviteVars, role, raced>>

NoneLiveUnasked(r) ==                                          \* mutant
  /\ At(r, "reuse")
  /\ SpentFor(req[r].order, req[r].since) = {}
  /\ Goto(r, "draw")
  /\ UNCHANGED <<clock, paid, inviteVars, role, raced>>
NoneLive(r) ==
  /\ At(r, "reuse")
  /\ LiveFor(req[r].order, req[r].since) = {}
  /\ Goto(r, "draw")
  /\ UNCHANGED <<clock, paid, inviteVars, role, raced>>

\* A random code; one that is in use is drawn again, Draws times at most.
DrawFree(r, c) ==
  /\ At(r, "draw")
  /\ c \notin Invites
  /\ req' = [req EXCEPT ![r].pc = "insert", ![r].code = c]
  /\ UNCHANGED <<clock, paid, inviteVars, role, raced>>

DrawTaken(r, c) ==
  /\ At(r, "draw")
  /\ c \in Invites
  /\ IF req[r].draws = 1 THEN End(r) ELSE req' = [req EXCEPT ![r].draws = @ - 1]
  /\ UNCHANGED <<clock, paid, inviteVars, role, raced>>

\* The unique index on code refuses what another handler has inserted since.
InsertInvite(r) ==
  /\ At(r, "insert")
  /\ IF req[r].code \in Invites
       THEN Goto(r, "duplicate") /\ UNCHANGED inviteVars
       ELSE /\ orderOf' = [orderOf EXCEPT ![req[r].code] = req[r].order]
            /\ expires' = [expires EXCEPT ![req[r].code] = req[r].since + TTL]
            /\ Goto(r, "find")
  /\ UNCHANGED <<clock, paid, role, raced>>

(***************************************************************************)
(* join and members begin with getValidInvite; members then asks whether   *)
(* the caller may look.                                                    *)
(***************************************************************************)
ValidInvite(c) == c \in Invites /\ expires[c] >= clock

Enter(r, j, u, c, l) ==
  /\ At(r, "idle")
  /\ ValidInvite(c)
  /\ req' = [req EXCEPT ![r] = [pc |-> l, job |-> j, actor |-> u, order |-> None,
                                code |-> c, since |-> 0, draws |-> 0]]
  /\ UNCHANGED <<clock, paid, inviteVars, role, raced>>

Join(r, u, c) == Enter(r, "join", u, c, "find")

Members(r, u, c) == Enter(r, "members", u, c, IF u = Host(c) THEN "find" ELSE "view")

CanView(r) ==
  /\ At(r, "view")
  /\ IF role[req[r].code][req[r].actor] # "none" THEN Goto(r, "find") ELSE End(r)
  /\ UNCHANGED <<clock, paid, inviteVars, role, raced>>

(***************************************************************************)
(* ensureMember: join asks for its caller as a member, the others for the  *)
(* owner of the invite as the host.                                        *)
(***************************************************************************)
Asked(r) == IF req[r].job = "join" THEN req[r].actor ELSE Host(req[r].code)
AskedRole(r) == IF req[r].job = "join" THEN "member" ELSE "host"

Ensured(r) == IF req[r].job = "members" THEN Goto(r, "list") ELSE End(r)

FindMemberAnyRole(r) ==                                        \* mutant
  /\ At(r, "find")
  /\ IF role[req[r].code][Asked(r)] = "none" THEN Goto(r, "add") ELSE Ensured(r)
  /\ UNCHANGED <<clock, paid, inviteVars, role, raced>>
FindMember(r) ==
  LET had == role[req[r].code][Asked(r)] IN
  /\ At(r, "find")
  /\ \/ had = "none" /\ Goto(r, "add")
     \/ had = "member" /\ AskedRole(r) = "host" /\ Goto(r, "raise")
     \/ had \in {AskedRole(r), "host"} /\ Ensured(r)
  /\ UNCHANGED <<clock, paid, inviteVars, role, raced>>

\* The unique index on (invite_id, user_id) refuses what another handler has inserted
\* since.
AddMember(r) ==
  /\ At(r, "add")
  /\ IF role[req[r].code][Asked(r)] # "none"
       THEN Goto(r, "duplicate") /\ UNCHANGED role
       ELSE role' = [role EXCEPT ![req[r].code][Asked(r)] = AskedRole(r)] /\ Ensured(r)
  /\ UNCHANGED <<clock, paid, inviteVars, raced>>

RaiseToHost(r) ==
  /\ At(r, "raise")
  /\ role' = [role EXCEPT ![req[r].code][Asked(r)] = "host"]
  /\ Ensured(r)
  /\ UNCHANGED <<clock, paid, inviteVars, raced>>

(***************************************************************************)
(* The list, or the error of an index, is answered; a statement fails or   *)
(* the process exits, and what was written stays.                          *)
(***************************************************************************)
Answer(r) ==
  /\ req[r].pc \in {"list", "duplicate"}
  /\ End(r)
  /\ UNCHANGED <<clock, paid, inviteVars, role, raced>>

Fail(r) ==
  /\ ~At(r, "idle")
  /\ End(r)
  /\ UNCHANGED <<clock, paid, inviteVars, role, raced>>

Next ==
  \/ Tick
  \/ \E o \in Orders : OrderMoves(o)
  \/ \E r \in Handlers :
       \/ \E o \in Orders : CreateLoad(r, o)
       \/ Reuse(r) \/ NoneLive(r) \/ InsertInvite(r)
       \/ \E c \in Codes : DrawFree(r, c) \/ DrawTaken(r, c)
       \/ \E u \in Users, c \in Codes : Join(r, u, c) \/ Members(r, u, c)
       \/ CanView(r) \/ FindMember(r) \/ AddMember(r) \/ RaiseToHost(r)
       \/ Answer(r) \/ Fail(r)

Spec == Init /\ [][Next]_vars

(***************************************************************************)
(* Properties.                                                             *)
(***************************************************************************)

\* Every column and place holds a value of its type; an invite expires one TTL after
\* some time of the past, and only a code with an invite has members.
TypeOK ==
  /\ clock \in 0..MaxTime
  /\ paid \subseteq Orders
  /\ orderOf \in [Codes -> Orders \cup {None}]
  /\ expires \in [Codes -> Nat]
  /\ role \in [Codes -> [Users -> Roles]]
  /\ req \in [Handlers -> Handling]
  /\ raced \subseteq Orders
  /\ \A c \in Invites : expires[c] <= clock + TTL
  /\ \A c \in Codes \ Invites, u \in Users : role[c][u] = "none"

\* An order for which createInvites never overlap has at most one code in force,
\* whatever failed on the way: a new one is made only when no old one is left.
OneLiveInvite ==
  \A o \in Orders \ raced : \A c, d \in LiveFor(o, clock) : c = d

\* A member list that is answered shows the owner of the invite, as the host, also
\* when the createInvite that made the invite never got to write his row, when he
\* joined by his own code, or when others ask at the same time.
HostListed ==
  \A r \in Handlers : At(r, "list") => role[req[r].code][Host(req[r].code)] = "host"

\* Nobody else ever becomes the host of an invite: neither the one who joins nor the
\* member whose look at the list writes the host's row.
OnlyOwnerIsHost ==
  \A c \in Invites, u \in Users : role[c][u] = "host" => u = Host(c)

\* The list is answered to the owner and to members only, although the membership was
\* asked for several statements ago.
ListedForMembers ==
  \A r \in Handlers : At(r, "list") =>
    req[r].actor = Host(req[r].code) \/ role[req[r].code][req[r].actor] # "none"

\* A row under a code never sinks from host to member and never goes away, and a code
\* once handed out stays with its order and its expiry.
NothingTakenBack ==
  [][/\ \A c \in Codes, u \in Users :
          /\ role[c][u] = "host" => role'[c][u] = "host"
          /\ role[c][u] = "member" => role'[c][u] # "none"
     /\ \A c \in Invites : orderOf'[c] = orderOf[c] /\ expires'[c] = expires[c]]_vars
=============================================================================
