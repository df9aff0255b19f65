-------------------------- MODULE ShareInviteProofs --------------------------
(***************************************************************************)
(* What ShareInvite guarantees for any users, orders, codes and handlers.  *)
(*                                                                         *)
(* None of the properties is inductive: they speak of a handler that is    *)
(* about to answer or of the rows it wrote, and hold because of what it    *)
(* read several statements before.  Entitled and Vacant say what of that   *)
(* is still true; both last because no row is ever taken back.             *)
(***************************************************************************)
EXTENDS ShareInvite, TLAPS

\* A handler that works on an invite has one, and someone who called it; the host's row
\* is there to be raised, and was seen by who lists.
Entitled(r) ==
  /\ req[r].pc \in {"view", "find", "add", "raise", "list"} =>
       /\ req[r].code \in Invites
       /\ req[r].actor \in Users
  /\ At(r, "raise") => req[r].job # "join" /\ role[req[r].code][Asked(r)] # "none"
  /\ At(r, "list") => role[req[r].code][Host(req[r].code)] = "host"
  /\ req[r].job = "members" /\ req[r].pc \in {"find", "add", "raise", "list"} =>
       \/ req[r].actor = Host(req[r].code)
       \/ role[req[r].code][req[r].actor] # "none"
  /\ req[r].pc \in {"view", "list"} => req[r].job = "members"

\* A createInvite that found no code in force for its order, which nobody else shares
\* meanwhile: there is still none.
Vacant(r) ==
  /\ req[r].pc \in {"reuse", "draw", "insert"} =>
       /\ req[r].job = "create" /\ req[r].order \in Orders /\ req[r].actor \in Users
       /\ req[r].since <= clock
  /\ At(r, "insert") => req[r].code \in Codes
  /\ req[r].pc \in {"reuse", "draw"} => req[r].draws > 0
  /\ req[r].pc \in {"draw", "insert"} /\ req[r].order \notin raced =>
       LiveFor(req[r].order, req[r].since) = {}

SoleCreator == \A q, r \in Handlers :
  req[q].order = req[r].order /\ req[r].order \in Orders \ raced => q = r

ShareInv ==
  /\ TypeOK
  /\ \A r \in Handlers : Entitled(r)
  /\ \A r \in Handlers : Vacant(r)
  /\ SoleCreator
  /\ OneLiveInvite
  /\ OnlyOwnerIsHost

\* What a step may do to the rows: new invites, new members, members made host.
RowsGrow ==
  /\ \A c \in Codes, u \in Users :
       /\ role[c][u] = "host" => role'[c][u] = "host"
       /\ role[c][u] = "member" => role'[c][u] # "none"
  /\ \A c \in Invites : orderOf'[c] = orderOf[c] /\ expires'[c] = expires[c]

\* There is no invite and no handler is at work.
LEMMA ShareInitInv == Init => ShareInv
  BY ShareAssumption
  DEF Init, ShareInv, TypeOK, Handling, Places, Idle, Roles, Entitled, Vacant, At, SoleCreator,
      OneLiveInvite, LiveFor, Invites, OnlyOwnerIsHost

\* A handler that moves on keeps what it holds; one that ends holds nothing.
LEMMA GotoEffect ==
  ASSUME TypeOK, NEW r \in Handlers, NEW l \in Places, Goto(r, l)
  PROVE  /\ req' \in [Handlers -> Handling]
         /\ req'[r] = [req[r] EXCEPT !.pc = l]
         /\ \A q \in Handlers \ {r} : req'[q] = req[q]
<1>1. req[r] \in Handling /\ req \in [Handlers -> Handling]
  BY DEF TypeOK
<1>2. [req[r] EXCEPT !.pc = l] \in Handling
  BY <1>1 DEF Handling
<1>3. req' = [req EXCEPT ![r] = [req[r] EXCEPT !.pc = l]]
  BY DEF Goto
<1> QED BY <1>1, <1>2, <1>3

LEMMA EndEffect ==
  ASSUME TypeOK, NEW r \in Handlers, End(r)
  PROVE  /\ req' \in [Handlers -> Handling]
         /\ req'[r] = Idle
         /\ \A q \in Handlers \ {r} : req'[q] = req[q]
  BY ShareAssumption DEF TypeOK, End, Handling, Idle, Places

\* What a handler knows of the rows outlives the steps of the others.
LEMMA EntitledKept ==
  ASSUME ShareInv, RowsGrow, TypeOK', NEW q \in Handlers, req'[q] = req[q]
  PROVE  Entitled(q)'
<1>1. Entitled(q) /\ req[q] \in Handling
  BY DEF ShareInv, TypeOK
<1>2. req[q].pc \in {"view", "find", "add", "raise", "list"} =>
        /\ req[q].code \in Invites /\ req[q].code \in Invites'
        /\ Host(req[q].code)' = Host(req[q].code)
        /\ Host(req[q].code) \in Users
        /\ req[q].actor \in Users
  BY <1>1, ShareAssumption DEF Entitled, RowsGrow, Invites, Host, ShareInv, TypeOK
<1>3. \A c \in Invites, u \in Users :
        /\ role[c][u] # "none" => role'[c][u] # "none"
        /\ role[c][u] = "host" => role'[c][u] = "host"
  BY DEF RowsGrow, ShareInv, TypeOK, Roles, Invites
<1>4. At(q, "raise")' => req'[q].job # "join" /\ role'[req'[q].code][Asked(q)'] # "none"
  BY <1>1, <1>2, <1>3 DEF Entitled, At, Asked
<1> QED BY <1>1, <1>2, <1>3, <1>4 DEF Entitled, At

\* Nor can the others give a code to an order that is nobody else's business.
LEMMA VacantKept ==
  ASSUME ShareInv, NEW q \in Handlers, req'[q] = req[q],
         clock <= clock', raced \subseteq raced', UNCHANGED inviteVars, TypeOK'
  PROVE  Vacant(q)'
  BY DEF ShareInv, Vacant, At, LiveFor, Invites, inviteVars, TypeOK, Handling

\* A handler that only moves on, or ends, has to show that it is entitled to be where it
\* goes.
LEMMA MoveInv ==
  ASSUME ShareInv, NEW r \in Handlers,
         UNCHANGED <<clock, paid, inviteVars, role, raced>>,
         req' \in [Handlers -> Handling],
         \A q \in Handlers \ {r} : req'[q] = req[q],
         req'[r].order \in {req[r].order, None},
         Entitled(r)', Vacant(r)'
  PROVE  ShareInv' /\ RowsGrow
<1> USE ShareAssumption
<1>1. TypeOK'
  BY DEF ShareInv, TypeOK, Invites, inviteVars
<1>2. RowsGrow
  BY DEF RowsGrow, Invites, inviteVars, ShareInv, TypeOK, Roles
<1>3. \A q \in Handlers : Entitled(q)' /\ Vacant(q)'
  BY <1>1, <1>2, EntitledKept, VacantKept DEF ShareInv, TypeOK
<1>4. SoleCreator'
  BY DEF ShareInv, SoleCreator
<1>5. OneLiveInvite' /\ OnlyOwnerIsHost'
  BY DEF ShareInv, OneLiveInvite, OnlyOwnerIsHost, LiveFor, Invites, Host, inviteVars
<1> QED BY <1>1, <1>2, <1>3, <1>4, <1>5 DEF ShareInv

\* A handler that ends has nothing to show.
LEMMA EndInv ==
  ASSUME ShareInv, NEW r \in Handlers, End(r), UNCHANGED <<clock, paid, inviteVars, role, raced>>
  PROVE  ShareInv' /\ RowsGrow
<1>1. Entitled(r)' /\ Vacant(r)'
  BY EndEffect DEF ShareInv, Entitled, Vacant, At, Idle
<1> QED BY <1>1, EndEffect, MoveInv DEF ShareInv, Idle

\* The clock only makes codes expire, and payments are not looked at again.
LEMMA TickInv ==
  ASSUME ShareInv, Tick
  PROVE  ShareInv' /\ RowsGrow
<1> USE ShareAssumption
<1>1. TypeOK'
  BY DEF ShareInv, TypeOK, Tick, Invites, inviteVars
<1>2. RowsGrow
  BY DEF RowsGrow, Invites, inviteVars, ShareInv, TypeOK, Roles, Tick
<1>3. \A q \in Handlers : Entitled(q)' /\ Vacant(q)'
  BY <1>1, <1>2, EntitledKept, VacantKept DEF Tick, ShareInv, TypeOK
<1>4. SoleCreator' /\ OnlyOwnerIsHost'
  BY DEF Tick, ShareInv, SoleCreator, OnlyOwnerIsHost, Invites, Host, inviteVars
<1>5. OneLiveInvite'
  BY DEF Tick, ShareInv, TypeOK, OneLiveInvite, LiveFor, Invites, inviteVars
<1> QED BY <1>1, <1>2, <1>3, <1>4, <1>5 DEF ShareInv

\* Payments and refunds touch no row of the invites.
LEMMA OrderMovesInv ==
  ASSUME ShareInv, NEW o \in Orders, OrderMoves(o)
  PROVE  ShareInv' /\ RowsGrow
<1> USE ShareAssumption
<1>1. TypeOK'
  BY DEF ShareInv, TypeOK, OrderMoves, Invites, inviteVars
<1>2. RowsGrow
  BY DEF RowsGrow, Invites, inviteVars, ShareInv, TypeOK, Roles, OrderMoves
<1>3. \A q \in Handlers : Entitled(q)' /\ Vacant(q)'
  BY <1>1, <1>2, EntitledKept, VacantKept DEF OrderMoves, ShareInv, TypeOK
<1>4. SoleCreator' /\ OnlyOwnerIsHost' /\ OneLiveInvite'
  BY DEF OrderMoves, ShareInv, SoleCreator, OnlyOwnerIsHost, OneLiveInvite, LiveFor, Invites,
         Host, inviteVars
<1> QED BY <1>1, <1>2, <1>3, <1>4 DEF ShareInv

\* A second createInvite for an order is on record.
LEMMA CreateLoadInv ==
  ASSUME ShareInv, NEW r \in Handlers, NEW o \in Orders, CreateLoad(r, o)
  PROVE  ShareInv' /\ RowsGrow
<1> USE ShareAssumption
<1> DEFINE new == [pc |-> "reuse", job |-> "create", actor |-> HostOf[o], order |-> o,
                   code |-> None, since |-> clock, draws |-> Draws]
<1>1. /\ new \in Handling
      /\ req' = [req EXCEPT ![r] = new]
      /\ UNCHANGED <<clock, paid, orderOf, expires, role>>
      /\ raced \subseteq raced' /\ raced' \subseteq raced \cup {o}
      /\ \A q \in Handlers : req[q].order = o => o \in raced'
  BY DEF CreateLoad, ShareInv, TypeOK, Handling, Places, inviteVars
<1>2. TypeOK'
  BY <1>1 DEF ShareInv, TypeOK, Invites
<1>3. RowsGrow
  BY <1>1 DEF RowsGrow, Invites, ShareInv, TypeOK, Roles
<1>4. req'[r] = new /\ \A q \in Handlers \ {r} : req'[q] = req[q]
  BY <1>1 DEF ShareInv, TypeOK
<1>5. Entitled(r)' /\ Vacant(r)'
  BY <1>1, <1>4 DEF Entitled, Vacant, At, ShareInv, TypeOK
<1>6. \A q \in Handlers : Entitled(q)' /\ Vacant(q)'
  BY <1>1, <1>2, <1>3, <1>4, <1>5, EntitledKept, VacantKept DEF ShareInv, TypeOK, inviteVars
<1>7. SoleCreator'
  BY <1>1, <1>4 DEF ShareInv, SoleCreator
<1>8. OneLiveInvite' /\ OnlyOwnerIsHost'
  BY <1>1 DEF ShareInv, OneLiveInvite, OnlyOwnerIsHost, LiveFor, Invites, Host
<1> QED BY <1>2, <1>3, <1>6, <1>7, <1>8 DEF ShareInv

\* Reusing a code writes nothing.
LEMMA ReuseInv ==
  ASSUME ShareInv, NEW r \in Handlers, Reuse(r)
  PROVE  ShareInv' /\ RowsGrow
  BY EndInv DEF Reuse

\* What was read is that no code is in force.
LEMMA NoneLiveInv ==
  ASSUME ShareInv, NEW r \in Handlers, NoneLive(r)
  PROVE  ShareInv' /\ RowsGrow
<1>1. /\ req' \in [Handlers -> Handling]
      /\ req'[r] = [req[r] EXCEPT !.pc = "draw"]
      /\ \A q \in Handlers \ {r} : req'[q] = req[q]
  BY GotoEffect DEF NoneLive, ShareInv, Places
<1>2. req[r] \in Handling
  BY DEF ShareInv, TypeOK
<1>3. Entitled(r)' /\ Vacant(r)'
  BY <1>1, <1>2 DEF NoneLive, ShareInv, Entitled, Vacant, At, LiveFor, Invites, inviteVars, Handling
<1> QED BY <1>1, <1>2, <1>3, MoveInv DEF NoneLive, Handling

\* Drawing a code writes nothing.
LEMMA DrawFreeInv ==
  ASSUME ShareInv, NEW r \in Handlers, NEW c \in Codes, DrawFree(r, c)
  PROVE  ShareInv' /\ RowsGrow
<1> DEFINE new == [req[r] EXCEPT !.pc = "insert", !.code = c]
<1>1. req[r] \in Handling
  BY DEF ShareInv, TypeOK
<1>2. new \in Handling
  BY <1>1 DEF Handling, Places
<1>3. req' = [req EXCEPT ![r] = new]
  BY DEF DrawFree, ShareInv, TypeOK
<1>4. /\ req' \in [Handlers -> Handling]
      /\ req'[r] = new
      /\ \A q \in Handlers \ {r} : req'[q] = req[q]
  BY <1>2, <1>3 DEF ShareInv, TypeOK
<1>5. Entitled(r)' /\ Vacant(r)'
  BY <1>1, <1>4 DEF DrawFree, ShareInv, Entitled, Vacant, At, LiveFor, Invites, inviteVars, Handling
<1> QED BY <1>1, <1>4, <1>5, MoveInv DEF DrawFree, Handling

\* A drawn code that is in use costs a draw, and the last one ends the handler.
LEMMA DrawTakenInv ==
  ASSUME ShareInv, NEW r \in Handlers, NEW c \in Codes, DrawTaken(r, c)
  PROVE  ShareInv' /\ RowsGrow
<1> DEFINE new == [req[r] EXCEPT !.draws = req[r].draws - 1]
<1>0. CASE req[r].draws = 1
  BY <1>0, EndInv DEF DrawTaken
<1>1. CASE req[r].draws # 1
  <2>1. req[r] \in Handling
    BY DEF ShareInv, TypeOK
  <2>2. req[r].draws > 1
    BY <1>1, <2>1, ShareAssumption DEF DrawTaken, ShareInv, Vacant, At, Handling
  <2>3. new \in Handling
    BY <2>1, <2>2, ShareAssumption DEF Handling, Places
  <2>4. req' = [req EXCEPT ![r] = new]
    BY <1>1 DEF DrawTaken, ShareInv, TypeOK
  <2>5. /\ req' \in [Handlers -> Handling]
        /\ req'[r] = new
        /\ \A q \in Handlers \ {r} : req'[q] = req[q]
    BY <2>3, <2>4 DEF ShareInv, TypeOK
  <2>6. Entitled(r)' /\ Vacant(r)'
    BY <2>1, <2>2, <2>5
    DEF DrawTaken, ShareInv, Entitled, Vacant, At, LiveFor, Invites, inviteVars, Handling
  <2> QED BY <1>1, <2>1, <2>5, <2>6, MoveInv DEF DrawTaken, Handling
<1> QED BY <1>0, <1>1

\* The first code of an order that nobody else is about to give one to.
LEMMA InsertInviteInv ==
  ASSUME ShareInv, NEW r \in Handlers, InsertInvite(r)
  PROVE  ShareInv' /\ RowsGrow
<1> USE ShareAssumption
<1>1. req[r] \in Handling /\ req[r].code \in Codes /\ req[r].order \in Orders
      /\ req[r].since <= clock /\ req[r].since \in Nat
  BY DEF InsertInvite, ShareInv, TypeOK, Vacant, At, Handling
<1>2. CASE req[r].code \in Invites
  <2>1. /\ req' \in [Handlers -> Handling]
        /\ req'[r] = [req[r] EXCEPT !.pc = "duplicate"]
        /\ \A q \in Handlers \ {r} : req'[q] = req[q]
    BY <1>2, GotoEffect DEF InsertInvite, ShareInv, Places
  <2>2. Entitled(r)' /\ Vacant(r)'
    BY <1>1, <2>1 DEF InsertInvite, ShareInv, Entitled, Vacant, At, Handling
  <2> QED BY <1>1, <1>2, <2>1, <2>2, MoveInv DEF InsertInvite, inviteVars, Handling
<1>3. CASE req[r].code \notin Invites
  <2> DEFINE c == req[r].code
             o == req[r].order
  <2>1. /\ orderOf' = [orderOf EXCEPT ![c] = o]
        /\ expires' = [expires EXCEPT ![c] = req[r].since + TTL]
        /\ UNCHANGED <<clock, paid, role, raced>>
    BY <1>3 DEF InsertInvite
  <2>2. /\ req' \in [Handlers -> Handling]
        /\ req'[r] = [req[r] EXCEPT !.pc = "find"]
        /\ \A q \in Handlers \ {r} : req'[q] = req[q]
    BY <1>3, GotoEffect DEF InsertInvite, ShareInv, Places
  <2>3. Invites' = Invites \cup {c} /\ c \in Codes /\ o \in Orders /\ o # None
    BY <1>1, <2>1 DEF Invites, ShareInv, TypeOK
  <2>4. \A d \in Invites : orderOf'[d] = orderOf[d] /\ expires'[d] = expires[d]
    BY <1>3, <2>1 DEF ShareInv, TypeOK, Invites
  <2>5. orderOf'[c] = o /\ expires'[c] = req[r].since + TTL
    BY <2>1, <2>3 DEF ShareInv, TypeOK
  <2>6. TypeOK'
    BY <1>1, <2>1, <2>2, <2>3, <2>4, <2>5 DEF ShareInv, TypeOK, Invites
  <2>7. RowsGrow
    BY <2>1, <2>4 DEF RowsGrow
  <2>8. \A q \in Handlers \ {r} : Entitled(q)'
    BY <2>2, <2>6, <2>7, EntitledKept
  <2>9. Entitled(r)'
    BY <1>1, <2>2, <2>3 DEF Entitled, At, ShareInv, InsertInvite, TypeOK, Handling, Vacant
  <2>10. \A p \in Orders, t \in Int : p # o => LiveFor(p, t)' = LiveFor(p, t)
    BY <2>3, <2>4, <2>5 DEF LiveFor
  <2>11. \A q \in Handlers \ {r} : Vacant(q)'
    <3> SUFFICES ASSUME NEW q \in Handlers \ {r} PROVE Vacant(q)'
      OBVIOUS
    <3>1. req'[q] = req[q] /\ Vacant(q) /\ req[q] \in Handling
      BY <2>2 DEF ShareInv, TypeOK
    <3>2. req[q].order = o => o \in raced
      BY <1>1 DEF ShareInv, SoleCreator
    <3> QED BY <2>1, <2>10, <3>1, <3>2 DEF Vacant, At, Handling
  <2>12. Vacant(r)'
    BY <2>2, <1>1 DEF Vacant, At, Handling
  <2>13. SoleCreator'
    BY <1>1, <2>1, <2>2 DEF ShareInv, SoleCreator, Handling
  <2>14. OneLiveInvite'
    <3> SUFFICES ASSUME NEW p \in Orders \ raced, NEW d \in LiveFor(p, clock)',
                        NEW e \in LiveFor(p, clock)'
                 PROVE  d = e
      BY <2>1 DEF OneLiveInvite
    <3>1. CASE p # o
      BY <3>1, <2>1, <2>3, <2>4, <2>5 DEF ShareInv, OneLiveInvite, LiveFor
    <3>2. CASE p = o
      <4>1. LiveFor(p, req[r].since) = {}
        BY <3>2 DEF ShareInv, Vacant, InsertInvite, At
      <4>2. LiveFor(p, clock) = {}
        BY <4>1, <1>1 DEF LiveFor, ShareInv, TypeOK, Invites
      <4>3. \A f \in LiveFor(p, clock)' : f = c
        BY <4>2, <2>1, <2>3, <2>4 DEF LiveFor
      <4> QED BY <4>3
    <3> QED BY <3>1, <3>2
  <2>15. OnlyOwnerIsHost'
    BY <1>3, <2>1, <2>3, <2>4 DEF ShareInv, TypeOK, OnlyOwnerIsHost, Host
  <2> QED BY <2>6, <2>7, <2>8, <2>9, <2>11, <2>12, <2>13, <2>14, <2>15 DEF ShareInv
<1> QED BY <1>2, <1>3

\* Who joins has a valid code.
LEMMA JoinInv ==
  ASSUME ShareInv, NEW r \in Handlers, NEW u \in Users, NEW c \in Codes, Join(r, u, c)
  PROVE  ShareInv' /\ RowsGrow
<1> USE ShareAssumption
<1> DEFINE new == [pc |-> "find", job |-> "join", actor |-> u, order |-> None, code |-> c,
                   since |-> 0, draws |-> 0]
<1>1. /\ new \in Handling
      /\ req' = [req EXCEPT ![r] = new]
      /\ c \in Invites
      /\ UNCHANGED <<clock, paid, inviteVars, role, raced>>
  <2>1. new \in Handling
    BY DEF Handling, Places, ShareInv, TypeOK
  <2> QED BY <2>1 DEF Join, Enter, ValidInvite
<1>2. /\ req' \in [Handlers -> Handling]
      /\ req'[r] = new
      /\ \A q \in Handlers \ {r} : req'[q] = req[q]
  BY <1>1 DEF ShareInv, TypeOK
<1>3. Entitled(r)' /\ Vacant(r)'
  BY <1>1, <1>2 DEF Entitled, Vacant, At, Idle, Invites, inviteVars
<1> QED BY <1>1, <1>2, <1>3, MoveInv DEF Idle

\* The owner may look at once, anybody else only as a member.
LEMMA MembersInv ==
  ASSUME ShareInv, NEW r \in Handlers, NEW u \in Users, NEW c \in Codes, Members(r, u, c)
  PROVE  ShareInv' /\ RowsGrow
<1> USE ShareAssumption
<1> DEFINE l == IF u = Host(c) THEN "find" ELSE "view"
           new == [pc |-> l, job |-> "members", actor |-> u, order |-> None, code |-> c,
                   since |-> 0, draws |-> 0]
<1>1. /\ new \in Handling
      /\ req' = [req EXCEPT ![r] = new]
      /\ c \in Invites
      /\ UNCHANGED <<clock, paid, inviteVars, role, raced>>
  <2>1. new \in Handling
    BY DEF Handling, Places, ShareInv, TypeOK
  <2> QED BY <2>1 DEF Members, Enter, ValidInvite
<1>2. /\ req' \in [Handlers -> Handling]
      /\ req'[r] = new
      /\ \A q \in Handlers \ {r} : req'[q] = req[q]
  BY <1>1 DEF ShareInv, TypeOK
<1>3. Entitled(r)' /\ Vacant(r)'
  BY <1>1, <1>2 DEF Entitled, Vacant, At, Idle, Invites, Host, inviteVars
<1> QED BY <1>1, <1>2, <1>3, MoveInv DEF Idle

\* Who is let through has a row, and keeps it.
LEMMA CanViewInv ==
  ASSUME ShareInv, NEW r \in Handlers, CanView(r)
  PROVE  ShareInv' /\ RowsGrow
<1>1. CASE role[req[r].code][req[r].actor] = "none"
  BY <1>1, EndInv DEF CanView
<1>2. CASE role[req[r].code][req[r].actor] # "none"
  <2>1. /\ req' \in [Handlers -> Handling]
        /\ req'[r] = [req[r] EXCEPT !.pc = "find"]
        /\ \A q \in Handlers \ {r} : req'[q] = req[q]
    BY <1>2, GotoEffect DEF CanView, ShareInv, Places
  <2>2. req[r] \in Handling /\ Entitled(r) /\ Vacant(r)
    BY DEF ShareInv, TypeOK
  <2>3. Entitled(r)' /\ Vacant(r)'
    BY <1>2, <2>1, <2>2 DEF CanView, Entitled, Vacant, At, Invites, Host, inviteVars, Handling
  <2> QED BY <1>2, <2>1, <2>2, <2>3, MoveInv DEF CanView, Handling
<1> QED BY <1>1, <1>2

\* After ensureMember, members lists and the others answer.
LEMMA EnsuredEffect ==
  ASSUME TypeOK, NEW r \in Handlers, Ensured(r)
  PROVE  /\ req' \in [Handlers -> Handling]
         /\ req'[r] \in {[req[r] EXCEPT !.pc = "list"], Idle}
         /\ req'[r] # Idle => req[r].job = "members"
         /\ \A q \in Handlers \ {r} : req'[q] = req[q]
<1>1. CASE req[r].job = "members"
  BY <1>1, GotoEffect DEF Ensured, Places
<1>2. CASE req[r].job # "members"
  BY <1>2, EndEffect DEF Ensured
<1> QED BY <1>1, <1>2

\* A row that is there, in the role that was asked for, is enough.
LEMMA FindMemberInv ==
  ASSUME ShareInv, NEW r \in Handlers, FindMember(r)
  PROVE  ShareInv' /\ RowsGrow
<1> DEFINE had == role[req[r].code][Asked(r)]
<1>1. /\ req[r] \in Handling /\ Entitled(r) /\ Vacant(r) /\ TypeOK
      /\ At(r, "find") /\ UNCHANGED <<clock, paid, inviteVars, role, raced>>
  BY DEF ShareInv, TypeOK, FindMember
<1>2. CASE had = "none" /\ Goto(r, "add")
  <2>1. /\ req' \in [Handlers -> Handling]
        /\ req'[r] = [req[r] EXCEPT !.pc = "add"]
        /\ \A q \in Handlers \ {r} : req'[q] = req[q]
    BY <1>1, <1>2, GotoEffect DEF Places
  <2>2. Entitled(r)' /\ Vacant(r)'
    BY <1>1, <2>1 DEF Entitled, Vacant, At, Invites, Host, inviteVars, Handling
  <2> QED BY <1>1, <2>1, <2>2, MoveInv DEF Handling
<1>3. CASE had = "member" /\ AskedRole(r) = "host" /\ Goto(r, "raise")
  <2>1. /\ req' \in [Handlers -> Handling]
        /\ req'[r] = [req[r] EXCEPT !.pc = "raise"]
        /\ \A q \in Handlers \ {r} : req'[q] = req[q]
    BY <1>1, <1>3, GotoEffect DEF Places
  <2>2. Entitled(r)' /\ Vacant(r)'
    BY <1>1, <1>3, <2>1
    DEF Entitled, Vacant, At, Invites, Host, Asked, AskedRole, inviteVars, Handling
  <2> QED BY <1>1, <2>1, <2>2, MoveInv DEF Handling
<1>4. CASE had \in {AskedRole(r), "host"} /\ Ensured(r)
  <2>1. /\ req' \in [Handlers -> Handling]
        /\ req'[r] \in {[req[r] EXCEPT !.pc = "list"], Idle}
        /\ req'[r] # Idle => req[r].job = "members"
        /\ \A q \in Handlers \ {r} : req'[q] = req[q]
    BY <1>1, <1>4, EnsuredEffect
  <2>2. Entitled(r)' /\ Vacant(r)'
    BY <1>1, <1>4, <2>1
    DEF Entitled, Vacant, At, Invites, Host, Asked, AskedRole, inviteVars, Handling, Idle
  <2> QED BY <1>1, <2>1, <2>2, MoveInv DEF Handling, Idle
<1> QED BY <1>2, <1>3, <1>4 DEF FindMember

\* The only row that is written as host is the owner's, and no row is written over.
LEMMA RowWritten ==
  ASSUME ShareInv, NEW r \in Handlers, NEW w \in {"member", "host"},
         req[r].pc \in {"add", "raise"},
         role[req[r].code][Asked(r)] # "none" => w = "host",
         w = "host" => Asked(r) = Host(req[r].code),
         role' = [role EXCEPT ![req[r].code][Asked(r)] = w],
         Ensured(r), w = AskedRole(r), UNCHANGED <<clock, paid, inviteVars, raced>>
  PROVE  ShareInv' /\ RowsGrow
<1> USE ShareAssumption
<1> DEFINE c == req[r].code
           a == Asked(r)
<1>1. /\ req[r] \in Handling /\ Entitled(r) /\ TypeOK
      /\ c \in Invites /\ c \in Codes /\ a \in Users /\ Host(c) \in Users
  BY DEF ShareInv, TypeOK, Entitled, Asked, Host, Invites
<1>2. /\ req' \in [Handlers -> Handling]
      /\ req'[r] \in {[req[r] EXCEPT !.pc = "list"], Idle}
      /\ req'[r] # Idle => req[r].job = "members"
      /\ \A q \in Handlers \ {r} : req'[q] = req[q]
  BY <1>1, EnsuredEffect
<1>3. /\ \A d \in Codes, u \in Users : role'[d][u] = IF d = c /\ u = a THEN w ELSE role[d][u]
      /\ role' \in [Codes -> [Users -> Roles]]
  BY <1>1 DEF TypeOK, Roles
<1>4. TypeOK'
  BY <1>1, <1>2, <1>3 DEF TypeOK, Invites, inviteVars
<1>5. RowsGrow
  BY <1>1, <1>3 DEF RowsGrow, inviteVars
<1>6. \A q \in Handlers \ {r} : Entitled(q)' /\ Vacant(q)'
  BY <1>1, <1>2, <1>4, <1>5, EntitledKept, VacantKept DEF TypeOK
<1>7. Vacant(r)'
  BY <1>2 DEF Vacant, At, Idle, Handling
<1>8. Entitled(r)'
  <2>1. CASE req'[r] = Idle
    BY <2>1 DEF Entitled, At, Idle
  <2>2. CASE req'[r] # Idle
    <3>1. req[r].job = "members" /\ w = "host" /\ a = Host(c)
      BY <2>2, <1>2 DEF AskedRole
    <3>2. /\ req'[r].pc = "list" /\ req'[r].job = "members"
          /\ req'[r].code = c /\ req'[r].actor = req[r].actor
      BY <2>2, <1>1, <1>2 DEF Handling
    <3>3. /\ req'[r].code \in Invites' /\ req'[r].actor \in Users
          /\ HostOf[orderOf'[c]] = Host(c)
      BY <1>1, <3>2 DEF Invites, inviteVars, Entitled, Host
    <3>4. role'[c][Host(c)] = "host"
      BY <3>1, <1>1, <1>3
    <3>5. req[r].actor = Host(c) \/ role'[c][req[r].actor] # "none"
      BY <3>1, <1>1, <1>3 DEF Entitled
    <3> QED BY <3>2, <3>3, <3>4, <3>5 DEF Entitled, At, Host
  <2> QED BY <2>1, <2>2
<1>9. SoleCreator'
  BY <1>1, <1>2 DEF ShareInv, SoleCreator, Handling, Idle
<1>10. OneLiveInvite'
  BY DEF ShareInv, OneLiveInvite, LiveFor, Invites, inviteVars
<1>11. OnlyOwnerIsHost'
  BY <1>1, <1>3 DEF ShareInv, OnlyOwnerIsHost, Invites, Host, inviteVars
<1> QED BY <1>4, <1>5, <1>6, <1>7, <1>8, <1>9, <1>10, <1>11 DEF ShareInv

\* The index keeps the row that is there.
LEMMA AddMemberInv ==
  ASSUME ShareInv, NEW r \in Handlers, AddMember(r)
  PROVE  ShareInv' /\ RowsGrow
<1>1. CASE role[req[r].code][Asked(r)] # "none"
  <2>1. /\ req' \in [Handlers -> Handling]
        /\ req'[r] = [req[r] EXCEPT !.pc = "duplicate"]
        /\ \A q \in Handlers \ {r} : req'[q] = req[q]
    BY <1>1, GotoEffect DEF AddMember, ShareInv, Places
  <2>2. req[r] \in Handling /\ Entitled(r) /\ Vacant(r)
    BY DEF ShareInv, TypeOK
  <2>3. Entitled(r)' /\ Vacant(r)'
    BY <2>1, <2>2 DEF AddMember, Entitled, Vacant, At, Handling
  <2> QED BY <1>1, <2>1, <2>2, <2>3, MoveInv DEF AddMember, Handling
<1>2. CASE role[req[r].code][Asked(r)] = "none"
  BY <1>2, RowWritten DEF AddMember, AskedRole, Asked, At
<1> QED BY <1>1, <1>2

\* Only a handler that asked for the host raises a row, and it is the host's.
LEMMA RaiseToHostInv ==
  ASSUME ShareInv, NEW r \in Handlers, RaiseToHost(r)
  PROVE  ShareInv' /\ RowsGrow
<1>1. req[r].job # "join"
  BY DEF RaiseToHost, ShareInv, Entitled, At
<1> QED BY <1>1, RowWritten DEF RaiseToHost, AskedRole, Asked, At

\* Every step preserves the invariant and takes no row back.
LEMMA ShareStepInv == ShareInv /\ [Next]_vars => ShareInv' /\ (RowsGrow \/ UNCHANGED vars)
<1> SUFFICES ASSUME ShareInv, [Next]_vars PROVE ShareInv' /\ (RowsGrow \/ UNCHANGED vars)
  OBVIOUS
<1> DEFINE Good == ShareInv' /\ (RowsGrow \/ UNCHANGED vars)
<1>1. CASE Tick \/ \E o \in Orders : OrderMoves(o)
  BY <1>1, TickInv, OrderMovesInv
<1>2. ASSUME NEW r \in Handlers, NEW o \in Orders, CreateLoad(r, o)
      PROVE  Good
  BY <1>2, CreateLoadInv
<1>3. ASSUME NEW r \in Handlers, Reuse(r) \/ NoneLive(r) \/ InsertInvite(r)
      PROVE  Good
  BY <1>3, ReuseInv, NoneLiveInv, InsertInviteInv
<1>4. ASSUME NEW r \in Handlers, NEW c \in Codes, DrawFree(r, c) \/ DrawTaken(r, c)
      PROVE  Good
  BY <1>4, DrawFreeInv, DrawTakenInv
<1>5. ASSUME NEW r \in Handlers, NEW u \in Users, NEW c \in Codes,
             Join(r, u, c) \/ Members(r, u, c)
      PROVE  Good
  BY <1>5, JoinInv, MembersInv
<1>6. ASSUME NEW r \in Handlers, CanView(r) \/ FindMember(r) \/ AddMember(r) \/ RaiseToHost(r)
      PROVE  Good
  BY <1>6, CanViewInv, FindMemberInv, AddMemberInv, RaiseToHostInv
<1>7. ASSUME NEW r \in Handlers, Answer(r) \/ Fail(r)
      PROVE  Good
  BY <1>7, EndInv DEF Answer, Fail
<1>8. CASE UNCHANGED vars
  BY <1>8 DEF vars, inviteVars, ShareInv, TypeOK, Entitled, Vacant, SoleCreator, OneLiveInvite,
     OnlyOwnerIsHost, Invites, Host, LiveFor, At, Asked
<1> QED BY <1>1, <1>2, <1>3, <1>4, <1>5, <1>6, <1>7, <1>8 DEF Next

\* Rows and handlers keep their types in every reachable state.
THEOREM ShareTypeCorrect == Spec => []TypeOK
<1>1. ShareInv => TypeOK
  BY DEF ShareInv
<1> QED BY ShareInitInv, ShareStepInv, <1>1, PTL DEF Spec

\* Without overlapping createInvites an order never has two codes in force.
THEOREM OneInviteAtATime == Spec => []OneLiveInvite
<1>1. ShareInv => OneLiveInvite
  BY DEF ShareInv
<1> QED BY ShareInitInv, ShareStepInv, <1>1, PTL DEF Spec

\* Whoever lists the members finds the owner among them, as the host.
THEOREM HostAlwaysListed == Spec => []HostListed
<1>1. ShareInv => HostListed
  BY DEF ShareInv, Entitled, HostListed
<1> QED BY ShareInitInv, ShareStepInv, <1>1, PTL DEF Spec

\* Only the owner of the order is ever the host.
THEOREM OwnerIsHost == Spec => []OnlyOwnerIsHost
<1>1. ShareInv => OnlyOwnerIsHost
  BY DEF ShareInv
<1> QED BY ShareInitInv, ShareStepInv, <1>1, PTL DEF Spec

\* Only the owner and the members get the list.
THEOREM ListIsForMembers == Spec => []ListedForMembers
<1>1. ShareInv => ListedForMembers
  BY DEF ShareInv, Entitled, ListedForMembers, At
<1> QED BY ShareInitInv, ShareStepInv, <1>1, PTL DEF Spec

\* Roles only rise, and a code stays with its order.
THEOREM RowsAreKept == Spec => NothingTakenBack
<1>1. ShareInv /\ [Next]_vars => [RowsGrow]_vars
  BY ShareStepInv
<1>2. [RowsGrow]_vars =>
        [/\ \A c \in Codes, u \in Users :
              /\ role[c][u] = "host" => role'[c][u] = "host"
              /\ role[c][u] = "member" => role'[c][u] # "none"
         /\ \A c \in Invites : orderOf'[c] = orderOf[c] /\ expires'[c] = expires[c]]_vars
  BY DEF RowsGrow
<1> QED BY ShareInitInv, ShareStepInv, <1>1, <1>2, PTL DEF Spec, NothingTakenBack
=============================================================================
