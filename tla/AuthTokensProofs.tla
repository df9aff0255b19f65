-------------------------- MODULE AuthTokensProofs --------------------------
(***************************************************************************)
(* Proofs about AuthTokens, for any users, lifetimes and handlers, and     *)
(* about ClientSession, for any users, requests, sessions and depth of     *)
(* the stack of pages.                                                     *)
(***************************************************************************)
EXTENDS AuthTokens, ClientSession, SequenceTheorems, WellFoundedInduction, TLAPS

(***************************************************************************)
(* The backend's tokens.                                                   *)
(*                                                                         *)
(* A logged-out token is refused because its key outlives it (Covered),    *)
(* which rests on what every logout in progress has computed (Warrant).    *)
(* The administrator keeps his role because every profile about to be      *)
(* saved holds the role his row has (Standing).                            *)
(***************************************************************************)

\* No key expires before the token it revokes, and the tokens of an answered logout have one.
Covered ==
  /\ \A t \in Tokens : key[t] # 0 => key[t] >= Exp(t)
  /\ \A t \in ended : key[t] # 0

\* The ttl a logout holds is enough, though it was computed a while ago; a request that was
\* late has not got past the list before its token expired.
Warrant(r) ==
  /\ At(r, "set") => now + job[r].ttl >= Exp(job[r].token)
  /\ At(r, "setOther") => now + job[r].ttl >= Exp(job[r].other)
  /\ job[r].pc \in {"aimOther", "setOther"} => key[job[r].token] # 0
  /\ job[r].late =>
       /\ job[r].token \in ended
       /\ job[r].pc \in {"verify", "list", "aim", "set", "aimOther", "setOther", "load", "save"}
       /\ ~At(r, "list") => now >= Exp(job[r].token)

\* The row a handler works on is there; the administrator's is as the handler takes it to be.
Standing(r) ==
  /\ job[r].pc \in {"verify", "list", "load"} => job[r].token \in issued
  /\ job[r].pc \in {"sign", "save"} => role[job[r].sub] # "none"
  /\ At(r, "save") => job[r].seen # "none"
  /\ At(r, "correct") => job[r].as = "admin"
  /\ At(r, "verify") => job[r].as = "user"
  /\ job[r].pc \in {"create", "correct", "sign"} /\ job[r].as = "admin" => job[r].sub = Admin
  /\ At(r, "sign") /\ job[r].as = "admin" /\ ~stale => role[Admin] = "admin"
  /\ At(r, "save") /\ job[r].sub = Admin /\ ~stale => job[r].seen = role[Admin]

Registered == \A t \in issued : role[t.sub] # "none"

TokenInv == TypeOK /\ Covered /\ \A r \in Handlers : Warrant(r)
RoleInv == TypeOK /\ Registered /\ AdminStaysAdmin /\ \A r \in Handlers : Standing(r)

----------------------------------------------------------------------------
LEMMA TokenFacts ==
  ASSUME NEW t \in Tokens
  PROVE  t.sub \in Users /\ t.iat \in 0..MaxTime /\ Exp(t) \in Nat /\ Exp(t) > 0 /\ t # None
<1>1. t.kind \in Kinds /\ t.sub \in Users /\ t.iat \in 0..MaxTime
  BY DEF Tokens
<1>2. Life[t.kind] \in Nat \ {0}
  BY <1>1, AuthAssumption
<1> QED BY <1>1, <1>2, AuthAssumption DEF Exp

LEMMA LeftFacts ==
  ASSUME TypeOK, NEW t \in Tokens
  PROVE  Left(t) \in Nat \ {0} /\ now + Left(t) >= Exp(t)
  BY TokenFacts, AuthAssumption DEF Left, TypeOK

\* A handler that ends is idle, and the others are where they were.
LEMMA EndEffect ==
  ASSUME TypeOK, NEW r \in Handlers, End(r)
  PROVE  /\ job' \in [Handlers -> Jobs]
         /\ job'[r] = Idle
         /\ \A q \in Handlers \ {r} : job'[q] = job[q]
<1>1. Idle \in Jobs
  BY DEF Idle, Jobs, Roles
<1> QED BY <1>1 DEF TypeOK, End

\* A handler that gets a new job: a step of this kind is a change of one job, whose fields
\* are well typed.
LEMMA JobEffect ==
  ASSUME TypeOK, NEW r \in Handlers, NEW j \in Jobs, job' = [job EXCEPT ![r] = j]
  PROVE  /\ job' \in [Handlers -> Jobs]
         /\ job'[r] = j
         /\ \A q \in Handlers \ {r} : job'[q] = job[q]
  BY DEF TypeOK

\* A step of one handler keeps the types if what it writes has them.
LEMMA TypeMove ==
  ASSUME TypeOK, NEW r \in Handlers,
         job' \in [Handlers -> Jobs],
         \A q \in Handlers \ {r} : job'[q] = job[q],
         job'[r].pc \in {"create", "correct", "sign", "save"} => job'[r].sub \in Users,
         job'[r].pc \in {"verify", "list", "aim", "set", "aimOther", "setOther",
                         "load", "save"} => job'[r].token \in Tokens,
         job'[r].pc \in {"aimOther", "setOther"} => job'[r].other \in Tokens,
         now' = now, role' \in [Users -> Roles], issued' \subseteq Tokens,
         key' \in [Tokens -> Nat], ended' \subseteq Tokens,
         promoted' \in BOOLEAN, stale' \in BOOLEAN
  PROVE  TypeOK'
  BY DEF TypeOK

\* Every step keeps every variable in its type, and sets a key for at least a second.
LEMMA TypeStep == TypeOK /\ [Next]_vars => TypeOK'
<1> USE AuthAssumption DEF history
<1> SUFFICES ASSUME TypeOK, [Next]_vars PROVE TypeOK'
  OBVIOUS
<1>0. Idle \in Jobs
  BY DEF Idle, Jobs, Roles
<1>1. CASE Tick
  BY <1>1 DEF Tick, TypeOK
<1>2. ASSUME NEW r \in Handlers, NEW u \in Users, Login(r, u)
      PROVE  TypeOK'
  <2> DEFINE next == IF role[u] = "none" THEN "create" ELSE "sign"
             j == [Idle EXCEPT !.pc = next, !.sub = u, !.as = "user"]
  <2>1. j \in Jobs /\ j.sub = u /\ j.pc \in {"create", "sign"}
    BY <1>0 DEF Jobs, Idle
  <2>2. job' = [job EXCEPT ![r] = j] /\ UNCHANGED <<now, role, issued, key, history>>
    BY <1>2 DEF Login, Find
  <2> HIDE DEF j, next
  <2> QED BY <2>1, <2>2, JobEffect, TypeMove DEF TypeOK
<1>3. ASSUME NEW r \in Handlers, AdminLogin(r)
      PROVE  TypeOK'
  <2> DEFINE next == CASE role[Admin] = "none"  -> "create"
                       [] role[Admin] = "user"  -> "correct"
                       [] role[Admin] = "admin" -> "sign"
             j == [Idle EXCEPT !.pc = next, !.sub = Admin, !.as = "admin"]
  <2>1. next \in {"create", "correct", "sign"}
    BY DEF TypeOK, Roles
  <2>2. job' = [job EXCEPT ![r] = j] /\ UNCHANGED <<now, role, issued, key, history>>
    BY <1>3 DEF AdminLogin, Find
  <2> HIDE DEF next
  <2>3. j \in Jobs /\ j.sub = Admin /\ j.pc = next
    BY <1>0, <2>1 DEF Jobs, Idle
  <2> HIDE DEF j
  <2> QED BY <2>1, <2>2, <2>3, JobEffect, TypeMove DEF TypeOK
<1>4. ASSUME NEW r \in Handlers, Create(r)
      PROVE  TypeOK'
  <2>1. job[r] \in Jobs /\ job[r].sub \in Users
    BY <1>4 DEF TypeOK, Create, At
  <2>2. CASE role[job[r].sub] = "none"
    <3>1. [job[r] EXCEPT !.pc = "sign"] \in Jobs
      BY <2>1 DEF Jobs
    <3>2. job' = [job EXCEPT ![r] = [job[r] EXCEPT !.pc = "sign"]]
      BY <1>4, <2>2 DEF Create
    <3>3. job[r].as \in Roles
      BY <2>1 DEF Jobs, Roles
    <3>4. [job[r] EXCEPT !.pc = "sign"].sub = job[r].sub
            /\ [job[r] EXCEPT !.pc = "sign"].pc = "sign"
      BY <2>1 DEF Jobs
    <3>5. role' = [role EXCEPT ![job[r].sub] = job[r].as] /\ UNCHANGED <<now, issued, key, history>>
      BY <1>4, <2>2 DEF Create
    <3> QED BY <2>1, <3>1, <3>2, <3>3, <3>4, <3>5, JobEffect, TypeMove DEF TypeOK
  <2>3. CASE role[job[r].sub] # "none"
    BY <1>4, <2>3, EndEffect, TypeMove DEF Create, TypeOK, Idle
  <2> QED BY <2>2, <2>3
<1>5. ASSUME NEW r \in Handlers, Correct(r)
      PROVE  TypeOK'
  <2>1. job[r] \in Jobs /\ job[r].sub \in Users
    BY <1>5 DEF TypeOK, Correct, At
  <2>2. [job[r] EXCEPT !.pc = "sign"] \in Jobs
    BY <2>1 DEF Jobs
  <2>3. job' = [job EXCEPT ![r] = [job[r] EXCEPT !.pc = "sign"]]
    BY <1>5 DEF Correct
  <2>4. [job[r] EXCEPT !.pc = "sign"].sub = job[r].sub /\ [job[r] EXCEPT !.pc = "sign"].pc = "sign"
    BY <2>1 DEF Jobs
  <2>5. /\ role' = [role EXCEPT ![job[r].sub] = "admin"]
        /\ stale' \in BOOLEAN
        /\ UNCHANGED <<now, issued, key, ended, promoted>>
    BY <1>5 DEF Correct, TypeOK
  <2> QED BY <2>1, <2>2, <2>3, <2>4, <2>5, JobEffect, TypeMove DEF TypeOK, Roles
<1>6. ASSUME NEW r \in Handlers, Sign(r)
      PROVE  TypeOK'
  <2>1. job[r].sub \in Users
    BY <1>6 DEF TypeOK, Sign, At
  <2>2. {[kind |-> k, sub |-> job[r].sub, iat |-> now] : k \in Kinds} \subseteq Tokens
    BY <2>1 DEF Tokens, TypeOK
  <2>3. issued' \subseteq Tokens
    BY <1>6, <2>2 DEF Sign, TypeOK
  <2> QED BY <1>6, <2>3, EndEffect, TypeMove DEF Sign, TypeOK, Idle
<1>7. ASSUME NEW r \in Handlers, NEW t \in Tokens, RefreshCheck(r, t)
      PROVE  TypeOK'
  <2> DEFINE late == t \in ended
             j == [Idle EXCEPT !.pc = "verify", !.token = t, !.late = late]
  <2>0. late \in BOOLEAN
    OBVIOUS
  <2>2. job' = [job EXCEPT ![r] = j] /\ UNCHANGED <<now, role, issued, key, history>>
    BY <1>7 DEF RefreshCheck
  <2> HIDE DEF late
  <2>3. j \in Jobs /\ j.token = t /\ j.pc = "verify"
    BY <1>0, <2>0 DEF Jobs, Idle
  <2> HIDE DEF j
  <2> QED BY <2>2, <2>3, JobEffect, TypeMove DEF TypeOK
<1>8. ASSUME NEW r \in Handlers, NEW t \in Tokens, NEW goal \in {"aim", "load"},
             NEW x \in Tokens \cup {None}, Arrive(r, t, goal, x)
      PROVE  TypeOK'
  <2> DEFINE late == t \in ended
             j == [Idle EXCEPT !.pc = "list", !.goal = goal, !.token = t, !.other = x,
                               !.late = late]
  <2>0. late \in BOOLEAN
    OBVIOUS
  <2>2. job' = [job EXCEPT ![r] = j] /\ UNCHANGED <<now, role, issued, key, history>>
    BY <1>8 DEF Arrive
  <2> HIDE DEF late
  <2>3. j \in Jobs /\ j.token = t /\ j.pc = "list"
    BY <1>0, <2>0 DEF Jobs, Idle
  <2> HIDE DEF j
  <2> QED BY <2>2, <2>3, JobEffect, TypeMove DEF TypeOK
<1>9. ASSUME NEW r \in Handlers, RefreshVerify(r)
      PROVE  TypeOK'
  <2>1. job[r] \in Jobs /\ job[r].token \in Tokens
    BY <1>9 DEF TypeOK, RefreshVerify, At
  <2> DEFINE j == [job[r] EXCEPT !.pc = "sign", !.sub = job[r].token.sub]
  <2>2. j \in Jobs /\ j.pc = "sign" /\ j.sub \in Users
    BY <2>1, TokenFacts DEF Jobs
  <2>3. UNCHANGED <<now, role, issued, key, history>>
    BY <1>9 DEF RefreshVerify
  <2>4. job' = [job EXCEPT ![r] = j] \/ End(r)
    BY <1>9 DEF RefreshVerify
  <2> HIDE DEF j
  <2>5. CASE job' = [job EXCEPT ![r] = j]
    BY <2>2, <2>3, <2>5, JobEffect, TypeMove DEF TypeOK
  <2>6. CASE End(r)
    BY <2>3, <2>6, EndEffect, TypeMove DEF TypeOK, Idle
  <2> QED BY <2>4, <2>5, <2>6
<1>10. ASSUME NEW r \in Handlers, Validate(r)
       PROVE  TypeOK'
  <2>1. job[r] \in Jobs /\ job[r].token \in Tokens
    BY <1>10 DEF TypeOK, Validate, At
  <2> DEFINE j == [job[r] EXCEPT !.pc = job[r].goal]
  <2>2. j \in Jobs /\ j.pc \in {"aim", "load"} /\ j.token \in Tokens
    BY <2>1 DEF Jobs
  <2>3. UNCHANGED <<now, role, issued, key, history>>
    BY <1>10 DEF Validate
  <2>4. job' = [job EXCEPT ![r] = j] \/ End(r)
    BY <1>10 DEF Validate
  <2> HIDE DEF j
  <2>5. CASE job' = [job EXCEPT ![r] = j]
    BY <2>2, <2>3, <2>5, JobEffect, TypeMove DEF TypeOK
  <2>6. CASE End(r)
    BY <2>3, <2>6, EndEffect, TypeMove DEF TypeOK, Idle
  <2> QED BY <2>4, <2>5, <2>6
<1>11. ASSUME NEW r \in Handlers, AimToken(r) \/ AimOther(r)
       PROVE  TypeOK'
  <2>1. PICK t \in Tokens, l \in {"set", "setOther"} :
          /\ job' = [job EXCEPT ![r] = [job[r] EXCEPT !.pc = l, !.ttl = Left(t)]]
          /\ l = "setOther" => job[r].other \in Tokens
    BY <1>11 DEF AimToken, AimOther, Aim, At, TypeOK
  <2>2. job[r] \in Jobs /\ job[r].token \in Tokens
    BY <1>11 DEF AimToken, AimOther, Aim, At, TypeOK
  <2> DEFINE j == [job[r] EXCEPT !.pc = l, !.ttl = Left(t)]
  <2>3. Left(t) \in Nat \ {0}
    BY LeftFacts
  <2>4. j \in Jobs /\ j.pc = l /\ j.token \in Tokens /\ j.other = job[r].other
    BY <2>2, <2>3 DEF Jobs
  <2>5. UNCHANGED <<now, role, issued, key, history>>
    BY <1>11 DEF AimToken, AimOther, Aim
  <2> HIDE DEF j
  <2>6. job' = [job EXCEPT ![r] = j]
    BY <2>1 DEF j
  <2> QED BY <2>1, <2>4, <2>5, <2>6, JobEffect, TypeMove DEF TypeOK
<1>12. ASSUME NEW r \in Handlers, SetToken(r)
       PROVE  TypeOK'
  <2>1. job[r] \in Jobs /\ job[r].token \in Tokens
    BY <1>12 DEF SetToken, At, TypeOK
  <2>2. key' \in [Tokens -> Nat]
    BY <1>12, <2>1 DEF SetToken, TypeOK, Jobs
  <2>3. UNCHANGED <<now, role, issued, promoted, stale>>
    BY <1>12 DEF SetToken
  <2>4. CASE job[r].other = None
    <3>1. ended' \subseteq Tokens /\ End(r)
      BY <1>12, <2>1, <2>4 DEF SetToken, Answer, TypeOK, Jobs
    <3> QED BY <2>2, <2>3, <3>1, EndEffect, TypeMove DEF TypeOK, Idle
  <2>5. CASE job[r].other # None
    <3> DEFINE j == [job[r] EXCEPT !.pc = "aimOther"]
    <3>1. j \in Jobs /\ j.pc = "aimOther" /\ j.token \in Tokens /\ j.other \in Tokens
      BY <2>1, <2>5 DEF Jobs
    <3>2. job' = [job EXCEPT ![r] = j] /\ UNCHANGED ended
      BY <1>12, <2>5 DEF SetToken
    <3> HIDE DEF j
    <3> QED BY <2>2, <2>3, <3>1, <3>2, JobEffect, TypeMove DEF TypeOK
  <2> QED BY <2>4, <2>5
<1>13. ASSUME NEW r \in Handlers, SetOther(r)
       PROVE  TypeOK'
  <2>1. job[r] \in Jobs /\ job[r].token \in Tokens /\ job[r].other \in Tokens
    BY <1>13 DEF SetOther, At, TypeOK
  <2>2. key' \in [Tokens -> Nat]
    BY <1>13, <2>1 DEF SetOther, TypeOK, Jobs
  <2>3. ended' \subseteq Tokens /\ End(r) /\ UNCHANGED <<now, role, issued, promoted, stale>>
    BY <1>13, <2>1 DEF SetOther, Answer, TypeOK
  <2> QED BY <2>2, <2>3, EndEffect, TypeMove DEF TypeOK, Idle
<1>14. ASSUME NEW r \in Handlers, Load(r)
       PROVE  TypeOK'
  <2>1. job[r] \in Jobs /\ job[r].token \in Tokens
    BY <1>14 DEF Load, At, TypeOK
  <2> DEFINE u == job[r].token.sub
             j == [job[r] EXCEPT !.pc = "save", !.sub = u, !.seen = role[u]]
  <2>2. u \in Users /\ role[u] \in Roles
    BY <2>1, TokenFacts DEF TypeOK
  <2>3. j \in Jobs /\ j.pc = "save" /\ j.token \in Tokens /\ j.sub \in Users
    BY <2>1, <2>2 DEF Jobs
  <2>4. job' = [job EXCEPT ![r] = j] /\ UNCHANGED <<now, role, issued, key, history>>
    BY <1>14 DEF Load
  <2> HIDE DEF j
  <2> QED BY <2>3, <2>4, JobEffect, TypeMove DEF TypeOK
<1>15. ASSUME NEW r \in Handlers, Save(r)
       PROVE  TypeOK'
  <2>1. role' \in [Users -> Roles]
    BY <1>15 DEF Save, At, TypeOK, Jobs
  <2> QED BY <1>15, <2>1, EndEffect, TypeMove DEF Save, TypeOK, Idle
<1>16. ASSUME NEW r \in Handlers, Fail(r)
       PROVE  TypeOK'
  BY <1>16, EndEffect, TypeMove DEF Fail, TypeOK, Idle
<1>17. CASE UNCHANGED vars
  BY <1>17 DEF vars, TypeOK
<1> QED
  BY <1>1, <1>2, <1>3, <1>4, <1>5, <1>6, <1>7, <1>8, <1>9, <1>10, <1>11, <1>12, <1>13,
     <1>14, <1>15, <1>16, <1>17
  DEF Next, Logout, UpdateMe

LEMMA TypeInit == Init => TypeOK
<1>1. Idle \in Jobs
  BY DEF Idle, Jobs, Roles
<1>2. ASSUME Init PROVE TypeOK
  <2>1. now \in 0..MaxTime /\ issued \subseteq Tokens /\ ended \subseteq Tokens
    BY <1>2, AuthAssumption DEF Init
  <2>2. role \in [Users -> Roles] /\ key \in [Tokens -> Nat]
    BY <1>2 DEF Init, Roles
  <2>3. job \in [Handlers -> Jobs] /\ \A r \in Handlers : job[r].pc = "idle"
    BY <1>1, <1>2 DEF Init, Idle
  <2> QED BY <1>2, <2>1, <2>2, <2>3 DEF Init, TypeOK
<1> QED BY <1>2

\* Whatever the lifetimes, the ttl of every revocation is one that Redis accepts, and every
\* handler holds what its place needs.
THEOREM TypeCorrect == Spec => []TypeOK
  BY TypeInit, TypeStep, PTL DEF Spec

----------------------------------------------------------------------------
\* A login finds the row or not, and goes on accordingly.
LEMMA FindEffect ==
  ASSUME TypeOK, NEW r \in Handlers, NEW u \in Users, Login(r, u) \/ AdminLogin(r)
  PROVE  /\ \A q \in Handlers \ {r} : job'[q] = job[q]
         /\ ~job'[r].late
         /\ job'[r].pc \in {"create", "correct", "sign"}
         /\ job'[r].as = "admin" => job'[r].sub = Admin
         /\ job'[r].pc = "correct" => job'[r].as = "admin"
         /\ job'[r].pc = "sign" => role[job'[r].sub] # "none"
         /\ job'[r].pc = "sign" /\ job'[r].as = "admin" => role[Admin] = "admin"
<1> USE AuthAssumption
<1>1. CASE Login(r, u)
  <2> DEFINE next == IF role[u] = "none" THEN "create" ELSE "sign"
  <2>1. job' = [job EXCEPT ![r] = [Idle EXCEPT !.pc = next, !.sub = u, !.as = "user"]]
    BY <1>1 DEF Login, Find
  <2>2. next \in {"create", "sign"} /\ (next = "sign" => role[u] # "none")
    OBVIOUS
  <2> HIDE DEF next
  <2> QED BY <2>1, <2>2 DEF TypeOK, Idle
<1>2. CASE AdminLogin(r)
  <2> DEFINE next == CASE role[Admin] = "none"  -> "create"
                       [] role[Admin] = "user"  -> "correct"
                       [] role[Admin] = "admin" -> "sign"
  <2>1. job' = [job EXCEPT ![r] = [Idle EXCEPT !.pc = next, !.sub = Admin, !.as = "admin"]]
    BY <1>2 DEF AdminLogin, Find
  <2>2. next \in {"create", "correct", "sign"} /\ (next = "sign" => role[Admin] = "admin")
    BY DEF TypeOK, Roles
  <2> HIDE DEF next
  <2> QED BY <2>1, <2>2 DEF TypeOK, Idle
<1> QED BY <1>1, <1>2

\* What a handler has computed of tokens outlives the steps of the others: the clock only
\* advances, and no key or answered logout is taken back.
Onward ==
  /\ now' >= now
  /\ \A t \in Tokens : key[t] # 0 => key'[t] # 0
  /\ ended \subseteq ended'

LEMMA WarrantKept ==
  ASSUME TypeOK, TypeOK', NEW q \in Handlers, Warrant(q), job'[q] = job[q], Onward
  PROVE  Warrant(q)'
<1>1. job[q] \in Jobs /\ job[q].ttl \in Nat /\ now \in Nat /\ now' \in Nat
  BY AuthAssumption DEF TypeOK, Jobs
<1>2. At(q, "set")' => now' + job'[q].ttl >= Exp(job'[q].token)
  BY <1>1, TokenFacts DEF Warrant, At, Onward, TypeOK, Exp
<1>3. At(q, "setOther")' => now' + job'[q].ttl >= Exp(job'[q].other)
  BY <1>1, TokenFacts DEF Warrant, At, Onward, TypeOK, Exp
<1>4. job'[q].pc \in {"aimOther", "setOther"} => key'[job'[q].token] # 0
  BY DEF Warrant, Onward, TypeOK
<1>5. job'[q].late =>
        /\ job'[q].token \in ended'
        /\ job'[q].pc \in {"verify", "list", "aim", "set", "aimOther", "setOther", "load",
                           "save"}
        /\ ~At(q, "list")' => now' >= Exp(job'[q].token)
  BY <1>1, TokenFacts DEF Warrant, At, Onward, TypeOK, Exp
<1> QED BY <1>2, <1>3, <1>4, <1>5 DEF Warrant, At, Exp

\* A step that sets no key and answers no logout has to vouch for its own handler only.
LEMMA TokenMove ==
  ASSUME TokenInv, TypeOK', NEW r \in Handlers, UNCHANGED <<now, key, ended>>,
         \A q \in Handlers \ {r} : job'[q] = job[q], Warrant(r)'
  PROVE  TokenInv'
<1>1. Onward
  BY AuthAssumption DEF Onward, TokenInv, TypeOK
<1>2. Covered'
  BY DEF TokenInv, Covered, Exp
<1>3. \A q \in Handlers \ {r} : Warrant(q)'
  BY <1>1, WarrantKept DEF TokenInv
<1> QED BY <1>2, <1>3 DEF TokenInv

LEMMA TokenEnd ==
  ASSUME TokenInv, TypeOK', NEW r \in Handlers, End(r), UNCHANGED <<now, key, ended>>
  PROVE  TokenInv'
<1>1. TypeOK
  BY DEF TokenInv
<1>2. Warrant(r)'
  BY <1>1, EndEffect DEF Warrant, At, Idle
<1> QED BY <1>1, <1>2, EndEffect, TokenMove

\* A key that is set outlives its token.
LEMMA CoveredSet ==
  ASSUME TypeOK, TypeOK', Covered, NEW t \in Tokens, NEW n \in Nat \ {0}, now + n >= Exp(t),
         key' = [key EXCEPT ![t] = now + n], now' = now,
         ended' \subseteq ended \cup {x \in Tokens : key'[x] # 0}
  PROVE  Covered' /\ \A x \in Tokens : key[x] # 0 => key'[x] # 0
<1>1. now \in Nat /\ key \in [Tokens -> Nat] /\ key'[t] = now + n
  BY AuthAssumption DEF TypeOK
<1>2. \A x \in Tokens \ {t} : key'[x] = key[x]
  BY <1>1
<1>3. \A x \in Tokens : key'[x] # 0 => key'[x] >= Exp(x)
  BY <1>1, <1>2, TokenFacts DEF Covered
<1>4. \A x \in ended : key'[x] # 0
  BY <1>1, <1>2 DEF Covered, TypeOK
<1> QED BY <1>1, <1>2, <1>3, <1>4 DEF Covered, Exp

\* Every step leaves logged-out tokens covered, and handlers with what they vouch for.
LEMMA TokenStep == TokenInv /\ [Next]_vars => TokenInv'
<1> USE DEF history
<1> SUFFICES ASSUME TokenInv, [Next]_vars PROVE TokenInv'
  OBVIOUS
<1>0. TypeOK /\ TypeOK' /\ job \in [Handlers -> Jobs]
  BY TypeStep DEF TokenInv, TypeOK
<1>1. CASE Tick
  <2>1. Onward
    BY <1>0, <1>1, AuthAssumption DEF Tick, Onward, TypeOK
  <2>2. Covered'
    BY <1>1 DEF Tick, TokenInv, Covered, Exp
  <2>3. \A q \in Handlers : Warrant(q)'
    BY <1>0, <1>1, <2>1, WarrantKept DEF Tick, TokenInv
  <2> QED BY <1>0, <2>2, <2>3 DEF TokenInv
<1>2. ASSUME NEW r \in Handlers, NEW u \in Users, Login(r, u) \/ AdminLogin(r)
      PROVE  TokenInv'
  <2>1. /\ \A q \in Handlers \ {r} : job'[q] = job[q]
        /\ ~job'[r].late
        /\ job'[r].pc \in {"create", "correct", "sign"}
    BY <1>0, <1>2, FindEffect
  <2>2. UNCHANGED <<now, key, ended>>
    BY <1>2 DEF Login, AdminLogin, Find
  <2>3. Warrant(r)'
    BY <2>1 DEF Warrant, At
  <2> QED BY <1>0, <2>1, <2>2, <2>3, TokenMove
<1>3. ASSUME NEW r \in Handlers, Create(r) \/ Correct(r)
      PROVE  TokenInv'
  <2>1. ~job[r].late /\ UNCHANGED <<now, key, ended>>
    BY <1>3 DEF Create, Correct, At, TokenInv, Warrant
  <2>2. CASE End(r)
    BY <1>0, <2>1, <2>2, TokenEnd
  <2>3. CASE job' = [job EXCEPT ![r].pc = "sign"]
    <3>1. /\ \A q \in Handlers \ {r} : job'[q] = job[q]
          /\ ~job'[r].late /\ job'[r].pc = "sign"
      BY <1>0, <2>1, <2>3 DEF Jobs
    <3>2. Warrant(r)'
      BY <3>1 DEF Warrant, At
    <3> QED BY <1>0, <2>1, <3>1, <3>2, TokenMove
  <2> QED BY <1>3, <2>2, <2>3 DEF Create, Correct
<1>4. ASSUME NEW r \in Handlers, Sign(r) \/ Save(r) \/ Fail(r)
      PROVE  TokenInv'
  BY <1>0, <1>4, TokenEnd DEF Sign, Save, Fail
<1>5. ASSUME NEW r \in Handlers, NEW t \in Tokens, RefreshCheck(r, t)
      PROVE  TokenInv'
  <2>1. /\ \A q \in Handlers \ {r} : job'[q] = job[q]
        /\ job'[r].pc = "verify" /\ job'[r].token = t
        /\ job'[r].late <=> t \in ended
        /\ UNCHANGED <<now, key, ended>>
    BY <1>0, <1>5 DEF RefreshCheck, Idle
  <2>2. t \in ended => now >= Exp(t)
    BY <1>0, <1>5, TokenFacts, AuthAssumption
    DEF RefreshCheck, Revoked, TokenInv, Covered, TypeOK
  <2>3. Warrant(r)'
    BY <2>1, <2>2 DEF Warrant, At, Exp
  <2> QED BY <1>0, <2>1, <2>3, TokenMove
<1>6. ASSUME NEW r \in Handlers, NEW t \in Tokens, NEW goal, NEW x, Arrive(r, t, goal, x)
      PROVE  TokenInv'
  <2>1. /\ \A q \in Handlers \ {r} : job'[q] = job[q]
        /\ job'[r].pc = "list" /\ job'[r].token = t
        /\ job'[r].late <=> t \in ended
        /\ UNCHANGED <<now, key, ended>>
    BY <1>0, <1>6 DEF Arrive, Idle
  <2>2. Warrant(r)'
    BY <2>1 DEF Warrant, At
  <2> QED BY <1>0, <2>1, <2>2, TokenMove
<1>7. ASSUME NEW r \in Handlers, RefreshVerify(r)
      PROVE  TokenInv'
  <2>1. job[r].token \in Tokens /\ UNCHANGED <<now, key, ended>>
    BY <1>0, <1>7 DEF RefreshVerify, At, TypeOK
  <2>2. CASE End(r)
    BY <1>0, <2>1, <2>2, TokenEnd
  <2>3. CASE ~End(r)
    <3>1. /\ job' = [job EXCEPT ![r].pc = "sign", ![r].sub = job[r].token.sub]
          /\ now < Exp(job[r].token)
      BY <1>7, <2>3 DEF RefreshVerify
    <3>2. ~job[r].late
      BY <1>0, <1>7, <2>1, <3>1, TokenFacts, AuthAssumption
      DEF RefreshVerify, At, TokenInv, Warrant, TypeOK
    <3>3. /\ \A q \in Handlers \ {r} : job'[q] = job[q]
          /\ job'[r].pc = "sign" /\ ~job'[r].late
      BY <1>0, <3>1, <3>2 DEF Jobs
    <3>4. Warrant(r)'
      BY <3>3 DEF Warrant, At
    <3> QED BY <1>0, <2>1, <3>3, <3>4, TokenMove
  <2> QED BY <2>2, <2>3
<1>8. ASSUME NEW r \in Handlers, Validate(r)
      PROVE  TokenInv'
  <2>1. job[r].token \in Tokens /\ UNCHANGED <<now, key, ended>>
    BY <1>0, <1>8 DEF Validate, At, TypeOK
  <2>2. CASE Revoked(job[r].token)
    BY <1>0, <1>8, <2>1, <2>2, TokenEnd DEF Validate
  <2>3. CASE ~Revoked(job[r].token)
    <3>1. job[r].late => job[r].token \in ended /\ now >= Exp(job[r].token)
      BY <1>0, <2>1, <2>3, TokenFacts, AuthAssumption
      DEF TokenInv, Warrant, Covered, Revoked, TypeOK
    <3>2. /\ \A q \in Handlers \ {r} : job'[q] = job[q]
          /\ job'[r].pc \in {"aim", "load"}
          /\ job'[r].token = job[r].token /\ job'[r].late = job[r].late
      BY <1>0, <1>8, <2>3 DEF Validate, Jobs
    <3>3. Warrant(r)'
      BY <2>1, <3>1, <3>2 DEF Warrant, At, Exp
    <3> QED BY <1>0, <2>1, <3>2, <3>3, TokenMove
  <2> QED BY <2>2, <2>3
<1>9. ASSUME NEW r \in Handlers, AimToken(r)
      PROVE  TokenInv'
  <2>1. job[r].token \in Tokens /\ UNCHANGED <<now, key, ended>>
    BY <1>0, <1>9 DEF AimToken, Aim, At, TypeOK
  <2>2. /\ \A q \in Handlers \ {r} : job'[q] = job[q]
        /\ job'[r].pc = "set" /\ job'[r].ttl = Left(job[r].token)
        /\ job'[r].token = job[r].token /\ job'[r].late = job[r].late
    BY <1>0, <1>9 DEF AimToken, Aim, Jobs
  <2>3. now' + job'[r].ttl >= Exp(job'[r].token)
    BY <1>0, <2>1, <2>2, LeftFacts
  <2>4. Warrant(r)
    BY DEF TokenInv
  <2>5. Warrant(r)'
    BY <1>9, <2>1, <2>2, <2>3, <2>4 DEF Warrant, At, Exp, AimToken, Aim
  <2> QED BY <1>0, <2>1, <2>2, <2>5, TokenMove
<1>10. ASSUME NEW r \in Handlers, AimOther(r)
       PROVE  TokenInv'
  <2>1. job[r].other \in Tokens /\ UNCHANGED <<now, key, ended>>
    BY <1>0, <1>10 DEF AimOther, Aim, At, TypeOK
  <2>2. /\ \A q \in Handlers \ {r} : job'[q] = job[q]
        /\ job'[r].pc = "setOther" /\ job'[r].ttl = Left(job[r].other)
        /\ job'[r].other = job[r].other
        /\ job'[r].token = job[r].token /\ job'[r].late = job[r].late
    BY <1>0, <1>10 DEF AimOther, Aim, Jobs
  <2>3. now' + job'[r].ttl >= Exp(job'[r].other)
    BY <1>0, <2>1, <2>2, LeftFacts
  <2>4. Warrant(r)
    BY DEF TokenInv
  <2>5. Warrant(r)'
    BY <1>10, <2>1, <2>2, <2>3, <2>4 DEF Warrant, At, Exp, AimOther, Aim
  <2> QED BY <1>0, <2>1, <2>2, <2>5, TokenMove
<1>11. ASSUME NEW r \in Handlers, SetToken(r)
       PROVE  TokenInv'
  <2>1. /\ job[r].token \in Tokens /\ job[r].ttl \in Nat \ {0}
        /\ now + job[r].ttl >= Exp(job[r].token)
        /\ job[r].other \in Tokens \cup {None}
    BY <1>0, <1>11 DEF SetToken, At, TypeOK, TokenInv, Warrant, Jobs
  <2>2. key' = [key EXCEPT ![job[r].token] = now + job[r].ttl] /\ now' = now
    BY <1>11 DEF SetToken
  <2>3. key'[job[r].token] # 0
    BY <1>0, <2>1, <2>2, AuthAssumption DEF TypeOK
  <2>4. ended' \subseteq ended \cup {job[r].token} /\ ended \subseteq ended'
    BY <1>11 DEF SetToken, Answer
  <2>5. Covered' /\ \A x \in Tokens : key[x] # 0 => key'[x] # 0
    BY <1>0, <2>1, <2>2, <2>3, <2>4, CoveredSet DEF TokenInv
  <2>6. Onward
    BY <1>0, <2>2, <2>4, <2>5, AuthAssumption DEF Onward, TypeOK
  <2>7. \A q \in Handlers \ {r} : job'[q] = job[q]
    BY <1>0, <1>11, EndEffect DEF SetToken, Answer
  <2>8. Warrant(r)'
    <3>1. CASE job[r].other = None
      BY <1>0, <1>11, <3>1, EndEffect DEF SetToken, Answer, Warrant, At, Idle
    <3>2. CASE job[r].other # None
      <4>1. /\ job'[r].pc = "aimOther"
            /\ job'[r].token = job[r].token /\ job'[r].late = job[r].late
        BY <1>0, <1>11, <3>2 DEF SetToken, Jobs
      <4>2. job[r].late => job[r].token \in ended /\ now >= Exp(job[r].token)
        BY <1>11 DEF SetToken, At, TokenInv, Warrant
      <4> QED BY <2>2, <2>3, <2>4, <4>1, <4>2 DEF Warrant, At, Exp
    <3> QED BY <3>1, <3>2
  <2>9. \A q \in Handlers \ {r} : Warrant(q)'
    BY <1>0, <2>6, <2>7, WarrantKept DEF TokenInv
  <2> QED BY <1>0, <2>5, <2>8, <2>9 DEF TokenInv
<1>12. ASSUME NEW r \in Handlers, SetOther(r)
       PROVE  TokenInv'
  <2>1. /\ job[r].token \in Tokens /\ job[r].other \in Tokens /\ job[r].ttl \in Nat \ {0}
        /\ now + job[r].ttl >= Exp(job[r].other)
        /\ key[job[r].token] # 0
    BY <1>0, <1>12 DEF SetOther, At, TypeOK, TokenInv, Warrant, Jobs
  <2>2. key' = [key EXCEPT ![job[r].other] = now + job[r].ttl] /\ now' = now
    BY <1>12 DEF SetOther
  <2>3. key'[job[r].other] # 0 /\ key'[job[r].token] # 0
    BY <1>0, <2>1, <2>2, AuthAssumption DEF TypeOK
  <2>4. /\ ended' \subseteq ended \cup {job[r].token, job[r].other} /\ ended \subseteq ended'
        /\ End(r)
    BY <1>12 DEF SetOther, Answer
  <2>5. Covered' /\ \A x \in Tokens : key[x] # 0 => key'[x] # 0
    BY <1>0, <2>1, <2>2, <2>3, <2>4, CoveredSet DEF TokenInv
  <2>6. Onward
    BY <1>0, <2>2, <2>4, <2>5, AuthAssumption DEF Onward, TypeOK
  <2>7. \A q \in Handlers \ {r} : Warrant(q)'
    BY <1>0, <2>4, <2>6, EndEffect, WarrantKept DEF TokenInv
  <2>8. Warrant(r)'
    BY <1>0, <2>4, EndEffect DEF Warrant, At, Idle
  <2> QED BY <1>0, <2>5, <2>7, <2>8 DEF TokenInv
<1>13. ASSUME NEW r \in Handlers, Load(r)
       PROVE  TokenInv'
  <2>1. /\ \A q \in Handlers \ {r} : job'[q] = job[q]
        /\ job'[r].pc = "save"
        /\ job'[r].token = job[r].token /\ job'[r].late = job[r].late
        /\ UNCHANGED <<now, key, ended>>
    BY <1>0, <1>13 DEF Load, Jobs
  <2>2. Warrant(r)'
    BY <1>13, <2>1 DEF Load, TokenInv, Warrant, At, Exp
  <2> QED BY <1>0, <2>1, <2>2, TokenMove
<1>14. CASE UNCHANGED vars
  BY <1>0, <1>14 DEF vars, TokenInv, Covered, Warrant, At, Exp
<1> QED
  BY <1>1, <1>2, <1>3, <1>4, <1>5, <1>6, <1>7, <1>8, <1>9, <1>10, <1>11, <1>12, <1>13, <1>14,
     AuthAssumption
  DEF Next, Logout, UpdateMe

LEMMA TokenInit == Init => TokenInv
<1>1. ASSUME Init PROVE Covered /\ \A r \in Handlers : job[r] = Idle
  BY <1>1 DEF Init, Covered
<1>2. ASSUME NEW r \in Handlers, job[r] = Idle PROVE Warrant(r)
  BY <1>2 DEF Warrant, At, Idle
<1> QED BY <1>1, <1>2, TypeInit DEF TokenInv

\* Whatever the lifetimes and however requests overlap, a token of an answered logout is
\* good for nothing: a refresh with it never signs, and any other request gets past the
\* list only if the token expires while the request is under way.
THEOREM LogoutIsFinal == Spec => []LoggedOutStaysOut
<1>1. TokenInv => LoggedOutStaysOut
  BY DEF TokenInv, Warrant, LoggedOutStaysOut, At
<1> QED BY <1>1, TokenInit, TokenStep, PTL DEF Spec

----------------------------------------------------------------------------
\* A step of one handler that writes no row, issues nothing and changes no history has to
\* account for that handler only.
LEMMA RoleMove ==
  ASSUME RoleInv, TypeOK', NEW r \in Handlers, UNCHANGED <<role, issued, promoted, stale>>,
         \A q \in Handlers \ {r} : job'[q] = job[q], Standing(r)'
  PROVE  RoleInv'
<1>1. \A q \in Handlers \ {r} : Standing(q)'
  BY DEF RoleInv, Standing, At
<1> QED BY <1>1 DEF RoleInv, Registered, AdminStaysAdmin

LEMMA RoleEnd ==
  ASSUME RoleInv, TypeOK', NEW r \in Handlers, End(r), UNCHANGED <<role, issued, promoted, stale>>
  PROVE  RoleInv'
<1>1. TypeOK
  BY DEF RoleInv
<1>2. Standing(r)'
  BY <1>1, EndEffect DEF Standing, At, Idle
<1> QED BY <1>1, <1>2, EndEffect, RoleMove

\* A step that writes a row keeps the others' standing if no row is lost and, unless it
\* makes a profile stale, the administrator's row changes only when no profile of his is
\* about to be saved and no administrator is signing in on it.
LEMMA StandingKept ==
  ASSUME RoleInv, TypeOK', NEW q \in Handlers, job'[q] = job[q], UNCHANGED issued,
         stale => stale',
         \A u \in Users : role[u] # "none" => role'[u] # "none",
         ~stale' =>
           \/ role'[Admin] = role[Admin]
           \/ /\ role[Admin] # "admin"
              /\ At(q, "save") /\ job[q].sub = Admin => job[q].seen = role'[Admin]
  PROVE  Standing(q)'
<1>1. Standing(q) /\ stale \in BOOLEAN /\ stale' \in BOOLEAN
  BY DEF RoleInv, TypeOK
<1>2. job[q].pc \in {"sign", "save"} => job[q].sub \in Users
  BY DEF RoleInv, TypeOK
<1>3. At(q, "sign") /\ job[q].as = "admin" /\ ~stale' => role'[Admin] = "admin"
  BY <1>1 DEF Standing, At
<1>4. At(q, "save") /\ job[q].sub = Admin /\ ~stale' => job[q].seen = role'[Admin]
  BY <1>1 DEF Standing, At
<1> QED BY <1>1, <1>2, <1>3, <1>4 DEF Standing, At

\* Every step leaves every token with a row, and the administrator with his role.
LEMMA RoleStep == RoleInv /\ [Next]_vars => RoleInv'
<1> USE AuthAssumption DEF history
<1> SUFFICES ASSUME RoleInv, [Next]_vars PROVE RoleInv'
  OBVIOUS
<1>0. TypeOK /\ TypeOK' /\ job \in [Handlers -> Jobs]
  BY TypeStep DEF RoleInv, TypeOK
<1>1. CASE Tick
  BY <1>0, <1>1 DEF Tick, RoleInv, Registered, AdminStaysAdmin, Standing, At
<1>2. ASSUME NEW r \in Handlers, NEW u \in Users, Login(r, u) \/ AdminLogin(r)
      PROVE  RoleInv'
  <2>1. UNCHANGED <<role, issued, promoted, stale>>
    BY <1>2 DEF Login, AdminLogin, Find
  <2>2. Standing(r)'
    BY <1>0, <1>2, <2>1, FindEffect DEF Standing, At
  <2> QED BY <1>0, <1>2, <2>1, <2>2, FindEffect, RoleMove
<1>3. ASSUME NEW r \in Handlers, Create(r)
      PROVE  RoleInv'
  <2>1. /\ job[r] \in Jobs /\ job[r].pc = "create" /\ job[r].sub \in Users
        /\ Standing(r)
        /\ UNCHANGED <<issued, promoted, stale>>
    BY <1>0, <1>3 DEF Create, At, TypeOK, RoleInv
  <2>2. CASE role[job[r].sub] # "none"
    BY <1>0, <1>3, <2>1, <2>2, RoleEnd DEF Create
  <2>3. CASE role[job[r].sub] = "none"
    <3>1. /\ \A q \in Handlers \ {r} : job'[q] = job[q]
          /\ job'[r].pc = "sign" /\ job'[r].sub = job[r].sub /\ job'[r].as = job[r].as
          /\ role' = [role EXCEPT ![job[r].sub] = job[r].as]
      BY <1>0, <1>3, <2>1, <2>3 DEF Create, Jobs
    <3>2. job[r].as \in {"user", "admin"}
      BY <2>1 DEF Jobs
    <3>3. /\ \A u \in Users : role[u] # "none" => role'[u] = role[u]
          /\ \A u \in Users \ {job[r].sub} : role'[u] = role[u]
          /\ role'[job[r].sub] = job[r].as
      BY <1>0, <2>1, <2>3, <3>1 DEF TypeOK
    <3>4. ASSUME NEW q \in Handlers \ {r} PROVE Standing(q)'
      <4>1. At(q, "save") => role[job[q].sub] # "none"
        BY DEF RoleInv, Standing, At
      <4> QED BY <1>0, <2>1, <2>3, <3>1, <3>2, <3>3, <4>1, StandingKept
    <3>5. Standing(r)'
      BY <2>1, <3>1, <3>2, <3>3 DEF Standing, At
    <3>6. Registered' /\ AdminStaysAdmin'
      BY <1>0, <2>1, <3>3, TokenFacts DEF RoleInv, Registered, AdminStaysAdmin, TypeOK
    <3> QED BY <1>0, <3>4, <3>5, <3>6 DEF RoleInv
  <2> QED BY <2>2, <2>3
<1>4. ASSUME NEW r \in Handlers, Correct(r)
      PROVE  RoleInv'
  <2>1. /\ job[r] \in Jobs /\ job[r].pc = "correct" /\ job[r].sub = Admin
        /\ job[r].as = "admin" /\ UNCHANGED <<issued, promoted>>
    BY <1>0, <1>4 DEF Correct, At, TypeOK, RoleInv, Standing
  <2>2. /\ \A q \in Handlers \ {r} : job'[q] = job[q]
        /\ job'[r].pc = "sign" /\ job'[r].sub = Admin /\ job'[r].as = "admin"
    BY <1>0, <1>4, <2>1 DEF Correct, Jobs
  <2>3. /\ role'[Admin] = "admin"
        /\ \A u \in Users \ {Admin} : role'[u] = role[u]
    BY <1>0, <1>4, <2>1 DEF Correct, TypeOK
  <2>4. /\ stale => stale'
        /\ ~stale' => \A q \in Handlers : At(q, "save") /\ job[q].sub = Admin =>
                                            job[q].seen = "admin"
    BY <1>4, <2>1 DEF Correct
  <2>5. ASSUME NEW q \in Handlers \ {r} PROVE Standing(q)'
    BY <1>0, <2>1, <2>2, <2>3, <2>4, StandingKept
  <2>6. Standing(r)'
    BY <2>2, <2>3 DEF Standing, At
  <2>7. Registered' /\ AdminStaysAdmin'
    BY <1>0, <2>1, <2>3, TokenFacts DEF RoleInv, Registered, AdminStaysAdmin, TypeOK
  <2> QED BY <1>0, <2>5, <2>6, <2>7 DEF RoleInv
<1>5. ASSUME NEW r \in Handlers, Sign(r)
      PROVE  RoleInv'
  <2>1. /\ Standing(r) /\ At(r, "sign") /\ UNCHANGED <<role, stale>>
        /\ issued \subseteq issued'
        /\ \A t \in issued' : t \in issued \/ t.sub = job[r].sub
    BY <1>5 DEF Sign, RoleInv
  <2>2. Registered'
    BY <2>1 DEF RoleInv, Registered, Standing, At
  <2>3. AdminStaysAdmin'
    BY <1>0, <1>5, <2>1 DEF Sign, RoleInv, AdminStaysAdmin, Standing, TypeOK
  <2>4. \A q \in Handlers \ {r} : Standing(q)'
    BY <1>0, <1>5, <2>1, EndEffect DEF Sign, RoleInv, Standing, At
  <2>5. Standing(r)'
    BY <1>0, <1>5, EndEffect DEF Sign, Standing, At, Idle
  <2> QED BY <1>0, <2>2, <2>3, <2>4, <2>5 DEF RoleInv
<1>6. ASSUME NEW r \in Handlers, NEW t \in Tokens, RefreshCheck(r, t)
      PROVE  RoleInv'
  <2>1. /\ \A q \in Handlers \ {r} : job'[q] = job[q]
        /\ job'[r].pc = "verify" /\ job'[r].as = "user" /\ job'[r].token \in issued
        /\ UNCHANGED <<role, issued, promoted, stale>>
    BY <1>0, <1>6 DEF RefreshCheck, Idle
  <2>2. Standing(r)'
    BY <2>1 DEF Standing, At
  <2> QED BY <1>0, <2>1, <2>2, RoleMove
<1>7. ASSUME NEW r \in Handlers, NEW t \in Tokens, NEW goal, NEW x, Arrive(r, t, goal, x)
      PROVE  RoleInv'
  <2>1. /\ \A q \in Handlers \ {r} : job'[q] = job[q]
        /\ job'[r].pc = "list" /\ job'[r].token \in issued
        /\ UNCHANGED <<role, issued, promoted, stale>>
    BY <1>0, <1>7 DEF Arrive, Idle
  <2>2. Standing(r)'
    BY <2>1 DEF Standing, At
  <2> QED BY <1>0, <2>1, <2>2, RoleMove
<1>8. ASSUME NEW r \in Handlers, RefreshVerify(r)
      PROVE  RoleInv'
  <2>1. /\ job[r].token \in issued /\ role[job[r].token.sub] # "none"
        /\ UNCHANGED <<role, issued, promoted, stale>>
    BY <1>8 DEF RefreshVerify, At, RoleInv, Standing, Registered
  <2>2. CASE End(r)
    BY <1>0, <2>1, <2>2, RoleEnd
  <2>3. CASE ~End(r)
    <3>1. /\ \A q \in Handlers \ {r} : job'[q] = job[q]
          /\ job'[r].pc = "sign" /\ job'[r].sub = job[r].token.sub
          /\ job'[r].as = job[r].as
      BY <1>0, <1>8, <2>3 DEF RefreshVerify, Jobs
    <3>2. job[r].as = "user"
      BY <1>8 DEF RefreshVerify, At, RoleInv, Standing
    <3>3. Standing(r)'
      BY <2>1, <3>1, <3>2 DEF Standing, At
    <3> QED BY <1>0, <2>1, <3>1, <3>3, RoleMove
  <2> QED BY <2>2, <2>3
<1>9. ASSUME NEW r \in Handlers, Validate(r)
      PROVE  RoleInv'
  <2>1. job[r].token \in issued /\ UNCHANGED <<role, issued, promoted, stale>>
    BY <1>9 DEF Validate, At, RoleInv, Standing
  <2>2. CASE End(r)
    BY <1>0, <2>1, <2>2, RoleEnd
  <2>3. CASE ~End(r)
    <3>1. /\ \A q \in Handlers \ {r} : job'[q] = job[q]
          /\ job'[r].pc \in {"aim", "load"} /\ job'[r].token = job[r].token
      BY <1>0, <1>9, <2>3 DEF Validate, Jobs
    <3>2. Standing(r)'
      BY <2>1, <3>1 DEF Standing, At
    <3> QED BY <1>0, <2>1, <3>1, <3>2, RoleMove
  <2> QED BY <2>2, <2>3
<1>10. ASSUME NEW r \in Handlers, AimToken(r) \/ AimOther(r)
       PROVE  RoleInv'
  <2>1. /\ \A q \in Handlers \ {r} : job'[q] = job[q]
        /\ job'[r].pc \in {"set", "setOther"}
        /\ UNCHANGED <<role, issued, promoted, stale>>
    BY <1>0, <1>10 DEF AimToken, AimOther, Aim, Jobs
  <2>2. Standing(r)'
    BY <2>1 DEF Standing, At
  <2> QED BY <1>0, <2>1, <2>2, RoleMove
<1>11. ASSUME NEW r \in Handlers, SetToken(r)
       PROVE  RoleInv'
  <2>1. UNCHANGED <<role, issued, promoted, stale>>
    BY <1>11 DEF SetToken
  <2>2. CASE End(r)
    BY <1>0, <2>1, <2>2, RoleEnd
  <2>3. CASE ~End(r)
    <3>1. (\A q \in Handlers \ {r} : job'[q] = job[q]) /\ job'[r].pc = "aimOther"
      BY <1>0, <1>11, <2>3 DEF SetToken, Answer, Jobs
    <3>2. Standing(r)'
      BY <3>1 DEF Standing, At
    <3> QED BY <1>0, <2>1, <3>1, <3>2, RoleMove
  <2> QED BY <2>2, <2>3
<1>12. ASSUME NEW r \in Handlers, SetOther(r) \/ Fail(r)
       PROVE  RoleInv'
  BY <1>0, <1>12, RoleEnd DEF SetOther, Fail, Answer
<1>13. ASSUME NEW r \in Handlers, Load(r)
       PROVE  RoleInv'
  <2>1. /\ \A q \in Handlers \ {r} : job'[q] = job[q]
        /\ job'[r].pc = "save" /\ job'[r].sub = job[r].token.sub
        /\ job'[r].seen = role[job[r].token.sub]
        /\ UNCHANGED <<role, issued, promoted, stale>>
    BY <1>0, <1>13 DEF Load, Jobs
  <2>2. role[job[r].token.sub] # "none"
    BY <1>13 DEF Load, RoleInv, Standing, Registered, At
  <2>3. Standing(r)'
    BY <2>1, <2>2 DEF Standing, At
  <2> QED BY <1>0, <2>1, <2>3, RoleMove
<1>14. ASSUME NEW r \in Handlers, Save(r)
       PROVE  RoleInv'
  <2>1. /\ job[r].sub \in Users /\ Standing(r) /\ At(r, "save")
        /\ End(r) /\ UNCHANGED <<issued, promoted, stale>>
        /\ role' = [role EXCEPT ![job[r].sub] = job[r].seen]
    BY <1>0, <1>14 DEF Save, At, TypeOK, RoleInv
  <2>2. /\ job[r].seen # "none"
        /\ job[r].sub = Admin /\ ~stale => job[r].seen = role[Admin]
    BY <2>1 DEF Standing
  <2>3. /\ \A u \in Users : role[u] # "none" => role'[u] # "none"
        /\ ~stale => role'[Admin] = role[Admin]
    BY <1>0, <2>1, <2>2 DEF TypeOK
  <2>4. ASSUME NEW q \in Handlers \ {r} PROVE Standing(q)'
    BY <1>0, <2>1, <2>3, EndEffect, StandingKept
  <2>5. Standing(r)'
    BY <1>0, <2>1, EndEffect DEF Standing, At, Idle
  <2>6. Registered' /\ AdminStaysAdmin'
    BY <1>0, <2>1, <2>3, TokenFacts DEF RoleInv, Registered, AdminStaysAdmin, TypeOK
  <2> QED BY <1>0, <2>4, <2>5, <2>6 DEF RoleInv
<1>15. CASE UNCHANGED vars
  BY <1>0, <1>15 DEF vars, RoleInv, Registered, AdminStaysAdmin, Standing, At
<1> QED
  BY <1>1, <1>2, <1>3, <1>4, <1>5, <1>6, <1>7, <1>8, <1>9, <1>10, <1>11, <1>12, <1>13,
     <1>14, <1>15
  DEF Next, Logout, UpdateMe

LEMMA RoleInit == Init => RoleInv
<1>1. ASSUME Init PROVE Registered /\ AdminStaysAdmin /\ \A r \in Handlers : job[r] = Idle
  BY <1>1 DEF Init, Registered, AdminStaysAdmin
<1>2. ASSUME NEW r \in Handlers, job[r] = Idle PROVE Standing(r)
  BY <1>2 DEF Standing, At, Idle
<1> QED BY <1>1, <1>2, TypeInit DEF RoleInv

\* However logins, corrections and profile updates overlap, the administrator who has signed
\* in once keeps his role, unless a profile was loaded before the correction of his row and
\* is saved after it.
THEOREM AdminKeepsRole == Spec => []AdminStaysAdmin
<1>1. RoleInv => AdminStaysAdmin
  BY DEF RoleInv
<1> QED BY <1>1, RoleInit, RoleStep, PTL DEF Spec

(***************************************************************************)
(* The buyer's session.                                                    *)
(*                                                                         *)
(* What SessionInv says of storage and of the page is not inductive: it    *)
(* holds because, as long as nothing straggled, every request on its way   *)
(* carries the session that storage holds (NoStranger), so that a refusal  *)
(* clears that session and no other, and an answer is about its user.      *)
(* ShownFits says what will change a page that shows another user: an      *)
(* answer, a login's timer, or a navigation that was asked for.            *)
(* OpeningStands keeps the flag of the jump up until its timer is set.     *)
(***************************************************************************)

Someone == People \cup {Null}
Ops == {"free", "loadMe", "profile", "join", "upload"} \cup Logins
CallRecords ==
  [op : Ops, token : TokenIds \cup {Null}, left : SUBSET ({"me", "orders", "wallet"} \cup Ops),
   fresh : BOOLEAN, got : Someone]
\* A request carries a session that was handed out, and has the user of that one.
CallFits(k) ==
  /\ k \in CallRecords
  /\ k.token # Null => owner[k.token] # Null
  /\ k.fresh => k.token # Null
  /\ k.left = {} => k.op \in {"free", "dev", "admin"}
  /\ k.op = "loadMe" => k.token # Null /\ k.got \in {Null, owner[k.token]}
CallsFit == DOMAIN calls = Calls /\ \A c \in Calls : CallFits(calls[c])

StorageFits ==
  /\ owner \in [TokenIds -> Someone]
  /\ storage \in [token : TokenIds \cup {Null}, user : Someone]
  /\ storage.token # Null => owner[storage.token] # Null
  /\ dead \subseteq {t \in TokenIds : owner[t] # Null}
  /\ store \in Someone /\ shown \in Someone

Navs == [page : {"home", "my", "login", "profile", "admin", "foster", "back"},
         how : {"tap", "back", "launch", "redirect", "join"}]
\* A jump to the login page is flagged until it was carried out, and its timer comes after it.
OpeningStands(o, flag, timer) ==
  /\ o \in Seq(Navs) /\ Len(o) <= MaxOpening
  /\ flag \in BOOLEAN /\ timer \in BOOLEAN /\ (timer => flag)
  /\ \A i \in 1..Len(o) : o[i].how = "launch" => o[i].page # "my"
  /\ \A i \in 1..Len(o) : o[i].how = "redirect" => flag /\ ~timer
  /\ \A i, j \in 1..Len(o) : o[i].how = "redirect" /\ o[j].how = "redirect" => i = j
OpeningFits == OpeningStands(opening, redirecting, cooling)
StackPages == {"home", "landing", "my", "login", "profile", "admin", "foster", "back"}
StackFits == stack \in Seq(StackPages) /\ Len(stack) \in 1..MaxPages

\* While no request straggled, those on their way carry the session that storage holds.
NoStranger == ~straggled => \A c \in Calls : ~Stranger(calls[c], storage.token)

\* What the page of the user shows will be that of storage, or is not seen again.
WillShow(k) == k.op = "loadMe" /\ ("me" \in k.left \/ k.got # Null)
IsTimer(k) == k.op \in {"dev", "admin"} /\ k.left = {}
Settling(k) == WillShow(k) \/ IsTimer(k)
Launches(o) == \E i \in 1..Len(o) : o[i].how = "launch"
ShownFits ==
  ~straggled /\ storage.token # Null /\ shown \notin {Null, owner[storage.token]} =>
    Top # "my" \/ Launches(opening) \/ \E c \in Calls : Settling(calls[c])

SessionIndInv ==
  /\ StorageFits /\ CallsFit /\ OpeningFits /\ StackFits
  /\ NoStranger /\ SessionKept /\ UserMatchesToken /\ ShownFits

\* The invariant has the module's properties.
LEMMA SessionIndInvImplies == SessionIndInv => SessionInv
<1> SUFFICES ASSUME SessionIndInv PROVE SessionInv
  OBVIOUS
<1>1. SessionTypeOK
  BY DEF SessionIndInv, StorageFits, CallsFit, CallFits, OpeningFits, OpeningStands, StackFits,
     SessionTypeOK, Someone
<1>2. ShownIsSession
  <2> SUFFICES ASSUME Top = "my", opening = <<>>, ~straggled, storage.token # Null,
                      \A c \in Calls : calls[c].op \notin {"loadMe"} \cup Logins
               PROVE  shown \in {Null, owner[storage.token]}
    BY DEF ShownIsSession
  <2>1. ~Launches(opening)
    <3>1. Len(opening) = 0
      OBVIOUS
    <3> QED BY <3>1 DEF Launches
  <2>2. \A c \in Calls : ~Settling(calls[c])
    BY DEF Settling, WillShow, IsTimer, Logins
  <2> QED BY <2>1, <2>2 DEF SessionIndInv, ShownFits
<1>3. OneRedirect
  BY DEF SessionIndInv, OpeningFits, OpeningStands, OneRedirect
<1> QED BY <1>1, <1>2, <1>3 DEF SessionIndInv, SessionInv

\* It holds at first, with no session and nothing asked.
LEMMA SessionInitInv == SessionInit => SessionIndInv
<1> SUFFICES ASSUME SessionInit PROVE SessionIndInv
  OBVIOUS
<1>1. StorageFits
  BY DEF SessionInit, StorageFits, NoSession, Someone
<1>2. CallsFit
  <2>1. CallFits(Free)
    BY DEF CallFits, CallRecords, Free, Ops, Someone
  <2> QED BY <2>1 DEF SessionInit, CallsFit
<1>3. OpeningFits
  <2>1. opening = <<>> /\ opening \in Seq(Navs)
    BY DEF SessionInit
  <2>2. Len(opening) = 0 /\ 1..Len(opening) = {}
    BY <2>1
  <2>3. Len(opening) <= MaxOpening
    BY <2>2, SessionAssumption
  <2>4. redirecting = FALSE /\ cooling = FALSE
    BY DEF SessionInit
  <2> HIDE DEF SessionInit
  <2> QED BY <2>1, <2>2, <2>3, <2>4 DEF OpeningFits, OpeningStands
<1>4. StackFits
  <2>1. <<"home">> \in Seq(StackPages) /\ <<"landing">> \in Seq(StackPages)
    BY DEF StackPages
  <2>2. Len(<<"home">>) = 1 /\ Len(<<"landing">>) = 1
    OBVIOUS
  <2>3. 1 \in 1..MaxPages
    BY SessionAssumption
  <2>4. stack \in Seq(StackPages) /\ Len(stack) = 1
    BY <2>1, <2>2 DEF SessionInit
  <2> QED BY <2>3, <2>4 DEF StackFits
<1>5. NoStranger
  BY DEF SessionInit, NoStranger, Stranger, Free
<1>6. SessionKept /\ UserMatchesToken /\ ShownFits
  BY DEF SessionInit, SessionKept, UserMatchesToken, UserOf, ShownFits, NoSession
<1> QED BY <1>1, <1>2, <1>3, <1>4, <1>5, <1>6 DEF SessionIndInv

\* Sessions that were handed out keep their users.
OwnersStay == \A t \in TokenIds : owner[t] # Null => owner'[t] = owner[t]

\* One request changes: each that fits does so still.
LEMMA CallChanges ==
  ASSUME CallsFit, NEW c \in Calls, NEW k, calls' = [calls EXCEPT ![c] = k], OwnersStay,
         CallFits(k)'
  PROVE  CallsFit'
<1>1. DOMAIN calls' = Calls /\ \A d \in Calls : calls'[d] = IF d = c THEN k ELSE calls[d]
  BY DEF CallsFit
<1>2. ASSUME NEW d \in Calls PROVE CallFits(calls[d])'
  <2>1. CASE d = c
    <3>1. calls'[d] = k
      BY <1>1, <2>1
    <3> QED BY <3>1 DEF CallFits
  <2>2. CASE d # c
    <3>1. calls'[d] = calls[d] /\ CallFits(calls[d])
      BY <1>1, <2>2 DEF CallsFit
    <3>2. calls[d].token \in TokenIds \cup {Null}
      BY <3>1 DEF CallFits, CallRecords
    <3>3. calls'[d].token # Null => owner'[calls'[d].token] = owner[calls'[d].token]
      BY <3>1, <3>2 DEF CallFits, OwnersStay
    <3> QED BY <3>1, <3>3 DEF CallFits
  <2> QED BY <2>1, <2>2
<1> QED BY <1>1, <1>2 DEF CallsFit

\* Something is asked of the platform, a jump to the login page only if none is flagged.
LEMMA AskStands ==
  ASSUME NEW o, NEW flag, NEW timer, OpeningStands(o, flag, timer), Len(o) < MaxOpening,
         NEW n \in Navs,
         n.how = "launch" => n.page # "my",
         NEW flag2, flag2 \in BOOLEAN, IF n.how = "redirect" THEN ~flag /\ flag2 ELSE flag2 = flag
  PROVE  OpeningStands(Append(o, n), flag2, timer)
           /\ (Launches(o) \/ n.how = "launch" => Launches(Append(o, n)))
<1> DEFINE p == Append(o, n)
<1>1. o \in Seq(Navs) /\ Len(o) \in Nat /\ Len(o) < MaxOpening /\ MaxOpening \in Nat
  BY SessionAssumption, LenProperties DEF OpeningStands
<1>2. /\ p \in Seq(Navs) /\ Len(p) = Len(o) + 1
      /\ p[Len(o) + 1] = n /\ \A i \in 1..Len(o) : p[i] = o[i]
  BY <1>1
<1>3. \A i \in 1..Len(p) : i \in 1..Len(o) \/ i = Len(o) + 1
  BY <1>1, <1>2
<1> HIDE DEF p
<1>4. Len(p) <= MaxOpening
  BY <1>1, <1>2
<1>5. \A i \in 1..Len(p) : p[i].how = "launch" => p[i].page # "my"
  BY <1>2, <1>3 DEF OpeningStands
<1>6. \A i \in 1..Len(p) : p[i].how = "redirect" => flag2 /\ ~timer
  BY <1>2, <1>3 DEF OpeningStands
<1>7. \A i, j \in 1..Len(p) : p[i].how = "redirect" /\ p[j].how = "redirect" => i = j
  BY <1>2, <1>3 DEF OpeningStands
<1>8. Launches(o) \/ n.how = "launch" => Launches(p)
  <2>1. \A i \in 1..Len(o) : i \in 1..Len(p)
    BY <1>1, <1>2
  <2>2. Len(o) + 1 \in 1..Len(p)
    BY <1>1, <1>2
  <2> QED BY <1>2, <2>1, <2>2 DEF Launches
<1>9. timer \in BOOLEAN /\ (timer => flag2)
  BY DEF OpeningStands
<1> QED BY <1>2, <1>4, <1>5, <1>6, <1>7, <1>8, <1>9 DEF OpeningStands, p

\* The first of what was asked is carried out; a jump sets the timer.
LEMMA TailStands ==
  ASSUME NEW o, NEW flag, NEW timer, OpeningStands(o, flag, timer), o # <<>>,
         NEW timer2, timer2 = (timer \/ Head(o).how = "redirect")
  PROVE  /\ OpeningStands(Tail(o), flag, timer2)
         /\ Launches(o) => Head(o).how = "launch" \/ Launches(Tail(o))
         /\ Head(o) \in Navs /\ (Head(o).how = "launch" => Head(o).page # "my")
<1> DEFINE p == Tail(o)
<1>1. o \in Seq(Navs) /\ Len(o) \in Nat \ {0} /\ Len(o) <= MaxOpening /\ MaxOpening \in Nat
  BY SessionAssumption, EmptySeq DEF OpeningStands
<1>2. /\ p \in Seq(Navs) /\ Len(p) = Len(o) - 1 /\ \A i \in 1..Len(p) : p[i] = o[i + 1]
      /\ Head(o) = o[1] /\ Head(o) \in Navs
  BY <1>1, HeadTailProperties
<1>3. \A i \in 1..Len(p) : i + 1 \in 1..Len(o) /\ i + 1 # 1
  BY <1>1, <1>2
<1>4. 1 \in 1..Len(o) /\ \A i \in 1..Len(o) : i = 1 \/ (i - 1 \in 1..Len(p) /\ i - 1 + 1 = i)
  BY <1>1, <1>2
<1> HIDE DEF p
<1>5. Len(p) <= MaxOpening
  BY <1>1, <1>2
<1>6. \A i \in 1..Len(p) : p[i].how = "launch" => p[i].page # "my"
  BY <1>2, <1>3 DEF OpeningStands
<1>7. \A i \in 1..Len(p) : p[i].how = "redirect" => flag /\ ~timer2
  <2> SUFFICES ASSUME NEW i \in 1..Len(p), p[i].how = "redirect" PROVE flag /\ ~timer2
    OBVIOUS
  <2>1. o[i + 1].how = "redirect" /\ i + 1 \in 1..Len(o) /\ i + 1 # 1
    BY <1>2, <1>3
  <2>2. flag /\ ~timer
    BY <2>1 DEF OpeningStands
  <2>3. o[1].how # "redirect"
    BY <1>4, <2>1 DEF OpeningStands
  <2> QED BY <1>2, <2>2, <2>3
<1>8. ASSUME NEW i \in 1..Len(p), NEW j \in 1..Len(p), p[i].how = "redirect",
             p[j].how = "redirect" PROVE i = j
  <2>1. i + 1 = j + 1
    BY <1>2, <1>3, <1>8 DEF OpeningStands
  <2> QED BY <2>1
<1>9. timer2 \in BOOLEAN /\ flag \in BOOLEAN /\ (timer2 => flag)
  BY <1>2, <1>4 DEF OpeningStands
<1>10. Launches(o) => Head(o).how = "launch" \/ Launches(p)
  BY <1>2, <1>4 DEF Launches
<1>11. Head(o).how = "launch" => Head(o).page # "my"
  BY <1>2, <1>4 DEF OpeningStands
<1> QED BY <1>2, <1>5, <1>6, <1>7, <1>8, <1>9, <1>10, <1>11 DEF OpeningStands, p

\* A step that leaves the session in storage alone leaves alone what is said of it.
LEMMA SessionStays ==
  ASSUME SessionIndInv, UNCHANGED <<storage, owner, held>>, straggled' = TRUE \/ UNCHANGED straggled
  PROVE  SessionKept' /\ UserMatchesToken'
<1>1. SessionKept /\ UserMatchesToken
  BY DEF SessionIndInv
<1>2. SessionKept'
  BY <1>1 DEF SessionKept
<1>3. UserMatchesToken'
  BY <1>1 DEF UserMatchesToken, UserOf
<1> QED BY <1>2, <1>3

\* So does a step after which what will change the page is still on its way.
LEMMA ShownStays ==
  ASSUME SessionIndInv, UNCHANGED <<storage, owner, shown>>,
         straggled' = TRUE \/ UNCHANGED straggled,
         Top' = Top \/ Top' # "my", Launches(opening) => Launches(opening'),
         \A d \in Calls : Settling(calls[d]) => Settling(calls'[d])
  PROVE  ShownFits'
<1>1. ShownFits
  BY DEF SessionIndInv
<1> QED BY <1>1 DEF ShownFits

\* A request is sent with the session that storage holds, or a login without one: no request
\* becomes a stranger, and what will change the page is still on its way.
LEMMA SentInv ==
  ASSUME SessionIndInv, NEW c \in Calls, NEW op \in Ops, NEW t, t \in {Null, storage.token},
         NEW left, left \subseteq {"me", "orders", "wallet"} \cup Ops, left # {},
         calls[c] = Free, calls' = [calls EXCEPT ![c] = Call(op, t, left)],
         op = "loadMe" => t # Null, UNCHANGED <<storage, owner>>,
         \/ straggled' = TRUE
         \/ UNCHANGED straggled /\ IF op \in Logins THEN op # "admin" ELSE t = storage.token
  PROVE  /\ CallsFit' /\ NoStranger'
         /\ \A d \in Calls : Settling(calls[d]) => Settling(calls'[d])
         /\ op = "loadMe" /\ "me" \in left => Settling(calls'[c])
<1> PICK k : k = Call(op, t, left)
  OBVIOUS
<1>1. /\ k.op = op /\ k.token = t /\ k.left = left /\ k.got = Null
      /\ k.fresh = (t # Null /\ t \notin dead)
  BY DEF Call
<1>2. StorageFits /\ CallsFit /\ NoStranger
  BY DEF SessionIndInv
<1>3. t \in TokenIds \cup {Null} /\ (t # Null => owner[t] # Null)
  BY <1>2 DEF StorageFits
<1>4. k \in CallRecords
  <2>1. (t # Null /\ t \notin dead) \in BOOLEAN
    OBVIOUS
  <2> QED BY <1>3, <2>1 DEF Call, CallRecords, Someone
<1>5. CallFits(k)'
  BY <1>1, <1>3, <1>4 DEF CallFits
<1>6. OwnersStay
  BY DEF OwnersStay
<1>7. CallsFit'
  <2>1. calls' = [calls EXCEPT ![c] = k]
    OBVIOUS
  <2> QED BY <2>1, <1>2, <1>5, <1>6, CallChanges
<1>8. \A d \in Calls : calls'[d] = IF d = c THEN k ELSE calls[d]
  BY <1>2 DEF CallsFit
<1>9. NoStranger'
  <2> SUFFICES ASSUME straggled' # TRUE, ~straggled', NEW d \in Calls
               PROVE  ~Stranger(calls'[d], storage.token)
    BY DEF NoStranger
  <2>1. ~Stranger(k, storage.token)
    BY <1>1 DEF Stranger
  <2>2. ~Stranger(calls[d], storage.token)
    BY <1>2 DEF NoStranger
  <2> QED BY <1>8, <2>1, <2>2
<1>10. ~Settling(calls[c])
  BY DEF Settling, WillShow, IsTimer, Free
<1>11. \A d \in Calls : Settling(calls[d]) => Settling(calls'[d])
  BY <1>8, <1>10
<1>12. op = "loadMe" /\ "me" \in left => Settling(calls'[c])
  BY <1>1, <1>8 DEF Settling, WillShow
<1> QED BY <1>7, <1>9, <1>11, <1>12

\* The user asks for a page.
LEMMA TapInv ==
  ASSUME SessionIndInv, Tap \/ GoPig
  PROVE  SessionIndInv'
<1>1. /\ opening = <<>> /\ Len(opening) < MaxOpening
      /\ UNCHANGED <<session, backend, stack, redirecting, cooling, calls, shown, held, straggled>>
  BY DEF Tap, GoPig, Ask
<1>2. \E n \in Navs : /\ opening' = Append(opening, n)
                      /\ n.how # "redirect" /\ (n.how = "launch" => n.page # "my")
  <2>1. CASE GoPig
    <3>1. opening' = Append(opening, Nav("home", "launch"))
      BY <2>1 DEF GoPig, Ask
    <3>2. Nav("home", "launch") \in Navs
      BY DEF Nav, Navs
    <3> QED BY <3>1, <3>2 DEF Nav
  <2>2. ASSUME NEW p \in {"my", "login", "profile", "admin"}, Ask(Nav(p, "tap")) PROVE <1>2
    <3>1. Nav(p, "tap") \in Navs
      BY DEF Nav, Navs
    <3> QED BY <2>2, <3>1 DEF Nav, Ask
  <2>3. CASE Ask(Nav("back", "back"))
    <3>1. Nav("back", "back") \in Navs
      BY DEF Nav, Navs
    <3> QED BY <2>3, <3>1 DEF Nav, Ask
  <2>4. CASE Tap /\ ~Ask(Nav("back", "back"))
    <3>1. PICK p \in (CASE Top = "home" -> HomeLinks [] Top = "my" -> MyLinks
                        [] Top = "login" -> LoginLinks [] OTHER -> {}) : Ask(Nav(p, "tap"))
      BY <2>4 DEF Tap
    <3>2. p \in {"my", "login", "profile", "admin"}
      BY DEF HomeLinks, MyLinks, LoginLinks
    <3> QED BY <2>2, <3>1, <3>2
  <2> QED BY <2>1, <2>3, <2>4
<1>3. PICK n \in Navs : /\ opening' = Append(opening, n)
                        /\ n.how # "redirect" /\ (n.how = "launch" => n.page # "my")
  BY <1>2
<1>4. OpeningFits' /\ (Launches(opening) => Launches(opening'))
  <2> PICK o, flag, timer : o = opening /\ flag = redirecting /\ timer = cooling
    OBVIOUS
  <2>1. OpeningStands(o, flag, timer) /\ flag \in BOOLEAN
    BY DEF SessionIndInv, OpeningFits, OpeningStands
  <2>2. OpeningStands(Append(o, n), flag, timer) /\ (Launches(o) => Launches(Append(o, n)))
    BY <2>1, <1>1, <1>3, AskStands
  <2> QED BY <2>2, <1>1, <1>3 DEF OpeningFits
<1>5. ShownFits' /\ SessionKept' /\ UserMatchesToken'
  BY <1>1, <1>4, ShownStays, SessionStays DEF session, backend, Top
<1>6. StorageFits' /\ CallsFit' /\ StackFits' /\ NoStranger'
  BY <1>1 DEF SessionIndInv, StorageFits, CallsFit, CallFits, StackFits, NoStranger, session,
     backend
<1> QED BY <1>4, <1>5, <1>6 DEF SessionIndInv

\* The flag is lifted, when no jump is under way.
LEMMA CoolInv == ASSUME SessionIndInv, Cool PROVE SessionIndInv'
<1>1. OpeningFits'
  <2>1. OpeningStands(opening, redirecting, cooling) /\ cooling
    BY DEF SessionIndInv, OpeningFits, Cool
  <2>2. \A i \in 1..Len(opening) : opening[i].how # "redirect"
    BY <2>1 DEF OpeningStands
  <2>3. opening' = opening /\ redirecting' = FALSE /\ cooling' = FALSE
    BY DEF Cool
  <2> QED BY <2>1, <2>2, <2>3 DEF OpeningStands, OpeningFits
<1>2. UNCHANGED <<session, backend, stack, opening, calls, shown, held, straggled>>
  BY DEF Cool
<1>3. ShownFits' /\ SessionKept' /\ UserMatchesToken'
  BY <1>2, ShownStays, SessionStays DEF session, backend, Top
<1>4. StorageFits' /\ CallsFit' /\ StackFits' /\ NoStranger'
  BY <1>2 DEF SessionIndInv, StorageFits, CallsFit, CallFits, StackFits, NoStranger, session,
     backend
<1> QED BY <1>1, <1>3, <1>4 DEF SessionIndInv

\* The backend forgets a session.
LEMMA ExpireInv == ASSUME SessionIndInv, Expire PROVE SessionIndInv'
<1>1. UNCHANGED <<storage, store, owner, stack, opening, redirecting, cooling, calls, shown, held,
                  straggled>>
  BY DEF Expire, session, pages
<1>2. StorageFits'
  BY <1>1 DEF SessionIndInv, StorageFits, Expire
<1>3. ShownFits' /\ SessionKept' /\ UserMatchesToken'
  BY <1>1, ShownStays, SessionStays DEF Top
<1>4. OpeningFits' /\ CallsFit' /\ StackFits' /\ NoStranger'
  BY <1>1 DEF SessionIndInv, OpeningFits, CallsFit, CallFits, StackFits, NoStranger
<1> QED BY <1>2, <1>3, <1>4 DEF SessionIndInv

\* A page sends a request, or a login.
LEMMA StartsInv ==
  ASSUME SessionIndInv, NEW c \in Calls,
         OnJoin(c) \/ ApplyAgain(c) \/ UploadAvatar(c) \/ OnWxLogin(c) \/ OnDevLogin(c)
           \/ OnAdminSubmit(c)
  PROVE  SessionIndInv'
<1>1. /\ UNCHANGED <<session, backend, pages, shown, held>>
      /\ straggled' = TRUE \/ UNCHANGED straggled
  BY DEF OnJoin, ApplyAgain, UploadAvatar, OnWxLogin, OnDevLogin, OnAdminSubmit, Starts
<1>2. \E op \in Ops \ {"free", "loadMe"} : \E t \in {Null, storage.token} :
        /\ calls[c] = Free /\ calls' = [calls EXCEPT ![c] = Call(op, t, {op})]
        /\ \/ straggled' = TRUE
           \/ UNCHANGED straggled /\ IF op \in Logins THEN op # "admin" ELSE t = storage.token
  <2>1. ASSUME NEW p, NEW op \in {"join", "profile", "upload"}, Starts(c, p, op) PROVE <1>2
    <3>1. op \in Ops \ {"free", "loadMe"} /\ op \notin Logins
      BY DEF Ops, Logins
    <3> QED BY <2>1, <3>1 DEF Starts, Send
  <2>2. ASSUME NEW op \in {"wx", "dev"}, SendLogin(c, op), UNCHANGED straggled PROVE <1>2
    <3>1. op \in Ops \ {"free", "loadMe"} /\ op \in Logins /\ op # "admin"
      BY DEF Ops, Logins
    <3> QED BY <2>2, <3>1 DEF SendLogin
  <2>3. CASE OnAdminSubmit(c)
    <3>1. "admin" \in Ops \ {"free", "loadMe"}
      BY DEF Ops, Logins
    <3> QED BY <2>3, <3>1 DEF OnAdminSubmit, SendLogin
  <2> QED BY <2>1, <2>2, <2>3 DEF OnJoin, ApplyAgain, UploadAvatar, OnWxLogin, OnDevLogin
<1>3. PICK op \in Ops \ {"free", "loadMe"}, t \in {Null, storage.token} :
        /\ calls[c] = Free /\ calls' = [calls EXCEPT ![c] = Call(op, t, {op})]
        /\ \/ straggled' = TRUE
           \/ UNCHANGED straggled /\ IF op \in Logins THEN op # "admin" ELSE t = storage.token
  BY <1>2
<1>4. CallsFit' /\ NoStranger' /\ \A d \in Calls : Settling(calls[d]) => Settling(calls'[d])
  <2> PICK left : left = {op}
    OBVIOUS
  <2>1. left \subseteq {"me", "orders", "wallet"} \cup Ops /\ left # {} /\ op \in Ops
          /\ op # "loadMe"
    OBVIOUS
  <2>4. calls[c] = Free /\ calls' = [calls EXCEPT ![c] = Call(op, t, left)]
    BY <1>3
  <2>5. \/ straggled' = TRUE
        \/ UNCHANGED straggled /\ IF op \in Logins THEN op # "admin" ELSE t = storage.token
    BY <1>3
  <2>2. UNCHANGED <<storage, owner>>
    BY <1>1 DEF session, backend
  <2>3. t \in {Null, storage.token}
    OBVIOUS
  <2> QED BY <2>1, <2>2, <2>3, <2>4, <2>5, SentInv
<1>5. ShownFits' /\ SessionKept' /\ UserMatchesToken'
  BY <1>1, <1>4, ShownStays, SessionStays DEF session, backend, pages, Top
<1>6. StorageFits' /\ OpeningFits' /\ StackFits'
  BY <1>1 DEF SessionIndInv, StorageFits, OpeningFits, StackFits, session, backend, pages
<1> QED BY <1>4, <1>5, <1>6 DEF SessionIndInv

\* The user logs out.
LEMMA OnLogoutInv == ASSUME SessionIndInv, OnLogout PROVE SessionIndInv'
<1>1. /\ UNCHANGED <<calls, store, owner, dead, stack, opening, redirecting, cooling>>
      /\ storage' = NoSession /\ shown' = Null /\ held' = Null
      /\ straggled' = \E c \in Calls : Stranger(calls'[c], NoSession.token)
  BY DEF OnLogout, Becomes, backend, pages
<1>2. storage'.token = Null /\ storage'.user = Null
  BY <1>1 DEF NoSession
<1>3. StorageFits'
  BY <1>1, <1>2 DEF SessionIndInv, StorageFits, NoSession, Someone
<1>4. NoStranger'
  BY <1>1 DEF NoStranger
<1>5. ShownFits' /\ SessionKept' /\ UserMatchesToken'
  BY <1>1, <1>2 DEF ShownFits, SessionKept, UserMatchesToken, UserOf
<1>6. CallsFit' /\ OpeningFits' /\ StackFits'
  BY <1>1 DEF SessionIndInv, CallsFit, CallFits, OpeningFits, StackFits
<1> QED BY <1>3, <1>4, <1>5, <1>6 DEF SessionIndInv

\* The stack that a navigation leaves has a page on top and no more than the platform takes.
LEMMA OpenedFits ==
  ASSUME StackFits, NEW n \in Navs
  PROVE  /\ Opened(n) \in Seq(StackPages) /\ Len(Opened(n)) \in 1..MaxPages
         /\ n.how = "launch" => Opened(n)[Len(Opened(n))] = n.page
<1>1. n.page \in StackPages
  BY DEF Navs, StackPages
<1>2. stack \in Seq(StackPages) /\ Len(stack) \in 1..MaxPages /\ MaxPages \in Nat \ {0}
  BY SessionAssumption DEF StackFits
<1>3. CASE n.how = "launch"
  <2>1. Opened(n) = <<n.page>>
    BY <1>3 DEF Opened
  <2>2. <<n.page>> \in Seq(StackPages) /\ Len(<<n.page>>) = 1 /\ <<n.page>>[1] = n.page
    BY <1>1
  <2> QED BY <1>2, <2>1, <2>2
<1>4. CASE n.how = "back"
  <2>1. CASE Len(stack) > 1
    <3>1. Opened(n) = SubSeq(stack, 1, Len(stack) - 1)
      BY <1>4, <2>1 DEF Opened
    <3>2. /\ SubSeq(stack, 1, Len(stack) - 1) \in Seq(StackPages)
          /\ Len(SubSeq(stack, 1, Len(stack) - 1)) = Len(stack) - 1
      BY <1>2, <2>1
    <3> QED BY <1>2, <1>4, <2>1, <3>1, <3>2
  <2>2. CASE ~(Len(stack) > 1)
    <3>1. Opened(n) = stack
      BY <1>4, <2>2 DEF Opened
    <3> QED BY <1>2, <1>4, <3>1
  <2> QED BY <2>1, <2>2
<1>5. CASE n.how \notin {"launch", "back"}
  <2>1. CASE Len(stack) < MaxPages
    <3>1. Opened(n) = Append(stack, n.page)
      BY <1>5, <2>1 DEF Opened
    <3>2. Append(stack, n.page) \in Seq(StackPages) /\ Len(Append(stack, n.page)) = Len(stack) + 1
      BY <1>1, <1>2
    <3> QED BY <1>2, <1>5, <2>1, <3>1, <3>2
  <2>2. CASE ~(Len(stack) < MaxPages)
    <3>1. Opened(n) = stack
      BY <1>5, <2>2 DEF Opened
    <3> QED BY <1>2, <1>5, <3>1
  <2> QED BY <2>1, <2>2
<1> QED BY <1>3, <1>4, <1>5

\* My page asks for its user again, or shows none if nobody is logged in.
LEMMA LoadMeInv ==
  ASSUME SessionIndInv, NEW c \in Calls, NEW old, old \in {Null, shown}, LoadMe(c, old),
         UNCHANGED <<storage, owner, straggled>>
  PROVE  CallsFit' /\ NoStranger' /\ ShownFits' /\ shown' \in Someone
<1>1. CASE storage.token = Null
  <2>1. shown' = Null /\ UNCHANGED calls
    BY <1>1 DEF LoadMe
  <2>2. CallsFit' /\ NoStranger' /\ shown' \in Someone
    BY <2>1 DEF SessionIndInv, CallsFit, CallFits, NoStranger, Someone
  <2>3. ShownFits'
    BY <2>1 DEF ShownFits
  <2> QED BY <2>2, <2>3
<1>2. CASE storage.token # Null
  <2> PICK t, left : t = storage.token /\ left = {"me"} \cup Sides
    OBVIOUS
  <2>1. /\ calls[c] = Free /\ calls' = [calls EXCEPT ![c] = Call("loadMe", t, left)]
        /\ shown' = old
    BY <1>2 DEF LoadMe, Send
  <2>2. left \subseteq {"me", "orders", "wallet"} \cup Ops /\ left # {} /\ "me" \in left
    BY SessionAssumption
  <2>3. "loadMe" \in Ops /\ "loadMe" \notin Logins
    BY DEF Ops, Logins
  <2>4. CallsFit' /\ NoStranger' /\ Settling(calls'[c])
    BY <1>2, <2>1, <2>2, <2>3, SentInv
  <2>5. ShownFits'
    BY <2>4 DEF ShownFits
  <2>6. shown' \in Someone
    BY <2>1 DEF SessionIndInv, StorageFits, Someone
  <2> QED BY <2>4, <2>5, <2>6
<1> QED BY <1>1, <1>2

\* The platform carries out a navigation, and the page on top asks for what it shows.
LEMMA OpenInv == ASSUME SessionIndInv, NEW c \in Calls, Open(c) PROVE SessionIndInv'
<1> PICK n, new, top : n = Head(opening) /\ new = Opened(n) /\ top = new[Len(new)]
  OBVIOUS
<1>1. /\ opening # <<>> /\ opening' = Tail(opening) /\ stack' = new
      /\ cooling' = (cooling \/ n.how = "redirect")
      /\ IF new = stack \/ (n.how = "back" /\ top # "my")
           THEN UNCHANGED <<calls, shown>>
           ELSE IF n.how = "back" THEN LoadMe(c, shown) ELSE OnTop(top, c)
      /\ UNCHANGED <<session, backend, redirecting, held, straggled>>
  BY DEF Open, Completes
<1>2. UNCHANGED <<storage, store, owner, dead, redirecting, held, straggled>>
  BY <1>1 DEF session, backend
<1>3. /\ OpeningFits' /\ n \in Navs /\ (n.how = "launch" => n.page # "my")
      /\ Launches(opening) => n.how = "launch" \/ Launches(opening')
  <2> PICK o, flag, timer, timer2 :
        o = opening /\ flag = redirecting /\ timer = cooling
          /\ timer2 = (timer \/ Head(o).how = "redirect")
    OBVIOUS
  <2>1. OpeningStands(o, flag, timer)
    BY DEF SessionIndInv, OpeningFits
  <2>2. /\ OpeningStands(Tail(o), flag, timer2)
        /\ Launches(o) => Head(o).how = "launch" \/ Launches(Tail(o))
        /\ Head(o) \in Navs /\ (Head(o).how = "launch" => Head(o).page # "my")
    BY <2>1, <1>1, TailStands
  <2>3. opening' = Tail(o) /\ redirecting' = flag /\ cooling' = timer2
    BY <1>1, <1>2
  <2> QED BY <2>2, <2>3 DEF OpeningFits
<1>4. /\ StackFits' /\ Top' = top
      /\ n.how = "launch" => top # "my"
  <2>1. /\ new \in Seq(StackPages) /\ Len(new) \in 1..MaxPages
        /\ n.how = "launch" => top = n.page
    BY <1>3, OpenedFits DEF SessionIndInv
  <2> QED BY <1>1, <1>3, <2>1 DEF StackFits, Top
<1>5. SessionKept' /\ UserMatchesToken'
  BY <1>2, SessionStays
<1>6. CallsFit' /\ NoStranger' /\ ShownFits' /\ shown' \in Someone
  <2>1. CASE UNCHANGED <<calls, shown>> /\ (top # "my" \/ Top' = Top)
    <3>1. CallsFit' /\ NoStranger' /\ shown' \in Someone
      BY <1>2, <2>1 DEF SessionIndInv, StorageFits, CallsFit, CallFits, NoStranger, Someone
    <3>2. ShownFits
      BY DEF SessionIndInv
    <3>3. ShownFits'
      BY <1>2, <1>3, <1>4, <2>1, <3>2 DEF ShownFits
    <3> QED BY <3>1, <3>3
  <2>2. CASE \E old \in {Null, shown} : LoadMe(c, old)
    BY <1>2, <2>2, LoadMeInv
  <2>3. CASE top = "profile" /\ Send(c, "profile", {"profile"}) /\ UNCHANGED shown
    <3> PICK t, left : t = storage.token /\ left = {"profile"}
      OBVIOUS
    <3>1. calls[c] = Free /\ calls' = [calls EXCEPT ![c] = Call("profile", t, left)]
      BY <2>3 DEF Send
    <3>2. "profile" \in Ops /\ "profile" \notin Logins
      BY DEF Ops, Logins
    <3>3. CallsFit' /\ NoStranger'
      BY <1>2, <3>1, <3>2, SentInv
    <3>4. ShownFits'
      BY <1>4, <2>3 DEF ShownFits
    <3> QED BY <2>3, <3>3, <3>4 DEF SessionIndInv, StorageFits, Someone
  <2>4. new = stack => Top' = Top
    BY <1>1 DEF Top
  <2> QED BY <1>1, <2>1, <2>2, <2>3, <2>4 DEF OnTop
<1>7. StorageFits'
  BY <1>2, <1>6 DEF SessionIndInv, StorageFits, Someone
<1> QED BY <1>3, <1>4, <1>5, <1>6, <1>7 DEF SessionIndInv

\* A set of numbers has a least one: the first slot, which holds the first load.
LEMMA LeastNatural ==
  ASSUME NEW S, S \subseteq Nat, S # {}
  PROVE  \E n \in S : \A m \in S : n <= m
<1> DEFINE R == OpToRel(<, Nat)
<1>1. IsWellFoundedOn(R, Nat)
  BY NatLessThanWellFounded
<1>2. \A x, y \in Nat : x < y => <<x, y>> \in R
  BY DEF OpToRel
<1> HIDE DEF R
<1>3. PICK x \in S : \A y \in S : ~(<<y, x>> \in R)
  BY <1>1, WFMin
<1>4. ASSUME NEW y \in S PROVE x <= y
  <2>1. x \in Nat /\ y \in Nat /\ ~(<<y, x>> \in R)
    BY <1>3
  <2>2. ~(y < x)
    BY <1>2, <2>1
  <2> QED BY <2>1, <2>2
<1> QED BY <1>4

\* While a login is answered, the next session is one that nobody has.
LEMMA NextSession ==
  ASSUME NEW n \in TokenIds, owner[n] = Null
  PROVE  LET t == CHOOSE i \in TokenIds : owner[i] = Null /\ \A m \in 1..(i-1) : owner[m] # Null
         IN  t \in TokenIds /\ owner[t] = Null
<1> DEFINE P(i) == i \in TokenIds /\ owner[i] = Null
<1>1. \E i \in Nat : P(i) /\ \A m \in 0..(i-1) : ~P(m)
  <2> DEFINE S == {i \in Nat : P(i)}
  <2>1. S # {} /\ S \subseteq Nat
    BY DEF TokenIds
  <2>2. PICK i \in S : \A m \in S : i <= m
    <3> HIDE DEF S
    <3> QED BY <2>1, LeastNatural
  <2>3. i \in Nat /\ P(i)
    OBVIOUS
  <2>4. \A m \in 0..(i-1) : m \in Nat /\ m < i
    BY <2>3
  <2>5. \A m \in 0..(i-1) : m \notin S
    <3> HIDE DEF S
    <3> QED BY <2>2, <2>3, <2>4
  <2>6. \A m \in 0..(i-1) : ~P(m)
    BY <2>4, <2>5
  <2> QED BY <2>3, <2>6
<1>2. PICK i \in Nat : P(i) /\ \A m \in 0..(i-1) : ~P(m)
  BY <1>1
<1>3. \A m \in 1..(i-1) : m \in TokenIds /\ m \in 0..(i-1)
  BY <1>2, SessionAssumption DEF TokenIds
<1>4. i \in TokenIds /\ owner[i] = Null /\ \A m \in 1..(i-1) : owner[m] # Null
  BY <1>2, <1>3
<1> QED BY <1>4

\* A login is answered with a session of its own.
LEMMA LoggedInInv ==
  ASSUME SessionIndInv, NEW c \in Calls, NEW u \in People, LoggedIn(c, u)
  PROVE  SessionIndInv'
<1> PICK op, t : /\ op = calls[c].op
                 /\ t = CHOOSE i \in TokenIds : owner[i] = Null
                      /\ \A m \in 1..(i-1) : owner[m] # Null
  OBVIOUS
<1>1. /\ op \in Logins /\ InFlight(c) /\ owner' = [owner EXCEPT ![t] = u]
      /\ IF op = "admin" /\ u \notin Admins
           THEN /\ calls' = [calls EXCEPT ![c] = Free]
                /\ UNCHANGED <<session, opening, held, straggled>>
           ELSE /\ calls' = [calls EXCEPT ![c] = IF op = "wx" THEN Free ELSE Timer(op)]
                /\ SetSession(t, u)
                /\ IF op = "wx" THEN \E n \in AfterLogin : Ask(n) ELSE UNCHANGED opening
      /\ UNCHANGED <<dead, stack, redirecting, cooling, shown>>
  BY DEF LoggedIn
<1>2. t \in TokenIds /\ owner[t] = Null /\ t # Null /\ u # Null
  <2>1. \E n \in TokenIds : owner[n] = Null
    BY DEF LoggedIn
  <2>2. t \in TokenIds /\ owner[t] = Null
    BY <2>1, NextSession
  <2> QED BY <2>2, SessionAssumption DEF TokenIds
<1>3. StorageFits /\ CallsFit /\ NoStranger
  BY DEF SessionIndInv
<1>4. OwnersStay /\ owner' \in [TokenIds -> Someone] /\ owner'[t] = u
  BY <1>1, <1>2, <1>3 DEF StorageFits, OwnersStay, Someone
<1>5. ASSUME NEW k, k \in {Free, Timer("dev"), Timer("admin")}, calls' = [calls EXCEPT ![c] = k]
      PROVE  CallsFit' /\ \A d \in Calls : calls'[d] = IF d = c THEN k ELSE calls[d]
  <2>1. /\ k.token = Null /\ k.left = {} /\ k.fresh = FALSE /\ k.op \in {"free", "dev", "admin"}
        /\ k.got = Null /\ k \in CallRecords
    <3>1. Free \in CallRecords
      BY DEF Free, CallRecords, Ops, Logins, Someone
    <3>2. ASSUME NEW o \in {"dev", "admin"}
          PROVE  /\ Timer(o) \in CallRecords /\ Timer(o).op = o /\ Timer(o).token = Null
                 /\ Timer(o).left = {}
                 /\ Timer(o).fresh = FALSE /\ Timer(o).got = Null
      <4>1. o \in Ops
        BY DEF Ops, Logins
      <4>2. [Free EXCEPT !.op = o] \in CallRecords
        BY <3>1, <4>1 DEF CallRecords
      <4> QED BY <4>2 DEF Timer, Free
    <3>3. CASE k = Free
      BY <3>1, <3>3 DEF Free
    <3>4. CASE k \in {Timer("dev"), Timer("admin")}
      BY <3>2, <3>4
    <3> QED BY <1>5, <3>3, <3>4
  <2>2. CallFits(k)'
    BY <2>1 DEF CallFits
  <2> QED BY <1>3, <1>4, <1>5, <2>2, CallChanges DEF CallsFit
<1>6. CASE op = "admin" /\ u \notin Admins
  <2>1. /\ calls' = [calls EXCEPT ![c] = Free]
        /\ UNCHANGED <<storage, store, opening, held, straggled>>
    BY <1>1, <1>6 DEF session
  <2>2. CallsFit' /\ \A d \in Calls : calls'[d] = IF d = c THEN Free ELSE calls[d]
    <3> PICK k : k = Free
      OBVIOUS
    <3>1. calls' = [calls EXCEPT ![c] = k]
      BY <2>1
    <3> QED BY <1>5, <3>1
  <2>3. straggled
    BY <1>1, <1>3, <1>6 DEF NoStranger, Stranger, InFlight, Logins
  <2>4. StorageFits'
    BY <1>1, <1>3, <1>4, <2>1 DEF StorageFits, OwnersStay
  <2>5. NoStranger' /\ ShownFits' /\ SessionKept' /\ UserMatchesToken'
    BY <2>1, <2>3 DEF NoStranger, ShownFits, SessionKept, UserMatchesToken
  <2>6. OpeningFits' /\ StackFits'
    BY <1>1, <2>1 DEF SessionIndInv, OpeningFits, StackFits
  <2> QED BY <2>2, <2>4, <2>5, <2>6 DEF SessionIndInv
<1>7. CASE ~(op = "admin" /\ u \notin Admins)
  <2>1. /\ calls' = [calls EXCEPT ![c] = IF op = "wx" THEN Free ELSE Timer(op)]
        /\ storage' = [token |-> t, user |-> u] /\ store' = u /\ held' = t
        /\ straggled' = \E d \in Calls : Stranger(calls'[d], t)
        /\ IF op = "wx" THEN \E n \in AfterLogin : Ask(n) ELSE UNCHANGED opening
    BY <1>1, <1>7 DEF SetSession, Becomes
  <2>2. storage'.token = t /\ storage'.user = u
    BY <2>1
  <2> PICK k : k = IF op = "wx" THEN Free ELSE Timer(op)
    OBVIOUS
  <2>3. CallsFit' /\ \A d \in Calls : calls'[d] = IF d = c THEN k ELSE calls[d]
    <3>1. k \in {Free, Timer("dev"), Timer("admin")}
      BY <1>1 DEF Logins
    <3> QED BY <1>5, <2>1, <3>1
  <2>4. StorageFits'
    <3>1. storage' \in [token : TokenIds \cup {Null}, user : Someone] /\ store' \in Someone
      BY <1>2, <2>1 DEF Someone
    <3>2. owner'[storage'.token] # Null
      BY <1>2, <1>4, <2>2
    <3>3. dead' \subseteq {i \in TokenIds : owner'[i] # Null}
      BY <1>1, <1>3, <1>4 DEF StorageFits, OwnersStay
    <3>4. shown' \in Someone
      BY <1>1, <1>3 DEF StorageFits
    <3> QED BY <1>4, <3>1, <3>2, <3>3, <3>4 DEF StorageFits
  <2>5. NoStranger'
    BY <2>1, <2>2 DEF NoStranger
  <2>6. SessionKept' /\ UserMatchesToken'
    BY <1>2, <1>4, <2>1, <2>2 DEF SessionKept, UserMatchesToken, UserOf
  <2>7. OpeningFits' /\ (op = "wx" => Launches(opening'))
    <3>1. CASE op = "wx"
      <4>1. PICK n \in AfterLogin : Ask(n)
        BY <2>1, <3>1
      <4>2. n \in Navs /\ n.how = "launch" /\ n.page # "my"
        BY DEF AfterLogin, Nav, Navs
      <4> PICK o, flag, timer : o = opening /\ flag = redirecting /\ timer = cooling
        OBVIOUS
      <4>3. OpeningStands(o, flag, timer) /\ flag \in BOOLEAN
        BY DEF SessionIndInv, OpeningFits, OpeningStands
      <4>4. Len(o) < MaxOpening /\ opening' = Append(o, n)
        BY <4>1 DEF Ask
      <4>5. OpeningStands(Append(o, n), flag, timer) /\ Launches(Append(o, n))
        BY <4>2, <4>3, <4>4, AskStands
      <4> QED BY <1>1, <4>4, <4>5 DEF OpeningFits
    <3>2. CASE op # "wx"
      BY <1>1, <2>1, <3>2 DEF SessionIndInv, OpeningFits
    <3> QED BY <3>1, <3>2
  <2>8. op # "wx" => Settling(calls'[c])
    <3>1. op # "wx" => k = Timer(op) /\ op \in {"dev", "admin"}
      BY <1>1 DEF Logins
    <3>2. op # "wx" => IsTimer(k)
      BY <3>1 DEF IsTimer, Timer, Free
    <3> QED BY <2>3, <3>2 DEF Settling
  <2>9. ShownFits'
    BY <2>7, <2>8 DEF ShownFits
  <2>10. StackFits'
    BY <1>1 DEF SessionIndInv, StackFits
  <2> QED BY <2>3, <2>4, <2>5, <2>6, <2>7, <2>9, <2>10 DEF SessionIndInv
<1> QED BY <1>6, <1>7

\* The timer of a login leads on to the next page, which is not my page.
LEMMA FireTimerInv == ASSUME SessionIndInv, NEW c \in Calls, FireTimer(c) PROVE SessionIndInv'
<1>1. /\ calls[c].op # "free" /\ calls[c].left = {}
      /\ calls' = [calls EXCEPT ![c] = Free]
      /\ UNCHANGED <<storage, store, owner, dead, stack, redirecting, cooling, shown, held,
                     straggled>>
  BY DEF FireTimer, InFlight, session, backend
<1>2. CallFits(calls[c]) /\ CallsFit /\ NoStranger
  BY DEF SessionIndInv, CallsFit
<1>3. calls[c].op \in {"dev", "admin"}
  BY <1>1, <1>2 DEF CallFits
<1>4. PICK n \in After(calls[c].op) : Ask(n)
  BY DEF FireTimer
<1>5. n \in Navs /\ n.how = "launch" /\ n.page # "my"
  BY <1>3 DEF After, AfterLogin, Nav, Navs
<1>6. OpeningFits' /\ Launches(opening')
  <2> PICK o, flag, timer : o = opening /\ flag = redirecting /\ timer = cooling
    OBVIOUS
  <2>1. OpeningStands(o, flag, timer) /\ flag \in BOOLEAN
    BY DEF SessionIndInv, OpeningFits, OpeningStands
  <2>2. Len(o) < MaxOpening /\ opening' = Append(o, n)
    BY <1>4 DEF Ask
  <2>3. OpeningStands(Append(o, n), flag, timer) /\ Launches(Append(o, n))
    BY <1>5, <2>1, <2>2, AskStands
  <2> QED BY <1>1, <2>2, <2>3 DEF OpeningFits
<1>7. CallsFit' /\ NoStranger'
  <2> PICK k : k = Free
    OBVIOUS
  <2>1. CallFits(k)'
    BY DEF CallFits, CallRecords, Free, Ops, Someone
  <2>2. OwnersStay
    BY <1>1 DEF OwnersStay
  <2>3. CallsFit'
    BY <1>1, <1>2, <2>1, <2>2, CallChanges
  <2>4. \A d \in Calls : calls'[d] = calls[d] \/ calls'[d].left = {}
    BY <1>1, <1>2 DEF CallsFit, Free
  <2>5. NoStranger'
    BY <1>1, <1>2, <2>4 DEF NoStranger, Stranger
  <2> QED BY <2>3, <2>5
<1>8. ShownFits'
  BY <1>6 DEF ShownFits
<1>9. SessionKept' /\ UserMatchesToken'
  BY <1>1, SessionStays
<1>10. StorageFits' /\ StackFits'
  BY <1>1 DEF SessionIndInv, StorageFits, StackFits
<1> QED BY <1>6, <1>7, <1>8, <1>9, <1>10 DEF SessionIndInv

\* What my page waits for keeps to the session that it carried, and so does what it shows.
LEMMA JoinedFits ==
  ASSUME SessionIndInv, NEW c \in Calls, NEW q \in calls[c].left, calls[c].op = "loadMe",
         NEW ok, Joined(c, q, ok)
  PROVE  \E k : /\ calls' = [calls EXCEPT ![c] = k] /\ CallFits(k)
                /\ k = Free \/ (k.op = "loadMe" /\ k.token = calls[c].token /\ k.left # {})
                /\ \/ shown' \in {Null, owner[calls[c].token]}
                   \/ shown' = shown /\ (WillShow(calls[c]) => WillShow(k))
<1> PICK old, left, user, k :
      /\ old = calls[c] /\ left = old.left \ {q}
      /\ user = IF q = "me" /\ ok THEN owner[old.token] ELSE old.got
      /\ k = IF left = {} THEN Free ELSE [old EXCEPT !.left = left, !.got = user]
  OBVIOUS
<1>1. /\ calls' = [calls EXCEPT ![c] = k]
      /\ shown' = IF q = "me" /\ ~ok THEN Null ELSE IF left = {} /\ user # Null THEN user ELSE shown
  BY DEF Joined, Rest
<1>2. CallFits(old) /\ old \in CallRecords /\ old.op = "loadMe" /\ old.token # Null
  BY DEF SessionIndInv, CallsFit, CallFits
<1>3. /\ old.token \in TokenIds /\ owner[old.token] # Null /\ owner[old.token] \in Someone
      /\ user \in {Null, owner[old.token]} /\ old.got \in Someone
  BY <1>2 DEF SessionIndInv, StorageFits, CallFits, CallRecords
<1>4. CallFits(k) /\ (k = Free \/ (k.op = "loadMe" /\ k.token = old.token /\ k.left # {}))
  <2>1. CASE left = {}
    <3>1. k = Free
      BY <2>1
    <3>2. CallFits(Free)
      BY DEF CallFits, CallRecords, Free, Ops, Someone
    <3> QED BY <3>1, <3>2
  <2>2. CASE left # {}
    <3>1. k = [old EXCEPT !.left = left, !.got = user]
      BY <2>2
    <3>2. left \in SUBSET ({"me", "orders", "wallet"} \cup Ops) /\ user \in Someone
      BY <1>2, <1>3 DEF CallRecords, Someone
    <3>3. /\ k \in CallRecords /\ k.op = old.op /\ k.token = old.token /\ k.left = left
          /\ k.fresh = old.fresh /\ k.got = user
      BY <1>2, <3>1, <3>2 DEF CallRecords
    <3> QED BY <1>2, <1>3, <2>2, <3>3 DEF CallFits
  <2> QED BY <2>1, <2>2
<1>5. CASE q = "me" /\ ~ok
  BY <1>1, <1>4, <1>5
<1>6. CASE ~(q = "me" /\ ~ok) /\ left = {} /\ user # Null
  BY <1>1, <1>3, <1>4, <1>6
<1>7. CASE ~(q = "me" /\ ~ok) /\ ~(left = {} /\ user # Null)
  <2>1. shown' = shown
    BY <1>1, <1>7
  <2>2. ASSUME WillShow(old) PROVE user # Null \/ "me" \in left
    BY <1>3, <1>7, <2>2 DEF WillShow
  <2>3. ASSUME WillShow(old) PROVE WillShow(k)
    <3>1. left # {}
      BY <1>7, <2>2, <2>3
    <3>2. k.op = "loadMe" /\ k.left = left /\ k.got = user
      BY <1>2, <3>1 DEF CallRecords
    <3> QED BY <2>2, <2>3, <3>2 DEF WillShow
  <2> QED BY <1>1, <1>4, <2>1, <2>3
<1> QED BY <1>5, <1>6, <1>7

\* An answer, or none, to one request: it goes, or waits for the rest, or another login is tried.
Answered(c, q) ==
  IF calls[c].op = "loadMe"
    THEN \E ok \in BOOLEAN : Joined(c, q, ok)
    ELSE /\ \/ calls' = [calls EXCEPT ![c] = Free]
            \/ calls[c].op = "wx" /\ calls' = [calls EXCEPT ![c] = Call("dev", Null, {"dev"})]
         /\ UNCHANGED shown

\* One answer leaves requests that fit, makes none a stranger, and shows the user of its session.
LEMMA AnsweredFits ==
  ASSUME SessionIndInv, NEW c \in Calls, NEW q \in calls[c].left, Answered(c, q), UNCHANGED owner
  PROVE  /\ CallsFit' /\ shown' \in Someone
         /\ \A t : \A d \in Calls : Stranger(calls'[d], t) => Stranger(calls[d], t)
         /\ \/ calls[c].op = "loadMe" /\ shown' \in {Null, owner[calls[c].token]}
            \/ shown' = shown /\ \A d \in Calls : Settling(calls[d]) => Settling(calls'[d])
<1>1. \E k : /\ calls' = [calls EXCEPT ![c] = k] /\ CallFits(k)
             /\ \A t : Stranger(k, t) => Stranger(calls[c], t)
             /\ \/ calls[c].op = "loadMe" /\ shown' \in {Null, owner[calls[c].token]}
                \/ shown' = shown /\ (Settling(calls[c]) => Settling(k))
  <2>1. CASE calls[c].op = "loadMe"
    <3>1. PICK ok \in BOOLEAN : Joined(c, q, ok)
      BY <2>1 DEF Answered
    <3>2. PICK k : /\ calls' = [calls EXCEPT ![c] = k] /\ CallFits(k)
                   /\ k = Free \/ (k.op = "loadMe" /\ k.token = calls[c].token /\ k.left # {})
                   /\ \/ shown' \in {Null, owner[calls[c].token]}
                      \/ shown' = shown /\ (WillShow(calls[c]) => WillShow(k))
      BY <2>1, <3>1, JoinedFits
    <3>3. \A t : Stranger(k, t) => Stranger(calls[c], t)
      BY <2>1, <3>2 DEF Stranger, Free, Logins
    <3>4. Settling(calls[c]) => WillShow(calls[c])
      BY <2>1 DEF Settling, IsTimer
    <3> QED BY <2>1, <3>2, <3>3, <3>4 DEF Settling
  <2>2. CASE calls[c].op # "loadMe"
    <3>1. ~Settling(calls[c])
      BY <2>2 DEF Settling, WillShow, IsTimer
    <3>2. CASE calls' = [calls EXCEPT ![c] = Free]
      <4> PICK k : k = Free
        OBVIOUS
      <4>1. CallFits(k) /\ \A t : ~Stranger(k, t)
        BY DEF CallFits, CallRecords, Free, Ops, Someone, Stranger
      <4> QED BY <2>2, <3>1, <3>2, <4>1 DEF Answered
    <3>3. CASE calls' = [calls EXCEPT ![c] = Call("dev", Null, {"dev"})]
      <4> PICK k : k = Call("dev", Null, {"dev"})
        OBVIOUS
      <4>1. CallFits(k) /\ \A t : ~Stranger(k, t)
        BY DEF CallFits, CallRecords, Call, Ops, Logins, Someone, Stranger
      <4> QED BY <2>2, <3>1, <3>3, <4>1 DEF Answered
    <3> QED BY <2>2, <3>2, <3>3 DEF Answered
  <2> QED BY <2>1, <2>2
<1>2. PICK k : /\ calls' = [calls EXCEPT ![c] = k] /\ CallFits(k)
               /\ \A t : Stranger(k, t) => Stranger(calls[c], t)
               /\ \/ calls[c].op = "loadMe" /\ shown' \in {Null, owner[calls[c].token]}
                  \/ shown' = shown /\ (Settling(calls[c]) => Settling(k))
  BY <1>1
<1>3. CallsFit /\ CallFits(calls[c]) /\ shown \in Someone /\ owner \in [TokenIds -> Someone]
  BY DEF SessionIndInv, CallsFit, StorageFits
<1>4. CallFits(k)' /\ OwnersStay
  BY <1>2 DEF CallFits, OwnersStay
<1>5. CallsFit'
  BY <1>2, <1>3, <1>4, CallChanges
<1>6. \A d \in Calls : calls'[d] = IF d = c THEN k ELSE calls[d]
  BY <1>2, <1>3 DEF CallsFit
<1>7. shown' \in Someone
  BY <1>2, <1>3 DEF CallFits, CallRecords, Someone
<1> QED BY <1>2, <1>5, <1>6, <1>7

\* While storage keeps its session, an answer leaves no stranger and shows no other user.
LEMMA AnsweredKeeps ==
  ASSUME SessionIndInv, NEW c \in Calls, NEW q \in calls[c].left, Answered(c, q),
         UNCHANGED <<owner, straggled, stack, opening>>, storage'.token = storage.token
  PROVE  CallsFit' /\ NoStranger' /\ ShownFits' /\ shown' \in Someone
<1>1. /\ CallsFit' /\ shown' \in Someone
      /\ \A t : \A d \in Calls : Stranger(calls'[d], t) => Stranger(calls[d], t)
      /\ \/ calls[c].op = "loadMe" /\ shown' \in {Null, owner[calls[c].token]}
         \/ shown' = shown /\ \A d \in Calls : Settling(calls[d]) => Settling(calls'[d])
  BY AnsweredFits
<1>2. NoStranger /\ ShownFits
  BY DEF SessionIndInv
<1>3. NoStranger'
  BY <1>1, <1>2 DEF NoStranger
<1>4. ShownFits'
  <2>1. CASE calls[c].op = "loadMe" /\ shown' \in {Null, owner[calls[c].token]}
    <3>1. ~straggled => calls[c].token = storage.token
      BY <1>2, <2>1 DEF NoStranger, Stranger, Logins
    <3> QED BY <2>1, <3>1 DEF ShownFits
  <2>2. CASE shown' = shown /\ \A d \in Calls : Settling(calls[d]) => Settling(calls'[d])
    BY <1>2, <2>2 DEF ShownFits, Top
  <2> QED BY <1>1, <2>1, <2>2
<1> QED BY <1>1, <1>3, <1>4

\* A request is answered.
LEMMA SucceedsInv ==
  ASSUME SessionIndInv, NEW c \in Calls, NEW q, Succeeds(c, q)
  PROVE  SessionIndInv'
<1>1. /\ q \in calls[c].left /\ calls[c].fresh /\ calls[c].op \notin Logins
      /\ UNCHANGED <<owner, dead, stack, opening, redirecting, cooling, held, straggled>>
  BY DEF Succeeds, backend, pages
<1>2. Answered(c, q)
  BY DEF Succeeds, Answered
<1>3. CallFits(calls[c]) /\ NoStranger /\ StorageFits
  BY DEF SessionIndInv, CallsFit
<1>4. calls[c].token # Null /\ calls[c].token \in TokenIds
  BY <1>1, <1>3 DEF CallFits, CallRecords
<1>5. \/ UNCHANGED <<storage, store>>
      \/ /\ calls[c].op = "profile"
         /\ store' = owner[calls[c].token]
         /\ storage' = [storage EXCEPT !.user = owner[calls[c].token]]
  BY DEF Succeeds, UpdateUser, session
<1>6. storage'.token = storage.token
  BY <1>3, <1>5 DEF StorageFits
<1>7. CallsFit' /\ NoStranger' /\ ShownFits' /\ shown' \in Someone
  BY <1>1, <1>2, <1>6, AnsweredKeeps
<1>8. StorageFits'
  <2>1. owner[calls[c].token] \in Someone
    BY <1>3, <1>4 DEF StorageFits
  <2>2. storage' \in [token : TokenIds \cup {Null}, user : Someone] /\ store' \in Someone
    BY <1>3, <1>5, <2>1 DEF StorageFits
  <2> QED BY <1>1, <1>3, <1>6, <1>7, <2>2 DEF StorageFits
<1>9. SessionKept'
  BY <1>1, <1>6 DEF SessionIndInv, SessionKept
<1>10. UserMatchesToken'
  <2>1. CASE UNCHANGED <<storage, store>>
    BY <1>1, <2>1, SessionStays
  <2>2. CASE /\ calls[c].op = "profile"
             /\ storage' = [storage EXCEPT !.user = owner[calls[c].token]]
    <3>1. storage'.user = owner[calls[c].token]
      BY <1>3, <2>2 DEF StorageFits
    <3>2. ~straggled => calls[c].token = storage.token
      BY <1>1, <1>3 DEF NoStranger, Stranger
    <3> QED BY <1>1, <1>4, <1>6, <3>1, <3>2 DEF UserMatchesToken, UserOf
  <2> QED BY <1>5, <2>1, <2>2
<1>11. OpeningFits' /\ StackFits'
  BY <1>1 DEF SessionIndInv, OpeningFits, StackFits
<1> QED BY <1>7, <1>8, <1>9, <1>10, <1>11 DEF SessionIndInv

\* A request fails: the session stays.
LEMMA FailsInv ==
  ASSUME SessionIndInv, NEW c \in Calls, NEW q, Fails(c, q)
  PROVE  SessionIndInv'
<1>1. /\ q \in calls[c].left
      /\ UNCHANGED <<storage, store, owner, dead, stack, opening, redirecting, cooling, held,
                     straggled>>
  BY DEF Fails, session, backend, pages
<1>2. Answered(c, q)
  BY DEF Fails, Answered
<1>3. CallsFit' /\ NoStranger' /\ ShownFits' /\ shown' \in Someone
  BY <1>1, <1>2, AnsweredKeeps
<1>4. SessionKept' /\ UserMatchesToken'
  BY <1>1, SessionStays
<1>5. StorageFits' /\ OpeningFits' /\ StackFits'
  BY <1>1, <1>3 DEF SessionIndInv, StorageFits, OpeningFits, StackFits
<1> QED BY <1>3, <1>4, <1>5 DEF SessionIndInv

\* A refusal jumps to the login page at most once more, the join's own jump aside.
LEMMA RefusedAsks ==
  ASSUME SessionIndInv, NEW c \in Calls, NEW q, Refused(c, q)
  PROVE  OpeningFits'
<1> PICK o, flag, timer, r, j :
      /\ o = opening /\ flag = redirecting /\ timer = cooling
      /\ r = Nav(LoginPage, "redirect") /\ j = Nav(LoginPage, "join")
  OBVIOUS
<1>1. OpeningStands(o, flag, timer) /\ flag \in BOOLEAN /\ UNCHANGED cooling /\ o \in Seq(Navs)
  BY DEF SessionIndInv, OpeningFits, OpeningStands, Refused
<1>2. /\ r \in Navs /\ r.how = "redirect" /\ j \in Navs /\ j.how = "join"
  BY DEF Nav, Navs, LoginPage
<1>3. CASE UNCHANGED <<opening, redirecting>>
  BY <1>1, <1>3 DEF OpeningFits
<1>4. CASE ~flag /\ opening' = Append(o, r) /\ redirecting' = TRUE /\ Len(o) < MaxOpening
  <2>1. OpeningStands(Append(o, r), TRUE, timer)
    BY <1>1, <1>2, <1>4, AskStands
  <2> QED BY <1>1, <1>4, <2>1 DEF OpeningFits
<1>5. CASE opening' = Append(o, j) /\ redirecting' = flag /\ Len(o) < MaxOpening
  <2>1. OpeningStands(Append(o, j), flag, timer)
    BY <1>1, <1>2, <1>5, AskStands
  <2> QED BY <1>1, <1>5, <2>1 DEF OpeningFits
<1>6. CASE /\ ~flag /\ opening' = Append(Append(o, r), j) /\ redirecting' = TRUE
           /\ Len(o) + 2 <= MaxOpening
  <2> PICK p : p = Append(o, r)
    OBVIOUS
  <2>1. Len(o) < MaxOpening /\ Len(p) < MaxOpening
    BY <1>1, <1>2, <1>6, SessionAssumption
  <2>2. OpeningStands(p, TRUE, timer)
    <3>1. ~flag
      BY <1>6
    <3> QED BY <1>1, <1>2, <2>1, <3>1, AskStands
  <2>3. OpeningStands(Append(p, j), TRUE, timer)
    BY <1>2, <1>6, <2>1, <2>2, AskStands
  <2> QED BY <1>1, <1>6, <2>3 DEF OpeningFits
<1>7. CASE calls[c].op = "join"
  <2>1. CASE ~redirecting /\ Top # LoginPage
    <3>1. /\ Len(o) + Len(<<r>> \o <<j>>) <= MaxOpening
          /\ opening' = o \o (<<r>> \o <<j>>) /\ redirecting' = (redirecting \/ TRUE)
      BY <1>7, <2>1 DEF Refused
    <3>2. <<r>> \in Seq(Navs) /\ <<j>> \in Seq(Navs) /\ Append(o, r) \in Seq(Navs)
      BY <1>1, <1>2
    <3>3. o \o (<<r>> \o <<j>>) = (o \o <<r>>) \o <<j>> /\ Len(<<r>> \o <<j>>) = 2
      BY <1>1, <3>2, ConcatAssociative, ConcatProperties
    <3>4. opening' = Append(Append(o, r), j)
      BY <1>1, <1>2, <3>1, <3>2, <3>3, AppendIsConcat
    <3>5. Len(o) + 2 <= MaxOpening
      BY <3>1, <3>3
    <3> QED BY <1>1, <1>6, <2>1, <3>1, <3>4, <3>5
  <2>2. CASE ~(~redirecting /\ Top # LoginPage)
    <3>1. /\ Len(o) + Len(<<>> \o <<j>>) <= MaxOpening
          /\ opening' = o \o (<<>> \o <<j>>) /\ redirecting' = (redirecting \/ FALSE)
      BY <1>7, <2>2 DEF Refused
    <3>2. <<>> \o <<j>> = <<j>> /\ Len(<<j>>) = 1
      BY <1>2, ConcatEmptySeq
    <3>3. o \o <<j>> = Append(o, j)
      BY <1>1, <1>2, AppendIsConcat
    <3>4. Len(o) + 1 <= MaxOpening /\ Len(o) \in Nat /\ MaxOpening \in Nat
      BY <1>1, <3>1, <3>2, SessionAssumption
    <3>5. Len(o) < MaxOpening
      BY <3>4
    <3>6. redirecting' = flag
      BY <1>1, <3>1
    <3> QED BY <1>5, <3>1, <3>2, <3>3, <3>5, <3>6
  <2> QED BY <2>1, <2>2
<1>8. CASE calls[c].op = "upload"
  BY <1>3, <1>8 DEF Refused
<1>9. CASE calls[c].op \notin {"join", "upload"}
  <2>1. Redirect
    BY <1>9 DEF Refused
  <2> QED BY <1>3, <1>4, <2>1 DEF Redirect, Ask
<1> QED BY <1>7, <1>8, <1>9

\* A refusal clears the session that the request carried, unless something straggled.
LEMMA RefusedInv ==
  ASSUME SessionIndInv, NEW c \in Calls, NEW q, Refused(c, q)
  PROVE  SessionIndInv'
<1>1. /\ q \in calls[c].left /\ Refusable(calls[c])
      /\ UNCHANGED <<store, owner, dead, stack, cooling>>
      /\ storage' = NoSession
      /\ straggled' = \E d \in Calls : Stranger(calls'[d], NoSession.token)
      /\ held' = IF calls[c].token = held \/ straggled THEN Null ELSE held
  BY DEF Refused, Becomes, backend
<1>2. storage'.token = Null /\ storage'.user = Null /\ NoSession.token = Null
  BY <1>1 DEF NoSession
<1>3. Answered(c, q)
  BY DEF Refused, Answered
<1>4. CallsFit' /\ shown' \in Someone
  BY <1>1, <1>3, AnsweredFits
<1>5. NoStranger'
  BY <1>1, <1>2 DEF NoStranger
<1>6. SessionKept'
  <2>1. ~straggled => Refusable(calls[c]) /\ ~Stranger(calls[c], storage.token)
    BY <1>1 DEF SessionIndInv, NoStranger
  <2>2. ~straggled => calls[c].token = storage.token
    BY <1>1, <2>1 DEF Stranger, Refusable, Logins
  <2>3. held' = Null
    BY <1>1, <2>2 DEF SessionIndInv, SessionKept
  <2> QED BY <2>3 DEF SessionKept
<1>7. UserMatchesToken' /\ ShownFits'
  BY <1>2 DEF UserMatchesToken, UserOf, ShownFits
<1>8. StorageFits'
  <2>1. storage' \in [token : TokenIds \cup {Null}, user : Someone]
    BY <1>1 DEF NoSession, Someone
  <2> QED BY <1>1, <1>2, <1>4, <2>1 DEF SessionIndInv, StorageFits
<1>9. OpeningFits' /\ StackFits'
  BY <1>1, RefusedAsks DEF SessionIndInv, StackFits
<1> QED BY <1>4, <1>5, <1>6, <1>7, <1>8, <1>9 DEF SessionIndInv

\* Every step of the session keeps the invariant.
LEMMA SessionStepInv == SessionIndInv /\ [SessionNext]_sessionVars => SessionIndInv'
<1> SUFFICES ASSUME SessionIndInv, [SessionNext]_sessionVars PROVE SessionIndInv'
  OBVIOUS
<1>1. CASE Tap \/ GoPig
  BY <1>1, TapInv
<1>2. CASE OnLogout
  BY <1>2, OnLogoutInv
<1>3. CASE Opens
  BY <1>3, OpenInv DEF Opens
<1>4. CASE Cool
  BY <1>4, CoolInv
<1>5. CASE GoesOn
  <2>1. PICK c \in Calls : SessionGoesOn(c)
    BY <1>5 DEF GoesOn
  <2>2. CASE Answers(c)
    BY <2>2, SucceedsInv, FailsInv, RefusedInv DEF Answers
  <2>3. CASE \E u \in People : LoggedIn(c, u)
    BY <2>3, LoggedInInv
  <2>4. CASE FireTimer(c)
    BY <2>4, FireTimerInv
  <2> QED BY <2>1, <2>2, <2>3, <2>4 DEF SessionGoesOn
<1>6. CASE Expire
  BY <1>6, ExpireInv
<1>7. CASE \E c \in Calls : \/ OnJoin(c) \/ ApplyAgain(c) \/ UploadAvatar(c)
                            \/ OnWxLogin(c) \/ OnDevLogin(c) \/ OnAdminSubmit(c)
  BY <1>7, StartsInv
<1>8. CASE UNCHANGED sessionVars
  <2>1. UNCHANGED <<storage, store, owner, dead, stack, opening, redirecting, cooling, calls,
                    shown, held, straggled>>
    BY <1>8 DEF sessionVars, session, backend, pages
  <2>2. ShownFits' /\ SessionKept' /\ UserMatchesToken'
    BY <2>1, ShownStays, SessionStays DEF Top
  <2>3. StorageFits' /\ OpeningFits' /\ CallsFit' /\ StackFits' /\ NoStranger'
    BY <2>1 DEF SessionIndInv, StorageFits, OpeningFits, CallsFit, CallFits, StackFits, NoStranger
  <2> QED BY <2>2, <2>3 DEF SessionIndInv
<1> QED BY <1>1, <1>2, <1>3, <1>4, <1>5, <1>6, <1>7, <1>8 DEF SessionNext

\* For any users, requests, sessions and depth of the stack: request asks for one jump to the login
\* page at a time (the jump that landing adds to a refused join is not counted), and, as long as no request with another session straggled, a session lasts until
\* it is logged out or refused, and storage and my page are about its user (request.ts,
\* stores/auth.ts, my/index.vue).
THEOREM SessionIsKept == SessionSpec => []SessionInv
<1>1. SessionInit => SessionIndInv
  BY SessionInitInv
<1>2. SessionIndInv /\ [SessionNext]_sessionVars => SessionIndInv'
  BY SessionStepInv
<1>3. SessionIndInv => SessionInv
  BY SessionIndInvImplies
<1> QED BY <1>1, <1>2, <1>3, PTL DEF SessionSpec

\* What a refusal does: it clears the session in storage only if that is the one it refuses.
RefusesItsOwn ==
  \A c \in Calls : \A q \in calls[c].left :
    Refused(c, q) /\ ~straggled => calls[c].token = storage.token

\* For any users and requests: as long as no request with another session straggled, a 401 for one
\* session never clears another, in whatever order the answers arrive (request.ts:126).
THEOREM RefusalClearsItsOwn == SessionSpec => [][RefusesItsOwn]_sessionVars
<1>1. SessionInit => SessionIndInv
  BY SessionInitInv
<1>2. SessionIndInv /\ [SessionNext]_sessionVars => SessionIndInv'
  BY SessionStepInv
<1>3. SessionIndInv /\ [SessionNext]_sessionVars => [RefusesItsOwn]_sessionVars
  <2> SUFFICES ASSUME SessionIndInv, NEW c \in Calls, NEW q \in calls[c].left,
                      Refused(c, q), ~straggled
               PROVE  calls[c].token = storage.token
    BY DEF RefusesItsOwn
  <2>1. Refusable(calls[c]) /\ ~Stranger(calls[c], storage.token)
    BY DEF SessionIndInv, NoStranger, Refused
  <2> QED BY <2>1 DEF Stranger, Refusable, Logins
<1> QED BY <1>1, <1>2, <1>3, PTL DEF SessionSpec

=============================================================================
