----------------------------- MODULE AuthTokens -----------------------------
(***************************************************************************)
(* Sessions: backend/src/modules/auth/auth.service.ts, jwt.strategy.ts and *)
(* the user rows of backend/src/modules/user/user.service.ts.              *)
(*                                                                         *)
(* A login finds or creates the row of an openid and signs two tokens, a   *)
(* refresh exchanges a refresh token for two new ones, and a logout puts   *)
(* tokens on a list in Redis whose keys expire when the tokens do.  Two    *)
(* tokens of one kind signed for one user in one second are the same text, *)
(* so a token is its kind, its user and its second (the role it also names *)
(* is read by nobody, and is left out).                                    *)
(***************************************************************************)
EXTENDS Integers, FiniteSets

CONSTANTS
  Users, Admin,     \* openids, and the one of the administrator
  Life,             \* accessExpiresIn and refreshExpiresIn, in seconds
  Handlers,         \* handlers that may run at the same time
  MaxTime,          \* bound: the clock stops here
  MaxPairs,         \* bound: pairs of tokens signed
  None              \* "no user", "no token"

Kinds == {"access", "refresh"}
Tokens == [kind : Kinds, sub : Users, iat : 0..MaxTime]
Exp(t) == t.iat + Life[t.kind]

ASSUME AuthAssumption ==
  /\ Admin \in Users
  /\ Life \in [Kinds -> Nat \ {0}]
  /\ MaxTime \in Nat /\ MaxPairs \in Nat
  /\ None \notin Users \cup Tokens

VARIABLES
  now,       \* the second on the clock
  role,      \* of each user row, "none" where there is no row
  issued,    \* tokens signed
  key,       \* Redis: when the key of a revoked token expires, 0 where none was set
  job,       \* per handler: where it is and what it holds
  ended,     \* history: tokens of logouts that were answered
  promoted,  \* history: an administrator has signed in
  stale      \* history: his row was corrected while a handler held it as it was

history == <<ended, promoted, stale>>
vars == <<now, role, issued, key, job, history>>

Roles == {"none", "user", "admin"}

\* A handler: the user and the role of a login; the token a request came with, late if an
\* answered logout had named it before, and what the request goes on to do; a second
\* token to log out, and the ttl about to be set; the role of a profile about to be saved.
Jobs == [
  pc    : {"idle", "create", "correct", "sign", "verify", "list", "aim", "set",
           "aimOther", "setOther", "load", "save"},
  goal  : {"aim", "load"},
  sub   : Users \cup {None},
  as    : {"user", "admin"},
  token : Tokens \cup {None},
  other : Tokens \cup {None},
  ttl   : Nat \ {0},
  seen  : Roles,
  late  : BOOLEAN]

Idle == [pc |-> "idle", goal |-> "aim", sub |-> None, as |-> "user", token |-> None,
         other |-> None, ttl |-> 1, seen |-> "none", late |-> FALSE]

Init ==
  /\ now = 0
  /\ role = [u \in Users |-> "none"]
  /\ issued = {}
  /\ key = [t \in Tokens |-> 0]
  /\ job = [r \in Handlers |-> Idle]
  /\ ended = {} /\ promoted = FALSE /\ stale = FALSE

At(r, l) == job[r].pc = l
End(r) == job' = [job EXCEPT ![r] = Idle]
Revoked(t) == now < key[t]

Tick ==
  /\ now < MaxTime
  /\ now' = now + 1
  /\ UNCHANGED <<role, issued, key, job, history>>

(***************************************************************************)
(* wxLogin, devLogin and adminLogin: find, create or correct, and sign.    *)
(***************************************************************************)
Find(r, u, as, next) ==
  /\ At(r, "idle")
  /\ job' = [job EXCEPT ![r] = [Idle EXCEPT !.pc = next, !.sub = u, !.as = as]]
  /\ UNCHANGED <<now, role, issued, key, history>>

Login(r, u) == Find(r, u, "user", IF role[u] = "none" THEN "create" ELSE "sign")

AdminLoginUncorrected(r) ==                                    \* mutant
  Find(r, Admin, "admin", IF role[Admin] = "none" THEN "create" ELSE "sign")
AdminLogin(r) ==
  Find(r, Admin, "admin",
       CASE role[Admin] = "none"  -> "create"
         [] role[Admin] = "user"  -> "correct"
         [] role[Admin] = "admin" -> "sign")

\* The unique index on openid refuses a second row.
Create(r) ==
  LET u == job[r].sub IN
  /\ At(r, "create")
  /\ IF role[u] = "none"
       THEN /\ role' = [role EXCEPT ![u] = job[r].as]
            /\ job' = [job EXCEPT ![r].pc = "sign"]
       ELSE End(r) /\ UNCHANGED role
  /\ UNCHANGED <<now, issued, key, history>>

Correct(r) ==
  /\ At(r, "correct")
  /\ role' = [role EXCEPT ![job[r].sub] = "admin"]
  /\ job' = [job EXCEPT ![r].pc = "sign"]
  /\ stale' = (stale \/ \E q \in Handlers : At(q, "save") /\ job[q].sub = job[r].sub
                                              /\ job[q].seen # "admin")
  /\ UNCHANGED <<now, issued, key, ended, promoted>>

Sign(r) ==
  LET pair == {[kind |-> k, sub |-> job[r].sub, iat |-> now] : k \in Kinds} IN
  /\ At(r, "sign")
  /\ issued' = issued \cup pair
  /\ Cardinality(issued') <= 2 * MaxPairs
  /\ promoted' = (promoted \/ job[r].as = "admin")
  /\ End(r)
  /\ UNCHANGED <<now, role, key, ended, stale>>

(***************************************************************************)
(* refresh: the list first, then, after an await, the expiry and the type. *)
(***************************************************************************)
RefreshCheck(r, t) ==
  /\ At(r, "idle") /\ t \in issued
  /\ ~Revoked(t)
  /\ job' = [job EXCEPT ![r] = [Idle EXCEPT !.pc = "verify", !.token = t,
                                            !.late = t \in ended]]
  /\ UNCHANGED <<now, role, issued, key, history>>

RefreshVerify(r) ==
  LET t == job[r].token IN
  /\ At(r, "verify")
  /\ IF now < Exp(t) /\ t.kind = "refresh"
       THEN job' = [job EXCEPT ![r].pc = "sign", ![r].sub = t.sub]
       ELSE End(r)
  /\ UNCHANGED <<now, role, issued, key, history>>

(***************************************************************************)
(* JwtStrategy, before every other handler: the expiry first, then, after  *)
(* an await, the list.  The row it then looks up always exists.            *)
(***************************************************************************)
Arrive(r, t, goal, x) ==
  /\ At(r, "idle") /\ t \in issued
  /\ now < Exp(t)
  /\ job' = [job EXCEPT ![r] = [Idle EXCEPT !.pc = "list", !.goal = goal, !.token = t,
                                            !.other = x, !.late = t \in ended]]
  /\ UNCHANGED <<now, role, issued, key, history>>

Validate(r) ==
  /\ At(r, "list")
  /\ IF Revoked(job[r].token) THEN End(r)
     ELSE job' = [job EXCEPT ![r].pc = job[r].goal]
  /\ UNCHANGED <<now, role, issued, key, history>>

(***************************************************************************)
(* logout: revokes the access token it came with, then the refresh token   *)
(* it was given, if any (a text that is no token of ours changes nothing). *)
(***************************************************************************)
Logout(r, t, x) ==
  /\ x \in issued \cup {None}
  /\ Arrive(r, t, "aim", x)

\* tokenTtlSeconds
LeftOfAccess(t) ==                                             \* mutant
  LET n == t.iat + Life["access"] - now IN IF n > 1 THEN n ELSE 1
Left(t) == IF Exp(t) - now > 1 THEN Exp(t) - now ELSE 1

\* revokeToken: the ttl is computed, and the key is set when Redis gets to it.
Aim(r, from, t, to) ==
  /\ At(r, from)
  /\ job' = [job EXCEPT ![r].pc = to, ![r].ttl = Left(t)]
  /\ UNCHANGED <<now, role, issued, key, history>>

AimToken(r) == Aim(r, "aim", job[r].token, "set")
AimOther(r) == Aim(r, "aimOther", job[r].other, "setOther")

Answer(r) ==
  /\ ended' = ended \cup ({job[r].token, job[r].other} \ {None})
  /\ End(r)

SetToken(r) ==
  /\ At(r, "set")
  /\ key' = [key EXCEPT ![job[r].token] = now + job[r].ttl]
  /\ IF job[r].other = None THEN Answer(r)
     ELSE job' = [job EXCEPT ![r].pc = "aimOther"] /\ UNCHANGED ended
  /\ UNCHANGED <<now, role, issued, promoted, stale>>

SetOther(r) ==
  /\ At(r, "setOther")
  /\ key' = [key EXCEPT ![job[r].other] = now + job[r].ttl]
  /\ Answer(r)
  /\ UNCHANGED <<now, role, issued, promoted, stale>>

(***************************************************************************)
(* updateProfile: loads the user and saves it, its role included if that   *)
(* has changed.                                                            *)
(***************************************************************************)
UpdateMe(r, t) == Arrive(r, t, "load", None)

Load(r) ==
  LET u == job[r].token.sub IN
  /\ At(r, "load")
  /\ job' = [job EXCEPT ![r].pc = "save", ![r].sub = u, ![r].seen = role[u]]
  /\ UNCHANGED <<now, role, issued, key, history>>

Save(r) ==
  /\ At(r, "save")
  /\ role' = [role EXCEPT ![job[r].sub] = job[r].seen]
  /\ End(r)
  /\ UNCHANGED <<now, issued, key, history>>

\* A database or Redis call fails, or the process exits.
Fail(r) ==
  /\ ~At(r, "idle")
  /\ End(r)
  /\ UNCHANGED <<now, role, issued, key, history>>

Next ==
  \/ Tick
  \/ \E r \in Handlers :
       \/ \E u \in Users : Login(r, u)
       \/ AdminLogin(r) \/ Create(r) \/ Correct(r) \/ Sign(r)
       \/ \E t \in Tokens : RefreshCheck(r, t) \/ UpdateMe(r, t)
       \/ \E t \in Tokens, x \in Tokens \cup {None} : Logout(r, t, x)
       \/ RefreshVerify(r) \/ Validate(r)
       \/ AimToken(r) \/ SetToken(r) \/ AimOther(r) \/ SetOther(r)
       \/ Load(r) \/ Save(r)
       \/ Fail(r)

Spec == Init /\ [][Next]_vars

(***************************************************************************)
(* Properties.                                                             *)
(***************************************************************************)

\* Every handler holds what its place needs; a key is set for at least a second, as Redis
\* demands.
TypeOK ==
  /\ now \in 0..MaxTime
  /\ role \in [Users -> Roles]
  /\ issued \subseteq Tokens
  /\ key \in [Tokens -> Nat]
  /\ job \in [Handlers -> Jobs]
  /\ \A r \in Handlers :
       /\ job[r].pc \in {"create", "correct", "sign", "save"} => job[r].sub \in Users
       /\ job[r].pc \in {"verify", "list", "aim", "set", "aimOther", "setOther",
                         "load", "save"} => job[r].token \in Tokens
       /\ job[r].pc \in {"aimOther", "setOther"} => job[r].other \in Tokens
  /\ ended \subseteq Tokens
  /\ promoted \in BOOLEAN /\ stale \in BOOLEAN

\* A request that comes with a token after a logout of that token was answered gets past
\* the checks only if the token expires between the two of them, and a refresh, which
\* looks at the list first, not even then: it never comes to sign.
LoggedOutStaysOut ==
  \A r \in Handlers : job[r].late =>
    \/ job[r].pc \in {"verify", "list"}
    \/ job[r].pc # "sign" /\ now >= Exp(job[r].token)

\* From the first sign-in of the administrator on, his row has the role ADMIN, whoever
\* made the row before; only a profile loaded before the correction and saved after it
\* takes the role back.
AdminStaysAdmin == promoted /\ ~stale => role[Admin] = "admin"
=============================================================================
