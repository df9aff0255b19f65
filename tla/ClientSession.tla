---------------------------- MODULE ClientSession ----------------------------
(***************************************************************************)
(* The buyer's session in the mini program: frontend/src/utils/request.ts, *)
(* stores/auth.ts and the pages that set it, clear it or show it.          *)
(*                                                                         *)
(* Several requests are in flight at once.  Each carries the token that    *)
(* storage held when it was sent; a refusal (HTTP 401) clears whatever     *)
(* storage holds when the answer arrives, and asks for the login page.     *)
(* Navigation and timers are queued by the platform and run later.         *)
(***************************************************************************)
EXTENDS Naturals, Sequences

CONSTANTS
  People,
  Admins,     \* the users whose role is admin
  Calls,      \* bound: requests and timers pending at once
  MaxLogins,  \* bound: sessions that the backend hands out
  MaxPages,   \* pages that the platform stacks: a navigateTo beyond them fails
  Sides,      \* bound: the requests of my page beside "me" that the model follows
  MaxOpening, \* bound: navigations that are asked for and not yet done
  Null

ASSUME SessionAssumption ==
  /\ Admins \subseteq People /\ Sides \subseteq {"orders", "wallet"}
  /\ MaxLogins \in Nat /\ MaxPages \in Nat \ {0} /\ MaxOpening \in Nat
  /\ Null \notin People /\ Null \notin 1..MaxLogins

VARIABLES
  storage,      \* pig:access_token and pig:user (its role and refresh token go with them)
  store,        \* the pinia store's user, which outlives clearToken
  owner,        \* backend: the user of each session handed out
  dead,         \* backend: sessions that expired or were revoked
  stack,        \* getCurrentPages, the last one on top
  opening,      \* navigations asked for
  redirecting,  \* redirectingToLogin
  cooling,      \* the timer that resets it is set
  calls,        \* requests and timers pending
  shown,        \* pages/my/index: its user
  held,         \* history: the session of the last login, until a logout or its refusal
  straggled     \* history: when storage's session last changed, or since, a request was in
                \* flight that carried another one

session == <<storage, store>>
pages == <<stack, opening, redirecting, cooling>>
backend == <<owner, dead>>
sessionVars == <<session, backend, pages, calls, shown, held, straggled>>

TokenIds == 1..MaxLogins
NoSession == [token |-> Null, user |-> Null]
UserOf(t) == IF t = Null THEN Null ELSE owner[t]

(***************************************************************************)
(* Requests and timers.  left: its answers still to come.  got: what it    *)
(* has so far.                                                             *)
(***************************************************************************)
Free == [op |-> "free", token |-> Null, left |-> {}, fresh |-> FALSE, got |-> Null]
Call(op, t, left) ==
  [op |-> op, token |-> t, left |-> left, fresh |-> t # Null /\ t \notin dead, got |-> Null]
Timer(op) == [Free EXCEPT !.op = op]

Logins == {"wx", "dev", "admin"}
IsNext(c) == c = CHOOSE d \in Calls : calls[d] = Free
InFlight(c) == calls[c].left # {}
\* A request that can still clear, or overwrite, a session that it did not carry.
Stranger(k, t) == k.left # {} /\ (IF k.op \in Logins THEN k.op = "admin" ELSE k.token # t)

\* request: the token is read when the call is made.
Spare(c) == \E d \in Calls \ {c} : calls[d] = Free   \* bound: one slot is left to pages
Send(c, op, left) ==
  /\ calls[c] = Free /\ IsNext(c)
  /\ calls' = [calls EXCEPT ![c] = Call(op, storage.token, left)]
\* Logins are sent without a token (auth: false).
SendLogin(c, op) ==
  /\ calls[c] = Free /\ IsNext(c) /\ Spare(c)
  /\ calls' = [calls EXCEPT ![c] = Call(op, Null, {op})]

\* Storage's session becomes s while calls become calls'.
Becomes(s) ==
  /\ storage' = s
  /\ straggled' = \E c \in Calls : Stranger(calls'[c], s.token)

(***************************************************************************)
(* Pages.                                                                  *)
(***************************************************************************)
Top == stack[Len(stack)]
LoginPage == "login"   \* the routes that include 'pages/login'
Nav(p, h) == [page |-> p, how |-> h]
Ask(n) == Len(opening) < MaxOpening /\ opening' = Append(opening, n)

\* pages/my/index loadMe, at every onShow; old: what the page shows until then.
LoadMe(c, old) ==
  IF storage.token = Null
    THEN shown' = Null /\ UNCHANGED calls
    ELSE Send(c, "loadMe", {"me"} \cup Sides) /\ shown' = old

\* What a page does when it comes on top.
OnTop(p, c) ==
  \/ p = "my" /\ LoadMe(c, Null)
  \/ p = "profile" /\ Send(c, p, {p}) /\ UNCHANGED shown
  \/ p \notin {"my", "profile"} /\ UNCHANGED <<calls, shown>>

\* The platform carries out the next navigation: reLaunch drops the pages that are there,
\* navigateBack the one on top, and navigateTo fails when the stack is full.
Opened(n) ==
  CASE n.how = "launch" -> <<n.page>>
    [] n.how = "back" -> IF Len(stack) > 1 THEN SubSeq(stack, 1, Len(stack) - 1) ELSE stack
    [] OTHER -> IF Len(stack) < MaxPages THEN Append(stack, n.page) ELSE stack

\* complete runs whether it worked or not.
CompletesOnSuccess(n) ==                                       \* mutant
  n.how = "redirect" /\ Opened(n) # stack
Completes(n) == n.how = "redirect"

Open(c) ==
  /\ opening # <<>>
  /\ opening' = Tail(opening)
  /\ LET n == Head(opening)
         new == Opened(n)
         top == new[Len(new)]
     IN /\ stack' = new
        /\ cooling' = (cooling \/ Completes(n))
        /\ IF new = stack \/ (n.how = "back" /\ top # "my")
             THEN UNCHANGED <<calls, shown>>
             ELSE IF n.how = "back" THEN LoadMe(c, shown) ELSE OnTop(top, c)
  /\ UNCHANGED <<session, backend, redirecting, held, straggled>>

\* setTimeout(..., 500).
Cool ==
  /\ cooling
  /\ cooling' = FALSE /\ redirecting' = FALSE
  /\ UNCHANGED <<session, backend, stack, opening, calls, shown, held, straggled>>

(***************************************************************************)
(* Where each page's taps lead.                                            *)
(***************************************************************************)
MyLinks == IF shown = Null THEN {"login"} ELSE {"profile"}
LoginLinks == {"admin"}
HomeLinks == {"my"}
Tap ==
  /\ \/ \E p \in (CASE Top = "home" -> HomeLinks [] Top = "my" -> MyLinks
                    [] Top = "login" -> LoginLinks [] OTHER -> {}) : Ask(Nav(p, "tap"))
     \/ Len(stack) > 1 /\ Ask(Nav("back", "back"))
  /\ opening = <<>>   \* bound: the user's navigations do not queue
  /\ UNCHANGED <<session, backend, stack, redirecting, cooling, calls, shown, held, straggled>>

\* share/landing goPig.
GoPig ==
  /\ Top = "landing" /\ opening = <<>>
  /\ Ask(Nav("home", "launch"))
  /\ UNCHANGED <<session, backend, stack, redirecting, cooling, calls, shown, held, straggled>>

\* my/index onLogout, confirmed.
OnLogout ==
  /\ Top = "my" /\ shown # Null
  /\ UNCHANGED calls
  /\ Becomes(NoSession)
  /\ shown' = Null
  /\ held' = Null
  /\ UNCHANGED <<store, backend, pages>>

Starts(c, p, op) ==
  /\ Top = p /\ Spare(c)
  /\ Send(c, op, {op})
  /\ UNCHANGED <<session, backend, pages, shown, held, straggled>>
OnJoin(c) == Starts(c, "landing", "join")
\* profile onSave and onGetPhoneNumber: applyUser gets what its load gets.
ApplyAgain(c) == Starts(c, "profile", "profile")
UploadAvatar(c) == Starts(c, "profile", "upload")

\* login onWxLogin waits for the one before; onDevLogin and admin onSubmit do not.
OnWxLogin(c) ==
  /\ Top = "login" /\ \A d \in Calls : calls[d].op # "wx"
  /\ SendLogin(c, "wx")
  /\ UNCHANGED <<session, backend, pages, shown, held, straggled>>
OnDevLogin(c) ==
  /\ Top = "login"
  /\ SendLogin(c, "dev")
  /\ UNCHANGED <<session, backend, pages, shown, held, straggled>>
OnAdminSubmit(c) ==
  /\ Top = "admin"
  /\ SendLogin(c, "admin")
  /\ straggled' = TRUE
  /\ UNCHANGED <<session, backend, pages, shown, held>>

(***************************************************************************)
(* Answers.                                                                *)
(***************************************************************************)
\* setSession.
SetSession(t, u) ==
  /\ Becomes([token |-> t, user |-> u])
  /\ store' = u
  /\ held' = t

\* goAfterLogin: to the profile if name or picture is missing.
AfterLogin == {Nav(p, "launch") : p \in {"home", "profile"}}

\* A login is answered with the next session.
LoggedIn(c, u) ==
  LET op == calls[c].op
      t == CHOOSE n \in TokenIds : owner[n] = Null /\ \A m \in 1..(n-1) : owner[m] # Null
  IN /\ op \in Logins /\ InFlight(c)
     /\ \E n \in TokenIds : owner[n] = Null
     /\ owner' = [owner EXCEPT ![t] = u]
     /\ IF op = "admin" /\ u \notin Admins
          THEN /\ calls' = [calls EXCEPT ![c] = Free]
               /\ UNCHANGED <<session, opening, held, straggled>>
          ELSE /\ calls' = [calls EXCEPT ![c] = IF op = "wx" THEN Free ELSE Timer(op)]
               /\ SetSession(t, u)
               /\ IF op = "wx"
                    THEN \E n \in AfterLogin : Ask(n)
                    ELSE UNCHANGED opening
     /\ UNCHANGED <<dead, stack, redirecting, cooling, shown>>

\* setTimeout(..., 600): the same, or the admin's pages.
After(op) ==
  CASE op = "dev" -> AfterLogin
    [] op = "admin" -> {Nav("foster", "launch")}
FireTimer(c) ==
  /\ calls[c].op # "free" /\ ~InFlight(c)
  /\ \E n \in After(calls[c].op) : Ask(n)
  /\ calls' = [calls EXCEPT ![c] = Free]
  /\ UNCHANGED <<session, backend, stack, redirecting, cooling, shown, held, straggled>>

\* Part q of what c asked for is answered with g; loadMe joins its three requests, and the
\* failure of one is caught, but not that of "me".
Rest(c, q, g) ==
  LET left == calls[c].left \ {q}
  IN IF left = {} THEN Free ELSE [calls[c] EXCEPT !.left = left, !.got = g]
Joined(c, q, ok) ==
  LET left == calls[c].left \ {q}
      user == IF q = "me" /\ ok THEN owner[calls[c].token] ELSE calls[c].got
  IN /\ calls' = [calls EXCEPT ![c] = Rest(c, q, user)]
     /\ shown' = IF q = "me" /\ ~ok THEN Null
                 ELSE IF left = {} /\ user # Null THEN user ELSE shown

\* updateUser, from applyUser: nothing if the store has no user.
UpdateUser(u) ==
  IF store = Null
    THEN UNCHANGED session
    ELSE store' = u /\ storage' = [storage EXCEPT !.user = u]

Succeeds(c, q) ==
  LET k == calls[c] IN
  /\ q \in k.left /\ k.fresh /\ k.op \notin Logins
  /\ IF k.op = "loadMe"
       THEN Joined(c, q, TRUE) /\ UNCHANGED session
       ELSE /\ calls' = [calls EXCEPT ![c] = Free]
            /\ IF k.op = "profile"
                 THEN UpdateUser(owner[k.token]) ELSE UNCHANGED session
            /\ UNCHANGED shown
  /\ UNCHANGED <<backend, pages, held, straggled>>

\* No answer within 10 seconds, or an error that is not a 401.  A failed wx login tries the
\* dev login in its place.
FailsAndClears(c, q) ==                                        \* mutant
  /\ q \in calls[c].left /\ calls[c].op \notin Logins
  /\ IF calls[c].op = "loadMe"
       THEN Joined(c, q, FALSE)
       ELSE calls' = [calls EXCEPT ![c] = Free] /\ UNCHANGED shown
  /\ Becomes(NoSession)
  /\ UNCHANGED <<store, backend, pages, held>>
Fails(c, q) ==
  /\ q \in calls[c].left
  /\ IF calls[c].op = "loadMe"
       THEN Joined(c, q, FALSE)
       ELSE /\ \/ calls' = [calls EXCEPT ![c] = Free]
               \/ calls[c].op = "wx" /\ calls' = [calls EXCEPT ![c] = Call("dev", Null, {"dev"})]
            /\ UNCHANGED shown
  /\ UNCHANGED <<session, backend, pages, held, straggled>>

\* request's jump to the login page: one at a time, and none from the login page.
Redirect ==
  IF redirecting \/ Top = LoginPage
    THEN UNCHANGED <<opening, redirecting>>
    ELSE /\ Ask(Nav(LoginPage, "redirect"))
         /\ redirecting' = TRUE

Refusable(k) ==
  k.op = "admin" \/ (k.op \notin Logins /\ (k.token = Null \/ k.token \in dead))

\* A 401: clearToken, then the jump.  The upload does not jump; landing's join jumps itself,
\* after request's and whatever that did.
Refused(c, q) ==
  LET k == calls[c] IN
  /\ q \in k.left /\ Refusable(k)
  /\ IF k.op = "loadMe"
       THEN Joined(c, q, FALSE)
       ELSE calls' = [calls EXCEPT ![c] = Free] /\ UNCHANGED shown
  /\ Becomes(NoSession)
  /\ held' = IF k.token = held \/ straggled THEN Null ELSE held
  /\ CASE k.op = "upload" -> UNCHANGED <<opening, redirecting>>
       [] k.op = "join" ->
            LET jumps == ~redirecting /\ Top # LoginPage
                navs == (IF jumps THEN <<Nav(LoginPage, "redirect")>> ELSE <<>>) \o <<Nav(LoginPage, "join")>>
            IN /\ Len(opening) + Len(navs) <= MaxOpening
               /\ opening' = opening \o navs
               /\ redirecting' = (redirecting \/ jumps)
       [] OTHER -> Redirect
  /\ UNCHANGED <<store, backend, stack, cooling>>

\* bound: a session expires while storage holds it.
Expire ==
  /\ storage.token # Null /\ storage.token \notin dead
  /\ dead' = dead \cup {storage.token}
  /\ UNCHANGED <<session, owner, pages, calls, shown, held, straggled>>

SessionInit ==
  /\ storage = NoSession /\ store = Null
  /\ owner = [t \in TokenIds |-> Null] /\ dead = {}
  /\ stack \in {<<"home">>, <<"landing">>}
  /\ opening = <<>> /\ redirecting = FALSE /\ cooling = FALSE
  /\ calls = [c \in Calls |-> Free]
  /\ shown = Null /\ held = Null /\ straggled = FALSE

\* The steps that the platform and the network take by themselves.
Answers(c) == \E q \in calls[c].left : Succeeds(c, q) \/ Fails(c, q) \/ Refused(c, q)
SessionGoesOn(c) == Answers(c) \/ (\E u \in People : LoggedIn(c, u)) \/ FireTimer(c)
GoesOn == \E c \in Calls : SessionGoesOn(c)
Opens == \E c \in Calls : Open(c)

SessionNext ==
  \/ Tap \/ GoPig \/ OnLogout
  \/ Opens \/ Cool \/ GoesOn \/ Expire
  \/ \E c \in Calls :
       \/ OnJoin(c) \/ ApplyAgain(c) \/ UploadAvatar(c)
       \/ OnWxLogin(c) \/ OnDevLogin(c) \/ OnAdminSubmit(c)

SessionFairness ==
  /\ WF_sessionVars(Opens)
  /\ WF_sessionVars(Cool)
  /\ WF_sessionVars(GoesOn)

SessionSpec == SessionInit /\ [][SessionNext]_sessionVars /\ SessionFairness

(***************************************************************************)
(* Properties.                                                             *)
(***************************************************************************)

\* Values have their types, and storage holds a session that was handed out.
SessionTypeOK ==
  /\ storage.token \in {Null} \cup {t \in TokenIds : owner[t] # Null}
  /\ {storage.user, store, shown} \subseteq People \cup {Null}
  /\ dead \subseteq {t \in TokenIds : owner[t] # Null}
  /\ \A c \in Calls : calls[c].token # Null => owner[calls[c].token] # Null
  /\ cooling => redirecting
  /\ Len(stack) \in 1..MaxPages /\ Len(opening) <= MaxOpening

\* A session lasts until the user logs out or the backend refuses it, however many pages
\* ask at once and fail, unless a request that carried another session, or an attempt to log
\* in as an administrator, was in flight.
SessionKept ==
  held # Null /\ ~straggled => storage.token = held

\* The user that storage names is the one whose session it holds, with the same exception.
UserMatchesToken ==
  ~straggled => storage.user = UserOf(storage.token)

\* However many requests are refused at once, request asks for one jump to the login page at a
\* time (request.ts:56, "only one jump").  This is about request's own navigateTo: when a join is
\* refused, landing asks for the login page once more, after request did (landing.vue:150-151;
\* Refused queues both), so that one 401 opens the login page twice there.
OneRedirect ==
  \A i, j \in 1..Len(opening) :
    opening[i].how = "redirect" /\ opening[j].how = "redirect" => i = j

\* My page never shows one user while another one's session is in storage, once it has
\* loaded and no login is on its way, with the same exception.
ShownIsSession ==
  Top = "my" /\ opening = <<>> /\ ~straggled /\ storage.token # Null
    /\ (\A c \in Calls : calls[c].op \notin {"loadMe"} \cup Logins)
  => shown \in {Null, owner[storage.token]}

\* The flag that holds back further jumps to the login page is always lifted again, also
\* when the platform cannot open the page.
JumpsAgain == redirecting ~> ~redirecting

\* The session of the app: kept until logged out or refused, of one user in storage and on
\* the page, with one jump of request's at a time to the login page (request.ts, stores/auth.ts).
SessionInv == SessionTypeOK /\ SessionKept /\ UserMatchesToken /\ OneRedirect /\ ShownIsSession

=============================================================================
