------------------------------ MODULE FosterLogin ------------------------------
(***************************************************************************)
(* The farmer's login page and workbench: pages/foster/login and           *)
(* pages/foster/workbench of frontend/src, with the identity that          *)
(* utils/fosterRequest.ts keeps in storage.  On mounting, the login page   *)
(* asks whether the stored farmer still exists, and clears the identity if *)
(* not, or if the question fails; nothing stops the user from logging in   *)
(* meanwhile, or from leaving the page.                                    *)
(* Bound: the user has one WeChat account; Ways requests at a time.        *)
(***************************************************************************)
EXTENDS Naturals

CONSTANTS People, Ways, Nobody

VARIABLES
  world,       \* the build (h5), and whether the backend has the secret of the program
  owner,       \* backend: whose WeChat account each farmer has: "none" (no such farmer),
               \* "free", "mine", "other", or "gone" (removed)
  farmerId, fosterToken,                 \* storage; a token is the farmer it was signed for
  place,       \* "client", "login" or "workbench"
  login,       \* the page's step, currentFarmerName, selectedId, pendingOpenid (whether it is
               \* set), unboundFarmers, and those of wxLoading, bindLoading, ... that are set
  board,       \* the farmer whose dashboard the workbench shows
  ways,        \* requests on their way; `here` while the page that sent them is open
  wiped        \* history: a page that was left has cleared the identity of a later login

loginVars == <<world, owner, farmerId, fosterToken, place, login, board, ways, wiped>>
sessionVars == <<farmerId, fosterToken>>

Existing == {f \in People : owner[f] \in {"free", "mine", "other"}}
Mine == {f \in People : owner[f] = "mine"}
Unclaimed == {f \in People : owner[f] = "free"}

Unused == [kind |-> "free"]
Awaited == [type |-> "awaited"]
Spare(w) == ways[w] = Unused /\ \A v \in Ways : ways[v] = Unused => w <= v
Request(kind, what) == [kind |-> kind, what |-> what, got |-> Awaited, here |-> TRUE]
Asks(kind, what) ==
  \E w \in Ways : Spare(w) /\ ways' = [ways EXCEPT ![w] = Request(kind, what)]
\* What outlives the page: the lists that only the page shows do not.
Outlives(w) == IF ways[w].kind \in {"check", "login", "bind", "register", "dev"}
               THEN [ways[w] EXCEPT !.here = FALSE] ELSE Unused
Returned(w, kind) == ways[w].kind = kind /\ ways[w].got # Awaited
Done(w) == ways' = [ways EXCEPT ![w] = Unused]

(***************************************************************************)
(* The backend answers.                                                    *)
(***************************************************************************)
Says(w, result) == ways' = [ways EXCEPT ![w].got = result]
Failure == [type |-> "failed"]
Session(f) == [type |-> "success", farmer |-> f]

GetFarmers(w) ==
  /\ ways[w].kind \in {"check", "list"}
  /\ Says(w, [type |-> "farmers", farmers |-> Existing])
  /\ UNCHANGED owner
WxLogin(w) ==
  /\ ways[w].kind = "login"
  /\ \/ ~world.secret /\ Says(w, [type |-> "dev_mode"])
     \/ world.secret /\ \E f \in Mine : Says(w, Session(f))
     \/ world.secret /\ Mine = {} /\ Unclaimed # {}
        /\ Says(w, [type |-> "unbound", farmers |-> Unclaimed])
     \/ world.secret /\ Mine \cup Unclaimed = {} /\ Says(w, [type |-> "new_user"])
  /\ UNCHANGED owner
\* The column openid is unique: a second farmer cannot take it.
BindFarmer(w) ==
  /\ ways[w].kind = "bind"
  /\ LET f == ways[w].what
     IN  IF owner[f] \in {"free", "mine"} /\ Mine \subseteq {f}
         THEN Says(w, Session(f)) /\ owner' = [owner EXCEPT ![f] = "mine"]
         ELSE Says(w, Failure) /\ UNCHANGED owner
RegisterFarmer(w) ==
  /\ ways[w].kind = "register"
  /\ \/ \E f \in Mine : Says(w, Session(f)) /\ UNCHANGED owner
     \/ \E f \in People : /\ Mine = {} /\ owner[f] = "none"
                           /\ Says(w, Session(f)) /\ owner' = [owner EXCEPT ![f] = "mine"]
DevLogin(w) ==
  /\ ways[w].kind = "dev"
  /\ Says(w, IF ways[w].what \in Existing THEN Session(ways[w].what) ELSE Failure)
  /\ UNCHANGED owner
Dashboard(w) == ways[w].kind = "board" /\ Says(w, Session(ways[w].what)) /\ UNCHANGED owner
Lost(w) == ways[w] # Unused /\ Says(w, Failure) /\ UNCHANGED owner

Reaches(w) ==
  /\ ways[w] # Unused /\ ways[w].got = Awaited
  /\ GetFarmers(w) \/ WxLogin(w) \/ BindFarmer(w) \/ RegisterFarmer(w) \/ DevLogin(w)
       \/ Dashboard(w) \/ Lost(w)
  /\ UNCHANGED <<world, sessionVars, place, login, board, wiped>>

\* Another user takes a farmer, an administrator removes one.
Elsewhere ==
  /\ \E f \in Existing : \/ owner[f] = "free" /\ owner' = [owner EXCEPT ![f] = "other"]
                         \/ owner' = [owner EXCEPT ![f] = "gone"]
  /\ UNCHANGED <<world, sessionVars, place, login, board, ways, wiped>>

(***************************************************************************)
(* The pages.  An answer to a page that was left still runs: it writes the *)
(* storage and relaunches, and what it sets on the page is lost.           *)
(***************************************************************************)
FreshLogin == [step |-> "init", name |-> Nobody, selected |-> Nobody, openid |-> FALSE,
               offered |-> {}, devs |-> {}, busy |-> {}]

\* Another page opens, and the requests of this one outlive it; the new one may send its own.
Leaves(kind, what) ==
  LET old == [w \in Ways |-> Outlives(w)]
  IN  IF kind = "none" THEN ways' = old
      ELSE \E w \in Ways : /\ old[w] = Unused /\ \A v \in Ways : old[v] = Unused => w <= v
                          /\ ways' = [old EXCEPT ![w] = Request(kind, what)]

\* The login page is mounted: the stored farmer is looked up, or the farmers for a choice.
Mount(id) ==
  /\ place' = "login" /\ login' = FreshLogin /\ board' = Nobody
  /\ IF id # Nobody THEN Leaves("check", id)
     ELSE IF world.h5 THEN Leaves("list", "mount") ELSE Leaves("none", Nobody)
\* load of the workbench.
Workbench ==
  /\ place' = "workbench" /\ login' = FreshLogin /\ board' = Nobody
  /\ Leaves("board", farmerId)

OpenLogin == place = "client" /\ Mount(farmerId) /\ UNCHANGED <<world, owner, sessionVars, wiped>>
ToClient ==
  /\ place # "client" /\ place' = "client"
  /\ login' = FreshLogin /\ board' = Nobody /\ Leaves("none", Nobody)
  /\ UNCHANGED <<world, owner, sessionVars, wiped>>

\* onMounted goes on: clearAuth, whoever has logged in since.
Sets(w, field, value) ==
  login' = IF ways[w].here THEN [login EXCEPT ![field] = value] ELSE login
ClearAuth == farmerId' = Nobody /\ fosterToken' = Nobody
CheckAnswered(w) ==
  /\ Returned(w, "check")
  /\ IF ways[w].got.type = "farmers" /\ ways[w].what \in ways[w].got.farmers
     THEN /\ login' = IF ways[w].here THEN [login EXCEPT !.step = "logged_in", !.name = ways[w].what]
                     ELSE login
          /\ Done(w) /\ UNCHANGED <<sessionVars, wiped>>
     ELSE /\ ClearAuth
          /\ wiped' = (wiped \/ ~ways[w].here)
          /\ IF world.h5 /\ ways[w].here THEN ways' = [ways EXCEPT ![w].kind = "list", ![w].what = "mount",
                                                  ![w].got = Awaited] /\ UNCHANGED login
                        ELSE Done(w) /\ Sets(w, "step", "init")
  /\ UNCHANGED <<world, owner, place, board>>
\* loadDevFarmers, which keeps the list it has when it fails.
DevListAnswered(w) ==
  /\ Returned(w, "list")
  /\ LET devs == IF ways[w].got.type = "farmers" THEN ways[w].got.farmers ELSE login.devs
     IN  login' = IF ways[w].what = "tap"
                  THEN [login EXCEPT !.devs = devs, !.step = "dev_mode", !.busy = @ \ {"wx"}]
                  ELSE [login EXCEPT !.devs = devs, !.step = IF devs # {} THEN "dev_mode" ELSE "init"]
  /\ Done(w)
  /\ UNCHANGED <<world, owner, sessionVars, place, board, wiped>>

OnLoginPage == place = "login" /\ UNCHANGED <<world, owner, sessionVars, place, board, wiped>>
\* The button is disabled by wxLoading at step "init" only.
StartWxLogin ==
  /\ OnLoginPage
  /\ \/ login.step = "logged_in"
     \/ login.step = "init" /\ "wx" \notin login.busy
  /\ IF world.h5
     THEN login' = [login EXCEPT !.busy = @ \cup {"wx"}] /\ Asks("list", "tap")
     ELSE login' = [login EXCEPT !.busy = @ \cup {"wx"}, !.step = "loading"] /\ Asks("login", Nobody)

EntersIfHere(w) ==                                             \* mutant
  /\ farmerId' = ways[w].got.farmer /\ fosterToken' = ways[w].got.farmer
  /\ wiped' = FALSE
  /\ IF ways[w].here
     THEN /\ place' = "workbench" /\ login' = FreshLogin /\ board' = Nobody
          /\ ways' = [ways EXCEPT ![w] = Request("board", ways[w].got.farmer)]
     ELSE Done(w) /\ UNCHANGED <<place, login, board>>
\* setFarmerId, setFosterToken, and the workbench.
Enters(w) ==
  /\ farmerId' = ways[w].got.farmer /\ fosterToken' = ways[w].got.farmer
  /\ wiped' = FALSE
  /\ place' = "workbench" /\ login' = FreshLogin /\ board' = Nobody
  /\ ways' = [v \in Ways |-> IF v = w THEN Request("board", ways[w].got.farmer) ELSE Outlives(v)]
Stays(w, to) ==
  /\ login' = IF ways[w].here THEN to ELSE login
  /\ Done(w)
  /\ UNCHANGED <<sessionVars, place, board, wiped>>
Calm(kind) == login.busy \ {kind}
WxAnswered(w) ==
  /\ Returned(w, "login")
  /\ LET got == ways[w].got
     IN  CASE got.type = "success" -> Enters(w)
           [] got.type = "unbound" ->
                Stays(w, [login EXCEPT !.openid = TRUE, !.offered = got.farmers,
                                       !.step = "select_farmer", !.busy = Calm("wx")])
           [] got.type = "new_user" ->
                Stays(w, [login EXCEPT !.openid = TRUE, !.step = "register", !.busy = Calm("wx")])
           [] OTHER -> Stays(w, [login EXCEPT !.step = "init", !.busy = Calm("wx")])
  /\ UNCHANGED <<world, owner>>

Select(f) ==
  /\ OnLoginPage /\ login.step = "select_farmer" /\ f \in login.offered
  /\ login' = [login EXCEPT !.selected = f] /\ UNCHANGED ways
ToRegister ==
  /\ OnLoginPage /\ login.step = "select_farmer"
  /\ login' = [login EXCEPT !.step = "register"] /\ UNCHANGED ways
Back ==
  /\ OnLoginPage
  /\ \/ login.step = "select_farmer" /\ login' = [login EXCEPT !.step = "init"]
     \/ login.step = "register"
        /\ login' = [login EXCEPT !.step = IF login.offered # {} THEN "select_farmer" ELSE "init"]
  /\ UNCHANGED ways
PostsOnce(kind, what) ==
  kind \notin login.busy /\ login' = [login EXCEPT !.busy = @ \cup {kind}] /\ Asks(kind, what)
ConfirmBind ==
  /\ OnLoginPage /\ login.step = "select_farmer" /\ login.openid /\ login.selected # Nobody
  /\ PostsOnce("bind", login.selected)
ConfirmRegister == OnLoginPage /\ login.step = "register" /\ PostsOnce("register", Nobody)
\* A name typed or, without regard to devLoading, tapped in the list.
ConfirmDevLogin ==
  /\ OnLoginPage /\ login.step = "dev_mode"
  /\ \E f \in login.devs :
       login' = [login EXCEPT !.selected = f, !.busy = @ \cup {"dev"}] /\ Asks("dev", f)
PostAnswered(w) ==
  /\ \E kind \in {"bind", "register", "dev"} :
       /\ Returned(w, kind)
       /\ IF ways[w].got.type = "success" THEN Enters(w)
          ELSE Stays(w, [login EXCEPT !.busy = Calm(kind)])
  /\ UNCHANGED <<world, owner>>
GoWorkbench ==
  /\ place = "login" /\ login.step = "logged_in"
  /\ IF farmerId = Nobody THEN Mount(Nobody) ELSE Workbench
  /\ UNCHANGED <<world, owner, sessionVars, wiped>>

(***************************************************************************)
(* The workbench.                                                          *)
(***************************************************************************)
\* load, when it is shown again: from the background.
LoadBoard ==
  /\ place = "workbench"
  /\ IF farmerId = Nobody THEN Mount(Nobody)
     ELSE Asks("board", farmerId) /\ UNCHANGED <<place, login, board>>
  /\ UNCHANGED <<world, owner, sessionVars, wiped>>
BoardAnswered(w) ==
  /\ Returned(w, "board")
  /\ board' = IF ways[w].got.type = "success" THEN ways[w].what ELSE board
  /\ Done(w)
  /\ UNCHANGED <<world, owner, sessionVars, place, login, wiped>>
\* logout, once the dialog is confirmed.
SwitchFarmer ==
  /\ place = "workbench"
  /\ ClearAuth /\ Mount(Nobody)
  /\ UNCHANGED <<world, owner, wiped>>

\* The user's farmer may be in storage from an earlier visit.  (The secret is for the login of
\* the mini program.)
LoginInit ==
  /\ world \in [h5 : BOOLEAN, secret : BOOLEAN] /\ (world.h5 => ~world.secret)
  /\ owner \in [People -> {"none", "free", "mine"}]
  /\ \A f, g \in Mine : f = g
  /\ farmerId \in Mine \cup {Nobody}
  /\ fosterToken = farmerId
  /\ place = "client" /\ login = FreshLogin /\ board = Nobody
  /\ ways = [w \in Ways |-> Unused]
  /\ wiped = FALSE

WayGoesOn(w) ==
  \/ Reaches(w) \/ CheckAnswered(w) \/ DevListAnswered(w) \/ WxAnswered(w) \/ PostAnswered(w)
  \/ BoardAnswered(w)

LoginNext ==
  \/ \E w \in Ways : WayGoesOn(w)
  \/ \E f \in People : Select(f)
  \/ OpenLogin \/ ToClient \/ StartWxLogin \/ ToRegister \/ Back
  \/ ConfirmBind \/ ConfirmRegister \/ ConfirmDevLogin
  \/ GoWorkbench \/ LoadBoard \/ SwitchFarmer \/ Elsewhere

LoginSpec == LoginInit /\ [][LoginNext]_loginVars

(***************************************************************************)
(* Properties.                                                             *)
(***************************************************************************)

\* Each step of the page has what it needs: a list to choose from and the openid that is
\* bound, or registered; and the development step is not in the mini program.
LoginTypeOK ==
  /\ farmerId \in People \cup {Nobody} /\ board \in People \cup {Nobody}
  /\ login.step = "select_farmer" => login.openid /\ login.offered # {}
  /\ login.step = "register" => login.openid
  /\ login.step = "dev_mode" => world.h5
  /\ place # "login" => login = FreshLogin

\* The token in storage is that of the farmer in storage; and in the mini program this farmer
\* is bound to the user, or was until it was removed.
IdentityMine ==
  /\ fosterToken = farmerId
  /\ farmerId # Nobody /\ ~world.h5 => owner[farmerId] \in {"mine", "gone"}

\* The farmer whose name the login page shows, or whose dashboard the workbench, is the one in
\* storage, but for an identity cleared by a page that was left.
ShownIsStored ==
  ~wiped => /\ board # Nobody => board = farmerId
            /\ login.step = "logged_in" => login.name = farmerId

\* What the login page and the workbench may do to the identity in storage: never one
\* farmer's name with another's token, or another's farmer (login/index.vue, setAuth, clearAuth).
LoginInv == LoginTypeOK /\ IdentityMine /\ ShownIsStored

=============================================================================
