------------------------------ MODULE ProfileForm ------------------------------
(***************************************************************************)
(* The buyer's profile: pages/my/profile.vue of frontend/src, opened from  *)
(* "my" (ClientSession has the rest of the session).  An avatar is         *)
(* uploaded when it is picked, the telephone number is fetched through     *)
(* WeChat, and both share with onSave the flag that guards it.             *)
(* Bounds: a nickname is a member of Nicks, Pends requests are on their    *)
(* way at a time, and onSave is not pressed while MaxExits timers run.     *)
(* The phone number itself is left out.                                    *)
(***************************************************************************)
EXTENDS Naturals

CONSTANTS Nicks, NoNick, Pends, MaxExits

VARIABLES
  account,      \* backend: nickname and avatar of the user
  userShown,    \* the copy of it in the auth store
  there,        \* the page is open
  profile,      \* its form, with saving and profileLoading
  saving, profileLoading,
  pends,        \* requests on their way; own tells whether the page that sent it is open
  exits,        \* timers that will go back a page
  strayed,      \* history: a timer went back when the page was not open
  hurried,      \* history: saved or left by hand while a timer ran, or left before a save's answer
  crossed,      \* history: a request began while another was on its way, but onSave's own guard
  broken        \* history: a request failed

profilePage == <<there, profile, saving, profileLoading>>
profileHistory == <<strayed, hurried, crossed, broken>>
profileVars == <<account, userShown, profilePage, pends, exits, profileHistory>>

Avatars == {"none", "asset", "temp"}    \* "temp" is a path on the device
Idle == [kind |-> "idle"]
Posts(c) == \E p \in Pends : /\ pends[p] = Idle /\ \A q \in Pends : pends[q] = Idle => p <= q
                             /\ pends' = [pends EXCEPT ![p] = c]
Ends(p) == pends' = [pends EXCEPT ![p] = Idle]
Underway == \E p \in Pends : pends[p] # Idle
Empty == [nick |-> NoNick, avatar |-> "none"]

(***************************************************************************)
(* The backend.                                                            *)
(***************************************************************************)
\* me, updateMe and updateWechatPhone answer with the account; upload with an asset.
Serve(p) ==
  /\ pends[p].kind \in {"load", "phone", "save"}
  /\ account' = IF pends[p].kind = "save" THEN pends[p].form ELSE account
  /\ pends' = [pends EXCEPT ![p] = [kind |-> "answer", to |-> pends[p].kind, own |-> pends[p].own,
                                    user |-> account']]
  /\ UNCHANGED <<userShown, profilePage, exits, profileHistory>>

(***************************************************************************)
(* The page.                                                               *)
(***************************************************************************)
OpenProfile ==
  /\ ~there
  /\ there' = TRUE /\ profileLoading' = TRUE
  /\ profile' = Empty /\ saving' = FALSE
  /\ Posts([kind |-> "load", own |-> TRUE])
  /\ crossed' = (crossed \/ Underway)
  /\ UNCHANGED <<account, userShown, exits, strayed, hurried, broken>>

\* applyUser also fills the form, over what was typed.
ApplyUser(p) ==
  /\ userShown' = pends[p].user
  /\ profile' = IF pends[p].own THEN pends[p].user ELSE profile
Answered(p) ==
  /\ pends[p].kind = "answer"
  /\ ApplyUser(p)
  /\ saving' = (saving /\ ~(pends[p].own /\ pends[p].to # "load"))
  /\ profileLoading' = (profileLoading /\ ~(pends[p].own /\ pends[p].to = "load"))
  /\ exits' = IF pends[p].to = "save" THEN exits + 1 ELSE exits
  /\ Ends(p)
  /\ UNCHANGED <<account, there, profileHistory>>

Uploaded(p) ==
  /\ pends[p].kind = "upload"
  /\ profile' = IF pends[p].own THEN [profile EXCEPT !.avatar = "asset"] ELSE profile
  /\ saving' = (saving /\ ~pends[p].own)
  /\ Ends(p)
  /\ UNCHANGED <<account, userShown, there, profileLoading, exits, profileHistory>>
\* An avatar that is not uploaded stays in the form.
PendFails(p) ==
  /\ pends[p] # Idle
  /\ LET of == IF pends[p].kind = "answer" THEN pends[p].to ELSE pends[p].kind
     IN  /\ saving' = (saving /\ ~(pends[p].own /\ of # "load"))
         /\ profileLoading' = (profileLoading /\ ~(pends[p].own /\ of = "load"))
  /\ Ends(p)
  /\ broken' = TRUE
  /\ UNCHANGED <<account, userShown, there, profile, exits, strayed, hurried, crossed>>

TypeNickname ==
  /\ there /\ ~profileLoading
  /\ \E n \in Nicks : profile' = [profile EXCEPT !.nick = n]
  /\ UNCHANGED <<account, userShown, there, saving, profileLoading, pends, exits, profileHistory>>
PickAvatarUnguarded ==                                         \* mutant
  /\ there /\ ~profileLoading
  /\ profile' = [profile EXCEPT !.avatar = "temp"]
  /\ UNCHANGED saving
  /\ Posts([kind |-> "upload", own |-> TRUE])
  /\ crossed' = (crossed \/ Underway)
  /\ UNCHANGED <<account, userShown, there, profileLoading, exits, strayed, hurried, broken>>
\* Neither of them looks at saving.
PickAvatar ==
  /\ there /\ ~profileLoading
  /\ profile' = [profile EXCEPT !.avatar = "temp"]
  /\ saving' = TRUE
  /\ Posts([kind |-> "upload", own |-> TRUE])
  /\ crossed' = (crossed \/ Underway)
  /\ UNCHANGED <<account, userShown, there, profileLoading, exits, strayed, hurried, broken>>
GetPhoneNumber ==
  /\ there /\ ~profileLoading
  /\ saving' = TRUE
  /\ Posts([kind |-> "phone", own |-> TRUE])
  /\ crossed' = (crossed \/ Underway)
  /\ UNCHANGED <<account, userShown, there, profile, profileLoading, exits, strayed, hurried, broken>>
\* The button is there while the page loads.
OnSaveProfile ==
  /\ there /\ ~saving /\ exits < MaxExits
  /\ profile.nick # NoNick /\ profile.avatar # "none"
  /\ saving' = TRUE
  /\ Posts([kind |-> "save", own |-> TRUE, form |-> profile])
  /\ hurried' = (hurried \/ exits > 0)
  /\ UNCHANGED <<account, userShown, there, profile, profileLoading, exits, strayed, crossed, broken>>

Closes ==
  /\ there' = FALSE /\ profile' = Empty /\ saving' = FALSE /\ profileLoading' = FALSE
  /\ pends' = [p \in Pends |-> IF pends[p] = Idle THEN Idle ELSE [pends[p] EXCEPT !.own = FALSE]]
OfSave(c) == c.kind = "save" \/ (c.kind = "answer" /\ c.to = "save")
LeaveByHand ==
  /\ there /\ Closes
  /\ hurried' = (hurried \/ exits > 0 \/ \E p \in Pends : OfSave(pends[p]))
  /\ UNCHANGED <<account, userShown, exits, strayed, crossed, broken>>
\* navigateBack, 600 ms after the answer, from the page that is open by then.
Exit ==
  /\ exits > 0 /\ exits' = exits - 1
  /\ IF there THEN Closes ELSE UNCHANGED <<profilePage, pends>>
  /\ strayed' = (strayed \/ ~there)
  /\ UNCHANGED <<account, userShown, hurried, crossed, broken>>

ProfileInit ==
  /\ account \in [nick : Nicks \cup {NoNick}, avatar : {"none", "asset"}]
  /\ userShown = account
  /\ there = FALSE /\ profile = Empty /\ saving = FALSE /\ profileLoading = FALSE
  /\ pends = [p \in Pends |-> Idle] /\ exits = 0
  /\ strayed = FALSE /\ hurried = FALSE /\ crossed = FALSE /\ broken = FALSE

ProfileNext ==
  \/ \E p \in Pends : Serve(p) \/ Answered(p) \/ Uploaded(p) \/ PendFails(p)
  \/ OpenProfile \/ TypeNickname \/ PickAvatar \/ GetPhoneNumber \/ OnSaveProfile
  \/ LeaveByHand \/ Exit

ProfileSpec == ProfileInit /\ [][ProfileNext]_profileVars

(***************************************************************************)
(* Properties.                                                             *)
(***************************************************************************)

\* What is stored was complete: the page saves no account without a nickname and an avatar.
ProfileTypeOK ==
  /\ profile.avatar \in Avatars /\ account.avatar \in Avatars
  /\ \A p \in Pends : pends[p].kind = "save" => pends[p].form.nick \in Nicks /\ pends[p].form.avatar # "none"

\* A path on the device is stored as the avatar only when an upload failed, or one flag was
\* cleared for another request.
StoredUploaded == account.avatar = "temp" => broken \/ crossed

\* The page goes back once for a save, and only itself, unless the buyer saved again or left
\* while it was about to, or one flag was cleared for another request.
BackOnce == strayed => hurried \/ crossed

\* The user that the other pages show is the one stored, when nothing is on its way, nothing
\* failed and no two requests crossed.
UserCurrent == ~Underway /\ ~broken /\ ~crossed => userShown = account

\* The page of the profile: what it stores was uploaded, what the other pages show is stored,
\* and it goes back once (my/profile.vue).
ProfileInv == ProfileTypeOK /\ BackOnce /\ StoredUploaded /\ UserCurrent

=============================================================================
