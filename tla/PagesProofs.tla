----------------------------- MODULE PagesProofs -----------------------------
(***************************************************************************)
(* Proofs about the pages around an account (Messages, WalletPage,         *)
(* AddressForm, ProfileForm), the way from page to page (Browse) and the   *)
(* pages of the farm's administrator (AdminForms, AdminDesk), for every set *)
(* of messages, addresses, names, pigs, farmers and requests.              *)
(*                                                                         *)
(* What a page shows is only as true as the answers on their way: in each  *)
(* section the invariant says of every request what it may carry, and when *)
(* it is the one that the page will show.                                  *)
(***************************************************************************)
EXTENDS Messages, WalletPage, AddressForm, ProfileForm, Browse, AdminDesk,
        FiniteSetTheorems, SequenceTheorems, WellFoundedInduction, TLAPS

(***************************************************************************)
(* A fact about numbers that two pages need: a free request has a least one. *)
(***************************************************************************)

\* A set of numbers has a least one: the first slot, which holds the first load.
LEMMA LeastNatural ==
  ASSUME NEW S, S \subseteq Nat, S # {}
  PROVE  \E n \in S : \A m \in S : n <= m
<1> DEFINE R == OpToRel(<, Nat)
<1>1. IsWellFoundedOn(R, Nat)
  BY NatLessThanWellFounded
<1>2. \A x, y \in Nat : x < y => <<x, y>> \in R
  BY DEF OpToRel
<1> HIDE DEF R
<1>3. PICK x \in S : \A y \in S : ~(<<y, x>> \in R)
  BY <1>1, WFMin
<1>4. ASSUME NEW y \in S PROVE x <= y
  <2>1. x \in Nat /\ y \in Nat /\ ~(<<y, x>> \in R)
    BY <1>3
  <2>2. ~(y < x)
    BY <1>2, <2>1
  <2> QED BY <2>1, <2>2
<1> QED BY <1>4

(***************************************************************************)
(* Messages.                                                               *)
(*                                                                         *)
(* The count on the page is that of its list (CountMatchesList) because an *)
(* answered load has both from one reading of the table (LineFits), and a  *)
(* message read on the page is counted down once.                          *)
(***************************************************************************)

Unread(items) == Cardinality({m \in DOMAIN items : ~items[m]})
ListFits(items) ==
  /\ items = [m \in DOMAIN items |-> items[m]] /\ DOMAIN items \subseteq In({"unread", "read"})
  /\ \A m \in DOMAIN items : items[m] \in BOOLEAN /\ (items[m] => box[m] = "read")
LineFits(c) ==
  /\ c.kind \in {"free", "load", "listed", "loaded", "all", "read"}
  /\ c.kind = "free" => c = Quiet
  /\ c.kind = "listed" =>
       /\ ListFits(c.items)
       /\ c.items = [m \in {k \in Msgs : c.box[k] \in {"unread", "read"}} |-> c.box[m] = "read"]
  /\ c.kind = "loaded" =>
       /\ ListFits(c.items) /\ c.unread \in 0..Cardinality(Msgs) /\ c.even \in BOOLEAN
       /\ c.even => c.unread = Unread(c.items)
  /\ c.kind = "read" =>
       /\ c \in [kind : {"read"}, msg : Msgs, ok : BOOLEAN, here : BOOLEAN]
       /\ c.ok => box[c.msg] = "read"
LinesFit ==
  /\ DOMAIN lines = Lines
  /\ \A l \in Lines : LineFits(lines[l])
       /\ (lines[l].kind = "read" /\ lines[l].here => lines[l].msg \in DOMAIN msgs)
CountFits == unreadCount \in 0..Cardinality(Msgs) /\ skewed \in BOOLEAN
BoxFits == box \in [Msgs -> {"none", "unread", "read"}]

MsgIndInv == BoxFits /\ ListFits(msgs) /\ CountFits /\ CountMatchesList /\ LinesFit

\* The invariant has the module's properties.
LEMMA MsgIndInvImplies == MsgIndInv => MessagesInv
  BY DEF MsgIndInv, MessagesInv, MessagesTypeOK, BoxFits, ListFits, CountFits, ReadIsStored

\* A count of messages is one of the numbers that the page may show.
LEMMA CountOf == \A S \in SUBSET Msgs : Cardinality(S) \in 0..Cardinality(Msgs)
<1> SUFFICES ASSUME NEW S \in SUBSET Msgs PROVE Cardinality(S) \in 0..Cardinality(Msgs)
  OBVIOUS
<1>1. Cardinality(S) <= Cardinality(Msgs) /\ Cardinality(S) \in Nat /\ Cardinality(Msgs) \in Nat
  BY MsgsAssumption, FS_Subset, FS_CardinalityType
<1> QED BY <1>1

\* It holds at first.
LEMMA MsgInitInv == MessagesInit => MsgIndInv
<1> SUFFICES ASSUME MessagesInit PROVE MsgIndInv
  OBVIOUS
<1>1. Unread(msgs) = 0
  <2>1. {m \in DOMAIN msgs : ~msgs[m]} = {}
    BY DEF MessagesInit
  <2> QED BY <2>1, FS_EmptySet DEF Unread
<1>2. Cardinality(Msgs) \in Nat
  BY MsgsAssumption, FS_CardinalityType
<1>3. \A l \in Lines : lines[l] \in {[kind |-> "load"], Quiet}
  BY DEF MessagesInit
<1>4. LinesFit
  BY <1>3 DEF LinesFit, LineFits, Quiet, MessagesInit
<1>5. ListFits(msgs)
  BY DEF MessagesInit, ListFits
<1>6. BoxFits
  BY DEF MessagesInit, BoxFits
<1>7. CountFits
  <2>1. unreadCount \in 0..Cardinality(Msgs)
    BY <1>2 DEF MessagesInit
  <2>2. skewed \in BOOLEAN
    BY DEF MessagesInit
  <2> QED BY <2>1, <2>2 DEF CountFits
<1> QED
  BY <1>1, <1>4, <1>5, <1>6, <1>7 DEF MessagesInit, MsgIndInv, CountMatchesList, Unread

\* No message is removed, or unread again.
Moves == /\ BoxFits'
         /\ \A m \in Msgs : box[m] \in {"unread", "read"} => box'[m] \in {"unread", "read"}
         /\ \A m \in Msgs : box[m] = "read" => box'[m] = "read"

\* A list fits as long as no message that was read becomes unread.
LEMMA ListStands ==
  ASSUME Moves, NEW items, ListFits(items)
  PROVE  ListFits(items)'
  BY DEF Moves, ListFits, In

\* A request fits as long as no message that was read becomes unread.
LEMMA LineStands ==
  ASSUME Moves, NEW c, LineFits(c)
  PROVE  LineFits(c)'
<1>1. c.kind \in {"listed", "loaded"} => ListFits(c.items)'
  <2>1. PICK items : items = c.items
    OBVIOUS
  <2>2. c.kind \in {"listed", "loaded"} => ListFits(items)
    BY <2>1 DEF LineFits
  <2> QED BY <2>1, <2>2, ListStands
<1>2. c.kind = "read" => (c.ok => box'[c.msg] = "read")
  BY DEF LineFits, Moves
<1> QED BY <1>1, <1>2 DEF LineFits, Unread

\* One line is replaced.
LEMMA SendsInv ==
  ASSUME MsgIndInv, Moves, UNCHANGED <<msgs, unreadCount, skewed>>,
         NEW l \in Lines, NEW c, Sends(l, c), LineFits(c)',
         c.kind = "read" /\ c.here => c.msg \in DOMAIN msgs
  PROVE  MsgIndInv'
<1>1. ListFits(msgs)'
  <2>1. PICK items : items = msgs
    OBVIOUS
  <2> QED BY <2>1, ListStands DEF MsgIndInv
<1>2. ASSUME NEW k \in Lines PROVE LineFits(lines[k])'
               /\ (lines'[k].kind = "read" /\ lines'[k].here => lines'[k].msg \in DOMAIN msgs')
  <2>1. PICK d : d = lines[k]
    OBVIOUS
  <2>2. LineFits(d)' /\ (d.kind = "read" /\ d.here => d.msg \in DOMAIN msgs)
    BY <2>1, LineStands DEF MsgIndInv, LinesFit
  <2>3. lines'[k] = IF k = l THEN c ELSE d
    BY <2>1 DEF Sends, MsgIndInv, LinesFit
  <2> QED BY <2>2, <2>3
<1>3. LinesFit'
  BY <1>2 DEF LinesFit, MsgIndInv, Sends
<1> QED BY <1>1, <1>3 DEF MsgIndInv, Moves, CountFits, CountMatchesList

\* Nothing moves where the box does not.
LEMMA BoxStands == MsgIndInv /\ UNCHANGED box => Moves
  BY DEF MsgIndInv, Moves, BoxFits

\* Requests that carry nothing fit any state.
LEMMA PlainLines == \A c : c.kind \in {"load", "all"} \/ c = Quiet => LineFits(c)'
  /\ c.kind # "read"
  BY DEF LineFits, Quiet

\* A message arrives.
LEMMA NotifyInv == MsgIndInv /\ Notify => MsgIndInv'
<1> SUFFICES ASSUME MsgIndInv, Notify PROVE MsgIndInv'
  OBVIOUS
<1>1. Moves
  BY DEF MsgIndInv, Notify, Moves, BoxFits, In
<1>2. ListFits(msgs)'
  <2>1. PICK items : items = msgs
    OBVIOUS
  <2> QED BY <1>1, <2>1, ListStands DEF MsgIndInv, Notify, msgPage
<1>3. ASSUME NEW k \in Lines PROVE LineFits(lines[k])'
  <2>1. PICK d : d = lines[k]
    OBVIOUS
  <2> QED BY <1>1, <2>1, LineStands DEF MsgIndInv, LinesFit, Notify
<1> QED BY <1>1, <1>2, <1>3 DEF MsgIndInv, Notify, msgPage, Moves, CountFits, CountMatchesList,
           LinesFit

\* Requests that carry nothing.
LEMMA PlainInv ==
  MsgIndInv /\ (ShowMessages \/ OnReadAll \/ \E l \in Lines : ListFails(l) \/ AllRead(l)
                \/ PostLost(l)) => MsgIndInv'
<1> SUFFICES ASSUME MsgIndInv, ShowMessages \/ OnReadAll \/ \E l \in Lines : ListFails(l)
                      \/ AllRead(l) \/ PostLost(l)
             PROVE  MsgIndInv'
  OBVIOUS
<1>1. Moves
  <2>1. UNCHANGED box \/ MarkAllRead
    BY DEF ShowMessages, OnReadAll, ListFails, AllRead, PostLost
  <2>2. CASE MarkAllRead
    BY <2>2 DEF MarkAllRead, Moves, MsgIndInv, BoxFits
  <2> QED BY <2>1, <2>2, BoxStands
<1>2. PICK l \in Lines : Sends(l, [kind |-> "load"]) \/ Sends(l, [kind |-> "all"])
             \/ Sends(l, Quiet)
  BY DEF ShowMessages, OnReadAll, ListFails, AllRead, PostLost, LoadMessages
<1>3. PICK c : Sends(l, c) /\ (c.kind \in {"load", "all"} \/ c = Quiet)
  BY <1>2
<1>4. UNCHANGED <<msgs, unreadCount, skewed>>
  BY DEF ShowMessages, OnReadAll, ListFails, AllRead, PostLost, LoadMessages, msgPage
<1> QED BY <1>1, <1>3, <1>4, PlainLines, SendsInv

\* The backend reads the list.
LEMMA ListItemsInv ==
  ASSUME MsgIndInv, NEW l \in Lines, ListItems(l)
  PROVE  MsgIndInv'
<1>1. PICK c : c = [kind |-> "listed", box |-> box,
                    items |-> [m \in In({"unread", "read"}) |-> box[m] = "read"]]
  OBVIOUS
<1>2. ListFits(c.items)
  BY <1>1 DEF ListFits, In
<1>3. LineFits(c)
  BY <1>1, <1>2 DEF LineFits, In
<1>4. Moves /\ LineFits(c)'
  BY <1>3, BoxStands, LineStands DEF ListItems
<1> QED BY <1>1, <1>4, SendsInv DEF ListItems, msgPage

\* The backend counts the unread.
LEMMA CountUnreadInv ==
  ASSUME MsgIndInv, NEW l \in Lines, CountUnread(l)
  PROVE  MsgIndInv'
<1>1. PICK d : d = lines[l]
  OBVIOUS
<1>2. LineFits(d) /\ d.kind = "listed"
  BY <1>1 DEF MsgIndInv, LinesFit, CountUnread
<1>3. PICK c : c = [kind |-> "loaded", items |-> d.items, unread |-> Cardinality(In({"unread"})),
                    even |-> box = d.box]
  OBVIOUS
<1>4. c.kind = "loaded" /\ c.items = d.items /\ c.unread = Cardinality(In({"unread"}))
        /\ c.even \in BOOLEAN /\ (c.even => box = d.box)
  BY <1>3
<1>5. c.even => {m \in DOMAIN c.items : ~c.items[m]} = In({"unread"})
  <2> SUFFICES ASSUME box = d.box PROVE {m \in DOMAIN c.items : ~c.items[m]} = In({"unread"})
    BY <1>4
  <2>1. c.items = [m \in In({"unread", "read"}) |-> box[m] = "read"]
    BY <1>2, <1>4 DEF LineFits, In
  <2>2. DOMAIN c.items = In({"unread", "read"})
          /\ \A m \in In({"unread", "read"}) : c.items[m] <=> box[m] = "read"
    BY <2>1
  <2> QED BY <2>2 DEF In
<1>6. c.unread \in 0..Cardinality(Msgs)
  BY <1>4, CountOf DEF In
<1>7. LineFits(c)
  BY <1>2, <1>4, <1>5, <1>6 DEF LineFits, Unread
<1>8. Moves /\ LineFits(c)'
  BY <1>7, BoxStands, LineStands DEF CountUnread
<1> QED BY <1>1, <1>3, <1>4, <1>8, SendsInv DEF CountUnread, msgPage

\* The list and its count were answered.
LEMMA ListAnsweredInv ==
  ASSUME MsgIndInv, NEW l \in Lines, ListAnswered(l)
  PROVE  MsgIndInv'
<1>1. Moves
  BY BoxStands DEF ListAnswered
<1>2. PICK d : d = lines[l]
  OBVIOUS
<1>3. LineFits(d) /\ d.kind = "loaded" /\ msgs' = d.items /\ unreadCount' = d.unread
        /\ skewed' = ~d.even
  BY <1>2 DEF MsgIndInv, LinesFit, ListAnswered
<1>4. ListFits(msgs)' /\ CountFits' /\ CountMatchesList'
  BY <1>3 DEF LineFits, ListFits, CountFits, CountMatchesList, Unread, ListAnswered, In
<1>5. ASSUME NEW k \in Lines PROVE LineFits(lines[k])'
               /\ ~(lines'[k].kind = "read" /\ lines'[k].here)
  <2>1. PICK c : c = lines[k]
    OBVIOUS
  <2>2. LineFits(c)
    BY <2>1 DEF MsgIndInv, LinesFit
  <2>3. PICK e : e = IF k = l THEN Quiet ELSE Detached(c)
    OBVIOUS
  <2>4. LineFits(e) /\ ~(e.kind = "read" /\ e.here)
    <3>1. CASE k = l
      BY <2>3, <3>1 DEF LineFits, Quiet
    <3>2. CASE k # l
      BY <2>2, <2>3, <3>2 DEF LineFits, Detached
    <3> QED BY <3>1, <3>2
  <2>5. lines'[k] = e
    BY <2>1, <2>3 DEF ListAnswered
  <2>6. LineFits(e)'
    BY <1>1, <2>4, LineStands
  <2> QED BY <2>4, <2>5, <2>6
<1>6. LinesFit'
  BY <1>5 DEF LinesFit, ListAnswered
<1> QED BY <1>1, <1>4, <1>6 DEF MsgIndInv, Moves

\* A message is opened.
LEMMA OnOpenInv ==
  ASSUME MsgIndInv, NEW m \in Msgs, OnOpenMessage(m)
  PROVE  MsgIndInv'
<1>1. PICK ok \in BOOLEAN, l \in Lines :
        /\ IF ok THEN MarkRead(m) ELSE UNCHANGED box
        /\ Sends(l, [kind |-> "read", msg |-> m, ok |-> ok, here |-> TRUE])
  BY DEF OnOpenMessage
<1>2. Moves /\ (ok => box'[m] = "read")
  BY <1>1 DEF MsgIndInv, Moves, BoxFits, MarkRead
<1>3. PICK c : c = [kind |-> "read", msg |-> m, ok |-> ok, here |-> TRUE]
  OBVIOUS
<1>4. LineFits(c)' /\ (c.kind = "read" /\ c.here => c.msg \in DOMAIN msgs)
  BY <1>2, <1>3 DEF LineFits, OnOpenMessage
<1> QED BY <1>1, <1>2, <1>3, <1>4, SendsInv DEF OnOpenMessage, msgPage

\* A message was marked as read.
LEMMA ReadAnsweredInv ==
  ASSUME MsgIndInv, NEW l \in Lines, ReadAnswered(l)
  PROVE  MsgIndInv'
<1>1. Moves /\ UNCHANGED box
  BY BoxStands DEF ReadAnswered, Marked
<1>2. PICK d : d = lines[l]
  OBVIOUS
<1>3. /\ d \in [kind : {"read"}, msg : Msgs, ok : BOOLEAN, here : BOOLEAN] /\ d.ok
           /\ box[d.msg] = "read"
      /\ (d.here => d.msg \in DOMAIN msgs)
      /\ msgs' = (IF d.here THEN [msgs EXCEPT ![d.msg] = TRUE] ELSE msgs)
  BY <1>2 DEF MsgIndInv, LinesFit, LineFits, ReadAnswered, Marked
<1>4. DOMAIN msgs' = DOMAIN msgs /\ ListFits(msgs)'
  <2>1. DOMAIN msgs' = DOMAIN msgs /\ \A m \in DOMAIN msgs : msgs'[m] = IF d.here
          /\ m = d.msg THEN TRUE ELSE msgs[m]
    BY <1>3 DEF MsgIndInv, ListFits
  <2>2. msgs' = [m \in DOMAIN msgs' |-> msgs'[m]]
    BY <1>3, <2>1 DEF MsgIndInv, ListFits
  <2> QED BY <1>1, <1>3, <2>1, <2>2 DEF MsgIndInv, ListFits, In
<1>5. ASSUME NEW k \in Lines PROVE LineFits(lines[k])'
               /\ (lines'[k].kind = "read" /\ lines'[k].here => lines'[k].msg \in DOMAIN msgs')
  <2>1. PICK c : c = lines[k]
    OBVIOUS
  <2>2. LineFits(c)' /\ (c.kind = "read" /\ c.here => c.msg \in DOMAIN msgs)
    BY <1>1, <2>1, LineStands DEF MsgIndInv, LinesFit
  <2>3. lines'[k] = IF k = l THEN Quiet ELSE c
    BY <2>1 DEF ReadAnswered, Marked, Sends, MsgIndInv, LinesFit
  <2>4. LineFits(Quiet)' /\ Quiet.kind # "read"
    BY PlainLines
  <2> QED BY <1>4, <2>2, <2>3, <2>4
<1>6. LinesFit'
  BY <1>5 DEF LinesFit, MsgIndInv, ReadAnswered, Marked, Sends
<1>7. CountFits'
  <2>1. Cardinality(Msgs) \in Nat
    BY MsgsAssumption, FS_CardinalityType
  <2> QED BY <2>1 DEF MsgIndInv, CountFits, ReadAnswered, Marked
<1>8. CountMatchesList'
  <2> SUFFICES ASSUME ~skewed' PROVE unreadCount' = Cardinality({m \in DOMAIN msgs' : ~msgs'[m]})
    BY DEF CountMatchesList
  <2>1. ~skewed /\ msgs' # msgs
    BY DEF ReadAnswered, Marked
  <2> DEFINE old == {m \in DOMAIN msgs : ~msgs[m]}
  <2>2. d.here /\ d.msg \in old
    BY <1>3, <2>1 DEF MsgIndInv, ListFits
  <2>3. {m \in DOMAIN msgs' : ~msgs'[m]} = old \ {d.msg}
    BY <1>3, <1>4, <2>2 DEF MsgIndInv, ListFits
  <2>4. IsFiniteSet(old)
    <3>1. old \subseteq Msgs
      BY DEF MsgIndInv, ListFits, In
    <3> QED BY <3>1, MsgsAssumption, FS_Subset
  <2>5. unreadCount = Cardinality(old) /\ unreadCount \in Nat
    <3>1. Cardinality(Msgs) \in Nat
      BY MsgsAssumption, FS_CardinalityType
    <3> QED BY <2>1, <3>1 DEF MsgIndInv, CountFits, CountMatchesList
  <2>6. Cardinality(old \ {d.msg}) = Cardinality(old) - 1
    BY <2>2, <2>4, FS_RemoveElement
  <2>7. old # {}
    BY <2>2
  <2>8. unreadCount # 0
    BY <2>4, <2>5, <2>7, FS_EmptySet
  <2> HIDE DEF old
  <2> QED BY <2>3, <2>5, <2>6, <2>8 DEF ReadAnswered, Marked
<1> QED BY <1>1, <1>4, <1>6, <1>7, <1>8 DEF MsgIndInv, Moves

\* Every step of the messages keeps the invariant.
LEMMA MsgStepInv == MsgIndInv /\ [MessagesNext]_msgVars => MsgIndInv'
<1> SUFFICES ASSUME MsgIndInv, [MessagesNext]_msgVars PROVE MsgIndInv'
  OBVIOUS
<1>1. CASE UNCHANGED msgVars
  <2>1. Moves /\ UNCHANGED <<box, msgs, unreadCount, msgsLoading, lines, skewed>>
    BY <1>1, BoxStands DEF msgVars, msgPage
  <2>2. ASSUME NEW k \in Lines PROVE LineFits(lines[k])'
    <3>1. PICK c : c = lines[k]
      OBVIOUS
    <3> QED BY <2>1, <3>1, LineStands DEF MsgIndInv, LinesFit
  <2>3. ListFits(msgs)'
    BY <2>1 DEF MsgIndInv, ListFits, In
  <2> QED BY <2>1, <2>2, <2>3 DEF MsgIndInv, Moves, CountFits, CountMatchesList, LinesFit
<1> QED
  BY <1>1, NotifyInv, PlainInv, ListItemsInv, CountUnreadInv, ListAnsweredInv, OnOpenInv,
     ReadAnsweredInv
     DEF MessagesNext, LineGoesOn

\* For any messages and requests: what the page shows as read is read, and its count is that of
\* its list, unless the two were read apart (message.service.ts, messages/index.vue).
THEOREM MessagesAgree == MessagesSpec => []MessagesInv
<1>1. MessagesSpec => []MsgIndInv
  BY MsgInitInv, MsgStepInv, PTL DEF MessagesSpec
<1> QED
  BY <1>1, MsgIndInvImplies, PTL

(***************************************************************************)
(* The wallet page.                                                        *)
(*                                                                         *)
(* The two loads of the page read the balance and the ledger one after the *)
(* other.  ReadsCurrent says what a load that nothing crossed has read so  *)
(* far, OneRead that it is alone, and WillShow that a top-up which was     *)
(* answered is followed by a load.                                         *)
(***************************************************************************)

Amounts == 0..MaxFunds
HopFits(c) ==
  \/ c \in [kind : {"still", "overview", "topup", "done"}] /\ (c.kind = "still" => c = Still)
  \/ c \in [kind : {"ledger"}, funds : Amounts]
  \/ /\ c \in [kind : {"got"}, funds : Amounts, newest : {NoRow} \cup Amounts, even : BOOLEAN]
     /\ c.even /\ c.newest # NoRow => c.funds = c.newest
HopsFit == DOMAIN hops = Hops /\ \A h \in Hops : HopFits(hops[h])
MoneyFits ==
  /\ WalletPageTypeOK /\ BalanceOfRecent
  /\ torn \in BOOLEAN /\ unseen \in BOOLEAN

IsRead(c) == c.kind \in {"overview", "ledger", "got"}
\* What is on its way will show the balance there is.
OneRead == ~unseen => \A h, i \in Hops : IsRead(hops[h]) /\ IsRead(hops[i]) => h = i
ToppedUp == \E h \in Hops : hops[h].kind = "done"
ReadsCurrent ==
  ~unseen => ToppedUp \/ \A h \in Hops : hops[h].kind \in {"ledger", "got"} => hops[h].funds = funds
WillShow == ~unseen => fundsShown = funds \/ ToppedUp \/ Reading

WalletPageIndInv == MoneyFits /\ HopsFit /\ OneRead /\ ReadsCurrent /\ WillShow

\* The invariant has the module's properties.
LEMMA WalletPageIndInvImplies == WalletPageIndInv => WalletPageInv
<1> SUFFICES ASSUME WalletPageIndInv PROVE FundsCurrent
  BY DEF WalletPageIndInv, MoneyFits, WalletPageInv
<1>1. (\A h \in Hops : hops[h] = Still) => ~ToppedUp /\ ~Reading
  BY DEF Still, ToppedUp, Reading
<1> QED BY <1>1 DEF WalletPageIndInv, WillShow, FundsCurrent

\* It holds at first.
LEMMA WalletPageInitInv == WalletPageInit => WalletPageIndInv
<1> SUFFICES ASSUME WalletPageInit PROVE WalletPageIndInv
  OBVIOUS
<1>1. PICK first \in Hops : \A i \in Hops : first <= i
  BY LeastNatural, HopsAssumption
<1>2. \A h \in Hops : hops[h] = IF h = first THEN Overview ELSE Still
  BY <1>1, HopsAssumption DEF WalletPageInit
<1>3. HopsFit
  BY <1>2 DEF HopsFit, HopFits, WalletPageInit, Overview, Still
<1>4. OneRead /\ ReadsCurrent /\ WillShow
  BY <1>2 DEF OneRead, ReadsCurrent, WillShow, IsRead, Reading, Overview, Still
<1>5. MoneyFits
  <2>1. funds \in 0..MaxFunds /\ fundsShown \in 0..MaxFunds
    BY HopsAssumption DEF WalletPageInit
  <2>2. newest \in {NoRow, funds} /\ recent = NoRow /\ torn \in BOOLEAN /\ unseen \in BOOLEAN
    BY DEF WalletPageInit
  <2> QED BY <2>1, <2>2 DEF MoneyFits, WalletPageTypeOK, BalanceOfRecent
<1> QED BY <1>3, <1>4, <1>5 DEF WalletPageIndInv

\* One request is replaced, and it is not a read of the balance that was not there before.
LEMMA HopInv ==
  ASSUME WalletPageIndInv, NEW h \in Hops, NEW c, hops' = [hops EXCEPT ![h] = c], HopFits(c)
  PROVE  HopsFit' /\ \A i \in Hops : hops'[i] = IF i = h THEN c ELSE hops[i]
  BY DEF WalletPageIndInv, HopsFit

\* The money stands.
LEMMA MoneyStands ==
  ASSUME WalletPageIndInv, UNCHANGED <<funds, newest, fundsShown, recent, torn>>,
         unseen' \in BOOLEAN
  PROVE  MoneyFits'
  BY DEF WalletPageIndInv, MoneyFits, WalletPageTypeOK, BalanceOfRecent

\* A request takes a free slot.
LEMMA FreeHop ==
  ASSUME NEW c, Hop(c)
  PROVE  \E h \in Hops : hops[h] = Still /\ hops' = [hops EXCEPT ![h] = c]
  BY DEF Hop

\* Two flags that the steps combine.
LEMMA ReadingInv == WalletPageIndInv => unseen \in BOOLEAN /\ Reading \in BOOLEAN
  BY DEF WalletPageIndInv, MoneyFits, Reading

\* Requests that carry nothing fit.
LEMMA PlainHops == HopFits(Still) /\ HopFits(Overview) /\ HopFits([kind |-> "topup"])
  /\ HopFits([kind |-> "done"])
  BY DEF HopFits, Still, Overview

\* The page is shown, and loads.
LEMMA ShowWalletInv == WalletPageIndInv /\ ShowWallet => WalletPageIndInv'
<1> SUFFICES ASSUME WalletPageIndInv, ShowWallet PROVE WalletPageIndInv'
  OBVIOUS
<1>1. PICK h \in Hops : hops[h] = Still /\ hops' = [hops EXCEPT ![h] = Overview]
  BY FreeHop DEF ShowWallet
<1>2. HopsFit' /\ \A i \in Hops : hops'[i] = IF i = h THEN Overview ELSE hops[i]
  BY <1>1, HopInv, PlainHops
<1>3. MoneyFits'
  BY MoneyStands, ReadingInv DEF ShowWallet
<1>4. ~unseen' => \A i \in Hops : ~IsRead(hops[i])
  BY DEF ShowWallet, Reading, IsRead
<1>5. OneRead' /\ ReadsCurrent' /\ WillShow'
  BY <1>2, <1>4 DEF OneRead, ReadsCurrent, WillShow, IsRead, Reading, Overview
<1> QED BY <1>2, <1>3, <1>5 DEF WalletPageIndInv

\* The user tops up.
LEMMA OnTopupInv == WalletPageIndInv /\ OnTopup => WalletPageIndInv'
<1> SUFFICES ASSUME WalletPageIndInv, OnTopup PROVE WalletPageIndInv'
  OBVIOUS
<1>1. PICK h \in Hops : hops[h] = Still /\ hops' = [hops EXCEPT ![h] = [kind |-> "topup"]]
  BY FreeHop DEF OnTopup
<1>2. HopsFit' /\ \A i \in Hops : hops'[i] = IF i = h THEN [kind |-> "topup"] ELSE hops[i]
  BY <1>1, HopInv, PlainHops
<1>3. MoneyFits'
  BY MoneyStands, ReadingInv DEF OnTopup, walletPage
<1>4. UNCHANGED <<funds, fundsShown, unseen>>
  BY DEF OnTopup, walletPage
<1>5. OneRead' /\ ReadsCurrent' /\ WillShow'
  BY <1>1, <1>2, <1>4 DEF WalletPageIndInv, OneRead, ReadsCurrent, WillShow, IsRead, ToppedUp,
     Reading, Still
<1> QED BY <1>2, <1>3, <1>5 DEF WalletPageIndInv

\* The backend tops up.
LEMMA TopupInv == ASSUME WalletPageIndInv, NEW h \in Hops, Topup(h) PROVE WalletPageIndInv'
<1>1. hops' = [hops EXCEPT ![h] = [kind |-> "done"]]
  <2>1. HopFits(hops[h]) /\ hops[h].kind = "topup" /\ hops' = [hops EXCEPT ![h].kind = "done"]
    BY DEF Topup, WalletPageIndInv, HopsFit
  <2>2. [hops[h] EXCEPT !.kind = "done"] = [kind |-> "done"]
    BY <2>1 DEF HopFits
  <2> QED BY <2>1, <2>2
<1>2. HopsFit' /\ \A i \in Hops : hops'[i] = IF i = h THEN [kind |-> "done"] ELSE hops[i]
  BY <1>1, HopInv, PlainHops
<1>3. MoneyFits'
  BY DEF Topup, Move, walletPage, WalletPageIndInv, MoneyFits, WalletPageTypeOK, BalanceOfRecent
<1>4. ToppedUp'
  BY <1>2 DEF ToppedUp
<1>5. OneRead'
  BY <1>2 DEF WalletPageIndInv, OneRead, IsRead, Topup
<1> QED BY <1>2, <1>3, <1>4, <1>5 DEF WalletPageIndInv, ReadsCurrent, WillShow

\* getOverview reads the balance.
LEMMA ReadWalletInv ==
  ASSUME WalletPageIndInv, NEW h \in Hops, ReadWallet(h)
  PROVE  WalletPageIndInv'
<1>1. HopFits([kind |-> "ledger", funds |-> funds])
  BY DEF HopFits, WalletPageIndInv, MoneyFits, WalletPageTypeOK, Amounts
<1>2. HopsFit' /\ \A i \in Hops : hops'[i] = IF i = h THEN [kind |-> "ledger", funds |-> funds]
        ELSE hops[i]
  BY <1>1, HopInv DEF ReadWallet
<1>3. MoneyFits'
  BY MoneyStands, ReadingInv DEF ReadWallet, walletPage
<1>4. UNCHANGED <<funds, fundsShown, unseen>> /\ hops[h].kind = "overview"
  BY DEF ReadWallet, walletPage, Overview
<1>5. OneRead' /\ ReadsCurrent' /\ WillShow'
  BY <1>2, <1>4 DEF WalletPageIndInv, OneRead, ReadsCurrent, WillShow, IsRead, ToppedUp, Reading
<1> QED BY <1>2, <1>3, <1>5 DEF WalletPageIndInv

\* getOverview reads the newest row.
LEMMA ReadLedgerInv ==
  ASSUME WalletPageIndInv, NEW h \in Hops, ReadLedger(h)
  PROVE  WalletPageIndInv'
<1>1. PICK d : d = hops[h]
  OBVIOUS
<1>2. d.kind = "ledger" /\ d.funds \in Amounts
  BY <1>1 DEF ReadLedger, WalletPageIndInv, HopsFit, HopFits
<1>3. PICK c : c = [kind |-> "got", funds |-> d.funds, newest |-> newest, even |-> d.funds = funds]
  OBVIOUS
<1>4. HopFits(c)
  BY <1>2, <1>3 DEF HopFits, WalletPageIndInv, MoneyFits, WalletPageTypeOK, Amounts
<1>5. HopsFit' /\ \A i \in Hops : hops'[i] = IF i = h THEN c ELSE hops[i]
  <2>1. hops' = [hops EXCEPT ![h] = c]
    BY <1>1, <1>3 DEF ReadLedger
  <2> QED BY <1>4, <2>1, HopInv
<1>6. MoneyFits'
  BY MoneyStands, ReadingInv DEF ReadLedger, walletPage
<1>7. UNCHANGED <<funds, fundsShown, unseen>> /\ c.kind = "got" /\ c.funds = d.funds
  BY <1>3 DEF ReadLedger, walletPage
<1>8. OneRead' /\ ReadsCurrent' /\ WillShow'
  BY <1>1, <1>2, <1>5, <1>7 DEF WalletPageIndInv, OneRead, ReadsCurrent, WillShow, IsRead,
     ToppedUp, Reading
<1> QED BY <1>5, <1>6, <1>8 DEF WalletPageIndInv

\* The overview was answered.
LEMMA OverviewAnsweredInv ==
  ASSUME WalletPageIndInv, NEW h \in Hops, OverviewAnswered(h)
  PROVE  WalletPageIndInv'
<1>1. PICK d : d = hops[h]
  OBVIOUS
<1>2. /\ d \in [kind : {"got"}, funds : Amounts, newest : {NoRow} \cup Amounts, even : BOOLEAN]
      /\ d.even /\ d.newest # NoRow => d.funds = d.newest
  BY <1>1 DEF OverviewAnswered, WalletPageIndInv, HopsFit, HopFits
<1>3. HopsFit' /\ \A i \in Hops : hops'[i] = IF i = h THEN Still ELSE hops[i]
  BY HopInv, PlainHops DEF OverviewAnswered
<1>4. /\ fundsShown' = d.funds /\ recent' = d.newest /\ torn' = ~d.even
      /\ UNCHANGED <<funds, newest, unseen>>
  BY <1>1 DEF OverviewAnswered
<1>5. MoneyFits'
  BY <1>2, <1>4 DEF WalletPageIndInv, MoneyFits, WalletPageTypeOK, BalanceOfRecent, Amounts
<1>6. OneRead' /\ ReadsCurrent'
  BY <1>1, <1>2, <1>3, <1>4 DEF WalletPageIndInv, OneRead, ReadsCurrent, IsRead, ToppedUp, Still
<1>7. WillShow'
  BY <1>1, <1>2, <1>3, <1>4 DEF WalletPageIndInv, WillShow, ReadsCurrent, ToppedUp, Reading
<1> QED BY <1>3, <1>5, <1>6, <1>7 DEF WalletPageIndInv

\* The top-up was answered, and the page loads.
LEMMA TopupAnsweredInv ==
  ASSUME WalletPageIndInv, NEW h \in Hops, TopupAnswered(h)
  PROVE  WalletPageIndInv'
<1>1. HopsFit' /\ \A i \in Hops : hops'[i] = IF i = h THEN Overview ELSE hops[i]
  BY HopInv, PlainHops DEF TopupAnswered
<1>2. MoneyFits'
  BY MoneyStands, ReadingInv DEF TopupAnswered
<1>3. ~unseen' => \A i \in Hops : ~IsRead(hops[i])
  BY DEF TopupAnswered, Reading, IsRead
<1>4. OneRead' /\ ReadsCurrent' /\ WillShow'
  BY <1>1, <1>3 DEF OneRead, ReadsCurrent, WillShow, IsRead, Reading, Overview
<1> QED BY <1>1, <1>2, <1>4 DEF WalletPageIndInv

\* The balance moves elsewhere, or a request fails.
LEMMA UnseenInv == WalletPageIndInv /\ (MovesElsewhere \/ \E h \in Hops : HopFails(h))
  => WalletPageIndInv'
<1> SUFFICES ASSUME WalletPageIndInv, MovesElsewhere \/ \E h \in Hops : HopFails(h)
             PROVE  WalletPageIndInv'
  OBVIOUS
<1>1. unseen' = TRUE
  BY DEF MovesElsewhere, HopFails
<1>2. HopsFit'
  <2>1. ASSUME NEW h \in Hops, HopFails(h) PROVE HopsFit'
    BY <2>1, HopInv, PlainHops DEF HopFails
  <2>2. CASE MovesElsewhere
    BY <2>2 DEF MovesElsewhere, WalletPageIndInv, HopsFit
  <2> QED BY <2>1, <2>2
<1>3. MoneyFits'
  <2>1. CASE \E h \in Hops : HopFails(h)
    BY <1>1, <2>1, MoneyStands DEF HopFails
  <2>2. CASE MovesElsewhere
    BY <2>2, <1>1 DEF MovesElsewhere, Move, walletPage, WalletPageIndInv, MoneyFits,
       WalletPageTypeOK, BalanceOfRecent
  <2> QED BY <2>1, <2>2
<1> QED BY <1>1, <1>2, <1>3 DEF WalletPageIndInv, OneRead, ReadsCurrent, WillShow

\* Every step of the wallet's page keeps the invariant.
LEMMA WalletPageStepInv == WalletPageIndInv /\ [WalletPageNext]_walletPageVars => WalletPageIndInv'
<1> SUFFICES ASSUME WalletPageIndInv, [WalletPageNext]_walletPageVars PROVE WalletPageIndInv'
  OBVIOUS
<1>1. CASE UNCHANGED walletPageVars
  BY <1>1 DEF walletPageVars, walletPage, WalletPageIndInv, MoneyFits, WalletPageTypeOK,
     BalanceOfRecent,
     HopsFit, OneRead, ReadsCurrent, WillShow, ToppedUp, Reading, IsRead
<1> QED
  BY <1>1, ShowWalletInv, OnTopupInv, TopupInv, ReadWalletInv, ReadLedgerInv, OverviewAnsweredInv,
     TopupAnsweredInv, UnseenInv DEF WalletPageNext

\* For any amounts and requests: the balance shown is that after the newest row shown, and is the
\* user's once every request was answered, but for the exceptions (my/wallet.vue).
THEOREM WalletPageAgrees == WalletPageSpec => []WalletPageInv
<1>1. WalletPageSpec => []WalletPageIndInv
  BY WalletPageInitInv, WalletPageStepInv, PTL DEF WalletPageSpec
<1> QED
  BY <1>1, WalletPageIndInvImplies, PTL

(***************************************************************************)
(* The form of an address.                                                 *)
(*                                                                         *)
(* SavedFits keeps at most one default address in the table; OneMade says  *)
(* that of the requests that create an address at most one is of the       *)
(* dialog that is open; TripsFit what is on its way.                       *)
(***************************************************************************)

Current == [a \in Known |-> saved[a]]
SavedFits ==
  /\ saved \in [Places -> {NoPlace} \cup Row]
  /\ \A a, b \in Known : saved[a].def /\ saved[b].def => a = b
RowsFit(rows) == DOMAIN rows \subseteq Places /\ \A a \in DOMAIN rows : rows[a] \in Row
TripFits(c) ==
  /\ c.kind \in {"free", "load", "listed", "create", "update", "saved", "default", "delete",
                 "changed", "refused"}
  /\ c.kind = "free" => c = NoTrip
  /\ c.kind = "listed" => RowsFit(c.rows)
  /\ c.kind = "create" => c \in [kind : {"create"}, row : Row, mine : BOOLEAN]
  /\ c.kind = "update" => c \in [kind : {"update"}, place : Places, row : Row, mine : {FALSE}]
  /\ c.kind = "saved" => c \in [kind : {"saved"}, row : Row, mine : BOOLEAN]
                               \cup [kind : {"saved"}, place : Places, row : Row, mine : BOOLEAN]
  /\ c.kind \in {"default", "delete"} => c \in [kind : {"default", "delete"}, place : Places]
TripsFit == DOMAIN trips = Trips /\ \A t \in Trips : TripFits(trips[t])
FormFits ==
  /\ editing \in Places \cup {"new", NoPlace} /\ addressForm \in Row /\ RowsFit(addresses)
  /\ again \in BOOLEAN /\ missed \in BOOLEAN /\ addressesLoading \in BOOLEAN /\ added \in 0..2

\* The requests by which the dialog that is open, or the last one, makes an address.
Makes(c) == c.kind \in {"create", "saved"} /\ c.mine
OneMade ==
  ~again => /\ added <= 1
            /\ \A s, t \in Trips : Makes(trips[s]) /\ Makes(trips[t]) => s = t
            /\ \A t \in Trips : Makes(trips[t]) /\ trips[t].kind = "create" => added = 0
            /\ editing = "new" /\ added # 0 => Unanswered

\* What will bring the list up to date.
IsListing(c) == c.kind \in {"load", "listed"}
WillLoad == \E t \in Trips : trips[t].kind \in {"saved", "changed"}
OneListing == ~missed => \A s, t \in Trips : IsListing(trips[s]) /\ IsListing(trips[t]) => s = t
ListsCurrent == ~missed => WillLoad \/ \A t \in Trips : trips[t].kind = "listed"
  => trips[t].rows = Current
WillList == ~missed => addresses = Current \/ WillLoad \/ Listing

MakesFit == OneMade
ListsFit == OneListing /\ ListsCurrent /\ WillList
AddressFormIndInv == SavedFits /\ TripsFit /\ FormFits /\ MakesFit /\ ListsFit

\* The invariant has the module's properties.
LEMMA AddressFormIndInvImplies == AddressFormIndInv => AddressFormInv
<1> SUFFICES ASSUME AddressFormIndInv PROVE AddressFormInv
  OBVIOUS
<1>1. AddressFormTypeOK
  BY DEF AddressFormIndInv, SavedFits, FormFits, AddressFormTypeOK
<1>2. AddedOnce
  BY DEF AddressFormIndInv, MakesFit, OneMade, AddedOnce
<1>3. (\A t \in Trips : trips[t] = NoTrip) => ~WillLoad /\ ~Listing
  BY DEF NoTrip, WillLoad, Listing
<1>4. AddressesCurrent
  BY <1>3 DEF AddressFormIndInv, ListsFit, WillList, Current, AddressesCurrent
<1> QED BY <1>1, <1>2, <1>4 DEF AddressFormInv

\* It holds at first.
LEMMA AddressFormInitInv == AddressFormInit => AddressFormIndInv
<1> SUFFICES ASSUME AddressFormInit PROVE AddressFormIndInv
  OBVIOUS
<1>1. PICK first \in Trips : \A s \in Trips : first <= s
  BY LeastNatural, AddressFormAssumption
<1>2. \A t \in Trips : trips[t] = IF t = first THEN Loads ELSE NoTrip
  BY <1>1, AddressFormAssumption DEF AddressFormInit
<1>3. TripsFit
  BY <1>2 DEF TripsFit, TripFits, AddressFormInit, Loads, NoTrip
<1>4. MakesFit
  BY <1>2 DEF MakesFit, OneMade, Makes, AddressFormInit, Loads, NoTrip
<1>5. ListsFit
  BY <1>2 DEF ListsFit, OneListing, ListsCurrent, WillList, IsListing, Listing, Loads, NoTrip
<1>6. FormFits
  <2>1. Blank \in Row /\ RowsFit([a \in {} |-> NoPlace])
    BY DEF Row, Blank, RowsFit
  <2>2. /\ addressForm = Blank /\ addresses = [a \in {} |-> NoPlace] /\ editing = NoPlace
        /\ added = 0
        /\ again \in BOOLEAN /\ missed \in BOOLEAN /\ addressesLoading \in BOOLEAN
    BY DEF AddressFormInit
  <2> QED BY <2>1, <2>2 DEF FormFits
<1>7. SavedFits
  BY DEF AddressFormInit, SavedFits, Row
<1> QED BY <1>3, <1>4, <1>5, <1>6, <1>7 DEF AddressFormIndInv

\* One request is replaced.
LEMMA TripInv ==
  ASSUME AddressFormIndInv, NEW t \in Trips, NEW c, trips' = [trips EXCEPT ![t] = c], TripFits(c)
  PROVE  TripsFit' /\ \A s \in Trips : trips'[s] = IF s = t THEN c ELSE trips[s]
  BY DEF AddressFormIndInv, TripsFit

\* A request that neither makes an address nor was to make one.
LEMMA MakesStand ==
  ASSUME AddressFormIndInv, NEW t \in Trips, NEW c,
         \A s \in Trips : trips'[s] = IF s = t THEN c ELSE trips[s],
         ~Makes(c), ~Makes(trips[t]), UNCHANGED <<editing, added, again>>
  PROVE  MakesFit'
  BY DEF AddressFormIndInv, MakesFit, OneMade, Makes, Unanswered

\* Requests that do not bear on the list.
LEMMA ListsStand ==
  ASSUME AddressFormIndInv, NEW t \in Trips, NEW c,
         \A s \in Trips : trips'[s] = IF s = t THEN c ELSE trips[s],
         c.kind \notin {"load", "listed"},
         trips[t].kind \notin {"load", "listed", "saved", "changed"},
         UNCHANGED <<saved, addresses, missed>>
  PROVE  ListsFit'
  BY DEF AddressFormIndInv, ListsFit, OneListing, ListsCurrent, WillList, IsListing, WillLoad,
     Listing,
         Current, Known

\* A request takes a free slot.
LEMMA FreeTrip ==
  ASSUME NEW c, Travels(c)
  PROVE  \E t \in Trips : trips[t] = NoTrip /\ trips' = [trips EXCEPT ![t] = c]
  BY DEF Travels

\* Requests that carry nothing fit.
LEMMA PlainTrips == TripFits(NoTrip) /\ TripFits(Loads) /\ NoTrip.kind = "free"
  /\ Loads.kind = "load"
  BY DEF TripFits, NoTrip, Loads

\* Only a create, and its answer, make an address.
LEMMA NotMaking == \A c : c.kind \notin {"create", "saved"} => ~Makes(c)
  BY DEF Makes

\* The table fits as long as it stays.
LEMMA SavedStands == AddressFormIndInv /\ UNCHANGED saved => SavedFits'
  BY DEF AddressFormIndInv, SavedFits, Known

\* The backend answers the list.
LEMMA ListAddressesInv ==
  ASSUME AddressFormIndInv, NEW t \in Trips, Serves(t), ListAddresses(t)
  PROVE  AddressFormIndInv'
<1>1. PICK c : c = [kind |-> "listed", rows |-> Current]
  OBVIOUS
<1>2. c.kind = "listed" /\ c.rows = Current /\ trips' = [trips EXCEPT ![t] = c]
  BY <1>1 DEF ListAddresses, Current
<1>3. RowsFit(Current)
  BY DEF RowsFit, Current, Known, AddressFormIndInv, SavedFits
<1>4. TripsFit' /\ \A s \in Trips : trips'[s] = IF s = t THEN c ELSE trips[s]
  BY <1>2, <1>3, TripInv DEF TripFits
<1>5. UNCHANGED <<saved, addressPage, added, again, missed>> /\ trips[t] = Loads
  BY DEF ListAddresses, Serves
<1>6. MakesFit'
  BY <1>2, <1>4, <1>5, PlainTrips, NotMaking, MakesStand DEF addressPage
<1>7. Current' = Current
  BY <1>5 DEF Current, Known
<1>8. ListsFit'
  BY <1>2, <1>4, <1>5, <1>7, PlainTrips DEF AddressFormIndInv, ListsFit, OneListing, ListsCurrent,
     WillList,
     IsListing, WillLoad, Listing, addressPage
<1> QED BY <1>4, <1>5, <1>6, <1>8, SavedStands DEF AddressFormIndInv, FormFits, addressPage, RowsFit

\* An address is stored, and stays the only default one if it is one.
LEMMA StoredInv ==
  ASSUME AddressFormIndInv, NEW a \in Places, NEW row \in Row, saved' = Stored(a, row)
  PROVE  SavedFits'
<1>1. PICK new : new = IF Known \subseteq {a} /\ a \notin Known
                        THEN [row EXCEPT !.def = TRUE] ELSE row
  OBVIOUS
<1>2. new \in Row /\ ((Known \subseteq {a} /\ a \notin Known) \/ new = row)
  BY <1>1 DEF Row
<1>3. PICK was : was = [p \in Places |->
                          IF p \in Known /\ row.def
                          THEN [saved[p] EXCEPT !.def = FALSE] ELSE saved[p]]
  OBVIOUS
<1>4. saved' = [p \in Places |-> IF p = a THEN new ELSE was[p]]
  BY <1>1, <1>3 DEF Stored
<1>5. ASSUME NEW p \in Places
      PROVE  /\ was[p] \in {NoPlace} \cup Row /\ (was[p] # NoPlace <=> p \in Known)
             /\ p \in Known => was[p].def \in BOOLEAN /\ (was[p].def => ~row.def /\ saved[p].def)
  <2>1. PICK r : r = saved[p]
    OBVIOUS
  <2>2. r \in {NoPlace} \cup Row /\ (p \in Known <=> r # NoPlace)
    BY <2>1 DEF AddressFormIndInv, SavedFits, Known
  <2>3. was[p] = IF p \in Known /\ row.def THEN [r EXCEPT !.def = FALSE] ELSE r
    BY <1>3, <2>1
  <2>4. CASE p \in Known /\ row.def
    <3>1. r \in Row /\ was[p] = [r EXCEPT !.def = FALSE]
      BY <2>2, <2>3, <2>4
    <3>2. was[p] \in Row /\ was[p].def = FALSE
      BY <3>1 DEF Row
    <3> QED BY <2>4, <3>2, AddressFormAssumption
  <2>5. CASE ~(p \in Known /\ row.def)
    BY <2>1, <2>2, <2>3, <2>5 DEF Row
  <2> QED BY <2>4, <2>5
<1>6. saved' \in [Places -> {NoPlace} \cup Row]
  BY <1>2, <1>4, <1>5
<1>7. Known' = Known \cup {a}
  BY <1>2, <1>4, <1>5, AddressFormAssumption DEF Known
<1>8. ASSUME NEW b \in Known', NEW c \in Known', saved'[b].def, saved'[c].def PROVE b = c
  <2>1. \A p \in {b, c} : p # a => p \in Known /\ ~row.def /\ saved[p].def
    BY <1>4, <1>5, <1>7, <1>8 DEF Known
  <2>2. \A p \in {b, c} : p = a => (Known \subseteq {a} /\ a \notin Known) \/ row.def
    BY <1>2, <1>4, <1>8 DEF Row
  <2> QED BY <2>1, <2>2 DEF AddressFormIndInv, SavedFits
<1> QED BY <1>6, <1>8 DEF SavedFits

\* A change was made: the list will be loaded.
LEMMA ChangedInv ==
  ASSUME AddressFormIndInv, NEW t \in Trips, NEW c,
         \A s \in Trips : trips'[s] = IF s = t THEN c ELSE trips[s],
         c.kind \in {"saved", "changed"}, ~IsListing(trips[t]), UNCHANGED missed
  PROVE  ListsFit'
  BY DEF AddressFormIndInv, ListsFit, OneListing, ListsCurrent, WillList, IsListing, WillLoad

\* The backend creates an address.
LEMMA CreateAddressInv ==
  ASSUME AddressFormIndInv, NEW t \in Trips, Serves(t), CreateAddress(t)
  PROVE  AddressFormIndInv'
<1>1. PICK d : d = trips[t]
  OBVIOUS
<1>2. d \in [kind : {"create"}, row : Row, mine : BOOLEAN]
  BY <1>1 DEF CreateAddress, AddressFormIndInv, TripsFit, TripFits
<1>3. PICK c : c = [d EXCEPT !.kind = "saved"]
  OBVIOUS
<1>4. c \in [kind : {"saved"}, row : Row, mine : BOOLEAN] /\ c.mine = d.mine /\ c.kind = "saved"
  BY <1>2, <1>3
<1>5. trips' = [trips EXCEPT ![t] = c]
  BY <1>1, <1>3 DEF CreateAddress
<1>6. TripsFit' /\ \A s \in Trips : trips'[s] = IF s = t THEN c ELSE trips[s]
  BY <1>4, <1>5, TripInv DEF TripFits
<1>7. SavedFits'
  BY <1>1, <1>2, StoredInv DEF CreateAddress
<1>8. /\ UNCHANGED <<addressPage, again, missed>> /\ added \in 0..2
      /\ added' = (IF d.mine /\ added < 2 THEN added + 1 ELSE added)
  BY <1>1 DEF CreateAddress, Serves, AddressFormIndInv, FormFits
<1>9. MakesFit'
  <2>1. CASE d.mine
    <3> SUFFICES ASSUME ~again' PROVE MakesFit'
      BY DEF MakesFit, OneMade
    <3>1. Makes(d) /\ added = 0 /\ added' = 1 /\ \A s \in Trips : Makes(trips[s]) => s = t
      BY <1>1, <1>2, <1>8, <2>1 DEF AddressFormIndInv, MakesFit, OneMade, Makes
    <3>2. \A s \in Trips : Makes(trips'[s]) => s = t
      BY <1>6, <3>1
    <3>3. Makes(trips'[t]) /\ trips'[t].kind = "saved"
      BY <1>4, <1>6, <2>1 DEF Makes
    <3> QED BY <3>1, <3>2, <3>3 DEF MakesFit, OneMade, Makes, Unanswered
  <2>2. CASE ~d.mine
    BY <1>1, <1>4, <1>6, <1>8, <2>2, MakesStand DEF Makes, addressPage
  <2> QED BY <2>1, <2>2
<1>10. ListsFit'
  BY <1>1, <1>2, <1>4, <1>6, <1>8, ChangedInv DEF IsListing
<1> QED BY <1>6, <1>7, <1>8, <1>9, <1>10 DEF AddressFormIndInv, FormFits, RowsFit, addressPage

\* The backend updates one.
LEMMA UpdateAddressInv ==
  ASSUME AddressFormIndInv, NEW t \in Trips, Serves(t), UpdateAddress(t)
  PROVE  AddressFormIndInv'
<1>1. PICK d : d = trips[t]
  OBVIOUS
<1>2. d \in [kind : {"update"}, place : Places, row : Row, mine : {FALSE}]
  BY <1>1 DEF UpdateAddress, AddressFormIndInv, TripsFit, TripFits
<1>3. PICK c : c = [d EXCEPT !.kind = "saved"]
  OBVIOUS
<1>4. c \in [kind : {"saved"}, place : Places, row : Row, mine : BOOLEAN] /\ c.mine = FALSE
        /\ c.kind = "saved"
  BY <1>2, <1>3
<1>5. trips' = [trips EXCEPT ![t] = c]
  BY <1>1, <1>3 DEF UpdateAddress
<1>6. TripsFit' /\ \A s \in Trips : trips'[s] = IF s = t THEN c ELSE trips[s]
  BY <1>4, <1>5, TripInv DEF TripFits
<1>7. SavedFits'
  BY <1>1, <1>2, StoredInv DEF UpdateAddress
<1>8. UNCHANGED <<addressPage, again, missed, added>>
  BY DEF UpdateAddress, Serves
<1>9. MakesFit'
  BY <1>1, <1>2, <1>4, <1>6, <1>8, MakesStand DEF Makes, addressPage
<1>10. ListsFit'
  BY <1>1, <1>2, <1>4, <1>6, <1>8, ChangedInv DEF IsListing
<1> QED BY <1>6, <1>7, <1>8, <1>9, <1>10 DEF AddressFormIndInv, FormFits, RowsFit, addressPage

\* The backend removes one.
LEMMA RemoveAddressInv ==
  ASSUME AddressFormIndInv, NEW t \in Trips, Serves(t), RemoveAddress(t)
  PROVE  AddressFormIndInv'
<1>1. PICK d : d = trips[t]
  OBVIOUS
<1>2. d \in [kind : {"default", "delete"}, place : Places] /\ d.kind = "delete"
  BY <1>1 DEF RemoveAddress, AddressFormIndInv, TripsFit, TripFits
<1>3. PICK c : c = [d EXCEPT !.kind = "changed"]
  OBVIOUS
<1>4. c.kind = "changed"
  BY <1>2, <1>3
<1>5. trips' = [trips EXCEPT ![t] = c]
  BY <1>1, <1>3 DEF RemoveAddress
<1>6. TripsFit' /\ \A s \in Trips : trips'[s] = IF s = t THEN c ELSE trips[s]
  BY <1>4, <1>5, TripInv DEF TripFits
<1> DEFINE gone == d.place
           rest == Known \ {gone}
<1>7. PICK next \in (IF saved[gone].def /\ rest # {} THEN rest ELSE {NoPlace}) :
        saved' = [p \in Places |-> IF p = gone THEN NoPlace
                                   ELSE IF p = next THEN [saved[p] EXCEPT !.def = TRUE]
                                   ELSE saved[p]]
  BY <1>1 DEF RemoveAddress
<1>8. SavedFits'
  <2>0. gone \in Known
    BY <1>1 DEF RemoveAddress
  <2>1. next = NoPlace \/ (next \in rest /\ saved[gone].def)
    BY <1>7
  <2>2. \A p \in Known : p \in Places /\ saved[p] \in Row
    BY DEF Known, AddressFormIndInv, SavedFits
  <2>3. ASSUME NEW p \in Places
        PROVE  /\ saved'[p] \in {NoPlace} \cup Row /\ (saved'[p] # NoPlace <=> p \in rest)
               /\ p \in rest /\ saved'[p].def => p = next \/ saved[p].def
    <3>1. PICK r : r = saved[p]
      OBVIOUS
    <3>2. saved'[p] = IF p = gone THEN NoPlace ELSE IF p = next THEN [r EXCEPT !.def = TRUE] ELSE r
      BY <1>7, <3>1
    <3>3. r \in {NoPlace} \cup Row /\ (p \in Known <=> r # NoPlace)
      BY <3>1 DEF AddressFormIndInv, SavedFits, Known
    <3>4. CASE p # gone /\ p = next
      <4>1. r \in Row /\ p \in rest
        BY <2>1, <2>2, <3>1, <3>4, AddressFormAssumption
      <4>2. saved'[p] = [r EXCEPT !.def = TRUE]
        BY <3>2, <3>4
      <4>3. saved'[p] \in Row
        BY <4>1, <4>2 DEF Row
      <4> QED BY <3>4, <4>1, <4>3, AddressFormAssumption
    <3>5. CASE ~(p # gone /\ p = next)
      BY <3>1, <3>2, <3>3, <3>5
    <3> QED BY <3>4, <3>5
  <2>4. saved' \in [Places -> {NoPlace} \cup Row]
    BY <1>7, <2>3
  <2>5. Known' = rest
    BY <2>2, <2>3 DEF Known
  <2>6. ASSUME NEW a \in Known', NEW b \in Known', saved'[a].def, saved'[b].def PROVE a = b
    <3>1. a \in rest /\ b \in rest /\ a \in Places /\ b \in Places
      BY <2>2, <2>5, <2>6
    <3>2. (a = next \/ saved[a].def) /\ (b = next \/ saved[b].def)
      BY <2>3, <2>6, <3>1
    <3>3. \A x, y \in Known : saved[x].def /\ saved[y].def => x = y
      BY DEF AddressFormIndInv, SavedFits
    <3>4. next \notin rest => a # next /\ b # next
      BY <3>1
    <3>5. next \in rest => next \in Known /\ ~saved[a].def /\ ~saved[b].def
      <4>1. rest \subseteq Places
        BY DEF Known
      <4>2. next \in rest => next \in Known /\ saved[gone].def
        BY <2>1, <4>1, AddressFormAssumption
      <4>3. \A x \in rest : saved[gone].def => ~saved[x].def
        BY <2>0, <3>3
      <4> QED BY <3>1, <4>2, <4>3
    <3> QED BY <3>1, <3>2, <3>3, <3>4, <3>5
  <2> QED BY <2>4, <2>6 DEF SavedFits
<1>9. UNCHANGED <<addressPage, again, missed, added>>
  BY DEF RemoveAddress, Serves
<1>10. MakesFit'
  BY <1>1, <1>2, <1>4, <1>6, <1>9, MakesStand DEF Makes, addressPage
<1>11. ListsFit'
  BY <1>1, <1>2, <1>4, <1>6, <1>9, ChangedInv DEF IsListing
<1> QED BY <1>6, <1>8, <1>9, <1>10, <1>11 DEF AddressFormIndInv, FormFits, RowsFit, addressPage

\* The backend refuses the body of the button that makes an address the default.
LEMMA ValidationRefusesInv ==
  ASSUME AddressFormIndInv, NEW t \in Trips, Serves(t), ValidationRefuses(t)
  PROVE  AddressFormIndInv'
<1>1. PICK c : c = [trips[t] EXCEPT !.kind = "refused"]
  OBVIOUS
<1>2. c.kind = "refused" /\ trips' = [trips EXCEPT ![t] = c]
  BY <1>1 DEF ValidationRefuses, AddressFormIndInv, TripsFit, TripFits
<1>3. TripFits(c)
  BY <1>2 DEF TripFits
<1>33. TripsFit' /\ \A s \in Trips : trips'[s] = IF s = t THEN c ELSE trips[s]
  BY <1>2, <1>3, TripInv
<1>4. UNCHANGED <<saved, addressPage, again, missed, added>> /\ trips[t].kind = "default"
  BY DEF ValidationRefuses, Serves
<1>5. MakesFit' /\ ListsFit'
  BY <1>2, <1>33, <1>4, MakesStand, ListsStand DEF Makes, addressPage
<1> QED BY <1>33, <1>4, <1>5, SavedStands DEF AddressFormIndInv, FormFits, RowsFit, addressPage

\* The backend.
LEMMA ServesInv ==
  ASSUME AddressFormIndInv, NEW t \in Trips, Serves(t)
  PROVE  AddressFormIndInv'
  BY ListAddressesInv, CreateAddressInv, UpdateAddressInv, RemoveAddressInv, ValidationRefusesInv
     DEF Serves

\* The list is asked for.
LEMMA AskedInv ==
  ASSUME AddressFormIndInv, NEW t \in Trips,
         \A s \in Trips : trips'[s] = IF s = t THEN Loads ELSE trips[s],
         missed' = (missed \/ Listing), ~IsListing(trips[t])
  PROVE  ListsFit' /\ missed' \in BOOLEAN
<1>1. ~missed' => ~missed /\ \A s \in Trips : ~IsListing(trips[s])
  BY DEF Listing, IsListing, AddressFormIndInv, FormFits
<1>2. ~missed' => \A s \in Trips : IsListing(trips'[s]) => s = t
  BY <1>1
<1>3. trips'[t].kind = "load"
  BY PlainTrips
<1>4. missed' \in BOOLEAN
  BY DEF Listing
<1> QED BY <1>2, <1>3, <1>4 DEF ListsFit, OneListing, ListsCurrent, WillList, Listing, IsListing

\* The page is shown, and loads.
LEMMA ShowAddressesInv == AddressFormIndInv /\ ShowAddresses => AddressFormIndInv'
<1> SUFFICES ASSUME AddressFormIndInv, ShowAddresses PROVE AddressFormIndInv'
  OBVIOUS
<1>1. PICK t \in Trips : trips[t] = NoTrip /\ trips' = [trips EXCEPT ![t] = Loads]
  BY FreeTrip DEF ShowAddresses
<1>2. TripsFit' /\ \A s \in Trips : trips'[s] = IF s = t THEN Loads ELSE trips[s]
  BY <1>1, TripInv, PlainTrips
<1>3. ListsFit' /\ missed' \in BOOLEAN
  BY <1>1, <1>2, AskedInv, PlainTrips DEF ShowAddresses, IsListing
<1>4. MakesFit'
  BY <1>1, <1>2, MakesStand, NotMaking, PlainTrips DEF ShowAddresses
<1> QED BY <1>2, <1>3, <1>4, SavedStands DEF ShowAddresses, AddressFormIndInv, FormFits, RowsFit

\* The list was answered.
LEMMA AddressesAnsweredInv ==
  ASSUME AddressFormIndInv, NEW t \in Trips, AddressesAnswered(t)
  PROVE  AddressFormIndInv'
<1>1. PICK d : d = trips[t]
  OBVIOUS
<1>2. d.kind = "listed" /\ RowsFit(d.rows) /\ addresses' = d.rows
  BY <1>1 DEF AddressesAnswered, AddressFormIndInv, TripsFit, TripFits
<1>3. TripsFit' /\ \A s \in Trips : trips'[s] = IF s = t THEN NoTrip ELSE trips[s]
  BY TripInv, PlainTrips DEF AddressesAnswered
<1>4. MakesFit'
  BY <1>1, <1>2, <1>3, MakesStand, NotMaking, PlainTrips DEF AddressesAnswered
<1>5. Current' = Current /\ UNCHANGED missed
  BY DEF AddressesAnswered, Current, Known
<1>6. OneListing'
  BY <1>3, <1>5, PlainTrips DEF AddressFormIndInv, ListsFit, OneListing, IsListing
<1>7. WillLoad => WillLoad'
  BY <1>1, <1>2, <1>3 DEF WillLoad
<1>8. ListsCurrent' /\ WillList'
  BY <1>1, <1>2, <1>3, <1>5, <1>7, PlainTrips DEF AddressFormIndInv, ListsFit, ListsCurrent,
     WillList
<1> QED BY <1>2, <1>3, <1>4, <1>6, <1>8, SavedStands
        DEF AddressesAnswered, AddressFormIndInv, FormFits, RowsFit, ListsFit

\* A save or a change was answered, and the page loads.
LEMMA LoadAgainInv ==
  ASSUME AddressFormIndInv, NEW t \in Trips, SaveAnswered(t) \/ ChangeAnswered(t)
  PROVE  AddressFormIndInv'
<1>1. /\ trips[t].kind \in {"saved", "changed"} /\ trips' = [trips EXCEPT ![t] = Loads]
      /\ addressesLoading' = TRUE
      /\ missed' = (missed \/ Listing) /\ UNCHANGED <<saved, addresses, added, again>>
  BY DEF SaveAnswered, ChangeAnswered, LoadAgain
<1>2. TripsFit' /\ \A s \in Trips : trips'[s] = IF s = t THEN Loads ELSE trips[s]
  BY <1>1, TripInv, PlainTrips
<1>3. ListsFit' /\ missed' \in BOOLEAN
  BY <1>1, <1>2, AskedInv DEF IsListing
<1>4. Blank \in Row
  BY DEF Blank, Row
<1>5. editing' \in Places \cup {"new", NoPlace} /\ addressForm' \in Row
  BY <1>4 DEF SaveAnswered, ChangeAnswered, FillForm, AddressFormIndInv, FormFits
<1>6. MakesFit'
  <2>1. CASE ChangeAnswered(t)
    BY <1>2, <2>1, MakesStand, NotMaking, PlainTrips DEF ChangeAnswered
  <2>2. CASE SaveAnswered(t)
    <3>1. editing' # "new"
      BY <2>2, AddressFormAssumption DEF SaveAnswered, FillForm
    <3>2. \A s \in Trips : Makes(trips'[s]) => Makes(trips[s]) /\ trips'[s] = trips[s]
      BY <1>2, PlainTrips DEF Makes
    <3> QED BY <1>1, <3>1, <3>2 DEF AddressFormIndInv, MakesFit, OneMade
  <2> QED BY <2>1, <2>2
<1> QED BY <1>1, <1>2, <1>3, <1>5, <1>6, SavedStands DEF AddressFormIndInv, FormFits, RowsFit

\* The dialog, while the requests stand.
LEMMA DialogInv ==
  AddressFormIndInv /\ ((\E a \in Places : OnEdit(a)) \/ CloseModal \/ OnFields)
    => AddressFormIndInv'
<1> SUFFICES ASSUME AddressFormIndInv, (\E a \in Places : OnEdit(a)) \/ CloseModal \/ OnFields
             PROVE  AddressFormIndInv'
  OBVIOUS
<1>1. UNCHANGED <<saved, addresses, addressesLoading, missed, trips, added, again>>
  BY DEF OnEdit, CloseModal, OnFields, OnAddressPage
<1>2. editing' \in Places \cup {"new", NoPlace} /\ addressForm' \in Row
        /\ (editing' = "new" => editing = "new")
  <2>1. Blank \in Row /\ \A text \in Texts, def \in BOOLEAN : [text |-> text, def |-> def] \in Row
    BY DEF Blank, Row
  <2>2. CASE CloseModal
    BY <2>1, <2>2, AddressFormAssumption DEF CloseModal, FillForm
  <2>3. CASE OnFields
    BY <2>1, <2>3 DEF OnFields, AddressFormIndInv, FormFits
  <2>4. ASSUME NEW a \in Places, OnEdit(a) PROVE editing' = a /\ addressForm' \in Row
    BY <2>4 DEF OnEdit, FillForm, AddressFormIndInv, FormFits, RowsFit
  <2> QED BY <2>2, <2>3, <2>4, AddressFormAssumption
<1>3. MakesFit'
  BY <1>1, <1>2 DEF AddressFormIndInv, MakesFit, OneMade, Unanswered
<1>4. ListsFit' /\ TripsFit'
  BY <1>1 DEF AddressFormIndInv, ListsFit, OneListing, ListsCurrent, WillList, WillLoad, Listing,
     Current, Known, TripsFit
<1> QED BY <1>1, <1>2, <1>3, <1>4, SavedStands DEF AddressFormIndInv, FormFits, RowsFit

\* The dialog for a new address opens.
LEMMA OnAddInv == AddressFormIndInv /\ OnAdd => AddressFormIndInv'
<1> SUFFICES ASSUME AddressFormIndInv, OnAdd PROVE AddressFormIndInv'
  OBVIOUS
<1>1. ASSUME NEW t \in Trips
      PROVE  /\ TripFits(trips'[t]) /\ ~Makes(trips'[t]) /\ trips'[t].kind = trips[t].kind
             /\ trips[t].kind = "listed" => trips'[t] = trips[t]
  <2>1. PICK d : d = trips[t]
    OBVIOUS
  <2>2. TripFits(d)
    BY <2>1 DEF AddressFormIndInv, TripsFit
  <2>3. PICK c : c = IF d.kind \in {"create", "saved"} THEN [d EXCEPT !.mine = FALSE] ELSE d
    OBVIOUS
  <2>4. CASE d.kind = "create"
    <3>1. c \in [kind : {"create"}, row : Row, mine : BOOLEAN] /\ c.mine = FALSE
      BY <2>2, <2>3, <2>4 DEF TripFits
    <3> QED BY <2>1, <2>3, <2>4, <3>1 DEF OnAdd, TripFits, Makes
  <2>5. CASE d.kind = "saved"
    <3>1. /\ c \in [kind : {"saved"}, row : Row, mine : BOOLEAN]
                     \cup [kind : {"saved"}, place : Places, row : Row, mine : BOOLEAN]
          /\ c.mine = FALSE /\ c.kind = "saved"
      BY <2>2, <2>3, <2>5 DEF TripFits
    <3> QED BY <2>1, <2>3, <2>5, <3>1 DEF OnAdd, TripFits, Makes
  <2>6. CASE d.kind \notin {"create", "saved"}
    BY <2>1, <2>2, <2>6 DEF OnAdd, Makes
  <2> QED BY <2>4, <2>5, <2>6
<1>2. TripsFit'
  BY <1>1 DEF OnAdd, TripsFit
<1>3. MakesFit'
  BY <1>1 DEF OnAdd, MakesFit, OneMade
<1>4. ListsFit'
  BY <1>1 DEF OnAdd, OnAddressPage, AddressFormIndInv, ListsFit, OneListing, ListsCurrent,
     WillList, WillLoad, Listing,
     IsListing, Current, Known
<1>5. Blank \in Row
  BY DEF Blank, Row
<1>6. /\ editing' = "new" /\ addressForm' = Blank /\ added' = 0 /\ again' \in BOOLEAN
      /\ UNCHANGED <<saved, addresses, addressesLoading, missed>>
  BY DEF OnAdd, OnAddressPage, FillForm
<1>7. FormFits'
  BY <1>5, <1>6 DEF AddressFormIndInv, FormFits, RowsFit
<1> QED BY <1>2, <1>3, <1>4, <1>6, <1>7, SavedStands DEF AddressFormIndInv

\* The dialog is saved.
LEMMA OnSaveInv == AddressFormIndInv /\ OnSave => AddressFormIndInv'
<1> SUFFICES ASSUME AddressFormIndInv, OnSave PROVE AddressFormIndInv'
  OBVIOUS
<1>1. PICK c : /\ Travels(c) /\ TripFits(c) /\ c.kind \in {"create", "update"}
               /\ Makes(c) <=> editing = "new"
  <2>1. addressForm \in Row /\ (editing # "new" => editing \in Places)
    BY DEF OnSave, AddressFormIndInv, FormFits
  <2>2. CASE editing = "new"
    <3>1. PICK c : c = [kind |-> "create", row |-> addressForm, mine |-> TRUE]
      OBVIOUS
    <3>2. Travels(c)
      BY <2>2, <3>1 DEF OnSave
    <3>3. TripFits(c) /\ Makes(c) /\ c.kind = "create"
      BY <2>1, <3>1 DEF TripFits, Makes
    <3> QED BY <2>2, <3>2, <3>3
  <2>3. CASE editing # "new"
    <3>1. PICK c : c = [kind |-> "update", place |-> editing, row |-> addressForm, mine |-> FALSE]
      OBVIOUS
    <3>2. Travels(c)
      BY <2>3, <3>1 DEF OnSave
    <3>3. TripFits(c) /\ ~Makes(c) /\ c.kind = "update"
      BY <2>1, <2>3, <3>1 DEF TripFits, Makes
    <3> QED BY <2>3, <3>2, <3>3
  <2> QED BY <2>2, <2>3
<1>2. PICK t \in Trips : trips[t] = NoTrip /\ trips' = [trips EXCEPT ![t] = c]
  BY <1>1, FreeTrip
<1>3. TripsFit' /\ \A s \in Trips : trips'[s] = IF s = t THEN c ELSE trips[s]
  BY <1>1, <1>2, TripInv
<1>4. UNCHANGED <<saved, addresses, addressesLoading, missed, editing, addressForm, added>>
      /\ again' = (again \/ (editing = "new" /\ Unanswered))
  BY DEF OnSave, OnAddressPage
<1>5. ListsFit'
  BY <1>1, <1>2, <1>3, <1>4, ListsStand, PlainTrips
<1>6. MakesFit'
  <2> SUFFICES ASSUME ~again' PROVE MakesFit'
    BY DEF MakesFit, OneMade
  <2>1. ~again /\ (editing = "new" => ~Unanswered)
    BY <1>4 DEF AddressFormIndInv, FormFits
  <2>2. editing = "new" => added = 0 /\ \A s \in Trips : ~Makes(trips[s])
    BY <2>1 DEF AddressFormIndInv, MakesFit, OneMade, Makes, Unanswered
  <2>3. CASE editing = "new"
    BY <1>3, <1>4, <2>2, <2>3 DEF MakesFit, OneMade
  <2>4. CASE editing # "new"
    BY <1>1, <1>3, <1>4, <2>1, <2>4 DEF AddressFormIndInv, MakesFit, OneMade
  <2> QED BY <2>3, <2>4
<1>7. again' \in BOOLEAN
  BY <1>4 DEF Unanswered, AddressFormIndInv, FormFits
<1> QED BY <1>3, <1>4, <1>5, <1>6, <1>7, SavedStands DEF AddressFormIndInv, FormFits, RowsFit

\* The buttons of a row.
LEMMA OnRowInv ==
  ASSUME AddressFormIndInv, NEW a \in Places, OnSetDefault(a) \/ OnDelete(a)
  PROVE  AddressFormIndInv'
<1>1. PICK kind \in {"default", "delete"} : Travels([kind |-> kind, place |-> a])
  BY DEF OnSetDefault, OnDelete
<1>2. PICK c : c = [kind |-> kind, place |-> a]
  OBVIOUS
<1>3. TripFits(c) /\ c.kind \in {"default", "delete"}
  BY <1>2 DEF TripFits
<1>4. PICK t \in Trips : trips[t] = NoTrip /\ trips' = [trips EXCEPT ![t] = c]
  BY <1>1, <1>2, FreeTrip
<1>5. TripsFit' /\ \A s \in Trips : trips'[s] = IF s = t THEN c ELSE trips[s]
  BY <1>3, <1>4, TripInv
<1>6. UNCHANGED <<saved, addresses, addressesLoading, missed, editing, addressForm, added, again>>
  BY DEF OnSetDefault, OnDelete, OnAddressPage
<1>7. ListsFit' /\ MakesFit'
  BY <1>3, <1>4, <1>5, <1>6, ListsStand, MakesStand, NotMaking, PlainTrips
<1> QED BY <1>5, <1>6, <1>7, SavedStands DEF AddressFormIndInv, FormFits, RowsFit

\* A request fails.
LEMMA TripFailsInv ==
  ASSUME AddressFormIndInv, NEW t \in Trips, TripFails(t)
  PROVE  AddressFormIndInv'
<1>1. TripsFit' /\ \A s \in Trips : trips'[s] = IF s = t THEN NoTrip ELSE trips[s]
  BY TripInv, PlainTrips DEF TripFails
<1>2. ListsFit'
  BY DEF TripFails, ListsFit, OneListing, ListsCurrent, WillList
<1>3. MakesFit'
  <2> SUFFICES ASSUME ~again' PROVE MakesFit'
    BY DEF MakesFit, OneMade
  <2>1. ~again /\ ~(trips[t].kind = "saved" /\ trips[t].mine)
    BY DEF TripFails, AddressFormIndInv, FormFits
  <2>2. \A s \in Trips : Makes(trips'[s]) => Makes(trips[s]) /\ trips'[s] = trips[s]
    BY <1>1, PlainTrips DEF Makes
  <2>3. editing = "new" /\ added # 0 => Unanswered'
    <3>1. Unanswered => \E s \in Trips : Makes(trips[s])
      BY DEF Unanswered, Makes
    <3>2. added # 0 => \A s \in Trips : Makes(trips[s]) => trips[s].kind = "saved"
      BY <2>1 DEF AddressFormIndInv, MakesFit, OneMade, Makes
    <3>3. added # 0 => \A s \in Trips : Makes(trips[s]) => trips'[s] = trips[s]
      BY <1>1, <2>1, <3>2 DEF Makes
    <3> QED BY <2>1, <3>1, <3>3 DEF AddressFormIndInv, MakesFit, OneMade, Makes, Unanswered
  <2> QED BY <2>1, <2>2, <2>3 DEF TripFails, AddressFormIndInv, MakesFit, OneMade
<1>4. again' \in BOOLEAN /\ missed' \in BOOLEAN /\ addressesLoading' \in BOOLEAN
  BY DEF TripFails, AddressFormIndInv, FormFits
<1> QED BY <1>1, <1>2, <1>3, <1>4, SavedStands DEF TripFails, AddressFormIndInv, FormFits, RowsFit

\* Every step of the addresses keeps the invariant.
LEMMA AddressFormStepInv == AddressFormIndInv
  /\ [AddressFormNext]_addressFormVars => AddressFormIndInv'
<1> SUFFICES ASSUME AddressFormIndInv, [AddressFormNext]_addressFormVars PROVE AddressFormIndInv'
  OBVIOUS
<1>1. CASE UNCHANGED addressFormVars
  BY <1>1, SavedStands DEF addressFormVars, addressPage, AddressFormIndInv, TripsFit, FormFits,
     RowsFit, MakesFit,
     OneMade, Unanswered, ListsFit, OneListing, ListsCurrent, WillList, WillLoad, Listing,
       Current, Known
<1>2. ASSUME NEW t \in Trips, TripGoesOn(t) PROVE AddressFormIndInv'
  BY <1>2, ServesInv, AddressesAnsweredInv, LoadAgainInv, TripFailsInv DEF TripGoesOn
<1>3. ASSUME NEW a \in Places, OnEdit(a) \/ OnSetDefault(a) \/ OnDelete(a) PROVE AddressFormIndInv'
  BY <1>3, DialogInv, OnRowInv
<1> QED
  BY <1>1, <1>2, <1>3, ShowAddressesInv, OnAddInv, DialogInv, OnSaveInv DEF AddressFormNext

\* For any addresses and requests: a dialog that is not saved again before, or without, an answer
\* makes one address, and the list is that of the table once it was answered (my/addresses.vue).
THEOREM AddressesSavedOnce == AddressFormSpec => []AddressFormInv
<1>1. AddressFormSpec => []AddressFormIndInv
  BY AddressFormInitInv, AddressFormStepInv, PTL DEF AddressFormSpec
<1> QED
  BY <1>1, AddressFormIndInvImplies, PTL

(***************************************************************************)
(* The form of the profile.                                                *)
(*                                                                         *)
(* OneAtATime is the argument: while no two requests crossed, the one on   *)
(* its way belongs to the page that is open, so its answer is what the     *)
(* user waits for.  AvatarsFit and ExitsFit follow a photo that is only on *)
(* the device, and the timer that leaves the page.                         *)
(***************************************************************************)

Form == [nick : Nicks \cup {NoNick}, avatar : Avatars]
Complete == [nick : Nicks, avatar : Avatars \ {"none"}]
PendFits(c) ==
  \/ c = Idle
  \/ c \in [kind : {"load", "phone", "upload"}, own : BOOLEAN]
  \/ c \in [kind : {"save"}, own : BOOLEAN, form : Complete]
  \/ c \in [kind : {"answer"}, to : {"load", "phone", "save"}, own : BOOLEAN, user : Form]
PendsFit == DOMAIN pends = Pends /\ \A p \in Pends : PendFits(pends[p])
PageFits ==
  /\ account \in Form /\ userShown \in Form /\ profile \in Form
  /\ there \in BOOLEAN /\ saving \in BOOLEAN /\ profileLoading \in BOOLEAN
  /\ {strayed, hurried, crossed, broken} \subseteq BOOLEAN
  /\ exits \in Nat

For(c) == IF c.kind = "answer" THEN c.to ELSE c.kind
\* While no two requests crossed there is one at a time, of the page that is open, which waits
\* for it.
OneAtATime ==
  ~crossed =>
    /\ \A p, q \in Pends : pends[p] # Idle /\ pends[q] # Idle => p = q
    /\ \A p \in Pends : pends[p] # Idle =>
         /\ pends[p].own <=> there
         /\ there => IF For(pends[p]) = "load" THEN profileLoading /\ profile = Empty ELSE saving
    /\ ~there => profile = Empty
\* A path on the device stays in the form until the upload ends.
AvatarsFit ==
  ~crossed /\ ~broken =>
    /\ account.avatar # "temp"
    /\ profile.avatar = "temp" => \E p \in Pends : pends[p].kind = "upload"
    /\ \A p \in Pends : pends[p].kind = "save" => pends[p].form.avatar # "temp"
\* A save leads to one timer, on the page that is open.
ExitsFit ==
  ~crossed /\ ~hurried =>
    /\ ~strayed /\ exits <= 1 /\ (exits > 0 => there)
    /\ \A p \in Pends : pends[p] # Idle /\ For(pends[p]) = "save" => exits = 0 /\ there
UserFits ==
  ~crossed /\ ~broken =>
    /\ \A p \in Pends : pends[p].kind = "answer" => pends[p].user = account
    /\ userShown = account \/ \E p \in Pends : pends[p].kind = "answer"

ProfileIndInv == PendsFit /\ PageFits /\ OneAtATime /\ AvatarsFit /\ ExitsFit /\ UserFits

\* The invariant has the module's properties.
LEMMA ProfileIndInvImplies == ProfileIndInv => ProfileInv
<1> SUFFICES ASSUME ProfileIndInv PROVE ProfileInv
  OBVIOUS
<1>1. ProfileTypeOK
  BY DEF ProfileIndInv, PendsFit, PendFits, PageFits, Form, Complete, ProfileTypeOK, Idle
<1>2. BackOnce /\ StoredUploaded
  BY DEF ProfileIndInv, AvatarsFit, ExitsFit, BackOnce, StoredUploaded
<1>3. ~Underway => \A p \in Pends : pends[p].kind # "answer"
  BY DEF Underway, Idle
<1>4. UserCurrent
  BY <1>3 DEF ProfileIndInv, UserFits, UserCurrent
<1> QED BY <1>1, <1>2, <1>4 DEF ProfileInv

\* It holds at first.
LEMMA ProfileInitInv == ProfileInit => ProfileIndInv
<1> SUFFICES ASSUME ProfileInit PROVE ProfileIndInv
  OBVIOUS
<1>1. \A p \in Pends : pends[p] = Idle
  BY DEF ProfileInit
<1>2. PendsFit
  BY <1>1 DEF ProfileInit, PendsFit, PendFits
<1>3. PageFits
  <2>1. Empty \in Form /\ account \in Form /\ userShown \in Form
    BY DEF ProfileInit, Form, Empty, Avatars
  <2> QED BY <2>1 DEF ProfileInit, PageFits
<1>4. OneAtATime /\ UserFits
  BY <1>1 DEF ProfileInit, OneAtATime, UserFits, Idle
<1>5. ExitsFit
  BY <1>1 DEF ProfileInit, ExitsFit
<1>6. AvatarsFit
  BY <1>1 DEF ProfileInit, AvatarsFit, Idle, Empty
<1> QED BY <1>2, <1>3, <1>4, <1>5, <1>6 DEF ProfileIndInv

\* A slot holds a request that fits.
LEMMA PendOf ==
  ASSUME ProfileIndInv, NEW p \in Pends
  PROVE  /\ PendFits(pends[p])
         /\ pends[p] = Idle <=> pends[p].kind = "idle"
         /\ pends[p] # Idle => pends[p].own \in BOOLEAN
              /\ For(pends[p]) \in {"load", "phone", "upload", "save"}
<1>1. PICK c : c = pends[p]
  OBVIOUS
<1>2. PendFits(c)
  BY <1>1 DEF ProfileIndInv, PendsFit
<1>3. c = Idle <=> c.kind = "idle"
  BY <1>2 DEF PendFits, Idle
<1>4. c # Idle => c.own \in BOOLEAN /\ For(c) \in {"load", "phone", "upload", "save"}
  BY <1>2 DEF PendFits, For
<1> QED BY <1>1, <1>2, <1>3, <1>4

\* One request is replaced.
LEMMA PendInv ==
  ASSUME ProfileIndInv, NEW p \in Pends, NEW c, pends' = [pends EXCEPT ![p] = c], PendFits(c)
  PROVE  PendsFit' /\ \A q \in Pends : pends'[q] = IF q = p THEN c ELSE pends[q]
  BY DEF ProfileIndInv, PendsFit

\* The backend answers a request.
LEMMA ServeInv ==
  ASSUME ProfileIndInv, NEW p \in Pends, Serve(p)
  PROVE  ProfileIndInv'
<1>1. PICK d : d = pends[p]
  OBVIOUS
<1>2. PendFits(d) /\ d.kind \in {"load", "phone", "save"} /\ d # Idle /\ d.own \in BOOLEAN
      /\ account' = (IF d.kind = "save" THEN d.form ELSE account)
  BY <1>1, PendOf DEF Serve, Idle
<1>3. account' \in Form /\ (d.kind = "save" => d.form \in Form)
  BY <1>2 DEF PendFits, Complete, Form, ProfileIndInv, PageFits, Idle
<1>4. PICK u : u = account'
  OBVIOUS
<1>5. PICK c : c = [kind |-> "answer", to |-> d.kind, own |-> d.own, user |-> u]
  OBVIOUS
<1>6. PendFits(c) /\ c.kind = "answer" /\ c # Idle /\ For(c) = d.kind /\ For(d) = d.kind
        /\ c.own = d.own /\ c.user = u
  BY <1>2, <1>3, <1>4, <1>5 DEF PendFits, For, Idle
<1>7. pends' = [pends EXCEPT ![p] = c]
  BY <1>1, <1>4, <1>5 DEF Serve
<1>8. PendsFit' /\ \A q \in Pends : pends'[q] = IF q = p THEN c ELSE pends[q]
  BY <1>6, <1>7, PendInv
<1>9. UNCHANGED <<userShown, there, profile, saving, profileLoading, exits, strayed, hurried,
                  crossed, broken>>
  BY DEF Serve, profilePage, profileHistory
<1>10. OneAtATime' /\ ExitsFit'
  BY <1>1, <1>2, <1>6, <1>8, <1>9 DEF ProfileIndInv, OneAtATime, ExitsFit
<1>11. AvatarsFit'
  BY <1>1, <1>2, <1>6, <1>8, <1>9 DEF ProfileIndInv, AvatarsFit
<1>12. UserFits'
  <2> SUFFICES ASSUME ~crossed, ~broken PROVE UserFits'
    BY <1>9 DEF UserFits
  <2>1. \A q \in Pends : q # p => pends'[q] = Idle
    BY <1>1, <1>2, <1>8 DEF ProfileIndInv, OneAtATime
  <2> QED BY <1>4, <1>6, <1>8, <2>1 DEF UserFits, Idle
<1> QED BY <1>3, <1>8, <1>9, <1>10, <1>11, <1>12 DEF ProfileIndInv, PageFits

\* A request is sent, and the page waits for it.
LEMMA SentInv ==
  ASSUME ProfileIndInv, NEW c, Posts(c), PendFits(c), c # Idle,
         c.kind \in {"load", "phone", "upload"}, c.own = TRUE,
         crossed' = (crossed \/ Underway), there' = TRUE, PageFits',
         IF c.kind = "load" THEN profileLoading' /\ profile' = Empty ELSE saving',
         UNCHANGED <<account, userShown, exits, strayed, hurried, broken>>,
         profile'.avatar = "temp" => c.kind = "upload" \/ profile.avatar = "temp"
  PROVE  ProfileIndInv'
<1>1. PICK p \in Pends : pends[p] = Idle /\ pends' = [pends EXCEPT ![p] = c]
  BY DEF Posts
<1>2. PendsFit' /\ \A q \in Pends : pends'[q] = IF q = p THEN c ELSE pends[q]
  BY <1>1, PendInv
<1>3. ~crossed' => ~crossed /\ \A q \in Pends : pends[q] = Idle
  BY DEF Underway, ProfileIndInv, PageFits
<1>4. For(c) = c.kind
  BY DEF For
<1>5. OneAtATime'
  BY <1>2, <1>3, <1>4 DEF OneAtATime
<1>6. AvatarsFit'
  <2> SUFFICES ASSUME ~crossed', ~broken' PROVE AvatarsFit'
    BY DEF AvatarsFit
  <2>1. account.avatar # "temp" /\ profile.avatar # "temp"
    BY <1>3 DEF ProfileIndInv, AvatarsFit, Idle
  <2> QED BY <1>2, <1>3, <2>1 DEF AvatarsFit, Idle
<1>7. ExitsFit'
  BY <1>2, <1>3, <1>4 DEF ProfileIndInv, ExitsFit
<1>8. UserFits'
  BY <1>2, <1>3 DEF ProfileIndInv, UserFits, Idle
<1> QED BY <1>2, <1>5, <1>6, <1>7, <1>8 DEF ProfileIndInv

\* The form of a page that was not loaded.
LEMMA EmptyForm == Empty \in Form /\ Empty.avatar # "temp"
  BY DEF Empty, Form, Avatars

\* The page is opened, and loads.
LEMMA OpenProfileInv == ProfileIndInv /\ OpenProfile => ProfileIndInv'
<1> SUFFICES ASSUME ProfileIndInv, OpenProfile PROVE ProfileIndInv'
  OBVIOUS
<1>1. PICK c : c = [kind |-> "load", own |-> TRUE]
  OBVIOUS
<1>2. PendFits(c) /\ c # Idle /\ c.kind = "load" /\ c.own = TRUE /\ Posts(c)
  BY <1>1 DEF PendFits, Idle, OpenProfile
<1>3. PageFits'
  <2>1. crossed' \in BOOLEAN
    BY DEF OpenProfile
  <2>2. there' \in BOOLEAN /\ saving' \in BOOLEAN /\ profileLoading' \in BOOLEAN
    BY DEF OpenProfile
  <2> QED BY <2>1, <2>2, EmptyForm DEF OpenProfile, ProfileIndInv, PageFits
<1> QED BY <1>2, <1>3, EmptyForm, SentInv DEF OpenProfile

\* A picture is chosen, and uploaded.
LEMMA PickAvatarInv == ProfileIndInv /\ PickAvatar => ProfileIndInv'
<1> SUFFICES ASSUME ProfileIndInv, PickAvatar PROVE ProfileIndInv'
  OBVIOUS
<1>1. PICK c : c = [kind |-> "upload", own |-> TRUE]
  OBVIOUS
<1>2. PendFits(c) /\ c # Idle /\ c.kind = "upload" /\ c.own = TRUE /\ Posts(c)
  BY <1>1 DEF PendFits, Idle, PickAvatar
<1>3. profile' \in Form
  BY DEF PickAvatar, ProfileIndInv, PageFits, Form, Avatars
<1>4. PageFits'
  <2>1. crossed' \in BOOLEAN
    BY DEF PickAvatar
  <2>2. saving' \in BOOLEAN
    BY DEF PickAvatar
  <2> QED BY <1>3, <2>1, <2>2 DEF PickAvatar, ProfileIndInv, PageFits
<1> QED BY <1>2, <1>4, SentInv DEF PickAvatar

\* The phone number is asked for.
LEMMA GetPhoneNumberInv == ProfileIndInv /\ GetPhoneNumber => ProfileIndInv'
<1> SUFFICES ASSUME ProfileIndInv, GetPhoneNumber PROVE ProfileIndInv'
  OBVIOUS
<1>1. PICK c : c = [kind |-> "phone", own |-> TRUE]
  OBVIOUS
<1>2. PendFits(c) /\ c # Idle /\ c.kind = "phone" /\ c.own = TRUE /\ Posts(c)
  BY <1>1 DEF PendFits, Idle, GetPhoneNumber
<1>3. PageFits'
  <2>1. crossed' \in BOOLEAN
    BY DEF GetPhoneNumber
  <2>2. saving' \in BOOLEAN
    BY DEF GetPhoneNumber
  <2> QED BY <2>1, <2>2 DEF GetPhoneNumber, ProfileIndInv, PageFits
<1> QED BY <1>2, <1>3, SentInv DEF GetPhoneNumber

\* The form is saved: while nothing crossed no request is on its way.
LEMMA OnSaveProfileInv == ProfileIndInv /\ OnSaveProfile => ProfileIndInv'
<1> SUFFICES ASSUME ProfileIndInv, OnSaveProfile PROVE ProfileIndInv'
  OBVIOUS
<1>1. PICK c : c = [kind |-> "save", own |-> TRUE, form |-> profile]
  OBVIOUS
<1>2. profile \in Complete
  BY DEF OnSaveProfile, ProfileIndInv, PageFits, Form, Complete
<1>3. PendFits(c) /\ c # Idle /\ c.kind = "save" /\ c.own = TRUE /\ c.form = profile /\ Posts(c)
        /\ For(c) = "save"
  BY <1>1, <1>2 DEF PendFits, Idle, OnSaveProfile, For
<1>4. PICK p \in Pends : pends[p] = Idle /\ pends' = [pends EXCEPT ![p] = c]
  BY <1>3 DEF Posts
<1>5. PendsFit' /\ \A q \in Pends : pends'[q] = IF q = p THEN c ELSE pends[q]
  BY <1>3, <1>4, PendInv
<1>6. /\ UNCHANGED <<account, userShown, there, profile, profileLoading, exits, strayed, crossed,
                     broken>>
      /\ there /\ ~saving /\ saving' = TRUE /\ profile # Empty /\ hurried' = (hurried \/ exits > 0)
  BY DEF OnSaveProfile, Empty
<1>7. ~crossed => \A q \in Pends : pends[q] = Idle
  BY <1>6, PendOf DEF ProfileIndInv, OneAtATime
<1>8. OneAtATime'
  BY <1>3, <1>5, <1>6, <1>7 DEF OneAtATime
<1>9. AvatarsFit' /\ UserFits'
  <2> SUFFICES ASSUME ~crossed, ~broken PROVE AvatarsFit' /\ UserFits'
    BY <1>6 DEF AvatarsFit, UserFits
  <2>1. profile.avatar # "temp" /\ account.avatar # "temp" /\ userShown = account
    BY <1>7 DEF ProfileIndInv, AvatarsFit, UserFits, Idle
  <2> QED BY <1>3, <1>5, <1>6, <1>7, <2>1 DEF AvatarsFit, UserFits, Idle
<1>10. ExitsFit'
  <2> SUFFICES ASSUME ~crossed, ~hurried' PROVE ExitsFit'
    BY <1>6 DEF ExitsFit
  <2>1. ~hurried /\ exits = 0 /\ ~strayed
    <3>1. hurried \in BOOLEAN /\ exits \in Nat
      BY DEF ProfileIndInv, PageFits
    <3>2. ~hurried /\ ~(exits > 0)
      BY <1>6, <3>1
    <3>3. ~strayed
      BY <3>2 DEF ProfileIndInv, ExitsFit
    <3> QED BY <3>1, <3>2, <3>3
  <2> QED BY <1>5, <1>6, <2>1 DEF ExitsFit
<1>11. PageFits'
  <2>1. hurried' \in BOOLEAN
    BY <1>6 DEF ProfileIndInv, PageFits
  <2>2. saving' \in BOOLEAN
    BY <1>6
  <2> QED BY <1>6, <2>1, <2>2 DEF ProfileIndInv, PageFits
<1> QED BY <1>5, <1>8, <1>9, <1>10, <1>11 DEF ProfileIndInv

\* A request ends: while nothing crossed no other is on its way.
LEMMA EndsInv ==
  ASSUME ProfileIndInv, NEW p \in Pends, Ends(p), pends[p] # Idle
  PROVE  /\ PendsFit' /\ \A q \in Pends : pends'[q] = IF q = p THEN Idle ELSE pends[q]
         /\ ~crossed => \A q \in Pends : pends'[q] = Idle
<1>1. PendsFit' /\ \A q \in Pends : pends'[q] = IF q = p THEN Idle ELSE pends[q]
  BY PendInv DEF Ends, PendFits
<1> QED BY <1>1 DEF ProfileIndInv, OneAtATime

\* A load, a phone number or a save was answered.
LEMMA AnsweredInv ==
  ASSUME ProfileIndInv, NEW p \in Pends, Answered(p)
  PROVE  ProfileIndInv'
<1>1. PICK d : d = pends[p]
  OBVIOUS
<1>2. /\ d \in [kind : {"answer"}, to : {"load", "phone", "save"}, own : BOOLEAN, user : Form]
      /\ pends[p] # Idle /\ For(d) = d.to
  BY <1>1, PendOf DEF Answered, PendFits, Idle, For
<1>3. /\ PendsFit' /\ \A q \in Pends : pends'[q] = IF q = p THEN Idle ELSE pends[q]
      /\ ~crossed => \A q \in Pends : pends'[q] = Idle
  BY <1>2, EndsInv DEF Answered
<1>4. /\ userShown' = d.user /\ profile' = (IF d.own THEN d.user ELSE profile)
      /\ UNCHANGED <<account, there, strayed, hurried, crossed, broken>>
      /\ exits' = (IF d.to = "save" THEN exits + 1 ELSE exits)
  BY <1>1 DEF Answered, ApplyUser, profileHistory
<1>5. saving' \in BOOLEAN /\ profileLoading' \in BOOLEAN
  BY DEF Answered, ProfileIndInv, PageFits
<1>6. PageFits'
  BY <1>2, <1>4, <1>5 DEF ProfileIndInv, PageFits
<1>7. OneAtATime'
  BY <1>1, <1>2, <1>3, <1>4 DEF ProfileIndInv, OneAtATime
<1>8. AvatarsFit' /\ UserFits'
  <2> SUFFICES ASSUME ~crossed, ~broken PROVE AvatarsFit' /\ UserFits'
    BY <1>4 DEF AvatarsFit, UserFits
  <2>1. d.user = account /\ account.avatar # "temp"
    BY <1>1, <1>2 DEF ProfileIndInv, AvatarsFit, UserFits
  <2>2. profile'.avatar # "temp"
    <3>1. profile.avatar = "temp" => \E q \in Pends : pends[q].kind = "upload" /\ pends[q] # Idle
      BY DEF ProfileIndInv, AvatarsFit, Idle
    <3>2. \A q \in Pends : pends[q] # Idle => q = p
      BY <1>2 DEF ProfileIndInv, OneAtATime
    <3> QED BY <1>1, <1>2, <1>4, <2>1, <3>1, <3>2
  <2> QED BY <1>3, <1>4, <2>1, <2>2 DEF AvatarsFit, UserFits, Idle
<1>9. ExitsFit'
  <2> SUFFICES ASSUME ~crossed, ~hurried PROVE ExitsFit'
    BY <1>4 DEF ExitsFit
  <2>1. d.to = "save" => exits = 0 /\ there
    BY <1>1, <1>2 DEF ProfileIndInv, ExitsFit
  <2>2. ~strayed /\ exits <= 1 /\ (exits > 0 => there) /\ exits \in Nat
    BY DEF ProfileIndInv, ExitsFit, PageFits
  <2> QED BY <1>3, <1>4, <2>1, <2>2 DEF ExitsFit
<1> QED BY <1>3, <1>6, <1>7, <1>8, <1>9 DEF ProfileIndInv

\* The picture was uploaded.
LEMMA UploadedInv ==
  ASSUME ProfileIndInv, NEW p \in Pends, Uploaded(p)
  PROVE  ProfileIndInv'
<1>1. PICK d : d = pends[p]
  OBVIOUS
<1>2. d.kind = "upload" /\ pends[p] # Idle /\ For(d) = "upload" /\ d.own \in BOOLEAN
  BY <1>1, PendOf DEF Uploaded, Idle, For
<1>3. /\ PendsFit' /\ \A q \in Pends : pends'[q] = IF q = p THEN Idle ELSE pends[q]
      /\ ~crossed => \A q \in Pends : pends'[q] = Idle
  BY <1>2, EndsInv DEF Uploaded
<1>4. /\ profile' = (IF d.own THEN [profile EXCEPT !.avatar = "asset"] ELSE profile)
      /\ UNCHANGED <<account, userShown, there, profileLoading, exits, strayed, hurried, crossed,
                     broken>>
  BY <1>1 DEF Uploaded, profileHistory
<1>5. profile' \in Form /\ (d.own => profile'.avatar = "asset")
  BY <1>4 DEF ProfileIndInv, PageFits, Form, Avatars
<1>6. PageFits'
  <2>1. saving' \in BOOLEAN
    BY DEF Uploaded, ProfileIndInv, PageFits
  <2> QED BY <1>4, <1>5, <2>1 DEF ProfileIndInv, PageFits
<1>7. OneAtATime'
  BY <1>1, <1>2, <1>3, <1>4 DEF ProfileIndInv, OneAtATime
<1>8. AvatarsFit' /\ UserFits'
  <2> SUFFICES ASSUME ~crossed, ~broken PROVE AvatarsFit' /\ UserFits'
    BY <1>4 DEF AvatarsFit, UserFits
  <2>1. account.avatar # "temp" /\ (d.own <=> there)
    BY <1>1, <1>2 DEF ProfileIndInv, AvatarsFit, OneAtATime
  <2>2. userShown = account
    <3>1. \A q \in Pends : pends[q] # Idle => q = p
      BY <1>2 DEF ProfileIndInv, OneAtATime
    <3>2. \A q \in Pends : pends[q].kind # "answer"
      BY <1>1, <1>2, <3>1 DEF Idle
    <3> QED BY <3>2 DEF ProfileIndInv, UserFits
  <2>3. profile'.avatar # "temp"
    BY <1>4, <1>5, <2>1, EmptyForm DEF ProfileIndInv, OneAtATime
  <2> QED BY <1>3, <1>4, <2>1, <2>2, <2>3 DEF AvatarsFit, UserFits, Idle
<1>9. ExitsFit'
  BY <1>3, <1>4 DEF ProfileIndInv, ExitsFit
<1> QED BY <1>3, <1>6, <1>7, <1>8, <1>9 DEF ProfileIndInv

\* A request fails.
LEMMA PendFailsInv ==
  ASSUME ProfileIndInv, NEW p \in Pends, PendFails(p)
  PROVE  ProfileIndInv'
<1>1. /\ PendsFit' /\ \A q \in Pends : pends'[q] = IF q = p THEN Idle ELSE pends[q]
      /\ ~crossed => \A q \in Pends : pends'[q] = Idle
  BY EndsInv DEF PendFails
<1>2. UNCHANGED <<account, userShown, there, profile, exits, strayed, hurried, crossed>>
        /\ broken' = TRUE
  BY DEF PendFails
<1>3. PageFits'
  <2>1. saving' \in BOOLEAN /\ profileLoading' \in BOOLEAN
    BY DEF PendFails, ProfileIndInv, PageFits
  <2>2. broken' \in BOOLEAN
    BY <1>2
  <2> QED BY <1>2, <2>1, <2>2 DEF ProfileIndInv, PageFits
<1>4. OneAtATime' /\ ExitsFit'
  BY <1>1, <1>2 DEF ProfileIndInv, OneAtATime, ExitsFit
<1> QED BY <1>1, <1>2, <1>3, <1>4 DEF ProfileIndInv, AvatarsFit, UserFits

\* The user types a name.
LEMMA TypeNicknameInv == ProfileIndInv /\ TypeNickname => ProfileIndInv'
<1> SUFFICES ASSUME ProfileIndInv, TypeNickname PROVE ProfileIndInv'
  OBVIOUS
<1>1. UNCHANGED <<account, userShown, there, saving, profileLoading, pends, exits, strayed,
                  hurried, crossed, broken>>
      /\ there /\ ~profileLoading
  BY DEF TypeNickname, profileHistory
<1>2. profile' \in Form /\ profile'.avatar = profile.avatar
  BY DEF TypeNickname, ProfileIndInv, PageFits, Form
<1>3. OneAtATime'
  BY <1>1 DEF ProfileIndInv, OneAtATime
<1> QED BY <1>1, <1>2, <1>3 DEF ProfileIndInv, PendsFit, PageFits, AvatarsFit, ExitsFit, UserFits

\* The page is closed; its requests go on.
LEMMA ClosesInv ==
  ASSUME ProfileIndInv, there, Closes, UNCHANGED <<account, userShown, crossed, broken>>
  PROVE  /\ PendsFit' /\ OneAtATime' /\ AvatarsFit' /\ UserFits'
         /\ \A p \in Pends : /\ pends[p] = Idle => pends'[p] = Idle
                             /\ pends'[p] # Idle => For(pends'[p]) = For(pends[p])
         /\ there' = FALSE /\ profile' \in Form /\ saving' \in BOOLEAN
         /\ profileLoading' \in BOOLEAN
<1>1. ASSUME NEW p \in Pends
      PROVE  /\ PendFits(pends'[p]) /\ (pends'[p] = Idle <=> pends[p] = Idle)
             /\ pends[p] # Idle => /\ pends'[p].own = FALSE /\ pends'[p].kind = pends[p].kind
                                   /\ pends'[p].kind = "answer" => pends'[p].user = pends[p].user
                                   /\ pends'[p].kind = "save" => pends'[p].form = pends[p].form
                                   /\ For(pends'[p]) = For(pends[p])
  <2>1. PICK d : d = pends[p]
    OBVIOUS
  <2>2. PendFits(d)
    BY <2>1, PendOf
  <2>3. PICK c : c = IF d = Idle THEN Idle ELSE [d EXCEPT !.own = FALSE]
    OBVIOUS
  <2>4. pends'[p] = c
    BY <2>1, <2>3 DEF Closes
  <2>5. CASE d = Idle
    BY <2>1, <2>3, <2>4, <2>5 DEF PendFits
  <2>6. CASE d \in [kind : {"load", "phone", "upload"}, own : BOOLEAN]
    <3>1. c \in [kind : {"load", "phone", "upload"}, own : BOOLEAN] /\ c.own = FALSE
            /\ c.kind = d.kind
      <4>1. d # Idle
        BY <2>6 DEF Idle
      <4> QED BY <2>3, <2>6, <4>1
    <3> QED BY <2>1, <2>4, <2>6, <3>1 DEF PendFits, Idle, For
  <2>7. CASE d \in [kind : {"save"}, own : BOOLEAN, form : Complete]
    <3>1. c \in [kind : {"save"}, own : BOOLEAN, form : Complete] /\ c.own = FALSE
            /\ c.form = d.form
      <4>1. d # Idle
        BY <2>7 DEF Idle
      <4> QED BY <2>3, <2>7, <4>1
    <3> QED BY <2>1, <2>4, <2>7, <3>1 DEF PendFits, Idle, For
  <2>8. CASE d \in [kind : {"answer"}, to : {"load", "phone", "save"}, own : BOOLEAN, user : Form]
    <3>1. /\ c \in [kind : {"answer"}, to : {"load", "phone", "save"}, own : BOOLEAN, user : Form]
          /\ c.own = FALSE /\ c.user = d.user /\ c.to = d.to
      <4>1. d # Idle
        BY <2>8 DEF Idle
      <4> QED BY <2>3, <2>8, <4>1
    <3> QED BY <2>1, <2>4, <2>8, <3>1 DEF PendFits, Idle, For
  <2> QED BY <2>2, <2>5, <2>6, <2>7, <2>8 DEF PendFits
<1>2. PendsFit'
  BY <1>1 DEF Closes, PendsFit
<1>3. there' = FALSE /\ profile' = Empty /\ saving' \in BOOLEAN /\ profileLoading' \in BOOLEAN
  BY DEF Closes
<1>4. OneAtATime'
  BY <1>1, <1>3 DEF ProfileIndInv, OneAtATime
<1>5. \A p \in Pends : pends'[p].kind = pends[p].kind
  BY <1>1
<1>6. AvatarsFit'
  BY <1>1, <1>3, <1>5, EmptyForm DEF ProfileIndInv, AvatarsFit, Idle
<1>7. UserFits'
  BY <1>1, <1>5 DEF ProfileIndInv, UserFits, Idle
<1> QED BY <1>1, <1>2, <1>3, <1>4, <1>6, <1>7, EmptyForm

\* The user leaves the page.
LEMMA LeaveByHandInv == ProfileIndInv /\ LeaveByHand => ProfileIndInv'
<1> SUFFICES ASSUME ProfileIndInv, LeaveByHand PROVE ProfileIndInv'
  OBVIOUS
<1>1. /\ UNCHANGED <<account, userShown, exits, strayed, crossed, broken>> /\ there /\ Closes
      /\ hurried' = (hurried \/ exits > 0 \/ \E p \in Pends : OfSave(pends[p]))
  BY DEF LeaveByHand
<1>2. /\ PendsFit' /\ OneAtATime' /\ AvatarsFit' /\ UserFits'
      /\ there' = FALSE /\ profile' \in Form /\ saving' \in BOOLEAN /\ profileLoading' \in BOOLEAN
      /\ \A p \in Pends : /\ pends[p] = Idle => pends'[p] = Idle
                          /\ pends'[p] # Idle => For(pends'[p]) = For(pends[p])
  BY <1>1, ClosesInv
<1>3. PageFits'
  <2>1. hurried' \in BOOLEAN
    BY <1>1 DEF ProfileIndInv, PageFits
  <2>2. there' \in BOOLEAN
    BY <1>2
  <2> QED BY <1>1, <1>2, <2>1, <2>2 DEF ProfileIndInv, PageFits
<1>4. ExitsFit'
  <2> SUFFICES ASSUME ~hurried', ~crossed PROVE ExitsFit'
    BY <1>1 DEF ExitsFit
  <2>1. ~hurried /\ ~(exits > 0) /\ \A p \in Pends : ~OfSave(pends[p])
    BY <1>1
  <2>2. \A p \in Pends : pends[p] # Idle => For(pends[p]) # "save"
    BY <2>1 DEF For, OfSave
  <2>3. ~strayed /\ exits <= 1
    BY <2>1 DEF ProfileIndInv, ExitsFit
  <2> QED BY <1>1, <1>2, <2>1, <2>2, <2>3 DEF ExitsFit
<1> QED BY <1>2, <1>3, <1>4 DEF ProfileIndInv

\* The timer of a save leaves the page.
LEMMA ExitInv == ProfileIndInv /\ Exit => ProfileIndInv'
<1> SUFFICES ASSUME ProfileIndInv, Exit PROVE ProfileIndInv'
  OBVIOUS
<1>1. /\ UNCHANGED <<account, userShown, hurried, crossed, broken>> /\ exits > 0
      /\ exits' = exits - 1
      /\ strayed' = (strayed \/ ~there) /\ exits \in Nat /\ exits' \in Nat
  BY DEF Exit, ProfileIndInv, PageFits
<1>2. strayed' \in BOOLEAN
  BY <1>1 DEF ProfileIndInv, PageFits
<1>3. ~crossed /\ ~hurried =>
        /\ there /\ ~strayed' /\ exits' = 0
        /\ \A p \in Pends : pends[p] # Idle => For(pends[p]) # "save"
  <2> SUFFICES ASSUME ~crossed, ~hurried
               PROVE  /\ there /\ ~strayed' /\ exits' = 0
                      /\ \A p \in Pends : pends[p] # Idle => For(pends[p]) # "save"
    OBVIOUS
  <2>1. ~strayed /\ exits <= 1 /\ there
    BY <1>1 DEF ProfileIndInv, ExitsFit
  <2>2. exits = 1
    BY <1>1, <2>1
  <2>3. \A p \in Pends : pends[p] # Idle => For(pends[p]) # "save"
    BY <2>2 DEF ProfileIndInv, ExitsFit
  <2>4. ~strayed'
    BY <1>1, <2>1
  <2>5. exits' = 0
    BY <1>1, <2>2
  <2> QED BY <2>1, <2>3, <2>4, <2>5
<1>4. CASE there
  <2>1. Closes
    BY <1>4 DEF Exit
  <2>2. /\ PendsFit' /\ OneAtATime' /\ AvatarsFit' /\ UserFits'
        /\ there' = FALSE /\ profile' \in Form /\ saving' \in BOOLEAN /\ profileLoading' \in BOOLEAN
        /\ \A p \in Pends : /\ pends[p] = Idle => pends'[p] = Idle
                            /\ pends'[p] # Idle => For(pends'[p]) = For(pends[p])
    BY <1>1, <1>4, <2>1, ClosesInv
  <2>3. there' \in BOOLEAN
    BY <2>2
  <2>4. PageFits'
    BY <1>1, <1>2, <2>2, <2>3 DEF ProfileIndInv, PageFits
  <2>5. ExitsFit'
    BY <1>1, <1>3, <2>2 DEF ExitsFit
  <2> QED BY <2>2, <2>4, <2>5 DEF ProfileIndInv
<1>5. CASE ~there
  <2>1. UNCHANGED <<there, profile, saving, profileLoading, pends>>
    BY <1>5 DEF Exit, profilePage
  <2>2. PageFits'
    BY <1>1, <1>2, <2>1 DEF ProfileIndInv, PageFits
  <2>3. ExitsFit'
    BY <1>1, <1>3, <1>5 DEF ExitsFit
  <2> QED BY <1>1, <2>1, <2>2, <2>3 DEF ProfileIndInv, PendsFit, OneAtATime, AvatarsFit, UserFits
<1> QED BY <1>4, <1>5

\* Every step of the profile keeps the invariant.
LEMMA ProfileStepInv == ProfileIndInv /\ [ProfileNext]_profileVars => ProfileIndInv'
<1> SUFFICES ASSUME ProfileIndInv, [ProfileNext]_profileVars PROVE ProfileIndInv'
  OBVIOUS
<1>1. CASE UNCHANGED profileVars
  BY <1>1 DEF profileVars, profilePage, profileHistory, ProfileIndInv, PendsFit, PageFits,
     OneAtATime, AvatarsFit,
     ExitsFit, UserFits
<1> QED
  BY <1>1, ServeInv, AnsweredInv, UploadedInv, PendFailsInv, OpenProfileInv, TypeNicknameInv,
     PickAvatarInv,
     GetPhoneNumberInv, OnSaveProfileInv, LeaveByHandInv, ExitInv DEF ProfileNext

\* For any names and requests: a save leads back once and from its own page, no path on the device
\* is stored as a picture, and the app shows the user there is, but for the exceptions
\* (my/profile.vue).
THEOREM ProfileIsTheUsers == ProfileSpec => []ProfileInv
<1>1. ProfileSpec => []ProfileIndInv
  BY ProfileInitInv, ProfileStepInv, PTL DEF ProfileSpec
<1> QED
  BY <1>1, ProfileIndInvImplies, PTL

(***************************************************************************)
(* From page to page: the catalog, a pig, its farmer, the order.           *)
(*                                                                         *)
(* A page reads what the page before it passed on, or what it found in     *)
(* storage.  ReadsFit says this of every page that is on the stack, and    *)
(* StackFits which page can follow which; clocks counts the timers page by *)
(* page (Live), so that a page that is left takes its own with it.         *)
(***************************************************************************)

\* A finite set of numbers has a bound.
LEMMA FiniteIsBounded ==
  ASSUME NEW S, S \subseteq Nat, IsFiniteSet(S)
  PROVE  \E b \in Nat : \A x \in S : x <= b
<1> DEFINE Unbounded(T) == \A b \in Nat : \E x \in T : ~(x <= b)
           Sizes == {n \in Nat : \E T \in SUBSET S : Cardinality(T) = n /\ Unbounded(T)}
<1> SUFFICES ASSUME Unbounded(S) PROVE FALSE
  OBVIOUS
<1>1. Cardinality(S) \in Sizes
  BY FS_CardinalityType
<1>2. PICK n \in Sizes : \A m \in Sizes : n <= m
  BY <1>1, LeastNatural
<1>3. PICK T \in SUBSET S : Cardinality(T) = n /\ Unbounded(T)
  BY <1>2
<1>4. PICK x \in T : ~(x <= 0)
  BY <1>3
<1>5. IsFiniteSet(T)
  BY FS_Subset
<1>6. Cardinality(T \ {x}) = n - 1 /\ Cardinality(T \ {x}) \in Nat
  BY <1>3, <1>5, FS_RemoveElement, FS_CardinalityType
<1>7. Unbounded(T \ {x})
  <2> SUFFICES ASSUME NEW b \in Nat PROVE \E y \in T \ {x} : ~(y <= b)
    OBVIOUS
  <2>1. x \in Nat
    OBVIOUS
  <2>2. PICK c \in Nat : b <= c /\ x <= c
    BY <2>1
  <2>3. PICK y \in T : ~(y <= c)
    BY <1>3
  <2>4. y \in Nat
    OBVIOUS
  <2>5. y # x /\ ~(y <= b)
    BY <2>1, <2>2, <2>3, <2>4
  <2> QED BY <2>5
<1>8. n - 1 \in Sizes
  BY <1>6, <1>7
<1> HIDE DEF Sizes, Unbounded
<1>9. n \in Nat /\ n <= n - 1
  BY <1>2, <1>8 DEF Sizes
<1> QED BY <1>9

\* The newest pig is one of them.
LEMMA NewestIs ==
  ASSUME NEW S, S \subseteq Pigs, S # {}
  PROVE  Newest(S) \in S
<1> DEFINE Bounds == {b \in Nat : \A x \in S : x <= b}
<1>1. S \subseteq Nat \ {0} /\ IsFiniteSet(S)
  BY PigsAreNumbered, FS_Subset
<1>2. Bounds # {}
  BY <1>1, FiniteIsBounded
<1>3. PICK b \in Bounds : \A c \in Bounds : b <= c
  BY <1>2, LeastNatural
<1>4. b \in S
  <2> SUFFICES ASSUME b \notin S PROVE FALSE
    OBVIOUS
  <2>1. PICK s \in S : s \in Nat \ {0} /\ s <= b
    BY <1>1, <1>3
  <2>2. b \in Nat /\ b - 1 \in Nat
    BY <2>1
  <2>3. ASSUME NEW x \in S PROVE x <= b - 1
    <3>1. x \in Nat /\ x <= b /\ x # b
      BY <1>1
    <3> QED BY <2>2, <3>1
  <2>4. b - 1 \in Bounds
    BY <2>2, <2>3
  <2> HIDE DEF Bounds
  <2>5. b <= b - 1
    BY <1>3, <2>4
  <2> QED BY <2>2, <2>5
<1>5. \A q \in S : q <= b
  OBVIOUS
<1> QED BY <1>4, <1>5 DEF Newest

Hosts == {FarmerOf[p] : p \in Pigs}
SaleStates == PigStatus \cup {"gone"}
PageNames == {"home", "pig", "live", "farmer", "landing", "confirm", "mypigs"} \cup Elsewhere
ReadOf == [value : {Cardinality(S) : S \in SUBSET Pigs} \cup (SUBSET Pigs), at : Nat]
PageArgs == Pigs \cup Hosts \cup Codes \cup {Nothing}
PageShows == {Nothing, {}, Owned} \cup Pigs \cup (SUBSET Pigs) \cup SaleStates
BrowsePages ==
  [page : PageNames, arg : PageArgs,
   load : {"asked", "shown", "failed", "missing"},
   shown : PageShows,
   read : {<<>>} \cup UNION {[D -> ReadOf] : D \in SUBSET {"count", "pigs"}}]

\* What each page is about and what it shows.
BrowsePageFits(p) ==
  /\ p.load = "missing" => p.page = "landing"
  /\ p.page \in {"pig", "live", "confirm"} => p.arg \in Pigs
  /\ p.page = "farmer" => p.arg \in Hosts
  /\ p.page = "home" /\ p.load = "shown" => p.shown \in SUBSET Pigs
  /\ p.page = "landing" /\ p.load = "shown" => p.shown \in Pigs \cup {Nothing}
  /\ p.page = "farmer" /\ p.load = "shown" =>
       DOMAIN p.read = {"count", "pigs"} /\ p.shown = p.read["pigs"].value
\* A page that was opened from another.
Follows(q, p) ==
  p.page \in {"confirm", "live"} /\ q.page \in {"pig", "live"} =>
    /\ p.arg = q.arg
    /\ p.page = "confirm" /\ q.page = "pig" => q.shown # "sold_out"
StackFits(s) ==
  /\ s \in Seq(BrowsePages)
  /\ \A i \in DOMAIN s : BrowsePageFits(s[i])
  /\ \A i \in DOMAIN s : i > 1 => Follows(s[i - 1], s[i])

\* What a farmer's page has read is older than the last change of the catalog, or current.
Now(what, f) ==
  IF what = "count" THEN {Cardinality(PigsOf(f) \cap ListedPigs)}
  ELSE FirstRows(PigsOf(f) \cap ListedPigs, Take)
UpTo(n, m) == IF n <= m THEN n ELSE m
ReadsFit(p) ==
  /\ "pigs" \in DOMAIN p.read => p.read["pigs"].value \in SUBSET Pigs
  /\ \A w \in DOMAIN p.read :
       p.read[w].at <= changes /\ (p.read[w].at = changes => p.read[w].value \in Now(w, p.arg))
  /\ DOMAIN p.read = {"count", "pigs"} /\ p.read["count"].at = p.read["pigs"].at =>
       Cardinality(p.read["pigs"].value) = UpTo(p.read["count"].value, Take)
ReadsStand == \A i \in DOMAIN stack : ReadsFit(stack[i])
CatalogFits == onSale \in [Pigs -> SaleStates] /\ changes \in Nat /\ leaked \in Nat

BrowseIndInv == CatalogFits /\ StackFits(stack) /\ stack # <<>> /\ ReadsStand /\ TimersStop

\* The invariant has the module's properties.
LEMMA BrowseIndInvImplies == BrowseIndInv => BrowseInv
<1> SUFFICES ASSUME BrowseIndInv PROVE BrowseInv
  OBVIOUS
<1>1. \A i \in DOMAIN stack : stack[i] \in BrowsePages /\ BrowsePageFits(stack[i])
        /\ ReadsFit(stack[i])
  BY LenProperties, ElementOfSeq DEF BrowseIndInv, StackFits, ReadsStand
<1>2. BrowseTypeOK
  BY <1>1 DEF BrowseTypeOK, BrowsePageFits, BrowsePages, Hosts
<1>3. ParametersFit
  BY <1>1 DEF ParametersFit, BrowsePageFits
<1>4. OrderAsShown
  BY DEF BrowseIndInv, StackFits, Follows, OrderAsShown
<1>5. FarmerCounts
  BY <1>1 DEF BrowsePageFits, ReadsFit, FarmerCounts, UpTo
<1> QED BY <1>2, <1>3, <1>4, <1>5 DEF BrowseInv, BrowseIndInv

\* The live pages, counted one page at a time.
Ticks(p, load) == p.page = "live" /\ p.load = load

\* One page more counts at most once.
LEMMA LiveAppend ==
  ASSUME NEW s \in Seq(BrowsePages), NEW p \in BrowsePages, NEW load
  PROVE  /\ Live(s, load) \in Nat
         /\ Live(Append(s, p), load) = Live(s, load) + (IF Ticks(p, load) THEN 1 ELSE 0)
<1> DEFINE old == {i \in DOMAIN s : s[i].page = "live" /\ s[i].load = load}
           t == Append(s, p)
           new == {i \in DOMAIN t : t[i].page = "live" /\ t[i].load = load}
<1>1. Len(s) \in Nat /\ DOMAIN s = 1..Len(s)
  BY LenProperties
<1>2. /\ t \in Seq(BrowsePages) /\ Len(t) = Len(s) + 1 /\ t[Len(s) + 1] = p
      /\ \A i \in 1..Len(s) : t[i] = s[i]
  OBVIOUS
<1>3. DOMAIN t = 1..(Len(s) + 1)
  BY <1>2, LenProperties
<1>4. IsFiniteSet(old) /\ Cardinality(old) \in Nat
  <2>1. IsFiniteSet(1..Len(s))
    BY <1>1, FS_Interval
  <2>2. old \in SUBSET (1..Len(s))
    BY <1>1
  <2> QED BY <2>1, <2>2, FS_Subset, FS_CardinalityType
<1>5. Live(s, load) = Cardinality(old) /\ Live(t, load) = Cardinality(new)
  BY DEF Live
<1>6. CASE Ticks(p, load)
  <2>1. new = old \cup {Len(s) + 1}
    BY <1>1, <1>2, <1>3, <1>6 DEF Ticks
  <2>2. Len(s) + 1 \notin old
    BY <1>1
  <2> QED BY <1>4, <1>5, <1>6, <2>1, <2>2, FS_AddElement
<1>7. CASE ~Ticks(p, load)
  <2>1. new = old
    BY <1>1, <1>2, <1>3, <1>7 DEF Ticks
  <2>2. Live(Append(s, p), load) = Live(s, load) /\ Live(s, load) \in Nat
    BY <1>4, <1>5, <2>1
  <2>3. Live(s, load) + 0 = Live(s, load)
    BY <2>2
  <2> QED BY <1>7, <2>2, <2>3
<1> QED BY <1>6, <1>7

\* No page has no live page.
LEMMA LiveNone == \A load : Live(<<>>, load) = 0
<1> SUFFICES ASSUME NEW load PROVE Live(<<>>, load) = 0
  OBVIOUS
<1>1. {i \in DOMAIN <<>> : <<>>[i].page = "live" /\ <<>>[i].load = load} = {}
  OBVIOUS
<1> QED BY <1>1, FS_EmptySet DEF Live

\* One page counts once, or not.
LEMMA LiveOne ==
  ASSUME NEW p \in BrowsePages, NEW load
  PROVE  Live(<<p>>, load) = IF Ticks(p, load) THEN 1 ELSE 0
<1>1. <<p>> = Append(<<>>, p) /\ <<>> \in Seq(BrowsePages)
  OBVIOUS
<1>2. Live(Append(<<>>, p), load) = Live(<<>>, load) + (IF Ticks(p, load) THEN 1 ELSE 0)
  BY <1>1, LiveAppend
<1>3. Live(<<p>>, load) = 0 + (IF Ticks(p, load) THEN 1 ELSE 0)
  BY <1>1, <1>2, LiveNone
<1>4. CASE Ticks(p, load)
  BY <1>3, <1>4
<1>5. CASE ~Ticks(p, load)
  BY <1>3, <1>5
<1> QED BY <1>4, <1>5

\* A page is put on top of a stack that fits, or of none.
LEMMA AppendFits ==
  ASSUME NEW s, StackFits(s), NEW p \in BrowsePages, BrowsePageFits(p),
         s # <<>> => Follows(s[Len(s)], p)
  PROVE  /\ StackFits(Append(s, p)) /\ Append(s, p) # <<>>
         /\ Len(Append(s, p)) = Len(s) + 1 /\ Append(s, p)[Len(s) + 1] = p
         /\ \A i \in DOMAIN s : Append(s, p)[i] = s[i]
         /\ DOMAIN Append(s, p) = DOMAIN s \cup {Len(s) + 1}
<1> DEFINE t == Append(s, p)
<1>1. s \in Seq(BrowsePages) /\ Len(s) \in Nat /\ DOMAIN s = 1..Len(s)
  BY LenProperties DEF StackFits
<1>2. /\ t \in Seq(BrowsePages) /\ Len(t) = Len(s) + 1 /\ t[Len(s) + 1] = p
      /\ \A i \in 1..Len(s) : t[i] = s[i]
  BY <1>1
<1>3. DOMAIN t = 1..(Len(s) + 1) /\ t # <<>>
  <2>1. DOMAIN t = 1..(Len(s) + 1)
    BY <1>1, <1>2, LenProperties
  <2>2. Len(t) # 0
    BY <1>1, <1>2
  <2> QED BY <2>1, <2>2, EmptySeq
<1>4. \A i \in DOMAIN t : BrowsePageFits(t[i])
  BY <1>1, <1>2, <1>3 DEF StackFits
<1>5. ASSUME NEW i \in DOMAIN t, i > 1 PROVE Follows(t[i - 1], t[i])
  <2>1. CASE i = Len(s) + 1
    <3>1. Len(s) # 0 /\ i - 1 = Len(s) /\ Len(s) \in 1..Len(s)
      BY <1>1, <1>5, <2>1
    <3>2. s # <<>>
      BY <3>1, EmptySeq
    <3>3. t[i - 1] = s[Len(s)] /\ t[i] = p
      BY <1>2, <2>1, <3>1
    <3> QED BY <3>2, <3>3
  <2>2. CASE i # Len(s) + 1
    <3>1. i \in 1..Len(s) /\ i - 1 \in 1..Len(s)
      BY <1>1, <1>3, <1>5, <2>2
    <3> QED BY <1>1, <1>2, <1>5, <3>1 DEF StackFits
  <2> QED BY <2>1, <2>2
<1>6. DOMAIN t = DOMAIN s \cup {Len(s) + 1}
  BY <1>1, <1>3
<1>7. StackFits(t)
  BY <1>2, <1>4, <1>5 DEF StackFits
<1> HIDE DEF t
<1>8. \A i \in DOMAIN s : t[i] = s[i]
  BY <1>1, <1>2
<1> QED BY <1>2, <1>3, <1>6, <1>7, <1>8 DEF t

\* The empty stack fits.
LEMMA NoneFits == StackFits(<<>>)
<1>1. <<>> \in Seq(BrowsePages) /\ DOMAIN <<>> = {}
  OBVIOUS
<1> QED BY <1>1 DEF StackFits

\* The pages below the one on top.
Below(s) == SubSeq(s, 1, Len(s) - 1)

\* A stack that fits does so without the page on top.
LEMMA BelowFits ==
  ASSUME NEW s, StackFits(s), s # <<>>
  PROVE  /\ StackFits(Below(s)) /\ Append(Below(s), s[Len(s)]) = s
         /\ Len(Below(s)) = Len(s) - 1 /\ DOMAIN Below(s) \subseteq DOMAIN s
         /\ \A i \in DOMAIN Below(s) : Below(s)[i] = s[i]
         /\ s[Len(s)] \in BrowsePages /\ BrowsePageFits(s[Len(s)]) /\ Len(s) \in DOMAIN s
         /\ Below(s) # <<>> => Follows(Below(s)[Len(Below(s))], s[Len(s)])
<1> DEFINE t == Below(s)
           p == s[Len(s)]
<1>1. s \in Seq(BrowsePages) /\ Len(s) \in Nat /\ DOMAIN s = 1..Len(s)
  BY LenProperties DEF StackFits
<1>2. Len(s) \in 1..Len(s)
  BY <1>1, EmptySeq
<1>3. \A i \in 1..(Len(s) - 1) : s[i] \in BrowsePages
  BY <1>1, ElementOfSeq
<1>4. /\ t \in Seq(BrowsePages) /\ Len(t) = Len(s) - 1
      /\ \A i \in 1..(Len(s) - 1) : t[i] = s[i]
  BY <1>1, <1>2, <1>3, SubSeqProperties DEF Below
<1>5. DOMAIN t = 1..(Len(s) - 1)
  BY <1>4, LenProperties
<1>6. p \in BrowsePages /\ BrowsePageFits(p)
  BY <1>1, <1>2, ElementOfSeq DEF StackFits
<1>7. StackFits(t)
  <2>1. \A i \in DOMAIN t : i \in DOMAIN s /\ t[i] = s[i]
    BY <1>1, <1>4, <1>5
  <2>2. ASSUME NEW i \in DOMAIN t, i > 1 PROVE Follows(t[i - 1], t[i])
    <3>1. i - 1 \in DOMAIN t
      BY <1>1, <1>5, <2>2
    <3> QED BY <2>1, <2>2, <3>1 DEF StackFits
  <2> HIDE DEF t
  <2> QED BY <1>4, <2>1, <2>2 DEF StackFits
<1>8. Append(t, p) = s
  <2>1. Append(t, p) \in Seq(BrowsePages) /\ Len(Append(t, p)) = Len(s)
    <3> HIDE DEF t, p
    <3>1. Append(t, p) \in Seq(BrowsePages) /\ Len(Append(t, p)) = Len(t) + 1
      BY <1>4, <1>6
    <3>2. Len(s) - 1 + 1 = Len(s)
      BY <1>1
    <3> QED BY <1>4, <3>1, <3>2
  <2>2. ASSUME NEW i \in 1..Len(s) PROVE Append(t, p)[i] = s[i]
    <3> HIDE DEF t, p
    <3>1. CASE i = Len(s)
      <4>1. i = Len(t) + 1
        BY <1>1, <1>4, <3>1
      <4>2. Append(t, p)[i] = p
        BY <1>4, <1>6, <4>1
      <4> QED BY <3>1, <4>2 DEF p
    <3>2. CASE i # Len(s)
      <4>1. i \in 1..(Len(s) - 1)
        <5>1. Len(s) \in Nat
          BY <1>1
        <5> QED BY <3>2, <5>1
      <4>2. i \in 1..Len(t)
        BY <1>4, <4>1
      <4>3. Append(t, p)[i] = t[i]
        BY <1>4, <4>2
      <4> QED BY <1>4, <4>1, <4>3
    <3> QED BY <3>1, <3>2
  <2> QED BY <1>1, <2>1, <2>2, SeqEqual
<1>9. t # <<>> => Follows(t[Len(t)], p)
  <2> SUFFICES ASSUME t # <<>> PROVE Follows(t[Len(t)], p)
    OBVIOUS
  <2>1. Len(t) \in Nat \ {0}
    BY <1>4, EmptySeq
  <2>2. Len(s) > 1 /\ Len(t) = Len(s) - 1 /\ Len(s) - 1 \in 1..(Len(s) - 1)
    BY <1>1, <1>4, <2>1
  <2>3. t[Len(t)] = s[Len(s) - 1]
    BY <1>4, <2>2
  <2> QED BY <1>1, <1>2, <2>2, <2>3 DEF StackFits
<1> HIDE DEF t
<1>10. DOMAIN t \subseteq DOMAIN s /\ \A i \in DOMAIN t : t[i] = s[i]
  BY <1>1, <1>4, <1>5
<1> QED BY <1>1, <1>2, <1>4, <1>6, <1>7, <1>8, <1>9, <1>10 DEF t

\* A stack becomes one that fits, with a page on top of it.
LEMMA GrownInv ==
  ASSUME BrowseIndInv, UNCHANGED <<backend, leaked>>,
         NEW s, StackFits(s), \A i \in DOMAIN s : ReadsFit(s[i]),
         NEW p \in BrowsePages, BrowsePageFits(p), ReadsFit(p), s # <<>> => Follows(s[Len(s)], p),
         stack' = Append(s, p),
         clocks' = 2 * (Live(s, "shown") + leaked) + (IF Ticks(p, "shown") THEN 2 ELSE 0)
  PROVE  BrowseIndInv'
<1> DEFINE t == Append(s, p)
<1>1. /\ StackFits(t) /\ t # <<>>
      /\ Len(t) = Len(s) + 1 /\ t[Len(s) + 1] = p /\ \A i \in DOMAIN s : t[i] = s[i]
      /\ DOMAIN t = DOMAIN s \cup {Len(s) + 1}
  BY AppendFits
<1>2. ListedPigs' = ListedPigs /\ changes' = changes
  BY DEF backend, ListedPigs
<1>3. \A q : ReadsFit(q) => ReadsFit(q)'
  BY <1>2 DEF ReadsFit, Now
<1>4. \A i \in DOMAIN t : ReadsFit(t[i])
  BY <1>1
<1>5. clocks' = 2 * (Live(t, "shown") + leaked)
  <2>1. s \in Seq(BrowsePages)
    BY DEF StackFits
  <2>2. /\ Live(s, "shown") \in Nat /\ Live(t, "shown") = Live(s, "shown") + (IF Ticks(p, "shown")
                                                                              THEN 1 ELSE 0)
        /\ leaked \in Nat
    BY <2>1, LiveAppend DEF BrowseIndInv, CatalogFits
  <2> HIDE DEF t
  <2>3. CASE Ticks(p, "shown")
    BY <2>2, <2>3
  <2>4. CASE ~Ticks(p, "shown")
    BY <2>2, <2>4
  <2> QED BY <2>3, <2>4
<1>6. stack' = t
  OBVIOUS
<1> HIDE DEF t
<1>7. ReadsStand'
  BY <1>3, <1>4, <1>6 DEF ReadsStand
<1>8. TimersStop'
  BY <1>5, <1>6 DEF TimersStop, Live
<1>9. CatalogFits'
  BY DEF BrowseIndInv, CatalogFits, backend
<1>10. (stack # <<>>)'
  BY <1>1, <1>6
<1>11. StackFits(stack)'
  BY <1>1, <1>6 DEF StackFits, BrowsePageFits, Follows
<1> QED BY <1>7, <1>8, <1>9, <1>10, <1>11 DEF BrowseIndInv

\* The page on top, and those below it.
LEMMA HereFits ==
  ASSUME BrowseIndInv
  PROVE  /\ Here \in BrowsePages /\ BrowsePageFits(Here) /\ ReadsFit(Here)
         /\ StackFits(Below(stack)) /\ stack = Append(Below(stack), Here)
         /\ \A i \in DOMAIN Below(stack) : ReadsFit(Below(stack)[i])
         /\ Below(stack) # <<>> => Follows(Below(stack)[Len(Below(stack))], Here)
         /\ Len(Below(stack)) = Len(stack) - 1
         /\ Live(Below(stack), "shown") \in Nat /\ leaked \in Nat /\ clocks + 0 = clocks
         /\ clocks = 2 * (Live(Below(stack), "shown") + leaked) + (IF Ticks(Here, "shown") THEN 2
                                                                   ELSE 0)
<1>1. StackFits(stack) /\ stack # <<>> /\ ReadsStand
  BY DEF BrowseIndInv
<1>2. /\ StackFits(Below(stack)) /\ Append(Below(stack), Here) = stack
      /\ Len(Below(stack)) = Len(stack) - 1
      /\ DOMAIN Below(stack) \subseteq DOMAIN stack
      /\ \A i \in DOMAIN Below(stack) : Below(stack)[i] = stack[i]
      /\ Here \in BrowsePages /\ BrowsePageFits(Here) /\ Len(stack) \in DOMAIN stack
      /\ Below(stack) # <<>> => Follows(Below(stack)[Len(Below(stack))], Here)
  BY <1>1, BelowFits DEF Here
<1>3. ReadsFit(Here) /\ \A i \in DOMAIN Below(stack) : ReadsFit(Below(stack)[i])
  BY <1>1, <1>2 DEF ReadsStand, Here
<1>4. /\ Live(Below(stack), "shown") \in Nat
      /\ Live(stack, "shown") = Live(Below(stack), "shown") + (IF Ticks(Here, "shown") THEN 1
                                                               ELSE 0)
  <2>1. Below(stack) \in Seq(BrowsePages)
    BY <1>2 DEF StackFits
  <2> QED BY <1>2, <2>1, LiveAppend
<1>5. clocks = 2 * (Live(Below(stack), "shown") + leaked) + (IF Ticks(Here, "shown") THEN 2 ELSE 0)
  <2>1. clocks = 2 * (Live(stack, "shown") + leaked) /\ leaked \in Nat
    BY DEF BrowseIndInv, TimersStop, CatalogFits
  <2>2. CASE Ticks(Here, "shown")
    BY <1>4, <2>1, <2>2
  <2>3. CASE ~Ticks(Here, "shown")
    BY <1>4, <2>1, <2>3
  <2> QED BY <2>2, <2>3
<1>6. leaked \in Nat
  BY DEF BrowseIndInv, CatalogFits
<1>7. clocks + 0 = clocks
  BY <1>4, <1>5, <1>6
<1> QED BY <1>2, <1>3, <1>4, <1>5, <1>6, <1>7

\* The page on top is answered, or fails.
LEMMA PutInv ==
  ASSUME BrowseIndInv, UNCHANGED <<backend, leaked>>, NEW p \in BrowsePages, Put(p),
         p.page = Here.page, p.arg = Here.arg, BrowsePageFits(p), ReadsFit(p), Here.load = "asked",
         clocks' = clocks + (IF Ticks(p, "shown") THEN 2 ELSE 0)
  PROVE  BrowseIndInv'
<1> DEFINE s == Below(stack)
<1>1. /\ StackFits(s) /\ stack = Append(s, Here) /\ \A i \in DOMAIN s : ReadsFit(s[i])
      /\ s # <<>> => Follows(s[Len(s)], Here)
      /\ Len(s) = Len(stack) - 1 /\ Here \in BrowsePages
      /\ Live(s, "shown") \in Nat /\ leaked \in Nat
      /\ clocks = 2 * (Live(s, "shown") + leaked) + (IF Ticks(Here, "shown") THEN 2 ELSE 0)
  BY HereFits
<1> HIDE DEF s
<1>2. ~Ticks(Here, "shown")
  BY DEF Ticks
<1>3. clocks' = 2 * (Live(s, "shown") + leaked) + (IF Ticks(p, "shown") THEN 2 ELSE 0)
  <2>1. clocks = 2 * (Live(s, "shown") + leaked)
    BY <1>1, <1>2
  <2>2. CASE Ticks(p, "shown")
    BY <2>1, <2>2
  <2>3. CASE ~Ticks(p, "shown")
    BY <1>1, <2>1, <2>3
  <2> QED BY <2>2, <2>3
<1>4. s # <<>> => Follows(s[Len(s)], p)
  BY <1>1 DEF Follows
<1>5. stack' = Append(s, p)
  <2>1. s \in Seq(BrowsePages) /\ Len(s) \in Nat
    BY <1>1, LenProperties DEF StackFits
  <2>2. stack \in Seq(BrowsePages) /\ Len(stack) = Len(s) + 1
    BY <1>1, <2>1
  <2>3. Len(stack) \in 1..Len(stack)
    BY <2>1, <2>2
  <2>4. /\ stack' \in Seq(BrowsePages) /\ Len(stack') = Len(s) + 1
        /\ \A j \in 1..Len(stack) : stack'[j] = IF j = Len(stack) THEN p ELSE stack[j]
    BY <2>2, <2>3, ExceptSeq DEF Put
  <2>5. Append(s, p) \in Seq(BrowsePages) /\ Len(Append(s, p)) = Len(s) + 1
    BY <2>1
  <2>6. ASSUME NEW j \in 1..(Len(s) + 1) PROVE stack'[j] = Append(s, p)[j]
    <3>1. CASE j = Len(s) + 1
      BY <2>1, <2>2, <2>4, <3>1
    <3>2. CASE j # Len(s) + 1
      <4>1. j \in 1..Len(s)
        BY <2>1, <3>2
      <4>2. stack'[j] = stack[j]
        BY <2>2, <2>4, <3>2
      <4>3. stack[j] = s[j] /\ Append(s, p)[j] = s[j]
        BY <1>1, <2>1, <4>1
      <4> QED BY <4>2, <4>3
    <3> QED BY <3>1, <3>2
  <2> QED BY <2>4, <2>5, <2>6, SeqEqual
<1> QED BY <1>1, <1>3, <1>4, <1>5, GrownInv

\* A page that reads nothing before it is answered.
LEMMA FreshReads == \A p : p.read = <<>> => ReadsFit(p)
<1> SUFFICES ASSUME NEW p, p.read = <<>> PROVE ReadsFit(p)
  OBVIOUS
<1>1. DOMAIN p.read = {}
  OBVIOUS
<1> QED BY <1>1 DEF ReadsFit

\* A page is opened over the one with the tap.
LEMMA OpenedInv ==
  ASSUME BrowseIndInv, NEW p \in BrowsePages, NavigateTo(p), BrowsePageFits(p), p.read = <<>>,
         ~Ticks(p, "shown"), Follows(Here, p)
  PROVE  BrowseIndInv'
<1>1. StackFits(stack) /\ stack # <<>> /\ ReadsStand /\ clocks = 2 * (Live(stack, "shown") + leaked)
  BY DEF BrowseIndInv, TimersStop
<1>2. stack' = Append(stack, p) /\ clocks' = clocks /\ UNCHANGED <<backend, leaked>>
  BY DEF NavigateTo, leaks
<1>3. Live(stack, "shown") \in Nat /\ leaked \in Nat
  <2>1. stack \in Seq(BrowsePages)
    BY <1>1 DEF StackFits
  <2> QED BY <2>1, LiveAppend DEF BrowseIndInv, CatalogFits
<1>4. clocks' = 2 * (Live(stack, "shown") + leaked) + (IF Ticks(p, "shown") THEN 2 ELSE 0)
  BY <1>1, <1>2, <1>3
<1>5. ReadsFit(p) /\ \A i \in DOMAIN stack : ReadsFit(stack[i])
  BY <1>1, FreshReads DEF ReadsStand
<1> QED BY <1>1, <1>2, <1>4, <1>5, GrownInv DEF Here

\* All pages are closed for another.
LEMMA LaunchedInv ==
  ASSUME BrowseIndInv, NEW p \in BrowsePages, ReLaunch(p), BrowsePageFits(p), p.read = <<>>,
         ~Ticks(p, "shown")
  PROVE  BrowseIndInv'
<1>1. clocks = 2 * (Live(stack, "shown") + leaked) /\ Live(stack, "shown") \in Nat /\ leaked \in Nat
  <2>1. stack \in Seq(BrowsePages)
    BY DEF BrowseIndInv, StackFits
  <2> QED BY <2>1, LiveAppend DEF BrowseIndInv, TimersStop, CatalogFits
<1>2. clocks' = 2 * leaked
  BY <1>1 DEF ReLaunch, Unmounted
<1>3. clocks' = 2 * (Live(<<>>, "shown") + leaked) + (IF Ticks(p, "shown") THEN 2 ELSE 0)
  <2>1. clocks' = 2 * (0 + leaked) + 0
    BY <1>1, <1>2
  <2> QED BY <2>1, LiveNone
<1>4. stack' = Append(<<>>, p) /\ UNCHANGED <<backend, leaked>>
  BY DEF ReLaunch
<1>5. ReadsFit(p) /\ \A i \in DOMAIN <<>> : ReadsFit(<<>>[i])
  BY FreshReads
<1> QED BY <1>3, <1>4, <1>5, NoneFits, GrownInv

\* A page that is opened with its parameter.
LEMMA OnLoadFits ==
  ASSUME NEW page \in {"pig", "live", "farmer", "landing", "confirm"}, NEW arg \in PageArgs,
         page \in {"pig", "live", "confirm"} => arg \in Pigs, page = "farmer" => arg \in Hosts
  PROVE  LET p == OnLoad(page, Query[page], arg)
         IN  /\ p \in BrowsePages /\ BrowsePageFits(p) /\ p.read = <<>> /\ ~Ticks(p, "shown")
             /\ p.page = page /\ p.arg = arg
<1> DEFINE p == OnLoad(page, Query[page], arg)
<1>1. PICK load \in {"shown", "asked"} : load = IF page = "confirm" THEN "shown" ELSE "asked"
  OBVIOUS
<1>2. p = [page |-> page, arg |-> arg, load |-> load, shown |-> Nothing, read |-> <<>>]
  BY <1>1 DEF OnLoad, Page
<1>3. p \in BrowsePages
  BY <1>2 DEF BrowsePages, PageNames, PageShows
<1> HIDE DEF p
<1>4. BrowsePageFits(p) /\ ~Ticks(p, "shown")
  BY <1>1, <1>2 DEF BrowsePageFits, Ticks
<1> QED BY <1>2, <1>3, <1>4 DEF p

\* A page that shows nothing of the catalog.
LEMMA PlainFits ==
  ASSUME NEW page \in PageNames \ {"pig", "live", "confirm", "farmer"},
         NEW load \in {"asked", "shown"},
         load = "shown" => page \in Elsewhere
  PROVE  LET p == Page(page, Nothing, load)
         IN  /\ p \in BrowsePages /\ BrowsePageFits(p) /\ p.read = <<>> /\ ~Ticks(p, "shown")
             /\ p.page = page
<1> DEFINE p == Page(page, Nothing, load)
<1>1. p = [page |-> page, arg |-> Nothing, load |-> load, shown |-> Nothing, read |-> <<>>]
  BY DEF Page
<1>2. p \in BrowsePages
  BY <1>1 DEF BrowsePages, PageArgs, PageShows
<1> HIDE DEF p
<1>3. BrowsePageFits(p) /\ ~Ticks(p, "shown")
  BY <1>1 DEF BrowsePageFits, Ticks, Elsewhere
<1> QED BY <1>1, <1>2, <1>3 DEF p

\* It holds at first.
LEMMA BrowseInitInv == BrowseInit => BrowseIndInv
<1> SUFFICES ASSUME BrowseInit PROVE BrowseIndInv
  OBVIOUS
<1>1. CatalogFits
  BY DEF BrowseInit, CatalogFits, SaleStates, PigStatus
<1>2. PICK p : /\ stack = <<p>>
               /\ p \in {Home, OnLoad("landing", "", Nothing)}
                       \cup {OnLoad("landing", "code", c) : c \in Codes}
  BY DEF BrowseInit
<1>3. p \in BrowsePages /\ BrowsePageFits(p) /\ p.read = <<>> /\ ~Ticks(p, "shown")
  <2>1. CASE p = Home
    BY <2>1, PlainFits DEF Home, PageNames
  <2>2. CASE p = OnLoad("landing", "", Nothing)
    <3>1. p = [page |-> "landing", arg |-> Nothing, load |-> "missing", shown |-> Nothing,
               read |-> <<>>]
      BY <2>2 DEF OnLoad, Query, Page
    <3> QED BY <3>1 DEF BrowsePages, PageNames, PageArgs, PageShows, BrowsePageFits, Ticks
  <2>3. CASE \E c \in Codes : p = OnLoad("landing", "code", c)
    <3>1. PICK c \in Codes : p = OnLoad("landing", "code", c)
      BY <2>3
    <3>2. Query["landing"] = "code" /\ c \in PageArgs
      BY DEF Query, PageArgs
    <3> QED BY <3>1, <3>2, OnLoadFits
  <2> QED BY <1>2, <2>1, <2>2, <2>3
<1>4. stack = Append(<<>>, p) /\ stack # <<>> /\ DOMAIN stack = {1} /\ stack[1] = p
  <2>1. <<p>> = Append(<<>>, p) /\ <<p>> # <<>>
    OBVIOUS
  <2>2. DOMAIN <<p>> = {1} /\ <<p>>[1] = p
    OBVIOUS
  <2> QED BY <1>2, <2>1, <2>2
<1>5. StackFits(stack)
  BY <1>3, <1>4, NoneFits, AppendFits
<1>6. ReadsStand
  BY <1>3, <1>4, FreshReads DEF ReadsStand
<1>7. TimersStop
  <2>1. Live(stack, "shown") = 0
    BY <1>2, <1>3, LiveOne
  <2>2. clocks = 0 /\ leaked = 0
    BY DEF BrowseInit
  <2>3. clocks = 2 * (Live(stack, "shown") + leaked)
    BY <2>1, <2>2
  <2> QED BY <2>3 DEF TimersStop
<1> QED BY <1>1, <1>4, <1>5, <1>6, <1>7 DEF BrowseIndInv

\* The answer, or the failure, of what the page on top asked for.
LEMMA ShownInv ==
  ASSUME BrowseIndInv, UNCHANGED <<backend, leaked>>, Here.load = "asked",
         NEW load \in {"shown", "failed"}, NEW v \in PageShows,
         Put([Here EXCEPT !.load = load, !.shown = v]),
         BrowsePageFits([Here EXCEPT !.load = load, !.shown = v]),
         clocks' = clocks + (IF Here.page = "live" /\ load = "shown" THEN 2 ELSE 0)
  PROVE  BrowseIndInv'
<1>1. PICK p : p = [Here EXCEPT !.load = load, !.shown = v]
  OBVIOUS
<1>2. Here \in BrowsePages /\ ReadsFit(Here)
  BY HereFits
<1>3. p \in BrowsePages
  BY <1>1, <1>2 DEF BrowsePages
<1>4. p.page = Here.page /\ p.arg = Here.arg /\ p.read = Here.read /\ p.load = load
  BY <1>1, <1>2 DEF BrowsePages
<1>5. ReadsFit(p)
  BY <1>2, <1>4 DEF ReadsFit
<1>6. clocks' = clocks + (IF Ticks(p, "shown") THEN 2 ELSE 0)
  BY <1>4 DEF Ticks
<1> QED BY <1>1, <1>3, <1>4, <1>5, <1>6, PutInv

\* The list and its count were answered.
LEMMA CatalogAnsweredInv ==
  ASSUME BrowseIndInv, HomeAnswered \/ MyPigsAnswered \/ LandingAnswered
  PROVE  BrowseIndInv'
<1>1. Here \in BrowsePages /\ BrowsePageFits(Here)
  BY HereFits
<1>2. PICK v \in PageShows :
        /\ Put([Here EXCEPT !.load = "shown", !.shown = v])
        /\ Here.page \in {"home", "mypigs", "landing"}
        /\ Here.page = "home" => v \in SUBSET Pigs
        /\ Here.page = "landing" => v \in Pigs \cup {Nothing}
  <2>1. CASE HomeAnswered
    <3>1. PICK rows \in FirstRows(ListedPigs, PageSize) :
            Put([Here EXCEPT !.load = "shown", !.shown = rows])
      BY <2>1 DEF HomeAnswered
    <3>2. rows \in SUBSET Pigs
      BY DEF FirstRows, ListedPigs
    <3> QED BY <2>1, <3>1, <3>2 DEF HomeAnswered, On, PageShows
  <2>2. CASE MyPigsAnswered
    BY <2>2 DEF MyPigsAnswered, On, PageShows
  <2>3. CASE LandingAnswered
    <3>1. PICK p \in Pigs : Put([Here EXCEPT !.load = "shown", !.shown = IF onSale[p] = "gone"
                                 THEN Nothing ELSE p])
      BY <2>3 DEF LandingAnswered
    <3>2. PICK v : v = IF onSale[p] = "gone" THEN Nothing ELSE p
      OBVIOUS
    <3>3. v \in Pigs \cup {Nothing} /\ Put([Here EXCEPT !.load = "shown", !.shown = v])
      BY <3>1, <3>2
    <3> QED BY <2>3, <3>3 DEF LandingAnswered, On, PageShows
  <2> QED BY <2>1, <2>2, <2>3
<1>3. Here.load = "asked" /\ UNCHANGED <<backend, clocks, leaked>>
  BY DEF HomeAnswered, MyPigsAnswered, LandingAnswered, backend, leaks
<1>4. BrowsePageFits([Here EXCEPT !.load = "shown", !.shown = v])
  BY <1>1, <1>2, <1>3 DEF BrowsePageFits, BrowsePages
<1>5. clocks' = clocks + (IF Here.page = "live" THEN 2 ELSE 0)
  <2>1. clocks + 0 = clocks
    BY HereFits DEF BrowseIndInv
  <2> QED BY <1>2, <1>3, <2>1
<1> QED BY <1>2, <1>3, <1>4, <1>5, ShownInv

\* The page of a pig, or of its camera, is answered.
LEMMA PigAnsweredInv ==
  ASSUME BrowseIndInv, PigAnswered \/ LiveAnswered \/ LoadFails
  PROVE  BrowseIndInv'
<1>1. Here \in BrowsePages /\ BrowsePageFits(Here) /\ clocks + 0 = clocks
  BY HereFits
<1>2. PICK v \in PageShows, load \in {"shown", "failed"} :
        /\ Put([Here EXCEPT !.load = load, !.shown = v])
        /\ Here.page \notin {"home", "landing", "farmer"} \/ load = "failed"
        /\ clocks' = clocks + (IF Here.page = "live" /\ load = "shown" THEN 2 ELSE 0)
  <2>1. CASE PigAnswered
    <3>1. Here.page = "pig" /\ Here.arg \in Pigs
      BY <1>1, <2>1 DEF PigAnswered, On, BrowsePageFits
    <3>2. onSale[Here.arg] \in PageShows
      <4>1. onSale[Here.arg] \in SaleStates
        BY <3>1 DEF BrowseIndInv, CatalogFits
      <4>2. SaleStates \subseteq PageShows
        BY Zenon DEF PageShows
      <4> QED BY <4>1, <4>2
    <3> QED BY <1>1, <2>1, <3>1, <3>2 DEF PigAnswered
  <2>2. CASE LiveAnswered
    <3>1. Here.shown \in PageShows
          /\ [Here EXCEPT !.load = "shown"]
               = [Here EXCEPT !.load = "shown", !.shown = Here.shown]
      BY <1>1 DEF BrowsePages
    <3> QED BY <2>2, <3>1 DEF LiveAnswered, On
  <2>3. CASE LoadFails
    <3>1. Here.shown \in PageShows
          /\ [Here EXCEPT !.load = "failed"]
               = [Here EXCEPT !.load = "failed", !.shown = Here.shown]
      BY <1>1 DEF BrowsePages
    <3> QED BY <1>1, <2>3, <3>1 DEF LoadFails
  <2> QED BY <2>1, <2>2, <2>3
<1>3. Here.load = "asked" /\ UNCHANGED <<backend, leaked>>
  BY DEF PigAnswered, LiveAnswered, LoadFails, leaks
<1>4. BrowsePageFits([Here EXCEPT !.load = load, !.shown = v])
  BY <1>1, <1>2, <1>3 DEF BrowsePageFits, BrowsePages
<1> QED BY <1>2, <1>3, <1>4, ShownInv

\* The count of a farmer's pigs, or their list, is read for the page on top.
LEMMA ReadsInv ==
  ASSUME BrowseIndInv, GetFarmer \/ GetFarmerPigs
  PROVE  BrowseIndInv'
<1>1. PICK what \in {"count", "pigs"} : \E v \in Now(what, Here.arg) : Reads(what, v)
  <2>1. CASE GetFarmer
    <3>1. Cardinality(PigsOf(Here.arg) \cap ListedPigs) \in Now("count", Here.arg)
      BY DEF Now
    <3> QED BY <2>1, <3>1 DEF GetFarmer
  <2>2. CASE GetFarmerPigs
    BY <2>2 DEF GetFarmerPigs, Now
  <2> QED BY <2>1, <2>2
<1>2. PICK value \in Now(what, Here.arg) : Reads(what, value)
  BY <1>1
<1>3. PICK r : r = [value |-> value, at |-> changes]
  OBVIOUS
<1>4. PICK f : f = [w \in DOMAIN Here.read \cup {what} |-> IF w = what THEN r ELSE Here.read[w]]
  OBVIOUS
<1>5. PICK p : p = [Here EXCEPT !.read = f]
  OBVIOUS
<1>6. /\ Put(p) /\ Here.page = "farmer" /\ Here.load = "asked" /\ what \notin DOMAIN Here.read
      /\ UNCHANGED <<backend, clocks, leaked>>
  BY <1>2, <1>3, <1>4, <1>5 DEF Reads, On, leaks
<1>7. Here \in BrowsePages /\ BrowsePageFits(Here) /\ ReadsFit(Here) /\ clocks + 0 = clocks
  BY HereFits
<1>8. DOMAIN Here.read \subseteq {"count", "pigs"}
        /\ \A w \in DOMAIN Here.read : Here.read[w] \in ReadOf
  <2>1. Here.read \in {<<>>} \cup UNION {[D -> ReadOf] : D \in SUBSET {"count", "pigs"}}
    BY <1>7 DEF BrowsePages
  <2>2. CASE Here.read = <<>>
    <3>1. DOMAIN <<>> = {}
      OBVIOUS
    <3> QED BY <2>2, <3>1
  <2>3. CASE Here.read # <<>>
    <3>1. PICK D \in SUBSET {"count", "pigs"} : Here.read \in [D -> ReadOf]
      BY <2>1, <2>3
    <3> QED BY <3>1
  <2> QED BY <2>2, <2>3
<1>9. changes \in Nat
  BY DEF BrowseIndInv, CatalogFits
<1>10. r \in ReadOf /\ r.at = changes /\ r.value \in Now(what, Here.arg)
  <2>1. value \in {Cardinality(S) : S \in SUBSET Pigs} \cup SUBSET Pigs
    <3>1. PigsOf(Here.arg) \cap ListedPigs \in SUBSET Pigs
      BY DEF PigsOf
    <3> QED BY <3>1 DEF Now, FirstRows
  <2> QED BY <1>3, <1>9, <2>1 DEF ReadOf
<1>11. /\ DOMAIN f = DOMAIN Here.read \cup {what} /\ f[what] = r
       /\ \A w \in DOMAIN Here.read : f[w] = Here.read[w]
  BY <1>4, <1>6
<1>12. f \in UNION {[D -> ReadOf] : D \in SUBSET {"count", "pigs"}}
  <2>1. DOMAIN f \in SUBSET {"count", "pigs"}
    BY <1>8, <1>11
  <2>2. \A w \in DOMAIN f : f[w] \in ReadOf
    BY <1>8, <1>10, <1>11
  <2>3. f = [w \in DOMAIN f |-> f[w]]
    BY <1>4
  <2>4. f \in [DOMAIN f -> ReadOf]
    BY <2>2, <2>3
  <2> QED BY <2>1, <2>4
<1>13. p \in BrowsePages
  BY <1>5, <1>7, <1>12 DEF BrowsePages
<1>14. p.page = Here.page /\ p.arg = Here.arg /\ p.read = f /\ p.load = "asked"
         /\ p.shown = Here.shown
  BY <1>5, <1>6, <1>7 DEF BrowsePages
<1>15. BrowsePageFits(p) /\ ~Ticks(p, "shown")
  BY <1>6, <1>7, <1>14 DEF BrowsePageFits, Ticks
<1>16. ReadsFit(p)
  <2>1. ASSUME NEW w \in DOMAIN f
        PROVE  f[w].at <= changes /\ (f[w].at = changes => f[w].value \in Now(w, Here.arg))
    <3>1. CASE w = what
      BY <1>9, <1>10, <1>11, <3>1
    <3>2. CASE w # what
      BY <1>7, <1>11, <3>2 DEF ReadsFit
    <3> QED BY <3>1, <3>2
  <2>2. ASSUME DOMAIN f = {"count", "pigs"}, f["count"].at = f["pigs"].at
        PROVE  Cardinality(f["pigs"].value) = UpTo(f["count"].value, Take)
    <3>1. f["count"].at = changes /\ f["pigs"].at = changes
      BY <1>1, <1>10, <1>11, <2>2
    <3>2. f["count"].value \in Now("count", Here.arg) /\ f["pigs"].value \in Now("pigs", Here.arg)
      BY <2>1, <2>2, <3>1
    <3> QED BY <3>2 DEF Now, FirstRows, UpTo
  <2>3. ASSUME "pigs" \in DOMAIN f PROVE f["pigs"].value \in SUBSET Pigs
    <3>1. CASE what = "pigs"
      BY <1>10, <1>11, <3>1 DEF Now, FirstRows, PigsOf
    <3>2. CASE what # "pigs"
      BY <1>7, <1>11, <2>3, <3>2 DEF ReadsFit
    <3> QED BY <3>1, <3>2
  <2> QED BY <1>14, <2>1, <2>2, <2>3 DEF ReadsFit
<1>17. clocks' = clocks + (IF Ticks(p, "shown") THEN 2 ELSE 0)
  BY <1>6, <1>7, <1>15
<1> QED BY <1>6, <1>13, <1>14, <1>15, <1>16, <1>17, PutInv

\* The page of a farmer has the answers to both of its requests.
LEMMA FarmerAnsweredInv ==
  ASSUME BrowseIndInv, FarmerAnswered
  PROVE  BrowseIndInv'
<1>1. Here \in BrowsePages /\ BrowsePageFits(Here) /\ clocks + 0 = clocks
  BY HereFits
<1>2. PICK p : p = [Here EXCEPT !.load = "shown", !.shown = Here.read["pigs"].value]
  OBVIOUS
<1>3. /\ Put(p) /\ Here.page = "farmer" /\ Here.load = "asked"
      /\ DOMAIN Here.read = {"count", "pigs"}
      /\ UNCHANGED <<backend, clocks, leaked>>
  BY <1>2 DEF FarmerAnswered, On, leaks
<1>4. Here.read["pigs"].value \in SUBSET Pigs
  BY <1>3, HereFits DEF ReadsFit
<1>5. SUBSET Pigs \subseteq PageShows
  BY Zenon DEF PageShows
<1>6. BrowsePageFits(p)
  BY <1>1, <1>2, <1>3 DEF BrowsePageFits, BrowsePages
<1>7. clocks' = clocks + (IF Here.page = "live" THEN 2 ELSE 0)
  BY <1>1, <1>3
<1> QED BY <1>2, <1>3, <1>4, <1>5, <1>6, <1>7, ShownInv

\* A tap opens the page of a pig, or of a farmer, or another page.
LEMMA TapInv ==
  ASSUME BrowseIndInv, NEW page \in {"pig", "live", "farmer"}, NEW arg,
         NavigateTo(OnLoad(page, Query[page], arg)),
         IF page = "farmer" THEN arg \in Hosts ELSE arg \in Pigs,
         page = "live" => Here.page \notin {"pig", "live"} \/ Here.arg = arg
  PROVE  BrowseIndInv'
<1>1. arg \in PageArgs
  BY DEF PageArgs
<1>2. PICK p : p = OnLoad(page, Query[page], arg)
  OBVIOUS
<1>3. p \in BrowsePages /\ BrowsePageFits(p) /\ p.read = <<>> /\ ~Ticks(p, "shown")
        /\ p.page = page /\ p.arg = arg
  BY <1>1, <1>2, OnLoadFits
<1>4. Follows(Here, p)
  BY <1>3 DEF Follows
<1> QED BY <1>2, <1>3, <1>4, OpenedInv

\* An order is begun from the page of a pig or of its camera.
LEMMA OrderInv ==
  ASSUME BrowseIndInv, OnOrder \/ OnOrderLive
  PROVE  BrowseIndInv'
<1>1. Here.page \in {"pig", "live"} /\ Here.arg \in Pigs
        /\ (Here.page = "pig" => Here.shown # "sold_out")
  BY HereFits DEF OnOrder, OnOrderLive, Shows, On, BrowsePageFits
<1>2. PICK p : p = OnLoad("confirm", "pigId", Here.arg)
  OBVIOUS
<1>3. Query["confirm"] = "pigId" /\ Here.arg \in PageArgs
  BY <1>1 DEF Query, PageArgs
<1>4. p \in BrowsePages /\ BrowsePageFits(p) /\ p.read = <<>> /\ ~Ticks(p, "shown")
        /\ p.page = "confirm" /\ p.arg = Here.arg
  BY <1>1, <1>2, <1>3, OnLoadFits
<1>5. Follows(Here, p)
  BY <1>1, <1>4 DEF Follows
<1>6. NavigateTo(p)
  BY <1>2 DEF OnOrder, OnOrderLive
<1> QED BY <1>4, <1>5, <1>6, OpenedInv

\* The lists lead to their pigs.
LEMMA ListTapInv ==
  ASSUME BrowseIndInv,
         GoFirstPig \/ GoFirstLive \/ GoFarmer \/ OnPlayVideo \/ GoPage
           \/ \E p \in Pigs : OnPigTap(p) \/ GoPig(p) \/ OnOpen(p) \/ GoFarmerPig(FarmerOf[p])
  PROVE  BrowseIndInv'
<1> USE DEF Query
<1>1. Here \in BrowsePages /\ BrowsePageFits(Here)
  BY HereFits
<1>2. HomeList \subseteq Pigs \/ Here.page # "home"
  BY <1>1 DEF HomeList, BrowsePageFits
<1>3. CASE GoFirstPig \/ GoFirstLive
  <2>1. Here.page = "home" /\ Newest(HomeList) \in Pigs
    BY <1>2, <1>3, NewestIs DEF GoFirstPig, GoFirstLive, On
  <2>2. CASE GoFirstPig
    <3>1. NavigateTo(OnLoad("pig", Query["pig"], Newest(HomeList)))
      BY <2>2 DEF GoFirstPig
    <3> QED BY <2>1, <3>1, TapInv
  <2>3. CASE GoFirstLive
    <3>1. NavigateTo(OnLoad("live", Query["live"], Newest(HomeList)))
      BY <2>3 DEF GoFirstLive, OpenLive
    <3> QED BY <2>1, <3>1, TapInv
  <2> QED BY <1>3, <2>2, <2>3
<1>4. CASE GoFarmer \/ OnPlayVideo
  <2>1. Here.page = "pig" /\ Here.arg \in Pigs
    BY <1>1, <1>4 DEF GoFarmer, OnPlayVideo, Shows, On, BrowsePageFits
  <2>2. CASE GoFarmer
    <3>1. NavigateTo(OnLoad("farmer", Query["farmer"], FarmerOf[Here.arg]))
            /\ FarmerOf[Here.arg] \in Hosts
      BY <2>1, <2>2 DEF GoFarmer, Hosts
    <3> QED BY <3>1, TapInv
  <2>3. CASE OnPlayVideo
    <3>1. NavigateTo(OnLoad("live", Query["live"], Here.arg))
      BY <2>3 DEF OnPlayVideo, OpenLive
    <3> QED BY <2>1, <3>1, TapInv
  <2> QED BY <1>4, <2>2, <2>3
<1>5. ASSUME NEW p \in Pigs, OnPigTap(p) \/ GoPig(p) \/ OnOpen(p) PROVE BrowseIndInv'
  <2>1. NavigateTo(OnLoad("pig", Query["pig"], p))
    BY <1>5 DEF OnPigTap, GoPig, OnOpen
  <2> QED BY <2>1, TapInv
<1>6. ASSUME NEW f, GoFarmerPig(f) PROVE BrowseIndInv'
  <2> DEFINE near == PigsOf(f) \cap HomeList
  <2>1. PICK S : S = IF near # {} THEN near ELSE HomeList
    OBVIOUS
  <2>2. S \subseteq Pigs /\ S # {}
    BY <1>2, <1>6, <2>1 DEF GoFarmerPig, PigsOf, On
  <2>3. NavigateTo(OnLoad("pig", Query["pig"], Newest(S)))
    BY <1>6, <2>1 DEF GoFarmerPig
  <2>4. Newest(S) \in Pigs
    BY <2>2, NewestIs
  <2> QED BY <2>3, <2>4, TapInv
<1>7. CASE GoPage
  <2>1. PICK page \in Elsewhere : NavigateTo(Page(page, Nothing, "shown"))
    BY <1>7 DEF GoPage, GoElsewhere
  <2>2. PICK p : p = Page(page, Nothing, "shown")
    OBVIOUS
  <2>3. page \in PageNames \ {"pig", "live", "confirm", "farmer"}
    BY <2>1 DEF PageNames, Elsewhere
  <2>4. p \in BrowsePages /\ BrowsePageFits(p) /\ p.read = <<>> /\ ~Ticks(p, "shown")
          /\ p.page = page
    BY <2>2, <2>3, PlainFits
  <2>5. Follows(Here, p)
    BY <2>3, <2>4 DEF Follows
  <2> QED BY <2>1, <2>2, <2>4, <2>5, OpenedInv
<1> QED BY <1>3, <1>4, <1>5, <1>6, <1>7

\* All pages are closed for the first one, or for the pig of an invitation.
LEMMA LaunchInv ==
  ASSUME BrowseIndInv, GoHome \/ LandingPig
  PROVE  BrowseIndInv'
<1>1. Home \in BrowsePages /\ BrowsePageFits(Home) /\ Home.read = <<>> /\ ~Ticks(Home, "shown")
  BY PlainFits DEF Home, PageNames
<1>2. CASE ReLaunch(Home)
  BY <1>1, <1>2, LaunchedInv
<1>3. CASE LandingPig /\ Here.shown # Nothing
  <2>1. Here.shown \in Pigs
    BY <1>3, HereFits DEF LandingPig, Shows, On, BrowsePageFits
  <2>2. PICK p : p = OnLoad("pig", "id", Here.shown)
    OBVIOUS
  <2>3. Query["pig"] = "id" /\ Here.shown \in PageArgs
    BY <2>1 DEF Query, PageArgs
  <2>4. p \in BrowsePages /\ BrowsePageFits(p) /\ p.read = <<>> /\ ~Ticks(p, "shown")
    BY <2>1, <2>2, <2>3, OnLoadFits
  <2>5. ReLaunch(p)
    BY <1>3, <2>2 DEF LandingPig
  <2> QED BY <2>4, <2>5, LaunchedInv
<1> QED BY <1>2, <1>3 DEF GoHome, LandingPig

\* "My pigs" is shown over pages that fit, and opens the login page if there is no session.
LEMMA ShowMyPigsInv ==
  ASSUME BrowseIndInv, UNCHANGED <<backend, leaked>>,
         NEW s, StackFits(s), \A i \in DOMAIN s : ReadsFit(s[i]),
         stack' = ShowMyPigs(s), clocks' = 2 * (Live(s, "shown") + leaked)
  PROVE  BrowseIndInv'
<1>1. s \in Seq(BrowsePages)
  BY DEF StackFits
<1>2. MyPigs \in BrowsePages /\ BrowsePageFits(MyPigs) /\ MyPigs.read = <<>>
        /\ MyPigs.page = "mypigs"
  BY PlainFits DEF MyPigs, PageNames, Elsewhere
<1>3. Live(s, "shown") \in Nat /\ leaked \in Nat
  BY <1>1, <1>2, LiveAppend DEF BrowseIndInv, CatalogFits
<1>4. CASE session
  <2>1. stack' = Append(s, MyPigs)
    BY <1>4 DEF ShowMyPigs
  <2>2. ReadsFit(MyPigs) /\ ~Ticks(MyPigs, "shown")
    BY <1>2, FreshReads DEF Ticks
  <2>3. s # <<>> => Follows(s[Len(s)], MyPigs)
    BY <1>2 DEF Follows
  <2>4. clocks' = 2 * (Live(s, "shown") + leaked) + (IF Ticks(MyPigs, "shown") THEN 2 ELSE 0)
    BY <1>3, <2>2
  <2> QED BY <1>2, <2>1, <2>2, <2>3, <2>4, GrownInv
<1>5. CASE ~session
  <2>1. PICK q : q = [MyPigs EXCEPT !.load = "shown", !.shown = {}]
    OBVIOUS
  <2>2. q = [page |-> "mypigs", arg |-> Nothing, load |-> "shown", shown |-> {}, read |-> <<>>]
    BY <2>1 DEF MyPigs, Page
  <2>3. q \in BrowsePages
    BY <2>2 DEF BrowsePages, PageNames, PageArgs, PageShows
  <2>4. BrowsePageFits(q) /\ ReadsFit(q) /\ ~Ticks(q, "shown")
    BY <2>2, FreshReads DEF BrowsePageFits, Ticks
  <2>5. s # <<>> => Follows(s[Len(s)], q)
    BY <2>2 DEF Follows
  <2>6. PICK t : t = Append(s, q)
    OBVIOUS
  <2>7. /\ StackFits(t) /\ t # <<>> /\ \A i \in DOMAIN s : t[i] = s[i]
        /\ t[Len(s) + 1] = q /\ DOMAIN t = DOMAIN s \cup {Len(s) + 1}
    BY <2>3, <2>4, <2>5, <2>6, AppendFits
  <2>8. \A i \in DOMAIN t : ReadsFit(t[i])
    BY <2>4, <2>7
  <2>9. Live(t, "shown") = Live(s, "shown")
    BY <1>1, <1>3, <2>3, <2>4, <2>6, LiveAppend
  <2>10. PICK login : login = Page("login", Nothing, "shown")
    OBVIOUS
  <2>11. login \in BrowsePages /\ BrowsePageFits(login) /\ login.read = <<>>
           /\ ~Ticks(login, "shown") /\ login.page = "login"
    BY <2>10, PlainFits DEF PageNames, Elsewhere
  <2>12. stack' = Append(t, login) \/ stack' = t
    <3>1. t \in Seq(BrowsePages)
      BY <2>7 DEF StackFits
    <3>2. t \o <<login>> = Append(t, login) /\ t \o <<>> = t
      BY <2>11, <3>1, AppendIsConcat, ConcatEmptySeq
    <3>3. stack' = t \o (IF Len(s) + 1 < Limit THEN <<login>> ELSE <<>>)
      BY <1>5, <2>1, <2>6, <2>10 DEF ShowMyPigs
    <3>4. CASE Len(s) + 1 < Limit
      BY <3>2, <3>3, <3>4
    <3>5. CASE ~(Len(s) + 1 < Limit)
      BY <3>2, <3>3, <3>5
    <3> QED BY <3>4, <3>5
  <2>13. CASE stack' = t
    <3>1. clocks' = 2 * (Live(s, "shown") + leaked) + (IF Ticks(q, "shown") THEN 2 ELSE 0)
      BY <1>3, <2>4
    <3> QED BY <2>3, <2>4, <2>5, <2>6, <2>13, <3>1, GrownInv
  <2>14. CASE stack' = Append(t, login)
    <3>1. clocks' = 2 * (Live(t, "shown") + leaked) + (IF Ticks(login, "shown") THEN 2 ELSE 0)
      BY <1>3, <2>9, <2>11
    <3>2. ReadsFit(login) /\ Follows(t[Len(t)], login)
      BY <2>11, FreshReads DEF Follows
    <3> QED BY <2>7, <2>8, <2>11, <2>14, <3>1, <3>2, GrownInv
  <2> QED BY <2>12, <2>13, <2>14
<1> QED BY <1>4, <1>5

\* The user goes back: a live page that was answered stops its timers.
LEMMA BackInv ==
  ASSUME BrowseIndInv, Back
  PROVE  BrowseIndInv'
<1> DEFINE left == Below(stack)
           top == left[Len(left)]
<1>1. /\ Here \in BrowsePages /\ StackFits(left) /\ \A i \in DOMAIN left : ReadsFit(left[i])
      /\ Len(left) = Len(stack) - 1 /\ Live(left, "shown") \in Nat /\ leaked \in Nat
      /\ clocks = 2 * (Live(left, "shown") + leaked) + (IF Ticks(Here, "shown") THEN 2 ELSE 0)
  BY HereFits
<1>2. /\ Len(stack) > 1 /\ clocks' = clocks - 2 * Live(<<Here>>, "shown")
      /\ UNCHANGED <<backend, leaked>>
      /\ stack' = IF top.page = "mypigs" THEN ShowMyPigs(Below(left)) ELSE left
  BY DEF Back, Unmounted, Below
<1>3. clocks' = 2 * (Live(left, "shown") + leaked)
  <2>1. Live(<<Here>>, "shown") = IF Ticks(Here, "shown") THEN 1 ELSE 0
    BY <1>1, LiveOne
  <2> HIDE DEF left
  <2>2. CASE Ticks(Here, "shown")
    BY <1>1, <1>2, <2>1, <2>2
  <2>3. CASE ~Ticks(Here, "shown")
    BY <1>1, <1>2, <2>1, <2>3
  <2> QED BY <2>2, <2>3
<1>4. left # <<>>
  <2>1. stack \in Seq(BrowsePages)
    BY DEF BrowseIndInv, StackFits
  <2>2. Len(stack) \in Nat
    BY <2>1, LenProperties
  <2> HIDE DEF left
  <2>3. Len(left) = Len(stack) - 1 /\ Len(stack) > 1
    BY <1>1, <1>2
  <2>4. Len(left) # 0
    BY <2>2, <2>3
  <2> QED BY <2>4, EmptySeq
<1> HIDE DEF left
<1>5. /\ StackFits(Below(left)) /\ Append(Below(left), top) = left
      /\ DOMAIN Below(left) \subseteq DOMAIN left
      /\ \A i \in DOMAIN Below(left) : Below(left)[i] = left[i]
      /\ top \in BrowsePages /\ BrowsePageFits(top) /\ Len(left) \in DOMAIN left
      /\ Below(left) # <<>> => Follows(Below(left)[Len(Below(left))], top)
  BY <1>1, <1>4, BelowFits
<1>6. \A i \in DOMAIN Below(left) : ReadsFit(Below(left)[i])
  BY <1>1, <1>5
<1>7. ReadsFit(top)
  BY <1>1, <1>5
<1> HIDE DEF top
<1>8. /\ Live(Below(left), "shown") \in Nat
      /\ Live(left, "shown") = Live(Below(left), "shown") + (IF Ticks(top, "shown") THEN 1 ELSE 0)
  <2>1. Below(left) \in Seq(BrowsePages)
    BY <1>5 DEF StackFits
  <2> QED BY <1>5, <2>1, LiveAppend
<1>9. clocks' = 2 * (Live(Below(left), "shown") + leaked) + (IF Ticks(top, "shown") THEN 2 ELSE 0)
  <2> HIDE DEF left
  <2>1. CASE Ticks(top, "shown")
    BY <1>1, <1>3, <1>8, <2>1
  <2>2. CASE ~Ticks(top, "shown")
    BY <1>1, <1>3, <1>8, <2>2
  <2> QED BY <2>1, <2>2
<1>10. CASE top.page = "mypigs"
  <2>1. ~Ticks(top, "shown")
    BY <1>10 DEF Ticks
  <2>2. clocks' = 2 * (Live(Below(left), "shown") + leaked)
    BY <1>1, <1>8, <1>9, <2>1
  <2> QED BY <1>2, <1>5, <1>6, <1>10, <2>2, ShowMyPigsInv
<1>11. CASE top.page # "mypigs"
  <2>1. stack' = Append(Below(left), top)
    BY <1>2, <1>5, <1>11
  <2> QED BY <1>2, <1>5, <1>6, <1>7, <1>9, <2>1, GrownInv
<1> QED BY <1>10, <1>11

\* The user goes to his pigs, or is sent to log in.
LEMMA GoMyPigsInv ==
  ASSUME BrowseIndInv, GoMyPigs
  PROVE  BrowseIndInv'
<1>1. StackFits(stack) /\ \A i \in DOMAIN stack : ReadsFit(stack[i])
  BY DEF BrowseIndInv, ReadsStand
<1>2. stack' = ShowMyPigs(stack) /\ clocks' = 2 * (Live(stack, "shown") + leaked)
        /\ UNCHANGED <<backend, leaked>>
  BY DEF BrowseIndInv, TimersStop, GoMyPigs, leaks
<1> QED BY <1>1, <1>2, ShowMyPigsInv

\* The catalog changes: what was read before is older than the change.
LEMMA CatalogChangesInv ==
  ASSUME BrowseIndInv, CatalogChanges
  PROVE  BrowseIndInv'
<1>1. changes \in Nat /\ changes' = changes + 1 /\ UNCHANGED <<stack, clocks, leaked>>
  BY DEF BrowseIndInv, CatalogFits, CatalogChanges, leaks
<1>2. CatalogFits'
  BY <1>1 DEF BrowseIndInv, CatalogFits, CatalogChanges, SaleStates
<1>3. ReadsStand'
  <2> SUFFICES ASSUME NEW i \in DOMAIN stack PROVE ReadsFit(stack[i])'
    BY <1>1 DEF ReadsStand
  <2>1. stack[i] \in BrowsePages /\ ReadsFit(stack[i])
    BY ElementOfSeq, LenProperties DEF BrowseIndInv, StackFits, ReadsStand
  <2>2. ASSUME NEW w \in DOMAIN stack[i].read
        PROVE  stack[i].read[w].at \in Nat
    <3>1. stack[i].read # <<>>
      BY <2>2
    <3>2. PICK D \in SUBSET {"count", "pigs"} : stack[i].read \in [D -> ReadOf]
      BY <2>1, <3>1 DEF BrowsePages
    <3> QED BY <2>2, <3>2 DEF ReadOf
  <2>3. ASSUME NEW w \in DOMAIN stack[i].read
        PROVE  stack[i].read[w].at <= changes' /\ stack[i].read[w].at # changes'
    <3>1. stack[i].read[w].at <= changes
      BY <2>1, <2>3 DEF ReadsFit
    <3> QED BY <1>1, <2>2, <3>1
  <2> QED BY <1>1, <2>1, <2>3 DEF ReadsFit
<1>4. TimersStop' /\ StackFits(stack)' /\ (stack # <<>>)'
  BY <1>1 DEF BrowseIndInv, TimersStop, Live, StackFits, BrowsePageFits, Follows
<1> QED BY <1>2, <1>3, <1>4 DEF BrowseIndInv

\* A step that leaves the pages alone leaves alone what is said of them.
LEMMA StandsInv ==
  ASSUME BrowseIndInv, UNCHANGED <<backend, stack>>, leaked' \in Nat,
         clocks' = 2 * (Live(stack, "shown") + leaked')
  PROVE  BrowseIndInv'
<1>1. ListedPigs' = ListedPigs /\ changes' = changes
  BY DEF backend, ListedPigs
<1>2. \A q : ReadsFit(q) => ReadsFit(q)'
  BY <1>1 DEF ReadsFit, Now
<1>3. ReadsStand'
  BY <1>2 DEF BrowseIndInv, ReadsStand
<1>4. CatalogFits'
  BY DEF BrowseIndInv, CatalogFits, backend
<1>5. TimersStop'
  BY DEF TimersStop, Live
<1> QED BY <1>3, <1>4, <1>5 DEF BrowseIndInv, StackFits, BrowsePageFits, Follows

\* Every step of the pages keeps the invariant.
LEMMA BrowseStepInv == BrowseIndInv /\ [BrowseNext]_browseVars => BrowseIndInv'
<1> SUFFICES ASSUME BrowseIndInv, [BrowseNext]_browseVars PROVE BrowseIndInv'
  OBVIOUS
<1>1. CASE Back
  BY <1>1, BackInv
<1>2. CASE HomeAnswered \/ MyPigsAnswered \/ LandingAnswered
  BY <1>2, CatalogAnsweredInv
<1>3. CASE PigAnswered \/ LiveAnswered \/ LoadFails
  BY <1>3, PigAnsweredInv
<1>4. CASE \/ GoFirstPig \/ GoFirstLive \/ GoFarmer \/ OnPlayVideo \/ GoPage
           \/ \E p \in Pigs : OnPigTap(p) \/ GoPig(p) \/ OnOpen(p) \/ GoFarmerPig(FarmerOf[p])
  BY <1>4, ListTapInv
<1>5. CASE OnOrder \/ OnOrderLive
  BY <1>5, OrderInv
<1>6. CASE GetFarmer \/ GetFarmerPigs
  BY <1>6, ReadsInv
<1>7. CASE FarmerAnswered
  BY <1>7, FarmerAnsweredInv
<1>8. CASE GoHome \/ LandingPig
  BY <1>8, LaunchInv
<1>9. CASE GoMyPigs
  BY <1>9, GoMyPigsInv
<1>10. CASE CatalogChanges
  BY <1>10, CatalogChangesInv
<1>11. CASE LateAnswer \/ UNCHANGED browseVars
  <2>1. UNCHANGED <<backend, stack>>
    BY <1>11 DEF LateAnswer, browseVars
  <2>2. clocks = 2 * (Live(stack, "shown") + leaked) /\ leaked \in Nat
          /\ Live(stack, "shown") \in Nat
    <3>1. stack \in Seq(BrowsePages)
      BY DEF BrowseIndInv, StackFits
    <3> QED BY <3>1, LiveAppend DEF BrowseIndInv, TimersStop, CatalogFits
  <2>3. \/ clocks' = clocks + 2 /\ leaked' = leaked + 1
        \/ UNCHANGED <<clocks, leaked>>
    BY <1>11 DEF LateAnswer, browseVars, leaks
  <2>4. leaked' \in Nat /\ clocks' = 2 * (Live(stack, "shown") + leaked')
    BY <2>2, <2>3
  <2> QED BY <2>1, <2>4, StandsInv
<1> QED BY <1>1, <1>2, <1>3, <1>4, <1>5, <1>6, <1>7, <1>8, <1>9, <1>10, <1>11 DEF BrowseNext

\* For any pigs, farmers and codes, and any depth of the stack: every page that is opened finds its
\* parameter, an order is for the pig it was begun from and not begun while that shows as sold out, a farmer's
\* count is that of his list as far as the list goes, and live pages and the answers that came too
\* late for one account for every timer that runs (pig, live, farmer and landing pages).
THEOREM PagesPassOn == BrowseSpec => []BrowseInv
<1>1. BrowseInit => BrowseIndInv
  BY BrowseInitInv
<1>2. BrowseIndInv /\ [BrowseNext]_browseVars => BrowseIndInv'
  BY BrowseStepInv
<1>3. BrowseIndInv => BrowseInv
  BY BrowseIndInvImplies
<1> QED BY <1>1, <1>2, <1>3, PTL DEF BrowseSpec

(***************************************************************************)
(* The administrator's forms of pigs.                                      *)
(*                                                                         *)
(* CallsFit says of a save on its way which farmer and weight it carries;  *)
(* the form shows what it will send.                                       *)
(***************************************************************************)

Crewmen == 1..Crew
PigRow == [farmer : Crewmen, weight : Nat]
CrewList == {s \in Seq(Crewmen) : Len(s) <= Crew}
StockFits ==
  /\ stock \in [PigIds -> {Without} \cup PigRow] /\ DOMAIN measured = PigIds
  /\ WeightKept
AdminListsFit ==
  /\ crew \in CrewList /\ farmers \in CrewList
  /\ DOMAIN pigs \subseteq PigIds /\ \A p \in DOMAIN pigs : pigs[p] \in PigRow
PigFormFits ==
  /\ form \in [open : BOOLEAN, pig : PigIds \cup {"new", Without}, index : 0..Crew,
               farmer : Crewmen \cup {Without},
               weight : Nat, listed : Nat]
  /\ form.open => form.pig \in PigIds \cup {"new"}
  /\ form.listed # 0 => form.weight = form.listed
  /\ form.open /\ ~reloaded /\ form.index # 0 => form.index \in DOMAIN farmers
       /\ farmers[form.index] = form.farmer
  /\ reloaded \in BOOLEAN
Save == [kind : {"save"}, pig : PigIds \cup {"new"}, farmer : Crewmen, listed : Nat, weight : Nat]
CallFits(c) ==
  /\ c.kind \in {"free", "load", "loaded", "save", "saved", "toggle", "delete", "patched"}
  /\ c.kind = "loaded" =>
       c.farmers \in CrewList /\ DOMAIN c.pigs \subseteq PigIds
         /\ \A p \in DOMAIN c.pigs : c.pigs[p] \in PigRow
  /\ c.kind = "save" => c \in Save /\ (c.listed # 0 => c.weight = c.listed)
CallsFit == DOMAIN calls = Calls /\ \A k \in Calls : CallFits(calls[k])

AdminIndInv == StockFits /\ AdminListsFit /\ PigFormFits /\ CallsFit

\* The invariant has the module's properties.
LEMMA AdminIndInvImplies == AdminIndInv => AdminTypeOK /\ PickedIsShown /\ WeightKept
<1> SUFFICES ASSUME AdminIndInv PROVE AdminTypeOK /\ PickedIsShown /\ WeightKept
  OBVIOUS
<1>1. \A p \in Existent : stock[p].farmer \in 1..Crew
  BY DEF AdminIndInv, StockFits, Existent, PigRow, Crewmen
<1> QED BY <1>1 DEF AdminIndInv, StockFits, AdminListsFit, PigFormFits, AdminTypeOK, PickedIsShown

\* A form that is shut.
LEMMA ShutFormFits == ShutForm \in [open : BOOLEAN, pig : PigIds \cup {"new", Without},
                                    index : 0..Crew,
                         farmer : Crewmen \cup {Without}, weight : Nat, listed : Nat]
                      /\ ShutForm.open = FALSE /\ ShutForm.listed = 0
  BY AdminAssumption DEF ShutForm

\* It holds at first.
LEMMA AdminInitInv == AdminInit => AdminIndInv
<1> SUFFICES ASSUME AdminInit PROVE AdminIndInv
  OBVIOUS
<1>1. StockFits
  <2>1. stock \in [PigIds -> {Without} \cup PigRow] /\ DOMAIN measured = PigIds
    BY DEF AdminInit, PigRow, Crewmen
  <2>2. \A p \in Existent : stock[p].weight = measured[p]
    BY DEF AdminInit, Existent
  <2> QED BY <2>1, <2>2 DEF StockFits, WeightKept
<1>2. AdminListsFit
  <2>1. crew \in Seq(Crewmen) /\ Len(crew) = Crew
    BY AdminAssumption DEF AdminInit, Crewmen
  <2>2. farmers \in Seq(Crewmen) /\ Len(farmers) = 0
    BY DEF AdminInit
  <2>3. DOMAIN pigs = {}
    BY DEF AdminInit
  <2> QED BY <2>1, <2>2, <2>3, AdminAssumption DEF AdminListsFit, CrewList
<1>3. PigFormFits
  <2>1. form = ShutForm /\ reloaded \in BOOLEAN
    BY DEF AdminInit
  <2> QED BY <2>1, ShutFormFits DEF PigFormFits
<1>4. \A k \in Calls : calls[k] \in {LoadLists, NoCall}
  BY DEF AdminInit
<1>5. CallsFit
  BY <1>4 DEF AdminInit, CallsFit, CallFits, LoadLists, NoCall
<1> QED BY <1>1, <1>2, <1>3, <1>5 DEF AdminIndInv

\* One request is replaced.
LEMMA CallInv ==
  ASSUME AdminIndInv, NEW k \in Calls, NEW c, calls' = [calls EXCEPT ![k] = c], CallFits(c)
  PROVE  CallsFit'
  BY DEF AdminIndInv, CallsFit, CallFits

\* A slot holds a request that fits.
LEMMA CallOf ==
  ASSUME AdminIndInv, NEW k \in Calls
  PROVE  CallFits(calls[k])
  BY DEF AdminIndInv, CallsFit

\* Requests that carry nothing fit.
LEMMA PlainCalls == CallFits(NoCall) /\ CallFits(LoadLists)
  BY DEF CallFits, NoCall, LoadLists

\* A farmer weighs a pig.
LEMMA WeighInv ==
  ASSUME AdminIndInv, NEW p \in PigIds, Weigh(p)
  PROVE  AdminIndInv'
<1>1. PICK w \in 1..MaxWeight : stock' = [stock EXCEPT ![p].weight = w]
             /\ measured' = [measured EXCEPT ![p] = w]
  BY DEF Weigh
<1>2. p \in Existent /\ overwritten' = overwritten \ {p}
        /\ UNCHANGED <<crew, pigs, farmers, adminLoading, form, reloaded, calls>>
  BY DEF Weigh, adminPage
<1>3. PICK r : r = [stock[p] EXCEPT !.weight = w]
  OBVIOUS
<1>4. r \in PigRow /\ r.weight = w
  <2>1. stock[p] \in PigRow /\ w \in Nat
    BY <1>2, AdminAssumption DEF AdminIndInv, StockFits, Existent
  <2> QED BY <1>3, <2>1 DEF PigRow
<1>5. \A q \in PigIds : stock'[q] = (IF q = p THEN r ELSE stock[q])
        /\ measured'[q] = (IF q = p THEN w ELSE measured[q])
  BY <1>1, <1>3 DEF AdminIndInv, StockFits
<1>6. stock' \in [PigIds -> {Without} \cup PigRow] /\ DOMAIN measured' = PigIds
  BY <1>1, <1>4, <1>5 DEF AdminIndInv, StockFits
<1>7. WeightKept'
  <2> SUFFICES ASSUME NEW q \in Existent', stock'[q].weight # measured'[q] PROVE q \in overwritten'
    BY DEF WeightKept
  <2>1. q \in PigIds /\ q # p
    BY <1>4, <1>5 DEF Existent
  <2> QED BY <1>2, <1>5, <2>1 DEF AdminIndInv, StockFits, WeightKept, Existent
<1> QED BY <1>2, <1>6, <1>7 DEF AdminIndInv, StockFits, AdminListsFit, PigFormFits, CallsFit

\* A farmer is removed.
LEMMA CrewChangesInv == AdminIndInv /\ CrewChanges => AdminIndInv'
<1> SUFFICES ASSUME AdminIndInv, CrewChanges PROVE AdminIndInv'
  OBVIOUS
<1>1. PICK i \in DOMAIN crew : crew' = SubSeq(crew, 1, i - 1) \o SubSeq(crew, i + 1, Len(crew))
  BY DEF CrewChanges
<1>2. crew \in Seq(Crewmen) /\ Len(crew) <= Crew /\ i \in 1..Len(crew) /\ Len(crew) \in Nat
  BY DEF AdminIndInv, AdminListsFit, CrewList
<1>3. PICK a, b : a = SubSeq(crew, 1, i - 1) /\ b = SubSeq(crew, i + 1, Len(crew))
  OBVIOUS
<1>4. a \in Seq(Crewmen) /\ Len(a) = i - 1
  BY <1>2, <1>3
<1>5. b \in Seq(Crewmen) /\ Len(b) = Len(crew) - i
  BY <1>2, <1>3
<1>6. crew' \in Seq(Crewmen) /\ Len(crew') = Len(crew) - 1
  <2>1. a \o b \in Seq(Crewmen) /\ Len(a \o b) = Len(a) + Len(b)
    BY <1>4, <1>5, ConcatProperties
  <2>2. crew' = a \o b
    BY <1>1, <1>3
  <2>3. Len(a) + Len(b) = Len(crew) - 1
    BY <1>2, <1>4, <1>5
  <2> QED BY <2>1, <2>2, <2>3
<1>7. crew' \in CrewList
  BY <1>2, <1>6, AdminAssumption DEF CrewList
<1> QED BY <1>7 DEF CrewChanges, adminPage, AdminIndInv, StockFits, WeightKept, Existent,
           AdminListsFit, PigFormFits, CallsFit

\* The backend answers, or writes a row.
LEMMA AdminGetListsInv ==
  ASSUME AdminIndInv, NEW k \in Calls, ServesAdmin(k), AdminGetLists(k),
         UNCHANGED <<stock, measured, overwritten>>
  PROVE  AdminIndInv'
<1>1. PICK c : c = [kind |-> "loaded", farmers |-> crew, pigs |-> [p \in Existent |-> stock[p]]]
  OBVIOUS
<1>2. CallFits(c)
  BY <1>1 DEF CallFits, AdminIndInv, AdminListsFit, StockFits, Existent
<1>3. CallsFit'
  BY <1>1, <1>2, CallInv DEF AdminGetLists
<1> QED BY <1>3 DEF ServesAdmin, adminPage, AdminIndInv, StockFits, WeightKept, Existent,
           AdminListsFit, PigFormFits

\* The backend saves a form.
LEMMA AdminSaveInv ==
  ASSUME AdminIndInv, NEW k \in Calls, ServesAdmin(k), AdminSave(k)
  PROVE  AdminIndInv'
<1>1. PICK d : d = calls[k]
  OBVIOUS
<1>2. d \in Save /\ (d.listed # 0 => d.weight = d.listed)
  BY <1>1, CallOf DEF AdminSave, CallFits
<1>3. PICK p \in PigIds : Writes(p, d)
  BY <1>1 DEF AdminSave
<1>4. CallsFit'
  <2>1. PICK c : c = [d EXCEPT !.kind = "saved"]
    OBVIOUS
  <2>2. c.kind = "saved"
    BY <1>2, <2>1 DEF Save
  <2>3. CallFits(c)
    BY <2>2 DEF CallFits
  <2> QED BY <1>1, <2>1, <2>3, CallInv DEF AdminSave
<1>5. PICK r : r = [farmer |-> d.farmer, weight |-> d.weight]
  OBVIOUS
<1>6. r \in PigRow /\ r.weight = d.weight
  BY <1>2, <1>5 DEF Save, PigRow
<1>7. stock' \in [PigIds -> {Without} \cup PigRow] /\ DOMAIN measured' = PigIds
  BY <1>3, <1>5, <1>6 DEF Writes, AdminIndInv, StockFits
<1>8. WeightKept'
  <2> SUFFICES ASSUME NEW q \in Existent', stock'[q].weight # measured'[q] PROVE q \in overwritten'
    BY DEF WeightKept
  <2>1. q \in PigIds /\ stock'[q] = (IF q = p THEN r ELSE stock[q])
    BY <1>3, <1>5, <1>7 DEF Writes, AdminIndInv, StockFits, Existent
  <2>2. CASE q # p
    BY <1>3, <2>1, <2>2 DEF Writes, AdminIndInv, StockFits, WeightKept, Existent
  <2>3. CASE q = p
    <3>1. stock[p] # Without
      BY <1>3, <1>6, <2>1, <2>3 DEF Writes, AdminIndInv, StockFits
    <3>2. measured'[p] = measured[p]
      BY <1>3, <3>1 DEF Writes
    <3>3. CASE d.listed = 0 \/ d.listed # stock[p].weight
      BY <1>3, <2>3, <3>1, <3>3 DEF Writes
    <3>4. CASE d.listed # 0 /\ d.listed = stock[p].weight
      BY <1>2, <1>3, <1>6, <2>1, <2>3, <3>1, <3>2, <3>4 DEF Writes, AdminIndInv, StockFits,
         WeightKept, Existent
    <3> QED BY <3>3, <3>4
  <2> QED BY <2>2, <2>3
<1> QED BY <1>4, <1>7, <1>8 DEF ServesAdmin, adminPage, AdminIndInv, StockFits, AdminListsFit,
           PigFormFits

\* The backend deletes a pig, or sets its status.
LEMMA AdminPatchInv ==
  ASSUME AdminIndInv, NEW k \in Calls, ServesAdmin(k), AdminPatch(k)
  PROVE  AdminIndInv'
<1>1. PICK c : c = [calls[k] EXCEPT !.kind = "patched"]
  OBVIOUS
<1>2. CallFits(c)
  BY <1>1 DEF CallFits
<1>3. CallsFit'
  BY <1>1, <1>2, CallInv DEF AdminPatch
<1>4. PICK p \in PigIds : stock' = stock \/ stock' = [stock EXCEPT ![p] = Without]
  BY DEF AdminPatch, Existent
<1>5. stock' \in [PigIds -> {Without} \cup PigRow]
  BY <1>4 DEF AdminIndInv, StockFits
<1>6. \A q \in Existent' : q \in Existent /\ stock'[q] = stock[q]
  BY <1>4 DEF Existent, AdminIndInv, StockFits
<1>7. WeightKept'
  BY <1>6 DEF WeightKept, AdminPatch, AdminIndInv, StockFits
<1> QED BY <1>3, <1>5, <1>7 DEF AdminPatch, ServesAdmin, adminPage, AdminIndInv, StockFits,
           AdminListsFit, PigFormFits

\* Steps that leave the backend alone.
LEMMA BackendStands ==
  ASSUME AdminIndInv, UNCHANGED <<stock, crew, measured, overwritten>>
  PROVE  StockFits' /\ crew' \in CrewList
  BY DEF AdminIndInv, StockFits, WeightKept, Existent, AdminListsFit

\* Both lists were answered.
LEMMA ListsAnsweredInv ==
  ASSUME AdminIndInv, NEW k \in Calls, ListsAnswered(k)
  PROVE  AdminIndInv'
<1>1. CallsFit'
  BY PlainCalls, CallInv DEF ListsAnswered, CallEnds
<1>2. AdminListsFit'
  BY BackendStands, CallOf DEF ListsAnswered, CallFits, AdminListsFit
<1>3. reloaded' \in BOOLEAN /\ (~reloaded' => ~reloaded /\ farmers' = farmers)
  BY DEF ListsAnswered, AdminIndInv, PigFormFits
<1>4. PigFormFits'
  BY <1>3 DEF ListsAnswered, AdminIndInv, PigFormFits
<1> QED BY <1>1, <1>2, <1>4, BackendStands DEF ListsAnswered, AdminIndInv

\* A request fails.
LEMMA CallFailsInv ==
  ASSUME AdminIndInv, NEW k \in Calls, CallFails(k)
  PROVE  AdminIndInv'
<1>1. CallsFit'
  BY PlainCalls, CallInv DEF CallFails, CallEnds
<1> QED BY <1>1, BackendStands DEF CallFails, AdminIndInv, AdminListsFit, PigFormFits

\* A save closes the form, and every write is followed by a load.
LEMMA WriteAnsweredInv ==
  ASSUME AdminIndInv, NEW k \in Calls, WriteAnswered(k)
  PROVE  AdminIndInv'
<1>1. CallsFit'
  BY PlainCalls, CallInv DEF WriteAnswered
<1>2. form' \in {form, ShutForm} /\ reloaded' = (reloaded /\ form'.open) /\ UNCHANGED farmers
  BY DEF WriteAnswered
<1>3. PigFormFits'
  <2>1. reloaded' \in BOOLEAN
    BY <1>2
  <2>2. form'.open /\ ~reloaded' => form' = form /\ ~reloaded
    BY <1>2, ShutFormFits
  <2> QED BY <1>2, <2>1, <2>2, ShutFormFits DEF AdminIndInv, PigFormFits
<1> QED BY <1>1, <1>3, BackendStands DEF WriteAnswered, AdminIndInv, AdminListsFit

\* The form is shown with f.
LEMMA ShowsFormInv ==
  ASSUME AdminIndInv, OnPage, UNCHANGED calls, NEW f, ShowsForm(f),
         f.listed # 0 => f.weight = f.listed,
         f \in [open : BOOLEAN, pig : PigIds \cup {"new", Without}, index : 0..Crew,
                farmer : Crewmen \cup {Without},
                weight : Nat, listed : Nat],
         f.open => /\ f.pig \in PigIds \cup {"new"}
                   /\ f.index # 0 => f.index \in DOMAIN farmers /\ farmers[f.index] = f.farmer
  PROVE  AdminIndInv'
<1>1. UNCHANGED <<pigs, farmers, adminLoading, calls>> /\ form' = f /\ reloaded' \in BOOLEAN
  BY DEF OnPage, adminPage, ShowsForm
<1>2. PigFormFits'
  BY <1>1 DEF PigFormFits
<1> QED BY <1>1, <1>2, BackendStands DEF OnPage, AdminIndInv, AdminListsFit, CallsFit

\* The place of a farmer in the list, or 0.
LEMMA IndexInv ==
  ASSUME AdminIndInv, NEW f
  PROVE  IndexOf(f) \in 0..Crew /\ (IndexOf(f) # 0 => IndexOf(f) \in DOMAIN farmers
                                    /\ farmers[IndexOf(f)] = f)
<1>1. \A i \in DOMAIN farmers : i \in 0..Crew
  BY AdminAssumption DEF AdminIndInv, AdminListsFit, CrewList
<1>2. CASE \E i \in DOMAIN farmers : farmers[i] = f
  <2>1. IndexOf(f) \in DOMAIN farmers /\ farmers[IndexOf(f)] = f
    BY <1>2 DEF IndexOf
  <2> QED BY <1>1, <2>1
<1>3. CASE ~\E i \in DOMAIN farmers : farmers[i] = f
  BY <1>3, AdminAssumption DEF IndexOf
<1> QED BY <1>2, <1>3

\* The form of a pig opens.
LEMMA OpenFormInv == ASSUME AdminIndInv, NEW p \in PigIds, OpenForm(p) PROVE AdminIndInv'
<1>1. pigs[p] \in PigRow
  BY DEF OpenForm, AdminIndInv, AdminListsFit
<1>2. PICK f : f = [open |-> TRUE, pig |-> p, index |-> IndexOf(pigs[p].farmer),
                    farmer |-> pigs[p].farmer,
                    weight |-> pigs[p].weight, listed |-> pigs[p].weight]
  OBVIOUS
<1>3. /\ f \in [open : BOOLEAN, pig : PigIds \cup {"new", Without}, index : 0..Crew,
                farmer : Crewmen \cup {Without},
                weight : Nat, listed : Nat]
      /\ f.weight = f.listed /\ f.pig = p
      /\ f.index # 0 => f.index \in DOMAIN farmers /\ farmers[f.index] = f.farmer
  BY <1>1, <1>2, IndexInv DEF PigRow
<1> QED BY <1>2, <1>3, ShowsFormInv DEF OpenForm

\* A farmer is picked.
LEMMA OnPickFarmerInv ==
  ASSUME AdminIndInv, NEW i \in DOMAIN farmers, OnPickFarmer(i)
  PROVE  AdminIndInv'
<1>1. PICK f : f = [form EXCEPT !.index = i, !.farmer = farmers[i]]
  OBVIOUS
<1>2. i \in 0..Crew /\ farmers[i] \in Crewmen
  BY AdminAssumption DEF AdminIndInv, AdminListsFit, CrewList
<1>3. /\ f \in [open : BOOLEAN, pig : PigIds \cup {"new", Without}, index : 0..Crew,
                farmer : Crewmen \cup {Without},
                weight : Nat, listed : Nat]
      /\ f.index = i /\ f.farmer = farmers[i] /\ f.listed = form.listed /\ f.weight = form.weight
      /\ f.pig = form.pig
  BY <1>1, <1>2 DEF AdminIndInv, PigFormFits
<1>4. form.pig \in PigIds \cup {"new"} /\ (form.listed # 0 => form.weight = form.listed)
  BY DEF OnPickFarmer, AdminIndInv, PigFormFits
<1> QED BY <1>1, <1>3, <1>4, ShowsFormInv DEF OnPickFarmer

\* The form of a new pig opens, or a form is closed.
LEMMA FormTapsInv == AdminIndInv /\ (OpenAdd \/ CancelForm) => AdminIndInv'
<1>1. ASSUME AdminIndInv, CancelForm PROVE AdminIndInv'
  BY <1>1, ShutFormFits, ShowsFormInv DEF CancelForm
<1>2. ASSUME AdminIndInv, OpenAdd PROVE AdminIndInv'
  <2>1. PICK f : f = [ShutForm EXCEPT !.open = TRUE, !.pig = "new"]
    OBVIOUS
  <2>3. f = [open |-> TRUE, pig |-> "new", index |-> 0, farmer |-> Without, weight |-> 0,
             listed |-> 0]
    BY <2>1 DEF ShutForm
  <2>2. /\ f \in [open : BOOLEAN, pig : PigIds \cup {"new", Without}, index : 0..Crew,
                  farmer : Crewmen \cup {Without},
                  weight : Nat, listed : Nat]
        /\ f.listed = 0 /\ f.index = 0 /\ f.pig = "new"
    BY <2>3, AdminAssumption
  <2> QED BY <1>2, <2>1, <2>2, ShowsFormInv DEF OpenAdd
<1> QED BY <1>1, <1>2

\* The page sends a request.
LEMMA CallingInv ==
  ASSUME AdminIndInv, OnPage, UNCHANGED <<form, reloaded>>, NEW c, Calling(c), CallFits(c)
  PROVE  AdminIndInv'
<1>1. CallsFit'
  BY CallInv DEF Calling
<1> QED BY <1>1, BackendStands DEF OnPage, adminPage, AdminIndInv, AdminListsFit, PigFormFits

\* The form is saved.
LEMMA DoSaveFormInv == AdminIndInv /\ DoSaveForm => AdminIndInv'
<1> SUFFICES ASSUME AdminIndInv, DoSaveForm PROVE AdminIndInv'
  OBVIOUS
<1>1. PICK c : c = [kind |-> "save", pig |-> form.pig, farmer |-> form.farmer,
                    listed |-> form.listed,
                    weight |-> IF form.weight = 0 THEN DefaultWeight ELSE form.weight]
  OBVIOUS
<1>2. /\ form.pig \in PigIds \cup {"new"} /\ form.farmer \in Crewmen /\ form.weight \in Nat
      /\ form.listed \in Nat
      /\ form.listed # 0 => form.weight = form.listed
  BY DEF DoSaveForm, AdminIndInv, PigFormFits
<1>3. CallFits(c)
  BY <1>1, <1>2, AdminAssumption DEF CallFits, Save, DefaultWeight
<1> QED BY <1>1, <1>3, CallingInv DEF DoSaveForm

\* The buttons of a pig.
LEMMA ToggleOrDeleteInv ==
  ASSUME AdminIndInv, NEW p \in PigIds, ToggleOrDelete(p)
  PROVE  AdminIndInv'
<1>1. PICK kind \in {"toggle", "delete"} : Calling([kind |-> kind, pig |-> p])
  BY DEF ToggleOrDelete
<1>2. PICK c : c = [kind |-> kind, pig |-> p]
  OBVIOUS
<1>3. CallFits(c)
  BY <1>2 DEF CallFits
<1> QED BY <1>1, <1>2, <1>3, CallingInv DEF ToggleOrDelete

\* Every step of the page of pigs keeps the invariant.
LEMMA AdminStepInv == AdminIndInv /\ [AdminNext]_adminVars => AdminIndInv'
<1> SUFFICES ASSUME AdminIndInv, [AdminNext]_adminVars PROVE AdminIndInv'
  OBVIOUS
<1>1. CASE UNCHANGED adminVars
  BY <1>1, BackendStands DEF adminVars, adminPage, AdminIndInv, AdminListsFit, PigFormFits, CallsFit
<1>2. ASSUME NEW k \in Calls, CallGoesOn(k) PROVE AdminIndInv'
  <2>1. CASE ServesAdmin(k)
    BY <2>1, AdminGetListsInv, AdminSaveInv, AdminPatchInv DEF ServesAdmin
  <2> QED BY <1>2, <2>1, ListsAnsweredInv, CallFailsInv, WriteAnsweredInv DEF CallGoesOn
<1> QED
  BY <1>1, <1>2, OpenFormInv, ToggleOrDeleteInv, WeighInv, OnPickFarmerInv, FormTapsInv,
     DoSaveFormInv, CrewChangesInv
     DEF AdminNext

\* For any pigs and farmers: the form saves the farmer that it shows, and a pig keeps the weight
\* last measured unless a form with an older one was saved (foster/admin/pigs.vue).
THEOREM AdminFormsKeep == AdminSpec => [](AdminTypeOK /\ PickedIsShown /\ WeightKept)
<1>1. AdminSpec => []AdminIndInv
  BY AdminInitInv, AdminStepInv, PTL DEF AdminSpec
<1> QED
  BY <1>1, AdminIndInvImplies, PTL

(***************************************************************************)
(* The administrator's farmers and tasks.                                  *)
(*                                                                         *)
(* ListCurrent says when the list is that of the table, or will be after   *)
(* the load that follows; OneHired and OneGenerated that a form, and the   *)
(* dialog, have at most one request on its way.                            *)
(***************************************************************************)

StaffNow == [f \in Employed |-> cadre[f]]
Fields == {"old", "entered"}
StaffFits(rows) == DOMAIN rows \subseteq Staff /\ \A f \in DOMAIN rows : rows[f] \in Fields
TurnFits(t) ==
  /\ t.kind \in Kinds \cup {"free"} /\ (t.kind = "free" => t = NoTurn)
  /\ t.kind # "free" => t.here \in BOOLEAN /\ (t.kind \notin {"save", "drop"} => t.here)
  /\ t.kind = "loaded" => StaffFits(t.staff)
  /\ t.kind = "save" => t \in [kind : {"save"}, here : BOOLEAN, who : Staff \cup {"new"},
                               fields : Fields, form : BOOLEAN]
  /\ t.kind = "drop" => t \in [kind : {"drop"}, here : BOOLEAN, who : Staff]
TurnsFit == DOMAIN turns = Turns /\ \A k \in Turns : TurnFits(turns[k])

\* k has a request of the page that is open, of one of these kinds.
OfPage(t, kinds) == t.kind \in kinds /\ t.here
\* Each page asks for things of its own, and a page that was left for none.
OfDesk == \A k \in Turns : /\ OfPage(turns[k], {"generate", "generated"}) => desk = "tasks"
                           /\ OfPage(turns[k], {"save", "saved", "drop", "dropped"})
                                => desk = "farmers"
                           /\ OfPage(turns[k], {"load", "loaded"}) => desk # "menu"
DeskFits ==
  /\ cadre \in [Staff -> {NoOne} \cup Fields] /\ StaffFits(listed)
  /\ entry \in [who : Staff \cup {"new", NoOne}, fields : Fields, sent : BOOLEAN]
  /\ twice \in BOOLEAN /\ amiss \in BOOLEAN /\ hired \in 0..2
  /\ desk \in {"menu", "farmers", "tasks"}

\* The list of farmers will be that of the backend.
WillReload == \E k \in Turns : OfPage(turns[k], {"saved", "dropped"})
ListCurrent ==
  desk # "menu" /\ ~amiss =>
    /\ \A j, k \in Turns : OfPage(turns[j], {"load", "loaded"})
         /\ OfPage(turns[k], {"load", "loaded"}) => j = k
    /\ WillReload \/ \A k \in Turns : OfPage(turns[k], {"loaded"}) => turns[k].staff = StaffNow
    /\ listed = StaffNow \/ WillReload \/ \E k \in Turns : OfPage(turns[k], {"load", "loaded"})

\* The saves of a new farmer from the form that was opened last.
Hires(t) == OfPage(t, {"save"}) /\ t.who = "new" /\ t.form
OneHired ==
  ~twice => /\ hired <= 1
            /\ \A j, k \in Turns : Hires(turns[j]) /\ Hires(turns[k]) => j = k
            /\ \A k \in Turns : Hires(turns[k]) => hired = 0
            /\ entry.who = "new" /\ (hired # 0 \/ \E k \in Turns : Hires(turns[k])) => entry.sent

Generating(t) == OfPage(t, {"generate", "generated"})
OneGenerated ==
  /\ choice \in [who : Staff \cup {NoOne}, named : Staff \cup {NoOne}, submitting : BOOLEAN]
  /\ choice.named \in {NoOne, choice.who} /\ (choice.named # NoOne => ~choice.submitting)
  /\ \A k \in Turns : Generating(turns[k]) => choice.submitting
  /\ \A j, k \in Turns : Generating(turns[j]) /\ Generating(turns[k]) => j = k

DeskIndInv == TurnsFit /\ OfDesk /\ DeskFits /\ ListCurrent /\ OneHired /\ OneGenerated

\* The requests of the page that is open.
LEMMA AskedHereIs ==
  ASSUME DeskIndInv, NEW kinds, kinds \subseteq Kinds
  PROVE  AskedHere(kinds) = {k \in Turns : OfPage(turns[k], kinds)}
<1>1. \A k \in Turns : turns[k].kind \in kinds => turns[k] # NoTurn
  BY DEF NoTurn, Kinds
<1> QED BY <1>1 DEF AskedHere, OnWay, OfPage

\* The invariant has the module's properties.
LEMMA DeskIndInvImplies == DeskIndInv => DeskTypeOK /\ StaffCurrent /\ HiredOnce /\ GeneratesOnce
<1> SUFFICES ASSUME DeskIndInv PROVE DeskTypeOK /\ StaffCurrent /\ HiredOnce /\ GeneratesOnce
  OBVIOUS
<1>1. /\ AskedHere({"generate", "generated"}) = {k \in Turns : Generating(turns[k])}
      /\ AskedHere(Kinds) = {k \in Turns : OfPage(turns[k], Kinds)}
  BY AskedHereIs DEF Generating, Kinds
<1>2. DeskTypeOK
  BY <1>1 DEF DeskIndInv, DeskFits, StaffFits, OfDesk, Generating, DeskTypeOK
<1>3. StaffCurrent
  <2> SUFFICES ASSUME desk = "farmers", AskedHere(Kinds) = {}, ~amiss PROVE listed = StaffNow
    BY DEF StaffCurrent, StaffNow
  <2>1. \A k \in Turns : ~OfPage(turns[k], {"saved", "dropped"})
          /\ ~OfPage(turns[k], {"load", "loaded"})
    BY <1>1 DEF OfPage, Kinds
  <2> QED BY <2>1 DEF DeskIndInv, ListCurrent, WillReload
<1>4. HiredOnce
  BY DEF DeskIndInv, OneHired, HiredOnce
<1>5. GeneratesOnce
  <2> DEFINE S == {k \in Turns : Generating(turns[k])}
  <2>1. CASE S = {}
    <3>1. Cardinality(S) = 0
      BY <2>1, FS_EmptySet
    <3>2. Cardinality(S) <= IF choice.submitting THEN 1 ELSE 0
      BY <3>1
    <3> QED BY <1>1, <3>2 DEF GeneratesOnce, DeskIndInv, OneGenerated
  <2>2. CASE S # {}
    <3>1. PICK k \in Turns : Generating(turns[k])
      BY <2>2
    <3>2. S = {k} /\ choice.submitting
      BY <3>1 DEF DeskIndInv, OneGenerated
    <3>3. Cardinality(S) = 1
      BY <3>2, FS_Singleton
    <3>4. Cardinality(S) <= IF choice.submitting THEN 1 ELSE 0
      BY <3>2, <3>3
    <3> QED BY <1>1, <3>4 DEF GeneratesOnce, DeskIndInv, OneGenerated
  <2> QED BY <2>1, <2>2
<1> QED BY <1>2, <1>3, <1>4, <1>5

\* It holds at first.
LEMMA DeskInitInv == DeskInit => DeskIndInv
<1> SUFFICES ASSUME DeskInit PROVE DeskIndInv
  OBVIOUS
<1>1. \A k \in Turns : turns[k] = NoTurn
  BY DEF DeskInit
<1>2. \A kinds : kinds \subseteq Kinds => ~OfPage(NoTurn, kinds)
  BY DEF OfPage, NoTurn, Kinds
<1>3. \A k \in Turns : \A kinds : kinds \subseteq Kinds => ~OfPage(turns[k], kinds)
  BY <1>1, <1>2
<1>4. TurnsFit
  BY <1>1 DEF DeskInit, TurnsFit, TurnFits, NoTurn
<1>5. OfDesk
  BY <1>3 DEF OfDesk, Kinds
<1>6. DeskFits
  <2>1. NoEntry \in [who : Staff \cup {"new", NoOne}, fields : Fields, sent : BOOLEAN]
    BY DEF NoEntry, Filled, Fields
  <2>2. StaffFits(NoStaff)
    BY DEF StaffFits, NoStaff
  <2>3. cadre \in [Staff -> {NoOne} \cup Fields]
    BY DEF DeskInit, Fields
  <2>4. twice \in BOOLEAN /\ amiss \in BOOLEAN /\ hired = 0 /\ desk = "menu"
    BY DEF DeskInit
  <2> QED BY <2>1, <2>2, <2>3, <2>4 DEF DeskInit, DeskFits
<1>7. ListCurrent
  BY DEF DeskInit, ListCurrent
<1>8. OneHired
  BY <1>3 DEF DeskInit, OneHired, Hires, Kinds
<1>9. OneGenerated
  BY <1>3 DEF DeskInit, OneGenerated, Generating, NoChoice, Kinds
<1> QED BY <1>4, <1>5, <1>6, <1>7, <1>8, <1>9 DEF DeskIndInv

\* One request is replaced.
LEMMA TurnInv ==
  ASSUME DeskIndInv, NEW k \in Turns, NEW c, turns' = [turns EXCEPT ![k] = c], TurnFits(c)
  PROVE  TurnsFit' /\ \A j \in Turns : turns'[j] = IF j = k THEN c ELSE turns[j]
  BY DEF DeskIndInv, TurnsFit

\* A slot holds a request that fits.
LEMMA TurnOf ==
  ASSUME DeskIndInv, NEW k \in Turns
  PROVE  TurnFits(turns[k])
  BY DEF DeskIndInv, TurnsFit

\* Requests that carry nothing fit, and are of no other kind.
LEMMA PlainTurns ==
  /\ TurnFits(NoTurn) /\ NoTurn.kind = "free" /\ TurnFits(Loading) /\ Loading.kind = "load"
  /\ Loading.here = TRUE
  /\ \A kinds \in SUBSET Kinds : ~OfPage(NoTurn, kinds)
  /\ \A kinds \in SUBSET {"save", "saved", "drop", "dropped", "generate",
                          "generated"} : ~OfPage(Loading, kinds)
  /\ ~Hires(NoTurn) /\ ~Hires(Loading) /\ ~Generating(NoTurn) /\ ~Generating(Loading)
  BY DEF TurnFits, NoTurn, Loading, OfPage, Hires, Generating, Kinds

\* A request of one kind is of no other.
LEMMA KindsApart ==
  \A t : /\ t.kind \notin {"load", "loaded", "saved", "dropped"} => ~OfPage(t, {"load", "loaded"})
              /\ ~OfPage(t, {"loaded"}) /\ ~OfPage(t, {"saved", "dropped"})
         /\ t.kind # "save" => ~Hires(t)
         /\ t.kind \notin {"generate", "generated"} => ~Generating(t)
  BY DEF OfPage, Hires, Generating

\* A page that stays asks for things of its own.
LEMMA DeskStays ==
  ASSUME DeskIndInv, NEW k \in Turns, NEW c,
         \A j \in Turns : turns'[j] = IF j = k THEN c ELSE turns[j],
         UNCHANGED desk,
         /\ OfPage(c, {"generate", "generated"}) => desk = "tasks"
         /\ OfPage(c, {"save", "saved", "drop", "dropped"}) => desk = "farmers"
         /\ OfPage(c, {"load", "loaded"}) => desk # "menu"
  PROVE  OfDesk'
  BY DEF DeskIndInv, OfDesk

\* The list stands while nothing that loads is sent, answered or lost.
LEMMA StaffStands ==
  ASSUME DeskIndInv, NEW k \in Turns, NEW c,
         \A j \in Turns : turns'[j] = IF j = k THEN c ELSE turns[j],
         c.kind \notin {"load", "loaded"},
         turns[k].kind \notin {"load", "loaded", "saved", "dropped"},
         UNCHANGED <<cadre, desk, listed, amiss>>
  PROVE  ListCurrent'
<1>1. ~OfPage(c, {"load", "loaded"}) /\ ~OfPage(c, {"loaded"})
  BY DEF OfPage
<1>2. WillReload => WillReload'
  BY KindsApart DEF WillReload
<1> QED BY <1>1, <1>2, KindsApart DEF DeskIndInv, ListCurrent, StaffNow, Employed

\* The count of new farmers stands where none is asked for.
LEMMA HiresStand ==
  ASSUME DeskIndInv, NEW k \in Turns, NEW c,
         \A j \in Turns : turns'[j] = IF j = k THEN c ELSE turns[j],
         ~Hires(c), ~Hires(turns[k]), UNCHANGED <<entry, hired, twice>>
  PROVE  OneHired'
  BY DEF DeskIndInv, OneHired

\* The dialog's flag stands where no generation begins.
LEMMA GeneratedStands ==
  ASSUME DeskIndInv, NEW k \in Turns, NEW c,
         \A j \in Turns : turns'[j] = IF j = k THEN c ELSE turns[j],
         Generating(c) => Generating(turns[k]), UNCHANGED choice
  PROVE  OneGenerated'
  BY DEF DeskIndInv, OneGenerated

\* A farmer registers by himself.
LEMMA JoinsInv == ASSUME DeskIndInv, NEW f \in Staff, Joins(f) PROVE DeskIndInv'
<1>1. amiss' \in BOOLEAN /\ (desk # "menu" => amiss')
        /\ UNCHANGED <<desk, listed, deskLoading, entry, choice, turns, hired, twice>>
  BY DEF Joins, deskPage
<1>2. cadre' \in [Staff -> {NoOne} \cup Fields]
  BY DEF Joins, DeskIndInv, DeskFits, Fields
<1>3. ListCurrent'
  BY <1>1 DEF ListCurrent
<1> QED BY <1>1, <1>2, <1>3 DEF DeskIndInv, TurnsFit, OfDesk, DeskFits, OneHired, OneGenerated

\* The backend answers the list.
LEMMA GetStaffInv ==
  ASSUME DeskIndInv, NEW k \in Turns, ServesDesk(k), GetStaff(k)
  PROVE  DeskIndInv'
<1>1. turns[k].kind = "load" /\ turns[k].here
  BY TurnOf DEF GetStaff, TurnFits
<1>2. PICK c : c = [kind |-> "loaded", here |-> TRUE, staff |-> StaffNow]
  OBVIOUS
<1>3. c.kind = "loaded" /\ c.here = TRUE /\ c.staff = StaffNow /\ turns' = [turns EXCEPT ![k] = c]
  BY <1>1, <1>2 DEF GetStaff, Reply, StaffNow
<1>4. UNCHANGED <<cadre, hired, amiss, desk, listed, entry, choice, twice>>
  BY DEF ServesDesk, GetStaff, deskPage, DeskIndInv, DeskFits
<1>5. StaffFits(StaffNow)
  BY DEF StaffFits, StaffNow, Employed, DeskIndInv, DeskFits
<1>6. TurnsFit' /\ \A j \in Turns : turns'[j] = IF j = k THEN c ELSE turns[j]
  BY <1>3, <1>5, TurnInv DEF TurnFits, Kinds
<1>7. OfDesk'
  BY <1>1, <1>3, <1>4, <1>6, DeskStays DEF OfPage, DeskIndInv, OfDesk
<1>8. OneHired' /\ OneGenerated'
  BY <1>1, <1>3, <1>4, <1>6, HiresStand, GeneratedStands, KindsApart
<1>9. ListCurrent'
  <2>1. StaffNow' = StaffNow
    BY <1>4 DEF StaffNow, Employed
  <2>2. WillReload' <=> WillReload
    BY <1>1, <1>3, <1>6 DEF WillReload, OfPage
  <2>3. \A j \in Turns : OfPage(turns'[j], {"load", "loaded"})
          <=> OfPage(turns[j], {"load", "loaded"})
    BY <1>1, <1>3, <1>6 DEF OfPage
  <2> QED BY <1>3, <1>4, <1>6, <2>1, <2>2, <2>3 DEF DeskIndInv, ListCurrent
<1> QED BY <1>4, <1>6, <1>7, <1>8, <1>9 DEF DeskIndInv, DeskFits

\* A farmer is written: the page that asked will load, and for one that was left the list is amiss.
LEMMA WrittenInv ==
  ASSUME DeskIndInv, NEW k \in Turns, NEW kind \in {"saved", "dropped"},
         Reply(k, [kind |-> kind, here |-> TRUE]),
         turns[k].kind \in {"save", "drop"}, UNCHANGED <<desk, listed>>,
         amiss' = (amiss \/ (desk # "menu" /\ cadre' # cadre /\ ~turns[k].here))
  PROVE  /\ TurnsFit' /\ OfDesk' /\ ListCurrent' /\ amiss' \in BOOLEAN
         /\ \E c : ~Hires(c) /\ ~Generating(c)
              /\ \A j \in Turns : turns'[j] = IF j = k THEN c ELSE turns[j]
<1>1. PICK c : c = IF turns[k].here THEN [kind |-> kind, here |-> TRUE] ELSE NoTurn
  OBVIOUS
<1>2. turns' = [turns EXCEPT ![k] = c] /\ turns[k].here \in BOOLEAN /\ amiss \in BOOLEAN
  BY <1>1, TurnOf DEF Reply, TurnFits, DeskIndInv, DeskFits
<1>3. TurnFits(c) /\ c.kind \in {"free", "saved", "dropped"}
  BY <1>1, PlainTurns DEF TurnFits, Kinds
<1>4. TurnsFit' /\ \A j \in Turns : turns'[j] = IF j = k THEN c ELSE turns[j]
  BY <1>2, <1>3, TurnInv
<1>5. OfPage(turns[k], {"save", "saved", "drop", "dropped"}) <=> turns[k].here
  BY DEF OfPage
<1>6. CASE turns[k].here
  <2>1. c.kind = kind /\ c.here = TRUE /\ desk = "farmers" /\ (amiss' <=> amiss)
    BY <1>1, <1>2, <1>5, <1>6 DEF DeskIndInv, OfDesk
  <2>2. OfDesk'
    BY <1>4, <2>1, DeskStays DEF OfPage
  <2>3. WillReload'
    BY <1>4, <2>1 DEF WillReload, OfPage
  <2>4. \A j \in Turns : OfPage(turns'[j], {"load", "loaded"})
          => OfPage(turns[j], {"load", "loaded"})
    BY <1>4, <2>1 DEF OfPage
  <2>5. ListCurrent'
    BY <2>1, <2>3, <2>4 DEF DeskIndInv, ListCurrent
  <2> QED BY <1>2, <1>3, <1>4, <2>1, <2>2, <2>5, KindsApart
<1>7. CASE ~turns[k].here
  <2>1. c = NoTurn
    BY <1>1, <1>7
  <2>2. OfDesk'
    BY <1>4, <2>1, PlainTurns, DeskStays DEF Kinds
  <2>3. amiss' \in BOOLEAN
    BY <1>2
  <2>4. ListCurrent'
    <3>1. CASE cadre' = cadre
      <4>1. UNCHANGED amiss
        BY <1>2, <3>1
      <4> QED BY <1>3, <1>4, <2>1, <3>1, <4>1, PlainTurns, StaffStands
    <3>2. CASE cadre' # cadre
      BY <1>7, <3>2 DEF ListCurrent
    <3> QED BY <3>1, <3>2
  <2> QED BY <1>3, <1>4, <2>2, <2>3, <2>4, KindsApart
<1> QED BY <1>2, <1>6, <1>7

\* The backend saves a farmer.
LEMMA SaveFarmerInv ==
  ASSUME DeskIndInv, NEW k \in Turns, ServesDesk(k), SaveFarmer(k)
  PROVE  DeskIndInv'
<1>1. PICK d : d = turns[k]
  OBVIOUS
<1>2. d \in [kind : {"save"}, here : BOOLEAN, who : Staff \cup {"new"}, fields : Fields,
             form : BOOLEAN]
  BY <1>1, TurnOf DEF SaveFarmer, TurnFits
<1>3. /\ UNCHANGED <<desk, listed, deskLoading, entry, choice, twice>>
      /\ amiss' = (amiss \/ (desk # "menu" /\ cadre' # cadre /\ ~turns[k].here))
      /\ hired' = (IF d.who = "new" /\ d.here /\ d.form /\ hired < 2 THEN hired + 1 ELSE hired)
           /\ hired \in 0..2
  BY <1>1 DEF ServesDesk, SaveFarmer, deskPage, DeskIndInv, DeskFits
<1>4. TurnsFit' /\ OfDesk' /\ ListCurrent' /\ amiss' \in BOOLEAN
  BY <1>1, <1>2, <1>3, WrittenInv DEF SaveFarmer
<1>5. PICK c : ~Hires(c) /\ ~Generating(c)
             /\ \A j \in Turns : turns'[j] = IF j = k THEN c ELSE turns[j]
  BY <1>1, <1>2, <1>3, WrittenInv DEF SaveFarmer
<1>6. OneGenerated'
  BY <1>3, <1>5, GeneratedStands
<1>7. OneHired'
  <2>1. CASE Hires(d)
    <3> SUFFICES ASSUME ~twice PROVE OneHired'
      BY <1>3 DEF OneHired
    <3>1. hired = 0 /\ hired' = 1 /\ (entry.who = "new" => entry.sent)
      BY <1>1, <1>3, <2>1 DEF DeskIndInv, OneHired, Hires, OfPage
    <3>2. \A j \in Turns : ~Hires(turns'[j])
      BY <1>1, <1>5, <2>1 DEF DeskIndInv, OneHired
    <3> QED BY <1>3, <3>1, <3>2 DEF OneHired
  <2>2. CASE ~Hires(d)
    <3>1. hired' = hired
      BY <1>2, <1>3, <2>2 DEF Hires, OfPage
    <3> QED BY <1>1, <1>3, <1>5, <2>2, <3>1, HiresStand
  <2> QED BY <2>1, <2>2
<1>8. cadre' \in [Staff -> {NoOne} \cup Fields]
  BY <1>1, <1>2 DEF SaveFarmer, DeskIndInv, DeskFits
<1>9. hired' \in 0..2
  BY <1>3
<1> QED BY <1>3, <1>4, <1>6, <1>7, <1>8, <1>9 DEF DeskIndInv, DeskFits

\* The backend deletes one.
LEMMA DropFarmerInv ==
  ASSUME DeskIndInv, NEW k \in Turns, ServesDesk(k), DropFarmer(k)
  PROVE  DeskIndInv'
<1>1. turns[k].kind = "drop" /\ Reply(k, [kind |-> "dropped", here |-> TRUE])
  BY DEF DropFarmer
<1>2. /\ UNCHANGED <<desk, listed, deskLoading, entry, choice, twice, hired>>
      /\ amiss' = (amiss \/ (desk # "menu" /\ cadre' # cadre /\ ~turns[k].here))
  BY DEF ServesDesk, DropFarmer, deskPage
<1>3. TurnsFit' /\ OfDesk' /\ ListCurrent' /\ amiss' \in BOOLEAN
  BY <1>1, <1>2, WrittenInv
<1>4. PICK c : ~Hires(c) /\ ~Generating(c)
             /\ \A j \in Turns : turns'[j] = IF j = k THEN c ELSE turns[j]
  BY <1>1, <1>2, WrittenInv
<1>5. OneGenerated' /\ OneHired'
  BY <1>1, <1>2, <1>4, GeneratedStands, HiresStand, KindsApart
<1>6. cadre' \in [Staff -> {NoOne} \cup Fields]
  BY DEF DropFarmer, DeskIndInv, DeskFits
<1> QED BY <1>2, <1>3, <1>5, <1>6 DEF DeskIndInv, DeskFits

\* The backend generates tasks.
LEMMA CreateTasksInv ==
  ASSUME DeskIndInv, NEW k \in Turns, ServesDesk(k), CreateTasks(k)
  PROVE  DeskIndInv'
<1>1. turns[k].kind = "generate" /\ turns[k].here
  BY TurnOf DEF CreateTasks, TurnFits
<1>2. PICK c : c = [kind |-> "generated", here |-> TRUE]
  OBVIOUS
<1>3. c.kind = "generated" /\ c.here = TRUE /\ turns' = [turns EXCEPT ![k] = c]
  BY <1>1, <1>2 DEF CreateTasks, Reply
<1>4. UNCHANGED <<cadre, hired, amiss, desk, listed, entry, choice, twice>>
  BY DEF ServesDesk, CreateTasks, deskPage, DeskIndInv, DeskFits
<1>5. TurnsFit' /\ \A j \in Turns : turns'[j] = IF j = k THEN c ELSE turns[j]
  BY <1>3, TurnInv DEF TurnFits, Kinds
<1>6. OfDesk'
  BY <1>1, <1>3, <1>4, <1>5, DeskStays DEF OfPage, DeskIndInv, OfDesk
<1>7. OneHired' /\ ListCurrent'
  BY <1>1, <1>3, <1>4, <1>5, HiresStand, StaffStands, KindsApart
<1>8. OneGenerated'
  BY <1>1, <1>4, <1>5, GeneratedStands DEF Generating, OfPage
<1> QED BY <1>4, <1>5, <1>6, <1>7, <1>8 DEF DeskIndInv, DeskFits

\* The list was answered.
LEMMA StaffAnsweredInv == ASSUME DeskIndInv, NEW k \in Turns, StaffAnswered(k) PROVE DeskIndInv'
<1>1. turns[k].kind = "loaded" /\ turns[k].here /\ StaffFits(turns[k].staff)
  BY TurnOf DEF StaffAnswered, TurnFits
<1>2. turns' = [turns EXCEPT ![k] = NoTurn] /\ listed' = turns[k].staff
  BY DEF StaffAnswered
<1>3. UNCHANGED <<cadre, desk, entry, choice, hired, twice, amiss>>
  BY DEF StaffAnswered
<1>4. TurnsFit' /\ \A j \in Turns : turns'[j] = IF j = k THEN NoTurn ELSE turns[j]
  BY <1>2, TurnInv, PlainTurns
<1>5. OfDesk'
  BY <1>3, <1>4, DeskStays, PlainTurns DEF Kinds
<1>6. OneHired' /\ OneGenerated'
  BY <1>1, <1>3, <1>4, HiresStand, GeneratedStands, KindsApart, PlainTurns
<1>7. ListCurrent'
  <2>1. OfPage(turns[k], {"loaded"}) /\ OfPage(turns[k], {"load", "loaded"})
    BY <1>1 DEF OfPage
  <2>2. StaffNow' = StaffNow
    BY <1>3 DEF StaffNow, Employed
  <2>3. WillReload => WillReload'
    BY <1>1, <1>4 DEF WillReload, OfPage
  <2>4. /\ \A j \in Turns : OfPage(turns'[j], {"load", "loaded"})
             => OfPage(turns[j], {"load", "loaded"})
        /\ \A j \in Turns : OfPage(turns'[j], {"loaded"}) => turns'[j] = turns[j]
             /\ OfPage(turns[j], {"loaded"})
    BY <1>4, PlainTurns DEF Kinds
  <2> QED BY <1>2, <1>3, <2>1, <2>2, <2>3, <2>4 DEF DeskIndInv, ListCurrent
<1> QED BY <1>1, <1>2, <1>3, <1>4, <1>5, <1>6, <1>7 DEF DeskIndInv, DeskFits

\* A write was answered, and the page loads.
LEMMA DeskAnsweredInv == ASSUME DeskIndInv, NEW k \in Turns, DeskAnswered(k) PROVE DeskIndInv'
<1>1. turns[k].kind \in {"saved", "dropped"} /\ turns[k].here
  BY TurnOf DEF DeskAnswered, TurnFits
<1>2. turns' = [turns EXCEPT ![k] = Loading]
        /\ UNCHANGED <<cadre, desk, listed, choice, hired, twice>>
  BY DEF DeskAnswered
<1>3. entry' \in {entry, NoEntry}
  BY DEF DeskAnswered
<1>4. amiss' = (amiss \/ AskedHere({"load", "loaded"}) # {}) /\ amiss \in BOOLEAN
  BY DEF DeskAnswered, DeskIndInv, DeskFits
<1>5. TurnsFit' /\ \A j \in Turns : turns'[j] = IF j = k THEN Loading ELSE turns[j]
  BY <1>2, TurnInv, PlainTurns
<1>6. desk = "farmers"
  BY <1>1 DEF OfPage, DeskIndInv, OfDesk
<1>7. OfDesk'
  BY <1>2, <1>5, <1>6, DeskStays, PlainTurns
<1>8. OneGenerated'
  BY <1>2, <1>5, GeneratedStands, PlainTurns
<1>9. OneHired'
  <2>1. \A j \in Turns : Hires(turns'[j]) => turns'[j] = turns[j]
    BY <1>5, PlainTurns
  <2>2. entry'.who = "new" => entry' = entry
    BY <1>3, DeskAssumption DEF NoEntry, Filled
  <2> QED BY <1>2, <2>1, <2>2 DEF DeskIndInv, OneHired
<1>10. ListCurrent'
  <2> SUFFICES ASSUME ~amiss' PROVE ListCurrent'
    BY DEF ListCurrent
  <2>1. {"load", "loaded"} \subseteq Kinds
    BY DEF Kinds
  <2>2. AskedHere({"load", "loaded"}) = {j \in Turns : OfPage(turns[j], {"load", "loaded"})}
    BY <2>1, AskedHereIs
  <2>3. \A j \in Turns : ~OfPage(turns[j], {"load", "loaded"})
    BY <1>4, <2>2
  <2>4. OfPage(Loading, {"load", "loaded"}) /\ ~OfPage(Loading, {"loaded"})
    BY DEF OfPage, Loading
  <2>5. \A j \in Turns : OfPage(turns'[j], {"load", "loaded"}) <=> j = k
    BY <1>5, <2>3, <2>4
  <2>6. \A j \in Turns : ~OfPage(turns'[j], {"loaded"})
    BY <1>5, <2>3, <2>4 DEF OfPage
  <2> QED BY <2>5, <2>6 DEF ListCurrent
<1>11. amiss' \in BOOLEAN
  BY <1>4
<1>12. entry' \in [who : Staff \cup {"new", NoOne}, fields : Fields, sent : BOOLEAN]
  <2>1. entry \in [who : Staff \cup {"new", NoOne}, fields : Fields, sent : BOOLEAN]
    BY DEF DeskIndInv, DeskFits
  <2>2. NoEntry \in [who : Staff \cup {"new", NoOne}, fields : Fields, sent : BOOLEAN]
    BY DEF NoEntry, Filled, Fields
  <2> QED BY <1>3, <2>1, <2>2
<1> QED BY <1>2, <1>5, <1>7, <1>8, <1>9, <1>10, <1>11, <1>12 DEF DeskIndInv, DeskFits

\* The request of page k is over, or failed: the dialog's flag with it.
LEMMA GeneratedOver ==
  ASSUME DeskIndInv, NEW k \in Turns,
         \A j \in Turns : turns'[j] = IF j = k THEN NoTurn ELSE turns[j],
         \/ choice' = choice
         \/ Generating(turns[k]) /\ choice' = [choice EXCEPT !.submitting = FALSE]
  PROVE  OneGenerated'
<1>1. CASE choice' = choice
  BY <1>1, GeneratedStands, PlainTurns
<1>2. CASE Generating(turns[k]) /\ choice' = [choice EXCEPT !.submitting = FALSE]
  <2>1. \A j \in Turns : ~Generating(turns'[j])
    BY <1>2, PlainTurns DEF DeskIndInv, OneGenerated
  <2>2. /\ choice' \in [who : Staff \cup {NoOne}, named : Staff \cup {NoOne}, submitting : BOOLEAN]
        /\ choice'.named = choice.named /\ choice'.who = choice.who /\ choice'.submitting = FALSE
    BY <1>2 DEF DeskIndInv, OneGenerated
  <2> QED BY <2>1, <2>2 DEF DeskIndInv, OneGenerated
<1> QED BY <1>1, <1>2

\* A generation was answered.
LEMMA GeneratedInv == ASSUME DeskIndInv, NEW k \in Turns, Generated(k) PROVE DeskIndInv'
<1>1. turns[k].kind = "generated" /\ turns[k].here
  BY TurnOf DEF Generated, TurnFits
<1>2. turns' = [turns EXCEPT ![k] = NoTurn] /\ choice' = [choice EXCEPT !.submitting = FALSE]
  BY DEF Generated
<1>3. UNCHANGED <<cadre, desk, listed, entry, hired, twice, amiss>>
  BY DEF Generated, deskPage
<1>4. TurnsFit' /\ \A j \in Turns : turns'[j] = IF j = k THEN NoTurn ELSE turns[j]
  BY <1>2, TurnInv, PlainTurns
<1>5. OfDesk'
  BY <1>3, <1>4, DeskStays, PlainTurns DEF Kinds
<1>6. ListCurrent' /\ OneHired'
  BY <1>1, <1>3, <1>4, StaffStands, HiresStand, KindsApart, PlainTurns
<1>7. Generating(turns[k])
  BY <1>1 DEF Generating, OfPage
<1>8. OneGenerated'
  BY <1>2, <1>4, <1>7, GeneratedOver
<1> QED BY <1>3, <1>4, <1>5, <1>6, <1>8 DEF DeskIndInv, DeskFits

\* A request fails.
LEMMA TurnFailsInv == ASSUME DeskIndInv, NEW k \in Turns, TurnFails(k) PROVE DeskIndInv'
<1>1. turns[k] # NoTurn /\ turns' = [turns EXCEPT ![k] = NoTurn]
  BY DEF TurnFails, OnWay
<1>2. UNCHANGED <<cadre, desk, listed, entry, hired, twice>>
  BY DEF TurnFails
<1>3. turns[k].here \in BOOLEAN /\ (~turns[k].here => turns[k].kind \in {"save", "drop"})
  BY <1>1, TurnOf DEF TurnFits
<1>4. amiss' = (amiss \/ turns[k].here) /\ amiss \in BOOLEAN
  BY DEF TurnFails, DeskIndInv, DeskFits
<1>5. TurnsFit' /\ \A j \in Turns : turns'[j] = IF j = k THEN NoTurn ELSE turns[j]
  BY <1>1, TurnInv, PlainTurns
<1>6. OfDesk'
  BY <1>2, <1>5, DeskStays, PlainTurns DEF Kinds
<1>7. ListCurrent'
  <2>1. CASE turns[k].here
    <3>1. amiss'
      BY <1>4, <2>1
    <3> QED BY <3>1 DEF ListCurrent
  <2>2. CASE ~turns[k].here
    <3>1. UNCHANGED amiss
      BY <1>4, <2>2
    <3> QED BY <1>2, <1>3, <1>5, <2>2, <3>1, StaffStands, PlainTurns
  <2> QED BY <1>3, <2>1, <2>2
<1>8. OneHired'
  <2>1. \A j \in Turns : Hires(turns'[j]) => turns'[j] = turns[j]
    BY <1>5, PlainTurns
  <2> QED BY <1>2, <2>1 DEF DeskIndInv, OneHired
<1>9. OneGenerated'
  <2>1. {"generate", "generated"} \subseteq Kinds
    BY DEF Kinds
  <2>2. k \in AskedHere({"generate", "generated"}) <=> Generating(turns[k])
    BY <2>1, AskedHereIs DEF Generating
  <2>3. \/ choice' = choice
        \/ Generating(turns[k]) /\ choice' = [choice EXCEPT !.submitting = FALSE]
    BY <2>2 DEF TurnFails
  <2> QED BY <1>5, <2>3, GeneratedOver
<1>10. amiss' \in BOOLEAN
  BY <1>4
<1> QED BY <1>2, <1>5, <1>6, <1>7, <1>8, <1>9, <1>10 DEF DeskIndInv, DeskFits

\* A page takes a free slot for its request.
LEMMA AskingInv ==
  ASSUME DeskIndInv, NEW c, Asking(c), TurnFits(c)
  PROVE  \E k \in Turns : /\ turns[k] = NoTurn
                          /\ TurnsFit' /\ \A j \in Turns : turns'[j] = IF j = k THEN c ELSE turns[j]
<1>1. PICK k \in Turns \ OnWay : turns' = [turns EXCEPT ![k] = c]
  BY DEF Asking
<1>2. turns[k] = NoTurn
  BY <1>1 DEF OnWay
<1> QED BY <1>1, <1>2, TurnInv

\* A page is opened, and loads.
LEMMA GoInv == ASSUME DeskIndInv, NEW d \in {"farmers", "tasks"}, Go(d) PROVE DeskIndInv'
<1>1. PICK k \in Turns : /\ turns[k] = NoTurn
                         /\ TurnsFit'
                         /\ \A j \in Turns : turns'[j] = IF j = k THEN Loading ELSE turns[j]
  BY AskingInv, PlainTurns DEF Go
<1>2. desk = "menu" /\ desk' = d /\ UNCHANGED <<cadre, listed, deskLoading, entry, choice, hired,
                                                twice, amiss>>
  BY DEF Go, deskPage
<1>3. \A j \in Turns : /\ ~OfPage(turns[j], {"generate", "generated"})
                       /\ ~OfPage(turns[j], {"save", "saved", "drop", "dropped"})
                       /\ ~OfPage(turns[j], {"load", "loaded"})
  BY <1>2 DEF DeskIndInv, OfDesk
<1>4. /\ ~OfPage(Loading, {"generate", "generated"})
      /\ ~OfPage(Loading, {"save", "saved", "drop", "dropped"})
      /\ OfPage(Loading, {"load", "loaded"}) /\ ~OfPage(Loading, {"loaded"})
  BY DEF OfPage, Loading
<1>5. OfDesk'
  BY <1>1, <1>2, <1>3, <1>4 DEF OfDesk
<1>6. ListCurrent'
  <2>1. \A j \in Turns : OfPage(turns'[j], {"load", "loaded"}) <=> j = k
    BY <1>1, <1>3, <1>4
  <2>2. \A j \in Turns : ~OfPage(turns'[j], {"loaded"})
    BY <1>1, <1>3, <1>4 DEF OfPage
  <2> QED BY <2>1, <2>2 DEF ListCurrent
<1>7. OneHired' /\ OneGenerated'
  BY <1>1, <1>2, HiresStand, GeneratedStands, PlainTurns
<1> QED BY <1>1, <1>2, <1>5, <1>6, <1>7 DEF DeskIndInv, DeskFits

\* A page is left: what it still writes is no longer of it.
LEMMA BackToMenuInv == ASSUME DeskIndInv, BackToMenu PROVE DeskIndInv'
<1>1. \A k \in Turns : TurnFits(Left[k]) /\ ~OfPage(Left[k], Kinds)
  <2> SUFFICES ASSUME NEW k \in Turns PROVE TurnFits(Left[k]) /\ ~OfPage(Left[k], Kinds)
    OBVIOUS
  <2>1. PICK t : t = turns[k]
    OBVIOUS
  <2>2. TurnFits(t)
    BY <2>1, TurnOf
  <2>3. {"save", "drop"} \subseteq Kinds
    BY DEF Kinds
  <2>4. /\ AskedHere({"save", "drop"}) = {j \in Turns : OfPage(turns[j], {"save", "drop"})}
        /\ AskedHere(Kinds) = {j \in Turns : OfPage(turns[j], Kinds)}
    BY <2>3, AskedHereIs
  <2>5. Left[k] = IF OfPage(t, {"save", "drop"}) THEN [t EXCEPT !.here = FALSE]
                  ELSE IF OfPage(t, Kinds) THEN NoTurn ELSE t
    BY <2>1, <2>4 DEF Left
  <2>6. CASE OfPage(t, {"save", "drop"})
    <3>1. Left[k] = [t EXCEPT !.here = FALSE]
      BY <2>5, <2>6
    <3>2. CASE t.kind = "save"
      <4>1. t \in [kind : {"save"}, here : BOOLEAN, who : Staff \cup {"new"}, fields : Fields,
                   form : BOOLEAN]
        BY <2>2, <3>2 DEF TurnFits
      <4> QED BY <3>1, <3>2, <4>1 DEF TurnFits, OfPage, Kinds
    <3>3. CASE t.kind = "drop"
      <4>1. t \in [kind : {"drop"}, here : BOOLEAN, who : Staff]
        BY <2>2, <3>3 DEF TurnFits
      <4> QED BY <3>1, <3>3, <4>1 DEF TurnFits, OfPage, Kinds
    <3> QED BY <2>6, <3>2, <3>3 DEF OfPage
  <2>7. CASE ~OfPage(t, {"save", "drop"}) /\ OfPage(t, Kinds)
    BY <2>5, <2>7, PlainTurns
  <2>8. CASE ~OfPage(t, {"save", "drop"}) /\ ~OfPage(t, Kinds)
    BY <2>2, <2>5, <2>8
  <2> QED BY <2>6, <2>7, <2>8
<1>2. /\ desk' = "menu" /\ turns' = Left /\ listed' = NoStaff /\ entry' = NoEntry
      /\ choice' = NoChoice
      /\ hired' = 0 /\ twice' = FALSE /\ amiss' = FALSE /\ UNCHANGED cadre
  BY DEF BackToMenu
<1>3. DOMAIN Left = Turns
  BY DEF Left
<1>4. TurnsFit'
  BY <1>1, <1>2, <1>3 DEF TurnsFit
<1>5. \A k \in Turns : ~OfPage(turns'[k], Kinds)
  BY <1>1, <1>2
<1>6. OfDesk' /\ ListCurrent'
  BY <1>2, <1>5 DEF OfDesk, ListCurrent, OfPage, Kinds
<1>7. OneHired' /\ OneGenerated'
  BY <1>2, <1>5 DEF OneHired, OneGenerated, Hires, Generating, OfPage, Kinds, NoChoice
<1>8. NoEntry \in [who : Staff \cup {"new", NoOne}, fields : Fields, sent : BOOLEAN]
        /\ StaffFits(NoStaff)
  BY DEF NoEntry, Filled, Fields, StaffFits, NoStaff
<1>9. DeskFits'
  <2>1. cadre' \in [Staff -> {NoOne} \cup Fields]
    BY <1>2 DEF DeskIndInv, DeskFits
  <2>2. hired' \in 0..2
    BY <1>2
  <2>3. twice' \in BOOLEAN /\ amiss' \in BOOLEAN
    BY <1>2
  <2> QED BY <1>2, <1>8, <2>1, <2>2, <2>3 DEF DeskFits
<1> QED BY <1>4, <1>6, <1>7, <1>9 DEF DeskIndInv

\* The forms and the dialog leave the list as it is.
LEMMA ListUntouched ==
  ASSUME DeskIndInv, UNCHANGED <<turns, cadre, desk, listed, amiss>>
  PROVE  TurnsFit' /\ OfDesk' /\ ListCurrent'
  BY DEF DeskIndInv, TurnsFit, OfDesk, ListCurrent, WillReload, StaffNow, Employed

\* A form opens.
LEMMA OpenEntryInv ==
  ASSUME DeskIndInv, NEW w \in Staff \cup {"new"}, OpenEntry(w)
  PROVE  DeskIndInv'
<1>1. UNCHANGED <<cadre, desk, listed, deskLoading, amiss, choice>>
  BY DEF OpenEntry, OnDesk, deskPage
<1>2. /\ hired' = 0 /\ twice' = FALSE
      /\ entry' = Filled(w, IF w = "new" THEN "old" ELSE listed[w])
           /\ (w = "new" \/ w \in DOMAIN listed)
  BY DEF OpenEntry
<1>3. turns' = [k \in Turns |-> IF turns[k].kind = "save" THEN [turns[k] EXCEPT !.form = FALSE]
                                                          ELSE turns[k]]
  BY DEF OpenEntry
<1>4. entry' \in [who : Staff \cup {"new", NoOne}, fields : Fields, sent : BOOLEAN]
  BY <1>2 DEF Filled, DeskIndInv, DeskFits, StaffFits, Fields
<1>5. \A k \in Turns : /\ TurnFits(turns'[k]) /\ ~Hires(turns'[k])
                       /\ turns'[k].kind = turns[k].kind
                       /\ \A kinds : OfPage(turns'[k], kinds) <=> OfPage(turns[k], kinds)
                       /\ turns[k].kind # "save" => turns'[k] = turns[k]
  <2> SUFFICES ASSUME NEW k \in Turns
               PROVE  /\ TurnFits(turns'[k]) /\ ~Hires(turns'[k])
                      /\ turns'[k].kind = turns[k].kind
                      /\ \A kinds : OfPage(turns'[k], kinds) <=> OfPage(turns[k], kinds)
                      /\ turns[k].kind # "save" => turns'[k] = turns[k]
    OBVIOUS
  <2>1. PICK t : t = turns[k]
    OBVIOUS
  <2>2. TurnFits(t)
    BY <2>1, TurnOf
  <2>3. CASE t.kind = "save"
    <3>1. t \in [kind : {"save"}, here : BOOLEAN, who : Staff \cup {"new"}, fields : Fields,
                 form : BOOLEAN]
      BY <2>2, <2>3 DEF TurnFits
    <3>2. PICK c : c = [t EXCEPT !.form = FALSE]
      OBVIOUS
    <3>3. /\ c \in [kind : {"save"}, here : BOOLEAN, who : Staff \cup {"new"}, fields : Fields,
                    form : BOOLEAN]
          /\ c.form = FALSE /\ c.here = t.here /\ c.kind = t.kind /\ c.kind = "save"
      BY <3>1, <3>2
    <3>4. turns'[k] = c
      BY <1>3, <2>1, <2>3, <3>2
    <3>5. TurnFits(c)
      BY <3>3 DEF TurnFits, Kinds
    <3> QED BY <2>1, <3>3, <3>4, <3>5 DEF Hires, OfPage
  <2>4. CASE t.kind # "save"
    <3>1. turns'[k] = t
      BY <1>3, <2>1, <2>4
    <3> QED BY <2>1, <2>2, <2>4, <3>1 DEF Hires, OfPage
  <2> QED BY <2>3, <2>4
<1>6. OneHired'
  <2>1. \A k \in Turns : ~Hires(turns'[k])
    BY <1>5
  <2>2. hired' <= 1
    BY <1>2
  <2> QED BY <1>2, <2>1, <2>2 DEF OneHired
<1>7. OneGenerated'
  BY <1>1, <1>5 DEF DeskIndInv, OneGenerated, Generating
<1>8. TurnsFit'
  BY <1>3, <1>5 DEF TurnsFit
<1>9. OfDesk'
  BY <1>1, <1>5 DEF DeskIndInv, OfDesk
<1>10. ListCurrent'
  <2>1. StaffNow' = StaffNow
    BY <1>1 DEF StaffNow, Employed
  <2>2. WillReload' <=> WillReload
    BY <1>5 DEF WillReload
  <2>3. \A k \in Turns : OfPage(turns'[k], {"loaded"}) => turns'[k].staff = turns[k].staff
    BY <1>5 DEF OfPage
  <2> QED BY <1>1, <1>5, <2>1, <2>2, <2>3 DEF DeskIndInv, ListCurrent
<1>11. DeskFits'
  <2>1. hired' \in 0..2
    <3>1. hired' = 0
      BY <1>2
    <3> QED BY <3>1
  <2>2. twice' \in BOOLEAN
    BY <1>2
  <2> QED BY <1>1, <1>4, <2>1, <2>2 DEF DeskIndInv, DeskFits
<1> QED BY <1>6, <1>7, <1>8, <1>9, <1>10, <1>11 DEF DeskIndInv

\* A form is filled in, or closed.
LEMMA EditEntryInv == ASSUME DeskIndInv, TypeFields \/ CancelEntry PROVE DeskIndInv'
<1>1. UNCHANGED <<cadre, desk, listed, deskLoading, amiss, choice, turns, hired, twice>>
  BY DEF TypeFields, CancelEntry, OnDesk, deskPage
<1>2. entry \in [who : Staff \cup {"new", NoOne}, fields : Fields, sent : BOOLEAN]
  BY DEF DeskIndInv, DeskFits
<1>3. entry' = [entry EXCEPT !.fields = "entered"] \/ entry' = NoEntry
  BY DEF TypeFields, CancelEntry
<1>4. /\ entry' \in [who : Staff \cup {"new", NoOne}, fields : Fields, sent : BOOLEAN]
      /\ entry'.who = "new" => entry.who = "new" /\ entry'.sent = entry.sent
  <2>1. CASE entry' = [entry EXCEPT !.fields = "entered"]
    BY <1>2, <2>1 DEF Fields
  <2>2. CASE entry' = NoEntry
    BY <2>2, DeskAssumption DEF NoEntry, Filled, Fields
  <2> QED BY <1>3, <2>1, <2>2
<1>5. OneHired'
  BY <1>1, <1>4 DEF DeskIndInv, OneHired
<1>6. OneGenerated'
  BY <1>1 DEF DeskIndInv, OneGenerated
<1> QED BY <1>1, <1>4, <1>5, <1>6, ListUntouched DEF DeskIndInv, DeskFits

\* A form is saved.
LEMMA SaveEntryInv == ASSUME DeskIndInv, SaveEntry PROVE DeskIndInv'
<1>1. entry \in [who : Staff \cup {"new", NoOne}, fields : Fields, sent : BOOLEAN]
        /\ entry.who # NoOne
  BY DEF SaveEntry, DeskIndInv, DeskFits
<1>2. PICK c : c = [kind |-> "save", here |-> TRUE, who |-> entry.who, fields |-> entry.fields,
                    form |-> TRUE]
  OBVIOUS
<1>3. Asking(c) /\ UNCHANGED <<cadre, desk, listed, deskLoading, amiss, choice, hired>>
        /\ desk = "farmers"
  BY <1>2 DEF SaveEntry, OnDesk, deskPage
<1>4. entry' = [entry EXCEPT !.sent = (entry.who = "new")] /\ twice' = (twice \/ entry.sent)
  BY DEF SaveEntry
<1>5. TurnFits(c) /\ c.kind = "save" /\ c.here = TRUE /\ c.who = entry.who
  BY <1>1, <1>2 DEF TurnFits, Kinds
<1>6. PICK k \in Turns : /\ turns[k] = NoTurn
                         /\ TurnsFit' /\ \A j \in Turns : turns'[j] = IF j = k THEN c ELSE turns[j]
  BY <1>3, <1>5, AskingInv
<1>7. OfDesk'
  BY <1>3, <1>5, <1>6, DeskStays DEF OfPage
<1>8. ListCurrent' /\ OneGenerated'
  BY <1>3, <1>5, <1>6, StaffStands, GeneratedStands, KindsApart, PlainTurns
<1>9. /\ entry' \in [who : Staff \cup {"new", NoOne}, fields : Fields, sent : BOOLEAN]
      /\ entry'.who = entry.who /\ entry'.sent = (entry.who = "new")
  BY <1>1, <1>4
<1>10. OneHired'
  <2> SUFFICES ASSUME ~twice, ~entry.sent PROVE OneHired'
    BY <1>4 DEF OneHired
  <2>1. CASE entry.who = "new"
    <3>1. hired = 0 /\ \A j \in Turns : ~Hires(turns[j])
      BY <2>1 DEF DeskIndInv, OneHired
    <3>2. \A j \in Turns : Hires(turns'[j]) => j = k
      BY <1>6, <3>1
    <3> QED BY <1>3, <1>9, <2>1, <3>1, <3>2 DEF OneHired
  <2>2. CASE entry.who # "new"
    <3>1. \A j \in Turns : Hires(turns'[j]) => turns'[j] = turns[j]
      BY <1>5, <1>6, <2>2 DEF Hires
    <3> QED BY <1>3, <1>9, <2>2, <3>1 DEF DeskIndInv, OneHired
  <2> QED BY <2>1, <2>2
<1>11. twice' \in BOOLEAN
  BY <1>1, <1>4 DEF DeskIndInv, DeskFits
<1> QED BY <1>3, <1>6, <1>7, <1>8, <1>9, <1>10, <1>11 DEF DeskIndInv, DeskFits

\* A farmer is deleted.
LEMMA DeleteFarmerInv == ASSUME DeskIndInv, NEW f \in Staff, DeleteFarmer(f) PROVE DeskIndInv'
<1>1. PICK c : c = [kind |-> "drop", here |-> TRUE, who |-> f]
  OBVIOUS
<1>2. Asking(c) /\ UNCHANGED <<cadre, desk, listed, deskLoading, amiss, entry, choice, hired,
                               twice>> /\ desk = "farmers"
  BY <1>1 DEF DeleteFarmer, OnDesk, deskPage
<1>3. TurnFits(c) /\ c.kind = "drop"
  BY <1>1 DEF TurnFits, Kinds
<1>4. PICK k \in Turns : /\ turns[k] = NoTurn
                         /\ TurnsFit' /\ \A j \in Turns : turns'[j] = IF j = k THEN c ELSE turns[j]
  BY <1>2, <1>3, AskingInv
<1>5. OfDesk'
  BY <1>2, <1>3, <1>4, DeskStays DEF OfPage
<1>6. ListCurrent' /\ OneHired' /\ OneGenerated'
  BY <1>2, <1>3, <1>4, StaffStands, HiresStand, GeneratedStands, KindsApart, PlainTurns
<1> QED BY <1>2, <1>4, <1>5, <1>6 DEF DeskIndInv, DeskFits

\* A farmer is tapped, and the dialog opens.
LEMMA ChooseInv ==
  ASSUME DeskIndInv, (\E f \in Staff : SelectFarmer(f)) \/ AskGenerate
  PROVE  DeskIndInv'
<1>1. UNCHANGED <<cadre, desk, listed, deskLoading, amiss, entry, turns, hired, twice>>
  BY DEF SelectFarmer, AskGenerate, OnDesk, deskPage
<1>2. choice \in [who : Staff \cup {NoOne}, named : Staff \cup {NoOne}, submitting : BOOLEAN]
  BY DEF DeskIndInv, OneGenerated
<1>3. /\ choice' \in [who : Staff \cup {NoOne}, named : Staff \cup {NoOne}, submitting : BOOLEAN]
      /\ choice'.submitting = choice.submitting
      /\ choice'.named \in {NoOne, choice'.who} /\ (choice'.named # NoOne => ~choice'.submitting)
  <2>1. CASE \E f \in Staff : SelectFarmer(f)
    <3>1. PICK f \in Staff : choice' = [choice EXCEPT !.who = f] /\ choice.named = NoOne
      BY <2>1 DEF SelectFarmer
    <3> QED BY <1>2, <3>1
  <2>2. CASE AskGenerate
    <3>1. choice' = [choice EXCEPT !.named = choice.who] /\ ~choice.submitting
      BY <2>2 DEF AskGenerate
    <3> QED BY <1>2, <3>1
  <2> QED BY <2>1, <2>2
<1>4. OneGenerated'
  BY <1>1, <1>3 DEF DeskIndInv, OneGenerated
<1>5. OneHired'
  BY <1>1 DEF DeskIndInv, OneHired
<1> QED BY <1>1, <1>4, <1>5, ListUntouched DEF DeskIndInv, DeskFits

\* The dialog is answered.
LEMMA AnswerDialogInv == ASSUME DeskIndInv, AnswerDialog PROVE DeskIndInv'
<1>1. UNCHANGED <<cadre, desk, listed, deskLoading, amiss, entry, hired, twice>> /\ desk = "tasks"
        /\ choice.named # NoOne
  BY DEF AnswerDialog, OnDesk, deskPage
<1>2. choice \in [who : Staff \cup {NoOne}, named : Staff \cup {NoOne}, submitting : BOOLEAN]
  BY DEF DeskIndInv, OneGenerated
<1>3. ~choice.submitting /\ \A j \in Turns : ~Generating(turns[j])
  BY <1>1 DEF DeskIndInv, OneGenerated
<1>4. CASE choice' = [choice EXCEPT !.named = NoOne] /\ UNCHANGED turns
  <2>1. /\ choice' \in [who : Staff \cup {NoOne}, named : Staff \cup {NoOne}, submitting : BOOLEAN]
        /\ choice'.named = NoOne
    BY <1>2, <1>4
  <2>2. OneGenerated'
    BY <1>3, <1>4, <2>1 DEF OneGenerated
  <2>3. OneHired'
    BY <1>1, <1>4 DEF DeskIndInv, OneHired
  <2> QED BY <1>1, <1>4, <2>2, <2>3, ListUntouched DEF DeskIndInv, DeskFits
<1>5. CASE /\ choice' = [choice EXCEPT !.named = NoOne, !.submitting = TRUE]
           /\ Asking([kind |-> "generate", here |-> TRUE, who |-> choice.who])
  <2>1. PICK c : c = [kind |-> "generate", here |-> TRUE, who |-> choice.who]
    OBVIOUS
  <2>2. TurnFits(c) /\ c.kind = "generate"
    BY <2>1 DEF TurnFits, Kinds
  <2>3. PICK k \in Turns : /\ turns[k] = NoTurn
                           /\ TurnsFit'
                           /\ \A j \in Turns : turns'[j] = IF j = k THEN c ELSE turns[j]
    BY <1>5, <2>1, <2>2, AskingInv
  <2>4. OfDesk'
    BY <1>1, <2>2, <2>3, DeskStays DEF OfPage
  <2>5. ListCurrent' /\ OneHired'
    BY <1>1, <2>2, <2>3, StaffStands, HiresStand, KindsApart, PlainTurns
  <2>6. /\ choice' \in [who : Staff \cup {NoOne}, named : Staff \cup {NoOne}, submitting : BOOLEAN]
        /\ choice'.named = NoOne /\ choice'.submitting = TRUE
    BY <1>2, <1>5
  <2>7. \A j \in Turns : Generating(turns'[j]) => j = k
    BY <1>3, <2>3
  <2>8. OneGenerated'
    BY <2>6, <2>7 DEF OneGenerated
  <2> QED BY <1>1, <2>3, <2>4, <2>5, <2>8 DEF DeskIndInv, DeskFits
<1> QED BY <1>4, <1>5 DEF AnswerDialog

\* Every step of the two pages keeps the invariant.
LEMMA DeskNextInv == DeskIndInv /\ [DeskNext]_deskVars => DeskIndInv'
<1> SUFFICES ASSUME DeskIndInv, [DeskNext]_deskVars PROVE DeskIndInv'
  OBVIOUS
<1>1. CASE \E k \in Turns : ServesDesk(k)
  BY <1>1, GetStaffInv, SaveFarmerInv, DropFarmerInv, CreateTasksInv DEF ServesDesk
<1>2. CASE \E k \in Turns : StaffAnswered(k) \/ DeskAnswered(k) \/ Generated(k) \/ TurnFails(k)
  BY <1>2, StaffAnsweredInv, DeskAnsweredInv, GeneratedInv, TurnFailsInv
<1>3. CASE \E f \in Staff : Joins(f) \/ DeleteFarmer(f)
  BY <1>3, JoinsInv, DeleteFarmerInv
<1>4. CASE (\E f \in Staff : SelectFarmer(f)) \/ AskGenerate
  BY <1>4, ChooseInv
<1>5. CASE \E d \in {"farmers", "tasks"} : Go(d)
  BY <1>5, GoInv
<1>6. CASE \E w \in Staff \cup {"new"} : OpenEntry(w)
  BY <1>6, OpenEntryInv
<1>7. CASE BackToMenu \/ TypeFields \/ CancelEntry \/ SaveEntry \/ AnswerDialog
  BY <1>7, BackToMenuInv, EditEntryInv, SaveEntryInv, AnswerDialogInv
<1>8. CASE UNCHANGED deskVars
  <2>1. UNCHANGED <<cadre, desk, listed, deskLoading, entry, choice, turns, hired, twice, amiss>>
    BY <1>8 DEF deskVars, deskPage
  <2>2. OneHired' /\ OneGenerated'
    BY <2>1 DEF DeskIndInv, OneHired, OneGenerated
  <2> QED BY <2>1, <2>2, ListUntouched DEF DeskIndInv, DeskFits
<1> QED BY <1>1, <1>2, <1>3, <1>4, <1>5, <1>6, <1>7, <1>8 DEF DeskNext, TurnGoesOn

\* For any farmers and requests: the list is that of the table once it was answered, a form makes
\* one farmer unless it is saved again, and tasks are generated for one farmer at a time, the one
\* that the dialog named (foster/admin/farmers.vue, tasks.vue).
THEOREM DeskKeeps == DeskSpec => [](DeskTypeOK /\ StaffCurrent /\ HiredOnce /\ GeneratesOnce)
<1>1. DeskSpec => []DeskIndInv
  BY DeskInitInv, DeskNextInv, PTL DEF DeskSpec
<1> QED BY <1>1, DeskIndInvImplies, PTL

\* The three pages of the administrator together: PickedIsShown and WeightKept of the form of a
\* pig, and what DeskKeeps says of the other two (foster/admin/pigs.vue, farmers.vue, tasks.vue).
THEOREM AdminPagesAgree == AdminSpec /\ DeskSpec => []AdminInv
BY AdminFormsKeep, DeskKeeps, PTL DEF AdminInv

=============================================================================
