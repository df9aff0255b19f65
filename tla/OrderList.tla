------------------------------ MODULE OrderList ------------------------------
(***************************************************************************)
(* The list of the buyer's orders: pages/my/orders of frontend/src.  A     *)
(* request is handled when it is sent; its answer comes later, or never,   *)
(* and several may be on their way: nothing cancels a load when another    *)
(* tab is picked, and the dialogs stay usable while a list loads.          *)
(***************************************************************************)
EXTENDS OrderRows

CONSTANTS
  Orders, Tabs, Slots, None,
  Pending   \* the orders that are pending at first; the others are paid

All == ""   \* the tab of all orders
ASSUME OrderListAssumption ==
  /\ Tabs \subseteq {All} \cup Statuses /\ All \in Tabs /\ Pending \subseteq Orders
  /\ None \notin Slots

VARIABLES
  rows,        \* backend: the status of each order
  activeTab, list, listLoading,
  asking,      \* the system's dialog: the action it asks about, and the order as it is listed
  refundOpen, shareModal, members,   \* orders, the last one as the one whose members are shown
  calls,       \* requests on their way
  newest,      \* history: the newest load while it runs
  fresh,       \* history: the newest load answered, and nothing was answered after it
  told,        \* history: the last success the user was told of, until a newest load has shown it
               \* or a stale write undid it
  mixed,       \* history: members were answered under another code's dialog
  wronged      \* history: a request was refused in the status its button was for

view == <<activeTab, list, listLoading>>
dialogs == <<asking, refundOpen, shareModal, members>>
loadHistory == <<newest, fresh, told>>
listVars == <<rows, view, dialogs, calls, loadHistory, mixed, wronged>>

Free == [kind |-> "free"]
\* stands is a history: no stale write has undone what the request did.
Post(kind, o) == [kind |-> kind, order |-> o, stands |-> TRUE]
Listing(t) == [o \in {p \in Orders : t = All \/ rows[p] = t} |-> rows[o]]
Load(t) == [kind |-> "load", items |-> Listing(t)]
Members(o) == [kind |-> "members", order |-> o]

FreeSlot(k) == calls[k] = Free /\ \A j \in Slots : calls[j] = Free => k <= j

\* load, sent in slot k.
StartLoad(k, t) ==
  /\ listLoading' = TRUE
  /\ calls' = [calls EXCEPT ![k] = Load(t)]
  /\ newest' = k
  /\ fresh' = FALSE

\* No order is listed as it was before what the user was told.
ShowsTold(items) ==
  told # None /\ told.order \in DOMAIN items => Rank[items[told.order]] >= Rank[told.status]

\* The answer, or its failure, which leaves the list as it is.
LoadEnds(k) ==
  /\ calls[k].kind = "load"
  /\ calls' = [calls EXCEPT ![k] = Free]
  /\ listLoading' = FALSE
  /\ newest' = IF newest = k THEN None ELSE newest
  /\ \/ /\ list' = calls[k].items
        /\ fresh' = (newest = k)
        /\ told' = IF fresh' /\ ShowsTold(list') THEN None ELSE told
     \/ UNCHANGED <<list, fresh, told>>
  /\ UNCHANGED <<rows, activeTab, dialogs, mixed, wronged>>

\* The page is open to a tap: no dialog lies over it.
Tappable == asking = None /\ refundOpen = None /\ shareModal = None

OnTabUnset(t) ==                                               \* mutant
  /\ Tappable
  /\ activeTab' = t
  /\ \E k \in Slots : FreeSlot(k) /\ StartLoad(k, activeTab)
  /\ UNCHANGED <<rows, list, dialogs, told, mixed, wronged>>
OnTab(t) ==
  /\ Tappable
  /\ activeTab' = t
  /\ \E k \in Slots : FreeSlot(k) /\ StartLoad(k, t)
  /\ UNCHANGED <<rows, list, dialogs, told, mixed, wronged>>

\* The buttons of a listed order.
Buttons(status) ==
  CASE status = "pending" -> {"cancel", "pay"}
    [] status = "paid" -> {"refund", "share"}
    [] status = "shipped" -> {"receive"}
    [] OTHER -> {}
Offers(kind, o) == Tappable /\ ~listLoading /\ o \in DOMAIN list /\ kind \in Buttons(list[o])

\* A request to the backend, which handles it at once; seen is the status its button was for.
\* One that is refused only leads to a toast.
SendPost(kind, o, seen) ==
  \E how \in Outcomes(kind, rows[o]) :
    IF how = "done"
      THEN /\ \E k \in Slots : FreeSlot(k) /\ calls' = [calls EXCEPT ![k] = Post(kind, o)]
           /\ rows' = [rows EXCEPT ![o] = To[kind]]
           /\ UNCHANGED wronged
      ELSE /\ wronged' = (wronged \/ (how = "refused" /\ seen = rows[o]))
           /\ UNCHANGED <<calls, rows>>

\* onCancel and onConfirmReceived ask first; so does onPay in production, to no effect.
Ask(kind, o) ==
  /\ kind \in {"cancel", "receive"} /\ Offers(kind, o)
  /\ asking' = [kind |-> kind, order |-> o, seen |-> list[o]]
  /\ UNCHANGED <<rows, view, refundOpen, shareModal, members, calls, loadHistory, mixed, wronged>>
AskAnswered ==
  /\ asking # None
  /\ asking' = None
  /\ \/ UNCHANGED <<rows, calls, wronged>>
     \/ SendPost(asking.kind, asking.order, asking.seen)
  /\ UNCHANGED <<view, refundOpen, shareModal, members, loadHistory, mixed>>

OnPay(o) ==
  /\ Offers("pay", o)
  /\ SendPost("pay", o, list[o])
  /\ UNCHANGED <<view, dialogs, loadHistory, mixed>>
OnShare(o) ==
  /\ Offers("share", o)
  /\ SendPost("share", o, list[o])
  /\ UNCHANGED <<view, dialogs, loadHistory, mixed>>

OnRefund(o) ==
  /\ Offers("refund", o)
  /\ refundOpen' = o
  /\ UNCHANGED <<rows, view, asking, shareModal, members, calls, loadHistory, mixed, wronged>>
\* The dialog takes the order as it was listed, which was paid.
OnRefundSubmit ==
  /\ refundOpen # None /\ asking = None
  /\ SendPost("refund", refundOpen, "paid")
  /\ UNCHANGED <<view, dialogs, loadHistory, mixed>>
CloseRefund ==
  /\ refundOpen # None /\ asking = None
  /\ refundOpen' = None
  /\ UNCHANGED <<rows, view, asking, shareModal, members, calls, loadHistory, mixed, wronged>>

OnLoadMembers ==
  /\ shareModal # None /\ refundOpen = None /\ asking = None
  /\ \E k \in Slots : FreeSlot(k) /\ calls' = [calls EXCEPT ![k] = Members(shareModal)]
  /\ UNCHANGED <<rows, view, dialogs, loadHistory, mixed, wronged>>
CloseShare ==
  /\ shareModal # None /\ refundOpen = None /\ asking = None
  /\ shareModal' = None
  /\ UNCHANGED <<rows, view, asking, refundOpen, members, calls, loadHistory, mixed, wronged>>

\* A request failed, or its answer is lost: a toast.
PostFails(k) ==
  /\ calls[k].kind \in Posts \cup {"members"}
  /\ calls' = [calls EXCEPT ![k] = Free]
  /\ UNCHANGED <<rows, view, dialogs, loadHistory, mixed, wronged>>

Tell(k) ==
  told' = IF calls[k].stands THEN [order |-> calls[k].order, status |-> To[calls[k].kind]] ELSE None

\* After a success the list is loaded again.
Moved(k) ==
  /\ calls[k].kind \in {"cancel", "pay", "receive", "refund"}
  /\ Tell(k)
  /\ refundOpen' = IF calls[k].kind = "refund" THEN None ELSE refundOpen
  /\ StartLoad(k, activeTab)
  /\ UNCHANGED <<rows, activeTab, list, asking, shareModal, members, mixed, wronged>>
Shared(k) ==
  /\ calls[k].kind = "share"
  /\ shareModal' = calls[k].order
  /\ members' = None
  /\ calls' = [calls EXCEPT ![k] = Free]
  /\ mixed' = FALSE
  /\ UNCHANGED <<rows, view, asking, refundOpen, loadHistory, wronged>>
MembersAnswered(k) ==
  /\ calls[k].kind = "members"
  /\ members' = calls[k].order
  /\ mixed' = (members' # shareModal)
  /\ calls' = [calls EXCEPT ![k] = Free]
  /\ UNCHANGED <<rows, view, asking, refundOpen, shareModal, loadHistory, wronged>>

\* onOpen: the page of the order, and back, when onShow loads again.  What happens while the
\* page is covered can happen before or after, too.
OnOpen ==
  /\ Tappable /\ ~listLoading /\ DOMAIN list # {}
  /\ \E k \in Slots : FreeSlot(k) /\ StartLoad(k, activeTab)
  /\ UNCHANGED <<rows, activeTab, list, dialogs, told, mixed, wronged>>

\* A change of an order from elsewhere: a payment or its shipment.  Bound: no refund is approved,
\* to the page a status without buttons, like refund_pending.
OthersMove(o) ==
  /\ \E kind \in {"pay", "ship"} :
       Accepts(kind, rows[o]) /\ rows' = [rows EXCEPT ![o] = To[kind]]
  /\ UNCHANGED <<view, dialogs, calls, loadHistory, mixed, wronged>>

\* A payment from the wallet that found the order pending is booked only now, over its
\* cancellation.  Bound: of the stale writes only this one; OrderDetail has the others.
Undone(c, o) ==
  IF c.kind \in Posts /\ c.order = o THEN [c EXCEPT !.stands = FALSE] ELSE c
OthersOverwrite(o) ==
  /\ rows[o] = "cancelled" /\ Stale("pay", rows[o])
  /\ rows' = [rows EXCEPT ![o] = "paid"]
  /\ calls' = [k \in Slots |-> Undone(calls[k], o)]
  /\ told' = IF told # None /\ told.order = o THEN None ELSE told
  /\ UNCHANGED <<view, dialogs, newest, fresh, mixed, wronged>>

ListInit ==
  /\ rows = [o \in Orders |-> IF o \in Pending THEN "pending" ELSE "paid"]
  /\ activeTab = All /\ list = [o \in {} |-> All] /\ listLoading = TRUE
  /\ asking = None /\ refundOpen = None /\ shareModal = None /\ members = None
  /\ newest = (CHOOSE k \in Slots : \A j \in Slots : k <= j) /\ fresh = FALSE
  /\ calls = [k \in Slots |-> IF k = newest THEN Load(All) ELSE Free]   \* onShow
  /\ told = None /\ mixed = FALSE /\ wronged = FALSE

Answered(k) == LoadEnds(k) \/ PostFails(k) \/ Moved(k) \/ Shared(k) \/ MembersAnswered(k)
ListAnswers == \E k \in Slots : Answered(k)

ListNext ==
  \/ ListAnswers
  \/ \E t \in Tabs : OnTab(t)
  \/ \E o \in Orders :
       \/ OnPay(o) \/ OnShare(o) \/ OnRefund(o) \/ OthersMove(o) \/ OthersOverwrite(o)
       \/ \E kind \in Posts : Ask(kind, o)
  \/ AskAnswered \/ OnRefundSubmit \/ CloseRefund \/ OnLoadMembers \/ CloseShare
  \/ OnOpen

\* Every request is answered, or its time of ten seconds ends.
ListSpec == ListInit /\ [][ListNext]_listVars /\ \A k \in Slots : WF_listVars(Answered(k))

(***************************************************************************)
(* Properties.                                                             *)
(***************************************************************************)

\* What the page holds are orders in statuses that it has labels for.
ListTypeOK ==
  /\ rows \in [Orders -> Statuses] /\ activeTab \in Tabs
  /\ DOMAIN list \subseteq Orders /\ \A o \in DOMAIN list : list[o] \in Statuses
  /\ {refundOpen, shareModal, members} \subseteq Orders \cup {None}
  /\ \A k \in Slots : calls[k].kind \in Posts \cup {"free", "load", "members"}

\* When the answer to the newest load is the last to arrive, the list is that of the tab that
\* is marked, and shows no order as it was before an action the user was told of (unless a
\* stale write of the backend has undone it since).
ListCurrent ==
  fresh => ShowsTold(list) /\ \A o \in DOMAIN list : activeTab \in {All, list[o]}

\* A button is refused only when the order has moved on since the page listed it (or the
\* pig's shares are gone): the page offers what the backend accepts.
RefusedOnlyOutdated == ~wronged

\* The members in the dialog of an invitation joined this one, unless their answer came under
\* the dialog of another.
MembersOfShown == shareModal # None /\ members # None => members = shareModal \/ mixed

\* The list of orders, the buttons under each and the members of its invitation are those of
\* the tab and the order on the screen (my/orders.vue).
ListInv == ListTypeOK /\ ListCurrent /\ RefusedOnlyOutdated /\ MembersOfShown

=============================================================================
