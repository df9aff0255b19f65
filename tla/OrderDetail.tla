----------------------------- MODULE OrderDetail -----------------------------
(***************************************************************************)
(* The page of one order: pages/order/detail of frontend/src.  It loads    *)
(* whenever it is shown and after every action, an answer to an older load *)
(* may come after that to a newer one, and its error hides the order.      *)
(***************************************************************************)
EXTENDS OrderRows

CONSTANTS Requests, Nil   \* Requests: slots for requests on their way

VARIABLES
  row,        \* backend: the order, its status and which of its times are set
  order, detailLoading, errMsg, detailRefund,   \* refs of the page; errMsg is whether it is set
  dialog,     \* the system's dialog of onCancel and onConfirmReceived, with the status it is for
  sent,       \* requests on their way
  latest,     \* history: the newest load while it runs
  current,    \* history: the newest load answered, no older one after it, and none failed since
              \* it was sent
  known,      \* history: the last status that the user was told of, "pending" once a stale
              \* write undid it
  refusedHere \* history: a request was refused in the status its button was for

orderPage == <<order, detailLoading, errMsg>>
detailDialogs == <<detailRefund, dialog>>
detailHistory == <<latest, current, known>>
detailVars == <<row, orderPage, detailDialogs, sent, detailHistory, refusedHere>>

Times == {"paidAt", "shippedAt", "deliveredAt"}
SetBy == [pay |-> {"paidAt"}, ship |-> {"shippedAt"}, receive |-> {"deliveredAt"},
          cancel |-> {}, refund |-> {}, share |-> {}, approve |-> {}]
ASSUME OrderDetailAssumption == Nil \notin Requests \cup [status : Statuses, times : SUBSET Times]
Write(kind) == [status |-> To[kind], times |-> row.times \cup SetBy[kind]]
\* The times of an order that came to a status the usual way, and has one to be shown.
Reached == [pending |-> {}, paid |-> {"paidAt"}, shipped |-> {"paidAt", "shippedAt"}, delivered |-> Times]
\* Of a handler that loaded the order before: save writes the whole of it, but for a payment,
\* which reads the order again and only takes its status for granted.
StaleWrite(kind) ==
  [status |-> To[kind],
   times |-> (IF kind = "pay" THEN row.times ELSE Reached[From[kind]]) \cup SetBy[kind]]

(***************************************************************************)
(* What the page makes of an order.                                        *)
(***************************************************************************)
Step(key, done, here) == [key |-> key, done |-> done, current |-> here]

\* The timeline: of a cancelled order, of one with a refund, and of all others.
StepsCancelled(o) == <<Step("created", TRUE, FALSE), Step("cancelled", TRUE, TRUE)>>
StepsRefund(o) ==
  <<Step("created", TRUE, FALSE), Step("paid", TRUE, FALSE),
    Step("refund", o.status = "refunded", TRUE)>>
StepsAlong(o) ==
  <<Step("created", TRUE, o.status = "pending"),
    Step("paid", "paidAt" \in o.times, o.status = "paid"),
    Step("shipped", "shippedAt" \in o.times, o.status = "shipped"),
    Step("delivered", "deliveredAt" \in o.times, o.status = "delivered")>>
Steps(o) ==
  CASE o.status = "cancelled" -> StepsCancelled(o)
    [] o.status \in {"refund_pending", "refunded"} -> StepsRefund(o)
    [] OTHER -> StepsAlong(o)

DetailButtons(status) ==
  CASE status = "pending" -> {"cancel", "pay"}
    [] status = "paid" -> {"refund", "share"}
    [] status = "shipped" -> {"receive"}
    [] OTHER -> {}   \* home

\* What is drawn: the first that applies.
Screen ==
  CASE detailLoading -> "loading"
    [] ~detailLoading /\ errMsg -> "error"
    [] OTHER -> "order"
Button(kind) ==
  Screen = "order" /\ dialog = Nil /\ ~detailRefund /\ kind \in DetailButtons(order.status)

(***************************************************************************)
(* Requests.                                                               *)
(***************************************************************************)
Unsent == [kind |-> "free"]
Fresh(r) == sent[r] = Unsent /\ \A q \in Requests : sent[q] = Unsent => r <= q

LoadOrder(r) ==
  /\ detailLoading' = TRUE
  /\ errMsg' = FALSE
  /\ sent' = [sent EXCEPT ![r] = [kind |-> "load", order |-> row]]
  /\ latest' = r
  /\ current' = FALSE

\* GET /orders/:id is answered, or fails; then the order of before stays, unseen.
LoadOrderEnds(r) ==
  /\ sent[r].kind = "load"
  /\ sent' = [sent EXCEPT ![r] = Unsent]
  /\ detailLoading' = FALSE
  /\ latest' = IF latest = r THEN Nil ELSE latest
  /\ \/ order' = sent[r].order /\ current' = (latest = r /\ ~errMsg) /\ UNCHANGED errMsg
     \/ errMsg' = TRUE /\ current' = FALSE /\ UNCHANGED order
  /\ UNCHANGED <<row, detailDialogs, known, refusedHere>>

\* A request of a button for the status seen; the backend handles it at once.  stands is a
\* history: no stale write has undone it.
PostOrder(kind, seen) ==
  \E how \in Outcomes(kind, row.status) :
    IF how = "done"
      THEN /\ \E r \in Requests : Fresh(r) /\ sent' = [sent EXCEPT ![r] = [kind |-> kind, stands |-> TRUE]]
           /\ row' = Write(kind)
           /\ UNCHANGED refusedHere
      ELSE /\ refusedHere' = (refusedHere \/ (how = "refused" /\ seen = row.status))
           /\ UNCHANGED <<sent, row>>

OnCancelOrReceive(kind) ==
  /\ kind \in {"cancel", "receive"} /\ Button(kind)
  /\ dialog' = [kind |-> kind, seen |-> order.status]
  /\ UNCHANGED <<row, orderPage, detailRefund, sent, detailHistory, refusedHere>>
DialogAnswered ==
  /\ dialog # Nil
  /\ dialog' = Nil
  /\ \/ UNCHANGED <<row, sent, refusedHere>>
     \/ PostOrder(dialog.kind, dialog.seen)
  /\ UNCHANGED <<orderPage, detailRefund, detailHistory>>

\* In production onPay is a note only.
OnPayOrder ==
  /\ Button("pay")
  /\ PostOrder("pay", order.status)
  /\ UNCHANGED <<orderPage, detailDialogs, detailHistory>>
OnShareOrder ==
  /\ Button("share")
  /\ PostOrder("share", order.status)
  /\ UNCHANGED <<orderPage, detailDialogs, detailHistory>>

\* The dialog for the reason is a part of the order's screen; it is closed by its buttons and
\* by an answer, and stays open while a load hides it.
OnRefundOrder ==
  /\ Button("refund")
  /\ detailRefund' = TRUE
  /\ UNCHANGED <<row, orderPage, dialog, sent, detailHistory, refusedHere>>
SubmitReason ==
  /\ detailRefund /\ Screen = "order" /\ dialog = Nil
  /\ PostOrder("refund", "paid")
  /\ UNCHANGED <<orderPage, detailDialogs, detailHistory>>
DropReason ==
  /\ detailRefund /\ Screen = "order" /\ dialog = Nil
  /\ detailRefund' = FALSE
  /\ UNCHANGED <<row, orderPage, dialog, sent, detailHistory, refusedHere>>

Told(r) == IF sent[r].stands THEN To[sent[r].kind] ELSE "pending"
\* A success is told, and the order is loaded again (but for the invitation, a dialog only).
ActionDoneUnloaded(r) ==                                       \* mutant
  /\ sent[r].kind \in Posts \ {"share"}
  /\ detailRefund' = (detailRefund /\ sent[r].kind # "refund")
  /\ known' = Told(r)
  /\ sent' = [sent EXCEPT ![r] = Unsent]
  /\ UNCHANGED <<row, orderPage, dialog, latest, current, refusedHere>>
ActionDone(r) ==
  /\ sent[r].kind \in Posts \ {"share"}
  /\ detailRefund' = (detailRefund /\ sent[r].kind # "refund")
  /\ known' = Told(r)
  /\ LoadOrder(r)
  /\ UNCHANGED <<row, order, dialog, refusedHere>>
\* The answer is lost, or shows the invitation's code.
ActionToasted(r) ==
  /\ sent[r].kind \in Posts
  /\ sent' = [sent EXCEPT ![r] = Unsent]
  /\ UNCHANGED <<row, orderPage, detailDialogs, detailHistory, refusedHere>>

\* goPig and back: onShow.
DetailOnShow ==
  /\ Screen = "order" /\ dialog = Nil /\ ~detailRefund
  /\ \E r \in Requests : Fresh(r) /\ LoadOrder(r)
  /\ UNCHANGED <<row, order, detailDialogs, known, refusedHere>>

\* Payments, operators, and the buyer's other pages.
OthersWrite ==
  /\ \E kind \in DOMAIN From \ {"share"} : Accepts(kind, row.status) /\ row' = Write(kind)
  /\ UNCHANGED <<orderPage, detailDialogs, sent, detailHistory, refusedHere>>

\* One of their handlers, or of payByWallet, that loaded the order before saves it now.
OverwriteRow ==
  /\ \E kind \in {"cancel", "pay", "refund", "ship"} :
       Stale(kind, row.status) /\ row.status # To[kind] /\ row' = StaleWrite(kind)
  /\ sent' = [r \in Requests |->
       IF sent[r].kind \in Posts THEN [sent[r] EXCEPT !.stands = FALSE] ELSE sent[r]]
  /\ known' = "pending"
  /\ UNCHANGED <<orderPage, detailDialogs, latest, current, refusedHere>>

DetailInit ==
  /\ row = [status |-> "pending", times |-> {}]
  /\ order = Nil /\ detailLoading = TRUE /\ errMsg = FALSE
  /\ detailRefund = FALSE /\ dialog = Nil
  /\ latest = (CHOOSE r \in Requests : \A q \in Requests : r <= q)
  /\ current = FALSE /\ known = "pending" /\ refusedHere = FALSE
  /\ sent = [r \in Requests |-> IF r = latest THEN [kind |-> "load", order |-> row] ELSE Unsent]

DetailAnswered(r) == LoadOrderEnds(r) \/ ActionDone(r) \/ ActionToasted(r)

DetailNext ==
  \/ \E r \in Requests : DetailAnswered(r)
  \/ \E kind \in Posts : OnCancelOrReceive(kind)
  \/ DialogAnswered \/ OnPayOrder \/ OnShareOrder
  \/ OnRefundOrder \/ SubmitReason \/ DropReason
  \/ DetailOnShow \/ OthersWrite \/ OverwriteRow

DetailSpec ==
  DetailInit /\ [][DetailNext]_detailVars /\ \A r \in Requests : WF_detailVars(DetailAnswered(r))

(***************************************************************************)
(* Properties.                                                             *)
(***************************************************************************)

\* The page holds an order once it shows one.
DetailTypeOK ==
  /\ row.status \in Statuses /\ row.times \subseteq Times
  /\ Screen = "order" => order # Nil
  /\ \A r \in Requests : sent[r].kind \in Posts \cup {"free", "load"}

\* When the answer to the newest load is the last, and no older load failed meanwhile (whose
\* error would hide the order), the order is on the screen, and not as it was before an action
\* that the user was told of (unless a stale write of the backend has undone it since).
DetailCurrent ==
  current => Rank[order.status] >= Rank[known] /\ Screen = "order"

\* A button is refused only when the order has moved on since the page loaded it.
DetailRefusedOutdated == ~refusedHere

\* The timeline of any order the page can hold has one current step, and the steps done are
\* those up to it (without it, while a refund is waited for); but for a late payment over a
\* shipment, which leaves the times of the shipment to an order that is paid.
TimelineInOrder ==
  order # Nil /\ (order.status \in DOMAIN Reached => order.times \subseteq Reached[order.status]) =>
    LET s == Steps(order)
        here == {i \in DOMAIN s : s[i].current}
    IN \E i \in DOMAIN s :
         /\ here = {i}
         /\ \A j \in DOMAIN s : s[j].done <=> j < i \/ (j = i /\ order.status # "refund_pending")

\* The page of one order: the order, its buttons and its timeline are of what was last loaded
\* and no older than what the user was told (order/detail.vue).
DetailInv == DetailTypeOK /\ DetailCurrent /\ DetailRefusedOutdated /\ TimelineInOrder

=============================================================================
