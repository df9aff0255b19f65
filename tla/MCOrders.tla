------------------------------ MODULE MCOrders ------------------------------
(***************************************************************************)
(* Instances of Checkout, OrderList and OrderDetail for TLC.  Only the     *)
(* backend's rows are common to these pages, and each module has the       *)
(* writes of the others as steps from elsewhere: a behaviour is one of a   *)
(* single page.                                                            *)
(***************************************************************************)
EXTENDS Checkout, OrderList, OrderDetail

VARIABLE part

pageVars == <<part, checkoutVars, listVars, detailVars>>
OfCheckout == part = "checkout" /\ UNCHANGED <<part, listVars, detailVars>>
OfList == part = "list" /\ UNCHANGED <<part, checkoutVars, detailVars>>
OfDetail == part = "detail" /\ UNCHANGED <<part, checkoutVars, listVars>>

\* The parts that do not run stand at one initial state.
PagesInit ==
  /\ part \in {"checkout", "list", "detail"}
  /\ CheckoutInit /\ ListInit /\ DetailInit
  /\ part # "checkout" => build = [prod |-> FALSE, mp |-> FALSE]

PagesNext ==
  \/ OfCheckout /\ CheckoutNext
  \/ OfList /\ ListNext
  \/ OfDetail /\ DetailNext

\* The steps that fairness is for; one of k and r stands for both.
GoesOnHere(k) ==
  \/ OfCheckout /\ SubmissionsGoOn
  \/ OfList /\ Answered(k)
  \/ OfDetail /\ DetailAnswered(k)

PagesSpec ==
  PagesInit /\ [][PagesNext]_pageVars /\ \A k \in Slots : WF_pageVars(GoesOnHere(k))

\* No page stays at "submitting" or "loading": a submission fails or leads to the result page
\* (order/confirm.vue:320; but for the mini program's build for development, which has no
\* payment), and each load ends (my/orders.vue:169, order/detail.vue:326).
Waits ==
  CASE part = "checkout" -> submitting /\ ~(build.mp /\ ~build.prod)
    [] part = "list" -> listLoading
    [] part = "detail" -> detailLoading
PagesGoOn == Waits ~> ~Waits
=============================================================================
