------------------------------- MODULE Checkout -------------------------------
(***************************************************************************)
(* From a pig to a paid order in the buyer's program: pages/pig/detail,    *)
(* pages/order/confirm and pages/order/result of frontend/src.             *)
(*                                                                         *)
(* A request is handled when it is sent, and its answer arrives later or   *)
(* is lost.  Nothing disables the submit button while a submission runs,   *)
(* and a submission is two requests (the order, then its payment) with the *)
(* payment method read between them.  The backend's side is one step per   *)
(* request here; module OrderFlow has what happens inside.                 *)
(***************************************************************************)
EXTENDS Naturals, FiniteSetsExt

CONSTANTS
  Prices,     \* of a share
  Addresses,  \* numbered
  MaxTaps,    \* bound: submissions
  MaxShares,  \* shares that are left of the pig when it is shown
  Balance,    \* of the wallet, at first
  MaxLoads,   \* bound: loads in flight
  Nothing

ASSUME CheckoutAssumption ==
  /\ Prices \subseteq Nat /\ Prices # {} /\ Addresses \subseteq Nat /\ Addresses # {}
  /\ {MaxTaps, MaxShares, Balance, MaxLoads} \subseteq Nat /\ MaxShares # 0

VARIABLES
  build,       \* the build: prod is MODE === 'production', mp is MP-WEIXIN
  page,        \* the page on top
  pig,         \* the price of the pig on the page
  shares, address, walletBalance, payMethod, submitting,   \* refs of order/confirm
  result,      \* order/result: the order, and whether it shows success
  loads,       \* answers on their way to the page
  taps,        \* per submission: where it is
  orders,      \* backend: the order of each submission
  price, wallet, default,   \* backend: the pig's price, the wallet's balance and the default
               \* address
  charged,     \* orders whose money WeChat took
  crossed,     \* history: two loads of the address overlapped, or one failed
  doubled      \* history: a submission began while another ran, or the answer to a payment
               \* that was made was lost

form == <<shares, address, walletBalance, payMethod, submitting>>
shop == <<price, wallet, default>>
history == <<crossed, doubled>>
checkoutVars ==
  <<build, page, pig, form, result, loads, taps, orders, shop, charged, history>>

Total(view, n) == view * n
NoOrder == [status |-> "none", total |-> 0]
Unused == "none"
Running == {"created", "refused", "paid", "unpaid", "window", "modal"}
IsRunning(k) == taps[k] \in Running

(***************************************************************************)
(* Loads.                                                                  *)
(***************************************************************************)
Answer(kind, v) == [kind |-> kind, value |-> v]
LoadPig == Answer("pig", price)
\* loadDefaultAddress and loadWallet, sent together; bound: their answers arrive together.
LoadDefaultAddress == default
LoadWallet == wallet
OnShow == Answer("show", [address |-> LoadDefaultAddress, wallet |-> LoadWallet])

ShowLoads == {a \in loads : a.kind = "show"}
SendLoads(as) ==
  /\ Cardinality(loads) + Cardinality(as) <= MaxLoads
  /\ loads' = loads \cup as
  /\ crossed' = (crossed \/ ShowLoads # {})

\* pig/detail loadDetail; its button leads on unless the pig is sold out.
LoadDetail ==
  /\ page = "pig" /\ pig = Nothing
  /\ pig' = price
  /\ UNCHANGED <<build, page, form, result, loads, taps, orders, shop, charged, crossed, doubled>>

OnOrder ==
  /\ page = "pig" /\ pig # Nothing   \* and it is not sold out
  /\ page' = "confirm"
  /\ pig' = Nothing
  /\ SendLoads({OnShow, LoadPig})
  /\ UNCHANGED <<build, form, result, taps, orders, shop, charged, doubled>>

\* Without the pig there is no form; a failure leaves the address as it was, and makes the
\* balance 0.
LoadAnswered(a) ==
  /\ a \in loads /\ loads' = loads \ {a}
  /\ IF a.kind = "pig"
       THEN pig' \in {a.value, pig} /\ UNCHANGED <<address, walletBalance, crossed>>
       ELSE /\ walletBalance' \in {a.value.wallet, 0}
            /\ \/ address' = a.value.address /\ UNCHANGED crossed
               \/ UNCHANGED address /\ crossed' = TRUE
            /\ UNCHANGED pig
  /\ UNCHANGED <<build, page, shares, payMethod, submitting, result, taps, orders, shop,
                 charged, doubled>>

(***************************************************************************)
(* The form.  Bound: it is edited once the loads are answered (which read  *)
(* and write other refs).                                                  *)
(***************************************************************************)
IncShares == shares < MaxShares /\ shares' = shares + 1
DecShares == shares > 1 /\ shares' = shares - 1
ChangeShares ==
  /\ page = "confirm" /\ pig # Nothing /\ loads = {}
  /\ IncShares \/ DecShares
  /\ UNCHANGED <<build, page, pig, address, walletBalance, payMethod, submitting, result,
                 loads, taps, orders, shop, charged, history>>

PayOptions ==
  {"wallet", "wxpay"} \cup IF build.prod \/ build.mp THEN {} ELSE {"mock"}
OnPickPay ==
  /\ page = "confirm" /\ pig # Nothing /\ loads = {}
  /\ \E m \in PayOptions : m # payMethod /\ payMethod' = m
  /\ UNCHANGED <<build, page, pig, shares, address, walletBalance, submitting, result, loads,
                 taps, orders, shop, charged, history>>

\* onPickAddress: to the addresses page, where the default changes, and back.  Bound: each
\* address becomes the default once, and not when the price was edited.
OnPickAddress ==
  /\ page = "confirm" /\ pig # Nothing
  /\ page' = "addresses"
  /\ UNCHANGED <<build, pig, form, result, loads, taps, orders, shop, charged, history>>
ChangeDefault ==
  /\ page = "addresses" /\ price = Min(Prices)
  /\ \E d \in Addresses : d > default /\ default' = d
  /\ UNCHANGED <<build, page, pig, form, result, loads, taps, orders, price, wallet,
                 charged, history>>
BackToConfirm ==
  /\ page = "addresses"
  /\ page' = "confirm"
  /\ SendLoads({OnShow})
  /\ UNCHANGED <<build, pig, form, result, taps, orders, shop, charged, doubled>>

(***************************************************************************)
(* onSubmit.                                                               *)
(***************************************************************************)
Affordable == payMethod # "wallet" \/ walletBalance >= Total(pig, shares)

Moves(k, l) == taps' = [taps EXCEPT ![k] = l]

\* POST /orders, with the shares and the address on the page.  It is refused when the shares
\* or the address are gone.
OnSubmit(k) ==
  /\ page = "confirm" /\ pig # Nothing /\ address # Nothing /\ Affordable
  /\ taps[k] = Unused /\ \A j \in 1..(k-1) : taps[j] # Unused
  /\ submitting' = TRUE
  /\ doubled' = (doubled \/ \E j \in 1..MaxTaps : IsRunning(j))
  /\ \/ /\ Moves(k, "created")
        /\ orders' = [orders EXCEPT ![k] = [status |-> "pending", total |-> price * shares]]
     \/ Moves(k, "refused") /\ UNCHANGED orders
  /\ UNCHANGED <<build, page, pig, shares, address, walletBalance, payMethod, result, loads,
                 shop, charged, crossed>>

SetPaid(k) == orders' = [orders EXCEPT ![k].status = "paid"]

\* POST wallet-pay.
WalletPay(k) ==
  IF wallet >= orders[k].total
    THEN SetPaid(k) /\ wallet' = wallet - orders[k].total /\ Moves(k, "paid")
    ELSE Moves(k, "unpaid") /\ UNCHANGED <<orders, wallet>>

\* The order is answered: the payment goes by the method picked now.  wxpay is WeChat's
\* window in the mini program and a note elsewhere; what is left is the mock payment, or a
\* note in the mini program.
OrderAnswered(k) ==
  /\ taps[k] = "created"
  /\ CASE payMethod = "wallet" -> WalletPay(k)
       [] payMethod = "wxpay" /\ build.prod /\ build.mp ->
            Moves(k, "window") /\ UNCHANGED <<orders, wallet>>
       [] payMethod = "wxpay" /\ build.prod /\ ~build.mp ->
            Moves(k, "modal") /\ UNCHANGED <<orders, wallet>>
       [] payMethod # "wallet" /\ (payMethod = "mock" \/ ~build.prod) /\ build.mp ->
            Moves(k, "unavailable") /\ UNCHANGED <<orders, wallet>>
       [] OTHER -> SetPaid(k) /\ Moves(k, "paid") /\ UNCHANGED wallet
  /\ UNCHANGED <<build, page, pig, form, result, loads, price, default, charged, history>>

\* WeChat's window: the user pays.
WindowPays(k) ==
  /\ taps[k] = "window" /\ k \notin charged
  /\ charged' = charged \cup {k}
  /\ UNCHANGED <<build, page, pig, form, result, loads, taps, orders, shop, history>>

\* The notification, some time later.
Notified(k) ==
  /\ k \in charged /\ orders[k].status = "pending"
  /\ SetPaid(k)
  /\ UNCHANGED <<build, page, pig, form, result, loads, taps, shop, charged, history>>

\* redirectTo the result: success after a payment, "not completed" after the note.  Bound: the
\* page before it is not seen again; a submission that still runs reads its payment method.
ToResult(k, ok) ==
  /\ page' = "result"
  /\ result' = [order |-> k, ok |-> ok]
  /\ loads' = {} /\ pig' = Nothing /\ submitting' = FALSE
  /\ shares' = 1 /\ address' = Nothing /\ walletBalance' = 0
PaysUnseen(k) ==                                               \* mutant
  /\ taps[k] \in {"paid", "unpaid", "window"}
  /\ ToResult(k, TRUE)
  /\ Moves(k, "done")
  /\ UNCHANGED <<build, payMethod, orders, shop, charged, history>>
PaysHere(k) ==                                                 \* mutant
  /\ taps[k] = "paid" \/ (k \in charged /\ taps[k] = "window")
  /\ Moves(k, "done")
  /\ submitting' = FALSE
  /\ UNCHANGED <<build, page, pig, shares, address, walletBalance, payMethod, result, loads,
                 orders, shop, charged, history>>
Pays(k) ==
  /\ taps[k] = "paid" \/ (k \in charged /\ taps[k] = "window")
  /\ ToResult(k, TRUE)
  /\ Moves(k, "done")
  /\ UNCHANGED <<build, payMethod, orders, shop, charged, history>>
Registers(k) ==
  /\ taps[k] = "modal"
  /\ ToResult(k, FALSE)
  /\ Moves(k, "done")
  /\ UNCHANGED <<build, payMethod, orders, shop, charged, history>>

\* catch: an error, or no answer at all to a request that was handled.
SubmitFailsStuck(k) ==                                         \* mutant
  /\ IsRunning(k) /\ taps[k] # "modal" /\ k \notin charged
  /\ Moves(k, "failed")
  /\ doubled' = (doubled \/ taps[k] = "paid")
  /\ UNCHANGED <<build, page, pig, form, result, loads, orders, shop, charged, crossed>>
SubmitFails(k) ==
  /\ IsRunning(k) /\ taps[k] # "modal" /\ k \notin charged
  /\ Moves(k, "failed")
  /\ submitting' = FALSE
  /\ doubled' = (doubled \/ taps[k] = "paid")
  /\ UNCHANGED <<build, page, pig, shares, address, walletBalance, payMethod, result, loads,
                 orders, shop, charged, crossed>>

\* The farmer's administrator edits the pig's price.  Bound: it only rises, and not
\* when the default address was changed.
PriceEdited ==
  /\ page # "result" /\ default = Min(Addresses)
  /\ \E p \in Prices : p > price /\ price' = p
  /\ UNCHANGED <<build, page, pig, form, result, loads, taps, orders, wallet, default, charged,
                 crossed, doubled>>

CheckoutInit ==
  /\ build \in [prod : BOOLEAN, mp : BOOLEAN]
  /\ page = "pig" /\ pig = Nothing
  /\ shares = 1 /\ address = Nothing /\ walletBalance = 0 /\ submitting = FALSE
  /\ payMethod = IF build.prod THEN "wxpay" ELSE "mock"
  /\ result = Nothing /\ loads = {}
  /\ taps = [k \in 1..MaxTaps |-> Unused]
  /\ orders = [k \in 1..MaxTaps |-> NoOrder]
  /\ price = Min(Prices) /\ default = Min(Addresses) /\ wallet = Balance
  /\ charged = {} /\ crossed = FALSE /\ doubled = FALSE

\* A submission goes on: an answer arrives, or the time for it is over.
SubmitGoesOn(k) == OrderAnswered(k) \/ Pays(k) \/ Registers(k) \/ SubmitFails(k)
SubmissionsGoOn == \E k \in 1..MaxTaps : SubmitGoesOn(k)

CheckoutNext ==
  \/ LoadDetail \/ OnOrder
  \/ \E a \in loads : LoadAnswered(a)
  \/ ChangeShares \/ OnPickPay \/ OnPickAddress \/ ChangeDefault \/ BackToConfirm
  \/ SubmissionsGoOn
  \/ \E k \in 1..MaxTaps : OnSubmit(k) \/ WindowPays(k) \/ Notified(k)
  \/ PriceEdited

CheckoutFairness == WF_checkoutVars(SubmissionsGoOn)
CheckoutSpec == CheckoutInit /\ [][CheckoutNext]_checkoutVars /\ CheckoutFairness

(***************************************************************************)
(* Properties.                                                             *)
(***************************************************************************)

\* Refs and rows have their types; the wallet is not overdrawn; an order has its submission.
CheckoutTypeOK ==
  /\ shares \in 1..MaxShares /\ address \in Addresses \cup {Nothing} /\ wallet \in 0..Balance
  /\ payMethod \in PayOptions \cup {"mock"}
  /\ \A k \in 1..MaxTaps : orders[k].status # "none" => taps[k] \notin {"none", "refused"}
  /\ Cardinality(loads) <= MaxLoads

\* The result page shows success only for an order that is paid, or whose money WeChat took.
ResultTruthful ==
  page = "result" /\ result.ok => orders[result.order].status = "paid" \/ result.order \in charged

\* A buyer pays for one order, however often a submission fails and is repeated, unless he
\* tapped while one was running or was not told of a payment that was made.
PaidOnce ==
  ~doubled => Cardinality({k \in 1..MaxTaps : orders[k].status = "paid"} \cup charged) <= 1

\* The address on the page is the default one once it has loaded, whatever the user did on
\* the addresses page, unless two loads overlapped or one failed.
AddressCurrent ==
  page = "confirm" /\ ShowLoads = {} /\ ~crossed => address = default

\* The checkout tells the truth: the result of the payment, and the address it ships to
\* (order/confirm.vue, onShow and submit).
CheckoutInv == CheckoutTypeOK /\ ResultTruthful /\ AddressCurrent

=============================================================================
