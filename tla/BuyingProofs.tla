---------------------------- MODULE BuyingProofs ----------------------------
(***************************************************************************)
(* Proofs about the pages by which a user buys and follows an order:       *)
(* Checkout, OrderList and OrderDetail, for every set of orders, requests, *)
(* addresses and prices, and any number of taps and loads.                 *)
(***************************************************************************)
EXTENDS Checkout, OrderList, OrderDetail, FiniteSetTheorems, WellFoundedInduction, TLAPS

(***************************************************************************)
(* What the backend does with the requests of both order pages.            *)
(***************************************************************************)

\* What the backend accepts moves an order to a status of no lower rank.
LEMMA MovesUp ==
  /\ \A s \in Statuses : Rank[s] \in Nat
  /\ \A kind \in Posts \cup {"ship", "approve"} :
       From[kind] \in Statuses /\ To[kind] \in Statuses /\ Rank[From[kind]] <= Rank[To[kind]]
  BY DEF Statuses, Rank, Posts, From, To

\* A request is done in the status from which it is accepted, and refused in another.
LEMMA OutcomesFit ==
  \A kind, s : /\ "done" \in Outcomes(kind, s) => s = From[kind]
               /\ "refused" \in Outcomes(kind, s) => s # From[kind]
<1> SUFFICES ASSUME NEW kind, NEW s
             PROVE  /\ "done" \in Outcomes(kind, s) => s = From[kind]
                    /\ "refused" \in Outcomes(kind, s) => s # From[kind]
  OBVIOUS
<1>1. CASE s # From[kind]
  BY <1>1 DEF Outcomes, Accepts
<1>2. CASE s = From[kind]
  BY <1>2 DEF Outcomes, Accepts
<1> QED BY <1>1, <1>2

(***************************************************************************)
(* Checkout.                                                               *)
(*                                                                         *)
(* That an order is paid once is not inductive: OneBusy says that there is *)
(* at most one submission that was not answered, and that the button is    *)
(* locked while there is.  TapsFit says what a submission on its way       *)
(* has, and which of the orders is its own; ShowsDefault and LoadsFit      *)
(* what a load of the page may still write into the form.                  *)
(***************************************************************************)

\* Min of the model is a member.
LEMMA LeastMember ==
  ASSUME NEW S, S \subseteq Nat, S # {}
  PROVE  Min(S) \in S
<1> DEFINE R == OpToRel(<, Nat)
<1>1. IsWellFoundedOn(R, Nat)
  BY NatLessThanWellFounded
<1>2. \A x, y \in Nat : x < y => <<x, y>> \in R
  BY DEF OpToRel
<1> HIDE DEF R
<1>3. PICK x \in S : \A y \in S : ~(<<y, x>> \in R)
  BY <1>1, WFMin
<1>4. \A y \in S : x <= y
  <2> SUFFICES ASSUME NEW y \in S PROVE x <= y
    OBVIOUS
  <2>1. x \in Nat /\ y \in Nat /\ ~(<<y, x>> \in R)
    BY <1>3
  <2>2. ~(y < x)
    BY <1>2, <2>1
  <2> QED BY <2>1, <2>2
<1> QED BY <1>3, <1>4 DEF Min

\* What the constants are.
LEMMA CheckoutConstants ==
  /\ MaxTaps \in Nat /\ MaxShares \in Nat \ {0} /\ Balance \in Nat /\ MaxLoads \in Nat
  /\ Min(Prices) \in Prices /\ Min(Addresses) \in Addresses
  /\ Prices \subseteq Nat
<1>1. Min(Prices) \in Prices /\ Min(Addresses) \in Addresses
  BY CheckoutAssumption, LeastMember
<1> QED BY <1>1, CheckoutAssumption

\* At most one member.
Single(S) == \A x, y \in S : x = y

\* A set without two members has at most one.
LEMMA SingleCardinality ==
  ASSUME NEW S, Single(S)
  PROVE  Cardinality(S) <= 1
<1>1. CASE S = {}
  BY <1>1, FS_EmptySet
<1>2. CASE S # {}
  <2>1. PICK x : S = {x}
    BY <1>2 DEF Single
  <2> QED BY <2>1, FS_Singleton
<1> QED BY <1>1, <1>2

CheckoutTaps == 1..MaxTaps
IsPaid(k) == orders[k].status = "paid" \/ k \in charged
Busy == {k \in CheckoutTaps : IsRunning(k) \/ IsPaid(k)}

ShopFits == price \in Prices /\ wallet \in 0..Balance /\ default \in Addresses
FormFits ==
  /\ build \in [prod : BOOLEAN, mp : BOOLEAN] /\ doubled \in BOOLEAN /\ crossed \in BOOLEAN
  /\ shares \in 1..MaxShares /\ address \in Addresses \cup {Nothing}
  /\ payMethod \in {"wallet", "wxpay", "mock"}
LoadFits(a) ==
  /\ a.kind \in {"pig", "show"}
  /\ a.kind = "show" => a.value.address \in Addresses
LoadsFit == IsFiniteSet(loads) /\ Cardinality(loads) <= MaxLoads /\ \A a \in loads : LoadFits(a)
TapFits(k) ==
  /\ taps[k] \in Running \cup {"none", "unavailable", "done", "failed"}
  /\ orders[k] \in [status : {"none", "pending", "paid"}, total : Nat]
  /\ taps[k] \in {"none", "refused"} => orders[k].status = "none"
  /\ k \in charged => taps[k] \in {"window", "done"}
  /\ taps[k] = "paid" => orders[k].status = "paid"
  /\ IsRunning(k) /\ orders[k].status = "paid" => taps[k] = "paid" \/ k \in charged
TapsFit ==
  /\ DOMAIN taps = CheckoutTaps /\ DOMAIN orders = CheckoutTaps /\ charged \subseteq CheckoutTaps
  /\ \A k \in CheckoutTaps : TapFits(k)
ResultFits ==
  page = "result" => result.order \in CheckoutTaps /\ (result.ok => IsPaid(result.order))
OneBusy ==
  ~doubled => Single(Busy) /\ (page = "result" \/ \A k \in Busy : IsRunning(k))
ShowsDefault ==
  page = "confirm" /\ ~crossed =>
    /\ \A a \in ShowLoads : a.value.address = default
    /\ ShowLoads = {} => address = default

CheckoutIndInv ==
  /\ ShopFits /\ FormFits /\ LoadsFit /\ TapsFit
  /\ ResultFits /\ OneBusy /\ ShowsDefault

\* The invariant has the module's properties.
LEMMA CheckoutIndInvImplies == CheckoutIndInv => CheckoutInv /\ PaidOnce
<1> SUFFICES ASSUME CheckoutIndInv PROVE CheckoutInv /\ PaidOnce
  OBVIOUS
<1> USE DEF CheckoutTaps
<1>1. CheckoutTypeOK
  BY DEF CheckoutIndInv, ShopFits, FormFits, LoadsFit, TapsFit, TapFits, CheckoutTypeOK, PayOptions
<1>2. ResultTruthful /\ AddressCurrent
  BY DEF CheckoutIndInv, ResultFits, IsPaid, ShowsDefault, ResultTruthful, AddressCurrent
<1>3. PaidOnce
  <2> DEFINE paid == {k \in 1..MaxTaps : orders[k].status = "paid"} \cup charged
  <2> SUFFICES ASSUME ~doubled PROVE Cardinality(paid) <= 1
    BY DEF PaidOnce
  <2>1. paid \subseteq Busy /\ Single(Busy)
    BY DEF CheckoutIndInv, OneBusy, TapsFit, Busy, IsPaid
  <2>2. Single(paid)
    BY <2>1 DEF Single
  <2> QED BY <2>2, SingleCardinality
<1> QED BY <1>1, <1>2, <1>3 DEF CheckoutInv

\* It holds at first.
LEMMA CheckoutInitInv == CheckoutInit => CheckoutIndInv
<1> SUFFICES ASSUME CheckoutInit PROVE CheckoutIndInv
  OBVIOUS
<1> USE CheckoutConstants DEF CheckoutTaps
<1>1. ShopFits
  BY DEF CheckoutInit, ShopFits
<1>2. FormFits
  <2>1. payMethod \in {"wxpay", "mock"}
    BY DEF CheckoutInit
  <2>2. shares \in 1..MaxShares
    BY DEF CheckoutInit
  <2>3. build \in [prod : BOOLEAN, mp : BOOLEAN]
    BY DEF CheckoutInit
  <2>4. address = Nothing /\ doubled = FALSE /\ crossed = FALSE
    BY DEF CheckoutInit
  <2> QED BY <2>1, <2>2, <2>3, <2>4 DEF FormFits
<1>3. LoadsFit
  BY FS_EmptySet DEF CheckoutInit, LoadsFit
<1>4. TapsFit
  BY DEF CheckoutInit, TapsFit, TapFits, Unused, NoOrder, IsRunning, Running
<1>5. Busy = {}
  BY DEF CheckoutInit, Busy, IsRunning, Running, IsPaid, Unused, NoOrder
<1>6. OneBusy
  BY <1>5 DEF OneBusy, Single
<1>7. ResultFits /\ ShowsDefault
  BY DEF CheckoutInit, ResultFits, ShowsDefault
<1> QED BY <1>1, <1>2, <1>3, <1>4, <1>6, <1>7 DEF CheckoutIndInv

\* Steps that leave submissions alone.
LEMMA TapsKeep ==
  ASSUME CheckoutIndInv, UNCHANGED <<taps, orders, charged, doubled>>
  PROVE  TapsFit' /\ (UNCHANGED page \/ (page' # "result" /\ page # "result") => OneBusy')
           /\ \A k : IsPaid(k)' = IsPaid(k)
<1>1. \A k : IsPaid(k)' = IsPaid(k) /\ IsRunning(k)' = IsRunning(k)
  BY DEF IsPaid, IsRunning
<1>2. Busy' = Busy
  BY <1>1 DEF Busy
<1>3. TapsFit'
  BY <1>1 DEF CheckoutIndInv, TapsFit, TapFits
<1> QED BY <1>1, <1>2, <1>3 DEF CheckoutIndInv, OneBusy, Single

\* A step on the form leaves submissions and orders as they are.
LEMMA FormKeeps ==
  ASSUME CheckoutIndInv, UNCHANGED <<taps, orders, charged, doubled, build, result, page, loads,
                                     crossed, address, default>>,
         ShopFits', FormFits'
  PROVE  CheckoutIndInv'
<1>1. TapsFit' /\ OneBusy' /\ ResultFits'
  BY TapsKeep DEF CheckoutIndInv, ResultFits
<1> QED BY <1>1 DEF CheckoutIndInv, LoadsFit, LoadFits, ShowsDefault, ShowLoads

\* The loads that a page sends as it is shown.
LEMMA LoadsSent ==
  ASSUME CheckoutIndInv, NEW as, IsFiniteSet(as), \A a \in as : LoadFits(a), SendLoads(as)
  PROVE  LoadsFit'
<1>1. /\ IsFiniteSet(loads \cup as)
      /\ Cardinality(loads \cup as)
           = Cardinality(loads) + Cardinality(as) - Cardinality(loads \cap as)
  BY FS_Union DEF CheckoutIndInv, LoadsFit
<1>2. Cardinality(loads) \in Nat /\ Cardinality(as) \in Nat /\ Cardinality(loads \cap as) \in Nat
  BY FS_CardinalityType, FS_Intersection DEF CheckoutIndInv, LoadsFit
<1>3. Cardinality(loads) + Cardinality(as) <= MaxLoads /\ loads' = loads \cup as
  BY DEF SendLoads
<1>4. Cardinality(loads') <= MaxLoads
  <2> DEFINE l == Cardinality(loads)
             m == Cardinality(as)
             n == Cardinality(loads \cap as)
  <2>1. Cardinality(loads') = l + m - n /\ l + m <= MaxLoads
    BY <1>1, <1>3
  <2>2. l \in Nat /\ m \in Nat /\ n \in Nat /\ MaxLoads \in Nat
    BY <1>2, CheckoutConstants
  <2> HIDE DEF l, m, n
  <2> QED BY <2>1, <2>2
<1> QED BY <1>1, <1>3, <1>4 DEF CheckoutIndInv, LoadsFit, LoadFits

\* The load of onShow fits.
LEMMA ShowFits ==
  ASSUME ShopFits
  PROVE  LoadFits(OnShow) /\ LoadFits(LoadPig) /\ OnShow.value.address = default
           /\ OnShow.kind = "show" /\ LoadPig.kind = "pig"
  BY DEF ShopFits, LoadFits, OnShow, LoadPig, Answer, LoadDefaultAddress

\* The page is opened, or shown again: its loads are sent.
LEMMA ShownInv ==
  ASSUME CheckoutIndInv, NEW as, as \in {{OnShow, LoadPig}, {OnShow}}, SendLoads(as),
         page # "result", page' = "confirm",
         UNCHANGED <<build, form, result, taps, orders, shop, charged, doubled>>
  PROVE  CheckoutIndInv'
<1>1. IsFiniteSet(as) /\ \A a \in as : LoadFits(a)
  <2>1. \A a \in as : LoadFits(a)
    BY ShowFits DEF CheckoutIndInv
  <2>2. IsFiniteSet({OnShow}) /\ IsFiniteSet({OnShow} \cup {LoadPig})
    BY FS_Singleton, FS_AddElement
  <2>3. {OnShow} \cup {LoadPig} = {OnShow, LoadPig}
    OBVIOUS
  <2> QED BY <2>1, <2>2, <2>3
<1>2. LoadsFit'
  BY <1>1, LoadsSent
<1>3. TapsFit' /\ OneBusy' /\ ResultFits'
  BY TapsKeep DEF ResultFits
<1>4. ShowsDefault'
  <2>1. OnShow.value.address = default /\ OnShow.kind = "show" /\ LoadPig.kind = "pig"
    BY ShowFits DEF CheckoutIndInv
  <2> QED BY <2>1 DEF SendLoads, ShowsDefault, ShowLoads, shop
<1> QED BY <1>2, <1>3, <1>4 DEF CheckoutIndInv, ShopFits, FormFits, form, shop, SendLoads

\* A load was answered.
LEMMA LoadAnsweredInv ==
  ASSUME CheckoutIndInv, NEW a \in loads, LoadAnswered(a)
  PROVE  CheckoutIndInv'
<1>1. LoadsFit'
  <2>1. loads' = loads \ {a} /\ IsFiniteSet(loads)
    BY DEF LoadAnswered, CheckoutIndInv, LoadsFit
  <2>2. IsFiniteSet(loads') /\ Cardinality(loads') <= Cardinality(loads)
          /\ Cardinality(loads) \in Nat /\ Cardinality(loads') \in Nat
    BY <2>1, FS_RemoveElement, FS_CardinalityType
  <2> QED BY <2>1, <2>2, CheckoutConstants DEF CheckoutIndInv, LoadsFit, LoadFits
<1>2. TapsFit' /\ OneBusy' /\ ResultFits'
  BY TapsKeep DEF LoadAnswered, CheckoutIndInv, ResultFits
<1>3. ShopFits' /\ FormFits'
  BY DEF LoadAnswered, CheckoutIndInv, ShopFits, FormFits, LoadsFit, LoadFits, shop
<1>4. ShowsDefault'
  BY DEF LoadAnswered, CheckoutIndInv, ShowsDefault, ShowLoads, shop, LoadsFit, LoadFits
<1> QED BY <1>1, <1>2, <1>3, <1>4 DEF CheckoutIndInv

\* The user chooses shares and a way to pay.
LEMMA FormInv ==
  ASSUME CheckoutIndInv, LoadDetail \/ ChangeShares \/ OnPickPay \/ PriceEdited
  PROVE  CheckoutIndInv'
<1>1. CASE LoadDetail
  BY <1>1, FormKeeps DEF LoadDetail, form, shop, CheckoutIndInv, ShopFits, FormFits
<1>2. CASE ChangeShares
  <2>1. shares' \in 1..MaxShares
    BY <1>2, CheckoutConstants DEF ChangeShares, IncShares, DecShares, CheckoutIndInv, FormFits
  <2>2. ShopFits' /\ FormFits'
    BY <1>2, <2>1 DEF ChangeShares, shop, history, CheckoutIndInv, ShopFits, FormFits
  <2> QED BY <1>2, <2>2, FormKeeps DEF ChangeShares, shop, history
<1>3. CASE OnPickPay
  <2>1. ShopFits' /\ FormFits'
    BY <1>3 DEF OnPickPay, PayOptions, shop, history, CheckoutIndInv, ShopFits, FormFits
  <2> QED BY <1>3, <2>1, FormKeeps DEF OnPickPay, shop, history
<1>4. CASE PriceEdited
  <2>1. ShopFits' /\ FormFits'
    BY <1>4 DEF PriceEdited, form, CheckoutIndInv, ShopFits, FormFits
  <2> QED BY <1>4, <2>1, FormKeeps DEF PriceEdited, form
<1> QED BY <1>1, <1>2, <1>3, <1>4

\* The user chooses an address, or the default one changes.
LEMMA AddressesInv ==
  ASSUME CheckoutIndInv, OnPickAddress \/ ChangeDefault
  PROVE  CheckoutIndInv'
<1>1. UNCHANGED <<taps, orders, charged, doubled, build, result, form, loads, price, wallet,
                  crossed>>
      /\ page' = "addresses" /\ page # "result" /\ default' \in Addresses
  BY DEF OnPickAddress, ChangeDefault, shop, history, CheckoutIndInv, ShopFits
<1>2. TapsFit' /\ OneBusy' /\ ResultFits' /\ ShowsDefault'
  BY <1>1, TapsKeep DEF CheckoutIndInv, ResultFits, ShowsDefault
<1> QED BY <1>1, <1>2 DEF CheckoutIndInv, ShopFits, FormFits, LoadsFit, LoadFits, form

\* What a step of one submission leaves alone.
OnlyTap(k) ==
  /\ DOMAIN taps' = CheckoutTaps /\ DOMAIN orders' = CheckoutTaps
  /\ charged' \subseteq charged \cup {k}
  /\ charged \subseteq charged'
  /\ \A j \in CheckoutTaps \ {k} : taps'[j] = taps[j] /\ orders'[j] = orders[j]

\* A submission moves on alone.
LEMMA OnlyTapKeeps ==
  ASSUME CheckoutIndInv, NEW k \in CheckoutTaps, OnlyTap(k), TapFits(k)', doubled => doubled',
         ~doubled' /\ k \in Busy' => k \in Busy \/ Busy = {},
         ~doubled' => page' = "result" \/ (page # "result" /\ (k \in Busy' => IsRunning(k)'))
  PROVE  TapsFit' /\ OneBusy'
<1>1. \A j \in CheckoutTaps \ {k} : (IsPaid(j)' <=> IsPaid(j)) /\ (IsRunning(j)' <=> IsRunning(j))
  BY DEF OnlyTap, IsPaid, IsRunning
<1>2. \A j \in CheckoutTaps \ {k} : TapFits(j)'
  BY <1>1 DEF OnlyTap, CheckoutIndInv, TapsFit, TapFits
<1>3. TapsFit'
  BY <1>2 DEF OnlyTap, CheckoutIndInv, TapsFit
<1>4. \A j \in Busy' : j = k \/ j \in Busy
  BY <1>1 DEF Busy
<1>5. ASSUME ~doubled' PROVE Single(Busy')
  BY <1>4, <1>5 DEF CheckoutIndInv, OneBusy, Single
<1>6. ASSUME ~doubled', page' # "result" PROVE \A j \in Busy' : IsRunning(j)'
  <2> SUFFICES ASSUME NEW j \in Busy' PROVE IsRunning(j)'
    OBVIOUS
  <2>1. CASE j = k
    BY <1>6, <2>1
  <2>2. CASE j # k
    <3>1. j \in Busy /\ IsRunning(j) /\ j \in CheckoutTaps
      BY <1>4, <1>6, <2>2 DEF CheckoutIndInv, OneBusy, Busy
    <3> QED BY <1>1, <2>2, <3>1
  <2> QED BY <2>1, <2>2
<1> QED BY <1>3, <1>5, <1>6 DEF OneBusy, Single

\* What is known of a submission that runs.
LEMMA TapFacts ==
  ASSUME CheckoutIndInv, NEW k \in CheckoutTaps
  PROVE  /\ DOMAIN taps = CheckoutTaps /\ DOMAIN orders = CheckoutTaps
         /\ charged \subseteq CheckoutTaps
         /\ TapFits(k)
         /\ \A l : Moves(k, l) => taps'[k] = l /\ DOMAIN taps' = CheckoutTaps
                                  /\ \A j \in CheckoutTaps \ {k} : taps'[j] = taps[j]
         /\ SetPaid(k) => /\ orders'[k] = [status |-> "paid", total |-> orders[k].total]
                          /\ DOMAIN orders' = CheckoutTaps
                          /\ \A j \in CheckoutTaps \ {k} : orders'[j] = orders[j]
<1>1. /\ DOMAIN taps = CheckoutTaps /\ DOMAIN orders = CheckoutTaps
      /\ charged \subseteq CheckoutTaps
      /\ TapFits(k)
  BY DEF CheckoutIndInv, TapsFit
<1> QED BY <1>1 DEF Moves, SetPaid, TapFits

\* A tap begins a submission.
LEMMA OnSubmitInv ==
  ASSUME CheckoutIndInv, NEW k \in CheckoutTaps, OnSubmit(k)
  PROVE  CheckoutIndInv'
<1>1. TapFits(k) /\ taps[k] = "none" /\ page = "confirm"
  BY TapFacts DEF OnSubmit, Unused
<1>2. PICK l \in {"created", "refused"} :
        Moves(k, l) /\ IF l = "created"
          THEN orders' = [orders EXCEPT ![k] = [status |-> "pending", total |-> price * shares]]
          ELSE UNCHANGED orders
  BY DEF OnSubmit
<1>3. OnlyTap(k)
  BY <1>2, TapFacts DEF OnlyTap, OnSubmit
<1>4. price * shares \in Nat
  BY CheckoutConstants DEF CheckoutIndInv, ShopFits, FormFits
<1>5. taps'[k] = l /\ orders'[k] \in [status : {"none", "pending", "paid"}, total : Nat]
      /\ (l = "created" => orders'[k].status = "pending")
           /\ (l = "refused" => orders'[k].status = "none")
  <2>1. taps'[k] = l
    BY <1>2, TapFacts
  <2>2. DOMAIN orders = CheckoutTaps
          /\ orders[k] \in [status : {"none", "pending", "paid"}, total : Nat]
        /\ orders[k].status = "none"
    BY <1>1, TapFacts DEF TapFits
  <2>3. CASE l = "created"
    <3>1. orders'[k] = [status |-> "pending", total |-> price * shares]
      BY <1>2, <2>2, <2>3
    <3> QED BY <1>4, <2>1, <2>3, <3>1
  <2>4. CASE l = "refused"
    BY <1>2, <2>1, <2>2, <2>4
  <2> QED BY <1>2, <2>3, <2>4
<1>6. TapFits(k)'
  BY <1>1, <1>2, <1>5 DEF TapFits, Running, IsRunning, OnSubmit
<1>7. doubled' = (doubled \/ \E j \in CheckoutTaps : IsRunning(j))
  BY DEF OnSubmit, CheckoutTaps
<1>8. ~doubled' => Busy = {}
  BY <1>1, <1>7 DEF CheckoutIndInv, OneBusy, Busy
<1>9. IsRunning(k)'
  BY <1>2, <1>5 DEF IsRunning, Running
<1>10. TapsFit' /\ OneBusy'
  BY <1>1, <1>3, <1>6, <1>7, <1>8, <1>9, OnlyTapKeeps DEF OnSubmit
<1> QED
  BY <1>1, <1>7, <1>10 DEF OnSubmit, CheckoutIndInv, ShopFits, FormFits, LoadsFit, LoadFits,
     ResultFits, ShowsDefault, ShowLoads,
     shop

\* A submission that goes on keeps the page, the loads and the address.
LEMMA PageKeeps ==
  ASSUME CheckoutIndInv, UNCHANGED <<build, page, shares, address, payMethod, result, loads,
                                     price, default, crossed>>,
         wallet' \in 0..Balance, doubled' \in BOOLEAN, TapsFit', OneBusy',
         \A k \in CheckoutTaps : IsPaid(k) => IsPaid(k)'
  PROVE  CheckoutIndInv'
  BY DEF CheckoutIndInv, ShopFits, FormFits, LoadsFit, LoadFits, ResultFits, ShowsDefault, ShowLoads

\* The order was created, or refused, or the request failed.
LEMMA OrderAnsweredInv ==
  ASSUME CheckoutIndInv, NEW k \in CheckoutTaps, OrderAnswered(k)
  PROVE  CheckoutIndInv'
<1>1. TapFits(k) /\ taps[k] = "created" /\ IsRunning(k) /\ k \notin charged
        /\ orders[k].status # "paid"
  BY TapFacts DEF OrderAnswered, TapFits, IsRunning, Running
<1>2. \/ SetPaid(k) /\ Moves(k, "paid") /\ wallet' \in 0..Balance
      \/ \E l \in {"unpaid", "window", "modal", "unavailable"} : Moves(k, l)
           /\ UNCHANGED <<orders, wallet>>
  <2>1. CASE payMethod = "wallet"
    <3>1. WalletPay(k)
      BY <2>1 DEF OrderAnswered
    <3>2. wallet >= orders[k].total => wallet - orders[k].total \in 0..Balance
      BY <1>1, CheckoutConstants DEF TapFits, CheckoutIndInv, ShopFits
    <3> QED BY <3>1, <3>2 DEF WalletPay
  <2>2. CASE payMethod # "wallet"
    <3>1. \/ \E l \in {"window", "modal", "unavailable"} : Moves(k, l)
               /\ UNCHANGED <<orders, wallet>>
          \/ SetPaid(k) /\ Moves(k, "paid") /\ UNCHANGED wallet
      BY <2>2 DEF OrderAnswered
    <3> QED BY <3>1 DEF CheckoutIndInv, ShopFits
  <2> QED BY <2>1, <2>2
<1>3. OnlyTap(k) /\ TapFits(k)'
  <2>1. charged' = charged /\ orders[k] \in [status : {"none", "pending", "paid"}, total : Nat]
    BY <1>1 DEF OrderAnswered, TapFits
  <2>2. CASE SetPaid(k) /\ Moves(k, "paid")
    <3>1. OnlyTap(k) /\ taps'[k] = "paid"
            /\ orders'[k] = [status |-> "paid", total |-> orders[k].total]
      BY <2>1, <2>2, TapFacts DEF OnlyTap
    <3> QED BY <1>1, <2>1, <3>1 DEF TapFits, IsRunning, Running
  <2>3. ASSUME NEW l \in {"unpaid", "window", "modal", "unavailable"}, Moves(k, l), UNCHANGED orders
        PROVE  OnlyTap(k) /\ TapFits(k)'
    BY <1>1, <2>1, <2>3, TapFacts DEF OnlyTap, TapFits, IsRunning, Running
  <2> QED BY <1>2, <2>2, <2>3
<1>4. k \in Busy /\ (k \in Busy' => IsRunning(k)')
  BY <1>1, <1>2, TapFacts DEF OrderAnswered, Busy, IsPaid, IsRunning, Running
<1>5. TapsFit' /\ OneBusy'
  BY <1>3, <1>4, OnlyTapKeeps DEF OrderAnswered, history
<1>6. wallet' \in 0..Balance /\ doubled' \in BOOLEAN
  BY <1>2 DEF OrderAnswered, history, CheckoutIndInv, ShopFits, FormFits
<1>7. \A j \in CheckoutTaps : IsPaid(j) => IsPaid(j)'
  BY <1>1, <1>3 DEF OnlyTap, OrderAnswered, IsPaid
<1> QED BY <1>5, <1>6, <1>7, PageKeeps DEF OrderAnswered, form, history

\* A payment by wallet or mock was answered, or WeChat took the money.
LEMMA PaidInv ==
  ASSUME CheckoutIndInv, NEW k \in CheckoutTaps, WindowPays(k) \/ Notified(k)
  PROVE  CheckoutIndInv'
<1>1. TapFits(k)
  BY TapFacts
<1>2. OnlyTap(k) /\ TapFits(k)' /\ taps' = taps
  <2>1. CASE WindowPays(k)
    BY <1>1, <2>1, TapFacts DEF WindowPays, OnlyTap, TapFits, IsRunning, Running
  <2>2. CASE Notified(k)
    <3>1. SetPaid(k) /\ UNCHANGED <<taps, charged>> /\ k \in charged
          /\ orders[k] \in [status : {"none", "pending", "paid"}, total : Nat]
      BY <1>1, <2>2 DEF Notified, TapFits
    <3>2. OnlyTap(k) /\ orders'[k] = [status |-> "paid", total |-> orders[k].total]
      BY <3>1, TapFacts DEF OnlyTap
    <3>3. taps'[k] = taps[k]
      BY <3>1
    <3> QED BY <1>1, <3>1, <3>2, <3>3 DEF TapFits, IsRunning, Running
  <2> QED BY <2>1, <2>2
<1>3. k \in Busy /\ (page # "result" /\ ~doubled => IsRunning(k))
        /\ (IsRunning(k)' <=> IsRunning(k))
  BY <1>1, <1>2 DEF WindowPays, Notified, Busy, IsPaid, IsRunning, Running, CheckoutIndInv, OneBusy
<1>4. TapsFit' /\ OneBusy'
  BY <1>2, <1>3, OnlyTapKeeps DEF WindowPays, Notified, history
<1>5. \A j \in CheckoutTaps : IsPaid(j) => IsPaid(j)'
  BY <1>2, TapFacts DEF OnlyTap, WindowPays, Notified, IsPaid
<1>6. wallet' \in 0..Balance /\ doubled' \in BOOLEAN
  BY DEF WindowPays, Notified, shop, history, CheckoutIndInv, ShopFits, FormFits
<1> QED BY <1>4, <1>5, <1>6, PageKeeps DEF WindowPays, Notified, form, shop, history

\* A submission ends with a message.
LEMMA SubmitFailsInv ==
  ASSUME CheckoutIndInv, NEW k \in CheckoutTaps, SubmitFails(k)
  PROVE  CheckoutIndInv'
<1>1. TapFits(k) /\ taps'[k] = "failed" /\ orders' = orders /\ charged' = charged
  BY TapFacts DEF SubmitFails
<1>2. OnlyTap(k) /\ TapFits(k)'
  BY <1>1, TapFacts DEF SubmitFails, OnlyTap, TapFits, IsRunning, Running
<1>3. k \in Busy /\ (~doubled' => k \notin Busy')
  BY <1>1 DEF SubmitFails, TapFits, Busy, IsPaid, IsRunning, Running
<1>4. TapsFit' /\ OneBusy'
  BY <1>2, <1>3, OnlyTapKeeps DEF SubmitFails
<1>5. \A j \in CheckoutTaps : IsPaid(j) => IsPaid(j)'
  BY <1>1 DEF IsPaid
<1>6. wallet' \in 0..Balance /\ doubled' \in BOOLEAN
  BY DEF SubmitFails, shop, CheckoutIndInv, ShopFits, FormFits
<1> QED BY <1>4, <1>5, <1>6, PageKeeps DEF SubmitFails, shop

\* The page of the result opens.
LEMMA ResultInv ==
  ASSUME CheckoutIndInv, NEW k \in CheckoutTaps, Pays(k) \/ Registers(k)
  PROVE  CheckoutIndInv'
<1>1. TapFits(k) /\ taps'[k] = "done" /\ orders' = orders /\ charged' = charged /\ page' = "result"
  BY TapFacts DEF Pays, Registers, ToResult
<1>2. OnlyTap(k) /\ TapFits(k)'
  BY <1>1, TapFacts DEF Pays, Registers, OnlyTap, TapFits, IsRunning, Running
<1>3. k \in Busy
  BY DEF Pays, Registers, Busy, IsRunning, Running
<1>4. TapsFit' /\ OneBusy'
  <2>1. doubled' = doubled
    BY DEF Pays, Registers, history
  <2> QED BY <1>1, <1>2, <1>3, <2>1, OnlyTapKeeps
<1>5. ResultFits'
  BY <1>1 DEF Pays, Registers, ToResult, ResultFits, IsPaid, TapFits
<1>6. LoadsFit'
  BY FS_EmptySet, CheckoutConstants DEF Pays, Registers, ToResult, LoadsFit
<1>7. ShopFits' /\ FormFits'
  BY CheckoutConstants DEF Pays, Registers, ToResult, shop, history, CheckoutIndInv, ShopFits,
     FormFits
<1> QED BY <1>1, <1>4, <1>5, <1>6, <1>7 DEF CheckoutIndInv, ShowsDefault

\* Every step of the checkout keeps the invariant.
LEMMA CheckoutStepInv == CheckoutIndInv /\ [CheckoutNext]_checkoutVars => CheckoutIndInv'
<1> SUFFICES ASSUME CheckoutIndInv, [CheckoutNext]_checkoutVars PROVE CheckoutIndInv'
  OBVIOUS
<1>1. CASE UNCHANGED checkoutVars
  <2>1. ShopFits' /\ FormFits'
    BY <1>1 DEF checkoutVars, form, shop, history, CheckoutIndInv, ShopFits, FormFits
  <2> QED BY <1>1, <2>1, FormKeeps DEF checkoutVars, form, shop, history
<1>2. CASE OnOrder
  BY <1>2, ShownInv DEF OnOrder
<1>3. CASE BackToConfirm
  BY <1>3, ShownInv DEF BackToConfirm
<1>4. ASSUME NEW k \in 1..MaxTaps, SubmitGoesOn(k) \/ OnSubmit(k) \/ WindowPays(k) \/ Notified(k)
      PROVE  CheckoutIndInv'
  BY <1>4, OrderAnsweredInv, ResultInv, SubmitFailsInv, OnSubmitInv, PaidInv DEF SubmitGoesOn,
     CheckoutTaps
<1> QED BY <1>1, <1>2, <1>3, <1>4, LoadAnsweredInv, FormInv, AddressesInv DEF CheckoutNext,
           SubmissionsGoOn

\* For any number of submissions, prices and addresses: the result that is shown as a success is
\* one, and the address is the default one unless loads crossed (order/confirm, order/result).
THEOREM CheckoutTellsTheTruth == CheckoutSpec => []CheckoutInv
<1>1. CheckoutIndInv => CheckoutInv
  BY CheckoutIndInvImplies
<1> QED BY <1>1, CheckoutInitInv, CheckoutStepInv, PTL DEF CheckoutSpec

\* A buyer who does not submit again while a submission runs, or without its answer, pays for
\* one order at most, whatever fails on the way (order/confirm.vue, onSubmit).
THEOREM BuyerPaysOnce == CheckoutSpec => []PaidOnce
<1>1. CheckoutIndInv => PaidOnce
  BY CheckoutIndInvImplies
<1> QED BY <1>1, CheckoutInitInv, CheckoutStepInv, PTL DEF CheckoutSpec

(***************************************************************************)
(* The list of orders.                                                     *)
(*                                                                         *)
(* RequestsOK says what a request that was sent knows of its order (an     *)
(* order never goes back to a lower rank, so this stays true), NewestFits  *)
(* which of the loads the list will be, ToldStored that a message on the   *)
(* page says what the backend did, and AskingFits that the dialog asks     *)
(* about a button the order still has.                                     *)
(***************************************************************************)

\* A button is there for the status from which its request is accepted.
LEMMA ButtonsFit ==
  \A s \in Statuses, kind \in Posts : kind \in Buttons(s) => s = From[kind]
  BY DEF Statuses, Posts, Buttons, From

OrderAt(o, status) == o \in Orders /\ status \in Statuses /\ Rank[rows[o]] >= Rank[status]

RequestOK(c) ==
  /\ c.kind \in Posts \cup {"free", "load", "members"}
  /\ c.kind \in Posts =>
       c \in [kind : Posts, order : Orders, stands : BOOLEAN]
         /\ (c.stands => OrderAt(c.order, To[c.kind]))
  /\ c.kind = "members" => c.order \in Orders
  /\ c.kind = "load" => DOMAIN c.items \subseteq Orders
       /\ \A o \in DOMAIN c.items : c.items[o] \in Statuses
RequestsOK == DOMAIN calls = Slots /\ \A k \in Slots : RequestOK(calls[k])

OfTab(items) == \A o \in DOMAIN items : activeTab \in {All, items[o]}
NewestFits ==
  \A k \in Slots : newest = k /\ calls[k].kind = "load" => OfTab(calls[k].items)
    /\ ShowsTold(calls[k].items)

ToldStored == told # None => OrderAt(told.order, told.status)

AskingFits ==
  asking # None => /\ asking.kind \in {"cancel", "receive"} /\ asking.order \in Orders
                   /\ asking.seen = From[asking.kind]

ListIndInv == ListInv /\ RequestsOK /\ NewestFits /\ ToldStored /\ AskingFits

\* The invariant holds at first.
LEMMA ListInitInv == ListInit => ListIndInv
<1> SUFFICES ASSUME ListInit PROVE ListIndInv
  OBVIOUS
<1> USE OrderListAssumption
<1>1. rows \in [Orders -> Statuses] /\ activeTab = All
  BY DEF ListInit, Statuses
<1>2. \A k \in Slots : calls[k] \in {Free, Load(All)}
  BY DEF ListInit
<1>3. DOMAIN Load(All).items \subseteq Orders
        /\ \A o \in DOMAIN Load(All).items : Load(All).items[o] \in Statuses
  BY <1>1 DEF Load, Listing
<1>4. RequestsOK
  BY <1>2, <1>3 DEF RequestsOK, RequestOK, ListInit, Free, Load, Posts
<1>5. NewestFits
  BY <1>1, <1>2 DEF NewestFits, OfTab, ShowsTold, ListInit
<1>6. ListInv
  BY <1>1, <1>4 DEF ListInv, ListTypeOK, ListCurrent, RefusedOnlyOutdated, MembersOfShown,
     ListInit, RequestsOK, RequestOK
<1> QED BY <1>4, <1>5, <1>6 DEF ListIndInv, ToldStored, AskingFits, ListInit

\* Statuses do not fall: what was told, or will be, stays true.
LEMMA RowsRise ==
  ASSUME ListIndInv, rows' \in [Orders -> Statuses],
         \A o \in Orders : Rank[rows'[o]] >= Rank[rows[o]]
  PROVE  /\ \A o, s : OrderAt(o, s) => OrderAt(o, s)'
         /\ \A c : RequestOK(c) => RequestOK(c)'
<1>1. \A o, s : OrderAt(o, s) => OrderAt(o, s)'
  BY MovesUp DEF OrderAt, ListIndInv, ListInv, ListTypeOK
<1> QED BY <1>1 DEF RequestOK

\* One request is replaced while statuses do not fall.
LEMMA PutKeeps ==
  ASSUME ListIndInv, NEW k \in Slots, NEW c, RequestOK(c)', calls' = [calls EXCEPT ![k] = c],
         rows' \in [Orders -> Statuses], \A o \in Orders : Rank[rows'[o]] >= Rank[rows[o]]
  PROVE  RequestsOK'
<1>1. DOMAIN calls' = Slots
  BY DEF ListIndInv, RequestsOK
<1>2. ASSUME NEW q \in Slots PROVE RequestOK(calls[q])'
  <2>1. PICK d : d = calls[q]
    OBVIOUS
  <2>2. RequestOK(d)'
    BY <2>1, RowsRise DEF ListIndInv, RequestsOK
  <2>3. calls'[q] = IF q = k THEN c ELSE d
    BY <2>1 DEF ListIndInv, RequestsOK
  <2>4. CASE q = k
    BY <2>3, <2>4
  <2>5. CASE q # k
    BY <2>2, <2>3, <2>5
  <2> QED BY <2>4, <2>5
<1> QED BY <1>1, <1>2 DEF RequestsOK

\* A request that is sent is accepted for the status it is for, or refused for another.
LEMMA SendPostKeeps ==
  ASSUME ListIndInv, NEW kind \in Posts, NEW o \in Orders, SendPost(kind, o, From[kind]),
         UNCHANGED <<activeTab, loadHistory>>
  PROVE  /\ RequestsOK' /\ NewestFits' /\ ToldStored' /\ wronged' = FALSE
         /\ rows' \in [Orders -> Statuses]
<1>1. PICK how \in Outcomes(kind, rows[o]) :
        IF how = "done"
          THEN /\ \E k \in Slots : FreeSlot(k) /\ calls' = [calls EXCEPT ![k] = Post(kind, o)]
               /\ rows' = [rows EXCEPT ![o] = To[kind]] /\ UNCHANGED wronged
          ELSE /\ wronged' = (wronged \/ (how = "refused" /\ From[kind] = rows[o]))
               /\ UNCHANGED <<calls, rows>>
  BY DEF SendPost
<1>2. CASE how = "done"
  <2>1. rows[o] = From[kind]
    BY <1>2, OutcomesFit
  <2>2. rows' \in [Orders -> Statuses] /\ \A p \in Orders : Rank[rows'[p]] >= Rank[rows[p]]
    BY <1>1, <1>2, <2>1, MovesUp DEF ListIndInv, ListInv, ListTypeOK
  <2>3. PICK k \in Slots : calls' = [calls EXCEPT ![k] = Post(kind, o)]
    BY <1>1, <1>2
  <2>4. RequestOK(Post(kind, o))'
    BY <1>1, <1>2, <2>2, MovesUp DEF RequestOK, Post, OrderAt, Posts, ListIndInv, ListInv,
       ListTypeOK
  <2>5. RequestsOK'
    BY <2>2, <2>3, <2>4, PutKeeps
  <2>6. NewestFits'
    BY <2>3 DEF ListIndInv, RequestsOK, NewestFits, OfTab, ShowsTold, Post, Posts, loadHistory
  <2>7. ToldStored'
    BY <2>2, RowsRise DEF ListIndInv, ToldStored, loadHistory
  <2> QED BY <1>1, <1>2, <2>2, <2>5, <2>6, <2>7 DEF ListIndInv, ListInv, RefusedOnlyOutdated
<1>3. CASE how # "done"
  <2>1. ~(how = "refused" /\ From[kind] = rows[o])
    BY <1>3, OutcomesFit
  <2> QED
    BY <1>1, <1>3, <2>1 DEF ListIndInv, ListInv, ListTypeOK, RefusedOnlyOutdated, RequestsOK,
       RequestOK, OrderAt,
          NewestFits, OfTab, ShowsTold, ToldStored, loadHistory
<1> QED BY <1>2, <1>3

\* A load is sent for the tab that is marked, and finds what was told.
LEMMA StartLoadKeeps ==
  ASSUME ListIndInv, NEW k \in Slots, NEW t \in Tabs, StartLoad(k, t), activeTab' = t,
         UNCHANGED rows, ToldStored'
  PROVE  RequestsOK' /\ NewestFits' /\ fresh' = FALSE
<1>1. PICK c : c = Load(t)
  OBVIOUS
<1>2. calls' = [calls EXCEPT ![k] = c] /\ newest' = k /\ fresh' = FALSE
  BY <1>1 DEF StartLoad
<1>3. RequestOK(c)'
  BY <1>1 DEF RequestOK, Load, Listing, Posts, ListIndInv, ListInv, ListTypeOK
<1>4. RequestsOK'
  <2>1. rows' \in [Orders -> Statuses] /\ \A o \in Orders : Rank[rows'[o]] >= Rank[rows[o]]
    BY MovesUp DEF ListIndInv, ListInv, ListTypeOK
  <2> QED BY <1>2, <1>3, <2>1, PutKeeps
<1>5. OfTab(c.items)'
  BY <1>1 DEF OfTab, Load, Listing
<1>6. ShowsTold(c.items)'
  BY <1>1 DEF ShowsTold, Load, Listing, ToldStored, OrderAt
<1> QED BY <1>2, <1>4, <1>5, <1>6 DEF NewestFits, ListIndInv, RequestsOK

\* Steps that leave the rows, the requests and the loads alone.
LEMMA DialogKeeps ==
  ASSUME ListIndInv, UNCHANGED <<rows, view, calls, loadHistory, wronged>>, AskingFits',
         MembersOfShown',
         {refundOpen, shareModal, members}' \subseteq Orders \cup {None}
  PROVE  ListIndInv'
<1>1. RequestsOK' /\ NewestFits' /\ ToldStored'
  BY DEF ListIndInv, RequestsOK, RequestOK, OrderAt, NewestFits, OfTab, ShowsTold, ToldStored,
     view, loadHistory
<1>2. ListInv'
  BY DEF ListIndInv, ListInv, ListTypeOK, ListCurrent, ShowsTold, RefusedOnlyOutdated, view,
     loadHistory
<1> QED BY <1>1, <1>2 DEF ListIndInv

\* Requests that end, while nothing else moves.
LEMMA FreeKeeps ==
  ASSUME ListIndInv, NEW k \in Slots, calls' = [calls EXCEPT ![k] = Free],
         UNCHANGED <<rows, activeTab, told>>,
         newest' = newest \/ (newest' = None /\ newest = k)
  PROVE  RequestsOK' /\ NewestFits' /\ ToldStored'
<1>1. RequestOK(Free)'
  BY DEF RequestOK, Free, Posts
<1>2. rows' \in [Orders -> Statuses] /\ \A o \in Orders : Rank[rows'[o]] >= Rank[rows[o]]
  BY MovesUp DEF ListIndInv, ListInv, ListTypeOK
<1>3. RequestsOK'
  BY <1>1, <1>2, PutKeeps
<1>4. NewestFits'
  BY OrderListAssumption DEF ListIndInv, RequestsOK, NewestFits, OfTab, ShowsTold, Free
<1> QED BY <1>3, <1>4 DEF ListIndInv, ToldStored, OrderAt

\* A load was answered or failed.
LEMMA LoadEndsInv ==
  ASSUME ListIndInv, NEW k \in Slots, LoadEnds(k)
  PROVE  ListIndInv'
<1>1. /\ calls[k].kind = "load" /\ calls' = [calls EXCEPT ![k] = Free]
      /\ newest' = IF newest = k THEN None ELSE newest
      /\ UNCHANGED <<rows, activeTab, dialogs, mixed, wronged>>
  BY DEF LoadEnds
<1>2. AskingFits' /\ MembersOfShown' /\ RefusedOnlyOutdated'
  BY <1>1 DEF ListIndInv, ListInv, AskingFits, MembersOfShown, RefusedOnlyOutdated, dialogs
<1>3. CASE UNCHANGED <<list, fresh, told>>
  <2>1. RequestsOK' /\ NewestFits' /\ ToldStored'
    BY <1>1, <1>3, FreeKeeps
  <2>2. ListTypeOK' /\ ListCurrent'
    BY <1>1, <1>3, <2>1 DEF ListIndInv, ListInv, ListTypeOK, ListCurrent, ShowsTold, dialogs,
       RequestsOK, RequestOK
  <2> QED BY <1>2, <2>1, <2>2 DEF ListIndInv, ListInv
<1>4. CASE /\ list' = calls[k].items /\ fresh' = (newest = k)
           /\ told' = IF fresh' /\ ShowsTold(list') THEN None ELSE told
  <2>1. told' = told \/ told' = None
    BY <1>4
  <2>2. RequestsOK' /\ NewestFits'
    <3>1. RequestOK(Free)'
      BY DEF RequestOK, Free, Posts
    <3>2. rows' \in [Orders -> Statuses] /\ \A o \in Orders : Rank[rows'[o]] >= Rank[rows[o]]
      BY <1>1, MovesUp DEF ListIndInv, ListInv, ListTypeOK
    <3>3. RequestsOK'
      BY <1>1, <3>1, <3>2, PutKeeps
    <3> QED BY <1>1, <2>1, <3>3, OrderListAssumption DEF ListIndInv, RequestsOK, NewestFits,
               OfTab, ShowsTold, Free
  <2>3. ToldStored'
    BY <1>1, <2>1 DEF ListIndInv, ToldStored, OrderAt
  <2>4. ListTypeOK'
    BY <1>1, <1>4, <2>2 DEF ListIndInv, ListInv, ListTypeOK, dialogs, RequestsOK, RequestOK
  <2>5. ListCurrent'
    BY <1>1, <1>4, <2>1 DEF ListIndInv, ListCurrent, NewestFits, OfTab, ShowsTold
  <2> QED BY <1>2, <2>2, <2>3, <2>4, <2>5 DEF ListIndInv, ListInv
<1> QED BY <1>3, <1>4 DEF LoadEnds

\* A load that is sent, with what goes with it.
LEMMA LoadingInv ==
  ASSUME ListIndInv, NEW k \in Slots, NEW t \in Tabs, StartLoad(k, t), activeTab' = t, ToldStored',
         UNCHANGED <<rows, list, asking, shareModal, members, mixed, wronged>>,
         refundOpen' \in {refundOpen, None}
  PROVE  ListIndInv'
<1>1. RequestsOK' /\ NewestFits' /\ fresh' = FALSE
  BY StartLoadKeeps
<1>2. ListTypeOK'
  BY <1>1 DEF ListIndInv, ListInv, ListTypeOK, RequestsOK, RequestOK
<1> QED
  BY <1>1, <1>2 DEF ListIndInv, ListInv, ListCurrent, RefusedOnlyOutdated, MembersOfShown,
     AskingFits

\* Another tab is picked, which loads.
LEMMA OnTabInv ==
  ASSUME ListIndInv, NEW t \in Tabs, OnTab(t)
  PROVE  ListIndInv'
<1>1. PICK k \in Slots : StartLoad(k, t)
  BY DEF OnTab
<1>2. ToldStored'
  BY DEF ListIndInv, ToldStored, OrderAt, OnTab
<1> QED BY <1>1, <1>2, LoadingInv DEF OnTab, dialogs

\* The page loads when it is shown again.
LEMMA OnOpenInv ==
  ASSUME ListIndInv, OnOpen
  PROVE  ListIndInv'
<1>1. PICK k \in Slots : StartLoad(k, activeTab)
  BY DEF OnOpen
<1>2. ToldStored' /\ activeTab \in Tabs
  BY DEF ListIndInv, ListInv, ListTypeOK, ToldStored, OrderAt, OnOpen
<1> QED BY <1>1, <1>2, LoadingInv DEF OnOpen, dialogs

\* The backend moved an order, and the list is asked for again.
LEMMA MovedInv ==
  ASSUME ListIndInv, NEW k \in Slots, Moved(k)
  PROVE  ListIndInv'
<1>1. calls[k].kind \in Posts
  BY DEF Moved, Posts
<1>2. ToldStored'
  BY <1>1, OrderListAssumption DEF Moved, Tell, ListIndInv, RequestsOK, RequestOK, ToldStored,
     OrderAt
<1>3. activeTab \in Tabs /\ StartLoad(k, activeTab) /\ UNCHANGED activeTab
  BY DEF ListIndInv, ListInv, ListTypeOK, Moved
<1> QED BY <1>2, <1>3, LoadingInv DEF Moved

\* Requests of the buttons, and of the dialogs.
LEMMA PostingInv ==
  ASSUME ListIndInv, NEW kind \in Posts, NEW o \in Orders, SendPost(kind, o, From[kind]),
         UNCHANGED <<view, refundOpen, shareModal, members, loadHistory, mixed>>,
         asking' \in {asking, None}
  PROVE  ListIndInv'
<1>1. RequestsOK' /\ NewestFits' /\ ToldStored' /\ wronged' = FALSE
        /\ rows' \in [Orders -> Statuses]
  BY SendPostKeeps DEF view
<1>2. ListTypeOK'
  BY <1>1 DEF ListIndInv, ListInv, ListTypeOK, RequestsOK, RequestOK, view
<1> QED
  BY <1>1, <1>2 DEF ListIndInv, ListInv, ListCurrent, ShowsTold, RefusedOnlyOutdated,
     MembersOfShown, AskingFits, view, loadHistory

\* A button that is there is for the status that is listed.
LEMMA OfferFits ==
  ASSUME ListIndInv, NEW kind \in Posts, NEW o, Offers(kind, o)
  PROVE  o \in Orders /\ list[o] = From[kind]
  BY ButtonsFit DEF Offers, ListIndInv, ListInv, ListTypeOK

\* The buttons of a listed order.
LEMMA ButtonInv ==
  ASSUME ListIndInv, NEW o \in Orders, OnPay(o) \/ OnShare(o) \/ OnRefundSubmit \/ AskAnswered
  PROVE  ListIndInv'
<1>1. CASE OnPay(o)
  BY <1>1, OfferFits, PostingInv DEF OnPay, Posts, dialogs
<1>2. CASE OnShare(o)
  BY <1>2, OfferFits, PostingInv DEF OnShare, Posts, dialogs
<1>3. CASE OnRefundSubmit
  <2>1. refundOpen \in Orders /\ From["refund"] = "paid" /\ "refund" \in Posts
    BY <1>3 DEF OnRefundSubmit, From, Posts, ListIndInv, ListInv, ListTypeOK
  <2> QED BY <1>3, <2>1, PostingInv DEF OnRefundSubmit, dialogs
<1>4. CASE AskAnswered
  <2>1. asking.kind \in Posts /\ asking.order \in Orders /\ asking.seen = From[asking.kind]
    BY <1>4 DEF AskAnswered, ListIndInv, AskingFits, Posts
  <2>2. CASE SendPost(asking.kind, asking.order, asking.seen)
    BY <1>4, <2>1, <2>2, PostingInv DEF AskAnswered
  <2>3. CASE UNCHANGED <<rows, calls, wronged>>
    BY <1>4, <2>3, DialogKeeps DEF AskAnswered, AskingFits, ListIndInv, ListInv, ListTypeOK,
       MembersOfShown
  <2> QED BY <1>4, <2>2, <2>3 DEF AskAnswered
<1> QED BY <1>1, <1>2, <1>3, <1>4

\* The system's dialogs and the refund's are answered.
LEMMA DialogInv ==
  ASSUME ListIndInv, NEW o \in Orders, NEW kind \in Posts,
         Ask(kind, o) \/ OnRefund(o) \/ CloseRefund \/ CloseShare
  PROVE  ListIndInv'
<1>1. CASE Ask(kind, o)
  BY <1>1, OfferFits, DialogKeeps DEF Ask, AskingFits, ListIndInv, ListInv, ListTypeOK,
     MembersOfShown
<1>2. CASE OnRefund(o)
  BY <1>2, DialogKeeps DEF OnRefund, AskingFits, ListIndInv, ListInv, ListTypeOK, MembersOfShown
<1>3. CASE CloseRefund
  BY <1>3, DialogKeeps DEF CloseRefund, AskingFits, ListIndInv, ListInv, ListTypeOK, MembersOfShown
<1>4. CASE CloseShare
  BY <1>4, DialogKeeps DEF CloseShare, AskingFits, ListIndInv, ListInv, ListTypeOK, MembersOfShown
<1> QED BY <1>1, <1>2, <1>3, <1>4

\* Answers that only free their slot, or open a dialog.
LEMMA ToastInv ==
  ASSUME ListIndInv, NEW k \in Slots, PostFails(k) \/ Shared(k) \/ MembersAnswered(k)
  PROVE  ListIndInv'
<1>1. RequestsOK' /\ NewestFits' /\ ToldStored'
  BY FreeKeeps DEF PostFails, Shared, MembersAnswered, view, loadHistory
<1>2. {refundOpen, shareModal, members}' \subseteq Orders \cup {None} /\ MembersOfShown'
  <2>1. CASE PostFails(k)
    BY <2>1 DEF PostFails, dialogs, ListIndInv, ListInv, ListTypeOK, MembersOfShown
  <2>2. CASE Shared(k)
    BY <2>2 DEF Shared, ListIndInv, ListInv, ListTypeOK, MembersOfShown, RequestsOK, RequestOK,
       OrderAt, Posts
  <2>3. CASE MembersAnswered(k)
    BY <2>3 DEF MembersAnswered, ListIndInv, ListInv, ListTypeOK, MembersOfShown, RequestsOK,
       RequestOK
  <2> QED BY <2>1, <2>2, <2>3
<1>3. UNCHANGED <<rows, view, asking, loadHistory, wronged>>
  BY DEF PostFails, Shared, MembersAnswered, dialogs
<1>4. ListTypeOK'
  BY <1>1, <1>2, <1>3 DEF ListIndInv, ListInv, ListTypeOK, RequestsOK, RequestOK, view
<1>5. ListCurrent' /\ RefusedOnlyOutdated' /\ AskingFits'
  BY <1>3 DEF ListIndInv, ListInv, ListCurrent, ShowsTold, RefusedOnlyOutdated, AskingFits, view,
     loadHistory
<1> QED BY <1>1, <1>2, <1>4, <1>5 DEF ListIndInv, ListInv

\* The members of an order were answered.
LEMMA OnLoadMembersInv ==
  ASSUME ListIndInv, OnLoadMembers
  PROVE  ListIndInv'
<1>1. PICK k \in Slots : calls' = [calls EXCEPT ![k] = Members(shareModal)]
  BY DEF OnLoadMembers
<1>2. PICK c : c = Members(shareModal)
  OBVIOUS
<1>3. rows' \in [Orders -> Statuses] /\ \A o \in Orders : Rank[rows'[o]] >= Rank[rows[o]]
  BY MovesUp DEF OnLoadMembers, ListIndInv, ListInv, ListTypeOK
<1>4. RequestOK(c)'
  BY <1>2 DEF RequestOK, Members, Posts, OnLoadMembers, ListIndInv, ListInv, ListTypeOK
<1>5. RequestsOK'
  BY <1>1, <1>2, <1>3, <1>4, PutKeeps
<1>6. NewestFits' /\ ToldStored'
  BY <1>1 DEF OnLoadMembers, Members, view, loadHistory, ListIndInv, RequestsOK, NewestFits,
     OfTab, ShowsTold, ToldStored, OrderAt
<1>7. ListInv' /\ AskingFits'
  BY <1>5 DEF OnLoadMembers, view, dialogs, loadHistory, ListIndInv, ListInv, ListTypeOK,
     ListCurrent, ShowsTold, RefusedOnlyOutdated,
        MembersOfShown, AskingFits, RequestsOK, RequestOK
<1> QED BY <1>5, <1>6, <1>7 DEF ListIndInv

\* Orders are moved elsewhere.
LEMMA OthersMoveInv ==
  ASSUME ListIndInv, NEW o \in Orders, OthersMove(o)
  PROVE  ListIndInv'
<1>1. PICK kind \in {"pay", "ship"} : Accepts(kind, rows[o])
             /\ rows' = [rows EXCEPT ![o] = To[kind]]
  BY DEF OthersMove
<1>2. rows' \in [Orders -> Statuses] /\ \A p \in Orders : Rank[rows'[p]] >= Rank[rows[p]]
  BY <1>1, MovesUp DEF Accepts, Posts, ListIndInv, ListInv, ListTypeOK
<1>3. RequestsOK'
  <2> SUFFICES ASSUME NEW q \in Slots PROVE RequestOK(calls[q])'
    BY DEF OthersMove, ListIndInv, RequestsOK
  <2>1. PICK c : c = calls[q]
    OBVIOUS
  <2> QED BY <1>2, <2>1, RowsRise DEF ListIndInv, RequestsOK, OthersMove
<1>4. ToldStored'
  BY <1>2, RowsRise DEF OthersMove, ListIndInv, ToldStored, loadHistory
<1> QED
  BY <1>2, <1>3, <1>4 DEF OthersMove, view, dialogs, loadHistory, ListIndInv, ListInv, ListTypeOK,
     ListCurrent, ShowsTold,
     RefusedOnlyOutdated, MembersOfShown, AskingFits, NewestFits, OfTab

\* A late wallet payment undoes a cancellation: the user was told of a status that stands no more.
LEMMA OthersOverwriteInv ==
  ASSUME ListIndInv, NEW o \in Orders, OthersOverwrite(o)
  PROVE  ListIndInv'
<1>1. /\ rows' = [rows EXCEPT ![o] = "paid"] /\ calls' = [k \in Slots |-> Undone(calls[k], o)]
      /\ told' = (IF told # None /\ told.order = o THEN None ELSE told)
      /\ UNCHANGED <<view, dialogs, newest, fresh, mixed, wronged>>
  BY DEF OthersOverwrite
<1>2. rows' \in [Orders -> Statuses] /\ \A p \in Orders \ {o} : rows'[p] = rows[p]
  BY <1>1 DEF ListIndInv, ListInv, ListTypeOK, Statuses
<1>3. \A p, s : p # o /\ OrderAt(p, s) => OrderAt(p, s)'
  BY <1>2 DEF OrderAt
<1>4. ASSUME NEW k \in Slots
      PROVE  /\ RequestOK(calls[k])' /\ calls'[k].kind = calls[k].kind
             /\ calls[k].kind = "load" => calls'[k] = calls[k]
  <2>1. PICK c : c = calls[k]
    OBVIOUS
  <2>2. RequestOK(c) /\ calls'[k] = Undone(c, o)
    BY <1>1, <2>1 DEF ListIndInv, RequestsOK
  <2>3. CASE c.kind \in Posts /\ c.order = o
    <3>1. PICK d : d = [c EXCEPT !.stands = FALSE]
      OBVIOUS
    <3>2. calls'[k] = d
      BY <2>2, <2>3, <3>1 DEF Undone
    <3>3. d \in [kind : Posts, order : Orders, stands : BOOLEAN] /\ d.kind = c.kind
            /\ d.stands = FALSE
      BY <2>2, <2>3, <3>1 DEF RequestOK
    <3>4. RequestOK(d)'
      <4>1. d.kind \in Posts /\ d.kind \notin {"free", "load", "members"} /\ ~d.stands
        BY <2>3, <3>3 DEF Posts
      <4> QED BY <3>3, <4>1 DEF RequestOK
    <3> QED BY <2>1, <2>3, <3>2, <3>3, <3>4 DEF Posts
  <2>4. CASE ~(c.kind \in Posts /\ c.order = o)
    <3>1. calls'[k] = c
      BY <2>2, <2>4 DEF Undone
    <3>2. RequestOK(c)'
      BY <1>3, <2>2, <2>4 DEF RequestOK
    <3> QED BY <2>1, <3>1, <3>2
  <2> QED BY <2>3, <2>4
<1>5. RequestsOK'
  BY <1>1, <1>4 DEF RequestsOK
<1>6. ToldStored'
  BY <1>1, <1>3 DEF ListIndInv, ToldStored
<1>7. \A items : ShowsTold(items) => ShowsTold(items)'
  BY <1>1 DEF ShowsTold
<1>8. NewestFits'
  BY <1>1, <1>4, <1>7 DEF ListIndInv, NewestFits, OfTab, view
<1>9. ListTypeOK'
  BY <1>1, <1>2, <1>5 DEF view, dialogs, ListIndInv, ListInv, ListTypeOK, RequestsOK, RequestOK
<1>10. ListCurrent'
  BY <1>1, <1>7 DEF view, ListIndInv, ListInv, ListCurrent
<1> QED
  BY <1>1, <1>5, <1>6, <1>8, <1>9, <1>10 DEF dialogs, ListIndInv, ListInv, RefusedOnlyOutdated,
     MembersOfShown, AskingFits

\* Every step of the list keeps the invariant.
LEMMA ListStepInv == ListIndInv /\ [ListNext]_listVars => ListIndInv'
<1> SUFFICES ASSUME ListIndInv, [ListNext]_listVars PROVE ListIndInv'
  OBVIOUS
<1>1. CASE UNCHANGED listVars
  BY <1>1, DialogKeeps DEF listVars, dialogs, AskingFits, ListIndInv, ListInv, ListTypeOK,
     MembersOfShown
<1>2. ASSUME NEW k \in Slots, Answered(k) PROVE ListIndInv'
  BY <1>2, LoadEndsInv, ToastInv, MovedInv DEF Answered
<1>3. ASSUME NEW t \in Tabs, OnTab(t) PROVE ListIndInv'
  BY <1>3, OnTabInv
<1>4. ASSUME NEW o \in Orders, OnPay(o) \/ OnShare(o) \/ OnRefund(o) \/ OthersMove(o)
               \/ OthersOverwrite(o) \/ \E kind \in Posts : Ask(kind, o)
      PROVE  ListIndInv'
  <2>1. "pay" \in Posts
    BY DEF Posts
  <2> QED BY <1>4, <2>1, ButtonInv, DialogInv, OthersMoveInv, OthersOverwriteInv
<1>5. CASE AskAnswered \/ OnRefundSubmit
  <2>1. \E o \in Orders : TRUE
    BY <1>5 DEF AskAnswered, OnRefundSubmit, ListIndInv, ListInv, ListTypeOK, AskingFits
  <2> QED BY <1>5, <2>1, ButtonInv
<1>6. CASE CloseRefund \/ CloseShare
  <2>1. (\E o \in Orders : TRUE) /\ "pay" \in Posts
    BY <1>6 DEF CloseRefund, CloseShare, Posts, ListIndInv, ListInv, ListTypeOK
  <2> QED BY <1>6, <2>1, DialogInv
<1> QED BY <1>1, <1>2, <1>3, <1>4, <1>5, <1>6, OnLoadMembersInv, OnOpenInv DEF ListNext, ListAnswers

\* For any orders and tabs: the list agrees with what the user was told last, unless a stale write
\* undid it since, no request is refused but for an outdated list, and the members shown are of
\* the order shown (my/orders.vue).
THEOREM ListIsCurrent == ListSpec => []ListInv
<1>1. ListIndInv => ListInv
  BY DEF ListIndInv
<1> QED BY <1>1, ListInitInv, ListStepInv, PTL DEF ListSpec

(***************************************************************************)
(* The page of one order.                                                  *)
(*                                                                         *)
(* The row of the backend and each copy of it on its way have the times of *)
(* the statuses they went through (OrderFits), and a copy that is older is *)
(* of no higher rank; so what the page shows is a state that the order     *)
(* was in.                                                                 *)
(***************************************************************************)

\* A button is there for the status from which its request is accepted.
LEMMA DetailButtonsFit ==
  \A s \in Statuses, kind \in Posts : kind \in DetailButtons(s) => s = From[kind]
  BY DEF Statuses, Posts, DetailButtons, From

\* An order has the times of the statuses that it went through.
OrderFits(o) ==
  /\ o \in [status : Statuses, times : SUBSET Times]
  /\ o.status = "pending" => o.times = {}
  /\ o.status = "paid" => "paidAt" \in o.times
  /\ o.status = "shipped" => {"paidAt", "shippedAt"} \subseteq o.times
  /\ o.status = "delivered" => o.times = Times

\* A write leaves an order that fits, of no lower rank.
LEMMA WriteFits ==
  ASSUME OrderFits(row), NEW kind \in Posts \cup {"ship", "approve"}, row.status = From[kind]
  PROVE  OrderFits(Write(kind)) /\ Rank[Write(kind).status] >= Rank[row.status]
<1>1. Write(kind) = [status |-> To[kind], times |-> row.times \cup SetBy[kind]]
  BY DEF Write
<1>2. OrderFits(Write(kind))
  BY <1>1 DEF OrderFits, Posts, From, To, SetBy, Times, Statuses
<1>3. Write(kind).status = To[kind] /\ Rank[To[kind]] >= Rank[From[kind]]
  BY <1>1, MovesUp
<1> QED BY <1>2, <1>3

\* A stale write, too, leaves an order with a status and times there are.
LEMMA StaleWriteFits ==
  ASSUME OrderFits(row), NEW kind \in {"cancel", "pay", "refund", "ship"}
  PROVE  OrderFits(StaleWrite(kind))
<1>1. PICK w : w = StaleWrite(kind)
  OBVIOUS
<1>2. /\ w.status = To[kind]
      /\ w.times = (IF kind = "pay" THEN row.times ELSE Reached[From[kind]]) \cup SetBy[kind]
      /\ w = [status |-> w.status, times |-> w.times]
  BY <1>1 DEF StaleWrite
<1>3. CASE kind = "pay"
  <2>1. w.status = "paid" /\ w.times = row.times \cup {"paidAt"}
    BY <1>2, <1>3 DEF To, SetBy
  <2>2. row.times \subseteq Times
    BY DEF OrderFits
  <2> QED BY <1>1, <1>2, <2>1, <2>2 DEF OrderFits, Statuses, Times
<1>4. CASE kind = "cancel"
  <2>1. w.status = "cancelled" /\ w.times = {}
    BY <1>2, <1>4 DEF To, From, Reached, SetBy
  <2> QED BY <1>1, <1>2, <2>1 DEF OrderFits, Statuses, Times
<1>5. CASE kind = "refund"
  <2>1. w.status = "refund_pending" /\ w.times = {"paidAt"}
    BY <1>2, <1>5 DEF To, From, Reached, SetBy
  <2> QED BY <1>1, <1>2, <2>1 DEF OrderFits, Statuses, Times
<1>6. CASE kind = "ship"
  <2>1. w.status = "shipped" /\ w.times = {"paidAt"} \cup {"shippedAt"}
    BY <1>2, <1>6 DEF To, From, Reached, SetBy
  <2> QED BY <1>1, <1>2, <2>1 DEF OrderFits, Statuses, Times
<1> QED BY <1>3, <1>4, <1>5, <1>6

\* No time of a status that a stale write took back.
AsReached(o) == o.status \in DOMAIN Reached => o.times \subseteq Reached[o.status]

InOrder(s, o) ==
  \E i \in DOMAIN s :
    /\ {h \in DOMAIN s : s[h].current} = {i}
    /\ \A j \in DOMAIN s : s[j].done <=> j < i \/ (j = i /\ o.status # "refund_pending")

\* The fields of a step of the timeline.
LEMMA StepFields ==
  ASSUME NEW key, NEW done \in BOOLEAN, NEW here \in BOOLEAN
  PROVE  (Step(key, done, here).done <=> done) /\ (Step(key, done, here).current <=> here)
  BY DEF Step

\* The timeline of an order that fits has one current step, behind those that are done.
LEMMA TimelineOfFit ==
  ASSUME NEW o, OrderFits(o), AsReached(o)
  PROVE  InOrder(Steps(o), o)
<1>1. CASE o.status = "cancelled"
  <2> DEFINE s == StepsCancelled(o)
  <2>1. Steps(o) = s
    BY <1>1 DEF Steps
  <2>2. DOMAIN s = 1..2 /\ s[1] = Step("created", TRUE, FALSE)
          /\ s[2] = Step("cancelled", TRUE, TRUE)
    BY DEF StepsCancelled
  <2>3. \A j \in 1..2 : (s[j].current <=> j = 2) /\ s[j].done
    BY <2>2 DEF Step
  <2> HIDE DEF s
  <2>4. \A j \in 1..2 : s[j].done <=> j < 2 \/ (j = 2 /\ o.status # "refund_pending")
    BY <1>1, <2>3
  <2>5. {h \in DOMAIN s : s[h].current} = {2}
    BY <2>2, <2>3
  <2>6. InOrder(s, o)
    BY <2>2, <2>4, <2>5 DEF InOrder
  <2> QED BY <2>1, <2>6
<1>2. CASE o.status \in {"refund_pending", "refunded"}
  <2> DEFINE s == StepsRefund(o)
  <2>1. Steps(o) = s
    BY <1>2 DEF Steps
  <2>2. /\ DOMAIN s = 1..3 
        /\ s[1] = Step("created", TRUE, FALSE) /\ s[2] = Step("paid", TRUE, FALSE)
        /\ s[3] = Step("refund", o.status = "refunded", TRUE)
    BY DEF StepsRefund
  <2>3. /\ ~s[1].current /\ ~s[2].current /\ s[3].current
        /\ s[1].done /\ s[2].done /\ (s[3].done <=> o.status = "refunded")
    BY <2>2, StepFields
  <2> HIDE DEF s
  <2>4. \A j \in 1..3 : s[j].done <=> j < 3 \/ (j = 3 /\ o.status # "refund_pending")
    BY <1>2, <2>3
  <2>9. \A j \in 1..3 : s[j].current <=> j = 3
    BY <2>3
  <2>5. {h \in DOMAIN s : s[h].current} = {3}
    BY <2>2, <2>9
  <2>6. InOrder(s, o)
    BY <2>2, <2>4, <2>5 DEF InOrder
  <2> QED BY <2>1, <2>6
<1>3. CASE o.status \in {"pending", "paid", "shipped", "delivered"}
  <2> DEFINE s == StepsAlong(o)
             along == <<"pending", "paid", "shipped", "delivered">>
             set(at) == at \in o.times
             is(status) == o.status = status
  <2>1. Steps(o) = s
    BY <1>3 DEF Steps
  <2>2. /\ DOMAIN s = 1..4
        /\ s[1] = Step("created", TRUE, is("pending"))
        /\ s[2] = Step("paid", set("paidAt"), is("paid"))
        /\ s[3] = Step("shipped", set("shippedAt"), is("shipped"))
        /\ s[4] = Step("delivered", set("deliveredAt"), is("delivered"))
    BY DEF StepsAlong
  <2>3. (\A at : set(at) \in BOOLEAN) /\ \A status : is(status) \in BOOLEAN
    OBVIOUS
  <2> HIDE DEF s, set, is
  <2>4. /\ s[1].done /\ (s[1].current <=> is("pending"))
        /\ (s[2].done <=> set("paidAt")) /\ (s[2].current <=> is("paid"))
        /\ (s[3].done <=> set("shippedAt")) /\ (s[3].current <=> is("shipped"))
        /\ (s[4].done <=> set("deliveredAt")) /\ (s[4].current <=> is("delivered"))
    BY <2>2, <2>3, StepFields
  <2>5. PICK i \in 1..4 : o.status = along[i]
    BY <1>3
  <2>6. \A j \in 1..4 : s[j].current <=> j = i
    BY <2>4, <2>5 DEF is
  <2>7. \A j \in 1..4 : s[j].done <=> j < i \/ (j = i /\ o.status # "refund_pending")
    <3>1. o.times \subseteq Reached[o.status]
      BY <1>3 DEF AsReached, Reached
    <3>2. CASE i = 1
      <4>1. o.status = "pending" /\ o.times = {}
        BY <2>5, <3>2 DEF OrderFits
      <4> QED BY <2>4, <3>2, <4>1 DEF set
    <3>3. CASE i = 2
      <4>1. o.status = "paid" /\ o.times = {"paidAt"}
        BY <2>5, <3>1, <3>3 DEF OrderFits, Reached
      <4> QED BY <2>4, <3>3, <4>1 DEF set
    <3>4. CASE i = 3
      <4>1. o.status = "shipped" /\ o.times = {"paidAt", "shippedAt"}
        BY <2>5, <3>1, <3>4 DEF OrderFits, Reached
      <4> QED BY <2>4, <3>4, <4>1 DEF set
    <3>5. CASE i = 4
      <4>1. o.status = "delivered" /\ o.times = Times
        BY <2>5, <3>5 DEF OrderFits
      <4> QED BY <2>4, <3>5, <4>1 DEF set, Times
    <3> QED BY <3>2, <3>3, <3>4, <3>5
  <2>8. {h \in DOMAIN s : s[h].current} = {i}
    BY <2>2, <2>6
  <2>9. InOrder(s, o)
    BY <2>2, <2>7, <2>8 DEF InOrder
  <2> QED BY <2>1, <2>9
<1> QED BY <1>1, <1>2, <1>3 DEF OrderFits, Statuses

DetailRequestFits(c) ==
  /\ c.kind \in Posts \cup {"free", "load"}
  /\ c.kind \in Posts =>
       c \in [kind : Posts, stands : BOOLEAN] /\ (c.stands => Rank[row.status] >= Rank[To[c.kind]])
  /\ c.kind = "load" => OrderFits(c.order)
DetailRequestsFit == DOMAIN sent = Requests /\ \A r \in Requests : DetailRequestFits(sent[r])
KnownStored == known \in Statuses /\ Rank[row.status] >= Rank[known]
LatestFits ==
  \A r \in Requests : latest = r /\ sent[r].kind = "load"
    => Rank[sent[r].order.status] >= Rank[known]
DialogFits == dialog # Nil => dialog.kind \in {"cancel", "receive"}
  /\ dialog.seen = From[dialog.kind]
OrdersFit == OrderFits(row) /\ (order # Nil => OrderFits(order))
Shows == detailLoading \in BOOLEAN /\ errMsg \in BOOLEAN
  /\ (~detailLoading /\ ~errMsg => order # Nil)
CurrentFits == current => Rank[order.status] >= Rank[known] /\ ~detailLoading /\ ~errMsg

DetailIndInv ==
  OrdersFit /\ Shows /\ DetailRequestsFit /\ KnownStored /\ LatestFits /\ DialogFits
    /\ CurrentFits /\ ~refusedHere

\* What the page shows, from its three refs.
LEMMA ScreenIs ==
  ASSUME Shows
  PROVE  Screen = "order" <=> ~detailLoading /\ ~errMsg
<1>1. CASE detailLoading
  BY <1>1 DEF Screen, Shows
<1>2. CASE ~detailLoading /\ errMsg
  BY <1>2 DEF Screen, Shows
<1>3. CASE ~detailLoading /\ ~errMsg
  BY <1>3 DEF Screen, Shows
<1> QED BY <1>1, <1>2, <1>3 DEF Shows

\* The invariant has the module's properties.
LEMMA DetailIndInvImplies == DetailIndInv => DetailInv
<1> SUFFICES ASSUME DetailIndInv PROVE DetailInv
  OBVIOUS
<1>1. DetailTypeOK
  BY ScreenIs DEF DetailIndInv, DetailTypeOK, OrdersFit, OrderFits, Shows, DetailRequestsFit,
     DetailRequestFits
<1>2. DetailCurrent
  BY ScreenIs DEF DetailIndInv, DetailCurrent, CurrentFits
<1>3. TimelineInOrder
  <2> SUFFICES ASSUME order # Nil, AsReached(order) PROVE InOrder(Steps(order), order)
    BY DEF TimelineInOrder, InOrder, AsReached
  <2> QED BY TimelineOfFit DEF DetailIndInv, OrdersFit
<1> QED BY <1>1, <1>2, <1>3 DEF DetailInv, DetailIndInv, DetailRefusedOutdated

\* It holds at first.
LEMMA DetailInitInv == DetailInit => DetailIndInv
<1> SUFFICES ASSUME DetailInit PROVE DetailIndInv
  OBVIOUS
<1>1. OrdersFit /\ Shows
  BY DEF DetailInit, OrdersFit, OrderFits, Shows, Statuses, Times
<1>2. DetailRequestsFit
  BY <1>1 DEF DetailInit, OrdersFit, DetailRequestsFit, DetailRequestFits, Unsent, Posts
<1>3. KnownStored /\ LatestFits
  BY DEF DetailInit, KnownStored, LatestFits, Statuses, Rank, Unsent
<1> QED BY <1>1, <1>2, <1>3 DEF DetailInit, DetailIndInv, DialogFits, CurrentFits

\* The row moves, if at all, to a status of no lower rank; one request may be replaced.
LEMMA DetailPutKeeps ==
  ASSUME DetailIndInv, NEW r \in Requests, NEW c, DetailRequestFits(c)',
         sent' = [sent EXCEPT ![r] = c],
         row'.status \in Statuses, Rank[row'.status] >= Rank[row.status]
  PROVE  DetailRequestsFit'
<1>1. ASSUME NEW q \in Requests PROVE DetailRequestFits(sent[q])'
  <2>1. CASE q = r
    BY <2>1 DEF DetailIndInv, DetailRequestsFit
  <2>2. CASE q # r
    BY <2>2, MovesUp DEF DetailIndInv, DetailRequestsFit, DetailRequestFits, OrdersFit, OrderFits
  <2> QED BY <2>1, <2>2
<1> QED BY <1>1 DEF DetailIndInv, DetailRequestsFit

\* A step that moves the row up keeps what is known of it.
LEMMA RowMoves ==
  ASSUME DetailIndInv, OrderFits(row)', Rank[row'.status] >= Rank[row.status],
         UNCHANGED <<order, known>>
  PROVE  OrdersFit' /\ KnownStored'
  BY MovesUp DEF DetailIndInv, OrdersFit, OrderFits, KnownStored

\* A request of a button for the status from which it is accepted.
LEMMA PostOrderInv ==
  ASSUME DetailIndInv, NEW kind \in Posts, PostOrder(kind, From[kind]),
         UNCHANGED <<orderPage, detailRefund, detailHistory>>, DialogFits'
  PROVE  DetailIndInv'
<1>1. PICK how \in Outcomes(kind, row.status) :
        IF how = "done"
          THEN /\ \E r \in Requests : Fresh(r)
                    /\ sent' = [sent EXCEPT ![r] = [kind |-> kind, stands |-> TRUE]]
               /\ row' = Write(kind) /\ UNCHANGED refusedHere
          ELSE /\ refusedHere' = (refusedHere \/ (how = "refused" /\ From[kind] = row.status))
               /\ UNCHANGED <<sent, row>>
  BY DEF PostOrder
<1>2. CASE how = "done"
  <2>1. OrderFits(row)' /\ Rank[row'.status] >= Rank[row.status] /\ row'.status = To[kind]
    <3>1. row' = Write(kind) /\ row.status = From[kind] /\ OrderFits(row)
      BY <1>1, <1>2, OutcomesFit DEF DetailIndInv, OrdersFit
    <3>2. OrderFits(Write(kind)) /\ Rank[Write(kind).status] >= Rank[row.status]
      BY <3>1, WriteFits
    <3> QED BY <3>1, <3>2 DEF OrderFits, Write
  <2>2. PICK r \in Requests : sent' = [sent EXCEPT ![r] = [kind |-> kind, stands |-> TRUE]]
    BY <1>1, <1>2
  <2>3. DetailRequestFits([kind |-> kind, stands |-> TRUE])'
    BY <2>1, MovesUp DEF DetailRequestFits, Posts
  <2>4. DetailRequestsFit'
    BY <2>1, <2>2, <2>3, DetailPutKeeps DEF OrderFits
  <2>5. LatestFits'
    BY <2>2 DEF DetailIndInv, DetailRequestsFit, LatestFits, detailHistory, Posts
  <2> QED BY <1>1, <1>2, <2>1, <2>4, <2>5, RowMoves DEF DetailIndInv, Shows, CurrentFits,
             orderPage, detailHistory
<1>3. CASE how # "done"
  <2>1. ~(how = "refused" /\ From[kind] = row.status)
    BY <1>3, OutcomesFit
  <2>2. UNCHANGED <<sent, row, orderPage, detailHistory>> /\ ~refusedHere'
    BY <1>1, <1>3, <2>1 DEF DetailIndInv
  <2>3. OrdersFit' /\ Shows' /\ CurrentFits'
    BY <2>2 DEF DetailIndInv, OrdersFit, OrderFits, Shows, CurrentFits, orderPage, detailHistory
  <2>4. DetailRequestsFit' /\ KnownStored' /\ LatestFits'
    BY <2>2 DEF DetailIndInv, DetailRequestsFit, DetailRequestFits, OrderFits, KnownStored,
       LatestFits, detailHistory
  <2> QED BY <2>2, <2>3, <2>4 DEF DetailIndInv
<1> QED BY <1>2, <1>3

\* Steps that leave the row, the page and the requests alone.
LEMMA DetailDialogKeeps ==
  ASSUME DetailIndInv, UNCHANGED <<row, orderPage, sent, detailHistory, refusedHere>>, DialogFits'
  PROVE  DetailIndInv'
  BY DEF DetailIndInv, OrdersFit, OrderFits, Shows, DetailRequestsFit, DetailRequestFits,
     KnownStored,
       LatestFits, CurrentFits, orderPage, detailHistory

\* A request whose button was there is for the status that the page shows.
LEMMA ButtonFits ==
  ASSUME DetailIndInv, NEW kind \in Posts, Button(kind)
  PROVE  order.status = From[kind] /\ dialog = Nil
<1>1. order # Nil
  BY ScreenIs DEF DetailIndInv, Shows, Button
<1> QED BY <1>1, DetailButtonsFit DEF Button, DetailIndInv, OrdersFit, OrderFits

\* The buttons of the page.
LEMMA DetailButtonInv ==
  ASSUME DetailIndInv, OnPayOrder \/ OnShareOrder \/ SubmitReason \/ DialogAnswered
  PROVE  DetailIndInv'
<1>1. CASE OnPayOrder
  BY <1>1, ButtonFits, PostOrderInv DEF OnPayOrder, Posts, detailDialogs, DetailIndInv, DialogFits
<1>2. CASE OnShareOrder
  BY <1>2, ButtonFits, PostOrderInv DEF OnShareOrder, Posts, detailDialogs, DetailIndInv, DialogFits
<1>3. CASE SubmitReason
  <2>1. From["refund"] = "paid" /\ "refund" \in Posts
    BY DEF From, Posts
  <2> QED BY <1>3, <2>1, PostOrderInv DEF SubmitReason, detailDialogs, DetailIndInv, DialogFits
<1>4. CASE DialogAnswered
  <2>1. dialog.kind \in Posts /\ dialog.seen = From[dialog.kind] /\ DialogFits'
    BY <1>4 DEF DialogAnswered, DetailIndInv, DialogFits, Posts
  <2>2. CASE PostOrder(dialog.kind, dialog.seen)
    BY <1>4, <2>1, <2>2, PostOrderInv DEF DialogAnswered
  <2>3. CASE UNCHANGED <<row, sent, refusedHere>>
    BY <1>4, <2>1, <2>3, DetailDialogKeeps DEF DialogAnswered
  <2> QED BY <1>4, <2>2, <2>3 DEF DialogAnswered
<1> QED BY <1>1, <1>2, <1>3, <1>4

\* The dialogs are answered.
LEMMA DetailDialogInv ==
  ASSUME DetailIndInv, NEW kind \in Posts, OnCancelOrReceive(kind) \/ OnRefundOrder \/ DropReason
  PROVE  DetailIndInv'
<1>1. CASE OnCancelOrReceive(kind)
  BY <1>1, ButtonFits, DetailDialogKeeps DEF OnCancelOrReceive, DialogFits
<1>2. CASE OnRefundOrder \/ DropReason
  BY <1>2, DetailDialogKeeps DEF OnRefundOrder, DropReason, DialogFits, DetailIndInv
<1> QED BY <1>1, <1>2

\* A load is sent, after what the user is told.
LEMMA LoadOrderInv ==
  ASSUME DetailIndInv, NEW r \in Requests, LoadOrder(r), KnownStored',
         UNCHANGED <<row, order, dialog, refusedHere>>
  PROVE  DetailIndInv'
<1>1. PICK c : c = [kind |-> "load", order |-> row]
  OBVIOUS
<1>2. sent' = [sent EXCEPT ![r] = c] /\ latest' = r /\ c.kind = "load" /\ c.order = row
  BY <1>1 DEF LoadOrder
<1>3. DetailRequestFits(c)'
  BY <1>2 DEF DetailRequestFits, DetailIndInv, OrdersFit, Posts
<1>4. DetailRequestsFit'
  <2>1. row'.status \in Statuses /\ Rank[row'.status] >= Rank[row.status]
    BY MovesUp DEF DetailIndInv, OrdersFit, OrderFits
  <2> QED BY <1>2, <1>3, <2>1, DetailPutKeeps
<1>5. LatestFits'
  BY <1>2 DEF DetailIndInv, DetailRequestsFit, LatestFits, KnownStored
<1> QED BY <1>4, <1>5 DEF LoadOrder, DetailIndInv, OrdersFit, Shows, DialogFits, CurrentFits

\* A request was done: the user is told, and the page loads.
LEMMA ActionDoneInv ==
  ASSUME DetailIndInv, NEW r \in Requests, ActionDone(r)
  PROVE  DetailIndInv'
<1>1. KnownStored'
  BY MovesUp DEF ActionDone, Told, Rank, Statuses, DetailIndInv, OrdersFit, OrderFits,
     DetailRequestsFit, DetailRequestFits, KnownStored
<1> QED BY <1>1, LoadOrderInv DEF ActionDone

\* The page is shown, and loads.
LEMMA DetailOnShowInv ==
  ASSUME DetailIndInv, DetailOnShow
  PROVE  DetailIndInv'
<1>1. PICK r \in Requests : LoadOrder(r)
  BY DEF DetailOnShow
<1>2. KnownStored'
  BY DEF DetailOnShow, DetailIndInv, KnownStored
<1> QED BY <1>1, <1>2, LoadOrderInv DEF DetailOnShow, detailDialogs

\* Requests that end.
LEMMA UnsentKeeps ==
  ASSUME DetailIndInv, NEW r \in Requests, sent' = [sent EXCEPT ![r] = Unsent],
         UNCHANGED <<row, known>>,
         latest' = latest \/ latest' = Nil
  PROVE  DetailRequestsFit' /\ LatestFits' /\ KnownStored'
<1>1. DetailRequestFits(Unsent)'
  BY DEF DetailRequestFits, Unsent, Posts
<1>2. row'.status \in Statuses /\ Rank[row'.status] >= Rank[row.status]
  BY MovesUp DEF DetailIndInv, OrdersFit, OrderFits
<1>3. DetailRequestsFit'
  BY <1>1, <1>2, DetailPutKeeps
<1>4. LatestFits'
  BY OrderDetailAssumption DEF DetailIndInv, DetailRequestsFit, LatestFits, Unsent
<1> QED BY <1>3, <1>4 DEF DetailIndInv, KnownStored

\* A load was answered or failed.
LEMMA LoadOrderEndsInv ==
  ASSUME DetailIndInv, NEW r \in Requests, LoadOrderEnds(r)
  PROVE  DetailIndInv'
<1>1. DetailRequestsFit' /\ LatestFits' /\ KnownStored'
  BY UnsentKeeps DEF LoadOrderEnds
<1>2. OrderFits(sent[r].order) /\ sent[r].order # Nil
  BY OrderDetailAssumption DEF LoadOrderEnds, DetailIndInv, DetailRequestsFit, DetailRequestFits,
     OrderFits
<1>3. OrdersFit' /\ Shows'
  BY <1>2 DEF LoadOrderEnds, DetailIndInv, OrdersFit, Shows
<1>4. CurrentFits'
  BY DEF LoadOrderEnds, DetailIndInv, LatestFits, CurrentFits, Shows
<1> QED BY <1>1, <1>3, <1>4 DEF LoadOrderEnds, detailDialogs, DetailIndInv, DialogFits

\* A request was refused, or failed.
LEMMA ActionToastedInv ==
  ASSUME DetailIndInv, NEW r \in Requests, ActionToasted(r)
  PROVE  DetailIndInv'
<1>1. DetailRequestsFit' /\ LatestFits' /\ KnownStored'
  BY UnsentKeeps DEF ActionToasted, detailHistory
<1> QED BY <1>1 DEF ActionToasted, orderPage, detailDialogs, detailHistory, DetailIndInv,
           OrdersFit, Shows, DialogFits, CurrentFits

\* The order is written elsewhere.
LEMMA OthersWriteInv ==
  ASSUME DetailIndInv, OthersWrite
  PROVE  DetailIndInv'
<1>1. PICK kind \in Posts \cup {"ship", "approve"} : row.status = From[kind] /\ row' = Write(kind)
  BY DEF OthersWrite, From, Posts, Accepts
<1>2. OrderFits(row)' /\ Rank[row'.status] >= Rank[row.status]
  BY <1>1, WriteFits DEF DetailIndInv, OrdersFit, OrderFits
<1>3. OrdersFit' /\ KnownStored'
  BY <1>2, RowMoves DEF OthersWrite, orderPage, detailHistory
<1>4. DetailRequestsFit'
  BY <1>2, MovesUp DEF OthersWrite, OrderFits, DetailIndInv, OrdersFit, DetailRequestsFit,
     DetailRequestFits
<1> QED
  BY <1>3, <1>4 DEF OthersWrite, orderPage, detailDialogs, detailHistory, DetailIndInv, Shows,
     LatestFits, DialogFits, CurrentFits

\* A stale write: what the user was told of the order before it is told no more.
LEMMA OverwriteRowInv ==
  ASSUME DetailIndInv, OverwriteRow
  PROVE  DetailIndInv'
<1>1. PICK kind \in {"cancel", "pay", "refund", "ship"} : row' = StaleWrite(kind)
  BY DEF OverwriteRow
<1>2. OrderFits(row)'
  <2>1. OrderFits(StaleWrite(kind))
    BY StaleWriteFits DEF DetailIndInv, OrdersFit
  <2> QED BY <1>1, <2>1 DEF OrderFits
<1>3. OrdersFit'
  BY <1>2 DEF OverwriteRow, orderPage, DetailIndInv, OrdersFit, OrderFits
<1>4. KnownStored'
  BY <1>2 DEF OverwriteRow, KnownStored, OrderFits, Statuses, Rank
<1>5. ASSUME NEW r \in Requests
      PROVE  /\ DetailRequestFits(sent[r])' /\ sent'[r].kind = sent[r].kind
             /\ sent[r].kind = "load" => sent'[r] = sent[r]
  <2>1. PICK c : c = sent[r]
    OBVIOUS
  <2>2. DetailRequestFits(c) /\ sent'[r] = IF c.kind \in Posts THEN [c EXCEPT !.stands = FALSE]
          ELSE c
    BY <2>1 DEF DetailIndInv, DetailRequestsFit, OverwriteRow
  <2>3. CASE c.kind \in Posts
    <3>1. PICK d : d = [c EXCEPT !.stands = FALSE]
      OBVIOUS
    <3>2. d \in [kind : Posts, stands : BOOLEAN] /\ d.kind = c.kind /\ d.stands = FALSE
      BY <2>2, <2>3, <3>1 DEF DetailRequestFits
    <3>3. DetailRequestFits(d)'
      <4>1. d.kind \in Posts /\ d.kind \notin {"free", "load"} /\ ~d.stands
        BY <2>3, <3>2 DEF Posts
      <4> QED BY <3>2, <4>1 DEF DetailRequestFits
    <3> QED BY <2>1, <2>2, <2>3, <3>1, <3>2, <3>3 DEF Posts
  <2>4. CASE c.kind \notin Posts
    <3>1. sent'[r] = c
      BY <2>2, <2>4
    <3>2. DetailRequestFits(c)'
      BY <2>2, <2>4 DEF DetailRequestFits, OrderFits
    <3> QED BY <2>1, <3>1, <3>2
  <2> QED BY <2>3, <2>4
<1>6. DetailRequestsFit'
  BY <1>5 DEF OverwriteRow, DetailRequestsFit
<1>7. ASSUME NEW o, OrderFits(o) PROVE Rank[o.status] >= Rank["pending"]
  BY <1>7 DEF OrderFits, Statuses, Rank
<1>8. LatestFits'
  <2> SUFFICES ASSUME NEW r \in Requests, sent'[r].kind = "load"
               PROVE  Rank[sent'[r].order.status] >= Rank["pending"]
    BY DEF OverwriteRow, LatestFits
  <2>1. sent'[r] = sent[r] /\ sent[r].kind = "load"
    BY <1>5
  <2>2. OrderFits(sent[r].order)
    BY <2>1 DEF DetailIndInv, DetailRequestsFit, DetailRequestFits
  <2> QED BY <1>7, <2>1, <2>2
<1>9. CurrentFits'
  <2> SUFFICES ASSUME current
               PROVE  Rank[order.status] >= Rank["pending"] /\ ~detailLoading /\ ~errMsg
    BY DEF OverwriteRow, CurrentFits, orderPage
  <2>1. ~detailLoading /\ ~errMsg /\ order # Nil
    BY DEF DetailIndInv, CurrentFits, Shows
  <2> QED BY <1>7, <2>1 DEF DetailIndInv, OrdersFit
<1>10. Shows' /\ DialogFits' /\ ~refusedHere'
  BY DEF OverwriteRow, orderPage, detailDialogs, DetailIndInv, Shows, DialogFits
<1> QED BY <1>3, <1>4, <1>6, <1>8, <1>9, <1>10 DEF DetailIndInv

\* Every step of the page keeps the invariant.
LEMMA DetailStepInv == DetailIndInv /\ [DetailNext]_detailVars => DetailIndInv'
<1> SUFFICES ASSUME DetailIndInv, [DetailNext]_detailVars PROVE DetailIndInv'
  OBVIOUS
<1>1. CASE UNCHANGED detailVars
  BY <1>1, DetailDialogKeeps DEF detailVars, detailDialogs, DialogFits, DetailIndInv
<1>2. ASSUME NEW r \in Requests, DetailAnswered(r) PROVE DetailIndInv'
  BY <1>2, LoadOrderEndsInv, ActionDoneInv, ActionToastedInv DEF DetailAnswered
<1>3. ASSUME NEW kind \in Posts, OnCancelOrReceive(kind) PROVE DetailIndInv'
  BY <1>3, DetailDialogInv
<1>4. CASE OnRefundOrder \/ DropReason
  <2>1. "refund" \in Posts
    BY DEF Posts
  <2> QED BY <1>4, <2>1, DetailDialogInv
<1> QED BY <1>1, <1>2, <1>3, <1>4, DetailButtonInv, DetailOnShowInv, OthersWriteInv,
           OverwriteRowInv DEF DetailNext

\* For any number of requests: the page shows a status no older than the user was told, unless a
\* stale write undid it since, its timeline has one current step, and no request is refused but for an outdated page
\* (order/detail.vue).
THEOREM DetailIsCurrent == DetailSpec => []DetailInv
<1> QED BY DetailInitInv, DetailStepInv, DetailIndInvImplies, PTL DEF DetailSpec

=============================================================================
