------------------------------ MODULE WalletPage ------------------------------
(***************************************************************************)
(* The wallet's page: pages/my/wallet.vue of frontend/src, with the two    *)
(* reads of getOverview (Wallet has the handlers that move money).  The    *)
(* newest row of the ledger stands right below the balance and says the    *)
(* balance after it.  It tops up in the build for the web that is not the  *)
(* production one.                                                         *)
(* Bounds: amounts are 1, and the balance stays below MaxFunds.            *)
(***************************************************************************)
EXTENDS Naturals

CONSTANTS MaxFunds, Hops, NoRow

ASSUME HopsAssumption == MaxFunds \in Nat \ {0} /\ Hops \subseteq Nat /\ Hops # {}

VARIABLES
  funds, newest,       \* backend: the balance, and that after the newest row, or NoRow
  fundsShown, recent,  \* the two on the page
  walletLoading,
  hops,                \* requests on their way
  torn,                \* history: money moved between the two reads for what is shown
  unseen               \* history: money moved elsewhere, a request failed, or two lists crossed

walletPage == <<fundsShown, recent, walletLoading>>
walletPageVars == <<funds, newest, walletPage, hops, torn, unseen>>

Still == [kind |-> "still"]
Overview == [kind |-> "overview"]
Hop(c) == \E h \in Hops : /\ hops[h] = Still /\ \A i \in Hops : hops[i] = Still => h <= i
                          /\ hops' = [hops EXCEPT ![h] = c]
Reading == \E h \in Hops : hops[h].kind \in {"overview", "ledger", "got"}

(***************************************************************************)
(* The backend.                                                            *)
(***************************************************************************)
Move(to) == to \in 0..MaxFunds /\ funds' = to /\ newest' = to
\* An order is paid, or refunded.
MovesElsewhere ==
  /\ Move(funds + 1) \/ (funds > 0 /\ Move(funds - 1))
  /\ unseen' = TRUE
  /\ UNCHANGED <<walletPage, hops, torn>>
Topup(h) ==
  /\ hops[h].kind = "topup" /\ Move(funds + 1)
  /\ hops' = [hops EXCEPT ![h].kind = "done"]
  /\ UNCHANGED <<walletPage, torn, unseen>>
ReadWallet(h) ==
  /\ hops[h] = Overview
  /\ hops' = [hops EXCEPT ![h] = [kind |-> "ledger", funds |-> funds]]
  /\ UNCHANGED <<funds, newest, walletPage, torn, unseen>>
ReadLedger(h) ==
  /\ hops[h].kind = "ledger"
  /\ hops' = [hops EXCEPT ![h] = [kind |-> "got", funds |-> hops[h].funds, newest |-> newest,
                                  even |-> hops[h].funds = funds]]
  /\ UNCHANGED <<funds, newest, walletPage, torn, unseen>>

(***************************************************************************)
(* The page.                                                               *)
(***************************************************************************)
ShowWallet ==
  /\ walletLoading' = TRUE /\ Hop(Overview)
  /\ unseen' = Reading
  /\ UNCHANGED <<funds, newest, fundsShown, recent, torn>>
OverviewAnswered(h) ==
  /\ hops[h].kind = "got"
  /\ fundsShown' = hops[h].funds /\ recent' = hops[h].newest
  /\ walletLoading' = FALSE /\ torn' = ~hops[h].even
  /\ hops' = [hops EXCEPT ![h] = Still]
  /\ UNCHANGED <<funds, newest, unseen>>
OnTopup ==
  /\ ~walletLoading /\ Hop([kind |-> "topup"])
  /\ UNCHANGED <<funds, newest, walletPage, torn, unseen>>
TopupAnsweredUnloaded(h) ==                                    \* mutant
  /\ hops[h].kind = "done"
  /\ UNCHANGED walletLoading /\ hops' = [hops EXCEPT ![h] = Still]
  /\ unseen' = (unseen \/ Reading)
  /\ UNCHANGED <<funds, newest, fundsShown, recent, torn>>
TopupAnswered(h) ==
  /\ hops[h].kind = "done"
  /\ walletLoading' = TRUE /\ hops' = [hops EXCEPT ![h] = Overview]
  /\ unseen' = (unseen \/ Reading)
  /\ UNCHANGED <<funds, newest, fundsShown, recent, torn>>
HopFails(h) ==
  /\ hops[h] # Still /\ hops' = [hops EXCEPT ![h] = Still]
  /\ walletLoading' = (walletLoading /\ hops[h].kind \in {"topup", "done"})
  /\ unseen' = TRUE
  /\ UNCHANGED <<funds, newest, fundsShown, recent, torn>>

WalletPageInit ==
  /\ funds \in 0..1 /\ newest = (IF funds = 0 THEN NoRow ELSE funds)
  /\ fundsShown = 0 /\ recent = NoRow /\ walletLoading = TRUE
  /\ hops = [h \in Hops |-> IF \A i \in Hops : h <= i THEN Overview ELSE Still]
  /\ torn = FALSE /\ unseen = FALSE

WalletPageNext ==
  \/ \E h \in Hops : \/ Topup(h) \/ ReadWallet(h) \/ ReadLedger(h) \/ OverviewAnswered(h)
                     \/ TopupAnswered(h) \/ HopFails(h)
  \/ MovesElsewhere \/ ShowWallet \/ OnTopup

WalletPageSpec == WalletPageInit /\ [][WalletPageNext]_walletPageVars

(***************************************************************************)
(* Properties.                                                             *)
(***************************************************************************)

\* What is shown are amounts there can be.
WalletPageTypeOK ==
  /\ funds \in 0..MaxFunds /\ fundsShown \in 0..MaxFunds
  /\ newest \in {NoRow, funds} /\ recent \in {NoRow} \cup 0..MaxFunds

\* The balance on the card is the one that the newest row below it says, unless money moved
\* between the two reads.
BalanceOfRecent == ~torn /\ recent # NoRow => fundsShown = recent

\* When nothing is on its way the page shows the balance there is, a top-up of its own
\* included, unless money moved elsewhere since it was shown, a request failed, or two lists
\* were asked for at a time.
FundsCurrent == (\A h \in Hops : hops[h] = Still) /\ ~unseen => fundsShown = funds

\* The balance on the wallet's page agrees with the rows under it and, at rest, with the
\* backend (my/wallet.vue, WalletService.getOverview).
WalletPageInv == WalletPageTypeOK /\ BalanceOfRecent /\ FundsCurrent

=============================================================================
