--------------------------- MODULE OrderFlowProofs ---------------------------
(***************************************************************************)
(* Proofs about Wallet and OrderFlow, for every set of users, orders, pigs *)
(* and requests, every amount, price and share count, and any number of    *)
(* concurrent handlers; and that OrderFlow implements OrderLifecycle.      *)
(*                                                                         *)
(* WalletInv is about Wallet alone.  CoreInv carries the types, WalletInv  *)
(* and the share counts; the theorems about payments and refunds, and the  *)
(* refinement, are proved on top of it.                                    *)
(***************************************************************************)
EXTENDS OrderRefinement, FiniteSetTheorems, TLAPS

(***************************************************************************)
(* The wallet.                                                             *)
(*                                                                         *)
(* Neither BalanceBacked nor LedgerExact is inductive: a commit writes     *)
(* what the transaction read earlier, so the invariant has to speak of the *)
(* open transactions' snapshots.  SnapshotBacked does so for any           *)
(* interleaving, SoleSnapshot for the users that never had two             *)
(* transactions open.                                                      *)
(***************************************************************************)

\* A snapshot never shows more than was credited, and a debit only goes on
\* when its snapshot covers it.
SnapshotBacked ==
  \A t \in wtx : /\ t.snap <= credited[t.user]
                 /\ t.dir = "out" => t.amount <= t.snap

\* A user who never had two transactions open has at most one, and its
\* snapshot is the committed balance.
SoleSnapshot ==
  \A t \in wtx : t.user \notin overlapped =>
    /\ t.snap = balance[t.user]
    /\ \A s \in wtx : s.user = t.user => s = t

WalletInv ==
  /\ WalletTypeOK
  /\ BalanceBacked
  /\ SnapshotBacked
  /\ SoleSnapshot
  /\ LedgerExact

\* Opening balances are credited in full and no transaction is open.
LEMMA WalletInitInv == WalletInit => WalletInv
  BY WalletAssumption
  DEF WalletInit, WalletInv, WalletTypeOK, BalanceBacked, SnapshotBacked,
      SoleSnapshot, LedgerExact, OpenTx

\* Opening a transaction records a snapshot within the credits, and either it
\* is the user's only one or the user is from then on overlapped.
LEMMA BeginTxInv ==
  ASSUME WalletInv, NEW r \in Requests, NEW u \in Users, NEW d \in {"in", "out"},
         NEW a \in Amounts, BeginTx(r, u, d, a), UNCHANGED hasRow,
         d = "out" => a <= balance[u]
  PROVE  WalletInv'
<1> USE WalletAssumption
<1> DEFINE new == [req |-> r, user |-> u, dir |-> d, amount |-> a,
                   found |-> hasRow[u], snap |-> balance[u]]
<1>1. new \in OpenTx
  BY DEF WalletInv, WalletTypeOK, BalanceBacked, OpenTx
<1>2. /\ wtx' = wtx \cup {new}
      /\ overlapped \subseteq overlapped'
      /\ (\E t \in wtx : t.user = u) => u \in overlapped'
      /\ overlapped' \subseteq overlapped \cup {u}
      /\ UNCHANGED <<hasRow, balance, credited, debited>>
  BY DEF BeginTx, WalletInv, WalletTypeOK
<1>3. WalletTypeOK'
  BY <1>1, <1>2 DEF WalletInv, WalletTypeOK
<1>4. BalanceBacked' /\ LedgerExact'
  BY <1>2 DEF WalletInv, BalanceBacked, LedgerExact
<1>5. SnapshotBacked'
  BY <1>2 DEF WalletInv, SnapshotBacked, BalanceBacked
<1>6. SoleSnapshot'
  <2> SUFFICES ASSUME NEW t \in wtx', t.user \notin overlapped'
               PROVE  /\ t.snap = balance[t.user]
                      /\ \A s \in wtx' : s.user = t.user => s = t
    BY <1>2 DEF SoleSnapshot
  <2>1. CASE t = new
    BY <2>1, <1>2
  <2>2. CASE t \in wtx
    BY <2>2, <1>2 DEF WalletInv, SoleSnapshot
  <2> QED BY <2>1, <2>2, <1>2
<1> QED BY <1>3, <1>4, <1>5, <1>6 DEF WalletInv

\* Committing writes snapshot + amount, at most the new credits; for a user
\* who was never overlapped that is the true balance plus the amount.
LEMMA CommitCreditInv ==
  ASSUME WalletInv, NEW t \in wtx, CommitCredit(t)
  PROVE  WalletInv'
<1> USE WalletAssumption
<1>1. t \in OpenTx /\ t.user \in Users /\ t.snap \in Nat /\ t.amount \in Nat
  BY DEF WalletInv, WalletTypeOK, OpenTx
<1>2. WalletTypeOK'
  BY <1>1 DEF WalletInv, WalletTypeOK, CommitCredit
<1>3. \A u \in Users : credited[u] <= credited'[u]
  BY <1>1 DEF WalletInv, WalletTypeOK, CommitCredit
<1>4. BalanceBacked'
  BY <1>1 DEF WalletInv, WalletTypeOK, CommitCredit, BalanceBacked, SnapshotBacked
<1>5. SnapshotBacked'
  BY <1>1, <1>3 DEF WalletInv, WalletTypeOK, CommitCredit, SnapshotBacked, OpenTx
<1>6. SoleSnapshot'
  BY <1>1 DEF WalletInv, WalletTypeOK, CommitCredit, SoleSnapshot, OpenTx
<1>7. LedgerExact'
  BY <1>1 DEF WalletInv, WalletTypeOK, CommitCredit, LedgerExact, SoleSnapshot
<1> QED BY <1>2, <1>4, <1>5, <1>6, <1>7 DEF WalletInv

\* The same for a debit: snapshot - amount is not negative because the check
\* was made on the same snapshot.
LEMMA CommitDebitInv ==
  ASSUME WalletInv, NEW t \in wtx, CommitDebit(t)
  PROVE  WalletInv'
<1> USE WalletAssumption
<1>1. t \in OpenTx /\ t.user \in Users /\ t.snap \in Nat /\ t.amount \in Nat
  BY DEF WalletInv, WalletTypeOK, OpenTx
<1>2. t.amount <= t.snap /\ t.snap <= credited[t.user]
  BY DEF CommitDebit, WalletInv, SnapshotBacked
<1>3. WalletTypeOK'
  BY <1>1 DEF WalletInv, WalletTypeOK, CommitDebit
<1>4. BalanceBacked'
  BY <1>1, <1>2 DEF WalletInv, WalletTypeOK, CommitDebit, BalanceBacked
<1>5. SnapshotBacked'
  BY <1>1 DEF WalletInv, CommitDebit, SnapshotBacked
<1>6. SoleSnapshot'
  BY <1>1 DEF WalletInv, WalletTypeOK, CommitDebit, SoleSnapshot, OpenTx
<1>7. LedgerExact'
  BY <1>1 DEF WalletInv, WalletTypeOK, CommitDebit, LedgerExact, SoleSnapshot
<1> QED BY <1>3, <1>4, <1>5, <1>6, <1>7 DEF WalletInv

\* Neither a rollback nor a new empty wallet row moves money.
LEMMA AbortTxInv ==
  ASSUME WalletInv, NEW t \in wtx, AbortTx(t)
  PROVE  WalletInv'
  BY DEF AbortTx, WalletInv, WalletTypeOK, BalanceBacked, SnapshotBacked,
         SoleSnapshot, LedgerExact

LEMMA EnsureWalletInv ==
  ASSUME WalletInv, NEW u \in Users, EnsureWallet(u)
  PROVE  WalletInv'
  BY DEF EnsureWallet, WalletInv, WalletTypeOK, BalanceBacked, SnapshotBacked,
         SoleSnapshot, LedgerExact

LEMMA WalletStepInv == WalletInv /\ [WalletNext]_walletVars => WalletInv'
<1> SUFFICES ASSUME WalletInv, [WalletNext]_walletVars PROVE WalletInv'
  OBVIOUS
<1>1. CASE \E u \in Users : EnsureWallet(u)
  BY <1>1, EnsureWalletInv
<1>2. ASSUME NEW r \in Requests, NEW u \in Users, NEW a \in Amounts, BeginCredit(r, u, a)
      PROVE  WalletInv'
  BY <1>2, BeginTxInv DEF BeginCredit
<1>3. ASSUME NEW r \in Requests, NEW u \in Users, NEW a \in Amounts, BeginDebit(r, u, a)
      PROVE  WalletInv'
  BY <1>3, BeginTxInv DEF BeginDebit
<1>4. CASE \E t \in wtx : CommitCredit(t)
  BY <1>4, CommitCreditInv
<1>5. CASE \E t \in wtx : CommitDebit(t)
  BY <1>5, CommitDebitInv
<1>6. CASE \E t \in wtx : AbortTx(t)
  BY <1>6, AbortTxInv
<1>7. CASE UNCHANGED walletVars
  BY <1>7 DEF walletVars, WalletInv, WalletTypeOK, BalanceBacked, SnapshotBacked,
              SoleSnapshot, LedgerExact
<1> QED BY <1>1, <1>2, <1>3, <1>4, <1>5, <1>6, <1>7 DEF WalletNext

LEMMA WalletInvariance == WalletSpec => []WalletInv
  BY WalletInitInv, WalletStepInv, PTL DEF WalletSpec

\* Type correctness of the wallet.
THEOREM WalletTypeCorrect == WalletSpec => []WalletTypeOK
  BY WalletInvariance, PTL DEF WalletInv

\* No interleaving of credit and debit overdraws a wallet or lets it hold more
\* than was credited to it (wallet.service.ts, the check and the arithmetic of
\* credit and debit).
THEOREM WalletBalanceBacked == WalletSpec => []BalanceBacked
  BY WalletInvariance, PTL DEF WalletInv

\* A wallet whose transactions never overlapped equals its ledger.
THEOREM WalletLedgerExact == WalletSpec => []LedgerExact
  BY WalletInvariance, PTL DEF WalletInv

(***************************************************************************)
(* Orders and payments.                                                    *)
(***************************************************************************)

(***************************************************************************)
(* Types, handlers and share counts.                                       *)
(***************************************************************************)

\* A handler that has started knows its order, and is only where its operation
\* can be.
HandlerOK ==
  \A r \in Requests :
    /\ pc[r] # "idle" => ord[r] \in Orders /\ op[r] \in AllOps
    /\ pc[r] = "checked" => op[r] # "mockPay"
    /\ pc[r] \in {"wallet", "between"} => op[r] \in {"walletPay", "approveRefund"}
    /\ pc[r] = "tx" => op[r] \in PayOps \cup {"approveRefund"}
    /\ pc[r] \in {"rollback", "rollbackTx"} => op[r] = "walletPay"

\* What an open business transaction read fits the pig, and for a payment leaves
\* room for the order.
SnapshotFits ==
  \A r \in Requests : pc[r] = "tx" =>
    /\ snap[r].sold <= Total[PigOf[ord[r]]]
    /\ op[r] \in PayOps => ~PigFull(ord[r], snap[r].sold)

CoreInv == TypeOK /\ WalletInv /\ HandlerOK /\ SnapshotFits /\ SoldWithinTotal

\* What a step of OrderFlow does to the wallet.
WalletPart ==
  \/ \E u \in Users : EnsureWallet(u)
  \/ \E r \in Requests, u \in Users, a \in Amounts : BeginCredit(r, u, a) \/ BeginDebit(r, u, a)
  \/ \E t \in wtx : CommitCredit(t) \/ CommitDebit(t) \/ AbortTx(t)
  \/ wtx' \subseteq wtx /\ UNCHANGED <<hasRow, balance, credited, debited, overlapped>>

LEMMA WalletPartInv == WalletInv /\ WalletPart => WalletInv'
<1> SUFFICES ASSUME WalletInv, WalletPart PROVE WalletInv'
  OBVIOUS
<1>1. CASE \E u \in Users : EnsureWallet(u)
  BY <1>1, EnsureWalletInv
<1>2. ASSUME NEW r \in Requests, NEW u \in Users, NEW a \in Amounts,
             BeginCredit(r, u, a) \/ BeginDebit(r, u, a)
      PROVE  WalletInv'
  BY <1>2, BeginTxInv DEF BeginCredit, BeginDebit
<1>3. CASE \E t \in wtx : CommitCredit(t) \/ CommitDebit(t) \/ AbortTx(t)
  BY <1>3, CommitCreditInv, CommitDebitInv, AbortTxInv
<1>4. CASE wtx' \subseteq wtx /\ UNCHANGED <<hasRow, balance, credited, debited, overlapped>>
  BY <1>4 DEF WalletInv, WalletTypeOK, BalanceBacked, SnapshotBacked, SoleSnapshot, LedgerExact
<1> QED BY <1>1, <1>2, <1>3, <1>4 DEF WalletPart

\* The constants of an order are in range.
LEMMA OrderConstants ==
  ASSUME NEW o \in Orders
  PROVE  /\ PigOf[o] \in Pigs /\ Owner[o] \in Users
         /\ Shares[o] \in Nat \ {0} /\ Price[o] \in Amounts
         /\ Total[PigOf[o]] \in Nat \ {0}
  BY OrderAssumption

LEMMA CoreInit == Init => CoreInv
<1> SUFFICES ASSUME Init PROVE CoreInv
  OBVIOUS
<1>1. WalletInv
  BY WalletInitInv DEF Init
<1>2. TypeOK
  BY <1>1 DEF Init, TypeOK, WalletInv, Statuses, PCs, Snapshots, NoSnap
<1>3. HandlerOK /\ SnapshotFits
  BY DEF Init, HandlerOK, SnapshotFits
<1>4. SoldWithinTotal
  BY OrderAssumption DEF Init, SoldWithinTotal
<1> QED BY <1>1, <1>2, <1>3, <1>4 DEF CoreInv

\* Starting a handler: its place, operation and order are set together.
LEMMA CoreStart ==
  ASSUME CoreInv, NEW r \in Requests, NEW o \in Orders, NewRequest(r, o)
  PROVE  CoreInv'
<1> USE OrderConstants DEF CoreInv, TypeOK, Start, Goto, Tables, AllOps, SimpleOps, PayOps
<1>1. ASSUME NEW k \in AllOps \ {"mockPay"}, Start(r, k, o, "checked"),
             UNCHANGED <<walletVars, Tables, snap>>
      PROVE  CoreInv'
  <2>1. WalletInv' /\ WalletTypeOK'
    BY <1>1, WalletPartInv DEF WalletPart, walletVars, WalletInv
  <2>2. TypeOK'
    BY <1>1, <2>1 DEF PCs
  <2>3. HandlerOK'
    BY <1>1 DEF HandlerOK
  <2>4. SnapshotFits'
    BY <1>1 DEF SnapshotFits, PigFull
  <2>5. SoldWithinTotal'
    BY <1>1 DEF SoldWithinTotal
  <2> QED BY <2>1, <2>2, <2>3, <2>4, <2>5
<1>2. ASSUME MockPayBegin(r, o) PROVE CoreInv'
  <2>1. WalletInv' /\ WalletTypeOK'
    BY <1>2, WalletPartInv DEF MockPayBegin, WalletPart, walletVars, WalletInv
  <2>2. sold[PigOf[o]] \in Nat /\ sold[PigOf[o]] <= Total[PigOf[o]]
    BY DEF SoldWithinTotal
  <2>3. TypeOK'
    BY <1>2, <2>1, <2>2 DEF MockPayBegin, PCs, TakeSnapshot, Snapshots
  <2>4. HandlerOK'
    BY <1>2 DEF MockPayBegin, HandlerOK
  <2>5. SnapshotFits'
    BY <1>2, <2>2 DEF MockPayBegin, SnapshotFits, PigFull, TakeSnapshot
  <2>6. SoldWithinTotal'
    BY <1>2 DEF MockPayBegin, SoldWithinTotal
  <2> QED BY <2>1, <2>3, <2>4, <2>5, <2>6
<1>3. ASSUME NEW k \in SimpleOps, LoadSimple(r, k, o) PROVE CoreInv'
  BY <1>1, <1>3 DEF LoadSimple
<1>4. CASE WalletPayLoad(r, o) \/ ApproveLoad(r, o) \/ WxPrepayLoad(r, o) \/ WxNotifyLoad(r, o)
  BY <1>1, <1>4 DEF WalletPayLoad, ApproveLoad, WxPrepayLoad, WxNotifyLoad
<1> QED BY <1>2, <1>3, <1>4 DEF NewRequest

\* The wallet's part of every step preserves the wallet's invariant.
LEMMA CoreWallet ==
  ASSUME CoreInv, NEW r \in Requests, HandlerStep(r) \/ Failure(r)
  PROVE  WalletInv' /\ WalletTypeOK'
<1> DEFINE u == Owner[ord[r]]
           a == Price[ord[r]]
<1>1. pc[r] # "idle" => u \in Users /\ a \in Amounts
  BY OrderConstants DEF CoreInv, HandlerOK
<1>2. WalletPart
  <2>1. CASE UNCHANGED walletVars
    BY <2>1 DEF walletVars, WalletPart
  <2>2. CASE WalletPayPoor(r)
    BY <1>1, <2>2 DEF WalletPayPoor, At, WalletPart
  <2>3. CASE WalletPayDebit(r) \/ ApproveCredit(r) \/ RollbackCredit(r)
    BY <1>1, <2>3 DEF WalletPayDebit, ApproveCredit, RollbackCredit, At, WalletPart
  <2>4. CASE \/ WalletPayDebited(r) \/ ApproveCredited(r) \/ RollbackCredited(r)
             \/ WalletFailed(r) \/ RollbackFailed(r)
    BY <2>4 DEF WalletPayDebited, ApproveCredited, RollbackCredited, WalletFailed,
                RollbackFailed, WalletPart
  <2>5. CASE Crash(r)
    BY <2>5 DEF Crash, WalletPart
  <2> QED
    BY <2>1, <2>2, <2>3, <2>4, <2>5
    DEF HandlerStep, Failure, SaveStatus, WxPrepay, WalletPayBegin, WalletPayFull,
        ApproveBegin, ApproveCommit, WxNotifyBegin, WxNotifyPaid, WxNotifyRefused,
        PayCommit, Notify, TxFailed, Rejected
<1> QED BY <1>2, WalletPartInv DEF CoreInv, WalletInv

\* Steps that move a handler on without opening or closing a business
\* transaction leave the share counts and the snapshots alone.
LEMMA CoreQuiet ==
  ASSUME CoreInv, NEW r \in Requests, WalletInv' /\ WalletTypeOK',
         \/ SaveStatus(r) \/ WxPrepay(r) \/ WalletPayPoor(r) \/ WalletPayDebit(r)
         \/ WalletPayDebited(r) \/ WalletPayFull(r) \/ ApproveCredit(r)
         \/ ApproveCredited(r) \/ WxNotifyPaid(r) \/ WxNotifyRefused(r)
         \/ RollbackCredit(r) \/ RollbackCredited(r) \/ Notify(r)
         \/ WalletFailed(r) \/ RollbackFailed(r) \/ Rejected(r)
  PROVE  CoreInv'
<1> USE DEF CoreInv, TypeOK, HandlerOK
<1>1. /\ pc[r] # "idle" /\ ord[r] \in Orders /\ op[r] \in AllOps
      /\ UNCHANGED <<sold, soldOut, snap, payments, op, ord, contended>>
      /\ \E l \in PCs \ {"idle", "checked", "tx"} :
           /\ pc' = [pc EXCEPT ![r] = l]
           /\ l \in {"wallet", "between"} => op[r] \in {"walletPay", "approveRefund"}
           /\ l \in {"rollback", "rollbackTx"} => op[r] = "walletPay"
    BY DEF SaveStatus, WxPrepay, WalletPayPoor, WalletPayDebit, WalletPayDebited,
           WalletPayFull, ApproveCredit, ApproveCredited, WxNotifyPaid, WxNotifyRefused,
           RollbackCredit, RollbackCredited, Notify, WalletFailed, RollbackFailed,
           Rejected, At, Step, Goto, Tables, PCs
<1>2. /\ status' \in [Orders -> Statuses] /\ wx' \in [Orders -> {"none", "prepaid", "paid"}]
      /\ ledger' \subseteq LedgerRows /\ messages' \subseteq Messages
    BY <1>1 DEF SaveStatus, WxPrepay, WalletPayPoor, WalletPayDebit, WalletPayDebited,
           WalletPayFull, ApproveCredit, ApproveCredited, WxNotifyPaid, WxNotifyRefused,
           RollbackCredit, RollbackCredited, Notify, WalletFailed, RollbackFailed,
           Rejected, Tables, LedgerRows, Messages, Statuses, Result, SimpleOps
<1>3. TypeOK'
  BY <1>1, <1>2
<1>4. HandlerOK'
  BY <1>1
<1>5. SnapshotFits' /\ SoldWithinTotal'
  BY <1>1 DEF SnapshotFits, SoldWithinTotal, PigFull
<1> QED BY <1>3, <1>4, <1>5

\* Opening a business transaction: the snapshot is within the total, and a
\* payment goes on only if it leaves room.
LEMMA CoreBegin ==
  ASSUME CoreInv, NEW r \in Requests, WalletInv' /\ WalletTypeOK',
         WalletPayBegin(r) \/ WxNotifyBegin(r) \/ ApproveBegin(r)
  PROVE  CoreInv'
<1> USE DEF CoreInv, TypeOK, HandlerOK, WalletPayBegin, WxNotifyBegin, ApproveBegin,
            At, Step, Goto, Tables, TakeSnapshot
<1>1. ord[r] \in Orders /\ op[r] \in PayOps \cup {"approveRefund"}
  BY DEF PayOps
<1>2. sold[PigOf[ord[r]]] \in Nat /\ sold[PigOf[ord[r]]] <= Total[PigOf[ord[r]]]
  BY <1>1, OrderConstants DEF SoldWithinTotal
<1>3. TypeOK'
  <2>1. [status |-> status[ord[r]], sold |-> sold[PigOf[ord[r]]],
         soldOut |-> soldOut[PigOf[ord[r]]]] \in Snapshots
    BY <1>1, <1>2, OrderConstants DEF Snapshots
  <2>2. snap' \in [Requests -> Snapshots]
    BY <2>1
  <2>3. pc' \in [Requests -> PCs]
    BY DEF PCs
  <2> QED BY <2>2, <2>3
<1>4. HandlerOK'
  BY <1>1
<1>5. SnapshotFits'
  BY <1>1, <1>2 DEF SnapshotFits, PigFull, PayOps
<1>6. SoldWithinTotal'
  BY DEF SoldWithinTotal
<1> QED BY <1>3, <1>4, <1>5, <1>6

\* Closing it: what is written to sold_shares is the snapshot plus or minus the
\* order's shares.
LEMMA CoreEnd ==
  ASSUME CoreInv, NEW r \in Requests, WalletInv' /\ WalletTypeOK',
         PayCommit(r) \/ ApproveCommit(r) \/ TxFailed(r) \/ Crash(r)
  PROVE  CoreInv'
<1> USE DEF CoreInv, TypeOK, HandlerOK, Step, Goto, Tables, DropSnapshot
<1>1. ord[r] \in Orders /\ op[r] \in AllOps
  BY DEF PayCommit, ApproveCommit, TxFailed, Crash, Active, At
<1>2. /\ snap' = [snap EXCEPT ![r] = NoSnap] /\ UNCHANGED <<op, ord, contended>>
      /\ \E l \in {"notify", "rollback", "done", "crashed"} :
           pc' = [pc EXCEPT ![r] = l] /\ (l = "rollback" => op[r] = "walletPay")
  BY DEF PayCommit, ApproveCommit, TxFailed, Crash
<1>3. SoldWithinTotal' /\ sold' \in [Pigs -> Int]
  <2> DEFINE o == ord[r]
             s == snap[r].sold
  <2>1. s \in Nat /\ PigOf[o] \in Pigs /\ Shares[o] \in Nat /\ Total[PigOf[o]] \in Nat
    BY <1>1, OrderConstants DEF Snapshots
  <2>2. CASE PayCommit(r)
    <3>1. s + Shares[o] <= Total[PigOf[o]]
      BY <2>1, <2>2 DEF PayCommit, SnapshotFits, PigFull
    <3> QED BY <2>1, <2>2, <3>1 DEF PayCommit, SoldWithinTotal
  <2>3. CASE ApproveCommit(r)
    <3>1. s <= Total[PigOf[o]]
      BY <2>3 DEF ApproveCommit, SnapshotFits, At
    <3> QED BY <2>1, <2>3, <3>1 DEF ApproveCommit, SharesAfterRefund, SoldWithinTotal
  <2>4. CASE TxFailed(r) \/ Crash(r)
    BY <2>4 DEF TxFailed, Crash, SoldWithinTotal
  <2> QED BY <2>2, <2>3, <2>4
<1>4. /\ status' \in [Orders -> Statuses] /\ soldOut' \in [Pigs -> BOOLEAN]
      /\ payments' \subseteq Payments /\ UNCHANGED <<ledger, messages, wx>>
  <2>1. CASE PayCommit(r)
    <3>1. status' = status \/ status' = [status EXCEPT ![ord[r]] = "paid"]
      BY <2>1 DEF PayCommit
    <3>2. status' \in [Orders -> Statuses]
      BY <1>1, <3>1 DEF Statuses
    <3>3. soldOut' \in [Pigs -> BOOLEAN]
      BY <2>1 DEF PayCommit
    <3> QED BY <1>1, <2>1, <3>2, <3>3 DEF PayCommit, Payments
  <2>2. CASE ApproveCommit(r)
    <3>1. status' \in [Orders -> Statuses]
      <4>1. status' = status \/ status' = [status EXCEPT ![ord[r]] = "refunded"]
        BY <2>2 DEF ApproveCommit
      <4> QED BY <1>1, <4>1 DEF Statuses
    <3>2. soldOut' \in [Pigs -> BOOLEAN]
      BY <1>1, <2>2 DEF ApproveCommit
    <3> QED BY <2>2, <3>1, <3>2 DEF ApproveCommit
  <2>3. CASE TxFailed(r) \/ Crash(r)
    BY <2>3 DEF TxFailed, Crash
  <2> QED BY <2>1, <2>2, <2>3
<1>5. TypeOK'
  BY <1>2, <1>3, <1>4 DEF PCs, Snapshots, NoSnap, Statuses
<1>6. HandlerOK'
  BY <1>1, <1>2
<1>7. SnapshotFits'
  BY <1>2 DEF SnapshotFits, PigFull
<1> QED BY <1>3, <1>5, <1>6, <1>7

LEMMA CoreStep == CoreInv /\ [Next]_vars => CoreInv'
<1> SUFFICES ASSUME CoreInv, [Next]_vars PROVE CoreInv'
  OBVIOUS
<1>1. ASSUME NEW o \in Orders, CreateOrder(o) \/ WxUserPays(o) PROVE CoreInv'
  <2>1. WalletInv' /\ WalletTypeOK'
    BY <1>1, WalletPartInv
    DEF CoreInv, CreateOrder, WxUserPays, WalletPart, walletVars, WalletInv
  <2> QED
    BY <1>1, <2>1
    DEF CoreInv, CreateOrder, WxUserPays, TypeOK, Statuses, HandlerOK, SnapshotFits,
        PigFull, SoldWithinTotal
<1>2. ASSUME NEW r \in Requests, NEW o \in Orders, NewRequest(r, o) PROVE CoreInv'
  BY <1>2, CoreStart
<1>3. ASSUME NEW r \in Requests, HandlerStep(r) \/ Failure(r) PROVE CoreInv'
  <2>1. WalletInv' /\ WalletTypeOK'
    BY <1>3, CoreWallet
  <2> QED BY <1>3, <2>1, CoreQuiet, CoreBegin, CoreEnd DEF HandlerStep, Failure
<1>4. CASE UNCHANGED vars
  <2>1. WalletInv' /\ WalletTypeOK'
    BY <1>4, WalletPartInv DEF CoreInv, vars, WalletPart, walletVars, WalletInv
  <2> QED
    BY <1>4, <2>1
    DEF CoreInv, vars, orderVars, TypeOK, HandlerOK, SnapshotFits, PigFull, SoldWithinTotal
<1> QED BY <1>1, <1>2, <1>3, <1>4 DEF Next

LEMMA CoreInvariance == Spec => []CoreInv
  BY CoreInit, CoreStep, PTL DEF Spec

\* Type correctness of the order and payment flow.
THEOREM TypeCorrect == Spec => []TypeOK
  BY CoreInvariance, PTL DEF CoreInv

\* sold_shares never leaves 0..total_shares, whatever payments and refunds run
\* concurrently and however stale their snapshots are.
THEOREM NeverOversold == Spec => []SoldWithinTotal
  BY CoreInvariance, PTL DEF CoreInv

\* The wallet keeps its promise inside the order flow: a balance is never negative
\* and never exceeds what was credited.
THEOREM FlowBalanceBacked == Spec => []BalanceBacked
  BY CoreInvariance, PTL DEF CoreInv, WalletInv

(***************************************************************************)
(* Payments, refunds and messages.  The status of an order is no evidence  *)
(* while handlers hold what they read of it: the evidence is in rows that  *)
(* are never deleted, and the invariant says which row every handler that  *)
(* acts on a paid or refunded order already has behind it.                 *)
(***************************************************************************)

\* Handlers that were let in by a paid, shipped or refund-pending order work on
\* an order with a payment row.
WorksOnPaid ==
  \A r \in Requests :
    /\ pc[r] \in {"checked", "wallet", "between", "tx"}
    /\ op[r] \in {"requestRefund", "markShipped", "confirmReceived", "approveRefund"}
    => PaidFor(ord[r])

CreditedBy(r) ==
  \E e \in ledger : e.req = r /\ e.order = ord[r] /\ e.kind = "refund"

\* An approval that got past the wallet has its refund row; a payment handler that
\* is about to write its message has a payment row.
HandlersHaveRows ==
  \A r \in Requests :
    /\ pc[r] \in {"between", "tx", "notify"} /\ op[r] = "approveRefund" => CreditedBy(r)
    /\ pc[r] = "notify" /\ op[r] \in PayOps => PaidFor(ord[r])

PaymentInv ==
  /\ FulfilledIsPaid
  /\ RefundedIsCredited
  /\ MessageTruthful
  /\ WxBookedOnce
  /\ WorksOnPaid
  /\ HandlersHaveRows

LEMMA PaymentInit == Init => PaymentInv
  BY DEF Init, PaymentInv, FulfilledIsPaid, RefundedIsCredited, MessageTruthful,
         WxBookedOnce, WorksOnPaid, HandlersHaveRows

\* A step that changes no order status, row or message, and lets the handler of r
\* into no place that needs a row it lacks.
LEMMA PaymentMove ==
  ASSUME CoreInv, PaymentInv, NEW r \in Requests,
         UNCHANGED <<status, payments, ledger, messages, op, ord>>,
         NEW l \in PCs, pc' = [pc EXCEPT ![r] = l],
         l \in {"checked", "wallet", "between", "tx"} =>
           pc[r] \in {"checked", "wallet", "between", "tx"},
         l \in {"between", "tx", "notify"} /\ op[r] = "approveRefund" => CreditedBy(r),
         l = "notify" /\ op[r] \in PayOps => PaidFor(ord[r])
  PROVE  PaymentInv'
<1> USE DEF PaymentInv, CoreInv, TypeOK
<1>1. FulfilledIsPaid' /\ RefundedIsCredited' /\ MessageTruthful' /\ WxBookedOnce'
  BY DEF FulfilledIsPaid, RefundedIsCredited, MessageTruthful, WxBookedOnce, PaidFor
<1>2. WorksOnPaid'
  BY DEF WorksOnPaid, PaidFor
<1>3. HandlersHaveRows'
  BY DEF HandlersHaveRows, PaidFor, CreditedBy
<1> QED BY <1>1, <1>2, <1>3

\* A new handler that needs a paid order sees one.
LEMMA PaymentStart ==
  ASSUME CoreInv, PaymentInv, NEW r \in Requests, NEW o \in Orders, NewRequest(r, o)
  PROVE  PaymentInv'
<1> USE DEF PaymentInv, CoreInv, TypeOK
<1>1. /\ UNCHANGED <<status, payments, ledger, messages>>
      /\ \E k \in AllOps, l \in {"checked", "tx"} :
           /\ pc' = [pc EXCEPT ![r] = l] /\ op' = [op EXCEPT ![r] = k]
           /\ ord' = [ord EXCEPT ![r] = o]
           /\ k \in {"requestRefund", "markShipped", "confirmReceived", "approveRefund"} =>
                l = "checked" /\ status[o] \in {"paid", "shipped", "refund_pending"}
  BY DEF NewRequest, LoadSimple, WalletPayLoad, ApproveLoad, MockPayBegin, WxPrepayLoad,
         WxNotifyLoad, Start, Goto, Tables, Required, SimpleOps, PayOps, AllOps
<1>2. FulfilledIsPaid' /\ RefundedIsCredited' /\ MessageTruthful' /\ WxBookedOnce'
  BY <1>1 DEF FulfilledIsPaid, RefundedIsCredited, MessageTruthful, WxBookedOnce, PaidFor
<1>3. WorksOnPaid'
  BY <1>1 DEF WorksOnPaid, FulfilledIsPaid, PaidFor
<1>4. HandlersHaveRows'
  BY <1>1 DEF HandlersHaveRows, PaidFor, CreditedBy
<1> QED BY <1>2, <1>3, <1>4

\* The steps that write an order's status, a payment row, a ledger row or a message.
LEMMA PaymentWrite ==
  ASSUME CoreInv, PaymentInv, NEW r \in Requests,
         \/ SaveStatus(r) \/ WalletPayDebited(r) \/ ApproveCredited(r)
         \/ RollbackCredited(r) \/ PayCommit(r) \/ ApproveCommit(r) \/ Notify(r)
  PROVE  PaymentInv'
<1> USE DEF PaymentInv, CoreInv, TypeOK, Step, Goto
<1>0. ord[r] \in Orders /\ op[r] \in AllOps
  BY DEF HandlerOK, SaveStatus, WalletPayDebited, ApproveCredited, RollbackCredited,
         PayCommit, ApproveCommit, Notify, At
<1>1. CASE SaveStatus(r)
  <2>1. op[r] = "cancel" \/ PaidFor(ord[r])
    BY <1>1 DEF SaveStatus, WorksOnPaid, SimpleOps
  <2>2. status' = [status EXCEPT ![ord[r]] = Result[op[r]]] /\ Result[op[r]] # "refunded"
    BY <1>1 DEF SaveStatus, Result, SimpleOps
  <2>3. UNCHANGED <<payments, ledger, messages, op, ord>> /\ pc' = [pc EXCEPT ![r] = "notify"]
    BY <1>1 DEF SaveStatus
  <2>4. op[r] = "cancel" => Result[op[r]] = "cancelled"
    BY DEF Result
  <2>5. FulfilledIsPaid'
    BY <1>0, <2>1, <2>2, <2>3, <2>4 DEF FulfilledIsPaid, PaidFor
  <2>6. RefundedIsCredited' /\ MessageTruthful' /\ WxBookedOnce'
    BY <1>0, <2>2, <2>3 DEF RefundedIsCredited, MessageTruthful, WxBookedOnce, PaidFor
  <2>7. WorksOnPaid' /\ HandlersHaveRows'
    BY <1>1, <2>3 DEF WorksOnPaid, HandlersHaveRows, PaidFor, CreditedBy, SaveStatus,
                      SimpleOps, PayOps
  <2> QED BY <2>5, <2>6, <2>7
<1>2. ASSUME NEW kind \in {"pay", "rollback", "refund"}, NEW l \in {"between", "done"},
             UNCHANGED <<status, payments, messages, op, ord>>,
             ledger' = ledger \cup {[req |-> r, order |-> ord[r], kind |-> kind]},
             pc' = [pc EXCEPT ![r] = l],
             kind = "refund" => PaidFor(ord[r]),
             l = "between" => pc[r] = "wallet",
             l = "between" /\ op[r] = "approveRefund" => kind = "refund"
      PROVE  PaymentInv'
  <2>1. FulfilledIsPaid' /\ RefundedIsCredited' /\ MessageTruthful' /\ WxBookedOnce'
    BY <1>2 DEF FulfilledIsPaid, RefundedIsCredited, MessageTruthful, WxBookedOnce, PaidFor
  <2>2. WorksOnPaid'
    BY <1>2 DEF WorksOnPaid, PaidFor
  <2>3. \A q \in Requests : CreditedBy(q) => CreditedBy(q)'
    BY <1>2 DEF CreditedBy
  <2>4. kind = "refund" => CreditedBy(r)'
    <3> DEFINE row == [req |-> r, order |-> ord[r], kind |-> kind]
    <3>1. /\ row \in ledger' /\ row.req = r /\ row.order = ord'[r]
          /\ kind = "refund" => row.kind = "refund"
      BY <1>2
    <3> HIDE DEF row
    <3> QED BY <3>1 DEF CreditedBy
  <2>5. HandlersHaveRows'
    BY <1>2, <2>3, <2>4 DEF HandlersHaveRows, PaidFor
  <2> QED BY <2>1, <2>2, <2>5
<1>3. CASE WalletPayDebited(r)
  BY <1>2, <1>3 DEF WalletPayDebited, At
<1>4. CASE ApproveCredited(r)
  BY <1>2, <1>4 DEF ApproveCredited, At, WorksOnPaid
<1>5. CASE RollbackCredited(r)
  BY <1>2, <1>5 DEF RollbackCredited
<1>6. CASE PayCommit(r)
  <2> DEFINE row == [req |-> r, order |-> ord[r], channel |-> op[r]]
  <2>1. /\ payments' = payments \cup {row} /\ UNCHANGED <<ledger, messages, op, ord>>
        /\ pc' = [pc EXCEPT ![r] = "notify"] /\ op[r] \in PayOps
        /\ status' = status \/ status' = [status EXCEPT ![ord[r]] = "paid"]
    BY <1>6 DEF PayCommit
  <2>2. PaidFor(ord[r])' /\ \A o \in Orders : PaidFor(o) => PaidFor(o)'
    <3>1. row \in payments' /\ row.order = ord'[r]
      BY <2>1
    <3>2. PaidFor(ord[r])'
      BY <3>1, <2>1 DEF PaidFor
    <3>3. \A o \in Orders : PaidFor(o) => PaidFor(o)'
      BY <2>1 DEF PaidFor
    <3> QED BY <3>2, <3>3
  <2>3. FulfilledIsPaid' /\ RefundedIsCredited' /\ MessageTruthful'
    <3>1. FulfilledIsPaid'
      BY <1>0, <2>1, <2>2 DEF FulfilledIsPaid
    <3>2. RefundedIsCredited'
      BY <1>0, <2>1, <2>2 DEF RefundedIsCredited
    <3>3. MessageTruthful'
      BY <2>1, <2>2 DEF MessageTruthful, Messages
    <3> QED BY <3>1, <3>2, <3>3
  <2>4. WxBookedOnce'
    BY <1>6, <2>1 DEF PayCommit, WxBookedOnce, WxBooked
  <2>5. WorksOnPaid'
    BY <2>1, <2>2 DEF WorksOnPaid, PaidFor
  <2>6. HandlersHaveRows'
    BY <2>1, <2>2 DEF HandlersHaveRows, PaidFor, CreditedBy, PayOps
  <2> QED BY <2>3, <2>4, <2>5, <2>6
<1>7. CASE ApproveCommit(r)
  <2>1. /\ UNCHANGED <<payments, ledger, messages, op, ord>>
        /\ pc[r] = "tx" /\ op[r] = "approveRefund" /\ pc' = [pc EXCEPT ![r] = "notify"]
        /\ status' = status \/ status' = [status EXCEPT ![ord[r]] = "refunded"]
    BY <1>7 DEF ApproveCommit, At
  <2>2. PaidFor(ord[r]) /\ CreditedBy(r)
    BY <2>1 DEF WorksOnPaid, HandlersHaveRows
  <2>3. FulfilledIsPaid' /\ RefundedIsCredited'
    BY <1>0, <2>1, <2>2 DEF FulfilledIsPaid, RefundedIsCredited, PaidFor, CreditedBy
  <2>4. MessageTruthful' /\ WxBookedOnce'
    BY <2>1 DEF MessageTruthful, WxBookedOnce, PaidFor
  <2>5. WorksOnPaid' /\ HandlersHaveRows'
    BY <2>1 DEF WorksOnPaid, HandlersHaveRows, PaidFor, CreditedBy, PayOps
  <2> QED BY <2>3, <2>4, <2>5
<1>8. CASE Notify(r)
  <2>1. /\ UNCHANGED <<status, payments, ledger, op, ord>>
        /\ pc[r] = "notify" /\ pc' = [pc EXCEPT ![r] = "done"]
        /\ \A m \in messages' : m \in messages \/ m = [req |-> r, order |-> ord[r], type |-> op[r]]
    BY <1>8 DEF Notify
  <2>2. MessageTruthful'
    BY <2>1 DEF MessageTruthful, HandlersHaveRows, PaidFor, CreditedBy
  <2>3. FulfilledIsPaid' /\ RefundedIsCredited' /\ WxBookedOnce'
    BY <2>1 DEF FulfilledIsPaid, RefundedIsCredited, WxBookedOnce, PaidFor
  <2>4. WorksOnPaid' /\ HandlersHaveRows'
    BY <2>1 DEF WorksOnPaid, HandlersHaveRows, PaidFor, CreditedBy
  <2> QED BY <2>2, <2>3, <2>4
<1> QED BY <1>1, <1>3, <1>4, <1>5, <1>6, <1>7, <1>8

LEMMA PaymentStep == CoreInv /\ PaymentInv /\ [Next]_vars => PaymentInv'
<1> SUFFICES ASSUME CoreInv, PaymentInv, [Next]_vars PROVE PaymentInv'
  OBVIOUS
<1> USE DEF At, Step, Goto, Tables, PCs
<1>1. ASSUME NEW o \in Orders, CreateOrder(o) \/ WxUserPays(o) PROVE PaymentInv'
  BY <1>1
  DEF CoreInv, TypeOK, CreateOrder, WxUserPays, PaymentInv, FulfilledIsPaid, RefundedIsCredited,
      MessageTruthful, WxBookedOnce, WorksOnPaid, HandlersHaveRows, PaidFor, CreditedBy
<1>2. ASSUME NEW r \in Requests, NEW o \in Orders, NewRequest(r, o) PROVE PaymentInv'
  BY <1>2, PaymentStart
<1>3. ASSUME NEW r \in Requests, HandlerStep(r) \/ Failure(r) PROVE PaymentInv'
  <2>1. CASE \/ SaveStatus(r) \/ WalletPayDebited(r) \/ ApproveCredited(r)
             \/ RollbackCredited(r) \/ PayCommit(r) \/ ApproveCommit(r) \/ Notify(r)
    BY <2>1, PaymentWrite
  <2>2. CASE WxPrepay(r) \/ WalletPayPoor(r) \/ WalletPayFull(r) \/ WxNotifyRefused(r)
    BY <2>2, PaymentMove DEF WxPrepay, WalletPayPoor, WalletPayFull, WxNotifyRefused
  <2>3. CASE WalletPayDebit(r) \/ ApproveCredit(r) \/ RollbackCredit(r)
    BY <2>3, PaymentMove DEF WalletPayDebit, ApproveCredit, RollbackCredit
  <2>4. CASE WalletPayBegin(r) \/ WxNotifyBegin(r)
    BY <2>4, PaymentMove DEF WalletPayBegin, WxNotifyBegin
  <2>5. CASE ApproveBegin(r)
    <3>1. CreditedBy(r)
      BY <2>5 DEF ApproveBegin, PaymentInv, HandlersHaveRows
    <3> QED BY <2>5, <3>1, PaymentMove DEF ApproveBegin, PayOps
  <2>6. CASE WxNotifyPaid(r)
    <3>1. PaidFor(ord[r])
      BY <2>6 DEF WxNotifyPaid, PaymentInv, FulfilledIsPaid, CoreInv, HandlerOK
    <3> QED BY <2>6, <3>1, PaymentMove DEF WxNotifyPaid
  <2>7. CASE WalletFailed(r) \/ RollbackFailed(r) \/ Rejected(r) \/ Crash(r)
    BY <2>7, PaymentMove DEF WalletFailed, RollbackFailed, Rejected, Crash
  <2>8. CASE TxFailed(r)
    BY <2>8, PaymentMove DEF TxFailed
  <2> QED BY <1>3, <2>1, <2>2, <2>3, <2>4, <2>5, <2>6, <2>7, <2>8 DEF HandlerStep, Failure
<1>4. CASE UNCHANGED vars
  BY <1>4
  DEF vars, orderVars, PaymentInv, FulfilledIsPaid, RefundedIsCredited, MessageTruthful,
      WxBookedOnce, WorksOnPaid, HandlersHaveRows, PaidFor, CreditedBy
<1> QED BY <1>1, <1>2, <1>3, <1>4 DEF Next

LEMMA PaymentInvariance == Spec => []PaymentInv
  BY CoreInvariance, PaymentInit, PaymentStep, PTL DEF Spec

\* No interleaving, failure or crash gets an order past "pending", other than to
\* "cancelled", without a payment row.
THEOREM OnlyPaidIsFulfilled == Spec => []FulfilledIsPaid
  BY PaymentInvariance, PTL DEF PaymentInv

\* A refunded order was credited, a credited one was paid.
THEOREM OnlyCreditedIsRefunded == Spec => []RefundedIsCredited
  BY PaymentInvariance, PTL DEF PaymentInv

\* One WeChat payment is booked once, for any number of deliveries.
THEOREM WxPaymentBookedOnce == Spec => []WxBookedOnce
  BY PaymentInvariance, PTL DEF PaymentInv

\* Messages about payments and refunds are true.
THEOREM MessagesAreTruthful == Spec => []MessageTruthful
  BY PaymentInvariance, PTL DEF PaymentInv

(***************************************************************************)
(* The money of payByWallet.                                               *)
(***************************************************************************)

\* Where a handler with a debit, a booking or a compensation of its own can be.
\* Between the debit and the end of the request exactly the debit is there.
MoneyInFlight ==
  \A r \in Requests :
    /\ DebitedBy(r) => /\ op[r] = "walletPay"
                       /\ pc[r] \in {"between", "tx", "rollback", "rollbackTx", "notify",
                                     "done", "crashed", "swallowed"}
    /\ pc[r] \in {"between", "tx", "rollback", "rollbackTx"} /\ op[r] = "walletPay" =>
         DebitedBy(r) /\ ~BookedBy(r) /\ ~ReturnedBy(r)
    /\ BookedBy(r) => pc[r] \in {"notify", "done", "crashed"}
    /\ ReturnedBy(r) => pc[r] = "done" /\ DebitedBy(r) /\ ~BookedBy(r)
    /\ DebitedBy(r) /\ pc[r] \in {"notify", "done"} => BookedBy(r) \/ ReturnedBy(r)

LEMMA MoneyInit == Init => MoneyInFlight
  BY DEF Init, MoneyInFlight, DebitedBy, BookedBy, ReturnedBy

\* A step of one handler that writes neither row moves it only within what its rows
\* allow.
LEMMA MoneyMove ==
  ASSUME CoreInv, MoneyInFlight, NEW r \in Requests, NEW l \in PCs,
         UNCHANGED <<payments, ledger>>, pc' = [pc EXCEPT ![r] = l],
         \A q \in Requests \ {r} : op'[q] = op[q],
         \/ /\ pc[r] \in {"idle", "checked", "wallet"}
            /\ l \in {"checked", "wallet", "done", "notify"}
            /\ ~DebitedBy(r)
         \/ pc[r] = "idle" /\ l = "tx" /\ op'[r] # "walletPay"
         \/ op'[r] = op[r] /\ pc[r] = "checked" /\ l = "tx" /\ op[r] # "walletPay"
         \/ op'[r] = op[r] /\ pc[r] = "notify" /\ l = "done"
         \/ op'[r] = op[r] /\ pc[r] \in {"between", "tx", "rollback", "rollbackTx"}
            /\ l \in {"tx", "rollback", "rollbackTx", "swallowed"}
         \/ op'[r] = op[r] /\ op[r] # "walletPay" /\ pc[r] \in {"between", "tx"}
            /\ l \in {"done", "notify"}
         \/ op'[r] = op[r] /\ l = "crashed" /\ pc[r] \notin {"done", "idle"}
  PROVE  MoneyInFlight'
<1>1. \A q \in Requests : /\ DebitedBy(q)' <=> DebitedBy(q)
                          /\ BookedBy(q)' <=> BookedBy(q)
                          /\ ReturnedBy(q)' <=> ReturnedBy(q)
  BY DEF DebitedBy, BookedBy, ReturnedBy
<1> QED
  BY <1>1 DEF MoneyInFlight, CoreInv, TypeOK, PCs

LEMMA MoneyStep == CoreInv /\ MoneyInFlight /\ [Next]_vars => MoneyInFlight'
<1> SUFFICES ASSUME CoreInv, MoneyInFlight, [Next]_vars PROVE MoneyInFlight'
  OBVIOUS
<1> USE DEF At, Step, Goto, Tables, PCs
<1>1. ASSUME NEW o \in Orders, CreateOrder(o) \/ WxUserPays(o) PROVE MoneyInFlight'
  BY <1>1 DEF CreateOrder, WxUserPays, MoneyInFlight, DebitedBy, BookedBy, ReturnedBy
<1>2. ASSUME NEW r \in Requests, NEW o \in Orders, NewRequest(r, o) PROVE MoneyInFlight'
  <2>1. /\ UNCHANGED <<payments, ledger>> /\ pc[r] = "idle"
        /\ \A q \in Requests \ {r} : op'[q] = op[q]
        /\ \/ pc' = [pc EXCEPT ![r] = "checked"]
           \/ pc' = [pc EXCEPT ![r] = "tx"] /\ op'[r] # "walletPay"
    BY <1>2
    DEF CoreInv, TypeOK, NewRequest, LoadSimple, WalletPayLoad, ApproveLoad, MockPayBegin,
        WxPrepayLoad, WxNotifyLoad, Start
  <2>2. ~DebitedBy(r)
    BY <2>1 DEF MoneyInFlight
  <2> QED BY <2>1, <2>2, MoneyMove
<1>3. ASSUME NEW r \in Requests, HandlerStep(r) \/ Failure(r) PROVE MoneyInFlight'
  <2>0. pc[r] \in {"checked", "wallet"} => ~DebitedBy(r)
    BY DEF MoneyInFlight
  <2>1. CASE \/ SaveStatus(r) \/ WxPrepay(r) \/ WalletPayPoor(r) \/ WxNotifyPaid(r)
             \/ WxNotifyRefused(r) \/ Rejected(r) \/ WalletFailed(r)
    BY <2>0, <2>1, MoneyMove
    DEF SaveStatus, WxPrepay, WalletPayPoor, WxNotifyPaid, WxNotifyRefused, Rejected, WalletFailed
  <2>2. CASE WalletPayDebit(r) \/ ApproveCredit(r)
    BY <2>0, <2>2, MoneyMove DEF WalletPayDebit, ApproveCredit
  <2>3. CASE WalletPayBegin(r) \/ WalletPayFull(r) \/ RollbackCredit(r) \/ RollbackFailed(r)
    BY <2>3, MoneyMove DEF WalletPayBegin, WalletPayFull, RollbackCredit, RollbackFailed
  <2>4. CASE WxNotifyBegin(r) \/ ApproveBegin(r) \/ ApproveCommit(r)
    BY <2>4, MoneyMove DEF WxNotifyBegin, ApproveBegin, ApproveCommit
  <2>5. CASE Notify(r) \/ Crash(r)
    BY <2>5, MoneyMove DEF Notify, Crash, Active
  <2>6. CASE TxFailed(r)
    BY <2>6, MoneyMove DEF TxFailed
  <2>7. CASE WalletPayDebited(r)
    <3> DEFINE row == [req |-> r, order |-> ord[r], kind |-> "pay"]
    <3>1. /\ ledger' = ledger \cup {row} /\ UNCHANGED <<payments, op>>
          /\ pc[r] = "wallet" /\ op[r] = "walletPay" /\ pc' = [pc EXCEPT ![r] = "between"]
      BY <2>7 DEF WalletPayDebited
    <3>2. /\ DebitedBy(r)'
          /\ \A q \in Requests : /\ q # r => (DebitedBy(q)' <=> DebitedBy(q))
                                 /\ BookedBy(q)' <=> BookedBy(q)
                                 /\ ReturnedBy(q)' <=> ReturnedBy(q)
      <4>1. row \in ledger' /\ row.req = r /\ row.kind = "pay"
        BY <3>1
      <4> HIDE DEF row
      <4> QED BY <3>1, <4>1 DEF DebitedBy, BookedBy, ReturnedBy
    <3> QED BY <3>1, <3>2 DEF MoneyInFlight, CoreInv, TypeOK
  <2>8. CASE ApproveCredited(r)
    <3> DEFINE row == [req |-> r, order |-> ord[r], kind |-> "refund"]
    <3>1. /\ ledger' = ledger \cup {row} /\ UNCHANGED <<payments, op>>
          /\ pc[r] = "wallet" /\ op[r] = "approveRefund" /\ pc' = [pc EXCEPT ![r] = "between"]
      BY <2>8 DEF ApproveCredited
    <3>2. \A q \in Requests : /\ DebitedBy(q)' <=> DebitedBy(q)
                              /\ BookedBy(q)' <=> BookedBy(q)
                              /\ ReturnedBy(q)' <=> ReturnedBy(q)
      BY <3>1 DEF DebitedBy, BookedBy, ReturnedBy
    <3> QED BY <3>1, <3>2 DEF MoneyInFlight, CoreInv, TypeOK
  <2>9. CASE RollbackCredited(r)
    <3> DEFINE row == [req |-> r, order |-> ord[r], kind |-> "rollback"]
    <3>1. /\ ledger' = ledger \cup {row} /\ UNCHANGED <<payments, op>>
          /\ pc[r] = "rollbackTx" /\ pc' = [pc EXCEPT ![r] = "done"]
      BY <2>9 DEF RollbackCredited
    <3>2. op[r] = "walletPay"
      BY <3>1 DEF CoreInv, HandlerOK
    <3>3. /\ ReturnedBy(r)'
          /\ \A q \in Requests : /\ DebitedBy(q)' <=> DebitedBy(q)
                                 /\ BookedBy(q)' <=> BookedBy(q)
                                 /\ q # r => (ReturnedBy(q)' <=> ReturnedBy(q))
      <4>1. row \in ledger' /\ row.req = r /\ row.kind = "rollback"
        BY <3>1
      <4> HIDE DEF row
      <4> QED BY <3>1, <4>1 DEF DebitedBy, BookedBy, ReturnedBy
    <3> QED BY <3>1, <3>2, <3>3 DEF MoneyInFlight, CoreInv, TypeOK
  <2>10. CASE PayCommit(r)
    <3> DEFINE row == [req |-> r, order |-> ord[r], channel |-> op[r]]
    <3>1. /\ payments' = payments \cup {row} /\ UNCHANGED <<ledger, op>>
          /\ pc[r] = "tx" /\ pc' = [pc EXCEPT ![r] = "notify"]
      BY <2>10 DEF PayCommit
    <3>2. /\ BookedBy(r)'
          /\ \A q \in Requests : /\ DebitedBy(q)' <=> DebitedBy(q)
                                 /\ ReturnedBy(q)' <=> ReturnedBy(q)
                                 /\ q # r => (BookedBy(q)' <=> BookedBy(q))
      <4>1. row \in payments' /\ row.req = r
        BY <3>1
      <4> HIDE DEF row
      <4> QED BY <3>1, <4>1 DEF DebitedBy, BookedBy, ReturnedBy
    <3> QED BY <3>1, <3>2 DEF MoneyInFlight, CoreInv, TypeOK
  <2> QED BY <1>3, <2>1, <2>2, <2>3, <2>4, <2>5, <2>6, <2>7, <2>8, <2>9, <2>10
          DEF HandlerStep, Failure
<1>4. CASE UNCHANGED vars
  BY <1>4 DEF vars, orderVars, MoneyInFlight, DebitedBy, BookedBy, ReturnedBy
<1> QED BY <1>1, <1>2, <1>3, <1>4 DEF Next

\* Every finished payByWallet request that took money booked the payment or gave
\* the money back, and none did both.
THEOREM WalletMoneyAccounted == Spec => []WalletPayAccounted
<1>1. MoneyInFlight => WalletPayAccounted
  BY DEF MoneyInFlight, WalletPayAccounted
<1>2. Spec => []MoneyInFlight
  BY CoreInvariance, MoneyInit, MoneyStep, PTL DEF Spec
<1> QED BY <1>1, <1>2, PTL

(***************************************************************************)
(* The refinement: OrderFlow implements OrderLifecycle.                    *)
(*                                                                         *)
(* The argument is about the pigs that have one handler at a time: what    *)
(* that handler read is still true when it writes (Suits), so its write is *)
(* the step of the life cycle that its check allows.  A refund can take    *)
(* its shares off the count because the count is exact (InventoryExact),   *)
(* which is why the inventory is part of the invariant.                    *)
(***************************************************************************)

\* An uncontended pig has one handler at a time.
LoneHandler ==
  \A q, r \in Requests :
    /\ Active(q) /\ Active(r)
    /\ PigOf[ord[q]] = PigOf[ord[r]] /\ PigOf[ord[r]] \notin contended
    => q = r

\* What the handler of r checked, or read in its open transaction, is the case.
Suits(r) ==
  LET o == ord[r] IN
  /\ pc[r] = "checked" /\ op[r] \in SimpleOps => status[o] = Required[op[r]]
  /\ pc[r] \in {"checked", "wallet", "between", "tx"} =>
       /\ op[r] = "walletPay" => status[o] = "pending"
       /\ op[r] = "approveRefund" => status[o] = "refund_pending"
  /\ pc[r] = "tx" =>
       /\ snap[r] = [status |-> status[o], sold |-> sold[PigOf[o]], soldOut |-> soldOut[PigOf[o]]]
       /\ op[r] \in PayOps => status[o] = "pending"

ChecksHold == \A r \in Requests : Active(r) /\ PigOf[ord[r]] \notin contended => Suits(r)

HoldersFinite == \A p \in Pigs \ contended : IsFiniteSet(Lifecycle!Units(Lifecycle!Holders(p)))

FlowInv ==
  /\ CoreInv /\ MoneyInFlight
  /\ LoneHandler /\ ChecksHold
  /\ InventoryExact /\ HoldersFinite
  /\ IsFiniteSet(payments)

(***************************************************************************)
(* Counting shares.                                                        *)
(***************************************************************************)

\* OrderLifecycle counts as OrderFlow does.
LEMMA SameCount == \A S : Lifecycle!Cardinality(S) = Cardinality(S)
  BY DEF Lifecycle!Cardinality, Cardinality

\* An order more is its number of shares more.
LEMMA UnitsAdd ==
  ASSUME NEW S \in SUBSET Orders, NEW o \in Orders, o \notin S,
         IsFiniteSet(Lifecycle!Units(S)) \/ IsFiniteSet(Lifecycle!Units(S \cup {o}))
  PROVE  /\ IsFiniteSet(Lifecycle!Units(S)) /\ IsFiniteSet(Lifecycle!Units(S \cup {o}))
         /\ Cardinality(Lifecycle!Units(S)) \in Nat
         /\ Cardinality(Lifecycle!Units(S \cup {o})) = Cardinality(Lifecycle!Units(S)) + Shares[o]
<1> DEFINE A == Lifecycle!Units(S)
           B == {o} \X (1 .. Shares[o])
           C == Lifecycle!Units(S \cup {o})
<1>1. Shares[o] \in Nat
  BY OrderConstants
<1>2. IsFiniteSet(B) /\ Cardinality(B) = Shares[o]
  <2>1. IsFiniteSet(1 .. Shares[o]) /\ Cardinality(1 .. Shares[o]) = Shares[o]
    BY <1>1, FS_Interval
  <2>2. IsFiniteSet({o}) /\ Cardinality({o}) = 1
    BY FS_Singleton
  <2>3. Cardinality(B) = 1 * Shares[o] /\ IsFiniteSet(B)
    <3> DEFINE one == {o}
               many == 1 .. Shares[o]
    <3>1. IsFiniteSet(one) /\ IsFiniteSet(many) /\ Cardinality(one) = 1
          /\ Cardinality(many) = Shares[o]
      BY <2>1, <2>2
    <3> HIDE DEF one, many
    <3>2. IsFiniteSet(one \X many) /\ Cardinality(one \X many) = Cardinality(one) * Cardinality(many)
      BY <3>1, FS_Product
    <3>3. B = one \X many
      BY DEF one, many
    <3> HIDE DEF B
    <3> QED BY <3>1, <3>2, <3>3
  <2> QED BY <1>1, <2>3
<1>3. C = A \cup B
  BY DEF Lifecycle!Units
<1>4. A \cap B = {}
  BY DEF Lifecycle!Units
<1>5. IsFiniteSet(A)
  BY <1>3, FS_Subset
<1> HIDE DEF A, B, C
<1>6. IsFiniteSet(C) /\ Cardinality(C) = Cardinality(A) + Cardinality(B) - Cardinality(A \cap B)
  BY <1>2, <1>3, <1>5, FS_Union
<1>7. Cardinality(A \cap B) = 0 /\ Cardinality(A) \in Nat
  BY <1>4, <1>5, FS_EmptySet, FS_CardinalityType
<1>8. Cardinality(C) = Cardinality(A) + Shares[o]
  BY <1>1, <1>2, <1>6, <1>7
<1> QED BY <1>5, <1>6, <1>7, <1>8 DEF A, C

\* What an order's new status does to the orders that hold shares.
LEMMA HoldersWritten ==
  ASSUME NEW o \in Orders, NEW s, NEW p \in Pigs, status \in [Orders -> Statuses],
         status' = [status EXCEPT ![o] = s]
  PROVE  Lifecycle!Holders(p)' =
           IF PigOf[o] # p THEN Lifecycle!Holders(p)
           ELSE IF s \in Lifecycle!Holding THEN Lifecycle!Holders(p) \cup {o}
                                           ELSE Lifecycle!Holders(p) \ {o}
  BY DEF Lifecycle!Holders

(***************************************************************************)
(* Steps.                                                                  *)
(***************************************************************************)

\* Shares stay counted where neither they nor the orders that hold them change.
LEMMA InventoryKept ==
  ASSUME InventoryExact, HoldersFinite, contended \subseteq contended',
         \A p \in Pigs \ contended' :
           Lifecycle!Holders(p)' = Lifecycle!Holders(p) /\ sold'[p] = sold[p]
             /\ soldOut'[p] = soldOut[p]
  PROVE  InventoryExact' /\ HoldersFinite'
<1>1. \A p \in Pigs \ contended' :
        Lifecycle!Units(Lifecycle!Holders(p)') = Lifecycle!Units(Lifecycle!Holders(p))
  OBVIOUS
<1> QED BY <1>1 DEF InventoryExact, Lifecycle!InventoryExact, HoldersFinite, Lifecycle!Units

\* A step of one handler between its reads and its writes is a stutter.
LEMMA QuietKeeps ==
  ASSUME FlowInv, CoreInv', MoneyInFlight', NEW r \in Requests, NEW l \in PCs,
         pc' = [pc EXCEPT ![r] = l],
         UNCHANGED <<status, sold, soldOut, payments, op, ord, contended>>,
         \A q \in Requests \ {r} : snap'[q] = snap[q],
         Active(r)' => Active(r), Active(r)' /\ PigOf[ord[r]] \notin contended => Suits(r)'
  PROVE  FlowInv' /\ UNCHANGED Lifecycle!lifeVars
<1>1. \A q \in Requests : Active(q)' => Active(q)
  BY DEF FlowInv, CoreInv, TypeOK, Active
<1>2. LoneHandler'
  BY <1>1 DEF FlowInv, LoneHandler
<1>3. ChecksHold'
  <2> SUFFICES ASSUME NEW q \in Requests, Active(q)', PigOf[ord[q]] \notin contended
               PROVE  Suits(q)'
    BY DEF ChecksHold
  <2>1. CASE q = r
    BY <2>1
  <2>2. CASE q # r
    <3>1. Suits(q) /\ pc'[q] = pc[q] /\ snap'[q] = snap[q]
      BY <2>2, <1>1 DEF FlowInv, ChecksHold, CoreInv, TypeOK
    <3> QED BY <3>1 DEF Suits
  <2> QED BY <2>1, <2>2
<1>4. InventoryExact' /\ HoldersFinite'
  BY InventoryKept DEF FlowInv, Lifecycle!Holders
<1>5. UNCHANGED Lifecycle!lifeVars
  BY DEF Lifecycle!lifeVars, Bookings
<1> QED BY <1>2, <1>3, <1>4, <1>5 DEF FlowInv

\* A handler that starts on a pig that another one is active on contends it.
LEMMA StartKeeps ==
  ASSUME FlowInv, CoreInv', MoneyInFlight', NEW r \in Requests, NEW o \in Orders, NEW k \in AllOps,
         NEW l \in {"checked", "tx"}, Start(r, k, o, l),
         UNCHANGED <<status, sold, soldOut, payments>>,
         \A q \in Requests \ {r} : snap'[q] = snap[q],
         Suits(r)'
  PROVE  FlowInv' /\ [Lifecycle!Next]_(Lifecycle!lifeVars)
<1> DEFINE p == PigOf[o]
<1>1. /\ ~Active(r) /\ p \in Pigs
      /\ pc' = [pc EXCEPT ![r] = l] /\ op' = [op EXCEPT ![r] = k] /\ ord' = [ord EXCEPT ![r] = o]
      /\ contended' = IF \E q \in Requests : Active(q) /\ PigOf[ord[q]] = p
                        THEN contended \cup {p} ELSE contended
  BY OrderConstants DEF Start, Goto, Active
<1>2. \A q \in Requests \ {r} : /\ pc'[q] = pc[q] /\ op'[q] = op[q] /\ ord'[q] = ord[q]
                                /\ Active(q)' <=> Active(q)
  BY <1>1 DEF FlowInv, CoreInv, TypeOK, Active
<1>3. ord'[r] = o
  BY <1>1 DEF FlowInv, CoreInv, TypeOK
<1>4. LoneHandler'
  BY <1>1, <1>2, <1>3 DEF FlowInv, LoneHandler
<1>5. ChecksHold'
  <2> SUFFICES ASSUME NEW q \in Requests, Active(q)', PigOf[ord'[q]] \notin contended', q # r
               PROVE  Suits(q)'
    BY DEF ChecksHold
  <2>1. Suits(q) /\ snap'[q] = snap[q]
    BY <1>1, <1>2 DEF FlowInv, ChecksHold
  <2> QED BY <1>2, <2>1 DEF Suits
<1>6. InventoryExact' /\ HoldersFinite'
  BY <1>1, InventoryKept DEF FlowInv, Lifecycle!Holders
<1>7. [Lifecycle!Next]_(Lifecycle!lifeVars)
  <2>1. UNCHANGED <<status, sold, soldOut, Bookings>>
    BY DEF Bookings
  <2>2. CASE contended' = contended
    BY <2>1, <2>2 DEF Lifecycle!lifeVars
  <2>3. CASE contended' = contended \cup {p}
    BY <1>1, <2>1, <2>3 DEF Lifecycle!Next, Lifecycle!Contend
  <2> QED BY <1>1, <2>2, <2>3
<1> QED BY <1>4, <1>5, <1>6, <1>7 DEF FlowInv

\* The shares of pig p are counted.
Counted(p) ==
  /\ IsFiniteSet(Lifecycle!Units(Lifecycle!Holders(p)))
  /\ sold[p] = Cardinality(Lifecycle!Units(Lifecycle!Holders(p)))
  /\ soldOut[p] <=> sold[p] = Total[p]

LEMMA CountedIsExact ==
  (InventoryExact /\ HoldersFinite) <=> \A p \in Pigs \ contended : Counted(p)
  BY SameCount DEF InventoryExact, Lifecycle!InventoryExact, HoldersFinite, Counted

\* A write of the handler that a pig has to itself invalidates no other handler's check.
LEMMA WriteKeeps ==
  ASSUME FlowInv, CoreInv', MoneyInFlight', NEW r \in Requests, NEW l \in {"notify"}, Active(r),
         pc' = [pc EXCEPT ![r] = l], UNCHANGED <<op, ord, contended>>,
         \A q \in Requests \ {r} : snap'[q] = snap[q],
         \A x \in Orders : PigOf[x] # PigOf[ord[r]] => status'[x] = status[x],
         \A p \in Pigs \ {PigOf[ord[r]]} : sold'[p] = sold[p] /\ soldOut'[p] = soldOut[p],
         PigOf[ord[r]] \notin contended => Counted(PigOf[ord[r]])',
         IsFiniteSet(payments')
  PROVE  FlowInv'
<1>1. \A q \in Requests : Active(q)' => Active(q) /\ q # r /\ pc'[q] = pc[q]
  BY DEF FlowInv, CoreInv, TypeOK, Active
<1>2. LoneHandler'
  BY <1>1 DEF FlowInv, LoneHandler
<1>3. ChecksHold'
  <2> SUFFICES ASSUME NEW q \in Requests, Active(q)', PigOf[ord[q]] \notin contended
               PROVE  Suits(q)'
    BY DEF ChecksHold
  <2>1. Suits(q) /\ Active(q) /\ q # r /\ pc'[q] = pc[q] /\ snap'[q] = snap[q]
    BY <1>1 DEF FlowInv, ChecksHold
  <2>2. PigOf[ord[q]] # PigOf[ord[r]]
    BY <2>1 DEF FlowInv, LoneHandler
  <2>3. ord[q] \in Orders /\ PigOf[ord[q]] \in Pigs
    BY <2>1, OrderConstants DEF FlowInv, CoreInv, HandlerOK, Active
  <2> QED BY <2>1, <2>2, <2>3 DEF Suits
<1>4. \A p \in Pigs \ contended : Counted(p)'
  <2> SUFFICES ASSUME NEW p \in Pigs, p \notin contended, p # PigOf[ord[r]]
               PROVE  Counted(p)'
    OBVIOUS
  <2>1. Lifecycle!Holders(p)' = Lifecycle!Holders(p)
    BY DEF Lifecycle!Holders
  <2>2. Counted(p) /\ sold'[p] = sold[p] /\ soldOut'[p] = soldOut[p]
    BY CountedIsExact DEF FlowInv
  <2> QED BY <2>1, <2>2 DEF Counted, Lifecycle!Units
<1>5. InventoryExact' /\ HoldersFinite'
  BY <1>4, SameCount DEF InventoryExact, Lifecycle!InventoryExact, HoldersFinite, Counted
<1> QED BY <1>2, <1>3, <1>5 DEF FlowInv

\* Creating an order holds no shares and concerns no handler.
LEMMA CreateKeeps ==
  ASSUME FlowInv, CoreInv', MoneyInFlight', NEW o \in Orders, CreateOrder(o)
  PROVE  FlowInv' /\ [Lifecycle!Next]_(Lifecycle!lifeVars)
<1> DEFINE p == PigOf[o]
<1>1. /\ status[o] = "none" /\ ~soldOut[p] /\ p \in Pigs
      /\ status' = [status EXCEPT ![o] = "pending"] /\ status \in [Orders -> Statuses]
      /\ UNCHANGED <<sold, soldOut, payments, pc, op, ord, snap, contended>>
  BY OrderConstants DEF CreateOrder, FlowInv, CoreInv, TypeOK
<1>2. \A q \in Requests : Active(q)' <=> Active(q)
  BY <1>1 DEF Active
<1>3. LoneHandler'
  BY <1>1, <1>2 DEF FlowInv, LoneHandler
<1>4. ChecksHold'
  <2> SUFFICES ASSUME NEW q \in Requests, Active(q), PigOf[ord[q]] \notin contended
               PROVE  Suits(q)'
    BY <1>1, <1>2 DEF ChecksHold
  <2>1. Suits(q) /\ ord[q] \in Orders /\ (pc[q] = "tx" => op[q] \in PayOps \cup {"approveRefund"})
    BY DEF FlowInv, ChecksHold, CoreInv, HandlerOK, Active
  <2>2. CASE ord[q] = o
    BY <1>1, <2>1, <2>2 DEF Suits, Required, SimpleOps
  <2>3. CASE ord[q] # o
    BY <1>1, <2>1, <2>3 DEF Suits
  <2> QED BY <2>2, <2>3
<1>5. InventoryExact' /\ HoldersFinite'
  <2>1. \A q \in Pigs : Lifecycle!Holders(q)' = Lifecycle!Holders(q)
    BY <1>1 DEF Lifecycle!Holders, Lifecycle!Holding
  <2> QED BY <1>1, <2>1, InventoryKept DEF FlowInv
<1>6. Lifecycle!Next
  <2>1. UNCHANGED Bookings
    BY <1>1 DEF Bookings
  <2>2. CASE p \notin contended
    <3>1. Lifecycle!Administer(o)
      BY <1>1, <2>1, <2>2 DEF Lifecycle!Administer, Lifecycle!Move
    <3> QED BY <3>1 DEF Lifecycle!Next
  <2>3. CASE p \in contended
    <3>1. Lifecycle!OutOfControl(p)
      BY <1>1, <2>1, <2>3 DEF Lifecycle!OutOfControl
    <3> QED BY <1>1, <3>1 DEF Lifecycle!Next
  <2> QED BY <2>2, <2>3
<1> QED BY <1>1, <1>3, <1>4, <1>5, <1>6 DEF FlowInv

\* A saved status is the step that was checked.
LEMMA SaveStatusKeeps ==
  ASSUME FlowInv, CoreInv', MoneyInFlight', NEW r \in Requests, SaveStatus(r)
  PROVE  FlowInv' /\ [Lifecycle!Next]_(Lifecycle!lifeVars)
<1> DEFINE o == ord[r]
           p == PigOf[o]
<1>1. /\ pc[r] = "checked" /\ op[r] \in SimpleOps /\ Active(r)
      /\ o \in Orders /\ p \in Pigs /\ status \in [Orders -> Statuses]
      /\ status' = [status EXCEPT ![o] = Result[op[r]]]
      /\ pc' = [pc EXCEPT ![r] = "notify"]
      /\ UNCHANGED <<sold, soldOut, payments, op, ord, snap, contended>>
  BY OrderConstants DEF SaveStatus, Step, Goto, Active, FlowInv, CoreInv, TypeOK, HandlerOK
<1>2. p \notin contended => status[o] = Required[op[r]]
  BY <1>1 DEF FlowInv, ChecksHold, Suits
<1>3. p \notin contended => Counted(p)'
  <2> SUFFICES ASSUME p \notin contended PROVE Counted(p)'
    OBVIOUS
  <2>1. Lifecycle!Holders(p)' = Lifecycle!Holders(p)
    BY <1>1, <1>2 DEF Lifecycle!Holders, Lifecycle!Holding, Required, Result, SimpleOps
  <2>2. Counted(p)
    BY <1>1, CountedIsExact DEF FlowInv
  <2> QED BY <1>1, <2>1, <2>2 DEF Counted, Lifecycle!Units
<1>4. FlowInv'
  <2>1. \A x \in Orders : PigOf[x] # PigOf[ord[r]] => status'[x] = status[x]
    BY <1>1
  <2>2. IsFiniteSet(payments')
    BY <1>1 DEF FlowInv
  <2> QED BY <1>1, <1>3, <2>1, <2>2, WriteKeeps
<1>5. Lifecycle!Next
  <2>1. UNCHANGED Bookings
    BY <1>1 DEF Bookings
  <2>2. CASE p \notin contended
    <3>1. \/ Lifecycle!Move(o, "pending", "cancelled")
               \/ Lifecycle!Move(o, "paid", "refund_pending")
          \/ Lifecycle!Move(o, "paid", "shipped") \/ Lifecycle!Move(o, "shipped", "delivered")
      <4>1. Lifecycle!Move(o, Required[op[r]], Result[op[r]])
        BY <1>1, <1>2, <2>2 DEF Lifecycle!Move
      <4>2. <<Required[op[r]], Result[op[r]]>> \in
              {<<"pending", "cancelled">>, <<"paid", "refund_pending">>,
               <<"paid", "shipped">>, <<"shipped", "delivered">>}
        BY <1>1 DEF Required, Result, SimpleOps
      <4> QED BY <4>1, <4>2
    <3>2. Lifecycle!Administer(o)
      BY <1>1, <2>1, <3>1 DEF Lifecycle!Administer
    <3> QED BY <1>1, <3>2 DEF Lifecycle!Next
  <2>3. CASE p \in contended
    <3>1. Lifecycle!OutOfControl(p)
      BY <1>1, <2>1, <2>3 DEF Lifecycle!OutOfControl
    <3> QED BY <1>1, <3>1 DEF Lifecycle!Next
  <2> QED BY <2>2, <2>3
<1> QED BY <1>4, <1>5

\* A payment that a handler books is the order's only change of bookings.
LEMMA BookingAdded ==
  ASSUME FlowInv, NEW r \in Requests, PayCommit(r)
  PROVE  /\ IsFiniteSet(payments')
         /\ Bookings' = [Bookings EXCEPT ![ord[r]] = @ + 1]
<1> DEFINE o == ord[r]
           y == [req |-> r, order |-> o, channel |-> op[r]]
           Of(x) == {z \in payments : z.order = x}
<1>1. payments' = payments \cup {y} /\ o \in Orders /\ y \notin payments
  <2>1. payments' = payments \cup {y} /\ pc[r] = "tx"
    BY DEF PayCommit
  <2>2. ~BookedBy(r)
    BY <2>1 DEF FlowInv, MoneyInFlight
  <2> QED BY <2>1, <2>2 DEF BookedBy, FlowInv, CoreInv, HandlerOK
<1>2. IsFiniteSet(payments')
  BY <1>1, FS_AddElement DEF FlowInv
<1>3. ASSUME NEW x \in Orders
      PROVE  Bookings'[x] = IF x = o THEN Bookings[x] + 1 ELSE Bookings[x]
  <2>1. {z \in payments' : z.order = x} = IF x = o THEN Of(x) \cup {y} ELSE Of(x)
    BY <1>1
  <2>2. IsFiniteSet(Of(x)) /\ y \notin Of(x)
    BY <1>1, FS_Subset DEF FlowInv
  <2>3. Cardinality(Of(x) \cup {y}) = Cardinality(Of(x)) + 1
    BY <2>2, FS_AddElement
  <2> QED BY <2>1, <2>3 DEF Bookings
<1> QED BY <1>1, <1>2, <1>3 DEF Bookings

\* A committed payment pays the order it checked and takes its shares.
LEMMA PayCommitKeeps ==
  ASSUME FlowInv, CoreInv', MoneyInFlight', NEW r \in Requests, PayCommit(r)
  PROVE  FlowInv' /\ [Lifecycle!Next]_(Lifecycle!lifeVars)
<1> DEFINE o == ord[r]
           p == PigOf[o]
           s == snap[r]
<1>1. /\ pc[r] = "tx" /\ op[r] \in PayOps /\ Active(r)
      /\ o \in Orders /\ p \in Pigs /\ status \in [Orders -> Statuses]
      /\ sold \in [Pigs -> Int] /\ soldOut \in [Pigs -> BOOLEAN]
      /\ Shares[o] \in Nat \ {0} /\ Total[p] \in Nat \ {0}
      /\ s \in Snapshots /\ s.sold + Shares[o] <= Total[p]
  BY OrderConstants
  DEF PayCommit, Active, FlowInv, CoreInv, TypeOK, HandlerOK, SnapshotFits, PigFull, Snapshots
<1>2. /\ status' = IF s.status = "paid" THEN status ELSE [status EXCEPT ![o] = "paid"]
      /\ sold' = [sold EXCEPT ![p] = s.sold + Shares[o]]
      /\ soldOut' = IF s.sold + Shares[o] >= Total[p] /\ ~s.soldOut
                      THEN [soldOut EXCEPT ![p] = TRUE] ELSE soldOut
      /\ pc' = [pc EXCEPT ![r] = "notify"] /\ snap' = [snap EXCEPT ![r] = NoSnap]
      /\ UNCHANGED <<op, ord, contended>>
  BY DEF PayCommit, Step, Goto, DropSnapshot
<1>3. /\ \A q \in Requests \ {r} : snap'[q] = snap[q]
      /\ \A x \in Orders : PigOf[x] # p => status'[x] = status[x]
      /\ \A q \in Pigs \ {p} : sold'[q] = sold[q] /\ soldOut'[q] = soldOut[q]
  BY <1>1, <1>2 DEF FlowInv, CoreInv, TypeOK
<1>4. ASSUME p \notin contended
      PROVE  /\ status[o] = "pending" /\ s.status = "pending"
             /\ s.sold = sold[p] /\ s.soldOut = soldOut[p] /\ ~soldOut[p]
             /\ status' = [status EXCEPT ![o] = "paid"]
             /\ sold' = [sold EXCEPT ![p] = sold[p] + Shares[o]]
             /\ soldOut' = [soldOut EXCEPT ![p] = (sold[p] + Shares[o] = Total[p])]
             /\ sold[p] + Shares[o] \in 0 .. Total[p]
  <2>1. status[o] = "pending" /\ s.status = "pending" /\ s.sold = sold[p] /\ s.soldOut = soldOut[p]
    <3>1. Suits(r)
      BY <1>1, <1>4 DEF FlowInv, ChecksHold
    <3> QED BY <1>1, <3>1 DEF Suits
  <2>2. Counted(p)
    BY <1>1, <1>4, CountedIsExact DEF FlowInv
  <2>3. ~soldOut[p] /\ s.sold \in Nat
    BY <1>1, <2>1, <2>2 DEF Counted, Snapshots
  <2>4. sold[p] + Shares[o] \in 0 .. Total[p]
    BY <1>1, <2>1, <2>3
  <2>5. soldOut' = [soldOut EXCEPT ![p] = (sold[p] + Shares[o] = Total[p])]
    <3>1. CASE sold[p] + Shares[o] = Total[p]
      BY <1>1, <1>2, <2>1, <2>3, <3>1
    <3>2. CASE sold[p] + Shares[o] # Total[p]
      <4>1. soldOut' = soldOut
        BY <1>1, <1>2, <2>1, <2>4, <3>2
      <4>2. soldOut[p] = FALSE
        BY <1>1, <2>3
      <4> QED BY <1>1, <3>2, <4>1, <4>2
    <3> QED BY <3>1, <3>2
  <2> QED BY <1>2, <2>1, <2>3, <2>4, <2>5
<1>5. p \notin contended => Counted(p)'
  <2> SUFFICES ASSUME p \notin contended PROVE Counted(p)'
    OBVIOUS
  <2> DEFINE H == Lifecycle!Holders(p)
  <2>1. Lifecycle!Holders(p)' = H \cup {o} /\ o \notin H /\ H \subseteq Orders
    BY <1>1, <1>2, <1>4 DEF Lifecycle!Holders, Lifecycle!Holding
  <2>2. Counted(p)
    BY <1>1, CountedIsExact DEF FlowInv
  <2> HIDE DEF H
  <2>3. /\ IsFiniteSet(Lifecycle!Units(H \cup {o}))
        /\ Cardinality(Lifecycle!Units(H \cup {o})) = sold[p] + Shares[o]
    BY <1>1, <2>1, <2>2, UnitsAdd DEF Counted, H
  <2>4. sold'[p] = sold[p] + Shares[o] /\ (soldOut'[p] <=> sold'[p] = Total[p])
    BY <1>1, <1>4
  <2> QED BY <1>2, <2>1, <2>3, <2>4 DEF Counted, Lifecycle!Units
<1>6. FlowInv'
  BY <1>1, <1>2, <1>3, <1>5, BookingAdded, WriteKeeps
<1>7. Lifecycle!Next
  <2>1. Bookings' = [Bookings EXCEPT ![o] = @ + 1]
    BY BookingAdded
  <2>2. CASE p \notin contended
    <3>1. Lifecycle!Pay(o)
      BY <1>1, <1>2, <1>4, <2>1, <2>2 DEF Lifecycle!Pay, Lifecycle!Move, Lifecycle!SetSold
    <3> QED BY <1>1, <3>1 DEF Lifecycle!Next
  <2>3. CASE p \in contended
    <3>1. \A x \in Orders : PigOf[x] # p => Bookings'[x] = Bookings[x]
      BY <2>1 DEF Bookings
    <3>2. Lifecycle!OutOfControl(p)
      BY <1>2, <1>3, <2>3, <3>1 DEF Lifecycle!OutOfControl
    <3> QED BY <1>1, <3>2 DEF Lifecycle!Next
  <2> QED BY <2>2, <2>3
<1> QED BY <1>6, <1>7

\* A committed refund gives back the shares that the order held.
LEMMA ApproveCommitKeeps ==
  ASSUME FlowInv, CoreInv', MoneyInFlight', NEW r \in Requests, ApproveCommit(r)
  PROVE  FlowInv' /\ [Lifecycle!Next]_(Lifecycle!lifeVars)
<1> DEFINE o == ord[r]
           p == PigOf[o]
           s == snap[r]
           left == SharesAfterRefund(s.sold, Shares[o])
<1>1. /\ pc[r] = "tx" /\ op[r] = "approveRefund" /\ Active(r)
      /\ o \in Orders /\ p \in Pigs /\ status \in [Orders -> Statuses]
      /\ sold \in [Pigs -> Int] /\ soldOut \in [Pigs -> BOOLEAN]
      /\ Shares[o] \in Nat \ {0} /\ Total[p] \in Nat \ {0}
      /\ s \in Snapshots /\ s.sold <= Total[p]
  BY OrderConstants
  DEF ApproveCommit, At, Active, FlowInv, CoreInv, TypeOK, HandlerOK, SnapshotFits
<1>2. /\ status' = IF s.status = "refunded" THEN status ELSE [status EXCEPT ![o] = "refunded"]
      /\ sold' = IF left = s.sold THEN sold ELSE [sold EXCEPT ![p] = left]
      /\ soldOut' = IF s.soldOut /\ left < Total[p]
                      THEN [soldOut EXCEPT ![p] = FALSE] ELSE soldOut
      /\ pc' = [pc EXCEPT ![r] = "notify"] /\ snap' = [snap EXCEPT ![r] = NoSnap]
      /\ UNCHANGED <<payments, op, ord, contended>>
  BY DEF ApproveCommit, Step, Goto, DropSnapshot
<1>3. /\ \A q \in Requests \ {r} : snap'[q] = snap[q]
      /\ \A x \in Orders : PigOf[x] # p => status'[x] = status[x]
      /\ \A q \in Pigs \ {p} : sold'[q] = sold[q] /\ soldOut'[q] = soldOut[q]
  BY <1>1, <1>2 DEF FlowInv, CoreInv, TypeOK
<1> DEFINE H == Lifecycle!Holders(p) \ {o}
<1>4. ASSUME p \notin contended
      PROVE  /\ status[o] = "refund_pending"
             /\ status' = [status EXCEPT ![o] = "refunded"]
             /\ sold' = [sold EXCEPT ![p] = sold[p] - Shares[o]]
             /\ soldOut' = [soldOut EXCEPT ![p] = (sold[p] - Shares[o] = Total[p])]
             /\ sold[p] - Shares[o] \in 0 .. Total[p] /\ sold[p] - Shares[o] < Total[p]
             /\ IsFiniteSet(Lifecycle!Units(H))
             /\ Cardinality(Lifecycle!Units(H)) = sold[p] - Shares[o]
  <2>1. /\ status[o] = "refund_pending" /\ s.status = "refund_pending"
        /\ s.sold = sold[p] /\ s.soldOut = soldOut[p]
    <3>1. Suits(r)
      BY <1>1, <1>4 DEF FlowInv, ChecksHold
    <3> QED BY <1>1, <3>1 DEF Suits
  <2>2. Counted(p)
    BY <1>1, <1>4, CountedIsExact DEF FlowInv
  <2>3. Lifecycle!Holders(p) = H \cup {o} /\ H \in SUBSET Orders /\ o \notin H
    BY <1>1, <2>1 DEF Lifecycle!Holders, Lifecycle!Holding
  <2> HIDE DEF H
  <2>4. /\ IsFiniteSet(Lifecycle!Units(H)) /\ Cardinality(Lifecycle!Units(H)) \in Nat
        /\ sold[p] = Cardinality(Lifecycle!Units(H)) + Shares[o]
    BY <1>1, <2>2, <2>3, UnitsAdd DEF Counted
  <2>5. /\ sold[p] \in Int /\ sold[p] <= Total[p] /\ sold[p] >= Shares[o]
        /\ Cardinality(Lifecycle!Units(H)) = sold[p] - Shares[o]
    BY <1>1, <2>1, <2>4
  <2>6. left = sold[p] - Shares[o] /\ left # s.sold
    BY <1>1, <2>1, <2>5 DEF SharesAfterRefund
  <2>7. sold[p] - Shares[o] \in 0 .. Total[p] /\ sold[p] - Shares[o] < Total[p]
    BY <1>1, <2>5
  <2>8. soldOut' = [soldOut EXCEPT ![p] = FALSE]
    <3>1. CASE soldOut[p]
      BY <1>2, <2>1, <2>6, <2>7, <3>1
    <3>2. CASE ~soldOut[p]
      <4>1. soldOut' = soldOut
        BY <1>2, <2>1, <3>2
      <4>2. soldOut[p] = FALSE
        BY <1>1, <3>2
      <4> QED BY <1>1, <4>1, <4>2
    <3> QED BY <3>1, <3>2
  <2>9. (sold[p] - Shares[o] = Total[p]) = FALSE
    BY <1>1, <2>5, <2>7
  <2> QED BY <1>2, <2>1, <2>4, <2>5, <2>6, <2>7, <2>8, <2>9
<1>5. p \notin contended => Counted(p)'
  <2> SUFFICES ASSUME p \notin contended PROVE Counted(p)'
    OBVIOUS
  <2>1. Lifecycle!Holders(p)' = H
    BY <1>1, <1>2, <1>4 DEF Lifecycle!Holders, Lifecycle!Holding
  <2> HIDE DEF H
  <2>2. sold'[p] = sold[p] - Shares[o] /\ ~soldOut'[p] /\ sold'[p] # Total[p]
    <3>1. sold'[p] = sold[p] - Shares[o] /\ sold[p] - Shares[o] < Total[p]
      BY <1>1, <1>4
    <3>2. sold[p] - Shares[o] # Total[p] /\ sold[p] \in Int
      BY <1>1, <3>1
    <3>3. soldOut'[p] = (sold[p] - Shares[o] = Total[p])
      BY <1>1, <1>4, Zenon
    <3> QED BY <3>1, <3>2, <3>3
  <2> QED BY <1>2, <1>4, <2>1, <2>2 DEF Counted, Lifecycle!Units
<1>6. FlowInv'
  <2>1. IsFiniteSet(payments')
    BY <1>2 DEF FlowInv
  <2> HIDE DEF H
  <2> QED BY <1>1, <1>2, <1>3, <1>5, <2>1, WriteKeeps
<1>7. Lifecycle!Next
  <2>1. UNCHANGED Bookings
    BY <1>2 DEF Bookings
  <2>2. CASE p \notin contended
    <3>1. Lifecycle!Refund(o)
      BY <1>1, <1>2, <1>4, <2>1, <2>2 DEF Lifecycle!Refund, Lifecycle!Move, Lifecycle!SetSold
    <3> QED BY <1>1, <3>1 DEF Lifecycle!Next
  <2>3. CASE p \in contended
    <3>1. Lifecycle!OutOfControl(p)
      BY <1>2, <1>3, <2>1, <2>3 DEF Lifecycle!OutOfControl
    <3> QED BY <1>1, <3>1 DEF Lifecycle!Next
  <2> QED BY <2>2, <2>3
<1> QED BY <1>6, <1>7

\* The other steps of a handler that has started.
Quiet(r) ==
  \/ WxPrepay(r) \/ WalletPayPoor(r) \/ WalletPayDebit(r) \/ WalletPayDebited(r)
  \/ WalletPayBegin(r) \/ WalletPayFull(r) \/ ApproveCredit(r) \/ ApproveCredited(r)
  \/ ApproveBegin(r) \/ WxNotifyBegin(r) \/ WxNotifyPaid(r) \/ WxNotifyRefused(r)
  \/ RollbackCredit(r) \/ RollbackCredited(r) \/ Notify(r) \/ Failure(r)

LEMMA QuietStep ==
  ASSUME FlowInv, CoreInv', MoneyInFlight', NEW r \in Requests, Quiet(r)
  PROVE  FlowInv' /\ UNCHANGED Lifecycle!lifeVars
<1> DEFINE moves(l) ==
             /\ pc' = [pc EXCEPT ![r] = l]
             /\ UNCHANGED <<status, sold, soldOut, payments, op, ord, contended>>
             /\ \A q \in Requests \ {r} : snap'[q] = snap[q]
<1> USE DEF At, Step, Goto, Tables
<1>1. pc \in [Requests -> PCs] /\ snap \in [Requests -> Snapshots]
  BY DEF FlowInv, CoreInv, TypeOK
<1>2. PigOf[ord[r]] \notin contended /\ Active(r) => Suits(r)
  BY DEF FlowInv, ChecksHold
<1>3. \A l \in PCs : moves(l) => pc'[r] = l
  BY <1>1
<1>4. ASSUME NEW l \in {"done", "notify", "rollback", "rollbackTx", "crashed", "swallowed"},
             moves(l), pc[r] = "notify" => l \in {"done", "crashed"},
             pc[r] # "notify" => Active(r)
      PROVE  FlowInv' /\ UNCHANGED Lifecycle!lifeVars
  <2>1. l \in PCs /\ pc'[r] = l
    BY <1>3, <1>4 DEF PCs
  <2>2. (Active(r)' => Active(r)) /\ Suits(r)'
    BY <1>4, <2>1 DEF Active, Suits
  <2> QED BY <1>4, <2>1, <2>2, QuietKeeps
<1>5. ASSUME NEW l \in {"wallet", "between", "tx"}, moves(l),
             pc[r] \in {"checked", "wallet", "between"},
             PigOf[ord[r]] \notin contended => Suits(r)'
      PROVE  FlowInv' /\ UNCHANGED Lifecycle!lifeVars
  <2>1. l \in PCs /\ Active(r)
    BY <1>5 DEF PCs, Active
  <2> QED BY <1>5, <2>1, QuietKeeps
<1>6. CASE WalletPayDebit(r) \/ ApproveCredit(r) \/ WalletPayDebited(r) \/ ApproveCredited(r)
  <2>1. /\ moves("wallet") \/ moves("between")
        /\ pc[r] \in {"checked", "wallet"} /\ op[r] \in {"walletPay", "approveRefund"}
    BY <1>6 DEF WalletPayDebit, ApproveCredit, WalletPayDebited, ApproveCredited
  <2>2. pc'[r] \in {"wallet", "between"} /\ Active(r)
    BY <1>1, <2>1 DEF Active
  <2>3. PigOf[ord[r]] \notin contended => Suits(r)'
    BY <1>2, <2>1, <2>2 DEF Suits
  <2> QED BY <1>5, <2>1, <2>3
<1>7. CASE WalletPayBegin(r) \/ ApproveBegin(r) \/ WxNotifyBegin(r)
  <2>1. /\ moves("tx") /\ pc[r] \in {"checked", "between"}
        /\ snap' = [snap EXCEPT ![r] = [status |-> status[ord[r]], sold |-> sold[PigOf[ord[r]]],
                                        soldOut |-> soldOut[PigOf[ord[r]]]]]
        /\ \/ op[r] = "wxNotify" /\ status[ord[r]] = "pending"
           \/ pc[r] = "between" /\ op[r] \in {"walletPay", "approveRefund"}
    BY <1>1, <1>7 DEF WalletPayBegin, ApproveBegin, WxNotifyBegin, TakeSnapshot
  <2>2. pc'[r] = "tx" /\ Active(r)
    BY <1>1, <2>1 DEF Active
  <2>3. snap'[r] = [status |-> status[ord[r]], sold |-> sold[PigOf[ord[r]]],
                    soldOut |-> soldOut[PigOf[ord[r]]]]
    BY <1>1, <2>1
  <2>4. PigOf[ord[r]] \notin contended => Suits(r)'
    BY <1>2, <2>1, <2>2, <2>3 DEF Suits, PayOps
  <2> QED BY <1>5, <2>1, <2>4
<1>8. CASE \/ WxPrepay(r) \/ WalletPayPoor(r) \/ WxNotifyPaid(r) \/ WxNotifyRefused(r)
           \/ WalletPayFull(r) \/ RollbackCredit(r) \/ RollbackCredited(r) \/ Notify(r)
           \/ WalletFailed(r) \/ RollbackFailed(r) \/ Rejected(r)
  <2>1. PICK l \in {"done", "notify", "rollback", "rollbackTx", "swallowed"} :
          moves(l) /\ (pc[r] = "notify" => l = "done") /\ (pc[r] # "notify" => Active(r))
    BY <1>8 DEF WxPrepay, WalletPayPoor, WxNotifyPaid, WxNotifyRefused, WalletPayFull,
                RollbackCredit, RollbackCredited, Notify, WalletFailed, RollbackFailed,
                Rejected, Active
  <2> QED BY <1>4, <2>1
<1>9. CASE TxFailed(r) \/ Crash(r)
  <2>1. PICK l \in {"done", "rollback", "crashed"} :
          /\ moves(l) /\ (pc[r] = "notify" => l = "crashed") /\ (pc[r] # "notify" => Active(r))
    BY <1>1, <1>9 DEF TxFailed, Crash, Active, DropSnapshot
  <2> QED BY <1>4, <2>1
<1> QED BY <1>6, <1>7, <1>8, <1>9 DEF Quiet, Failure

\* A handler starts with its checks passed.
LEMMA NewRequestStep ==
  ASSUME FlowInv, CoreInv', MoneyInFlight', NEW r \in Requests, NEW o \in Orders, NewRequest(r, o)
  PROVE  FlowInv' /\ [Lifecycle!Next]_(Lifecycle!lifeVars)
<1>1. /\ pc \in [Requests -> PCs] /\ snap \in [Requests -> Snapshots]
      /\ op \in [Requests -> AllOps \cup {"none"}] /\ ord \in [Requests -> Orders \cup {None}]
  BY DEF FlowInv, CoreInv, TypeOK
<1>2. ASSUME NEW k \in AllOps \ {"mockPay"}, Start(r, k, o, "checked"),
             UNCHANGED <<walletVars, Tables, snap>>,
             k \in SimpleOps => status[o] = Required[k],
             k = "walletPay" => status[o] = "pending",
             k = "approveRefund" => status[o] = "refund_pending"
      PROVE  FlowInv' /\ [Lifecycle!Next]_(Lifecycle!lifeVars)
  <2>1. pc'[r] = "checked" /\ op'[r] = k /\ ord'[r] = o
    BY <1>1, <1>2 DEF Start, Goto
  <2>2. UNCHANGED <<status, sold, soldOut, payments, snap>>
    BY <1>2 DEF Tables
  <2>3. Suits(r)'
    BY <1>2, <2>1, <2>2 DEF Suits
  <2> QED BY <1>2, <2>2, <2>3, StartKeeps
<1>3. CASE MockPayBegin(r, o)
  <2>1. /\ Start(r, "mockPay", o, "tx") /\ UNCHANGED <<status, sold, soldOut, payments>>
        /\ status[o] = "pending"
        /\ snap' = [snap EXCEPT ![r] = [status |-> status[o], sold |-> sold[PigOf[o]],
                                        soldOut |-> soldOut[PigOf[o]]]]
    BY <1>3 DEF MockPayBegin, TakeSnapshot, Tables
  <2>2. pc'[r] = "tx" /\ op'[r] = "mockPay" /\ ord'[r] = o
    BY <1>1, <2>1 DEF Start, Goto
  <2>3. \A q \in Requests \ {r} : snap'[q] = snap[q]
    BY <1>1, <2>1
  <2>4. Suits(r)'
    BY <1>1, <2>1, <2>2 DEF Suits
  <2>5. "mockPay" \in AllOps
    BY DEF AllOps, PayOps
  <2> QED BY <2>1, <2>3, <2>4, <2>5, StartKeeps
<1>4. ASSUME NEW k \in SimpleOps, LoadSimple(r, k, o)
      PROVE  FlowInv' /\ [Lifecycle!Next]_(Lifecycle!lifeVars)
  <2>1. k \in AllOps \ {"mockPay"} /\ k # "walletPay" /\ k # "approveRefund"
    BY DEF AllOps, SimpleOps
  <2> QED BY <1>2, <1>4, <2>1 DEF LoadSimple
<1>5. CASE WalletPayLoad(r, o) \/ ApproveLoad(r, o) \/ WxPrepayLoad(r, o) \/ WxNotifyLoad(r, o)
  BY <1>2, <1>5
  DEF WalletPayLoad, ApproveLoad, WxPrepayLoad, WxNotifyLoad, AllOps, PayOps, SimpleOps
<1> QED BY <1>3, <1>4, <1>5 DEF NewRequest

\* Every step of OrderFlow keeps the invariant and is a step or a stutter of the life cycle.
LEMMA FlowStep ==
  FlowInv /\ CoreInv' /\ MoneyInFlight' /\ [Next]_vars
    => FlowInv' /\ [Lifecycle!Next]_(Lifecycle!lifeVars)
<1> SUFFICES ASSUME FlowInv, CoreInv', MoneyInFlight', [Next]_vars
             PROVE  FlowInv' /\ [Lifecycle!Next]_(Lifecycle!lifeVars)
  OBVIOUS
<1>1. ASSUME UNCHANGED <<status, sold, soldOut, payments, pc, op, ord, snap, contended>>
      PROVE  FlowInv' /\ UNCHANGED Lifecycle!lifeVars
  <2>1. LoneHandler' /\ ChecksHold' /\ IsFiniteSet(payments')
    BY <1>1 DEF FlowInv, LoneHandler, ChecksHold, Suits, Active
  <2>2. InventoryExact' /\ HoldersFinite'
    BY <1>1, InventoryKept DEF FlowInv, Lifecycle!Holders
  <2>3. UNCHANGED Lifecycle!lifeVars
    BY <1>1 DEF Lifecycle!lifeVars, Bookings
  <2> QED BY <2>1, <2>2, <2>3 DEF FlowInv
<1>2. ASSUME NEW o \in Orders, CreateOrder(o) \/ WxUserPays(o)
      PROVE  FlowInv' /\ [Lifecycle!Next]_(Lifecycle!lifeVars)
  <2>1. CASE CreateOrder(o)
    BY <2>1, CreateKeeps
  <2>2. CASE WxUserPays(o)
    BY <1>1, <2>2 DEF WxUserPays
  <2> QED BY <1>2, <2>1, <2>2
<1>3. ASSUME NEW r \in Requests, NEW o \in Orders, NewRequest(r, o)
      PROVE  FlowInv' /\ [Lifecycle!Next]_(Lifecycle!lifeVars)
  BY <1>3, NewRequestStep
<1>4. ASSUME NEW r \in Requests, HandlerStep(r) \/ Failure(r)
      PROVE  FlowInv' /\ [Lifecycle!Next]_(Lifecycle!lifeVars)
  <2>1. CASE SaveStatus(r)
    BY <2>1, SaveStatusKeeps
  <2>2. CASE PayCommit(r)
    BY <2>2, PayCommitKeeps
  <2>3. CASE ApproveCommit(r)
    BY <2>3, ApproveCommitKeeps
  <2>4. CASE Quiet(r)
    BY <2>4, QuietStep
  <2> QED BY <1>4, <2>1, <2>2, <2>3, <2>4 DEF HandlerStep, Quiet
<1>5. CASE UNCHANGED vars
  BY <1>1, <1>5 DEF vars, orderVars
<1> QED BY <1>2, <1>3, <1>4, <1>5 DEF Next

\* No order, no handler and no share to begin with.
LEMMA FlowInit == Init => FlowInv /\ Lifecycle!Init
<1> SUFFICES ASSUME Init PROVE FlowInv /\ Lifecycle!Init
  OBVIOUS
<1>1. CoreInv /\ MoneyInFlight
  BY CoreInit, MoneyInit
<1>2. LoneHandler /\ ChecksHold
  BY DEF Init, LoneHandler, ChecksHold, Active
<1>3. IsFiniteSet(payments) /\ Cardinality({}) = 0
  BY FS_EmptySet DEF Init
<1>4. \A p \in Pigs : Counted(p)
  <2> SUFFICES ASSUME NEW p \in Pigs PROVE Counted(p)
    OBVIOUS
  <2>1. Lifecycle!Holders(p) = {}
    BY DEF Init, Lifecycle!Holders, Lifecycle!Holding
  <2>2. Lifecycle!Units({}) = {}
    BY DEF Lifecycle!Units
  <2>3. sold[p] = 0 /\ soldOut[p] = FALSE /\ Total[p] # 0
    BY OrderAssumption DEF Init
  <2> QED BY <1>3, <2>1, <2>2, <2>3, FS_EmptySet DEF Counted
<1>5. Lifecycle!Init
  <2>1. \A o \in Orders : {y \in payments : y.order = o} = {}
    BY DEF Init
  <2>2. Bookings = [o \in Orders |-> 0]
    BY <1>3, <2>1 DEF Bookings
  <2> QED BY <2>2 DEF Init, Lifecycle!Init
<1> QED BY <1>1, <1>2, <1>3, <1>4, <1>5, CountedIsExact DEF FlowInv

\* The invariant holds in every state of OrderFlow.
LEMMA FlowInvariance == Spec => []FlowInv
<1>1. FlowInv => CoreInv /\ MoneyInFlight
  BY DEF FlowInv
<1> QED BY <1>1, FlowInit, FlowStep, CoreStep, MoneyStep, PTL DEF Spec

\* As long as no two handlers are active on a pig, its sold_shares are the shares that its
\* paid orders hold and it is sold out exactly when none is left (order.service.ts).
THEOREM InventoryIsExact == Spec => []InventoryExact
<1>1. FlowInv => InventoryExact
  BY DEF FlowInv
<1> QED BY <1>1, FlowInvariance, PTL

\* The two-step handlers with their separate wallet transactions, failures, retries and
\* crashes implement the single steps of the life cycle.
THEOREM FlowImplementsLifecycle == Spec => LifecycleSpec
<1>1. FlowInv => CoreInv /\ MoneyInFlight
  BY DEF FlowInv
<1> QED
  BY <1>1, FlowInit, FlowStep, FlowInvariance, CoreStep, MoneyStep, PTL
  DEF Spec, LifecycleSpec, Lifecycle!Spec

=============================================================================
