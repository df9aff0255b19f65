------------------------------ MODULE OrderFlow ------------------------------
(***************************************************************************)
(* Orders, payments and share inventory: order.service.ts and              *)
(* pay.service.ts of backend/src/modules, over the wallet of module        *)
(* Wallet.                                                                 *)
(*                                                                         *)
(* Each HTTP request (or operator call) is a process.  Its handler is cut  *)
(* at every await after which another request can have changed what it     *)
(* read: the findOne that checks the order, the wallet transaction, the    *)
(* business transaction and the message.  A business transaction reads at  *)
(* REPEATABLE READ (...Begin takes the snapshot) and TypeORM's save        *)
(* UPDATEs the columns that differ from that snapshot with absolute        *)
(* values; the row locks are held until COMMIT, so all writes of a         *)
(* transaction are one step (...Commit).                                   *)
(*                                                                         *)
(* A request whose check fails throws before it wrote anything: not a      *)
(* step.  Requests are used once, so that the rows a request inserted are  *)
(* identified by it.                                                       *)
(***************************************************************************)
EXTENDS Wallet, FiniteSets

CONSTANTS
  Orders, Pigs,
  PigOf,        \* the pig of each order
  Owner,        \* the user of each order
  Shares,       \* shares_count of each order
  Price,        \* total_price of each order
  Total,        \* total_shares of each pig
  Ops,          \* the operations that requests perform in this instance
  MaxInFlight,  \* bound: requests being handled at the same time
  None          \* "no order"

SimpleOps == {"cancel", "requestRefund", "markShipped", "confirmReceived"}
PayOps == {"walletPay", "mockPay", "wxNotify"}
AllOps == SimpleOps \cup PayOps \cup {"wxPrepay", "approveRefund"}

ASSUME OrderAssumption ==
  /\ PigOf \in [Orders -> Pigs]
  /\ Owner \in [Orders -> Users]
  /\ Shares \in [Orders -> Nat \ {0}]
  /\ Price \in [Orders -> Amounts]
  /\ Total \in [Pigs -> Nat \ {0}]
  /\ Ops \subseteq AllOps
  /\ MaxInFlight \in Nat
  /\ None \notin Orders

VARIABLES
  status,       \* orders.status, "none" before the order exists
  sold,         \* pigs.sold_shares
  soldOut,      \* pigs.status: TRUE is sold_out, FALSE is listed
  payments,     \* order_payments rows in status success
  ledger,       \* wallet_transactions rows: which request wrote them, for what
  messages,     \* messages rows about orders
  wx,           \* WeChat's side of the order: "none", "prepaid" or "paid"
  pc, op, ord,  \* per request: where its handler is, what it does, to which order
  snap,         \* per request: what its open business transaction read
  contended     \* history: pigs on whose orders two handlers were active together

orderVars == <<status, sold, soldOut, payments, ledger, messages, wx,
               pc, op, ord, snap, contended>>
vars == <<walletVars, orderVars>>

Statuses == {"none", "pending", "paid", "shipped", "delivered",
             "cancelled", "refund_pending", "refunded"}
PCs == {"idle", "checked", "wallet", "between", "tx", "rollback", "rollbackTx",
        "notify", "done", "crashed", "swallowed"}
Payments == [req: Requests, order: Orders, channel: PayOps]
LedgerRows == [req: Requests, order: Orders, kind: {"pay", "rollback", "refund"}]
Messages == [req: Requests, order: Orders, type: AllOps]
Snapshots == [status: Statuses, sold: Nat, soldOut: BOOLEAN]

NoSnap == [status |-> "none", sold |-> 0, soldOut |-> FALSE]

Init ==
  /\ WalletInit
  /\ status = [o \in Orders |-> "none"]
  /\ sold = [p \in Pigs |-> 0]
  /\ soldOut = [p \in Pigs |-> FALSE]
  /\ payments = {}
  /\ ledger = {}
  /\ messages = {}
  /\ wx = [o \in Orders |-> "none"]
  /\ pc = [r \in Requests |-> "idle"]
  /\ op = [r \in Requests |-> "none"]
  /\ ord = [r \in Requests |-> None]
  /\ snap = [r \in Requests |-> NoSnap]
  /\ contended = {}

(***************************************************************************)
(* Handlers.                                                               *)
(***************************************************************************)

\* Between its first read and its last write of the tables.
Active(r) == pc[r] \notin {"idle", "notify", "done", "crashed", "swallowed"}

Goto(r, l) == pc' = [pc EXCEPT ![r] = l]

\* The handler of operation k on order o passes its first checks.
Start(r, k, o, l) ==
  /\ pc[r] = "idle"
  /\ k \in Ops
  /\ Cardinality({q \in Requests : Active(q) \/ pc[q] = "notify"}) < MaxInFlight
  /\ Goto(r, l)
  /\ op' = [op EXCEPT ![r] = k]
  /\ ord' = [ord EXCEPT ![r] = o]
  /\ contended' = IF \E q \in Requests : Active(q) /\ PigOf[ord[q]] = PigOf[o]
                    THEN contended \cup {PigOf[o]}
                    ELSE contended

At(r, k, l) == pc[r] = l /\ op[r] = k

Step(r, l) == Goto(r, l) /\ UNCHANGED <<op, ord, contended>>

Tables == <<status, sold, soldOut, payments, ledger, messages, wx>>

\* The share check of create and of every payment, on a sold_shares of s.
PigFullOffByOne(o, s) == s + Shares[o] > Total[PigOf[o]] + 1   \* mutant
PigFull(o, s) == s + Shares[o] > Total[PigOf[o]]

(***************************************************************************)
(* create: the pig is listed and has the shares; nothing is reserved.  The *)
(* order may exist by the time the pig is full, as it may after any        *)
(* payment that follows.                                                   *)
(***************************************************************************)
CreateOrder(o) ==
  /\ status[o] = "none"
  /\ ~soldOut[PigOf[o]]
  /\ ~PigFull(o, sold[PigOf[o]])
  /\ status' = [status EXCEPT ![o] = "pending"]
  /\ UNCHANGED <<walletVars, sold, soldOut, payments, ledger, messages, wx,
                 pc, op, ord, snap, contended>>

(***************************************************************************)
(* The operations that check the status, set the next one and save.        *)
(***************************************************************************)
RequiredShipsUnpaid ==                                         \* mutant
  [cancel |-> "pending", requestRefund |-> "paid",
   markShipped |-> "pending", confirmReceived |-> "shipped"]
RequiredCancelsPaid ==                                         \* mutant
  [cancel |-> "paid", requestRefund |-> "paid",
   markShipped |-> "paid", confirmReceived |-> "shipped"]
Required == [cancel |-> "pending", requestRefund |-> "paid",
             markShipped |-> "paid", confirmReceived |-> "shipped"]
Result == [cancel |-> "cancelled", requestRefund |-> "refund_pending",
           markShipped |-> "shipped", confirmReceived |-> "delivered"]

LoadSimple(r, k, o) ==
  /\ status[o] = Required[k]
  /\ Start(r, k, o, "checked")
  /\ UNCHANGED <<walletVars, Tables, snap>>

\* save UPDATEs the row by its id, whatever its status is by now.
SaveStatus(r) ==
  /\ pc[r] = "checked" /\ op[r] \in SimpleOps
  /\ status' = [status EXCEPT ![ord[r]] = Result[op[r]]]
  /\ Step(r, "notify")
  /\ UNCHANGED <<walletVars, sold, soldOut, payments, ledger, messages, wx, snap>>

(***************************************************************************)
(* payByWallet and approveRefund: a wallet transaction, then the business  *)
(* transaction.                                                            *)
(***************************************************************************)
WalletPayLoad(r, o) ==
  /\ status[o] = "pending"
  /\ Start(r, "walletPay", o, "checked")
  /\ UNCHANGED <<walletVars, Tables, snap>>

\* ensureWallet may create the row; without enough money the request ends there.
WalletPayPoor(r) ==
  /\ At(r, "walletPay", "checked")
  /\ balance[Owner[ord[r]]] < Price[ord[r]]
  /\ EnsureWallet(Owner[ord[r]])
  /\ Step(r, "done")
  /\ UNCHANGED <<Tables, snap>>

\* The friendly check passes (so the row exists) and debit begins.  The friendly
\* check and the one in debit are one here: what passes the first and not the
\* second is a rejection too.
WalletPayDebit(r) ==
  /\ At(r, "walletPay", "checked")
  /\ BeginDebit(r, Owner[ord[r]], Price[ord[r]])
  /\ Step(r, "wallet")
  /\ UNCHANGED <<Tables, snap>>

WalletPayDebited(r) ==
  /\ At(r, "walletPay", "wallet")
  /\ \E t \in wtx : t.req = r /\ CommitDebit(t)
  /\ ledger' = ledger \cup {[req |-> r, order |-> ord[r], kind |-> "pay"]}
  /\ Step(r, "between")
  /\ UNCHANGED <<status, sold, soldOut, payments, messages, wx, snap>>

ApproveLoad(r, o) ==
  /\ status[o] = "refund_pending"
  /\ Start(r, "approveRefund", o, "checked")
  /\ UNCHANGED <<walletVars, Tables, snap>>

ApproveCredit(r) ==
  /\ At(r, "approveRefund", "checked")
  /\ BeginCredit(r, Owner[ord[r]], Price[ord[r]])
  /\ Step(r, "wallet")
  /\ UNCHANGED <<Tables, snap>>

ApproveCredited(r) ==
  /\ At(r, "approveRefund", "wallet")
  /\ \E t \in wtx : t.req = r /\ CommitCredit(t)
  /\ ledger' = ledger \cup {[req |-> r, order |-> ord[r], kind |-> "refund"]}
  /\ Step(r, "between")
  /\ UNCHANGED <<status, sold, soldOut, payments, messages, wx, snap>>

\* A wallet transaction that fails ends the request with an error.
WalletFailed(r) ==
  /\ pc[r] = "wallet"
  /\ \E t \in wtx : t.req = r /\ AbortTx(t)
  /\ Step(r, "done")
  /\ UNCHANGED <<Tables, snap>>

(***************************************************************************)
(* wxPrepay, the user's payment at WeChat, and the first look of wxNotify. *)
(* WeChat accepts one payment per out_trade_no, the order id, and has one  *)
(* transaction id for it; it delivers the notification any number of times.*)
(***************************************************************************)
WxPrepayLoad(r, o) ==
  /\ status[o] = "pending"
  /\ Start(r, "wxPrepay", o, "checked")
  /\ UNCHANGED <<walletVars, Tables, snap>>

\* WeChat registers the order; the pending payment row inserted next is never
\* read.
WxPrepay(r) ==
  /\ At(r, "wxPrepay", "checked")
  /\ wx' = [wx EXCEPT ![ord[r]] = IF @ = "none" THEN "prepaid" ELSE @]
  /\ Step(r, "done")
  /\ UNCHANGED <<walletVars, status, sold, soldOut, payments, ledger, messages, snap>>

WxUserPays(o) ==
  /\ wx[o] = "prepaid"
  /\ wx' = [wx EXCEPT ![o] = "paid"]
  /\ UNCHANGED <<walletVars, status, sold, soldOut, payments, ledger, messages,
                 pc, op, ord, snap, contended>>

WxNeverBooked(o) == FALSE                                      \* mutant
WxBooked(o) == \E y \in payments : y.order = o /\ y.channel = "wxNotify"

\* The lookup by transaction id, before the transaction.
WxNotifyLoad(r, o) ==
  /\ wx[o] = "paid"
  /\ ~WxBooked(o)
  /\ Start(r, "wxNotify", o, "checked")
  /\ UNCHANGED <<walletVars, Tables, snap>>

(***************************************************************************)
(* Business transactions.                                                  *)
(***************************************************************************)
TakeSnapshot(r, o) ==
  snap' = [snap EXCEPT ![r] = [status |-> status[o], sold |-> sold[PigOf[o]],
                               soldOut |-> soldOut[PigOf[o]]]]

DropSnapshot(r) == snap' = [snap EXCEPT ![r] = NoSnap]

\* payByWallet checks the shares again, not the status.
WalletPayBegin(r) ==
  /\ At(r, "walletPay", "between")
  /\ ~PigFull(ord[r], sold[PigOf[ord[r]]])
  /\ TakeSnapshot(r, ord[r])
  /\ Step(r, "tx")
  /\ UNCHANGED <<walletVars, Tables>>

WalletPayFull(r) ==
  /\ At(r, "walletPay", "between")
  /\ PigFull(ord[r], sold[PigOf[ord[r]]])
  /\ Step(r, "rollback")
  /\ UNCHANGED <<walletVars, Tables, snap>>

\* mockPay makes all its checks inside its one transaction.
MockPayBegin(r, o) ==
  /\ status[o] = "pending"
  /\ ~PigFull(o, sold[PigOf[o]])
  /\ Start(r, "mockPay", o, "tx")
  /\ TakeSnapshot(r, o)
  /\ UNCHANGED <<walletVars, Tables>>

WxNotifyBegin(r) ==
  /\ At(r, "wxNotify", "checked")
  /\ status[ord[r]] = "pending"
  /\ ~PigFull(ord[r], sold[PigOf[ord[r]]])
  /\ TakeSnapshot(r, ord[r])
  /\ Step(r, "tx")
  /\ UNCHANGED <<walletVars, Tables>>

WxNotifyTellsRefused(r) ==                                     \* mutant
  /\ At(r, "wxNotify", "checked")
  /\ status[ord[r]] # "pending"
  /\ Step(r, "notify")
  /\ UNCHANGED <<walletVars, Tables, snap>>

\* Already paid: WeChat is told SUCCESS, nothing is booked, the user is told.
WxNotifyPaid(r) ==
  /\ At(r, "wxNotify", "checked")
  /\ status[ord[r]] = "paid"
  /\ Step(r, "notify")
  /\ UNCHANGED <<walletVars, Tables, snap>>

\* Neither pending nor paid, or no shares left: 400, and WeChat tries again.
WxNotifyRefused(r) ==
  /\ At(r, "wxNotify", "checked")
  /\ status[ord[r]] # "paid"
  /\ status[ord[r]] = "pending" => PigFull(ord[r], sold[PigOf[ord[r]]])
  /\ Step(r, "done")
  /\ UNCHANGED <<walletVars, Tables, snap>>

\* The unique index on transaction_id stops a second booking of a WeChat payment.
PayCommit(r) ==
  LET o == ord[r]
      p == PigOf[o]
      s == snap[r]
  IN /\ pc[r] = "tx" /\ op[r] \in PayOps
     /\ op[r] = "wxNotify" => ~WxBooked(o)
     /\ status' = IF s.status = "paid" THEN status
                                       ELSE [status EXCEPT ![o] = "paid"]
     /\ sold' = [sold EXCEPT ![p] = s.sold + Shares[o]]
     /\ soldOut' = IF s.sold + Shares[o] >= Total[p] /\ ~s.soldOut
                     THEN [soldOut EXCEPT ![p] = TRUE] ELSE soldOut
     /\ payments' = payments \cup {[req |-> r, order |-> o, channel |-> op[r]]}
     /\ DropSnapshot(r)
     /\ Step(r, "notify")
     /\ UNCHANGED <<walletVars, ledger, messages, wx>>

ApproveBeforeCredit(r) ==                                      \* mutant
  /\ At(r, "approveRefund", "checked")
  /\ TakeSnapshot(r, ord[r])
  /\ Step(r, "tx")
  /\ UNCHANGED <<walletVars, Tables>>

ApproveBegin(r) ==
  /\ At(r, "approveRefund", "between")
  /\ TakeSnapshot(r, ord[r])
  /\ Step(r, "tx")
  /\ UNCHANGED <<walletVars, Tables>>

SharesKept(s, n) == s                                          \* mutant
SharesAfterRefund(s, n) == IF s > n THEN s - n ELSE 0

ApproveCommit(r) ==
  LET o == ord[r]
      p == PigOf[o]
      s == snap[r]
      left == SharesAfterRefund(s.sold, Shares[o])
  IN /\ At(r, "approveRefund", "tx")
     /\ status' = IF s.status = "refunded" THEN status
                                           ELSE [status EXCEPT ![o] = "refunded"]
     /\ sold' = IF left = s.sold THEN sold ELSE [sold EXCEPT ![p] = left]
     /\ soldOut' = IF s.soldOut /\ left < Total[p]
                     THEN [soldOut EXCEPT ![p] = FALSE] ELSE soldOut
     /\ DropSnapshot(r)
     /\ Step(r, "notify")
     /\ UNCHANGED <<walletVars, payments, ledger, messages, wx>>

TxFailedKeepsMoney(r) ==                                       \* mutant
  /\ pc[r] \in {"between", "tx"}
  /\ DropSnapshot(r)
  /\ Step(r, "done")
  /\ UNCHANGED <<walletVars, Tables>>

\* Deadlock (payments lock order then pig, refunds pig then order), duplicate
\* key, lock timeout, lost connection: payByWallet compensates, the others throw.
TxFailed(r) ==
  /\ pc[r] \in {"between", "tx"}
  /\ DropSnapshot(r)
  /\ Step(r, IF op[r] = "walletPay" THEN "rollback" ELSE "done")
  /\ UNCHANGED <<walletVars, Tables>>

(***************************************************************************)
(* The compensation of payByWallet; its own failure is swallowed.          *)
(***************************************************************************)
RollbackCredit(r) ==
  /\ pc[r] = "rollback"
  /\ BeginCredit(r, Owner[ord[r]], Price[ord[r]])
  /\ Step(r, "rollbackTx")
  /\ UNCHANGED <<Tables, snap>>

RollbackCredited(r) ==
  /\ pc[r] = "rollbackTx"
  /\ \E t \in wtx : t.req = r /\ CommitCredit(t)
  /\ ledger' = ledger \cup {[req |-> r, order |-> ord[r], kind |-> "rollback"]}
  /\ Step(r, "done")
  /\ UNCHANGED <<status, sold, soldOut, payments, messages, wx, snap>>

RollbackFailed(r) ==
  /\ pc[r] = "rollbackTx"
  /\ \E t \in wtx : t.req = r /\ AbortTx(t)
  /\ Step(r, "swallowed")
  /\ UNCHANGED <<Tables, snap>>

(***************************************************************************)
(* Messages, errors and crashes.                                           *)
(***************************************************************************)

\* notify never throws: the row may be missing.
Notify(r) ==
  /\ pc[r] = "notify"
  /\ messages' \in {messages, messages \cup {[req |-> r, order |-> ord[r], type |-> op[r]]}}
  /\ Step(r, "done")
  /\ UNCHANGED <<walletVars, status, sold, soldOut, payments, ledger, wx, snap>>

\* A database or WeChat call fails before anything was written.
Rejected(r) ==
  /\ pc[r] = "checked"
  /\ Step(r, "done")
  /\ UNCHANGED <<walletVars, Tables, snap>>

\* The process exits: MySQL rolls the request's open transaction back.
Crash(r) ==
  /\ Active(r) \/ pc[r] = "notify"
  /\ wtx' = {t \in wtx : t.req # r}
  /\ DropSnapshot(r)
  /\ Step(r, "crashed")
  /\ UNCHANGED <<hasRow, balance, credited, debited, overlapped, Tables>>

HandlerStep(r) ==
  \/ SaveStatus(r) \/ WxPrepay(r)
  \/ WalletPayPoor(r) \/ WalletPayDebit(r) \/ WalletPayDebited(r)
  \/ WalletPayBegin(r) \/ WalletPayFull(r)
  \/ ApproveCredit(r) \/ ApproveCredited(r) \/ ApproveBegin(r) \/ ApproveCommit(r)
  \/ WxNotifyBegin(r) \/ WxNotifyPaid(r) \/ WxNotifyRefused(r)
  \/ PayCommit(r)
  \/ RollbackCredit(r) \/ RollbackCredited(r)
  \/ Notify(r)

Failure(r) ==
  \/ WalletFailed(r) \/ TxFailed(r) \/ RollbackFailed(r) \/ Rejected(r) \/ Crash(r)

NewRequest(r, o) ==
  \/ \E k \in SimpleOps : LoadSimple(r, k, o)
  \/ WalletPayLoad(r, o) \/ ApproveLoad(r, o) \/ MockPayBegin(r, o)
  \/ WxPrepayLoad(r, o) \/ WxNotifyLoad(r, o)

Next ==
  \/ \E o \in Orders : CreateOrder(o) \/ WxUserPays(o)
  \/ \E r \in Requests, o \in Orders : NewRequest(r, o)
  \/ \E r \in Requests : HandlerStep(r) \/ Failure(r)

Spec == Init /\ [][Next]_vars

(***************************************************************************)
(* Properties that hold whatever interleaves, fails or crashes.            *)
(***************************************************************************)

\* Every variable holds values of its column or of its place in a handler.
TypeOK ==
  /\ WalletTypeOK
  /\ status \in [Orders -> Statuses]
  /\ sold \in [Pigs -> Int]
  /\ soldOut \in [Pigs -> BOOLEAN]
  /\ payments \subseteq Payments
  /\ ledger \subseteq LedgerRows
  /\ messages \subseteq Messages
  /\ wx \in [Orders -> {"none", "prepaid", "paid"}]
  /\ pc \in [Requests -> PCs]
  /\ op \in [Requests -> AllOps \cup {"none"}]
  /\ ord \in [Requests -> Orders \cup {None}]
  /\ snap \in [Requests -> Snapshots]
  /\ contended \subseteq Pigs

\* sold_shares stays within 0..total_shares although every transaction writes it
\* from a snapshot: the share check and the write use the same one, and refunds
\* stop at 0.
SoldWithinTotal == \A p \in Pigs : 0 <= sold[p] /\ sold[p] <= Total[p]

PaidFor(o) == \E y \in payments : y.order = o

\* No interleaving gets an order shipped, delivered or into the refund branch
\* that nobody paid for: there is a success row in order_payments.
FulfilledIsPaid ==
  \A o \in Orders :
    status[o] \in {"paid", "shipped", "delivered", "refund_pending", "refunded"} => PaidFor(o)

\* An order only becomes refunded after the refund reached the wallet, and money
\* is only refunded for an order that was paid.
RefundedIsCredited ==
  \A o \in Orders :
    /\ status[o] = "refunded" => \E e \in ledger : e.order = o /\ e.kind = "refund"
    /\ (\E e \in ledger : e.order = o /\ e.kind = "refund") => PaidFor(o)

DebitedBy(r) == \E e \in ledger : e.req = r /\ e.kind = "pay"
ReturnedBy(r) == \E e \in ledger : e.req = r /\ e.kind = "rollback"
BookedBy(r) == \E y \in payments : y.req = r

\* A payByWallet request that took money has, once it is over, either booked the
\* payment or returned the money, never both; the exceptions are a crash and the
\* swallowed failure of the compensation.
WalletPayAccounted ==
  \A r \in Requests :
    /\ ReturnedBy(r) => DebitedBy(r) /\ ~BookedBy(r)
    /\ DebitedBy(r) /\ pc[r] = "done" => BookedBy(r) \/ ReturnedBy(r)

\* A WeChat payment is booked at most once however often, and however
\* concurrently, its notification is delivered.
WxBookedOnce ==
  \A x, y \in payments :
    x.channel = "wxNotify" /\ y.channel = "wxNotify" /\ x.order = y.order => x = y

\* Nobody is told of a payment or of a refund that did not happen: a message
\* about either has its row in order_payments or wallet_transactions.
MessageTruthful ==
  \A m \in messages :
    /\ m.type \in PayOps => PaidFor(m.order)
    /\ m.type = "approveRefund" =>
         \E e \in ledger : e.req = m.req /\ e.order = m.order /\ e.kind = "refund"
=============================================================================
