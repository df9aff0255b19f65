------------------------------- MODULE Wallet -------------------------------
(***************************************************************************)
(* The wallet of backend/src/modules/wallet/wallet.service.ts: one wallets *)
(* row per user and the wallet_transactions ledger.                        *)
(*                                                                         *)
(* credit and debit each run in a database transaction of their own, on    *)
(* one of two PM2 instances, at MySQL's default REPEATABLE READ: the row   *)
(* is READ from the transaction's snapshot (Begin...) and the new balance, *)
(* computed in JavaScript, is WRITTEN as an absolute value (Commit...).    *)
(* The row lock taken by the UPDATE is held until COMMIT, so the write and *)
(* the commit are one step; nothing ties the read to the write.            *)
(*                                                                         *)
(* Amounts are in fen.  A request that fails a check has no effect and is  *)
(* not a step.                                                             *)
(***************************************************************************)
EXTENDS Integers

CONSTANTS
  Users,        \* account holders
  Requests,     \* concurrent handlers, each with at most one wallet transaction
  Amounts,      \* amounts that credit and debit are called with
  Opening,      \* balance of each user at the start, all of it credited before
  MaxCredited   \* bound: no credit starts that would take a user's credits past it

ASSUME WalletAssumption ==
  /\ Amounts \subseteq Nat \ {0}
  /\ Opening \in [Users -> Nat]
  /\ MaxCredited \in Nat

VARIABLES
  hasRow,       \* a wallets row exists for the user (user_id is unique)
  balance,      \* its committed balance column, 0 without a row
  credited,     \* sum of the user's committed IN rows in wallet_transactions
  debited,      \* sum of the user's committed OUT rows
  wtx,          \* the open credit and debit transactions
  overlapped    \* history: users two of whose transactions were open together

walletVars == <<hasRow, balance, credited, debited, wtx, overlapped>>

\* found and snap are what the transaction's first SELECT saw.
OpenTx == [req: Requests, user: Users, dir: {"in", "out"}, amount: Amounts,
           found: BOOLEAN, snap: Nat]

WalletInit ==
  /\ hasRow = [u \in Users |-> Opening[u] > 0]
  /\ balance = Opening
  /\ credited = Opening
  /\ debited = [u \in Users |-> 0]
  /\ wtx = {}
  /\ overlapped = {}

(***************************************************************************)
(* Reading.                                                                *)
(***************************************************************************)

\* ensureWallet: the insert of a concurrent call makes this one's INSERT fail
\* on the unique index; either way the row exists afterwards.
EnsureWallet(u) ==
  /\ hasRow' = [hasRow EXCEPT ![u] = TRUE]
  /\ UNCHANGED <<balance, credited, debited, wtx, overlapped>>

\* The SELECT that fixes the snapshot of a transaction of request r.
BeginTx(r, u, d, a) ==
  /\ \A t \in wtx : t.req # r
  /\ wtx' = wtx \cup {[req |-> r, user |-> u, dir |-> d, amount |-> a,
                       found |-> hasRow[u], snap |-> balance[u]]}
  /\ overlapped' = IF \E t \in wtx : t.user = u THEN overlapped \cup {u}
                                                ELSE overlapped
  /\ UNCHANGED <<balance, credited, debited>>

BeginCredit(r, u, a) ==
  /\ BeginTx(r, u, "in", a)
  /\ UNCHANGED hasRow

BeginDebitUnchecked(r, u, a) ==                                \* mutant
  /\ BeginTx(r, u, "out", a)
  /\ UNCHANGED hasRow

\* The balance check of debit is made on the snapshot.
BeginDebit(r, u, a) ==
  /\ a <= balance[u]
  /\ BeginTx(r, u, "out", a)
  /\ UNCHANGED hasRow

(***************************************************************************)
(* Writing: INSERT of a missing row, UPDATE, INSERT of the ledger row,     *)
(* COMMIT.  When the row was missing from the snapshot and exists by now,  *)
(* the INSERT violates the unique index on user_id: only AbortTx is left.  *)
(***************************************************************************)

CanWriteRow(t) == t.found \/ ~hasRow[t.user]

CommitCredit(t) ==
  /\ t \in wtx /\ t.dir = "in"
  /\ CanWriteRow(t)
  /\ hasRow' = [hasRow EXCEPT ![t.user] = TRUE]
  /\ balance' = [balance EXCEPT ![t.user] = t.snap + t.amount]
  /\ credited' = [credited EXCEPT ![t.user] = @ + t.amount]
  /\ wtx' = wtx \ {t}
  /\ UNCHANGED <<debited, overlapped>>

CommitDebit(t) ==
  /\ t \in wtx /\ t.dir = "out"
  /\ CanWriteRow(t)
  /\ hasRow' = [hasRow EXCEPT ![t.user] = TRUE]
  /\ balance' = [balance EXCEPT ![t.user] = t.snap - t.amount]
  /\ debited' = [debited EXCEPT ![t.user] = @ + t.amount]
  /\ wtx' = wtx \ {t}
  /\ UNCHANGED <<credited, overlapped>>

AbortTxKeepsBalance(t) ==                                      \* mutant
  /\ t \in wtx
  /\ balance' = [balance EXCEPT ![t.user] =
                   IF t.dir = "in" THEN t.snap + t.amount ELSE t.snap - t.amount]
  /\ wtx' = wtx \ {t}
  /\ UNCHANGED <<hasRow, credited, debited, overlapped>>

\* Rollback: duplicate key, lock wait timeout, lost connection or process exit.
AbortTx(t) ==
  /\ t \in wtx
  /\ wtx' = wtx \ {t}
  /\ UNCHANGED <<hasRow, balance, credited, debited, overlapped>>

WalletNext ==
  \/ \E u \in Users : EnsureWallet(u)
  \/ \E r \in Requests, u \in Users, a \in Amounts :
       credited[u] + a <= MaxCredited /\ BeginCredit(r, u, a)
  \/ \E r \in Requests, u \in Users, a \in Amounts : BeginDebit(r, u, a)
  \/ \E t \in wtx : CommitCredit(t)
  \/ \E t \in wtx : CommitDebit(t)
  \/ \E t \in wtx : AbortTx(t)

WalletSpec == WalletInit /\ [][WalletNext]_walletVars

(***************************************************************************)
(* Properties.                                                             *)
(***************************************************************************)

\* Every variable holds a value of its column; debits and credits only count up.
WalletTypeOK ==
  /\ hasRow \in [Users -> BOOLEAN]
  /\ balance \in [Users -> Int]
  /\ credited \in [Users -> Nat]
  /\ debited \in [Users -> Nat]
  /\ wtx \subseteq OpenTx
  /\ overlapped \subseteq Users

\* However credits and debits of one user interleave, the balance never goes
\* negative and never exceeds what was ever credited: a stale write can lose a
\* movement but cannot create money out of a debit (credit and debit check and
\* compute on one snapshot).
BalanceBacked == \A u \in Users : 0 <= balance[u] /\ balance[u] <= credited[u]

\* A wallet whose transactions never ran at the same time reconciles with its
\* ledger, through any number of aborted transactions and of first credits that
\* create the row: this is how far credit and debit are exact.
LedgerExact ==
  \A u \in Users : u \notin overlapped => balance[u] = credited[u] - debited[u]

\* docs/03-backend/database.md:271 wants a version column or SELECT FOR UPDATE
\* around every change of the balance, which is what would make the balance
\* agree with the ledger at all times.  The code has neither.
BalanceMatchesLedger == \A u \in Users : balance[u] = credited[u] - debited[u]
=============================================================================
