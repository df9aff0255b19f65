---------------------------- MODULE OrderClaims -----------------------------
(* What comments, tests and documents of the repository say of orders and  *)
(* payments, and what OrderFlow shows the code not to guarantee.           *)
EXTENDS OrderFlow, FiniteSetsExt

\* test/order.e2e-spec.ts:239, "a paid order cannot be paid again".
PaidOnlyOnce == \A x, y \in payments : x.order = y.order => x = y

\* order.service.ts:51, "sold_shares is incremented when the payment succeeds":
\* the shares of all paid orders are counted.
SharesCounted ==
  \A p \in Pigs :
    sold[p] = MapThenSumSet(LAMBDA o : Shares[o],
                {o \in Orders : PigOf[o] = p /\ status[o] \in
                                  {"paid", "shipped", "delivered", "refund_pending"}})

\* order.service.ts:344, "the administrator approves the refund
\* (REFUND_PENDING -> REFUNDED) and the money goes back to the wallet": once.
RefundedOnlyOnce ==
  \A d, e \in ledger : d.kind = "refund" /\ e.kind = "refund" /\ d.order = e.order => d = e
=============================================================================
