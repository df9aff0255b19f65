------------------------------ MODULE OrderRows ------------------------------
(***************************************************************************)
(* The rows of a buyer's orders as the pages of the buyer's program see    *)
(* them: which of its requests the backend accepts in which status, and    *)
(* what they write.  Module OrderFlow has the handlers in full.            *)
(***************************************************************************)
EXTENDS Naturals

\* OrderStatus, which the pages have labels for.
Statuses ==
  {"pending", "paid", "shipped", "delivered", "cancelled", "refund_pending", "refunded"}

\* The buyer's requests, and the writes of others: a payment from another page or its
\* notification ("pay" as well), the shipment and the approval of a refund.
From ==
  [cancel |-> "pending", pay |-> "pending", refund |-> "paid", share |-> "paid",
   receive |-> "shipped", ship |-> "paid", approve |-> "refund_pending"]
To ==
  [cancel |-> "cancelled", pay |-> "paid", refund |-> "refund_pending", share |-> "paid",
   receive |-> "delivered", ship |-> "shipped", approve |-> "refunded"]
Posts == {"cancel", "pay", "refund", "share", "receive"}

Accepts(kind, status) == status = From[kind]

\* An order only moves to statuses of a higher rank, unless a stale write brings one back.
Rank ==
  [pending |-> 0, paid |-> 1, shipped |-> 2, refund_pending |-> 2, delivered |-> 3,
   refunded |-> 3, cancelled |-> 3]

\* The statuses that an order was in before.
Before ==
  [pending |-> {}, paid |-> {"pending"}, cancelled |-> {"pending"},
   shipped |-> {"pending", "paid"}, refund_pending |-> {"pending", "paid"},
   delivered |-> {"pending", "paid", "shipped"},
   refunded |-> {"pending", "paid", "refund_pending"}]
\* A handler that loaded the order in one of them saves it over this status: none looks again.
Stale(kind, status) == From[kind] \in Before[status]

\* How a request ends: done, refused for the status, or refused as the shares of a pending
\* order are sold by now.
Outcomes(kind, status) ==
  IF ~Accepts(kind, status) THEN {"refused"}
  ELSE IF kind = "pay" THEN {"done", "gone"} ELSE {"done"}
=============================================================================
