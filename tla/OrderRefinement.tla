-------------------------- MODULE OrderRefinement ---------------------------
(* OrderFlow implements OrderLifecycle: bookings are the success rows of   *)
(* order_payments, everything else is the variable of the same name.       *)
EXTENDS OrderFlow

Bookings == [o \in Orders |-> Cardinality({y \in payments : y.order = o})]

Lifecycle == INSTANCE OrderLifecycle WITH bookings <- Bookings

\* As long as no two handlers are active on one pig, the two-step handlers, the
\* separate wallet transaction, failed transactions, retries and crashes look
\* like the single steps of OrderLifecycle: no double payment, no payment of a
\* cancelled order, no refund of a shipped one, no lost share.
LifecycleSpec == Lifecycle!Spec

\* In such use sold_shares is exact as well.
InventoryExact == Lifecycle!InventoryExact
=============================================================================
