--------------------------- MODULE OrderLifecycle ---------------------------
(***************************************************************************)
(* What the order module promises: an order moves along its life cycle in  *)
(* single steps that move its pig's share count with it, and a payment is  *)
(* booked exactly when the order becomes paid.  The module's comments      *)
(* (order.service.ts:51, 139, 161, 261, 291, 316, 344) state these steps.  *)
(*                                                                         *)
(* The promise is made to handlers that have a pig to themselves: once two *)
(* were active on one pig (Contend), its orders are out of control.        *)
(***************************************************************************)
EXTENDS Integers, FiniteSets

CONSTANTS Orders, Pigs, PigOf, Shares, Total

VARIABLES status, sold, soldOut, bookings, contended

lifeVars == <<status, sold, soldOut, bookings, contended>>

Statuses == {"none", "pending", "paid", "shipped", "delivered",
             "cancelled", "refund_pending", "refunded"}

\* The statuses in which an order holds shares of its pig.
Holding == {"paid", "shipped", "delivered", "refund_pending"}

Init ==
  /\ status = [o \in Orders |-> "none"]
  /\ sold = [p \in Pigs |-> 0]
  /\ soldOut = [p \in Pigs |-> FALSE]
  /\ bookings = [o \in Orders |-> 0]
  /\ contended = {}

Move(o, from, to) ==
  /\ PigOf[o] \notin contended
  /\ status[o] = from
  /\ status' = [status EXCEPT ![o] = to]
  /\ UNCHANGED contended

\* The pig of o holds s sold shares from now on, and is sold out accordingly.
SetSold(o, s) ==
  /\ s \in 0 .. Total[PigOf[o]]
  /\ sold' = [sold EXCEPT ![PigOf[o]] = s]
  /\ soldOut' = [soldOut EXCEPT ![PigOf[o]] = (s = Total[PigOf[o]])]

Administer(o) ==
  /\ \/ ~soldOut[PigOf[o]] /\ Move(o, "none", "pending")
     \/ Move(o, "pending", "cancelled")
     \/ Move(o, "paid", "refund_pending")
     \/ Move(o, "paid", "shipped")
     \/ Move(o, "shipped", "delivered")
  /\ UNCHANGED <<sold, soldOut, bookings>>

Pay(o) ==
  /\ Move(o, "pending", "paid")
  /\ SetSold(o, sold[PigOf[o]] + Shares[o])
  /\ bookings' = [bookings EXCEPT ![o] = @ + 1]

Refund(o) ==
  /\ Move(o, "refund_pending", "refunded")
  /\ SetSold(o, sold[PigOf[o]] - Shares[o])
  /\ UNCHANGED bookings

Contend(p) ==
  /\ contended' = contended \cup {p}
  /\ UNCHANGED <<status, sold, soldOut, bookings>>

\* Anything may happen to a contended pig and to its orders, and to those only.
OutOfControl(p) ==
  /\ p \in contended
  /\ \A o \in Orders : PigOf[o] # p => status'[o] = status[o] /\ bookings'[o] = bookings[o]
  /\ \A q \in Pigs \ {p} : sold'[q] = sold[q] /\ soldOut'[q] = soldOut[q]
  /\ UNCHANGED contended

Next ==
  \/ \E o \in Orders : Administer(o) \/ Pay(o) \/ Refund(o)
  \/ \E p \in Pigs : Contend(p) \/ OutOfControl(p)

Spec == Init /\ [][Next]_lifeVars

\* The orders that hold shares of pig p, and the shares of a set of orders one by one.
Holders(p) == {o \in Orders : PigOf[o] = p /\ status[o] \in Holding}
Units(S) == UNION {{o} \X (1 .. Shares[o]) : o \in S}

\* The share count of an uncontended pig is the number of shares that orders hold, and
\* the pig is sold out exactly when no share is left.
InventoryExact ==
  \A p \in Pigs \ contended :
    /\ sold[p] = Cardinality(Units(Holders(p)))
    /\ soldOut[p] <=> sold[p] = Total[p]
=============================================================================
