SPECIFICATION Spec
CONSTANTS
  r1 = r1
  r2 = r2
  r3 = r3
  r4 = r4
  r5 = r5
  o1 = o1
  o2 = o2
  p1 = p1
  u1 = u1
  u2 = u2
  None = None
  Users = {u1, u2}
  Orders = {o1, o2}
  Pigs = {p1}
  Requests = {r1, r2}
  Amounts = {1, 2}
  Opening <- MCOpening
  MaxCredited = 9
  PigOf <- MCPigOf
  Owner <- MCOwner
  Shares <- MCShares
  Price <- MCPrice
  Total <- MCTotal
  Ops = {"walletPay"}
  MaxInFlight = 2
SYMMETRY RequestSymmetry
CHECK_DEADLOCK FALSE
INVARIANT PaidOnlyOnce
