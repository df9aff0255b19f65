SPECIFICATION PagesSpec
CONSTANTS
  Prices = {1, 2}
  Addresses = {1, 2}
  MaxTaps = 2
  MaxShares = 2
  Balance = 1
  MaxLoads = 2
  Nothing = Nothing
  Orders = {"o1", "o2"}
  Pending = {"o1"}
  Tabs = {"", "pending"}
  Slots = {1, 2}
  None = None
  Requests = {1, 2}
  Nil = Nil
CHECK_DEADLOCK FALSE
INVARIANTS
  CheckoutInv
  PaidOnce
  ListInv
  DetailInv
PROPERTIES
  PagesGoOn
