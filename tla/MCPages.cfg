SPECIFICATION ClientPagesSpec
CONSTANTS
  Msgs = {"m1", "m2"}
  Lines = {1, 2}
  Places = {"a1", "a2"}
  Texts = {"x"}
  Trips = {1, 2}
  NoPlace = NoPlace
  EmptyText = EmptyText
  Nicks = {"n1"}
  NoNick = NoNick
  Pends = {1, 2}
  MaxExits = 2
  MaxFunds = 3
  Hops = {1, 2}
  NoRow = NoRow
  Pigs = {1, 2, 3}
  FarmerOf <- MCFarmerOf
  Filmed = {1, 3}
  Owned = {1}
  Codes = {21}
  PageSize = 2
  Take = 1
  Limit = 4
  Changes = 2
  Strays = 2
  PigIds = {"p1"}
  Crew = 2
  MaxWeight = 1
  Calls = {1}
  Without = Without
  Staff = {"s1", "s2"}
  Turns = {1, 2}
  NoOne = NoOne
CHECK_DEADLOCK FALSE
INVARIANTS
  MessagesInv
  AddressFormInv
  ProfileInv
  WalletPageInv
  BrowseInv
  AdminInv
