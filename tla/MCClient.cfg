SPECIFICATION SessionSpec
CONSTANTS
  People = {"ann", "bob"}
  Admins = {"bob"}
  Calls = {1, 2}
  Sides = {"orders"}
  MaxLogins = 2
  MaxPages = 3
  MaxOpening = 2
  Null = Null
CHECK_DEADLOCK FALSE
INVARIANTS
  SessionInv
PROPERTIES
  JumpsAgain
