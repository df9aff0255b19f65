SPECIFICATION Spec
CONSTANTS
  None = None
  Users = {admin, u}
  Admin = admin
  Life <- MCLife
  Handlers = {r1, r2}
  MaxTime = 2
  MaxPairs = 1
SYMMETRY AuthSymmetry
CHECK_DEADLOCK FALSE
INVARIANTS
  LoggedOutStaysOut
  AdminStaysAdmin
