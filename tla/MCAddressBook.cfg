SPECIFICATION Spec
CONSTANTS
  u1 = u1
  u2 = u2
  r1 = r1
  r2 = r2
  r3 = r3
  r4 = r4
  r5 = r5
  None = None
  Users = {u1, u2}
  Requests = {r1, r2, r3, r4, r5}
  MaxInFlight = 2
SYMMETRY RequestSymmetry
CHECK_DEADLOCK FALSE
INVARIANTS
  DefaultUnique
  DefaultKept
  RemovedStaysRemoved
