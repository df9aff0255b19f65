SPECIFICATION Spec
CONSTANTS
  owner = owner
  guest = guest
  None = None
  Users <- MCUsers
  Orders = {o1}
  HostOf <- MCHostOf
  Codes = {c1, c2}
  Handlers = {r1, r2}
  TTL = 2
  Draws = 2
  MaxTime = 4
SYMMETRY ShareSymmetry
INVARIANTS
  OneLiveInvite
  HostListed
