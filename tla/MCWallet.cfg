SPECIFICATION WalletSpec
CONSTANTS
  u1 = u1
  u2 = u2
  r1 = r1
  r2 = r2
  Users = {u1, u2}
  Requests = {r1, r2}
  Amounts = {1, 2}
  Opening <- MCOpening
  MaxCredited = 4
SYMMETRY RequestSymmetry
INVARIANTS
  BalanceBacked
  LedgerExact
