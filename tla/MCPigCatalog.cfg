SPECIFICATION Spec
CONSTANTS
  pig = pig
  None = None
  Pigs = {pig}
  Orders = {o1, o2}
  PigOf <- MCPigOf
  Shares <- MCShares
  Totals = {2, 4}
  Weights = {w1, w2}
  Handlers = {r1, r2}
SYMMETRY PigSymmetry
INVARIANTS
  SharesExact
  SoldOutExact
  WeightProven
  DeletedStaysDeleted
CHECK_DEADLOCK FALSE
