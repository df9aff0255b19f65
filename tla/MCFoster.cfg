SPECIFICATION FosterSpec
CONSTANTS
  f1 = f1
  f2 = f2
  f3 = f3
  u1 = u1
  u2 = u2
  t1 = t1
  t2 = t2
  t3 = t3
  m1 = m1
  r1 = r1
  r2 = r2
  Farmers = {f1, f2}
  Openids = {u1, u2}
  Tasks = {t1, t2}
  Meals = {m1}
  Handlers = {r1, r2}
  MaxTime = 3
  Unbound = Unbound
  Gone = Gone
  None = None
  People = {"f1", "f2"}
  Ways = {1, 2}
  Nobody = Nobody
  Chores = {"t1"}
  Pigs = {"p1", "p2"}
  Weights = {"w"}
  Posts = {1, 2}
  Nil = Nil
CHECK_DEADLOCK FALSE
INVARIANTS
  TokensIdentify
  OneTaskPerMeal
  CheckinStored
  LoginInv
  FosterPagesInv
PROPERTIES
  TasksReachFarmer
