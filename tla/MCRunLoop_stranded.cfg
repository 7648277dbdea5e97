SPECIFICATION Spec
CONSTANTS
  r1 = r1
  k1 = k1
  k2 = k2
  None = None
  Runs = {r1}
  Roots = {r1}
  Keys = {k1, k2}
  SpawnKeys = {}
  Budgets <- SingleBudgets
  Grants <- NoGrants
  Usages = {1, 3}
  ReserveCap = 2
  MaxModels = 3
  MaxTools = 2
  MaxGen = 3
  SweepLimit = 2
INVARIANT NoStrandedRun
CHECK_DEADLOCK FALSE
