SPECIFICATION Spec
CONSTANTS
  r1 = r1
  c1 = c1
  c2 = c2
  k1 = k1
  s1 = s1
  None = None
  Runs = {r1, c1, c2}
  Roots = {r1}
  Keys = {k1}
  SpawnKeys = {s1}
  Budgets <- ParentBudgets
  Grants <- ChildGrants
  Usages = {1}
  ReserveCap = 2
  MaxModels = 2
  MaxTools = 1
  MaxGen = 2
  SweepLimit = 2
INVARIANT SpawnRules
SYMMETRY ChildSymmetry
CHECK_DEADLOCK FALSE
