SPECIFICATION Spec
CONSTANTS
  s1 = s1  a1 = a1  a2 = a2  a3 = a3  k1 = k1  k2 = k2  h1 = h1  h2 = h2
  NoCall = NoCall
  Calls = {s1, a1, a2, k1, k2, h1}
  Kind <- KindOf
  Costs = {1}
  CostCap = 3
  MaxProbes = 2
SYMMETRY CallSymmetry
INVARIANTS RunningCostIsLogged ProbesAreBounded
PROPERTY ReportStands
CHECK_DEADLOCK FALSE
