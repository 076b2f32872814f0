\* Three symbols, three candidates of a cycle, two configurations of the budgets.
CONSTANTS
  s1 = s1
  s2 = s2
  s3 = s3
  k1 = k1
  NoCluster = NoCluster
  Symbol = {s1, s2, s3}
  Cluster = {k1}
  Distance = {3}
  Score = {1, 2}
  Equity = {1, 2}
  RiskPerTrade = 4
  MaxQty = {9}
  MinQty = 1
  MaxPositions = 3
  Limits <- EveryLimit
  MaxLate = 1
SPECIFICATION Spec
SYMMETRY SymbolSymmetry
INVARIANTS BudgetsHeld HigherScoreFirst
 
