SPECIFICATION Spec
CONSTANTS
  HopCounts = {0, 1, 4, 5}
  Budgets = {2, 200}
  SolutionCaps = {1, 2}
  MaxSets = 3
  MaxCandidates = 4
  ReferenceMax = 18
  OracleBudget = 200
  MaxProbes <- ProbeBound
INVARIANTS
  LocalizationExact
  VerifierExact
