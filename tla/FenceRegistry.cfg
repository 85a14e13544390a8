SPECIFICATION Spec
CONSTANTS
  Scopes = {s1, s2}
  Gens = {g1, g2}
  Boots = {1}
  MaxFences = 2
  FenceTtl = 1
  MaxTime = 1
  MaxAttempts = 3
INVARIANTS
  OneOpenPerSubject
  LifecycleAccounting
PROPERTIES
  TerminalIsFinal
SYMMETRY Symmetry
