SPECIFICATION Spec
CONSTANTS
  Scopes = {s1}
  Gens = {g1, g2}
  Callers = {c1, c2}
  MaxFences = 1
  FenceTtl = 1
  MaxTime = 1
  MaxBoots = 2
  MaxAttempts = 2
SYMMETRY Symmetry
INVARIANTS
  NoPriorAuthority
  InterruptionRecorded
  LineageHasFence
PROPERTIES
  DurableTerminalFinal
  AuthorityRefined
