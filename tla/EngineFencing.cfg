SPECIFICATION Spec
CONSTANTS
  Scopes = {s1, s2}
  Gens = {g1, g2}
  Callers = {c1}
  MaxFences = 2
  FenceTtl = 1
  MaxTime = 1
  MaxBoots = 1
  MaxAttempts = 2
SYMMETRY Symmetry
INVARIANTS
  TypeOK
  OneOpenPerScope
  MemoryBackedByDisk
  DecisionIntentBacked
  RestoredMeansUnfenced
PROPERTIES
  WithdrawnOnDiskFirst
