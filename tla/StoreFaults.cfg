SPECIFICATION Spec
CONSTANTS
  Fences = {f1, f2}
  Policies = {p1, p2}
  Faults = {"write", "fsync", "zero", "rotate"}
  OtherSize = 2
  FenceSize = 4
  MaxJournalBytes = 12
  MaxRecords = 5
  MaxPriorFences = 1
  MaxLineage = 2
  MaxSeq = 6
SYMMETRY Symmetry
INVARIANTS
  PriorFenced
  LossBehindFragment
PROPERTIES
  EpochsIncrease
