SPECIFICATION Spec
CONSTANTS
  Fences = {f1, f2, f3}
  Policies = {p1, p2}
  Faults = {}
  OtherSize = 2
  FenceSize = 3
  MaxJournalBytes = 12
  MaxRecords = 5
  MaxPriorFences = 2
  MaxLineage = 2
  MaxSeq = 8
SYMMETRY Symmetry
INVARIANTS
  DiskRecoverable
  PromisesKept
  ReplayMatchesMemory
  PolicyOnDisk
