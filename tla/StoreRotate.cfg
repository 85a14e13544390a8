SPECIFICATION Spec
CONSTANTS
  Fences = {f1}
  Policies = {p1}
  Faults = {"rotate"}
  OtherSize = 2
  FenceSize = 2
  MaxJournalBytes = 12
  MaxRecords = 20
  MaxPriorFences = 2
  MaxLineage = 2
  MaxSeq = 8
SYMMETRY Symmetry
INVARIANTS
  DiskRecoverable
