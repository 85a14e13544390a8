SPECIFICATION FairSpec
CONSTANTS
  Conns = {c1, c2, c3}
  MaxConnections = 1
  MaxSessions = 1
  Faults = {"stall", "wake", "accept"}
INVARIANTS
  ThreadsBounded
  StopQuiescent
PROPERTIES
  NobodyBlocked
  StopReturns
