SPECIFICATION Spec
CONSTANTS
  Conns = {k1, k2, k3}
  Identities = {i1, i2}
  MaxSessions = 2
  MaxIds = 3
  MaxCalls = 3
  MaxSeq = 2
SYMMETRY Symmetry
INVARIANTS
  ServedInSequence
  HonestInStep
  SessionsBound
