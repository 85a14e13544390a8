SPECIFICATION Spec
CONSTANTS
  Observations <- MCObservations
  Scopes = {"s", "t", "u"}
  Gens = {"g", "h"}
  TotalLoss = 2
  CompleteLoss = 2
  MinSources = 2
  MinIncarnations = 2
  MinAttempts = 2
  RequireExact = TRUE
  RequireAgreement = TRUE
  RestoreSources = 1
  RestoreIncarnations = 1
  RestoreSuccesses = 1
  MaxTrackedScopes = 2
  MaxSourcesPerScope = 2
  MaxEvidencePerScope = 3
  MaxClockSkew = 0
  HalfSpace = 2
  MaxRollovers = 1
  MaxTime = 2
  MaxSeen = 4
INVARIANTS
  AccountingClosed
  NoReplay
  BlackholeExact
  SingleVerdict
  QuorumHeard
  RestorationPositive
  ContradictionKept
PROPERTIES
  OldestEvicted
