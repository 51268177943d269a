SPECIFICATION Spec
CONSTANTS
  j1 = j1
  j2 = j2
  w1 = w1
  w2 = w2
  c1 = c1
  c2 = c2
  k1 = k1
  NoKey = NoKey
  NoCall = NoCall
  NoJob = NoJob
  Jobs <- OneJob
  Workers <- TwoWorkers
  Callers <- OneCaller
  Keys <- NoKeys
  MaxAttempts = 2
  LeaseTicks = 1
  ZombieTicks = 1
  MaxLate = 0
  MaxFailures = 3
  MaxFaults = 2
  FaultKinds <- AllFaults
  MaxReclaims = 1
INVARIANTS DeadLetterEarned DoneOnlyAfterSuccess
SYMMETRY Symmetry
