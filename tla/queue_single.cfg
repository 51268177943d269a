SPECIFICATION FairSpec
CONSTANTS
  j1 = j1
  j2 = j2
  w1 = w1
  w2 = w2
  c1 = c1
  c2 = c2
  k1 = k1
  NoKey = NoKey
  NoCall = NoCall
  NoJob = NoJob
  Jobs <- TwoJobs
  Workers <- OneWorker
  Callers <- OneCaller
  Keys <- OneKey
  MaxAttempts = 2
  LeaseTicks = 1
  ZombieTicks = 2
  MaxLate = 1
  MaxFailures = 2
  MaxFaults = 1
  FaultKinds <- Survivable
  MaxReclaims = 0
INVARIANTS RunningIsReclaimable
PROPERTIES ImplementsLedger EveryJobSettles
