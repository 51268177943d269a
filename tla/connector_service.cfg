SPECIFICATION ServiceSpec
CONSTANTS
  a1 = a1
  d1 = d1
  d2 = d2
  e1 = e1
  e2 = e2
  m1 = m1
  p1 = p1
  p2 = p2
  f1 = f1
  f2 = f2
  f3 = f3
  c1 = c1
  c2 = c2
  c3 = c3
  r1 = r1
  Approvals <- OneApproval
  Deciders <- TwoDeciders
  Executors <- TwoExecutors
  MaxFaults = 2
  Accounts <- OneAccount
  Processes <- TwoProcesses
  Flows <- ThreeFlows
  Callbacks <- ThreeCallbacks
  Revocations <- OneRevocation
  MaxLinkFaults = 1
  Jobs = {}
  Hooks = {}
  Attempts = 1
  Page = 1
  MaxChanges = 0
  MaxRequests = 0
  MaxHooks = 0
  MaxSyncFaults = 0
  Services = {"approvals", "accounts"}
INVARIANTS RunsAreGranted ExecutedMeansRun TokensDecrypt SuccessIsUsable RevocationHolds
SYMMETRY Symmetry
CHECK_DEADLOCK FALSE
