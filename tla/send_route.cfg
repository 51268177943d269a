SPECIFICATION Spec
CONSTANTS
  s1 = s1
  s2 = s2
  c1 = c1
  e1 = e1
  d1 = d1
  d2 = d2
  b1 = b1
  b2 = b2
  NoBody = NoBody
  NoLock = NoLock
  Loop <- OwnLoops
  Senders <- OneSender
  Clients <- OneClient
  Editors <- Nobody
  JobDrafters <- JobDrafter
  InboxDrafters <- Nobody
  Bodies <- TwoBodies
  RiskyBodies <- Risky
  EditedBodies <- TwoBodies
  Approvals <- Either
  MaxFaults = 0
INVARIANTS SentMeansDelivered
SYMMETRY Symmetry
