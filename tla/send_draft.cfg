SPECIFICATION Spec
CONSTANTS
  s1 = s1
  s2 = s2
  c1 = c1
  e1 = e1
  d1 = d1
  d2 = d2
  b1 = b1
  b2 = b2
  NoBody = NoBody
  NoLock = NoLock
  Loop <- OwnLoops
  Senders <- TwoSenders
  Clients <- OneClient
  Editors <- OneEditor
  JobDrafters <- JobDrafter
  InboxDrafters <- InboxDrafter
  Bodies <- TwoBodies
  RiskyBodies <- Risky
  EditedBodies <- Risky
  Approvals <- Either
  MaxFaults = 1
INVARIANTS ExecutorSendsOnce SentIsAccounted LabelsHold LockHasOwner
SYMMETRY Symmetry
CONSTRAINT FewAtOnce
