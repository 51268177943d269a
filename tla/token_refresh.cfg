SPECIFICATION FairSpec
CONSTANTS
  c1 = c1
  c2 = c2
  c3 = c3
  Free = Free
  Lost = Lost
  Callers <- ThreeCallers
  Rotating = TRUE
  MaxIssued = 3
  MaxAgings = 1
  MaxFaults = 2
INVARIANTS RefreshesExclude GrantIsKept
PROPERTIES RefreshesEnd
CHECK_DEADLOCK FALSE
