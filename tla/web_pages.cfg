SPECIFICATION Spec
CONSTANTS
  MaxAnswers = 3
  MaxSaid = 1
  MaxCalls = 1
  Mails = {"mail"}
  Meetings = {"meeting"}
  MaxLoads = 2
  MaxChanges = 1
  Threads = {"a", "b"}
  Queues = {"priority", "all"}
  None = None
  MaxFiles = 1
  MaxListed = 2
  Candidates <- MCCandidates
  Nows <- MCNows
  Weeks = {0, 1, 2}
  MaxTurns = 3
INVARIANTS OneGreeting RepeatsAreEarned ShownDoneIsDone ShownBelongs WeekIsWhole
PROPERTIES WaitsEnd
CHECK_DEADLOCK FALSE
