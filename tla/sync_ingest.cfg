SPECIFICATION WorkSpec
CONSTANTS
  m1 = m1
  j1 = j1
  i1 = i1
  NoMessage = NoMessage
  Messages <- OneMessage
  JobSyncs <- OneJob
  InboxSyncs <- OneInbox
  Page = 1
  MaxAttempts = 2
  MaxFaults = 2
  Requests = {"request"}
  Outreaches = {"first", "second"}
  AgentLists <- SomeLists
  MaxRestarts = 1
INVARIANTS StubsAreOwned WorkIsEarned
PROPERTIES NothingElseIsLost
CHECK_DEADLOCK FALSE
