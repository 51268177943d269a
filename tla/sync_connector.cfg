SPECIFICATION FairServiceSpec
CONSTANTS
  j1 = j1
  j2 = j2
  h1 = h1
  Jobs <- TwoJobs
  Hooks <- OneHook
  Attempts = 2
  Page = 1
  MaxChanges = 2
  MaxRequests = 1
  MaxHooks = 2
  MaxSyncFaults = 1
  Services = {"sync"}
  Approvals = {}
  Deciders = {}
  Executors = {}
  MaxFaults = 0
  Accounts = {}
  Processes = {}
  Flows = {}
  Callbacks = {}
  Revocations = {}
  MaxLinkFaults = 0
INVARIANTS NothingIsSkipped
PROPERTIES EveryNotificationIsServed
CHECK_DEADLOCK FALSE
