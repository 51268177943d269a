SPECIFICATION ClientSpec
CONSTANTS
  Calls = {1, 2, 3}
  NoCall = 0
  MaxOnline = 1
  Threads = {"t1", "t2"}
  Messages = {"m1"}
  MaxRetries = 1
  MaxOthers = 1
  MaxVisits = 2
  Triggers = {1, 2}
  MaxPolls = 2
  Queues = {"priority"}
  Texts = {"text"}
  MaxOpen = 1
  MaxAtOnce = 2
  MaxCommits = 2
  Conversations = {"c1", "c2"}
  MaxIds = 4
  MaxConnects = 2
  MaxMounts = 2
  Letters = {"edited", "forwarded"}
  NoLetter = "none"
  Files = {"file"}
  Cards = {"card"}
  MaxWrites = 1
  MaxReads = 1
  MaxOpened = 2
  MaxClicks = 2
INVARIANTS MineStay SavedStands OverlayFollowsRequest LetterIsKept
PROPERTIES KeepsHealthyStream WaitsEnd
CHECK_DEADLOCK FALSE
