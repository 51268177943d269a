SPECIFICATION AdaptersSpec
CONSTANTS
  e1 = e1
  e2 = e2
  g1 = g1
  g2 = g2
  c1 = c1
  c2 = c2
  m1 = m1
  m2 = m2
  i1 = i1
  i2 = i2
  i3 = i3
  i4 = i4
  i5 = i5
  d1 = d1
  d2 = d2
  b1 = b1
  Events <- TwoEvents
  Guests <- TwoGuests
  Me = g1
  Callers <- TwoCallers
  Horizon = 4
  MaxSuggestions = 2
  Zones = {0, 1}
  MaxEventEdits = 2
  MaxEventFaults = 1
  Mails <- TwoMails
  Ids <- FiveIds
  Drafting <- TwoDrafting
  Batches <- OneBatch
  MaxEdits = 2
  MaxFaults = 1
  Threads = {"a", "b"}
  GraphPage = 2
  MaxListed = 2
  MaxArrivals = 3
INVARIANTS SuggestionsAreSound DraftLeavesOnce AnswersAreTrue AccountIsTold
PROPERTIES EditsAreLocal
SYMMETRY Symmetry
CHECK_DEADLOCK FALSE
