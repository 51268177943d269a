SPECIFICATION Spec
CONSTANTS
  Texts = {"text"}
  MaxOpen = 1
  MaxAtOnce = 2
  MaxCommits = 2
PROPERTIES FormShowsSaved
CHECK_DEADLOCK FALSE
