SPECIFICATION ServerSpec
CONSTANTS
  Plans <- MCPlans
  WriteSlots = 2
  SearchSlots = 1
  JobIds = {1, 2}
  Events = {"e1", "e2"}
  Prints = {"f"}
  JobSlots = 1
  Retained = 1
  Chunks = 2
  Depth = 1
CHECK_DEADLOCK FALSE
INVARIANTS NothingRunsUntold JobsTellWhatHappened
PROPERTY EverythingEnds
