SPECIFICATION ControlSpec
CONSTANTS
  Managers = {m1, m2, m3}
  Scenarios <- MCScenarios
  Callers = {"c1", "c2"}
  CallerIds = {1}
  ShardCounts = {1, 3}
  MaxRecords = 2
  Required = 2
  MaxStep = 1
  Ceiling = 4
  MinRelief = 10
  Threshold = 40
  Loads = {0, 50, 100}
  ResizeBounds <- MCResizes
  NodeIds = {1, 2, 3}
  Ranked <- MCRanked
  Corpus <- MCCorpus
  MaxParallel = 2
  SweepBounds <- MCSweeps
SYMMETRY ManagerSymmetry
INVARIANTS
  ManagersHoldOneHistory
  QuorumAppliesOnce
  SwappedLayoutIsRecorded
  SweepsPlace
CHECK_DEADLOCK FALSE
