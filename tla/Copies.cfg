SPECIFICATION CopiesSpec
CONSTANTS
  n1 = n1 n2 = n2 n3 = n3 e1 = e1 e2 = e2 e3 = e3 t1 = t1 t2 = t2 None = None
  NodeIds <- MCNodeIds Endpoints <- MCEndpoints FirstAddr <- MCAddr
  FirstAssign <- MCSolo Wants <- MCWants Movers <- MCMovers
  MaxWrites = 1 MaxMoves = 3 MaxCrashes = 2 MaxFaults = 2 MaxJoins = 1
  Raw = TRUE MixesRaw = FALSE SweepsAliases = FALSE RetriesReady = FALSE ForgetsFence = FALSE
  Copies = {"p", "a", "b"}
  PrimaryCopy = "p"
  QueryIds = {q1, q2}
  MaxPasses = 1
  Groups <- MCGroups
  Shards <- MCShards
  MaxLoads = 3
  MaxNodeStops = 2
  CountsElsewhere = FALSE
SYMMETRY Symmetry
INVARIANTS  WritableWithoutIntent  
PROPERTY CommitIsComplete
CHECK_DEADLOCK FALSE
