SPECIFICATION EngineSpec
CONSTANTS
  Ids = {a, b}
  MaxWrites = 3
  FlushThreshold = 2
  SyncOnWrite = TRUE
  AppendSyncMayFail = FALSE
  SourceIds = {1, 2}
  Queries = {"q"}
  MaxGeneration = 1
  MaxVersion = 5
  MaxFiles = 2
  LoadBatches <- MCBatches
  InitialFiles <- MCFiles
INVARIANTS NoRowTwice  OnlyDoubtedWritesDiffer SourcesAreKept
 
CHECK_DEADLOCK FALSE
