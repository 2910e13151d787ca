\* One writer (Put, Delete, batches) and one reader calling ListKeys over
\* an ART index.
CONSTANTS
  k1 = k1
  k2 = k2
  k3 = k3
  Keys <- MCKeys
  KeyBytes <- MCKeyBytes
  IterPrefixes <- MCIterPrefixes
  SeekKeys <- MCSeekKeys
  IndexType = "ART"
  Iters = {i1}
  Vals = {v1}
  Writers = {w1}
  Readers = {}
  DataFileSize = 2
  SyncWrites = FALSE
  SyncPerBytes = 0
  BatchSyncWrites = TRUE
  MaxBatchNum = 2
  IOFaults <- MCNoFaults
  TornWrites = FALSE
  MaxRecords = 3
  MaxCrashes = 0
  MaxIOErrors = 0
  NoKey = NoKey
  NoVal = NoVal
  NoPos = NoPos
  NoOp = NoOp
  FinKey = FinKey
  Torn = Torn
  None = None
SPECIFICATION LSpec
INVARIANT ListKeysExact
