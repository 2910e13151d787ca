\* Two crashes: the second one between the renames of loadMergeFiles.
CONSTANTS
  Keys = {k1, k2}
  Vals = {v1}
  Writers = {w1}
  Readers = {}
  DataFileSize = 2
  SyncWrites = TRUE
  SyncPerBytes = 0
  BatchSyncWrites = FALSE
  MaxBatchNum = 1
  IOFaults <- MCNoFaults
  TornWrites = FALSE
  MaxRecords = 6
  MaxCrashes = 2
  MaxIOErrors = 0
  MaxMerges = 1
  MergeRatio = 0
  SingleKeyOps = FALSE
  NoKey = NoKey
  NoVal = NoVal
  NoPos = NoPos
  NoOp = NoOp
  FinKey = FinKey
  Torn = Torn
  None = None
  Tomb = Tomb
SPECIFICATION RSpec
PROPERTY
  RestartKeepsStore
