\* One writer calling Put and Delete while a merge runs: the record a Put
\* appends before the merge's roll, with its index step still to come.
CONSTANTS
  Keys = {k1, k2}
  Vals = {v1}
  Writers = {w1}
  Readers = {}
  DataFileSize = 2
  SyncWrites = TRUE
  SyncPerBytes = 0
  BatchSyncWrites = FALSE
  MaxBatchNum = 1
  IOFaults <- MCNoFaults
  TornWrites = FALSE
  MaxRecords = 6
  MaxCrashes = 1
  MaxIOErrors = 0
  MaxMerges = 1
  MergeRatio = 0
  SingleKeyOps = TRUE
  NoKey = NoKey
  NoVal = NoVal
  NoPos = NoPos
  NoOp = NoOp
  FinKey = FinKey
  Torn = Torn
  None = None
SPECIFICATION MSpec
INVARIANTS
  RestartPreservesStore
