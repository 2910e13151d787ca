\* One writer; a crash may leave a torn record at the tail of the active file.
CONSTANTS
  Keys = {k1, k2}
  Vals = {v1}
  Writers = {w1}
  Readers = {}
  DataFileSize = 2
  SyncWrites = FALSE
  SyncPerBytes = 0
  BatchSyncWrites = TRUE
  MaxBatchNum = 2
  IOFaults <- MCNoFaults
  TornWrites = TRUE
  MaxRecords = 4
  MaxCrashes = 1
  MaxIOErrors = 1
  NoKey = NoKey
  NoVal = NoVal
  NoPos = NoPos
  NoOp = NoOp
  FinKey = FinKey
  Torn = Torn
  None = None
SPECIFICATION Spec
INVARIANT IndexMatchesReplay
