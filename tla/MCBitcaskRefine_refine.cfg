\* One writer with SyncWrites on: every append is durable, so a crash loses
\* only the batches being staged or committed.
CONSTANTS
  Keys = {k1, k2}
  Vals = {v1, v2}
  Writers = {w1}
  Readers = {}
  DataFileSize = 2
  SyncWrites = TRUE
  SyncPerBytes = 0
  BatchSyncWrites = FALSE
  MaxBatchNum = 2
  IOFaults <- MCAppendFaults
  TornWrites = FALSE
  MaxRecords = 4
  MaxCrashes = 1
  MaxIOErrors = 1
  NoKey = NoKey
  NoVal = NoVal
  NoPos = NoPos
  NoOp = NoOp
  FinKey = FinKey
  Torn = Torn
  None = None
  Tomb = Tomb
SPECIFICATION Spec
PROPERTY Refines
INVARIANTS
  IndexMatchesReplay
  InvalidSizeMatchesReplay
