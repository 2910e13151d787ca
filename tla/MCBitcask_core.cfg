\* One writer and one reader: rollover every 2 records, SyncPerBytes sync,
\* batches of up to 2 keys, a batch append or final sync that may fail, and one crash, with Get
\* against every position the index takes.
CONSTANTS
  Keys = {k1, k2}
  Vals = {v1}
  Writers = {w1}
  Readers = {r1}
  DataFileSize = 2
  SyncWrites = FALSE
  SyncPerBytes = 1
  BatchSyncWrites = TRUE
  MaxBatchNum = 2
  IOFaults <- MCAllFaults
  TornWrites = FALSE
  MaxRecords = 4
  MaxCrashes = 1
  MaxIOErrors = 1
  NoKey = NoKey
  NoVal = NoVal
  NoPos = NoPos
  NoOp = NoOp
  FinKey = FinKey
  Torn = Torn
  None = None
SPECIFICATION Spec
PROPERTY SeqNoFresh
INVARIANTS
  TypeOK
  ReadsNeverFail
  UnsyncedBound
