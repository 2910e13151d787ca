\* One writer using write batches of one key, whose appends may
\* fail twice, a merge over the older files with every record
\* unsynced in between, and one crash: the merge may be adopted at the next
\* Open or dropped.
CONSTANTS
  Keys = {k1, k2}
  Vals = {v1}
  Writers = {w1}
  Readers = {}
  DataFileSize = 2
  SyncWrites = TRUE
  SyncPerBytes = 0
  BatchSyncWrites = FALSE
  MaxBatchNum = 1
  IOFaults <- MCAppendFaults
  TornWrites = FALSE
  MaxRecords = 6
  MaxCrashes = 1
  MaxIOErrors = 2
  MaxMerges = 1
  MergeRatio = 0
  SingleKeyOps = FALSE
  NoKey = NoKey
  NoVal = NoVal
  NoPos = NoPos
  NoOp = NoOp
  FinKey = FinKey
  Torn = Torn
  None = None
  Tomb = Tomb
SPECIFICATION RSpec
PROPERTY
  MRefines
  RestartKeepsStore
INVARIANT
  RestartPreservesStore
