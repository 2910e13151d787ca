\* One writer (Put, Delete, batches of two keys) and one reader
\* running the user iterator over an ART index, every direction, prefix and
\* seek key of MCBitcaskIter.
CONSTANTS
  k1 = k1
  k2 = k2
  k3 = k3
  Keys <- MCKeys
  KeyBytes <- MCKeyBytes
  IterPrefixes <- MCIterPrefixes
  SeekKeys <- MCSeekKeys
  IndexType = "ART"
  Iters = {i1}
  Vals = {v1}
  Writers = {w1}
  Readers = {}
  DataFileSize = 2
  SyncWrites = FALSE
  SyncPerBytes = 0
  BatchSyncWrites = TRUE
  MaxBatchNum = 2
  IOFaults <- MCNoFaults
  TornWrites = FALSE
  MaxRecords = 3
  MaxCrashes = 0
  MaxIOErrors = 0
  NoKey = NoKey
  NoVal = NoVal
  NoPos = NoPos
  NoOp = NoOp
  FinKey = FinKey
  Torn = Torn
  None = None
SPECIFICATION ISpec
INVARIANTS
  ITypeOK
  IterYieldsSnapshot
  SnapshotsAgree
