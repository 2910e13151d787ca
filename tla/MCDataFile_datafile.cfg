\* One writer: Put, Delete, batches of up to two keys in either order,
\* explicit Sync, and one crash that cuts the file between records.
CONSTANTS
  UserKeys <- MCUserKeys
  Vals <- MCVals
  SyncWrites = FALSE
  BatchSyncWrites = FALSE
  MaxBatchNum = 2
  TornWrites = FALSE
  MaxBytes = 36
  MaxCrashes = 1
SPECIFICATION Spec
INVARIANTS
  DFTypeOK
  ReplayRebuildsIndex
  GetReadsBack
  IndexOnlyCommitted
PROPERTIES
  SyncedSurvivesCrash
