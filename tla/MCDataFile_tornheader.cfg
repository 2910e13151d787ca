\* One writer and one crash that may cut the file anywhere past the
\* synced bytes, inside a record too.
CONSTANTS
  UserKeys <- MCUserKeys
  Vals <- MCVals
  SyncWrites = FALSE
  BatchSyncWrites = FALSE
  MaxBatchNum = 2
  TornWrites = TRUE
  MaxBytes = 36
  MaxCrashes = 1
SPECIFICATION Spec
INVARIANT OpenNeverFails
