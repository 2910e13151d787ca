------------------------------- MODULE Bitcask -------------------------------
(***************************************************************************)
(* The storage engine of gocaskDB (src/bitcask-go/db.go, batch.go,         *)
(* data/data_file.go): the append-only data files, the in-memory index,    *)
(* single-key Put/Delete/Get, the WriteBatch protocol and the startup      *)
(* replay (loadDataFiles + loadIndexFromDataFiles) after a crash.          *)
(*                                                                         *)
(* Data abstraction: a key, a value and a record are model values or       *)
(* records of them; every record occupies one unit of file space, so a     *)
(* file offset is the number of units before it and DataFileSize is a      *)
(* number of records.  A torn tail left by a crash occupies one unit too.  *)
(* The sequence number is kept beside the user key instead of inside it:  *)
(* encodeKeyWithSeqNo/decodeKeyWithSeqNo are a lossless pair (uvarint     *)
(* prefix), checked separately in module Codec.                           *)
(***************************************************************************)
EXTENDS Naturals, Sequences, FiniteSets, SequencesExt, TLC

CONSTANTS
  Keys,            \* user keys (never empty: ErrKeyIsEmpty paths omitted)
  Vals,            \* user values
  Writers,         \* goroutines issuing Put/Delete and owning one WriteBatch
  Readers,         \* goroutines issuing Get
  DataFileSize,    \* Options.DataFileSize, in records
  SyncWrites,      \* Options.SyncWrites
  SyncPerBytes,    \* Options.SyncPerBytes, in records
  BatchSyncWrites, \* WriteBatchOptions.SyncWrites
  MaxBatchNum,     \* WriteBatchOptions.MaxBatchNum
  IOFaults,        \* subset of {"append", "sync"}: batch-commit steps that may fail
  TornWrites,      \* may a crash leave a partially written record at the tail?
  MaxRecords,      \* bound: units in all data files
  MaxCrashes,      \* bound: crashes
  MaxIOErrors,     \* bound: injected I/O errors
  NoKey, NoVal, NoPos, NoOp, FinKey, Torn, None   \* model values

ASSUME DataFileSize \in Nat /\ SyncPerBytes \in Nat /\ MaxBatchNum \in Nat
ASSUME SyncWrites \in BOOLEAN /\ BatchSyncWrites \in BOOLEAN /\ TornWrites \in BOOLEAN
ASSUME IOFaults \subseteq {"append", "sync"}
ASSUME MaxRecords \in Nat /\ MaxCrashes \in Nat /\ MaxIOErrors \in Nat

\* data.LogRecordType
Normal  == "Normal"           \* LogRecordNormal
Deleted == "Deleted"          \* LogRecordDeleted
TxnFin  == "TxnFin"           \* TransactionFinished
NonTransaction == 0
RecSize == 1

Record == [key : Keys \cup {FinKey}, val : Vals \cup {NoVal},
           type : {Normal, Deleted, TxnFin}, seq : 0..MaxRecords]
Pos == [fid : 1..MaxRecords + 1, off : 0..MaxRecords]      \* data.LogRecordPos
Entry == [type : {Normal, Deleted}, val : Vals \cup {NoVal}]  \* a pending write

VARIABLES
  files,        \* fid -> sequence of records (and Torn) as stored in the file
  durable,      \* length of the active file known to be on stable storage
  activeFid,    \* db.activeFile.Fid, 0 while activeFile == nil
  writeOffset,  \* db.activeFile.WriteOffset
  index,        \* db.index: key -> position, or NoPos
  seqNo,        \* db.seqNo
  bytesWrite,   \* db.bytesWrite
  invalidSize,  \* db.invalidSize
  mu,           \* writer holding db.mu exclusively, or None
  pc,           \* writer -> step of the call in progress
  opKey,        \* writer -> key of the Put/Delete in progress
  opPos,        \* writer -> position returned by appendLogRecordWithLock
  pending,      \* writer -> its WriteBatch.pendingWrites: key -> Entry or NoOp
  commitSeq,    \* writer -> sequence number of the commit in progress
  todo,         \* writer -> keys of pendingWrites not yet visited by the loop
  posTmp,       \* writer -> posTmp of Commit: key -> position or NoPos
  lastGet,      \* reader -> result of its last Get
  crashes,      \* crashes so far
  ioErrors,     \* injected I/O errors so far
  opened        \* FALSE once Open has failed after a crash

vars == <<files, durable, activeFid, writeOffset, index, seqNo, bytesWrite,
          invalidSize, mu, pc, opKey, opPos, pending, commitSeq, todo, posTmp,
          lastGet, crashes, ioErrors, opened>>
writerVars == <<pc, opKey, opPos, pending, commitSeq, todo, posTmp>>

NoPending == [k \in Keys |-> NoOp]
PendingKeys(w) == {k \in Keys : pending[w][k] # NoOp}
TotalUnits == FoldFunction(LAMBDA f, acc : Len(f) + acc, 0, files)
IsRecord(it) == it # Torn

-----------------------------------------------------------------------------
(* Startup replay: loadIndexFromDataFiles, as a function of the files.     *)

\* the updateIndex closure of loadIndexFromDataFiles (db.go 510-522)
UpdateIndex(st, key, t, pos) ==
  LET old == st.index[key] IN
  IF t = Deleted
  THEN [st EXCEPT !.index[key] = NoPos,
                  !.inv = @ + RecSize + (IF old # NoPos THEN RecSize ELSE 0)]
  ELSE [st EXCEPT !.index[key] = pos,
                  !.inv = @ + (IF old # NoPos THEN RecSize ELSE 0)]

\* Mutant: replay applies a batch record at once, as if it were not part of
\* a transaction (the seqNo == NonTransaction test dropped).
ReplayRecordNoTxn(st, r, pos) ==
  LET st1 == IF r.type = TxnFin THEN st ELSE UpdateIndex(st, r.key, r.type, pos)
  IN [st1 EXCEPT !.seq = IF @ < r.seq THEN r.seq ELSE @]

\* Mutant: the largest sequence number is taken from finished records only.
ReplayRecordFinSeq(st, r, pos) ==
  LET st1 ==
        IF r.seq = NonTransaction THEN UpdateIndex(st, r.key, r.type, pos)
        ELSE IF r.type = TxnFin
        THEN LET mine == SelectSeq(st.txn, LAMBDA e : e.seq = r.seq) IN
             [FoldLeft(LAMBDA acc, e : UpdateIndex(acc, e.key, e.type, e.pos),
                       st, mine)
                EXCEPT !.txn = SelectSeq(st.txn, LAMBDA e : e.seq # r.seq)]
        ELSE [st EXCEPT !.txn = Append(@, [seq |-> r.seq, key |-> r.key,
                                           type |-> r.type, pos |-> pos])]
  IN [st1 EXCEPT !.seq = IF r.type = TxnFin /\ @ < r.seq THEN r.seq ELSE @]

\* body of the read loop for one record read at pos (db.go 559-591)
ReplayRecord(st, r, pos) ==
  LET st1 ==
        IF r.seq = NonTransaction THEN UpdateIndex(st, r.key, r.type, pos)
        ELSE IF r.type = TxnFin
        THEN LET mine == SelectSeq(st.txn, LAMBDA e : e.seq = r.seq) IN
             [FoldLeft(LAMBDA acc, e : UpdateIndex(acc, e.key, e.type, e.pos),
                       st, mine)
                EXCEPT !.txn = SelectSeq(st.txn, LAMBDA e : e.seq # r.seq)]
        ELSE [st EXCEPT !.txn = Append(@, [seq |-> r.seq, key |-> r.key,
                                           type |-> r.type, pos |-> pos])]
  IN [st1 EXCEPT !.seq = IF @ < r.seq THEN r.seq ELSE @]

\* the loop over one data file, from offset off on (db.go 548-597);
\* ReadLogRecord reports io.EOF at the end of the file and on a torn tail
\* (a short read); a torn record followed by more bytes fails its CRC.
RECURSIVE ReplayFile(_, _, _, _)
ReplayFile(st, fid, items, off) ==
  IF off >= Len(items) THEN [st EXCEPT !.offset = off]
  ELSE IF items[off + 1] = Torn
       THEN IF off + 1 = Len(items) THEN [st EXCEPT !.offset = off]
            ELSE [st EXCEPT !.err = TRUE]
       ELSE ReplayFile(ReplayRecord(st, items[off + 1], [fid |-> fid, off |-> off]),
                       fid, items, off + 1)

RECURSIVE ReplayFids(_, _, _)
ReplayFids(st, fs, fids) ==
  IF fids = <<>> \/ st.err THEN st
  ELSE ReplayFids(ReplayFile([st EXCEPT !.offset = 0], Head(fids),
                             fs[Head(fids)], 0), fs, Tail(fids))

\* the file ids, ascending (sort.Ints(fids) in loadDataFiles)
RECURSIVE Ascending(_)
Ascending(S) == IF S = {} THEN <<>> ELSE <<Min(S)>> \o Ascending(S \ {Min(S)})

\* loadIndexFromDataFiles over the files fs
Replay(fs) ==
  ReplayFids([index |-> [k \in Keys |-> NoPos], inv |-> 0, txn |-> <<>>,
              seq |-> NonTransaction, offset |-> 0, err |-> FALSE],
             fs, Ascending(DOMAIN fs))

-----------------------------------------------------------------------------
(* appendLogRecordWithoutLock (db.go 366-425).                             *)

\* SetActiveFile when activeFile == nil, then the size check
FirstFid   == IF activeFid = 0 THEN 1 ELSE activeFid
OffBefore  == IF activeFid = 0 THEN 0 ELSE writeOffset
\* Mutant: the size check leaves out the size of the record to write.
RollsNoSize == OffBefore > DataFileSize
Rolls      == OffBefore + RecSize > DataFileSize

\* Mutant: after a rollover the offset is not restarted at 0.
AppendPosNoReset == [fid |-> IF Rolls THEN FirstFid + 1 ELSE FirstFid, off |-> OffBefore]
AppendPos  == [fid |-> IF Rolls THEN FirstFid + 1 ELSE FirstFid,
               off |-> IF Rolls THEN 0 ELSE OffBefore]

\* Mutant: the SyncPerBytes test counts the record just written one time
\* too few (an off-by-one in the threshold).
AppendLogRecordLateSync(rec, forceSync) ==
  LET fid  == AppendPos.fid
      fs0  == IF activeFid = 0 THEN files @@ (1 :> <<>>) ELSE files
      fs1  == IF Rolls THEN fs0 @@ (fid :> <<>>) ELSE fs0
      new  == Append(fs1[fid], rec)
      bw   == bytesWrite + RecSize
      sync == SyncWrites \/ (SyncPerBytes > 0 /\ bw > SyncPerBytes + RecSize)
  IN /\ files' = [fs1 EXCEPT ![fid] = new]
     /\ activeFid' = fid
     /\ writeOffset' = AppendPos.off + RecSize
     /\ durable' = IF sync \/ forceSync THEN Len(new)
                   ELSE IF Rolls \/ activeFid = 0 THEN 0 ELSE durable
     /\ bytesWrite' = IF sync THEN 0 ELSE bw

\* writes rec at the end of the file (O_APPEND); the position returned is the
\* WriteOffset before the write.  forceSync: the caller syncs right after.
AppendLogRecord(rec, forceSync) ==
  LET fid  == AppendPos.fid
      fs0  == IF activeFid = 0 THEN files @@ (1 :> <<>>) ELSE files
      fs1  == IF Rolls THEN fs0 @@ (fid :> <<>>) ELSE fs0
      new  == Append(fs1[fid], rec)
      bw   == bytesWrite + RecSize
      sync == SyncWrites \/ (SyncPerBytes > 0 /\ bw > SyncPerBytes)
  IN /\ files' = [fs1 EXCEPT ![fid] = new]
     /\ activeFid' = fid
     /\ writeOffset' = AppendPos.off + RecSize
     /\ durable' = IF sync \/ forceSync THEN Len(new)
                   ELSE IF Rolls \/ activeFid = 0 THEN 0 ELSE durable
     /\ bytesWrite' = IF sync THEN 0 ELSE bw

CanAppend(n) == TotalUnits + n <= MaxRecords

-----------------------------------------------------------------------------
(* Single-key operations.                                                  *)

\* Put, S1: appendLogRecordWithLock under db.mu
Put(w, k, v) ==
  /\ opened /\ mu = None /\ pc[w] = "idle" /\ CanAppend(1)
  /\ AppendLogRecord([key |-> k, val |-> v, type |-> Normal,
                      seq |-> NonTransaction], FALSE)
  /\ pc' = [pc EXCEPT ![w] = "put_index"]
  /\ opKey' = [opKey EXCEPT ![w] = k]
  /\ opPos' = [opPos EXCEPT ![w] = AppendPos]
  /\ UNCHANGED <<index, seqNo, invalidSize, mu, pending, commitSeq, todo,
                 posTmp, lastGet, crashes, ioErrors, opened>>

\* Put, S2: index.Put after db.mu is released, charging the displaced entry
PutIndex(w) ==
  /\ pc[w] = "put_index"
  /\ index' = [index EXCEPT ![opKey[w]] = opPos[w]]
  /\ invalidSize' = invalidSize + (IF index[opKey[w]] # NoPos THEN RecSize ELSE 0)
  /\ pc' = [pc EXCEPT ![w] = "idle"]
  /\ opKey' = [opKey EXCEPT ![w] = NoKey]
  /\ opPos' = [opPos EXCEPT ![w] = NoPos]
  /\ UNCHANGED <<files, durable, activeFid, writeOffset, seqNo, bytesWrite, mu,
                 pending, commitSeq, todo, posTmp, lastGet,
                 crashes, ioErrors, opened>>

\* Delete, S1: index.Get without db.mu; an absent key returns nil (no step)
DeleteCheck(w, k) ==
  /\ opened /\ pc[w] = "idle" /\ index[k] # NoPos /\ CanAppend(1)
  /\ pc' = [pc EXCEPT ![w] = "del_append"]
  /\ opKey' = [opKey EXCEPT ![w] = k]
  /\ UNCHANGED <<files, durable, activeFid, writeOffset, index, seqNo,
                 bytesWrite, invalidSize, mu, opPos, pending, commitSeq, todo,
                 posTmp, lastGet, crashes, ioErrors, opened>>

\* Delete, S2: append the tombstone under db.mu, charge it as invalid
DeleteAppend(w) ==
  /\ pc[w] = "del_append" /\ mu = None /\ CanAppend(1)
  /\ AppendLogRecord([key |-> opKey[w], val |-> NoVal, type |-> Deleted,
                      seq |-> NonTransaction], FALSE)
  /\ invalidSize' = invalidSize + RecSize
  /\ pc' = [pc EXCEPT ![w] = "del_index"]
  /\ opPos' = [opPos EXCEPT ![w] = AppendPos]
  /\ UNCHANGED <<index, seqNo, mu, opKey, pending, commitSeq, todo, posTmp,
                 lastGet, crashes, ioErrors, opened>>

\* Delete, S3: index.Delete; a key already gone yields ErrIndexUpdateFailed
DeleteIndex(w) ==
  /\ pc[w] = "del_index"
  /\ index' = [index EXCEPT ![opKey[w]] = NoPos]
  /\ invalidSize' = invalidSize + (IF index[opKey[w]] # NoPos THEN RecSize ELSE 0)
  /\ pc' = [pc EXCEPT ![w] = "idle"]
  /\ opKey' = [opKey EXCEPT ![w] = NoKey]
  /\ opPos' = [opPos EXCEPT ![w] = NoPos]
  /\ UNCHANGED <<files, durable, activeFid, writeOffset, seqNo, bytesWrite, mu,
                 pending, commitSeq, todo, posTmp, lastGet,
                 crashes, ioErrors, opened>>

\* Get and getValueByPosition, under db.mu.RLock
GetResult(k) ==
  LET pos == index[k] IN
  IF pos = NoPos THEN "KeyNotFound"
  ELSE IF pos.fid \notin DOMAIN files THEN "DataFileNotFound"
  ELSE IF pos.off >= Len(files[pos.fid]) THEN "ReadError"
  ELSE LET it == files[pos.fid][pos.off + 1] IN
       IF it = Torn THEN "RecordCorrupted"
       ELSE IF it.type = Deleted THEN "KeyNotFound"
       ELSE it.val

Get(r, k) ==
  /\ opened /\ mu = None
  /\ lastGet' = [lastGet EXCEPT ![r] = [key |-> k, res |-> GetResult(k)]]
  /\ UNCHANGED <<files, durable, activeFid, writeOffset, index, seqNo,
                 bytesWrite, invalidSize, mu, crashes, ioErrors, opened>>
  /\ UNCHANGED writerVars

\* Sync: db.activeFile.SyncFile() under db.mu
Sync ==
  /\ opened /\ mu = None /\ activeFid # 0
  /\ durable < Len(files[activeFid])
  /\ durable' = Len(files[activeFid])
  /\ UNCHANGED <<files, activeFid, writeOffset, index, seqNo, bytesWrite,
                 invalidSize, mu, lastGet, crashes, ioErrors, opened>>
  /\ UNCHANGED writerVars

-----------------------------------------------------------------------------
(* WriteBatch (batch.go).  Each writer owns one batch, so wb.mu is never   *)
(* contended; Commit holds wb.mu and db.mu from its start to its return.   *)

\* PendingPut: last writer wins within the batch
PendingPut(w, k, v) ==
  /\ opened /\ pc[w] = "idle"
  /\ pending' = [pending EXCEPT ![w][k] = [type |-> Normal, val |-> v]]
  /\ UNCHANGED <<files, durable, activeFid, writeOffset, index, seqNo,
                 bytesWrite, invalidSize, mu, pc, opKey, opPos, commitSeq,
                 todo, posTmp, lastGet, crashes, ioErrors, opened>>

\* PendingDelete: reads db.index without db.mu; a key the index lacks only
\* drops its pending entry
PendingDelete(w, k) ==
  /\ opened /\ pc[w] = "idle"
  /\ pending' = [pending EXCEPT ![w][k] =
                   IF index[k] = NoPos THEN NoOp
                   ELSE [type |-> Deleted, val |-> NoVal]]
  /\ UNCHANGED <<files, durable, activeFid, writeOffset, index, seqNo,
                 bytesWrite, invalidSize, mu, pc, opKey, opPos, commitSeq,
                 todo, posTmp, lastGet, crashes, ioErrors, opened>>

\* Commit up to taking db.mu and the sequence number.  An empty batch
\* returns nil and one larger than MaxBatchNum ErrExceedMaxBatchNum, both
\* without any change of state.
CommitBegin(w) ==
  /\ opened /\ pc[w] = "idle" /\ mu = None
  /\ PendingKeys(w) # {}
  /\ Cardinality(PendingKeys(w)) <= MaxBatchNum
  /\ CanAppend(Cardinality(PendingKeys(w)) + 1)
  /\ mu' = w
  /\ seqNo' = seqNo + 1
  /\ commitSeq' = [commitSeq EXCEPT ![w] = seqNo + 1]
  /\ todo' = [todo EXCEPT ![w] = PendingKeys(w)]
  /\ posTmp' = [posTmp EXCEPT ![w] = [k \in Keys |-> NoPos]]
  /\ pc' = [pc EXCEPT ![w] = "commit_append"]
  /\ UNCHANGED <<files, durable, activeFid, writeOffset, index, bytesWrite,
                 invalidSize, opKey, opPos, pending, lastGet, crashes,
                 ioErrors, opened>>

\* Commit's locals (seqNo, posTmp) go out of scope when it returns
EndCommit(w) ==
  /\ commitSeq' = [commitSeq EXCEPT ![w] = 0]
  /\ todo' = [todo EXCEPT ![w] = {}]
  /\ posTmp' = [posTmp EXCEPT ![w] = [k \in Keys |-> NoPos]]

\* one turn of the loop appending the pending records (map order is random)
CommitAppend(w, k) ==
  /\ pc[w] = "commit_append" /\ k \in todo[w]
  /\ AppendLogRecord([key |-> k, val |-> pending[w][k].val,
                      type |-> pending[w][k].type, seq |-> commitSeq[w]], FALSE)
  /\ posTmp' = [posTmp EXCEPT ![w][k] = AppendPos]
  /\ todo' = [todo EXCEPT ![w] = @ \ {k}]
  /\ pc' = [pc EXCEPT ![w] = IF todo[w] = {k} THEN "commit_fin" ELSE "commit_append"]
  /\ UNCHANGED <<index, seqNo, invalidSize, mu, opKey, opPos, pending,
                 commitSeq, lastGet, crashes, ioErrors, opened>>

\* an append of the loop fails: Commit returns the error, releasing db.mu;
\* the records already appended stay, pendingWrites is kept
CommitAppendFails(w) ==
  /\ pc[w] = "commit_append" /\ "append" \in IOFaults /\ ioErrors < MaxIOErrors
  /\ ioErrors' = ioErrors + 1
  /\ mu' = None
  /\ pc' = [pc EXCEPT ![w] = "idle"]
  /\ EndCommit(w)
  /\ UNCHANGED <<files, durable, activeFid, writeOffset, index, seqNo,
                 bytesWrite, invalidSize, opKey, opPos, pending,
                 lastGet, crashes, opened>>

FinRecord(w) == [key |-> FinKey, val |-> NoVal, type |-> TxnFin, seq |-> commitSeq[w]]

\* the transaction-finished record, then the sync of WriteBatchOptions.SyncWrites
CommitFin(w) ==
  /\ pc[w] = "commit_fin"
  /\ AppendLogRecord(FinRecord(w), BatchSyncWrites)
  /\ todo' = [todo EXCEPT ![w] = PendingKeys(w)]
  /\ pc' = [pc EXCEPT ![w] = "commit_index"]
  /\ UNCHANGED <<index, seqNo, invalidSize, mu, opKey, opPos, pending,
                 commitSeq, posTmp, lastGet, crashes, ioErrors, opened>>

\* the sync after the finished record fails: Commit returns the error with
\* the finished record in the file and the index not updated
CommitSyncFails(w) ==
  /\ pc[w] = "commit_fin" /\ BatchSyncWrites
  /\ "sync" \in IOFaults /\ ioErrors < MaxIOErrors
  /\ AppendLogRecord(FinRecord(w), FALSE)
  /\ ioErrors' = ioErrors + 1
  /\ mu' = None
  /\ pc' = [pc EXCEPT ![w] = "idle"]
  /\ EndCommit(w)
  /\ UNCHANGED <<index, seqNo, invalidSize, opKey, opPos, pending,
                 lastGet, crashes, opened>>

\* Mutant: the tombstone of a batch delete is not charged (batch.go 138).
CommitIndexNoTomb(w, k) ==
  /\ pc[w] = "commit_index" /\ k \in todo[w]
  /\ LET e == pending[w][k] IN
     /\ index' = [index EXCEPT ![k] = IF e.type = Normal THEN posTmp[w][k] ELSE NoPos]
     /\ invalidSize' = invalidSize + (IF index[k] # NoPos THEN RecSize ELSE 0)
  /\ IF todo[w] = {k}
     THEN /\ pending' = [pending EXCEPT ![w] = NoPending]
          /\ mu' = None
          /\ pc' = [pc EXCEPT ![w] = "idle"]
          /\ EndCommit(w)
     ELSE /\ todo' = [todo EXCEPT ![w] = @ \ {k}]
          /\ UNCHANGED <<pending, mu, pc, commitSeq, posTmp>>
  /\ UNCHANGED <<files, durable, activeFid, writeOffset, seqNo, bytesWrite,
                 opKey, opPos, lastGet, crashes, ioErrors, opened>>

\* one turn of the loop updating the index, still under db.mu; the last turn
\* clears pendingWrites and returns, releasing both locks
CommitIndex(w, k) ==
  /\ pc[w] = "commit_index" /\ k \in todo[w]
  /\ LET e   == pending[w][k]
         old == index[k]
     IN /\ index' = [index EXCEPT ![k] = IF e.type = Normal THEN posTmp[w][k] ELSE NoPos]
        /\ invalidSize' = invalidSize + (IF e.type = Deleted THEN RecSize ELSE 0)
                                      + (IF old # NoPos THEN RecSize ELSE 0)
  /\ IF todo[w] = {k}
     THEN /\ pending' = [pending EXCEPT ![w] = NoPending]
          /\ mu' = None
          /\ pc' = [pc EXCEPT ![w] = "idle"]
          /\ EndCommit(w)
     ELSE /\ todo' = [todo EXCEPT ![w] = @ \ {k}]
          /\ UNCHANGED <<pending, mu, pc, commitSeq, posTmp>>
  /\ UNCHANGED <<files, durable, activeFid, writeOffset, seqNo, bytesWrite,
                 opKey, opPos, lastGet, crashes, ioErrors, opened>>

-----------------------------------------------------------------------------
(* Crash and Open.  The crash keeps every older file (each was synced when *)
(* it was rolled) and a prefix of the active file at least as long as its  *)
(* synced part, possibly followed by a torn record.  Open then runs        *)
(* loadDataFiles (largest id active) and loadIndexFromDataFiles.           *)

CrashTails ==
  IF activeFid = 0 THEN {files}
  ELSE UNION {
    { [files EXCEPT ![activeFid] = SubSeq(@, 1, cut) \o tail] :
        tail \in IF TornWrites /\ cut < Len(files[activeFid])
                 THEN {<<>>, <<Torn>>} ELSE {<<>>} } :
      cut \in durable..Len(files[activeFid]) }

\* Mutant: Open leaves the active file's WriteOffset at 0 (db.go 594-596 lost).
OpenFilesNoOffset(fs) ==
  LET st == Replay(fs) IN
  /\ opened' = ~st.err
  /\ files' = fs
  /\ activeFid' = IF DOMAIN fs = {} THEN 0 ELSE Max(DOMAIN fs)
  /\ writeOffset' = 0
  /\ index' = st.index
  /\ invalidSize' = st.inv
  /\ seqNo' = st.seq
  /\ bytesWrite' = 0
  /\ mu' = None
  /\ pc' = [w \in Writers |-> "idle"]
  /\ pending' = [w \in Writers |-> NoPending]
  /\ todo' = [w \in Writers |-> {}]

OpenFiles(fs) ==
  LET st == Replay(fs) IN
  /\ opened' = ~st.err
  /\ files' = fs
  /\ activeFid' = IF DOMAIN fs = {} THEN 0 ELSE Max(DOMAIN fs)
  /\ writeOffset' = st.offset
  /\ index' = st.index
  /\ invalidSize' = st.inv
  /\ seqNo' = st.seq
  /\ bytesWrite' = 0
  /\ mu' = None
  /\ pc' = [w \in Writers |-> "idle"]
  /\ pending' = [w \in Writers |-> NoPending]
  /\ todo' = [w \in Writers |-> {}]

CrashRestart ==
  /\ opened /\ crashes < MaxCrashes
  /\ crashes' = crashes + 1
  /\ \E fs \in CrashTails :
       /\ OpenFiles(fs)
       \* what Open reads back is on stable storage
       /\ durable' = IF DOMAIN fs = {} THEN 0 ELSE Len(fs[Max(DOMAIN fs)])
  /\ opKey' = [w \in Writers |-> NoKey]
  /\ opPos' = [w \in Writers |-> NoPos]
  /\ commitSeq' = [w \in Writers |-> 0]
  /\ posTmp' = [w \in Writers |-> [k \in Keys |-> NoPos]]
  /\ UNCHANGED <<lastGet, ioErrors>>

-----------------------------------------------------------------------------
Init ==
  /\ files = <<>>
  /\ durable = 0
  /\ activeFid = 0
  /\ writeOffset = 0
  /\ index = [k \in Keys |-> NoPos]
  /\ seqNo = NonTransaction
  /\ bytesWrite = 0
  /\ invalidSize = 0
  /\ mu = None
  /\ pc = [w \in Writers |-> "idle"]
  /\ opKey = [w \in Writers |-> NoKey]
  /\ opPos = [w \in Writers |-> NoPos]
  /\ pending = [w \in Writers |-> NoPending]
  /\ commitSeq = [w \in Writers |-> 0]
  /\ todo = [w \in Writers |-> {}]
  /\ posTmp = [w \in Writers |-> [k \in Keys |-> NoPos]]
  /\ lastGet = [r \in Readers |-> [key |-> NoKey, res |-> NoVal]]
  /\ crashes = 0
  /\ ioErrors = 0
  /\ opened = TRUE

\* the steps of a goroutine calling Put, Delete (db.go) ...
SingleKeyStep(w) ==
  \/ \E k \in Keys : (\E v \in Vals : Put(w, k, v)) \/ DeleteCheck(w, k)
  \/ PutIndex(w) \/ DeleteAppend(w) \/ DeleteIndex(w)

\* ... and the steps of its WriteBatch (batch.go)
BatchStep(w) ==
  \/ \E k \in Keys :
       \/ \E v \in Vals : PendingPut(w, k, v)
       \/ PendingDelete(w, k) \/ CommitAppend(w, k) \/ CommitIndex(w, k)
  \/ CommitBegin(w) \/ CommitAppendFails(w) \/ CommitFin(w) \/ CommitSyncFails(w)

Next ==
  \/ \E w \in Writers : SingleKeyStep(w) \/ BatchStep(w)
  \/ \E r \in Readers, k \in Keys : Get(r, k)
  \/ Sync
  \/ CrashRestart

Spec == Init /\ [][Next]_vars

-----------------------------------------------------------------------------
(* Properties.                                                             *)

\* The type invariant: every variable in its set, and the active file never
\* longer than DataFileSize, which the rollover check of
\* appendLogRecordWithoutLock (db.go 380) guarantees.
TypeOK ==
  /\ \A f \in DOMAIN files : files[f] \in Seq(Record \cup {Torn})
  /\ activeFid \in 0..MaxRecords + 1 /\ durable \in Nat
  \* the active file never grows past DataFileSize (the rollover check)
  /\ writeOffset \in 0..DataFileSize
  /\ index \in [Keys -> Pos \cup {NoPos}]
  /\ seqNo \in Nat /\ bytesWrite \in Nat /\ invalidSize \in Nat
  /\ mu \in Writers \cup {None}
  /\ pc \in [Writers -> {"idle", "put_index", "del_append", "del_index",
                         "commit_append", "commit_fin", "commit_index"}]
  /\ pending \in [Writers -> [Keys -> Entry \cup {NoOp}]]
  /\ todo \in [Writers -> SUBSET Keys]
  /\ opened \in BOOLEAN

\* the value a position names in the files fs (Torn when it names nothing)
ValueIn(fs, pos) ==
  IF pos = NoPos THEN NoVal
  ELSE IF pos.fid \notin DOMAIN fs \/ pos.off >= Len(fs[pos.fid]) THEN Torn
  ELSE IF fs[pos.fid][pos.off + 1] = Torn THEN Torn
  ELSE fs[pos.fid][pos.off + 1].val

\* no writer is inside Put, Delete or Commit
Quiet == \A w \in Writers : pc[w] = "idle"

\* Whenever no write is in flight, the in-memory index is exactly the index
\* that Open would rebuild from the data files now (db.go Put/Delete,
\* batch.go Commit against loadIndexFromDataFiles): what a Get answers is
\* what a restart would answer, across rollovers, failed commits and crashes.
IndexMatchesReplay ==
  opened /\ Quiet => LET st == Replay(files) IN ~st.err /\ st.index = index

\* Whenever no write is in flight, db.invalidSize (the input of the merge
\* ratio check) equals what replay recomputes from the files, so the merge
\* decision is the same before and after a restart.
InvalidSizeMatchesReplay ==
  opened /\ Quiet => Replay(files).inv = invalidSize

SeqsOnDisk == UNION {{it.seq : it \in {r \in Range(files[f]) : IsRecord(r)}} :
                      f \in DOMAIN files} \ {NonTransaction}

\* A commit never takes a sequence number that a record already in the
\* files carries (batch.go 93 against the seqNo replay restores, db.go 601):
\* otherwise its finished record would also commit the leftovers of an
\* earlier, failed or interrupted batch.
SeqNoFresh ==
  [][\A w \in Writers :
       (pc[w] = "idle" /\ pc'[w] = "commit_append") => commitSeq'[w] \notin SeqsOnDisk]_vars

\* Get (db.go 301-344) never fails with DataFileNotFound, a read error or a
\* corrupted record: every position the index holds, whoever put it there
\* (Put, Delete, Commit or the replay of Open), names a whole record in a
\* file the engine has open, across rollovers and restarts.
ReadsNeverFail ==
  \A r \in Readers :
    lastGet[r].res \notin {"DataFileNotFound", "ReadError", "RecordCorrupted"}

\* Options.SyncPerBytes (db.go 401-419): with SyncWrites off, at most
\* SyncPerBytes units of the active file are ever unsynced, so a crash loses
\* at most that much.  bytesWrite is reset only by a SyncPerBytes sync (not
\* by a rollover, a batch sync or db.Sync) and the test is '>', not the
\* '>=' of spec.md 4.4; the bound relates the two to what is on disk.
UnsyncedBound ==
  (~SyncWrites /\ SyncPerBytes > 0 /\ activeFid # 0) =>
    Len(files[activeFid]) - durable <= SyncPerBytes

==============================================================================
