------------------------------- MODULE DataFile -------------------------------
(***************************************************************************)
(* The active data file of gocaskDB at the byte level: Put, Delete and     *)
(* write-batch Commit append encoded records (db.go, batch.go), Sync makes *)
(* them durable, and a crash keeps the durable bytes and some prefix of    *)
(* the rest, after which Open replays the file record by record through    *)
(* File.ReadLogRecord (db.go loadIndexFromDataFiles).  One writer thread   *)
(* holds db.mu for every operation, and the file never rolls over (the     *)
(* record-level model Bitcask has rollover, readers and several writers).  *)
(***************************************************************************)
EXTENDS Codec, SequencesExt, FiniteSets

CONSTANTS
  UserKeys,        \* user keys: nonempty byte strings
  Vals,            \* values: byte strings
  SyncWrites,      \* Options.SyncWrites
  BatchSyncWrites, \* WriteBatchOptions.SyncWrites
  MaxBatchNum,     \* WriteBatchOptions.MaxBatchNum
  TornWrites,      \* a crash may keep part of a record
  MaxBytes,        \* bound on the file length
  MaxCrashes       \* bound on crashes

VARIABLES
  file,        \* the bytes of the file as the OS holds them
  durable,     \* how many of them a crash keeps
  writeOffset, \* activeFile.WriteOffset
  index,       \* user key -> LogRecordPos [offset, size] (one fid)
  seqNo,       \* db.seqNo
  up,          \* FALSE once an Open has failed
  crashes

vars == <<file, durable, writeOffset, index, seqNo, up, crashes>>

\* LogRecordType and the constants of batch.go
LogRecordNormal == 0
LogRecordDeleted == 1
TransactionFinished == 2
NonTransaction == 0
TransactionFinishKey == <<102, 105, 110>>   \* "fin"

-----------------------------------------------------------------------------
(* Writing                                                                 *)

\* the encoded record e appended at the end of the file; WriteOffset
\* grows by adv and the position handed back is at
AppendEncoded(st, e, adv, at) ==
  [file |-> st.file \o e, off |-> st.off + adv,
   pos  |-> Append(st.pos, [offset |-> at, size |-> Len(e)])]

\* Mutant: WriteOffset advances by the largest header size plus the key
\* and value, not by the bytes written.
WriteRecordHeaderSize(st, rec) ==
  AppendEncoded(st, EncodeLogRecord(rec),
                MaxLogRecordHeaderSize + Len(rec.key) + Len(rec.value), st.off)

\* Mutant: the position handed back is WriteOffset after the write.
WriteEncodedEndPos(st, e) == AppendEncoded(st, e, Len(e), st.off + Len(e))
WriteRecordEndPos(st, rec) == WriteEncodedEndPos(st, EncodeLogRecord(rec))

\* appendLogRecordWithoutLock without rollover, on [file, off, pos]: the
\* O_APPEND write puts the record at the end of the file, the position
\* handed back is WriteOffset, and WriteOffset grows by the record's size
WriteEncoded(st, e) == AppendEncoded(st, e, Len(e), st.off)
WriteRecord(st, rec) == WriteEncoded(st, EncodeLogRecord(rec))

WriteRecords(recs) ==
  FoldLeft(WriteRecord, [file |-> file, off |-> writeOffset, pos |-> <<>>], recs)

\* the index after Put (Normal) or Delete (Deleted) of key k at p
UpdateIndex(idx, k, type, p) ==
  IF type = LogRecordDeleted
  THEN [x \in DOMAIN idx \ {k} |-> idx[x]]
  ELSE (k :> p) @@ idx

\* the sync an operation ends with, if any
SyncedIf(flag, f) == IF flag THEN Len(f) ELSE durable

\* the write w of one record of key k and type, then the index update
AppendOne(k, type, w) ==
  /\ Len(w.file) <= MaxBytes
  /\ file' = w.file
  /\ writeOffset' = w.off
  /\ durable' = SyncedIf(SyncWrites, w.file)
  /\ index' = UpdateIndex(index, k, type, w.pos[1])
  /\ UNCHANGED <<seqNo, up, crashes>>

\* DB.Put: append [key+seq 0, value], sync if SyncWrites, then index.Put
Put(k, v) ==
  /\ up
  /\ AppendOne(k, LogRecordNormal,
               WriteRecords(<<[key |-> EncodeKeyWithSeqNo(k, NonTransaction),
                               value |-> v, type |-> LogRecordNormal]>>))

\* DB.Delete: nothing when the key is not in the index; else append the
\* tombstone and delete the key from the index
Delete(k) ==
  /\ up
  /\ k \in DOMAIN index
  /\ AppendOne(k, LogRecordDeleted,
               WriteRecords(<<[key |-> EncodeKeyWithSeqNo(k, NonTransaction),
                               value |-> <<>>, type |-> LogRecordDeleted]>>))

\* the pending writes of a batch: a record per key, Normal with a value
\* or Deleted (PendingDelete of a key the index held)
PendingWrites ==
  UNION {[S -> [type : {LogRecordNormal}, value : Vals]
               \cup [type : {LogRecordDeleted}, value : {<<>>}]] :
         S \in {S \in SUBSET UserKeys : S # {} /\ Cardinality(S) <= MaxBatchNum}}

\* the write w of a batch under seq: the sync if asked, then the index
\* updates in the order ks
Committed(pw, ks, seq, w) ==
  /\ Len(w.file) <= MaxBytes
  /\ file' = w.file
  /\ writeOffset' = w.off
  /\ durable' = SyncedIf(BatchSyncWrites, w.file)
  /\ index' = FoldLeft(LAMBDA idx, i : UpdateIndex(idx, ks[i], pw[ks[i]].type, w.pos[i]),
                       index, [i \in DOMAIN ks |-> i])
  /\ seqNo' = seq
  /\ UNCHANGED <<up, crashes>>

\* WriteBatch.Commit of pending writes pw, appended in the order ks that
\* Go's map iteration picks: a new seqNo, each record under key+seqNo,
\* the finished record, then Committed
Commit(pw, ks) ==
  LET seq  == seqNo + 1
      recs == [i \in DOMAIN ks |-> [key   |-> EncodeKeyWithSeqNo(ks[i], seq),
                                    value |-> pw[ks[i]].value,
                                    type  |-> pw[ks[i]].type]]
      fin  == [key |-> EncodeKeyWithSeqNo(TransactionFinishKey, seq),
               value |-> <<>>, type |-> TransactionFinished]
  IN /\ up
     /\ Committed(pw, ks, seq, WriteRecords(Append(recs, fin)))

\* DB.Sync
Sync ==
  /\ up
  /\ durable' = Len(file)
  /\ UNCHANGED <<file, writeOffset, index, seqNo, up, crashes>>
-----------------------------------------------------------------------------
(* Open: loadIndexFromDataFiles over the one file                          *)

\* the records of an unfinished batch seq read so far
Staged(txn, s) == IF s \in DOMAIN txn THEN txn[s] ELSE <<>>

\* a replay turn's state: the index, the staged batches, the largest seqNo
ReplayInit == [index |-> <<>>, txn |-> <<>>, seq |-> NonTransaction]

\* Mutant: seqNo is set to the last record's, not the largest.
ApplyDecodedLastSeq(st, r, d, p) ==
  CASE d.seq = NonTransaction ->
         [st EXCEPT !.index = UpdateIndex(@, d.key, r.rec.type, p), !.seq = d.seq]
    [] r.rec.type = TransactionFinished ->
         [index |-> FoldLeft(LAMBDA x, t : UpdateIndex(x, t.key, t.type, t.pos),
                             st.index, Staged(st.txn, d.seq)),
          txn   |-> [s \in DOMAIN st.txn \ {d.seq} |-> st.txn[s]],
          seq   |-> d.seq]
    [] OTHER ->
         [st EXCEPT !.txn = (d.seq :> Append(Staged(@, d.seq),
                                [key |-> d.key, type |-> r.rec.type, pos |-> p])) @@ @,
                    !.seq = d.seq]
ApplyRecordLastSeq(st, r, off) ==
  ApplyDecodedLastSeq(st, r, DecodeKeyWithSeqNo(r.rec.key), [offset |-> off, size |-> r.size])

\* Mutant: a batch's records go to the index as they are read, without
\* waiting for the finished record.
ApplyDecodedNoStaging(st, r, d, p) ==
  LET seq == IF st.seq < d.seq THEN d.seq ELSE st.seq
  IN IF r.rec.type = TransactionFinished THEN [st EXCEPT !.seq = seq]
     ELSE [st EXCEPT !.index = UpdateIndex(@, d.key, r.rec.type, p), !.seq = seq]
ApplyRecordNoStaging(st, r, off) ==
  ApplyDecodedNoStaging(st, r, DecodeKeyWithSeqNo(r.rec.key), [offset |-> off, size |-> r.size])

\* one turn of the replay loop on the record r, its key and seqNo d and
\* its position p: a seq-0 record goes to the index at once, a batch's
\* records wait in txn until its finished record applies them in order,
\* the largest seqNo is kept
ApplyDecoded(st, r, d, p) ==
  LET seq == IF st.seq < d.seq THEN d.seq ELSE st.seq
  IN CASE d.seq = NonTransaction ->
            [st EXCEPT !.index = UpdateIndex(@, d.key, r.rec.type, p), !.seq = seq]
       [] r.rec.type = TransactionFinished ->
            [index |-> FoldLeft(LAMBDA x, t : UpdateIndex(x, t.key, t.type, t.pos),
                                st.index, Staged(st.txn, d.seq)),
             txn   |-> [s \in DOMAIN st.txn \ {d.seq} |-> st.txn[s]],
             seq   |-> seq]
       [] OTHER ->
            [st EXCEPT !.txn = (d.seq :> Append(Staged(@, d.seq),
                                   [key |-> d.key, type |-> r.rec.type, pos |-> p])) @@ @,
                       !.seq = seq]

\* the turn on the record r read at off
ApplyRecord(st, r, off) ==
  ApplyDecoded(st, r, DecodeKeyWithSeqNo(r.rec.key), [offset |-> off, size |-> r.size])

\* the loop over the file from offset off, on the record r read there:
\* io.EOF ends it, any other error fails Open
RECURSIVE ReplayFrom(_, _, _)
ReplayStep(f, off, st, r) ==
  CASE r.res = "EOF" -> [ok |-> TRUE, index |-> st.index, offset |-> off, seq |-> st.seq]
    [] r.res = "CRC" -> [ok |-> FALSE]
    [] OTHER -> ReplayFrom(f, off + r.size, ApplyRecord(st, r, off))
ReplayFrom(f, off, st) == ReplayStep(f, off, st, ReadLogRecord(f, off))

Replay(f) == ReplayFrom(f, 0, ReplayInit)

\* the offsets at which the records of f end, as the replay reads them
RECURSIVE RecordEnds(_, _)
RecordEndsAfter(f, off, r) ==
  IF r.res = "OK" THEN {off + r.size} \cup RecordEnds(f, off + r.size) ELSE {}
RecordEnds(f, off) == RecordEndsAfter(f, off, ReadLogRecord(f, off))

\* where a crash may cut the file: anywhere past the durable bytes when
\* writes can tear, else only between records
Cuts == IF TornWrites THEN durable..Len(file)
        ELSE {c \in {0} \cup RecordEnds(file, 0) : c >= durable}

\* Open after a crash that kept cut bytes, with the replay's result r
Reopen(cut, r) ==
  /\ file' = SubSeq(file, 1, cut)
  /\ durable' = cut
  /\ crashes' = crashes + 1
  /\ up' = r.ok
  /\ IF r.ok THEN /\ index' = r.index
                  /\ writeOffset' = r.offset
                  /\ seqNo' = r.seq
             ELSE UNCHANGED <<index, writeOffset, seqNo>>

\* a crash, then Open: the file keeps a prefix, the replay rebuilds the
\* index, WriteOffset and seqNo, or fails and the engine stays closed
CrashOpen ==
  /\ up
  /\ crashes < MaxCrashes
  /\ \E cut \in Cuts : Reopen(cut, Replay(SubSeq(file, 1, cut)))

\* getValueByPosition on the record r read at the position: Deleted as
\* not found
GotValue(r) ==
  CASE r.res # "OK"                  -> [ok |-> FALSE, err |-> r.res]
    [] r.rec.type = LogRecordDeleted -> [ok |-> FALSE, err |-> "NotFound"]
    [] OTHER -> [ok |-> TRUE, value |-> r.rec.value, key |-> r.rec.key]
GetValue(f, pos) == GotValue(ReadLogRecord(f, pos.offset))

-----------------------------------------------------------------------------
Init ==
  /\ file = <<>>
  /\ durable = 0
  /\ writeOffset = 0
  /\ index = <<>>
  /\ seqNo = NonTransaction
  /\ up = TRUE
  /\ crashes = 0

Next ==
  \/ \E k \in UserKeys, v \in Vals : Put(k, v)
  \/ \E k \in UserKeys : Delete(k)
  \/ \E pw \in PendingWrites : \E ks \in SetToSeqs(DOMAIN pw) : Commit(pw, ks)
  \/ Sync
  \/ CrashOpen

Spec == Init /\ [][Next]_vars
-----------------------------------------------------------------------------
(* Properties                                                              *)

DFTypeOK ==
  /\ file \in Seq(0..255) /\ Len(file) <= MaxBytes
  /\ durable \in 0..Len(file)
  /\ writeOffset \in 0..Len(file)
  /\ DOMAIN index \subseteq UserKeys
  /\ \A k \in DOMAIN index : index[k] \in [offset : 0..MaxBytes, size : 1..MaxBytes]
  /\ seqNo \in Nat /\ up \in BOOLEAN /\ crashes \in 0..MaxCrashes

\* Reopening the file at any moment rebuilds exactly the index the engine
\* holds, puts WriteOffset at the end of the last record and restores
\* seqNo (loadIndexFromDataFiles, db.go 545-601, against what Put, Delete
\* and Commit did to the index): the bytes written and the bytes read
\* agree.
ReplayRebuildsIndex ==
  up => Replay(file) = [ok |-> TRUE, index |-> index, offset |-> writeOffset,
                        seq |-> seqNo]

\* Get (getValueByPosition) of every key in the index reads back a
\* record of that key: the position Put or Commit took from WriteOffset,
\* or Open from the replay, is where the record is.
GetReadsBack ==
  up => \A k \in DOMAIN index :
          LET g == GetValue(file, index[k])
          IN g.ok /\ DecodeKeyWithSeqNo(g.key).key = k

\* the sequence numbers whose finished record is in f
FinishedSeqs(f) ==
  {DecodeKeyWithSeqNo(r.rec.key).seq :
     r \in {r \in {ReadLogRecord(f, o) : o \in {0} \cup RecordEnds(f, 0)} :
              r.res = "OK" /\ r.rec.type = TransactionFinished}}

\* After any crash, the index points only at records written outside a
\* batch or of a batch whose finished record reached the file: Open never
\* applies part of a batch (the txn staging of db.go 568-584).
IndexOnlyCommitted ==
  up => \A k \in DOMAIN index :
          LET s == DecodeKeyWithSeqNo(ReadLogRecord(file, index[k].offset).rec.key).seq
          IN s = NonTransaction \/ s \in FinishedSeqs(file)

\* A crash loses no synced write: a key whose current record lies wholly
\* in the durable bytes keeps that record across the crash and Open
\* (DB.Sync, db.go 165, as a barrier for every earlier append).
SyncedSurvivesCrash ==
  [][crashes' > crashes =>
       up' /\ \A k \in DOMAIN index :
                index[k].offset + index[k].size <= durable =>
                  k \in DOMAIN index' /\ index'[k] = index[k]]_vars

\* Open succeeds after every crash: a tail cut short reads as end of file
\* (spec.md: fewer than 5 header bytes, or a zero header, is end of file;
\* the replay treats EOF as the normal end and any other error as fatal).
OpenNeverFails == up
====
