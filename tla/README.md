# TLA+ models of gocaskDB

These modules model the Bitcask storage engine in `src/bitcask-go`. They are
checked with TLC. Everything here is translated from the Go source. Where the
code and `spec.md` disagree, the model follows the code and the disagreement
is recorded as a finding in `PROJECT.json`.

## 1. The system

| Part | Source | State | Operations |
|---|---|---|---|
| Engine | `db.go` | `activeFile` (fid, `WriteOffset`), `olderFiles`, `index`, `seqNo`, `bytesWrite`, `invalidSize`, `mu` (RWMutex), `isMerging` | `Open`, `Put`, `Delete`, `Get`, `Sync`, `ListKeys`, `Stat`, `Backup`, `Close` |
| Append path | `db.go` 359-432 | same | `appendLogRecordWithoutLock`: create the first file, roll over when `WriteOffset+size > DataFileSize`, write, sync by `SyncWrites` or `SyncPerBytes` |
| Startup | `db.go` 441-604 | same | `loadDataFiles` (sort the fids; the largest is active) and `loadIndexFromDataFiles` (replay the records, buffer batch records until their finished record, restore `seqNo` and `WriteOffset`) |
| Write batch | `batch.go` | `pendingWrites` (key to record), `wb.mu` | `PendingPut`, `PendingDelete`, `Commit` (under `db.mu`: `seqNo++`, append each record with the sequence number prefixed to its key, append a `fin` record, optional sync, then update the index) |
| Data file and record codec | `data/` | file bytes | `ReadLogRecord` (EOF on a short or zero header, CRC check), `Write`, `SyncFile`, `EncodeLogRecord`, `EncodeLogRecordPos` |
| File I/O | `fio/` | OS file opened with `O_APPEND` | `Read` (ReadAt), `Write`, `Sync`; the mmap reader is used only at startup |
| Key directory | `index/` | BTree, ART, hash or skip-list map from key to `LogRecordPos` | `Put` (returns the old position), `Get`, `Delete` (returns the old position and ok), `Iterator` |
| Iterator | `iterator.go` | a snapshot of the index | `Rewind`, `Seek`, `Next`, `Value` (reads through `Get`) |
| Merge | `merge.go` | `<dir>-merge` directory, hint file, `merged-mark` | `Merge` (roll the active file, rewrite live records, write the hint and the mark); `loadMergeFiles` and `loadIndexFromHint` at the next Open |
| Redis layer, HTTP API, benchmarks | `redis/`, `API/`, `benchmark/` | none of their own | thin wrappers over Put/Get/Delete |

How the parts interact:

- `Put` and `Delete` take `db.mu` only around the append. Their index updates
  happen after the lock is released, and `Delete`'s existence check happens
  before it is taken.
- `Get` reads under `db.mu.RLock`.
- `Commit` holds `db.mu` from the sequence number to the last index update.
- `PendingDelete` reads the index without any engine lock.
- Merge takes `db.mu` only to roll the active file. Its read loop asks the
  index, without the lock, whether each record is still live.
- Iterators and `ListKeys` copy the index under the index's own lock,
  never under `db.mu`.
- A crash can happen at any point. The next `Open` sees only what the OS kept:
  every file that was synced, and a prefix of the active file, perhaps ending
  in a torn record.

## 2. Hard behaviours (hazards)

The full list, with source lines, is under `hazards` in `PROJECT.json`:

- index updates of concurrent writers applied out of log order;
- a crash in the middle of a batch;
- a failed append or sync inside `Commit`;
- the sequence number restored by replay;
- a torn tail left by a crash, which replay treats as EOF while `O_APPEND`
  writes land after it;
- a torn tail that ends right after a record's crc and type bytes, which
  decodes as a header of sizes 0 and fails the CRC check instead of reading
  as EOF;
- the header window clamped to the end of the file;
- the rollover boundary and the `SyncPerBytes` boundary;
- merge's unlocked liveness test racing a Put whose index step is pending;
- `loadMergeFiles` crashing between its deletes and renames;
- iterator and `ListKeys` snapshots taken without `db.mu`, and `ListKeys`
  sizing its result with a second, separate index read;
- the boundaries of the iterators: reverse fills, reverse `Seek`, and a key
  exactly as long as the prefix;
- the index's own RWMutex: the btree's unlocked `Get` and `Size` beside a
  `Put` under `Lock`, and the skip list's `Iterator`, which takes `RLock`
  a second time through `Size()` while a writer may be waiting.

## 3. Modules

| Module | Models | State and actions |
|---|---|---|
| `Bitcask` | engine, write batch, data files, startup replay | described below |
| `KVStore` | the abstract store of `spec.md` 4.1, 4.5 and 8 | a map from keys to values changed by `Put`, `Delete` and atomic batch commits; a restart loses the staged batches |
| `MCBitcask` | TLC instance of `Bitcask` | fault sets for the cfgs |
| `MCBitcaskRefine` | `Bitcask` implements `KVStore` | the refinement mapping, and `Refines` |
| `BitcaskMerge` | `merge.go` composed with `Bitcask` | the merge goroutine and Open as a sequence of steps |
| `MCBitcaskMerge` | TLC instance of `BitcaskMerge` | |
| `MCBitcaskMergeRefine` | `BitcaskMerge` implements `KVStore` | the mapping cached in an auxiliary variable `view` |
| `BitcaskIter` | `iterator.go`, the index iterators, `ListKeys` | reader goroutines beside the engine's writers |
| `MCBitcaskIter` | TLC instance of `BitcaskIter` | three keys with byte strings `0`, `0 1`, `1` |
| `Codec` | `data/log_record.go`, `data/data_file.go` `ReadLogRecord`, the seqNo key prefix of `batch.go` | pure operators on byte strings |
| `DataFile` | the active data file at the byte level: Put, Delete, Commit, Sync, crash and Open | described below |
| `MCDataFile` | TLC instance of `DataFile` | user keys `1` and `2`; values empty and `7` |
| `IndexLock` | the locking inside each `index/` implementation | goroutines stepping through each method's RWMutex calls and tree accesses |
| `MCIndexLock` | TLC instance of `IndexLock` | the index types for the cfgs |

### `Bitcask`

- **Variables:**
  - `files`: fid to a sequence of records, or `Torn`;
  - `durable`: the synced prefix of the active file;
  - `activeFid`, `writeOffset`, `index`, `seqNo`, `bytesWrite`,
    `invalidSize`;
  - `mu`: the writer holding `db.mu`;
  - the per-goroutine program counter and locals (`pc`, `opKey`, `opPos`,
    `pending`, `commitSeq`, `todo`, `posTmp`).
- **Actions.** Each step between two lock operations of the code is one
  action:
  - `Put` is `Put` then `PutIndex`.
  - `Delete` is `DeleteCheck`, `DeleteAppend`, `DeleteIndex`.
  - `Commit` is `CommitBegin`, then one `CommitAppend` per key (in any order,
    because Go map order is random), then `CommitFin`, then one `CommitIndex`
    per key.
  - Failures are actions of their own: `CommitAppendFails` and
    `CommitSyncFails`.
  - The other actions are `Get`, `Sync`, `PendingPut`, `PendingDelete` and
    `CrashRestart`.
- **Startup.** `CrashRestart` keeps a prefix of the active file at least as
  long as its synced part, optionally followed by a torn record, and then
  runs `Open`. What Open reads back counts as synced. Replay is the
  recursive operator `Replay`: `loadDataFiles` followed by
  `loadIndexFromDataFiles`.
- **Data abstraction.**
  - Keys, values and goroutines are model values.
  - A record occupies one unit, so `DataFileSize`, `SyncPerBytes` and the
    offsets count records.
  - The batch sequence number is a field beside the key, because
    `encodeKeyWithSeqNo`/`decodeKeyWithSeqNo` are a lossless uvarint pair.
  - `MaxRecords` bounds the units in all files, `MaxCrashes` the crashes and
    `MaxIOErrors` the injected failures.

### `BitcaskMerge`

- **Variables:** `mdir` (the merge directory: its files, hint and mark),
  `hint` and `mark` (the hint file and merged-mark of the database
  directory), `mpc`, `isMerging`, `fnm` (firstNonMergedFid), `toMerge`,
  `cursor` (the record the read loop reads next), `merges`, and `stage`
  (`running`, or the step of Open in progress).
- **Merge goroutine:**
  - `MergeStart` is everything under `db.mu`: the checks, and the sync and
    roll of the active file.
  - `MergePrepare` clears and opens the merge directory.
  - `MergeScan` handles one record per step. It reads the index without
    `db.mu`, as the code does, and rewrites a live record with its hint
    entry.
  - `MergeFinish` writes the merged-mark, and the deferred reset of
    `isMerging`.
- **Open after a crash** is a sequence of steps, and a crash may fall
  between any two:
  - `Crash`;
  - `LoadMergeFiles`: drop an unfinished merge directory, or delete the
    fids below the mark;
  - `RenameOne`, once per entry, in directory order: data files, then
    `hint`, then `merged-mark`;
  - `LoadIndex`: `loadIndexFromHint`, then replay skipping the merged fids.
- **`OpenStore`** computes, for any stage, the store the rest of Open would
  rebuild. `RestartStore` applies it to the current state.

### `BitcaskIter`

- **Variables:** per reader, `ipc`, the snapshot `snap`, `cur` (currIndex,
  0-based), the options `reverse` and `prefix`, `from` (none, Rewind or a
  Seek key), the items read so far (`yielded`), and the index at snapshot
  time (`snapIndex`). For `ListKeys`: `lkeys`, `lsize`, `lres` and `lwant`.
- **Pure operators:**
  - `BytesCompare` is `bytes.Compare`.
  - `BTreeSnapshot`, `ArtSnapshot` and `SkipListSnapshot` are the three
    snapshot constructions: Descend, the reverse fill from `Size()-1`, and
    the swap loop.
  - `SortSearch` is `sort.Search` as Go implements it (binary search over
    `[i, j)`).
  - `NextPrefix` is `nextPrefix`.
- **Actions:**
  - `NewIterator` takes the snapshot as one step under the index lock,
    without `db.mu`, so it may fall inside a batch's index loop.
  - `IterRewind`, `IterSeek`, `IterNext` and `IterClose`. `IterNext` is one
    turn of `for Valid() { Key(); Next() }`.
  - `ListKeys` is `ListKeysIter`, `ListKeysSize`, then `ListKeysLoop`, or
    `ListKeysPanic` when the snapshot is longer than the size read.
- **Specs.** `ISpec` runs iterators and `LSpec` runs `ListKeys`. Both run
  beside the engine's writers within one process lifetime: an iterator is
  memory only and ends with the process.
- **Reference definitions.** `LexLess` (the byte order stated without
  recursion) and `Expected` (the wanted keys listed by rank) are written
  independently of the code's operators.

### `Codec` and `DataFile`

`Codec` writes the record format down byte by byte, as the code produces
and reads it:

- `PutUvarint`/`Uvarint` and `PutVarint`/`Varint` are Go's
  `encoding/binary`. This includes the `(0, 0)` result on a buffer that
  ends too early, which `decodeLogRecordHeader` adds to its index without
  checking.
- `Crc32` is `crc32.ChecksumIEEE`, computed with the IEEE table
  (`CrcTable`). A 32-bit value is held as its four little-endian bytes,
  because TLC's integers are 32-bit signed.
- Each costly intermediate value, such as a decoded header, a read record
  or an encoded record, is handed to a helper operator as an argument
  (`ReadFromHeader`, `ReadAfterHeader`, `ReadKeyValue`, `CheckRecord`;
  `AppendOne`, `Committed`, `ReplayStep`, `Reopen`), not named in a `LET`
  that is used several times. Each helper covers the lines of the code
  step it stands for. TLC's coverage profiler expands a `LET` definition
  once per use, so nested multiple uses grow its model exponentially.
- `EncodeLogRecord` and `DecodeLogRecordHeader` are `data/log_record.go`.
- `ReadLogRecord` is `File.ReadLogRecord`:
  - the header window is clamped to the end of the file (`HeaderBytes`);
  - a short `ReadAt` is `io.EOF` (`ReadNBytes`);
  - the EOF tests are those of lines 89-95;
  - the CRC check covers the header bytes after the crc, then the key and
    the value.

`DataFile` is one active data file:

- **State.** `file` is the bytes the OS holds. `durable` is how many of
  them a crash keeps. The other variables are `writeOffset`, `index`
  (key to offset and size), `seqNo`, and `up` (FALSE once Open has
  failed).
- **Writes.** `Put`, `Delete` and `Commit` append encoded records:
  - each key carries `encodeKeyWithSeqNo`: sequence 0 outside a batch,
    `seqNo+1` inside one;
  - a batch ends with its `fin` record;
  - a batch's records are written in every order Go's map iteration can
    take.
  `WriteRecord` puts the bytes at the end of the file, as `O_APPEND` does.
  The position it hands back is `WriteOffset`.
- **Crash and Open.** `CrashOpen` cuts the file:
  - with `TornWrites`, at any byte past `durable`;
  - otherwise, only between records.
  It then replays the file with `Replay`, which is `loadIndexFromDataFiles`
  for one file: seq-0 records are applied at once, batch records are
  staged until their finished record, and the largest seqNo is kept.
- **What is left out.** One writer holds `db.mu` for each operation. There
  is no rollover, and `SyncPerBytes` is 0. Concurrency, rollover and the
  sync threshold are `Bitcask`'s; this module is about the bytes.

### `IndexLock`

Each index implementation guards its tree with a `sync.RWMutex`. The engine
calls it from several goroutines at once: `DB.Put` and `DB.Delete` update
the index after releasing `db.mu`, and `NewIterator` and `ListKeys` take no
engine lock. `IndexLock` models one call as the sequence of lock steps and
tree accesses its method makes, in the method's order:

| Type | Put, Delete | Get, Size | Iterator |
|---|---|---|---|
| BTree (`btree.go`) | Lock, Write, Unlock | Read, no lock | RLock, Read, RUnlock |
| Hash (`hash.go`) | Lock, Write, Unlock | RLock, Read, RUnlock | panics: not called |
| ART (`art.go`) | Lock, Write, Unlock | RLock, Read, RUnlock | RLock, Read, RUnlock |
| SkipList (`skipList.go`) | Lock, Write, Unlock | RLock, Read, RUnlock | RLock, RLock (`Size()` in `NewSkipListIterator`), Read, RUnlock, Read, RUnlock |

- **State.** `pc` and `call` give each goroutine's place in its plan, and
  `acc` says whether it is inside a tree access. `keys` is the tree's key
  set.
- **The mutex** follows Go's `sync.RWMutex`, which prefers writers:
  - `Lock` first takes the writer mutex (`writer`) and records the read
    holds present then (`readerWait`);
  - `LockAcquire` completes the Lock once those holds are released
    (`wheld`);
  - `RLock` blocks (`rblocked`) while a writer is announced or holds the
    lock, even when the caller already has a read hold;
  - `Unlock` lets every blocked reader go on with its hold.
- **Actions.** `Call` starts a method. `RLock`, `RUnlock`, `Lock`,
  `LockAcquire`, `Unlock`, `BeginAccess` and `EndAccess` are its steps.
  `EndAccess` of a write applies the Put or Delete to `keys`.

## 4. Runs

| Run | Checks | Result |
|---|---|---|
| `core` (`MCBitcask_core.cfg`) | `TypeOK`; `ReadsNeverFail` (a Get never reports a missing file, a read error or a corrupted record); `UnsyncedBound` (at most `SyncPerBytes` units of the active file are unsynced); `SeqNoFresh` (a commit never takes a sequence number already on disk, across failed appends, failed final syncs and their retries, and a crash) | pass, about 330k states |
| `refine` | `Refines`: Bitcask implements KVStore, with SyncWrites on; `IndexMatchesReplay` (when no write is in flight, the index equals what Open would rebuild); `InvalidSizeMatchesReplay` | pass, about 500k states |
| `torn` | `IndexMatchesReplay` with torn tails | violation: `O_APPEND` against the restored `WriteOffset` |
| `merge_refine` | `MRefines` (engine plus merge implements KVStore); `RestartKeepsStore` (a crash and every step of Open leave the store unchanged); `RestartPreservesStore` (whenever no write is in flight, Open would rebuild exactly the store clients read). Batch appends may fail twice | pass, about 220k states |
| `mergeput` | `RestartPreservesStore` with single-key Put/Delete beside a merge | violation: merge drops a record whose index step is pending |
| `adopt` | `RestartKeepsStore` with two crashes | violation: a crash between renames deletes a renamed merged file |
| `iter` | `ITypeOK`; `IterYieldsSnapshot` (spec.md 235: a loop from Rewind or Seek reads exactly the snapshot's live keys with the prefix, from the seek key on, in order, with their positions); `SnapshotsAgree` (the ART, BTree and skip-list snapshots are equal on every reachable index) | pass, about 870k states |
| `datafile` (`MCDataFile_datafile.cfg`) | `DFTypeOK`; `ReplayRebuildsIndex` (replaying the bytes gives back the index, `WriteOffset` at the end of the last record, and `seqNo`); `GetReadsBack` (every index position reads a record of its own key); `IndexOnlyCommitted` (after a crash between records, no index entry points at a record of a batch whose finished record is missing); `SyncedSurvivesCrash` (a key whose record lies within the synced bytes keeps it across a crash) | pass, about 3.5k states |
| `tornheader` | `OpenNeverFails` with torn writes | violation: a cut after the crc and type bytes gives a CRC error, and Open fails |
| `listkeys` | `ListKeysExact`: ListKeys returns the ordered live keys of its snapshot, without nil slots or a panic | violation: a Put between the snapshot and `Size()` leaves a nil key; a Delete there makes it panic |
| `indexlock` | `ILTypeOK`; `NoDataRace` (no goroutine reads or writes the tree while another writes it); `CallsReturn` (every index call returns), for the hash table and the radix tree with two goroutines and two keys | pass, about 15k states |
| `skiplist_deadlock` | `CallsReturn` for the skip list | violation: Iterator's first `RLock`, a Put's or Delete's `Lock`, Iterator's second `RLock`, and both goroutines block for ever |

The violations are the findings in `PROJECT.json`.

- **Passing runs:**
  - `datafile` cuts the file only between records. `tornheader` shows that
    a cut inside a header can make Open fail. `torn` shows what a cut that
    reads as EOF does to later writes.
  - They use one writer. Put and Delete update the index after releasing
    `db.mu` (db.go 243, 277), so two writers of one key can leave the index
    behind the log. `mergeput` shows the same window losing a write when a
    merge runs in it.
  - The crash model in `core`, `merge_refine` and `refine` is without torn writes,
    because the torn run shows that torn tails break it.
  - `refine` and the merge runs use SyncWrites, because without it a crash
    may lose acknowledged writes, which KVStore does not allow.
  - `merge_refine` uses batches only, because `mergeput` shows that a
    single-key Put racing the merge loses a write.
  - `core` has `SyncPerBytes = 1` and files of 2 units, so the threshold
    is crossed inside a file and across a rollover.
- **Refinement mapping.**
  - The abstract store is the value each key's index position names.
  - An appended write whose index step is still pending counts as done: a
    Put or Delete takes effect when its record is appended, and a batch when
    its finished record is.
  - So a crash maps to `KVStore!Restart` only if Open rebuilds exactly the
    store that clients could read.
  - During Open, in `BitcaskMerge`, the store is `RestartStore`, which is
    cached in the variable `view`. TLC evaluates the recursive replay once
    per state there, and not once per primed reference.
  - KVStore lets an idle client put or delete any key in one step. So
    `RestartKeepsStore` states separately that crash and Open steps leave
    the store unchanged.

**Bounds.** Runs use two keys, or three for the iterator. With rollover
every 2 records and 3-6 units in total, one behaviour can contain:

- a rollover in the middle of a two-key batch;
- a failed append leaving orphan records;
- a crash at any point after them;
- further writes after the restart;
- a merge of two older files, and a crash at each step of the following
  Open;
- a snapshot taken between the two index steps of a batch.

`datafile` has two keys, an empty and a one-byte value, batches of up to
two keys, and files of up to 36 bytes. A record is 9-11 bytes, and a
two-key batch with its finished record is about 30. So one behaviour can
contain:

- a synced Put followed by a batch, with a crash cutting the batch before
  its finished record;
- a batch in either order;
- a Delete of a key that a batch wrote.

At 40 bytes the run takes minutes, because every state replays its file
through the CRC.

`indexlock` and `skiplist_deadlock` use two goroutines. That is the
fewest that can race or deadlock, and every pair of methods is reached in
every interleaving of their steps. A reader holding the lock while a writer
announces itself is reached too, as is a reader blocked behind that writer.
Three goroutines (578k states) take 15 minutes with coverage and reach no
new kind of pair.

The iterator keys are `0`, `0 1` and `1`:

- prefix `0` matches a key exactly as long as it, a longer key, and not
  the third key;
- the seek key `0 0` falls between two keys, and `0 1` equals one;
- together they reach every boundary of `nextPrefix` and of `sort.Search`,
  in both directions.

Each mutant listed in `PROJECT.json` is a plausible bug in the mapped code,
and each makes its property fail under that property's cfg:

- `OpenFilesNoOffset`: WriteOffset not restored.
- `CommitIndexNoTomb`: the batch tombstone not charged.
- `ReplayRecordFinSeq`: seqNo restored only from finished records.
- `AppendPosNoReset`: offset not reset after a rollover.
- `ReplayRecordNoTxn`: batch records applied before their finished record.
- `RollsNoSize`: the rollover check leaves out the size of the record to
  write, so the active file grows past `DataFileSize`.
- `AppendLogRecordLateSync`: an off-by-one in the SyncPerBytes test.
- `MergeScanSkipsLast`.
- `AdoptedDeletesMark` and `LoadMergeFilesDeletesMark`: the first
  non-merged file deleted.
- `PlanARTDoubleRUnlock`: the radix tree's `Size` unlocks twice.
- `PlanHashUnlockedGet`: the hash table's `Get` reads without `RLock`, as
  the btree's does.
- `UnlockNoWake` (in the model of `sync.RWMutex`, not of the repository):
  `Unlock` not releasing the readers blocked in `RLock`. `skiplist_deadlock`
  shows the same property failing on the repository's own nested `RLock`.
- `ArtSnapshotFromSize`: the reverse fill started at `Size()`.
- `SwapLoopShort`: the swap loop stops a pair early.
- `NextPrefixStrict`: `<` for `<=` in `nextPrefix`.
- `WriteRecordHeaderSize`: WriteOffset advanced by the largest header size
  instead of the bytes written.
- `WriteRecordEndPos`: the position taken after the write.
- `ApplyRecordLastSeq`: seqNo set from the last record rather than the
  largest.
- `ApplyRecordNoStaging`: batch records applied as they are read.
- `HeaderBytesNoClamp`: the header always read as 15 bytes, so a short
  last record reads as EOF.

**Fairness.**
- The only liveness property is `CallsReturn`.
- `CallsReturn` assumes weak fairness of each goroutine's steps inside an
  index call (the Go scheduler), and strong fairness of `Lock` taking the
  writer mutex: `sync.Mutex` switches to starvation mode and hands the
  mutex to a writer that has waited over 1 ms. No goroutine is obliged to
  make a call.

## 5. Not modelled, and the plan

The next sittings add, in this order:

1. **Batch atomicity of snapshots.** A property for `spec.md` 181: an
   iterator sees all of a batch or none of it. The code lets the snapshot
   fall inside the index loop.
2. **Two-writer runs.** The runs are at the budget of twelve, so a
   two-writer run has to replace one:
   - A run with the Put index race, showing two Puts of one key leaving
     the index on the older record (db.go 243), and the unlocked
     check-then-delete of Delete (db.go 277).
   - A run with the Put index race removed, to isolate the `invalidSize` lost
     update and the Delete/Delete `ErrIndexUpdateFailed` path.
   - A liveness check that every started call returns, under weak fairness
     of each goroutine's steps.

Left out for good:

- `EncodeLogRecordPos`/`DecodeLogRecordPos` and the hint file's bytes:
  - TLC's 32-bit integers cannot hold the `uint32`/`int64` casts that
    matter there;
  - the merge model keeps hint entries as abstract positions.
- Values of 64 bytes or more, which need two-byte varints: TLC evaluates
  operator arguments lazily, and the CRC recursion over such a record
  overflows its stack.
- A batch whose final sync fails (`CommitSyncFails`):
  - `core` fires it and checks `SeqNoFresh`, `ReadsNeverFail` and
    `UnsyncedBound` across it. The replay-equality invariants are
    therefore checked in `refine`, whose faults are appends only;
  - with the sync fault, TLC breaks `IndexMatchesReplay` and, with
    `BatchSyncWrites` on in the `merge_refine` cfg, `RestartPreservesStore`
    in five steps. Commit returns the sync error
    with the batch and its finished record in the file and the index
    unchanged. Get answers the old value, the next Open replays the batch,
    and a retry commits it again under a new sequence number;
  - `spec.md` does not say whether a Commit reported as failed may take
    effect later, and the runs are at their budget of twelve, so no
    violation run is kept for it.

- the redis layer, the HTTP API, `utils` (disk sizes, directory copy),
  benchmarks and `tmp/skipList.go`: I/O or wrappers;
- `Stat` and `Backup`, which only read, and `Close`;
- the mmap reader, which only reads at startup;
- the Hash index iterator, which panics with "not implemented" (allowed by
  `spec.md`);
- the trees' own algorithms (google/btree, the adaptive radix tree,
  stl4go's skip list): in `Bitcask` and `BitcaskIter` each index operation
  is an atomic map operation, and `IndexLock` keeps only the lock calls and
  the accesses between them.
- a second Merge racing the first one's deferred `isMerging = false`
  (merge.go 60-62, written without `db.mu`): the merge runs have one merge
  goroutine, and a run with two has no slot among the twelve.
- a run of `IndexLock` over the btree: `NoDataRace` fails there in two
  steps (a Put holding `Lock` writes while an unlocked `Get` reads), and
  the twelve-run budget went to the skip list's deadlock, which needs the
  model checker to find.
- `SyncPerBytes`: the code syncs once `bytesWrite > SyncPerBytes`, where
  `spec.md` 4.4 says `>=`. `UnsyncedBound` checks the code's bound, which
  is one record looser than the spec's.
