---------------------------- MODULE BitcaskMerge ----------------------------
(***************************************************************************)
(* Merge (src/bitcask-go/merge.go) composed with the engine of Bitcask.   *)
(* A merge rolls the active file under db.mu, then, without the lock,      *)
(* reads every record of the older files and rewrites the ones the index  *)
(* still points at into a fresh database in the merge directory, writing  *)
(* a hint entry for each.  A merged-mark file naming firstNonMergedFid    *)
(* finishes it.  Nothing changes in the database directory until the next *)
(* Open: loadMergeFiles deletes the merged files and renames the merge    *)
(* directory's files in, one by one, then loadIndexFromHint and           *)
(* loadIndexFromDataFiles (skipping the merged fids) rebuild the index.   *)
(*                                                                         *)
(* Open is therefore a sequence of steps here, and a crash may fall       *)
(* between any two of them.  Data files written by the merge database are *)
(* synced before the mark is written, so the merge directory is modelled  *)
(* without its own crash tails.                                           *)
(***************************************************************************)
EXTENDS Bitcask, Functions

CONSTANTS
  MaxMerges,      \* bound: Merge calls that pass the ratio check
  MergeRatio,     \* Options.MergeRatioThreshold, in percent
  SingleKeyOps    \* do clients call Put/Delete, or only WriteBatch?

ASSUME MaxMerges \in Nat /\ MergeRatio \in 0..100 /\ SingleKeyOps \in BOOLEAN

VARIABLES
  mdir,       \* the <dir>-merge directory: None or [files, hint, mark]
  hint,       \* the hint file of the database directory (<<>> when absent)
  mark,       \* firstNonMergedFid in its merged-mark file, or None
  mpc,        \* step of the merge goroutine
  isMerging,  \* db.isMerging
  fnm,        \* firstNonMergedFid of the merge in progress
  toMerge,    \* filesToBeMerged, ascending
  cursor,     \* [i, off]: the record of toMerge[i] the merge reads next
  merges,     \* merges started
  stage       \* "running", or the step of Open in progress, or "failed"

mvars == <<mdir, hint, mark, mpc, isMerging, fnm, toMerge, cursor, merges, stage>>
allVars == <<vars, mvars>>

NoCursor == [i |-> 0, off |-> 0]

-----------------------------------------------------------------------------
(* Open with merge files: pure functions of the directories.              *)

\* loadIndexFromHint: each hint record puts its key at its position
HintIndex(h) == FoldLeft(LAMBDA idx, e : [idx EXCEPT ![e.key] = e.pos],
                         [k \in Keys |-> NoPos], h)

\* loadIndexFromHint, then loadIndexFromDataFiles skipping fids below the
\* merged-mark's firstNonMergedFid
RestartIndex(fs, h, mk) ==
  ReplayFids([index |-> HintIndex(h), inv |-> 0, txn |-> <<>>,
              seq |-> NonTransaction, offset |-> 0, err |-> FALSE],
             fs, Ascending({f \in DOMAIN fs : mk = None \/ f >= mk}))

\* Mutant: the first non-merged file is deleted with the merged ones.
AdoptedDeletesMark(fs, h, mk, md) ==
  IF md = None \/ md.mark = None THEN [files |-> fs, hint |-> h, mark |-> mk]
  ELSE [files |-> md.files @@ Restrict(fs, {f \in DOMAIN fs : f > md.mark}),
        hint |-> IF md.hint # None THEN md.hint ELSE h, mark |-> md.mark]

\* the directory once loadMergeFiles has run to its end
Adopted(fs, h, mk, md) ==
  IF md = None \/ md.mark = None THEN [files |-> fs, hint |-> h, mark |-> mk]
  ELSE [files |-> md.files @@ Restrict(fs, {f \in DOMAIN fs : f >= md.mark}),
        hint |-> IF md.hint # None THEN md.hint ELSE h, mark |-> md.mark]

-----------------------------------------------------------------------------
(* The merge goroutine.                                                   *)

\* Merge up to db.mu.Unlock: the ratio check, the sync and roll of the
\* active file, and the choice of the files to merge (every older file).
\* An engine without older files, a merge in progress or a ratio below
\* the threshold return without a change of state.
MergeStart ==
  /\ stage = "running" /\ mpc = "idle" /\ mu = None /\ merges < MaxMerges
  /\ ~isMerging /\ activeFid # 0 /\ Cardinality(DOMAIN files) > 1
  /\ invalidSize * 100 >= MergeRatio * TotalUnits
  /\ files' = files @@ (activeFid + 1 :> <<>>)
  /\ activeFid' = activeFid + 1
  /\ writeOffset' = 0
  /\ durable' = 0
  /\ fnm' = activeFid + 1
  /\ toMerge' = Ascending(DOMAIN files)
  /\ isMerging' = TRUE
  /\ merges' = merges + 1
  /\ mpc' = "prepare"
  /\ UNCHANGED <<index, seqNo, bytesWrite, invalidSize, mu, lastGet, crashes,
                 ioErrors, opened>>
  /\ UNCHANGED writerVars
  /\ UNCHANGED <<mdir, hint, mark, cursor, stage>>

\* the merge directory is emptied and a merge database and hint file opened
MergePrepare ==
  /\ mpc = "prepare"
  /\ mdir' = [files |-> <<>>, hint |-> <<>>, mark |-> None]
  /\ cursor' = [i |-> 1, off |-> 0]
  /\ mpc' = "scan"
  /\ UNCHANGED vars
  /\ UNCHANGED <<hint, mark, isMerging, fnm, toMerge, merges, stage>>

\* mergeDB.appendLogRecordWithoutLock: first file 1, rollover by DataFileSize
MergePos ==
  LET last == IF DOMAIN mdir.files = {} THEN 0 ELSE Max(DOMAIN mdir.files) IN
  IF last = 0 THEN [fid |-> 1, off |-> 0]
  ELSE IF Len(mdir.files[last]) + RecSize > DataFileSize
       THEN [fid |-> last + 1, off |-> 0]
       ELSE [fid |-> last, off |-> Len(mdir.files[last])]

MergeAppend(r) ==
  LET p   == MergePos
      rec == [r EXCEPT !.seq = NonTransaction]
      old == IF p.fid \in DOMAIN mdir.files THEN mdir.files[p.fid] ELSE <<>>
  IN [mdir EXCEPT !.files = (p.fid :> Append(old, rec)) @@ @,
                  !.hint = Append(@, [key |-> r.key, pos |-> p])]

\* Mutant: the loop over filesToBeMerged stops before the last file.
MergeScanSkipsLast ==
  /\ mpc = "scan"
  /\ LET fid   == toMerge[cursor.i]
         items == files[fid]
         off   == cursor.off
     IN IF off >= Len(items) \/ items[off + 1] = Torn
        THEN /\ cursor' = [i |-> cursor.i + 1, off |-> 0]
             /\ mpc' = IF cursor.i >= Len(toMerge) - 1 THEN "finish" ELSE "scan"
             /\ UNCHANGED mdir
        ELSE LET r    == items[off + 1]
                 live == r.key \in Keys /\ index[r.key] = [fid |-> fid, off |-> off]
             IN /\ mdir' = IF live THEN MergeAppend(r) ELSE mdir
                /\ cursor' = [cursor EXCEPT !.off = @ + 1]
                /\ UNCHANGED mpc
  /\ UNCHANGED vars
  /\ UNCHANGED <<hint, mark, isMerging, fnm, toMerge, merges, stage>>

\* one turn of the read loop: the record at the cursor is rewritten when
\* the index, read without db.mu, still points at it; EOF (also a torn
\* tail) moves on to the next file
MergeScan ==
  /\ mpc = "scan"
  /\ LET fid   == toMerge[cursor.i]
         items == files[fid]
         off   == cursor.off
     IN IF off >= Len(items) \/ items[off + 1] = Torn
        THEN /\ cursor' = [i |-> cursor.i + 1, off |-> 0]
             /\ mpc' = IF cursor.i = Len(toMerge) THEN "finish" ELSE "scan"
             /\ UNCHANGED mdir
        ELSE LET r    == items[off + 1]
                 live == r.key \in Keys /\ index[r.key] = [fid |-> fid, off |-> off]
             IN /\ mdir' = IF live THEN MergeAppend(r) ELSE mdir
                /\ cursor' = [cursor EXCEPT !.off = @ + 1]
                /\ UNCHANGED mpc
  /\ UNCHANGED vars
  /\ UNCHANGED <<hint, mark, isMerging, fnm, toMerge, merges, stage>>

\* the syncs and the merged-mark; the deferred isMerging = false
MergeFinish ==
  /\ mpc = "finish"
  /\ mdir' = [mdir EXCEPT !.mark = fnm]
  /\ mpc' = "idle"
  /\ isMerging' = FALSE
  /\ fnm' = 0
  /\ toMerge' = <<>>
  /\ cursor' = NoCursor
  /\ UNCHANGED vars
  /\ UNCHANGED <<hint, mark, merges, stage>>

-----------------------------------------------------------------------------
(* Crash, and Open in steps.                                              *)

\* the process dies: the goroutines and the merge in progress are gone,
\* the active file keeps what CrashTails allows (nothing is written while
\* Open runs), and Open starts over
Crash ==
  /\ stage # "failed" /\ crashes < MaxCrashes
  /\ crashes' = crashes + 1
  /\ files' \in IF stage = "running" THEN CrashTails ELSE {files}
  /\ opened' = FALSE
  /\ mu' = None
  /\ pc' = [w \in Writers |-> "idle"]
  /\ opKey' = [w \in Writers |-> NoKey]
  /\ opPos' = [w \in Writers |-> NoPos]
  /\ pending' = [w \in Writers |-> NoPending]
  /\ commitSeq' = [w \in Writers |-> 0]
  /\ todo' = [w \in Writers |-> {}]
  /\ posTmp' = [w \in Writers |-> [k \in Keys |-> NoPos]]
  /\ mpc' = "idle"
  /\ isMerging' = FALSE
  /\ fnm' = 0
  /\ toMerge' = <<>>
  /\ cursor' = NoCursor
  /\ stage' = "loadmerge"
  /\ UNCHANGED <<durable, activeFid, writeOffset, index, seqNo, bytesWrite,
                 invalidSize, lastGet, ioErrors>>
  /\ UNCHANGED <<mdir, hint, mark, merges>>

\* Mutant: the delete loop runs up to firstNonMergedFid inclusive.
LoadMergeFilesDeletesMark ==
  /\ stage = "loadmerge"
  /\ IF mdir = None \/ mdir.mark = None
     THEN /\ mdir' = None
          /\ stage' = "load"
          /\ UNCHANGED files
     ELSE /\ files' = Restrict(files, {f \in DOMAIN files : f > mdir.mark})
          /\ stage' = "rename"
          /\ UNCHANGED mdir
  /\ UNCHANGED <<durable, activeFid, writeOffset, index, seqNo, bytesWrite,
                 invalidSize, mu, lastGet, crashes, ioErrors, opened>>
  /\ UNCHANGED writerVars
  /\ UNCHANGED <<hint, mark, mpc, isMerging, fnm, toMerge, cursor, merges>>

\* loadMergeFiles up to the renames: an unfinished merge directory is
\* removed; a finished one has every data file below its
\* firstNonMergedFid deleted from the database directory
LoadMergeFiles ==
  /\ stage = "loadmerge"
  /\ IF mdir = None \/ mdir.mark = None
     THEN /\ mdir' = None
          /\ stage' = "load"
          /\ UNCHANGED files
     ELSE /\ files' = Restrict(files, {f \in DOMAIN files : f >= mdir.mark})
          /\ stage' = "rename"
          /\ UNCHANGED mdir
  /\ UNCHANGED <<durable, activeFid, writeOffset, index, seqNo, bytesWrite,
                 invalidSize, mu, lastGet, crashes, ioErrors, opened>>
  /\ UNCHANGED writerVars
  /\ UNCHANGED <<hint, mark, mpc, isMerging, fnm, toMerge, cursor, merges>>

\* one os.Rename, in the order os.ReadDir lists the merge directory:
\* the data files (000000001.data ...), then hint, then merged-mark;
\* after the last one the deferred RemoveAll drops the directory
RenameOne ==
  /\ stage = "rename"
  /\ CASE DOMAIN mdir.files # {} ->
            LET f == Min(DOMAIN mdir.files) IN
            /\ files' = (f :> mdir.files[f]) @@ files
            /\ mdir' = [mdir EXCEPT !.files = Restrict(@, DOMAIN @ \ {f})]
            /\ UNCHANGED <<hint, mark, stage>>
       [] mdir.hint # None ->
            /\ hint' = mdir.hint
            /\ mdir' = [mdir EXCEPT !.hint = None]
            /\ UNCHANGED <<files, mark, stage>>
       [] OTHER ->
            /\ mark' = mdir.mark
            /\ mdir' = None
            /\ stage' = "load"
            /\ UNCHANGED <<files, hint>>
  /\ UNCHANGED <<durable, activeFid, writeOffset, index, seqNo, bytesWrite,
                 invalidSize, mu, lastGet, crashes, ioErrors, opened>>
  /\ UNCHANGED writerVars
  /\ UNCHANGED <<mpc, isMerging, fnm, toMerge, cursor, merges>>

\* loadDataFiles, loadIndexFromHint and loadIndexFromDataFiles
LoadIndex ==
  /\ stage = "load"
  /\ LET st == RestartIndex(files, hint, mark) IN
     /\ opened' = ~st.err
     /\ stage' = IF st.err THEN "failed" ELSE "running"
     /\ activeFid' = IF DOMAIN files = {} THEN 0 ELSE Max(DOMAIN files)
     /\ writeOffset' = st.offset
     /\ durable' = IF DOMAIN files = {} THEN 0 ELSE Len(files[Max(DOMAIN files)])
     /\ index' = st.index
     /\ invalidSize' = st.inv
     /\ seqNo' = st.seq
     /\ bytesWrite' = 0
  /\ UNCHANGED <<files, mu, lastGet, crashes, ioErrors>>
  /\ UNCHANGED writerVars
  /\ UNCHANGED <<mdir, hint, mark, mpc, isMerging, fnm, toMerge, cursor, merges>>

-----------------------------------------------------------------------------
MInit ==
  /\ Init
  /\ mdir = None
  /\ hint = <<>>
  /\ mark = None
  /\ mpc = "idle"
  /\ isMerging = FALSE
  /\ fnm = 0
  /\ toMerge = <<>>
  /\ cursor = NoCursor
  /\ merges = 0
  /\ stage = "running"

\* the engine's own steps, with the workload of the configuration
EngineStep ==
  /\ \/ \E w \in Writers : (SingleKeyOps /\ SingleKeyStep(w)) \/ BatchStep(w)
     \/ \E r \in Readers, k \in Keys : Get(r, k)
     \/ Sync
  /\ UNCHANGED mvars

MNext ==
  \/ EngineStep
  \/ MergeStart \/ MergePrepare \/ MergeScan \/ MergeFinish
  \/ Crash \/ LoadMergeFiles \/ RenameOne \/ LoadIndex

MSpec == MInit /\ [][MNext]_allVars

-----------------------------------------------------------------------------
(* Properties.                                                            *)

\* the directory once the Open in stage stg (or, while the engine runs, the
\* next Open) has run loadMergeFiles to its end
OpenDir(stg, fs, h, mk, md) ==
  CASE stg = "rename" ->
         [files |-> md.files @@ fs, mark |-> md.mark,
          hint  |-> IF md.hint # None THEN md.hint ELSE h]
    [] stg = "load" -> [files |-> fs, hint |-> h, mark |-> mk]
    [] OTHER -> Adopted(fs, h, mk, md)

\* what every Get answers once that Open has finished
OpenStore(stg, fs, h, mk, md) ==
  LET a  == OpenDir(stg, fs, h, mk, md)
      st == RestartIndex(a.files, a.hint, a.mark)
  IN IF st.err THEN [k \in Keys |-> Torn]
     ELSE [k \in Keys |-> ValueIn(a.files, st.index[k])]

\* the values a Get answers now, and the values it would answer after a
\* restart that adopts the merge directory
LiveStore == [k \in Keys |-> ValueIn(files, index[k])]
RestartStore == OpenStore(stage, files, hint, mark, mdir)

\* Whenever no write is in flight, a restart, adopting a finished merge or
\* dropping an unfinished one, answers every Get as the running engine
\* does: Merge's unlocked liveness check (merge.go 136-139), the hint
\* positions and firstNonMergedFid lose and resurrect nothing.
RestartPreservesStore ==
  stage = "running" /\ Quiet => RestartStore = LiveStore
==============================================================================
