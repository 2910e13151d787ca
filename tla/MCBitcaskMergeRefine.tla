------------------------- MODULE MCBitcaskMergeRefine -------------------------
(***************************************************************************)
(* The engine with Merge implements KVStore.  While the engine runs, the  *)
(* abstract store is the one of MCBitcaskRefine; while Open is in         *)
(* progress it is the store a completed Open would rebuild from the       *)
(* directories as they are, merge directory included.  A crash and every  *)
(* step of Open must then leave the store as it was: a restart of         *)
(* KVStore, or no change at all.                                          *)
(***************************************************************************)
EXTENDS BitcaskMerge, MCBitcaskRefine

MCNoFaults == {}

MergeStoreView == IF stage = "running" THEN StoreView ELSE RestartStore
\* MergeStoreView in the next state (the replay takes the primed variables
\* as arguments: TLC evaluates a primed recursive replay far more slowly)
NextStoreView == IF stage' = "running" THEN StoreView'
                 ELSE OpenStore(stage', files', hint', mark', mdir')

\* view holds MergeStoreView, so that the replay behind it is computed once
\* per state and not at every use of the abstract store
VARIABLE view

RInit == MInit /\ view = MergeStoreView
RNext == MNext /\ view' = NextStoreView
RSpec == RInit /\ [][RNext]_<<allVars, view>>

MKV == INSTANCE KVStore WITH Clients <- Writers, store <- view,
                             batch <- AbsBatch, phase <- AbsPhase

\* The store clients see survives Merge, a crash at any point of the merge
\* or of the Open that adopts it (loadMergeFiles' deletes and renames), and
\* the replay from the hint file: merging changes no value, and a restart
\* only drops the batches being staged or committed.
MRefines == MKV!Spec

\* A crash, and each step of the Open after it (loadMergeFiles' deletes and
\* renames, loadIndexFromHint, loadIndexFromDataFiles), changes no value a
\* Get would answer, not even one key's, which MRefines alone would read as
\* a client's Delete or Put.
RestartKeepsStore ==
  [][(stage # "running" \/ stage' # "running") => view' = view]_<<view, stage>>
==============================================================================
