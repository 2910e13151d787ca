--------------------------- MODULE MCBitcaskRefine ---------------------------
(***************************************************************************)
(* Bitcask implements KVStore.  The abstract store is the in-memory index *)
(* read through the data files, with the step a writer has taken but not  *)
(* yet applied to the index counted as done: a put or delete takes effect *)
(* when its record is appended, a batch when its finished record is.  A   *)
(* crash then maps to a restart only if Open rebuilds the same store from *)
(* the files.  A batch is "committing" until its finished record is       *)
(* written and empty from then on.                                         *)
(***************************************************************************)
EXTENDS Bitcask

CONSTANT Tomb

MCAppendFaults == {"append"}

\* the value key k has once the writers' appended writes reach the index
StoreView == [k \in Keys |->
  IF \E w \in Writers : pc[w] = "put_index" /\ opKey[w] = k
  THEN ValueIn(files, opPos[CHOOSE w \in Writers : pc[w] = "put_index" /\ opKey[w] = k])
  ELSE IF \E w \in Writers : pc[w] = "del_index" /\ opKey[w] = k THEN NoVal
  ELSE IF \E w \in Writers : pc[w] = "commit_index" /\ k \in todo[w]
  THEN LET w == CHOOSE w \in Writers : pc[w] = "commit_index" /\ k \in todo[w] IN
       IF pending[w][k].type = Deleted THEN NoVal ELSE pending[w][k].val
  ELSE ValueIn(files, index[k])]

AbsBatch == [w \in Writers |->
               IF pc[w] = "commit_index" THEN [k \in Keys |-> NoOp]
               ELSE [k \in Keys |-> CASE pending[w][k] = NoOp         -> NoOp
                                      [] pending[w][k].type = Deleted -> Tomb
                                      [] OTHER -> pending[w][k].val]]

AbsPhase == [w \in Writers |->
               IF pc[w] \in {"commit_append", "commit_fin"} THEN "committing" ELSE "idle"]

KV == INSTANCE KVStore WITH Clients <- Writers, store <- StoreView,
                            batch <- AbsBatch, phase <- AbsPhase

\* The store clients see changes only as the key/value store of spec.md
\* allows: one key per Put/Delete, a whole batch at the instant its finished
\* record is written, and across a crash with SyncWrites on (Open replaying
\* the files) not at all, the staged batches being lost.
Refines == KV!Spec
==============================================================================
