----------------------------- MODULE MCIndexLock -----------------------------
(***************************************************************************)
(* Instantiates IndexLock for TLC: two goroutines calling the index and   *)
(* one key, the index types given in the .cfg files.                      *)
(***************************************************************************)
EXTENDS IndexLock

\* the index types whose every method takes the lock
MCLockedTypes == {"Hash", "ART"}
\* MySkipList, whose Iterator takes RLock twice
MCSkipList == {"SkipList"}
=============================================================================
