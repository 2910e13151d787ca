------------------------------ MODULE MCBitcask ------------------------------
(***************************************************************************)
(* Instantiates Bitcask for TLC.  Keys, values and goroutines are model    *)
(* values given in the .cfg files; the bounds below are chosen so that a   *)
(* batch of two keys, a rollover and a crash fit in one behaviour.         *)
(***************************************************************************)
EXTENDS Bitcask

\* Failure points of WriteBatch.Commit injected in the core runs
MCAppendFaults == {"append"}
MCSyncFaults   == {"sync"}
MCNoFaults     == {}
MCAllFaults    == {"append", "sync"}
==============================================================================
