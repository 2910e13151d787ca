---------------------------- MODULE MCBitcaskMerge ----------------------------
(***************************************************************************)
(* Instantiates BitcaskMerge for TLC: the engine with one merge goroutine. *)
(***************************************************************************)
EXTENDS BitcaskMerge

MCNoFaults == {}
==============================================================================
