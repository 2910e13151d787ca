---------------------------- MODULE MCBitcaskIter ----------------------------
(***************************************************************************)
(* Instantiates BitcaskIter for TLC.  Three keys whose byte strings are    *)
(* 0, 0 1 and 1: the first is a proper prefix of the second, so prefix 0   *)
(* matches two keys (one exactly as long as the prefix) and not the third, *)
(* and the seek keys 0 0 (absent, between two keys) and 0 1 (present) land *)
(* differently forward and in reverse.                                      *)
(***************************************************************************)
EXTENDS BitcaskIter

CONSTANTS k1, k2, k3

MCKeys == {k1, k2, k3}
MCKeyBytes == (k1 :> <<0>>) @@ (k2 :> <<0, 1>>) @@ (k3 :> <<1>>)
MCIterPrefixes == {<<>>, <<0>>}
MCSeekKeys == {<<0, 0>>, <<0, 1>>}
MCNoFaults == {}
==============================================================================
