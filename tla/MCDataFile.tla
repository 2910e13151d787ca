------------------------------ MODULE MCDataFile ------------------------------
(* DataFile for TLC: two one-byte user keys, the empty value and a       *)
(* one-byte one.                                                           *)
EXTENDS DataFile

MCUserKeys == {<<1>>, <<2>>}
MCVals == {<<>>, <<7>>}
====
