------------------------------- MODULE KVStore -------------------------------
(***************************************************************************)
(* What gocaskDB promises its clients (spec.md 4.1, 4.5, 8): a map from   *)
(* keys to values changed by single-key puts and deletes, and by write    *)
(* batches that stage writes privately and apply all of them at one       *)
(* instant during Commit.  A restart loses every staged batch and nothing *)
(* else.                                                                   *)
(***************************************************************************)
CONSTANTS Keys, Vals, Clients, NoVal, NoOp, Tomb

VARIABLES
  store,    \* key -> value, or NoVal when absent
  batch,    \* client -> key -> staged value, Tomb, or NoOp
  phase     \* client -> "idle" or "committing"

vars == <<store, batch, phase>>

Empty == [k \in Keys |-> NoOp]

TypeOK ==
  /\ store \in [Keys -> Vals \cup {NoVal}]
  /\ batch \in [Clients -> [Keys -> Vals \cup {Tomb, NoOp}]]
  /\ phase \in [Clients -> {"idle", "committing"}]

Init ==
  /\ store = [k \in Keys |-> NoVal]
  /\ batch = [c \in Clients |-> Empty]
  /\ phase = [c \in Clients |-> "idle"]

Put(c, k, v) ==
  /\ phase[c] = "idle"
  /\ store' = [store EXCEPT ![k] = v]
  /\ UNCHANGED <<batch, phase>>

Delete(c, k) ==
  /\ phase[c] = "idle"
  /\ store' = [store EXCEPT ![k] = NoVal]
  /\ UNCHANGED <<batch, phase>>

StagePut(c, k, v) ==
  /\ phase[c] = "idle"
  /\ batch' = [batch EXCEPT ![c][k] = v]
  /\ UNCHANGED <<store, phase>>

\* staging the delete of an absent key only forgets a staged write of it
StageDelete(c, k) ==
  /\ phase[c] = "idle"
  /\ batch' = [batch EXCEPT ![c][k] = IF store[k] = NoVal THEN NoOp ELSE Tomb]
  /\ UNCHANGED <<store, phase>>

BeginCommit(c) ==
  /\ phase[c] = "idle"
  /\ phase' = [phase EXCEPT ![c] = "committing"]
  /\ UNCHANGED <<store, batch>>

Apply(b) ==
  [k \in Keys |-> CASE b[k] = NoOp -> store[k]
                    [] b[k] = Tomb -> NoVal
                    [] OTHER       -> b[k]]

\* all staged writes take effect together
Commit(c) ==
  /\ phase[c] = "committing"
  /\ store' = Apply(batch[c])
  /\ batch' = [batch EXCEPT ![c] = Empty]
  /\ phase' = [phase EXCEPT ![c] = "idle"]

\* a failed commit changes nothing and keeps the staged writes
AbortCommit(c) ==
  /\ phase[c] = "committing"
  /\ phase' = [phase EXCEPT ![c] = "idle"]
  /\ UNCHANGED <<store, batch>>

Restart ==
  /\ batch' = [c \in Clients |-> Empty]
  /\ phase' = [c \in Clients |-> "idle"]
  /\ UNCHANGED store

Next ==
  \/ \E c \in Clients, k \in Keys :
       \/ \E v \in Vals : Put(c, k, v) \/ StagePut(c, k, v)
       \/ Delete(c, k) \/ StageDelete(c, k)
  \/ \E c \in Clients : BeginCommit(c) \/ Commit(c) \/ AbortCommit(c)
  \/ Restart

Spec == Init /\ [][Next]_vars
==============================================================================
