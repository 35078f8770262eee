-------------------------------- MODULE Dict --------------------------------
(***************************************************************************)
(* What a dictionary promises: it answers with what was stored last.  A    *)
(* key that is not there raises InvalidMapAccess, which is Missing here.   *)
(***************************************************************************)
CONSTANTS Keys, Vals, Missing

VARIABLES store, reply

Init ==
  /\ store \in [Keys -> Vals \cup {Missing}]
  /\ reply = Missing

Get(k) == reply' = store[k] /\ UNCHANGED store

Put(k, v) == store' = [store EXCEPT ![k] = v] /\ UNCHANGED reply

Remove(k) ==
  /\ reply' = store[k]
  /\ store' = [store EXCEPT ![k] = Missing]

Next == \E k \in Keys : Get(k) \/ Remove(k) \/ \E v \in Vals : Put(k, v)

Spec == Init /\ [][Next]_<<store, reply>>
=============================================================================
