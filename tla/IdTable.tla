------------------------------ MODULE IdTable ------------------------------
(***************************************************************************)
(* What the device table of the driver promises to the ioctls that look a  *)
(* device up by its id: an id has one owner, its entry is the owner, and   *)
(* nobody takes an id while an earlier owner is still entered under it.    *)
(***************************************************************************)
CONSTANTS
  Holders,  \* who may own an id
  Ids,      \* the ids
  Nobody    \* an entry that is empty

VARIABLES
  owner,  \* owner[i]: the set of holders of id i
  entry   \* entry[i]: whom a look-up of i finds

Init ==
  /\ owner = [i \in Ids |-> {}]
  /\ entry = [i \in Ids |-> Nobody]

Take(h, i) ==
  /\ owner[i] = {} /\ entry[i] = Nobody
  /\ \A j \in Ids : h \notin owner[j]
  /\ owner' = [owner EXCEPT ![i] = {h}]
  /\ UNCHANGED entry

Enroll(h, i) ==
  /\ owner[i] = {h} /\ entry[i] = Nobody
  /\ entry' = [entry EXCEPT ![i] = h]
  /\ UNCHANGED owner

Give(h, i) ==
  /\ owner[i] = {h} /\ entry[i] = h
  /\ owner' = [owner EXCEPT ![i] = {}]
  /\ UNCHANGED entry

Strike(i) ==
  /\ owner[i] = {} /\ entry[i] # Nobody
  /\ entry' = [entry EXCEPT ![i] = Nobody]
  /\ UNCHANGED owner

Next == \E i \in Ids :
  \/ \E h \in Holders : Take(h, i) \/ Enroll(h, i) \/ Give(h, i)
  \/ Strike(i)

Spec == Init /\ [][Next]_<<owner, entry>>

=============================================================================
