----------------------------- MODULE Dictionary -----------------------------
(***************************************************************************)
(* What hash_table.h promises of a hash table, without buckets: a map from *)
(* keys to values, and one iteration over it.                              *)
(***************************************************************************)
EXTENDS Integers

CONSTANTS Keys, Values

NULL == 0
Absent == "absent"

VARIABLES
  map,      \* each key's value, or Absent
  left,     \* the keys the iteration has yet to visit
  ret       \* the last call with its arguments, and what it returned

vars == <<map, left, ret>>

Init ==
  /\ map = [k \in Keys |-> Absent]
  /\ left = {}
  /\ ret = <<"none">>

Present == {k \in Keys : map[k] # Absent}

(* A call that fails because the key is present may still end an           *)
(* iteration, and a new key may or may not be visited by one.              *)
Insert(k, v) ==
  \/ /\ k \in Present
     /\ ret' = <<"insert", k, 0>>
     /\ left' \in {left, {}}
     /\ UNCHANGED map
  \/ /\ k \notin Present
     /\ ret' = <<"insert", k, 1>>
     /\ map' = [map EXCEPT ![k] = v]
     /\ left' \in {left, left \cup {k}, {}}

Lookup(k) ==
  /\ ret' = <<"lookup", k, IF k \in Present THEN map[k] ELSE NULL>>
  /\ UNCHANGED <<map, left>>

Remove(k) ==
  /\ ret' = <<"remove", k, IF k \in Present THEN map[k] ELSE NULL>>
  /\ map' = [map EXCEPT ![k] = Absent]
  /\ left' \in {left \ {k}, {}}

(* A new map, or one that was emptied or deleted. *)
Clear(call) ==
  /\ map' = [k \in Keys |-> Absent]
  /\ left' = {}
  /\ ret' = <<call>>

FirstKey ==
  /\ left' = Present
  /\ ret' = <<"firstkey">>
  /\ UNCHANGED map

(* Each call visits another key that is present, until none is left. *)
NextKey ==
  /\ \/ \E k \in left :
          /\ left' = left \ {k}
          /\ ret' = <<"nextkey", k, map[k]>>
     \/ /\ left = {}
        /\ ret' = <<"nextkey">>
        /\ UNCHANGED left
  /\ UNCHANGED map

Next ==
  \/ \E k \in Keys : Lookup(k) \/ Remove(k) \/ \E v \in Values : Insert(k, v)
  \/ \E call \in {"create", "clear", "delete"} : Clear(call)
  \/ FirstKey \/ NextKey

Spec == Init /\ [][Next]_vars
=============================================================================
