---------------------------- MODULE MCHashTable ----------------------------
(***************************************************************************)
(* Four keys whose hashes collide in one bucket, in two and in four.       *)
(***************************************************************************)
EXTENDS HashTable, TLC

CONSTANTS k1, k2, k3, k4, v

MCKeys == {k1, k2, k3, k4}
MCHash == k1 :> 0 @@ k2 :> 2 @@ k3 :> 4 @@ k4 :> 5
MCValues == {v}
=============================================================================
