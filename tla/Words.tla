------------------------------- MODULE Words -------------------------------
(***************************************************************************)
(* A struct type as type_equals sees it: the words that it compares, from  *)
(* the kind on, depth first, in order.  It stops at the first two words    *)
(* that differ, and it follows a NULL pointer when it gets to one.         *)
(***************************************************************************)
EXTENDS Integers, Sequences

NoSize == "unsized"         \* array [] integer: arr_val is NULL

(* type_equals follows a NULL pointer: a part of a type is missing where   *)
(* the two agree so far.                                                   *)
Stuck(a, b) ==
  \E i \in DOMAIN a \cap DOMAIN b :
    /\ SubSeq(a, 1, i - 1) = SubSeq(b, 1, i - 1)
    /\ {a[i], b[i]} \cap {"NULL", NoSize} # {}
=============================================================================
