----------------------------- MODULE HashTable -----------------------------
(***************************************************************************)
(* hash_table.c: chains of entries in buckets, doubled in number when the  *)
(* load passes 3/4, with a cursor for one iteration.  The scopes of name   *)
(* resolution are such tables.                                             *)
(***************************************************************************)
EXTENDS Integers, Sequences, FiniteSets, SequencesExt

CONSTANTS
  Keys, Values,
  Hash,             \* what hash_func returns for a key
  DEFAULT_SIZE,     \* the number of buckets when the caller asks for none
  MaxBuckets        \* bound of the model on the number of buckets

ASSUME HashAssumption ==
  /\ Hash \in [Keys -> Nat]
  /\ DEFAULT_SIZE \in Nat \ {0} /\ MaxBuckets \in Nat

VARIABLES
  buckets,          \* the chains; bucket i of the code is buckets[i + 1]
  size,             \* the count kept by insert and remove
  ibucket, ientry,  \* the cursor of firstkey and nextkey
  ret               \* the last call with its arguments, and what it returned

vars == <<buckets, size, ibucket, ientry, ret>>
table == <<buckets, size>>
cursor == <<ibucket, ientry>>

NULL == 0
Absent == "absent"

(* The cursor before the first firstkey, and after its entry was freed:    *)
(* hash_table_nextkey must not be called.                                  *)
Wild == -1

(* No key is a null pointer, and no value looks like the lack of one. *)
ASSUME KeysAssumption ==
  Keys \cap {NULL, Wild} = {} /\ Absent \notin Values

bucket_count == Len(buckets)
Index(k, count) == (Hash[k] % count) + 1
Empty(count) == [i \in 1 .. count |-> <<>>]

(* The count asked of hash_table_create, or the default one. *)
CountFor(asked) == IF asked < 1 THEN DEFAULT_SIZE ELSE asked

(* There is no table before hash_table_create and after hash_table_delete. *)
Live == buckets # <<>>

HashInit ==
  /\ buckets = <<>>
  /\ size = 0
  /\ ibucket = 0 /\ ientry = Wild
  /\ ret = <<"none">>

hash_table_create(asked) ==
  /\ ~ Live
  /\ buckets' = Empty(CountFor(asked))
  /\ size' = 0
  /\ ibucket' = 0 /\ ientry' = Wild
  /\ ret' = <<"create">>

Chain(k) == buckets[Index(k, bucket_count)]
Find(chain, k) == {e \in Range(chain) : e.key = k}
Result(found) == IF found = {} THEN NULL ELSE (CHOOSE e \in found : TRUE).value

(* Mutant of Overloaded: the table fills up first. *)
OverloadedLate == size > bucket_count

(* (float) size / bucket_count > 0.75 *)
Overloaded == 4 * size > 3 * bucket_count

(* A new entry goes to the front of its chain. *)
Prepend(b, e) ==
  LET i == Index(e.key, Len(b)) IN [b EXCEPT ![i] = Cons(e, @)]

(* hash_table_double_buckets inserts the entries into twice as many        *)
(* buckets, in the order of an iteration; they have different keys.        *)
Moved ==
  LET entries == FlattenSeq(buckets)
      moved[m \in 0 .. Len(entries)] ==
        IF m = 0 THEN Empty(2 * bucket_count)
                 ELSE Prepend(moved[m - 1], entries[m])
  IN  moved[Len(entries)]

(* The buckets and the count hash_table_insert goes on with. *)
Grown == IF Overloaded THEN <<Moved, Len(FlattenSeq(buckets))>>
                       ELSE <<buckets, size>>

(* Moving the entries took the cursor to the end. *)
CursorAfterGrowth ==
  IF Overloaded THEN ibucket' = bucket_count /\ ientry' = NULL
                ELSE UNCHANGED cursor

(* Mutant of hash_table_insert: the bucket is chosen before the doubling.  *)
hash_table_insert_stale(k, v) ==
  LET b == Grown[1]
      i == Index(k, bucket_count)
  IN
  /\ Overloaded => 2 * bucket_count <= MaxBuckets
  /\ CursorAfterGrowth
  /\ \/ /\ Find(b[i], k) # {}
        /\ buckets' = b /\ size' = Grown[2]
        /\ ret' = <<"insert", k, 0>>
     \/ /\ Find(b[i], k) = {}
        /\ buckets' = [b EXCEPT ![i] = <<[key |-> k, value |-> v]>> \o @]
        /\ size' = Grown[2] + 1
        /\ ret' = <<"insert", k, 1>>

(* Mutant of hash_table_insert: a key that is there is counted again. *)
hash_table_insert_again(k, v) ==
  LET b == Grown[1]
      found == Find(b[Index(k, Len(b))], k)
  IN
  /\ Overloaded => 2 * bucket_count <= MaxBuckets
  /\ CursorAfterGrowth
  /\ size' = Grown[2] + 1
  /\ \/ /\ found # {}
        /\ buckets' = b
        /\ ret' = <<"insert", k, 0>>
     \/ /\ found = {}
        /\ buckets' = Prepend(b, [key |-> k, value |-> v])
        /\ ret' = <<"insert", k, 1>>

hash_table_insert(k, v) ==
  LET b == Grown[1]
      found == Find(b[Index(k, Len(b))], k)
  IN
  /\ Overloaded => 2 * bucket_count <= MaxBuckets
  /\ CursorAfterGrowth
  /\ \/ /\ found # {}
        /\ buckets' = b /\ size' = Grown[2]
        /\ ret' = <<"insert", k, 0>>
     \/ /\ found = {}
        /\ buckets' = Prepend(b, [key |-> k, value |-> v])
        /\ size' = Grown[2] + 1
        /\ ret' = <<"insert", k, 1>>

hash_table_lookup(k) ==
  /\ ret' = <<"lookup", k, Result(Find(Chain(k), k))>>
  /\ UNCHANGED <<buckets, size, ibucket, ientry>>

Position(chain, k) == CHOOSE i \in DOMAIN chain : chain[i].key = k

(* Mutant of hash_table_remove: an absent key is counted as removed. *)
hash_table_remove_miscounts(k) ==
  LET i == Index(k, bucket_count)
      found == Find(buckets[i], k)
  IN
  /\ ret' = <<"remove", k, Result(found)>>
  /\ buckets' = IF found = {} THEN buckets
                ELSE [buckets EXCEPT ![i] = RemoveAt(@, Position(@, k))]
  /\ size' = size - 1
  /\ ientry' = IF ientry = k THEN Wild ELSE ientry
  /\ UNCHANGED ibucket

hash_table_remove(k) ==
  LET i == Index(k, bucket_count)
      found == Find(buckets[i], k)
  IN
  /\ ret' = <<"remove", k, Result(found)>>
  /\ \/ found = {} /\ UNCHANGED table
     \/ /\ found # {}
        /\ buckets' = [buckets EXCEPT ![i] = RemoveAt(@, Position(@, k))]
        /\ size' = size - 1
  /\ ientry' = IF ientry = k THEN Wild ELSE ientry
  /\ UNCHANGED ibucket

(* The entries are freed; the count is not reset. *)
hash_table_clear ==
  /\ buckets' = Empty(bucket_count)
  /\ ientry' = IF ientry \in Keys THEN Wild ELSE ientry
  /\ ret' = <<"clear">>
  /\ UNCHANGED <<size, ibucket>>

hash_table_delete ==
  /\ buckets' = <<>>
  /\ size' = 0
  /\ ibucket' = 0 /\ ientry' = Wild
  /\ ret' = <<"delete">>

(* The cursor at the first entry of bucket "from" or of a later one. *)
Busy(from) == {i \in from + 1 .. bucket_count : buckets[i] # <<>>}
Least(S) == CHOOSE i \in S : \A j \in S : i <= j

CursorFrom(from) ==
  IF Busy(from) = {}
  THEN ibucket' = bucket_count /\ ientry' = NULL
  ELSE LET i == Least(Busy(from)) IN
       ibucket' = i - 1 /\ ientry' = Head(buckets[i]).key

hash_table_firstkey ==
  /\ CursorFrom(0)
  /\ ret' = <<"firstkey">>
  /\ UNCHANGED table

(* The entries after the one the cursor is at, in its chain. *)
Rest(chain, k) == SubSeq(chain, Position(chain, k) + 1, Len(chain))

hash_table_nextkey ==
  /\ ientry # Wild
  /\ \/ /\ ientry = NULL
        /\ ret' = <<"nextkey">>
        /\ UNCHANGED cursor
     \/ /\ ientry # NULL
        /\ ret' = <<"nextkey", ientry, Result(Find(Chain(ientry), ientry))>>
        /\ LET rest == Rest(Chain(ientry), ientry) IN
           IF rest # <<>>
           THEN ientry' = Head(rest).key /\ UNCHANGED ibucket
           ELSE CursorFrom(ibucket + 1)
  /\ UNCHANGED table

Next ==
  \/ \E asked \in 0 .. MaxBuckets : hash_table_create(asked)
  \/ /\ Live
     /\ \/ \E k \in Keys :
             \/ hash_table_lookup(k) \/ hash_table_remove(k)
             \/ \E v \in Values : hash_table_insert(k, v)
        \/ hash_table_clear \/ hash_table_delete
        \/ hash_table_firstkey \/ hash_table_nextkey

Spec == HashInit /\ [][Next]_vars

(***************************************************************************)
(* Properties.                                                             *)
(***************************************************************************)
Entries == UNION {Range(buckets[i]) : i \in DOMAIN buckets}

TypeOK ==
  /\ \A e \in Entries : e.key \in Keys /\ e.value \in Values
  /\ size \in Nat
  /\ ibucket \in Nat /\ ientry \in Keys \cup {NULL, Wild}

(* The table as a map, and what the cursor has before it. *)
AsMap ==
  [k \in Keys |-> LET found == {e \in Entries : e.key = k} IN
                  IF found = {} THEN Absent ELSE Result(found)]

Ahead ==
  IF ientry \notin Keys THEN {}
  ELSE {ientry} \cup
       {e.key : e \in Range(Rest(Chain(ientry), ientry))} \cup
       {e.key : e \in UNION {Range(buckets[i]) : i \in ibucket + 2 .. bucket_count}}

(* Chains, doubling and the cursor are invisible: the table answers every  *)
(* sequence of calls as the map of hash_table.h does, and an iteration     *)
(* that no insertion or removal disturbs visits every key exactly once.    *)
D == INSTANCE Dictionary WITH map <- AsMap, left <- Ahead
ImplementsDictionary == D!Spec

(* Lookups stay short: after any sequence of calls there are at most 3/4   *)
(* of an entry per bucket, and one more, in the whole table.               *)
LoadBounded == Live => 4 * (Cardinality(Entries) - 1) <= 3 * bucket_count

(* hash_table_size counts the entries in the table (hash_table.h:60), up   *)
(* to those that hash_table_clear freed: no other call makes the count     *)
(* drift, and a doubling corrects it.                                      *)
Drift == size - Cardinality(Entries)
SizeDrifts ==
  [][ \/ Drift' = Drift
      \/ ret' = <<"clear">> /\ Drift' = Drift + Cardinality(Entries)
      \/ Drift' = 0 ]_vars
=============================================================================
