--------------------------- MODULE HashTableProofs ---------------------------
(***************************************************************************)
(* The hash table of hash_table.c implements the map that hash_table.h     *)
(* promises, for every set of keys, every hash function and every number   *)
(* of buckets.                                                             *)
(***************************************************************************)
EXTENDS HashTable, Induction, SequenceTheorems, FiniteSetTheorems

Entry == [key : Keys, value : Values]

EntriesOf(b) == UNION {Range(b[i]) : i \in DOMAIN b}

(* Every entry is in the chain of its hash, and no chain has a key twice.  *)
Sound(b) ==
  /\ b \in Seq(Seq(Entry))
  /\ \A i \in DOMAIN b : \A j \in DOMAIN b[i] : Index(b[i][j].key, Len(b)) = i
  /\ \A i \in DOMAIN b : \A j, m \in DOMAIN b[i] : b[i][j].key = b[i][m].key => j = m

(***************************************************************************)
(* Chains.                                                                 *)
(***************************************************************************)

(* hash % bucket_count is the number of a bucket. *)
LEMMA IndexFacts ==
  ASSUME NEW k \in Keys, NEW n \in Nat \ {0}
  PROVE  Index(k, n) \in 1 .. n
<1>1. PICK h \in Nat : h = Hash[k]
  BY HashAssumption
<1>2. h % n \in 0 .. n - 1
  OBVIOUS
<1> QED
  BY <1>1, <1>2 DEF Index

(* The buckets of a table and their chains. *)
LEMMA ChainFacts ==
  ASSUME NEW b, Sound(b)
  PROVE  /\ Len(b) \in Nat /\ DOMAIN b = 1 .. Len(b)
         /\ \A i \in 1 .. Len(b) :
              /\ b[i] \in Seq(Entry)
              /\ Len(b[i]) \in Nat /\ DOMAIN b[i] = 1 .. Len(b[i])
              /\ \A j \in DOMAIN b[i] :
                   /\ b[i][j] \in Entry /\ b[i][j].key \in Keys
                   /\ b[i][j].value \in Values
<1>1. b \in Seq(Seq(Entry))
  BY DEF Sound
<1>2. Len(b) \in Nat /\ DOMAIN b = 1 .. Len(b)
  BY <1>1
<1>3. \A i \in 1 .. Len(b) : b[i] \in Seq(Entry)
  BY <1>1, ElementOfSeq
<1>4. ASSUME NEW i \in 1 .. Len(b)
      PROVE  /\ b[i] \in Seq(Entry)
             /\ Len(b[i]) \in Nat /\ DOMAIN b[i] = 1 .. Len(b[i])
             /\ \A j \in DOMAIN b[i] :
                  /\ b[i][j] \in Entry /\ b[i][j].key \in Keys
                  /\ b[i][j].value \in Values
  <2>1. b[i] \in Seq(Entry)
    BY <1>3, <1>4
  <2>2. Len(b[i]) \in Nat /\ DOMAIN b[i] = 1 .. Len(b[i])
    BY <2>1
  <2>3. \A j \in 1 .. Len(b[i]) : b[i][j] \in Entry
    BY <2>1, ElementOfSeq
  <2> QED
    BY <2>1, <2>2, <2>3 DEF Entry
<1> QED
  BY <1>2, <1>4

(* What is in a table. *)
LEMMA EntryFacts ==
  ASSUME NEW b, Sound(b), NEW e
  PROVE  e \in EntriesOf(b) <=> \E i \in DOMAIN b : \E j \in DOMAIN b[i] : b[i][j] = e
BY DEF EntriesOf, Range

(* A key has one entry, in the chain of its hash. *)
LEMMA KeyOnce ==
  ASSUME NEW b, Sound(b)
  PROVE  /\ EntriesOf(b) \subseteq Entry
         /\ \A e, f \in EntriesOf(b) : e.key = f.key => e = f
         /\ \A i, k \in DOMAIN b : \A j \in DOMAIN b[i], m \in DOMAIN b[k] :
              b[i][j].key = b[k][m].key => i = k /\ j = m
<1>1. EntriesOf(b) \subseteq Entry
  BY EntryFacts, ChainFacts
<1>2. ASSUME NEW i \in DOMAIN b, NEW k \in DOMAIN b,
             NEW j \in DOMAIN b[i], NEW m \in DOMAIN b[k], b[i][j].key = b[k][m].key
      PROVE  i = k /\ j = m
  <2>1. i = k
    BY <1>2 DEF Sound
  <2> QED
    BY <1>2, <2>1 DEF Sound
<1>3. ASSUME NEW e \in EntriesOf(b), NEW f \in EntriesOf(b), e.key = f.key
      PROVE  e = f
  <2>1. PICK i \in DOMAIN b : \E j \in DOMAIN b[i] : b[i][j] = e
    BY EntryFacts
  <2>2. PICK k \in DOMAIN b : \E m \in DOMAIN b[k] : b[k][m] = f
    BY EntryFacts
  <2> QED
    BY <1>2, <1>3, <2>1, <2>2
<1> QED
  BY <1>1, <1>2, <1>3

(* The search in one chain is a search in the whole table. *)
LEMMA FindFacts ==
  ASSUME NEW b, Sound(b), Len(b) # 0, NEW k \in Keys
  PROVE  /\ Find(b[Index(k, Len(b))], k) = {e \in EntriesOf(b) : e.key = k}
         /\ \A e \in EntriesOf(b) : e.key = k =>
              {f \in EntriesOf(b) : f.key = k} = {e}
<1> DEFINE c == Index(k, Len(b))
<1>1. c \in DOMAIN b
  BY ChainFacts, IndexFacts
<1>2. ASSUME NEW e \in Find(b[c], k)
      PROVE  e \in EntriesOf(b) /\ e.key = k
  BY <1>1, <1>2, EntryFacts DEF Find, Range
<1>3. ASSUME NEW e \in EntriesOf(b), e.key = k
      PROVE  e \in Find(b[c], k)
  <2>1. PICK i \in DOMAIN b : \E j \in DOMAIN b[i] : b[i][j] = e
    BY EntryFacts
  <2>2. i = c
    BY <1>3, <2>1 DEF Sound
  <2> QED
    BY <1>3, <2>1, <2>2 DEF Find, Range
<1> HIDE DEF c
<1>4. Find(b[c], k) = {e \in EntriesOf(b) : e.key = k}
  BY <1>2, <1>3
<1>5. \A e \in EntriesOf(b) : e.key = k => {f \in EntriesOf(b) : f.key = k} = {e}
  BY KeyOnce
<1> QED
  BY <1>4, <1>5 DEF c

(* Buckets without entries. *)
LEMMA EmptySound ==
  ASSUME NEW n \in Nat
  PROVE  /\ Sound(Empty(n)) /\ Len(Empty(n)) = n /\ EntriesOf(Empty(n)) = {}
         /\ \A i \in 1 .. n : Empty(n)[i] = <<>>
<1>1. <<>> \in Seq(Entry) /\ DOMAIN <<>> = {}
  OBVIOUS
<1>2. Empty(n) \in [1 .. n -> Seq(Entry)]
  BY <1>1 DEF Empty
<1>3. Empty(n) \in Seq(Seq(Entry)) /\ Len(Empty(n)) = n /\ DOMAIN Empty(n) = 1 .. n
  <2> HIDE DEF Empty
  <2> QED
    BY <1>2, SeqDef
<1>4. \A i \in 1 .. n : Empty(n)[i] = <<>>
  BY DEF Empty
<1>5. Sound(Empty(n))
  BY <1>1, <1>3, <1>4 DEF Sound
<1>6. EntriesOf(Empty(n)) = {}
  BY <1>1, <1>3, <1>4 DEF EntriesOf, Range
<1> QED
  BY <1>3, <1>4, <1>5, <1>6

(***************************************************************************)
(* Insertion.                                                              *)
(***************************************************************************)

(* A chain with a new entry in front. *)
LEMMA ConsFacts ==
  ASSUME NEW S, NEW s \in Seq(S), NEW e \in S
  PROVE  /\ Cons(e, s) \in Seq(S) /\ Len(Cons(e, s)) = Len(s) + 1
         /\ Cons(e, s)[1] = e
         /\ \A j \in 2 .. Len(s) + 1 : j - 1 \in 1 .. Len(s) /\ Cons(e, s)[j] = s[j - 1]
<1>1. <<e>> \in Seq(S) /\ Len(<<e>>) = 1 /\ <<e>>[1] = e
  OBVIOUS
<1>2. PICK n \in Nat : n = Len(s)
  OBVIOUS
<1>3. /\ <<e>> \o s \in Seq(S) /\ Len(<<e>> \o s) = 1 + n
      /\ \A j \in 1 .. 1 + n :
           (<<e>> \o s)[j] = IF j <= 1 THEN <<e>>[j] ELSE s[j - 1]
  BY <1>1, <1>2, ConcatProperties
<1>4. (<<e>> \o s)[1] = e
  BY <1>1, <1>2, <1>3
<1>5. \A j \in 2 .. n + 1 : j - 1 \in 1 .. n /\ (<<e>> \o s)[j] = s[j - 1]
  BY <1>2, <1>3
<1> QED
  BY <1>2, <1>3, <1>4, <1>5 DEF Cons

(* An entry with a new key keeps the table sound. *)
LEMMA PrependFacts ==
  ASSUME NEW b, Sound(b), Len(b) # 0, NEW e \in Entry,
         \A f \in EntriesOf(b) : f.key # e.key
  PROVE  /\ Sound(Prepend(b, e))
         /\ Len(Prepend(b, e)) = Len(b)
         /\ EntriesOf(Prepend(b, e)) = EntriesOf(b) \cup {e}
         /\ Index(e.key, Len(b)) \in DOMAIN b
         /\ Prepend(b, e)[Index(e.key, Len(b))] = Cons(e, b[Index(e.key, Len(b))])
         /\ \A i \in DOMAIN b : i # Index(e.key, Len(b)) => Prepend(b, e)[i] = b[i]
<1> DEFINE c == Index(e.key, Len(b))
           u == Prepend(b, e)
<1>1. PICK n \in Nat \ {0} : n = Len(b) /\ DOMAIN b = 1 .. n
  BY ChainFacts
<1>2. e.key \in Keys
  BY DEF Entry
<1>3. c \in 1 .. n
  BY <1>1, <1>2, IndexFacts
<1>4. u = [b EXCEPT ![c] = Cons(e, b[c])]
  BY DEF Prepend
<1>5. Index(e.key, n) = c
  BY <1>1
<1> HIDE DEF c, u
<1>6. b \in Seq(Seq(Entry)) /\ b[c] \in Seq(Entry)
  BY <1>1, <1>3, ChainFacts DEF Sound
<1>7. PICK m \in Nat : m = Len(b[c]) /\ DOMAIN b[c] = 1 .. m
  BY <1>6
<1>8. PICK s : s = Cons(e, b[c])
  OBVIOUS
<1>9. /\ s \in Seq(Entry) /\ Len(s) = m + 1 /\ s[1] = e /\ DOMAIN s = 1 .. m + 1
      /\ \A j \in 2 .. m + 1 : j - 1 \in 1 .. m /\ s[j] = b[c][j - 1]
  <2>1. /\ s \in Seq(Entry) /\ Len(s) = m + 1 /\ s[1] = e
        /\ \A j \in 2 .. m + 1 : j - 1 \in 1 .. m /\ s[j] = b[c][j - 1]
    <3>1. PICK t \in Seq(Entry) : t = b[c]
      BY <1>6
    <3>2. /\ Cons(e, t) \in Seq(Entry) /\ Len(Cons(e, t)) = Len(t) + 1
          /\ Cons(e, t)[1] = e
          /\ \A j \in 2 .. Len(t) + 1 :
               j - 1 \in 1 .. Len(t) /\ Cons(e, t)[j] = t[j - 1]
      BY ConsFacts
    <3> QED
      BY <3>1, <3>2, <1>7, <1>8
  <2>2. DOMAIN s = 1 .. m + 1
    BY <2>1, LenProperties
  <2> QED
    BY <2>1, <2>2
<1>10. /\ u \in Seq(Seq(Entry)) /\ Len(u) = n /\ DOMAIN u = 1 .. n
       /\ u[c] = s /\ \A i \in 1 .. n : i # c => u[i] = b[i]
  BY <1>1, <1>3, <1>4, <1>6, <1>8, <1>9, ExceptSeq
<1>11. \A j \in 1 .. m + 1 : j = 1 \/ j \in 2 .. m + 1
  BY <1>7
<1>12. \A j \in 1 .. m : b[c][j].key # e.key
  BY <1>1, <1>3, <1>7, EntryFacts
<1>13. Sound(u)
  <2>1. ASSUME NEW i \in 1 .. n, NEW j \in DOMAIN u[i]
        PROVE  Index(u[i][j].key, n) = i
    <3>1. CASE i # c
      BY <2>1, <3>1, <1>1, <1>10 DEF Sound
    <3>2. CASE i = c
      <4>1. j = 1 \/ j \in 2 .. m + 1
        BY <2>1, <3>2, <1>9, <1>10, <1>11
      <4>2. CASE j = 1
        BY <3>2, <4>2, <1>5, <1>9, <1>10
      <4>3. CASE j \in 2 .. m + 1
        <5>1. u[i][j] = b[c][j - 1] /\ j - 1 \in DOMAIN b[c]
          BY <3>2, <4>3, <1>7, <1>9, <1>10
        <5>2. Index(b[c][j - 1].key, n) = c
          BY <5>1, <1>1, <1>3 DEF Sound
        <5> QED
          BY <5>1, <5>2, <3>2
      <4> QED
        BY <4>1, <4>2, <4>3
    <3> QED
      BY <3>1, <3>2
  <2>2. ASSUME NEW i \in 1 .. n, NEW j \in DOMAIN u[i], NEW k \in DOMAIN u[i],
               u[i][j].key = u[i][k].key
        PROVE  j = k
    <3>1. CASE i # c
      BY <2>2, <3>1, <1>1, <1>10 DEF Sound
    <3>2. CASE i = c
      <4>1. j \in 1 .. m + 1 /\ k \in 1 .. m + 1 /\ s[j].key = s[k].key
        BY <2>2, <3>2, <1>9, <1>10
      <4>2. (j = 1 \/ j \in 2 .. m + 1) /\ (k = 1 \/ k \in 2 .. m + 1)
        BY <4>1, <1>11
      <4>3. CASE j \in 2 .. m + 1 /\ k \in 2 .. m + 1
        <5>1. b[c][j - 1].key = b[c][k - 1].key
              /\ j - 1 \in 1 .. m /\ k - 1 \in 1 .. m
          BY <4>1, <4>3, <1>9
        <5>2. j - 1 = k - 1
          BY <5>1, <1>1, <1>3, <1>7 DEF Sound
        <5> QED
          BY <5>2, <4>3
      <4>4. CASE j = 1 /\ k \in 2 .. m + 1
        BY <4>1, <4>4, <1>9, <1>12
      <4>5. CASE k = 1 /\ j \in 2 .. m + 1
        BY <4>1, <4>5, <1>9, <1>12
      <4> QED
        BY <4>2, <4>3, <4>4, <4>5
    <3> QED
      BY <3>1, <3>2
  <2> QED
    BY <1>10, <2>1, <2>2 DEF Sound
<1>14. EntriesOf(u) = EntriesOf(b) \cup {e}
  <2>1. ASSUME NEW f \in EntriesOf(u)
        PROVE  f \in EntriesOf(b) \cup {e}
    <3>1. PICK i \in 1 .. n : \E j \in DOMAIN u[i] : u[i][j] = f
      BY <1>10, <1>13, <2>1, EntryFacts
    <3>2. PICK j \in DOMAIN u[i] : u[i][j] = f
      BY <3>1
    <3>3. CASE i # c
      BY <3>2, <3>3, <1>1, <1>10, EntryFacts
    <3>4. CASE i = c
      <4>1. j = 1 \/ j \in 2 .. m + 1
        BY <3>2, <3>4, <1>9, <1>10, <1>11
      <4>2. j \in 2 .. m + 1 => f = b[c][j - 1] /\ j - 1 \in DOMAIN b[c]
        BY <3>2, <3>4, <1>7, <1>9, <1>10
      <4>3. j = 1 => f = e
        BY <3>2, <3>4, <1>9, <1>10
      <4>4. j \in 2 .. m + 1 => f \in EntriesOf(b)
        BY <4>2, <1>1, <1>3, EntryFacts
      <4> QED
        BY <4>1, <4>3, <4>4
    <3> QED
      BY <3>3, <3>4
  <2>2. e \in EntriesOf(u)
    <3>1. c \in DOMAIN u /\ 1 \in DOMAIN u[c] /\ u[c][1] = e
      BY <1>3, <1>7, <1>9, <1>10
    <3> QED
      BY <3>1, <1>13, EntryFacts
  <2>3. ASSUME NEW f \in EntriesOf(b)
        PROVE  f \in EntriesOf(u)
    <3>1. PICK i \in 1 .. n : \E j \in DOMAIN b[i] : b[i][j] = f
      BY <1>1, <2>3, EntryFacts
    <3>2. PICK j \in DOMAIN b[i] : b[i][j] = f
      BY <3>1
    <3>3. CASE i # c
      BY <3>2, <3>3, <1>10, <1>13, EntryFacts
    <3>4. CASE i = c
      <4>1. j \in 1 .. m
        BY <3>2, <3>4, <1>7
      <4>2. j + 1 \in 2 .. m + 1 /\ (j + 1) - 1 = j
        BY <4>1, <1>7
      <4>3. s[j + 1] = f /\ j + 1 \in DOMAIN s
        BY <3>2, <3>4, <4>2, <1>7, <1>9
      <4>4. c \in DOMAIN u /\ j + 1 \in DOMAIN u[c] /\ u[c][j + 1] = f
        BY <4>3, <1>3, <1>10
      <4> QED
        BY <4>4, <1>13, EntryFacts
    <3> QED
      BY <3>3, <3>4
  <2> QED
    BY <2>1, <2>2, <2>3
<1> QED
  BY <1>1, <1>3, <1>8, <1>10, <1>13, <1>14 DEF c, u


(***************************************************************************)
(* The entries in the order of an iteration.                               *)
(***************************************************************************)

(* FlattenSeq is the last sequence of that recursion. *)
LEMMA FlattenIs ==
  ASSUME NEW b, Len(b) \in Nat, Len(b) # 0
  PROVE  \E f : Flattens(f, b) /\ FlattenSeq(b) = f[Len(b)]
<1>1. PICK g : Flattens(g, b)
  BY FlatteningExists
<1> QED
  BY <1>1 DEF Flattens, FlattenSeq

(* An iteration visits every entry once. *)
LEMMA FlattenFacts ==
  ASSUME NEW b, Sound(b), Len(b) # 0
  PROVE  /\ FlattenSeq(b) \in Seq(Entry)
         /\ \A e : e \in EntriesOf(b) <=>
                     \E p \in 1 .. Len(FlattenSeq(b)) : FlattenSeq(b)[p] = e
         /\ \A p, q \in 1 .. Len(FlattenSeq(b)) :
              FlattenSeq(b)[p].key = FlattenSeq(b)[q].key => p = q
<1>1. PICK n \in Nat \ {0} : n = Len(b) /\ DOMAIN b = 1 .. n
  BY ChainFacts
<1>2. PICK f : Flattens(f, b) /\ FlattenSeq(b) = f[n]
  BY <1>1, FlattenIs
<1> DEFINE Part(k, s) ==
             /\ s \in Seq(Entry)
             /\ \A e : (\E i \in 1 .. k : \E j \in DOMAIN b[i] : b[i][j] = e) <=>
                       (\E p \in 1 .. Len(s) : s[p] = e)
             /\ \A p, q \in 1 .. Len(s) : s[p].key = s[q].key => p = q
           T == {k \in Nat : k \in 1 .. n => Part(k, f[k])}
<1>3. 0 \in T
  OBVIOUS
<1>4. ASSUME NEW i \in 1 .. n
      PROVE  b[i] \in Seq(Entry) /\ DOMAIN b[i] = 1 .. Len(b[i]) /\ Len(b[i]) \in Nat
  BY <1>1, ChainFacts
<1>5. Part(1, f[1])
  <2>1. f[1] = b[1] /\ 1 \in 1 .. n
    BY <1>1, <1>2 DEF Flattens
  <2>2. b[1] \in Seq(Entry) /\ DOMAIN b[1] = 1 .. Len(b[1])
    BY <2>1, <1>4
  <2>3. \A p, q \in 1 .. Len(b[1]) : b[1][p].key = b[1][q].key => p = q
    BY <2>1, <2>2, <1>1 DEF Sound
  <2>4. \A e : (\E i \in 1 .. 1 : \E j \in DOMAIN b[i] : b[i][j] = e) <=>
               (\E p \in 1 .. Len(b[1]) : b[1][p] = e)
    <3>1. \A i \in 1 .. 1 : i = 1
      OBVIOUS
    <3>2. 1 \in 1 .. 1
      OBVIOUS
    <3> QED
      BY <3>1, <3>2, <2>2
  <2> QED
    BY <2>1, <2>2, <2>3, <2>4
<1>6. ASSUME NEW k \in Nat, k \in 1 .. n, k + 1 \in 1 .. n, Part(k, f[k])
      PROVE  Part(k + 1, f[k + 1])
  <2>1. PICK s : s = f[k]
    OBVIOUS
  <2>2. PICK t : t = b[k + 1]
    OBVIOUS
  <2>3. f[k + 1] = s \o t
    <3>1. f[k + 1] = f[(k + 1) - 1] \o b[k + 1]
      <4>1. k + 1 \in 1 .. Len(b) /\ k + 1 # 1
        BY <1>1, <1>6
      <4> QED
        BY <4>1, <1>2 DEF Flattens
    <3>2. (k + 1) - 1 = k
      OBVIOUS
    <3> QED
      BY <3>1, <3>2, <2>1, <2>2
  <2>4. /\ s \in Seq(Entry)
        /\ \A e : (\E i \in 1 .. k : \E j \in DOMAIN b[i] : b[i][j] = e) <=>
                  (\E p \in 1 .. Len(s) : s[p] = e)
        /\ \A p, q \in 1 .. Len(s) : s[p].key = s[q].key => p = q
    BY <1>6, <2>1
  <2>5. t \in Seq(Entry) /\ DOMAIN t = 1 .. Len(t) /\ Len(t) \in Nat
    BY <1>4, <1>6, <2>2
  <2>6. PICK x \in Nat : x = Len(s)
    BY <2>4
  <2>7. PICK y \in Nat : y = Len(t)
    BY <2>5
  <2>8. PICK st : st = s \o t
    OBVIOUS
  <2>9. /\ st \in Seq(Entry) /\ Len(st) = x + y
        /\ \A p \in 1 .. x + y : st[p] = IF p <= x THEN s[p] ELSE t[p - x]
    BY <2>4, <2>5, <2>6, <2>7, <2>8, ConcatProperties
  <2>10. \A p \in 1 .. x + y : p \in 1 .. x \/ (p \in x + 1 .. x + y /\ p - x \in 1 .. y)
    BY <2>6, <2>7
  <2>11. \A p \in 1 .. x : p \in 1 .. x + y /\ st[p] = s[p]
    BY <2>6, <2>7, <2>9
  <2>12. \A p \in x + 1 .. x + y : p \in 1 .. x + y /\ st[p] = t[p - x] /\ p - x \in 1 .. y
    BY <2>6, <2>7, <2>9
  <2>13. \A j \in 1 .. y : j + x \in x + 1 .. x + y /\ (j + x) - x = j
    BY <2>6, <2>7
  <2>14. \A i \in 1 .. k + 1 : i \in 1 .. k \/ i = k + 1
    OBVIOUS
  <2>15. \A i \in 1 .. k : i \in 1 .. k + 1 /\ i # k + 1 /\ i \in 1 .. n
    BY <1>6
  <2>16. ASSUME NEW e
         PROVE  (\E i \in 1 .. k + 1 : \E j \in DOMAIN b[i] : b[i][j] = e) <=>
                (\E p \in 1 .. x + y : st[p] = e)
    <3>1. ASSUME NEW i \in 1 .. k + 1, NEW j \in DOMAIN b[i], b[i][j] = e
          PROVE  \E p \in 1 .. x + y : st[p] = e
      <4>1. CASE i \in 1 .. k
        <5>1. \E p \in 1 .. Len(s) : s[p] = e
          BY <2>4, <3>1, <4>1
        <5> QED
          BY <5>1, <2>6, <2>11
      <4>2. CASE i = k + 1
        <5>1. j \in 1 .. y /\ t[j] = e
          BY <2>2, <2>5, <2>7, <3>1, <4>2
        <5> QED
          BY <5>1, <2>12, <2>13
      <4> QED
        BY <4>1, <4>2, <2>14
    <3>2. ASSUME NEW p \in 1 .. x + y, st[p] = e
          PROVE  \E i \in 1 .. k + 1 : \E j \in DOMAIN b[i] : b[i][j] = e
      <4>1. CASE p \in 1 .. x
        <5>1. p \in 1 .. Len(s) /\ s[p] = e
          BY <2>6, <2>11, <3>2, <4>1
        <5>2. \E p1 \in 1 .. Len(s) : s[p1] = e
          BY <5>1
        <5>3. PICK i \in 1 .. k : \E j \in DOMAIN b[i] : b[i][j] = e
          BY <2>4, <5>2, Zenon
        <5> QED
          BY <5>3, <2>15
      <4>2. CASE p \in x + 1 .. x + y
        <5>1. p - x \in DOMAIN t /\ t[p - x] = e
          BY <2>5, <2>7, <2>12, <3>2, <4>2
        <5>2. k + 1 \in 1 .. k + 1
          OBVIOUS
        <5> QED
          BY <5>1, <5>2, <2>2
      <4> QED
        BY <4>1, <4>2, <2>10
    <3> QED
      BY <3>1, <3>2
  <2>17. ASSUME NEW p \in 1 .. x, NEW q \in 1 .. y
         PROVE  s[p].key # t[q].key
    <3>1. PICK i \in 1 .. k : \E j \in DOMAIN b[i] : b[i][j] = s[p]
      BY <2>4, <2>6
    <3>2. PICK j \in DOMAIN b[i] : b[i][j] = s[p]
      BY <3>1
    <3>3. i # k + 1 /\ i \in DOMAIN b /\ k + 1 \in DOMAIN b /\ q \in DOMAIN b[k + 1]
      BY <1>1, <1>6, <2>2, <2>5, <2>7, <2>15
    <3>4. b[i][j].key # b[k + 1][q].key
      BY <3>3, KeyOnce
    <3> QED
      BY <3>2, <3>4, <2>2
  <2>18. ASSUME NEW p \in 1 .. x + y, NEW q \in 1 .. x + y, st[p].key = st[q].key
         PROVE  p = q
    <3>1. CASE p \in 1 .. x /\ q \in 1 .. x
      BY <2>4, <2>6, <2>11, <2>18, <3>1
    <3>2. CASE p \in 1 .. x /\ q \in x + 1 .. x + y
      BY <2>11, <2>12, <2>17, <2>18, <3>2
    <3>3. CASE p \in x + 1 .. x + y /\ q \in 1 .. x
      BY <2>11, <2>12, <2>17, <2>18, <3>3
    <3>4. CASE p \in x + 1 .. x + y /\ q \in x + 1 .. x + y
      <4>1. t[p - x].key = t[q - x].key /\ p - x \in 1 .. y /\ q - x \in 1 .. y
        BY <2>12, <2>18, <3>4
      <4>2. p - x = q - x
        <5>1. \A i, j \in DOMAIN b[k + 1] : b[k + 1][i].key = b[k + 1][j].key => i = j
          BY <1>1, <1>6 DEF Sound
        <5> QED
          BY <4>1, <5>1, <2>2, <2>5, <2>7
      <4> QED
        BY <4>2, <2>6, <2>7
    <3> QED
      BY <3>1, <3>2, <3>3, <3>4, <2>10
  <2>19. Part(k + 1, st)
    BY <2>9, <2>16, <2>18
  <2> HIDE DEF Part
  <2> QED
    BY <2>3, <2>8, <2>19
<1>7. ASSUME NEW k \in Nat, k \in T
      PROVE  k + 1 \in T
  <2>1. CASE k = 0
    <3>1. k + 1 = 1
      BY <2>1
    <3> HIDE DEF Part
    <3> QED
      BY <3>1, <1>5
  <2>2. CASE k # 0
    <3>1. k + 1 \in 1 .. n => k \in 1 .. n
      BY <2>2
    <3>2. k + 1 \in 1 .. n => Part(k, f[k])
      BY <3>1, <1>7
    <3> HIDE DEF Part
    <3> QED
      BY <3>1, <3>2, <1>6
  <2> QED
    BY <2>1, <2>2
<1>8. \A k \in Nat : k \in T
  <2> HIDE DEF T
  <2> QED
    BY <1>3, <1>7, NaturalInduction
<1>9. Part(n, f[n])
  <2>1. n \in 1 .. n
    OBVIOUS
  <2> HIDE DEF Part
  <2> QED
    BY <1>8, <2>1
<1> QED
  BY <1>1, <1>2, <1>9, EntryFacts

(* There are as many of them. *)
LEMMA FlattenCount ==
  ASSUME NEW b, Sound(b), Len(b) # 0
  PROVE  /\ IsFiniteSet(EntriesOf(b))
         /\ Len(FlattenSeq(b)) \in Nat
         /\ Cardinality(EntriesOf(b)) = Len(FlattenSeq(b))
<1>1. PICK s : s = FlattenSeq(b)
  OBVIOUS
<1>2. /\ s \in Seq(Entry)
      /\ \A e : e \in EntriesOf(b) <=> \E p \in 1 .. Len(s) : s[p] = e
      /\ \A p, q \in 1 .. Len(s) : s[p].key = s[q].key => p = q
  BY <1>1, FlattenFacts
<1>3. Len(s) \in Nat /\ s \in [1 .. Len(s) -> EntriesOf(b)]
  BY <1>2
<1>4. s \in Bijection(1 .. Len(s), EntriesOf(b))
  BY <1>2, <1>3 DEF Bijection, Injection, Surjection, IsInjective
<1>5. ExistsBijection(1 .. Len(s), EntriesOf(b))
  BY <1>4 DEF ExistsBijection
<1>6. Cardinality(EntriesOf(b)) = Len(s)
  BY <1>3, <1>5, FS_CountingElements
<1>7. IsFiniteSet(EntriesOf(b))
  BY <1>3, <1>5, FS_NatBijection
<1> QED
  BY <1>1, <1>3, <1>6, <1>7

(***************************************************************************)
(* The doubling.                                                           *)
(***************************************************************************)

(* The table f[m] holds the first m of the entries, in n buckets. *)
Moves(f, s, n) ==
  f = [m \in 0 .. Len(s) |-> IF m = 0 THEN Empty(n) ELSE Prepend(f[m - 1], s[m])]

(* The recursion over the entries has a solution. *)
LEMMA MovingExists ==
  ASSUME NEW s, Len(s) \in Nat, NEW n
  PROVE  \E f : Moves(f, s, n)
<1> DEFINE Solves(f, k) ==
             f = [m \in 0 .. k |-> IF m = 0 THEN Empty(n) ELSE Prepend(f[m - 1], s[m])]
           T == {k \in Nat : \E f : Solves(f, k)}
<1>1. 0 \in T
  <2> DEFINE g == [m \in 0 .. 0 |-> Empty(n)]
  <2>1. \A m \in 0 .. 0 : m = 0 /\ g[m] = Empty(n)
    OBVIOUS
  <2>2. g = [m \in 0 .. 0 |-> g[m]]
    OBVIOUS
  <2>3. Solves(g, 0)
    <3> HIDE DEF g
    <3> QED
      BY <2>1, <2>2
  <2>4. \E h : Solves(h, 0)
    <3> HIDE DEF g, Solves
    <3> QED
      BY <2>3
  <2> HIDE DEF Solves
  <2> QED
    BY <2>4
<1>2. ASSUME NEW k \in Nat, k \in T
      PROVE  k + 1 \in T
  <2>1. PICK f : Solves(f, k)
    BY <1>2
  <2> DEFINE g == [m \in 0 .. k + 1 |->
                     IF m = k + 1 THEN Prepend(f[k], s[k + 1]) ELSE f[m]]
  <2>2. \A m \in 0 .. k : g[m] = f[m] /\ m \in 0 .. k + 1 /\ m # k + 1
    OBVIOUS
  <2>3. ASSUME NEW m \in 0 .. k + 1
        PROVE  g[m] = IF m = 0 THEN Empty(n) ELSE Prepend(g[m - 1], s[m])
    <3>1. CASE m = k + 1
      <4>1. m # 0 /\ m - 1 = k /\ k \in 0 .. k /\ m \in 0 .. k + 1
        BY <3>1
      <4>2. g[m] = Prepend(f[k], s[m]) /\ g[k] = f[k]
        BY <3>1, <4>1, <2>2
      <4> HIDE DEF g
      <4> QED
        BY <4>1, <4>2
    <3>2. CASE m # k + 1
      <4>1. m \in 0 .. k /\ (m = 0 \/ m - 1 \in 0 .. k)
        BY <3>2
      <4>2. f[m] = IF m = 0 THEN Empty(n) ELSE Prepend(f[m - 1], s[m])
        BY <2>1, <4>1
      <4>3. g[m] = f[m] /\ (m = 0 \/ g[m - 1] = f[m - 1])
        BY <2>2, <4>1
      <4> HIDE DEF g
      <4> QED
        BY <4>2, <4>3
    <3> QED
      BY <3>1, <3>2
  <2>4. g = [m \in 0 .. k + 1 |-> g[m]]
    OBVIOUS
  <2>5. Solves(g, k + 1)
    <3> HIDE DEF g
    <3> QED
      BY <2>3, <2>4
  <2>6. \E h : Solves(h, k + 1)
    <3> HIDE DEF g, Solves
    <3> QED
      BY <2>5
  <2>7. k + 1 \in Nat
    OBVIOUS
  <2> HIDE DEF Solves
  <2> QED
    BY <2>6, <2>7
<1>3. \A k \in Nat : k \in T
  <2> HIDE DEF T
  <2> QED
    BY <1>1, <1>2, NaturalInduction
<1> QED
  BY <1>3 DEF Moves

(* Moved is the last table of that recursion. *)
LEMMA MovedIs ==
  ASSUME Len(FlattenSeq(buckets)) \in Nat
  PROVE  \E f : /\ Moves(f, FlattenSeq(buckets), 2 * bucket_count)
                /\ Moved = f[Len(FlattenSeq(buckets))]
<1>1. PICK g : Moves(g, FlattenSeq(buckets), 2 * bucket_count)
  BY MovingExists
<1> QED
  BY <1>1 DEF Moves, Moved

(* hash_table_double_buckets keeps every entry, and puts each where a      *)
(* search in the new number of buckets looks for it.                       *)
LEMMA MovedFacts ==
  ASSUME Sound(buckets), Live
  PROVE  /\ Sound(Moved) /\ Len(Moved) = 2 * bucket_count
         /\ EntriesOf(Moved) = EntriesOf(buckets)
<1>1. PICK c \in Nat \ {0} : c = Len(buckets)
  <2>1. buckets \in Seq(Seq(Entry)) /\ buckets # <<>>
    BY DEF Sound, Live
  <2>2. Len(buckets) # 0 /\ Len(buckets) \in Nat
    BY <2>1
  <2> QED
    BY <2>2
<1>2. PICK n \in Nat \ {0} : n = 2 * bucket_count
  BY <1>1 DEF bucket_count
<1>3. PICK s : s = FlattenSeq(buckets)
  OBVIOUS
<1>4. /\ s \in Seq(Entry) /\ Len(s) \in Nat
      /\ \A e : e \in EntriesOf(buckets) <=> \E p \in 1 .. Len(s) : s[p] = e
      /\ \A p, q \in 1 .. Len(s) : s[p].key = s[q].key => p = q
  BY <1>1, <1>3, FlattenFacts
<1>5. PICK f : Moves(f, s, n) /\ Moved = f[Len(s)]
  BY <1>2, <1>3, <1>4, MovedIs
<1> DEFINE Part(k, t) ==
             /\ Sound(t) /\ Len(t) = n
             /\ EntriesOf(t) = {s[p] : p \in 1 .. k}
           T == {k \in Nat : k \in 0 .. Len(s) => Part(k, f[k])}
<1>6. Part(0, f[0])
  <2>1. f[0] = Empty(n)
    BY <1>4, <1>5 DEF Moves
  <2>2. Sound(Empty(n)) /\ Len(Empty(n)) = n /\ EntriesOf(Empty(n)) = {}
    BY EmptySound
  <2>3. {s[p] : p \in 1 .. 0} = {}
    OBVIOUS
  <2> QED
    BY <2>1, <2>2, <2>3
<1>7. ASSUME NEW k \in Nat, k + 1 \in 0 .. Len(s), Part(k, f[k])
      PROVE  Part(k + 1, f[k + 1])
  <2>1. PICK t : t = f[k]
    OBVIOUS
  <2>2. PICK e : e = s[k + 1]
    OBVIOUS
  <2>3. f[k + 1] = Prepend(t, e)
    <3>1. k + 1 \in 0 .. Len(s) /\ k + 1 # 0 /\ (k + 1) - 1 = k
      BY <1>7
    <3>2. f[k + 1] = Prepend(f[(k + 1) - 1], s[k + 1])
      BY <3>1, <1>5 DEF Moves
    <3> QED
      BY <3>1, <3>2, <2>1, <2>2
  <2>4. Sound(t) /\ Len(t) = n /\ EntriesOf(t) = {s[p] : p \in 1 .. k}
    BY <1>7, <2>1
  <2>5. k + 1 \in 1 .. Len(s) /\ \A p \in 1 .. k : p \in 1 .. Len(s) /\ p # k + 1
    BY <1>4, <1>7
  <2>6. e \in Entry
    BY <1>4, <2>2, <2>5, ElementOfSeq
  <2>7. \A g \in EntriesOf(t) : g.key # e.key
    BY <1>4, <2>2, <2>4, <2>5
  <2>8. PICK u : u = Prepend(t, e)
    OBVIOUS
  <2>9. Sound(u) /\ Len(u) = n /\ EntriesOf(u) = EntriesOf(t) \cup {e}
    <3>1. Len(t) # 0
      BY <2>4
    <3> QED
      BY <3>1, <2>4, <2>6, <2>7, <2>8, PrependFacts
  <2>10. EntriesOf(u) = {s[p] : p \in 1 .. k + 1}
    <3>1. \A p \in 1 .. k + 1 : p \in 1 .. k \/ p = k + 1
      OBVIOUS
    <3>2. k + 1 \in 1 .. k + 1 /\ \A p \in 1 .. k : p \in 1 .. k + 1
      OBVIOUS
    <3> QED
      BY <3>1, <3>2, <2>2, <2>4, <2>9
  <2>11. Part(k + 1, u)
    BY <2>9, <2>10
  <2> HIDE DEF Part
  <2> QED
    BY <2>3, <2>8, <2>11
<1>8. \A k \in Nat : k \in T
  <2>1. 0 \in T
    <3> HIDE DEF Part
    <3> QED
      BY <1>6
  <2>2. ASSUME NEW k \in Nat, k \in T
        PROVE  k + 1 \in T
    <3>1. k + 1 \in 0 .. Len(s) => k \in 0 .. Len(s)
      BY <1>4
    <3>2. k + 1 \in Nat
      OBVIOUS
    <3> HIDE DEF Part
    <3> QED
      BY <1>7, <2>2, <3>1, <3>2
  <2> HIDE DEF T
  <2> QED
    BY <2>1, <2>2, NaturalInduction
<1>9. Part(Len(s), f[Len(s)])
  <2>1. Len(s) \in 0 .. Len(s)
    BY <1>4
  <2> HIDE DEF Part
  <2> QED
    BY <1>4, <1>8, <2>1
<1>10. EntriesOf(Moved) = EntriesOf(buckets)
  BY <1>4, <1>5, <1>9
<1> QED
  BY <1>2, <1>5, <1>9, <1>10

(***************************************************************************)
(* Removal.                                                                *)
(***************************************************************************)

(* A chain without one of its entries. *)
LEMMA RemoveAtFacts ==
  ASSUME NEW S, NEW s \in Seq(S), NEW i \in 1 .. Len(s)
  PROVE  /\ RemoveAt(s, i) \in Seq(S) /\ Len(RemoveAt(s, i)) = Len(s) - 1
         /\ \A j \in 1 .. i - 1 : RemoveAt(s, i)[j] = s[j]
         /\ \A j \in i .. Len(s) - 1 : RemoveAt(s, i)[j] = s[j + 1]
<1>1. PICK n \in Nat : n = Len(s)
  OBVIOUS
<1>2. i \in 1 .. n /\ n \in Nat \ {0}
  BY <1>1
<1>3. PICK s1 : s1 = SubSeq(s, 1, i - 1)
  OBVIOUS
<1>4. PICK s2 : s2 = SubSeq(s, i + 1, n)
  OBVIOUS
<1>5. s1 \in Seq(S) /\ Len(s1) = i - 1 /\ \A j \in 1 .. i - 1 : s1[j] = s[j]
  BY <1>1, <1>2, <1>3, SubSeqProperties
<1>6. s2 \in Seq(S) /\ Len(s2) = n - i /\ \A j \in 1 .. n - i : s2[j] = s[i + j]
  BY <1>1, <1>2, <1>4, SubSeqProperties
<1>7. PICK t : t = s1 \o s2
  OBVIOUS
<1>8. /\ t \in Seq(S) /\ Len(t) = n - 1
      /\ \A j \in 1 .. n - 1 : t[j] = IF j <= i - 1 THEN s1[j] ELSE s2[j - (i - 1)]
  BY <1>2, <1>5, <1>6, <1>7, ConcatProperties
<1>9. \A j \in 1 .. i - 1 : t[j] = s[j]
  BY <1>2, <1>5, <1>8
<1>10. ASSUME NEW j \in i .. n - 1
       PROVE  t[j] = s[j + 1]
  <2>1. j \in 1 .. n - 1 /\ ~ (j <= i - 1)
    BY <1>2
  <2>2. j - (i - 1) \in 1 .. n - i /\ i + (j - (i - 1)) = j + 1
    BY <1>2
  <2> QED
    BY <2>1, <2>2, <1>6, <1>8
<1> QED
  BY <1>1, <1>3, <1>4, <1>7, <1>8, <1>9, <1>10 DEF RemoveAt

(* The entry that a search found is at Position. *)
LEMMA PositionFacts ==
  ASSUME NEW b, Sound(b), NEW c \in DOMAIN b, NEW p \in DOMAIN b[c]
  PROVE  Position(b[c], b[c][p].key) = p
<1>1. \A j, m \in DOMAIN b[c] : b[c][j].key = b[c][m].key => j = m
  BY DEF Sound
<1> QED
  BY <1>1 DEF Position

(* hash_table_remove without its count. *)
Removed(b, k) ==
  [b EXCEPT ![Index(k, Len(b))] = RemoveAt(@, Position(@, k))]

(* A removal takes out one entry and keeps the table sound. *)
LEMMA RemovedFacts ==
  ASSUME NEW b, Sound(b), NEW c \in DOMAIN b, NEW p \in DOMAIN b[c]
  PROVE  /\ Sound(Removed(b, b[c][p].key)) /\ Len(Removed(b, b[c][p].key)) = Len(b)
         /\ EntriesOf(Removed(b, b[c][p].key)) = EntriesOf(b) \ {b[c][p]}
         /\ Removed(b, b[c][p].key)[c] = RemoveAt(b[c], p)
         /\ \A i \in DOMAIN b : i # c => Removed(b, b[c][p].key)[i] = b[i]
<1> DEFINE u == Removed(b, b[c][p].key)
<1>1. PICK n \in Nat : n = Len(b) /\ DOMAIN b = 1 .. n
  BY ChainFacts
<1>2. PICK t \in Seq(Entry) : t = b[c]
  BY ChainFacts
<1>3. PICK m \in Nat : m = Len(t) /\ DOMAIN t = 1 .. m
  BY <1>2
<1>4. Index(b[c][p].key, Len(b)) = c /\ Position(b[c], b[c][p].key) = p
  BY PositionFacts DEF Sound
<1>5. u = [b EXCEPT ![c] = RemoveAt(b[c], p)]
  BY <1>4 DEF Removed
<1> HIDE DEF u
<1>6. p \in 1 .. m /\ m \in Nat \ {0} /\ p \in 1 .. Len(t)
  BY <1>2, <1>3
<1>7. PICK s : s = RemoveAt(t, p)
  OBVIOUS
<1>8. /\ s \in Seq(Entry) /\ Len(s) = m - 1
      /\ \A j \in 1 .. p - 1 : s[j] = t[j]
      /\ \A j \in p .. m - 1 : s[j] = t[j + 1]
  BY <1>3, <1>6, <1>7, RemoveAtFacts
<1>9. DOMAIN s = 1 .. m - 1
  BY <1>6, <1>8
<1>10. /\ u \in Seq(Seq(Entry)) /\ Len(u) = n /\ DOMAIN u = 1 .. n
       /\ u[c] = s /\ \A i \in 1 .. n : i # c => u[i] = b[i]
  <2>1. b \in Seq(Seq(Entry))
    BY DEF Sound
  <2>2. u = [b EXCEPT ![c] = s]
    BY <1>2, <1>5, <1>7
  <2> QED
    BY <1>1, <1>8, <2>1, <2>2, ExceptSeq
<1>11. \A j \in 1 .. m - 1 : (j \in 1 .. p - 1 /\ j \in 1 .. m) \/ (j \in p .. m - 1 /\ j + 1 \in 1 .. m)
  BY <1>6
<1>12. \A j \in 1 .. m : j = p \/ j \in 1 .. p - 1 \/ (j - 1 \in p .. m - 1 /\ (j - 1) + 1 = j)
  BY <1>6
<1> DEFINE from(j) == IF j < p THEN j ELSE j + 1
<1>13. \A j \in 1 .. m - 1 : s[j] = t[from(j)] /\ from(j) \in 1 .. m /\ from(j) # p
  BY <1>6, <1>8, <1>11
<1>14. \A j, k \in 1 .. m - 1 : from(j) = from(k) => j = k
  BY <1>6
<1>15. \A j \in 1 .. m : j # p => \E k \in 1 .. m - 1 : from(k) = j
  <2>1. ASSUME NEW j \in 1 .. m, j # p
        PROVE  \E k \in 1 .. m - 1 : from(k) = j
    <3>1. CASE j < p
      <4>1. j \in 1 .. m - 1 /\ from(j) = j
        BY <3>1, <1>6
      <4> QED
        BY <4>1
    <3>2. CASE ~ (j < p)
      <4>1. j - 1 \in 1 .. m - 1 /\ from(j - 1) = j
        BY <2>1, <3>2, <1>6
      <4> HIDE DEF from
      <4> QED
        BY <4>1
    <3> QED
      BY <3>1, <3>2
  <2> QED
    BY <2>1
<1> HIDE DEF from
<1>16. Sound(u)
  <2>1. ASSUME NEW i \in 1 .. n, NEW j \in DOMAIN u[i]
        PROVE  Index(u[i][j].key, n) = i
    <3>1. CASE i # c
      BY <2>1, <3>1, <1>1, <1>10 DEF Sound
    <3>2. CASE i = c
      <4>1. u[i][j] = b[c][from(j)] /\ from(j) \in DOMAIN b[c]
        BY <2>1, <3>2, <1>2, <1>3, <1>9, <1>10, <1>13
      <4> QED
        BY <4>1, <3>2, <1>1 DEF Sound
    <3> QED
      BY <3>1, <3>2
  <2>2. ASSUME NEW i \in 1 .. n, NEW j \in DOMAIN u[i], NEW k \in DOMAIN u[i],
               u[i][j].key = u[i][k].key
        PROVE  j = k
    <3>1. CASE i # c
      BY <2>2, <3>1, <1>1, <1>10 DEF Sound
    <3>2. CASE i = c
      <4>1. /\ u[i][j] = b[c][from(j)] /\ from(j) \in DOMAIN b[c]
            /\ u[i][k] = b[c][from(k)] /\ from(k) \in DOMAIN b[c]
            /\ j \in 1 .. m - 1 /\ k \in 1 .. m - 1
        BY <2>2, <3>2, <1>2, <1>3, <1>9, <1>10, <1>13
      <4>2. from(j) = from(k)
        BY <4>1, <2>2, <3>2 DEF Sound
      <4> QED
        BY <4>1, <4>2, <1>14
    <3> QED
      BY <3>1, <3>2
  <2> QED
    BY <1>10, <2>1, <2>2 DEF Sound
<1>17. EntriesOf(u) = EntriesOf(b) \ {b[c][p]}
  <2>1. ASSUME NEW f \in EntriesOf(u)
        PROVE  f \in EntriesOf(b) /\ f # b[c][p]
    <3>1. PICK i \in 1 .. n : \E j \in DOMAIN u[i] : u[i][j] = f
      BY <1>10, <1>16, <2>1, EntryFacts
    <3>2. PICK j \in DOMAIN u[i] : u[i][j] = f
      BY <3>1
    <3>3. CASE i # c
      <4>1. j \in DOMAIN b[i] /\ b[i][j] = f
        BY <3>2, <3>3, <1>1, <1>10
      <4>2. f.key # b[c][p].key
        BY <4>1, <3>3, <1>1, KeyOnce
      <4> QED
        BY <4>1, <4>2, <1>1, EntryFacts
    <3>4. CASE i = c
      <4>1. b[c][from(j)] = f /\ from(j) \in DOMAIN b[c] /\ from(j) # p
        BY <3>2, <3>4, <1>2, <1>3, <1>9, <1>10, <1>13
      <4>2. f.key # b[c][p].key
        BY <4>1, KeyOnce
      <4> QED
        BY <4>1, <4>2, EntryFacts
    <3> QED
      BY <3>3, <3>4
  <2>2. ASSUME NEW f \in EntriesOf(b), f # b[c][p]
        PROVE  f \in EntriesOf(u)
    <3>1. PICK i \in 1 .. n : \E j \in DOMAIN b[i] : b[i][j] = f
      BY <1>1, <2>2, EntryFacts
    <3>2. PICK j \in DOMAIN b[i] : b[i][j] = f
      BY <3>1
    <3>3. CASE i # c
      BY <3>2, <3>3, <1>10, <1>16, EntryFacts
    <3>4. CASE i = c
      <4>1. j \in 1 .. m /\ j # p
        BY <2>2, <3>2, <3>4, <1>2, <1>3
      <4>2. PICK k \in 1 .. m - 1 : from(k) = j
        BY <4>1, <1>15
      <4>3. c \in DOMAIN u /\ k \in DOMAIN u[c] /\ u[c][k] = f
        BY <4>2, <3>2, <3>4, <1>1, <1>2, <1>9, <1>10, <1>13
      <4> QED
        BY <4>3, <1>16, EntryFacts
    <3> QED
      BY <3>3, <3>4
  <2> QED
    BY <2>1, <2>2
<1> QED
  BY <1>1, <1>2, <1>7, <1>10, <1>16, <1>17 DEF u

(***************************************************************************)
(* The cursor.                                                             *)
(***************************************************************************)

(* The keys at position p of chain c and at the places after it, in the    *)
(* order of an iteration.                                                  *)
Onwards(b, c, p) ==
  {x \in Keys : \E i \in DOMAIN b : \E j \in DOMAIN b[i] :
                  b[i][j].key = x /\ (i > c \/ (i = c /\ j >= p))}

(* Membership, with the place of the key. *)
LEMMA OnwardsFacts ==
  ASSUME NEW b, Sound(b), NEW c, NEW p,
         NEW i \in DOMAIN b, NEW j \in DOMAIN b[i]
  PROVE  b[i][j].key \in Onwards(b, c, p) <=> (i > c \/ (i = c /\ j >= p))
<1>1. b[i][j].key \in Keys
  BY ChainFacts
<1>2. \A k \in DOMAIN b : \A m \in DOMAIN b[k] :
        b[k][m].key = b[i][j].key => k = i /\ m = j
  BY KeyOnce
<1> QED
  BY <1>1, <1>2 DEF Onwards

(* Every key it holds is the key of an entry. *)
LEMMA OnwardsKeys ==
  ASSUME NEW b, Sound(b), NEW c, NEW p, NEW x \in Onwards(b, c, p)
  PROVE  x \in Keys /\ \E i \in DOMAIN b : \E j \in DOMAIN b[i] : b[i][j].key = x
BY DEF Onwards

(* X has the keys of the entries at those places and no others. *)
Covers(X, b, c, p) ==
  /\ X \in SUBSET Keys
  /\ \A x \in X : \E i \in DOMAIN b : \E j \in DOMAIN b[i] : b[i][j].key = x
  /\ \A i \in DOMAIN b : \A j \in DOMAIN b[i] :
       b[i][j].key \in X <=> (i > c \/ (i = c /\ j >= p))

(* That says what is onwards of a place. *)
LEMMA OnwardsIs ==
  ASSUME NEW b, Sound(b), NEW c, NEW p, NEW X, Covers(X, b, c, p)
  PROVE  X = Onwards(b, c, p)
<1>1. ASSUME NEW x \in X
      PROVE  x \in Onwards(b, c, p)
  <2>1. PICK i \in DOMAIN b : \E j \in DOMAIN b[i] : b[i][j].key = x
    BY DEF Covers
  <2>2. PICK j \in DOMAIN b[i] : b[i][j].key = x
    BY <2>1
  <2> QED
    BY <2>2, OnwardsFacts DEF Covers
<1>2. ASSUME NEW x \in Onwards(b, c, p)
      PROVE  x \in X
  <2>1. PICK i \in DOMAIN b : \E j \in DOMAIN b[i] : b[i][j].key = x
    BY OnwardsKeys
  <2>2. PICK j \in DOMAIN b[i] : b[i][j].key = x
    BY <2>1
  <2> QED
    BY <2>2, OnwardsFacts DEF Covers
<1> QED
  BY <1>1, <1>2

(* What is ahead of a cursor at key y, which is in bucket c. *)
AheadOf(b, c, y) ==
  {y} \cup
  {e.key : e \in Range(Rest(b[Index(y, Len(b))], y))} \cup
  {e.key : e \in UNION {Range(b[i]) : i \in c + 2 .. Len(b)}}

(* The rest of a chain. *)
LEMMA RestFacts ==
  ASSUME NEW b, Sound(b), NEW c \in DOMAIN b, NEW p \in DOMAIN b[c]
  PROVE  /\ Rest(b[c], b[c][p].key) \in Seq(Entry)
         /\ Len(Rest(b[c], b[c][p].key)) = Len(b[c]) - p
         /\ \A j \in 1 .. Len(b[c]) - p :
              /\ p + j \in DOMAIN b[c]
              /\ Rest(b[c], b[c][p].key)[j] = b[c][p + j]
<1>1. PICK t \in Seq(Entry) : t = b[c]
  BY ChainFacts
<1>2. PICK m \in Nat : m = Len(t) /\ DOMAIN t = 1 .. m
  BY <1>1
<1>3. PICK r : r = SubSeq(t, p + 1, m)
  OBVIOUS
<1>4. p \in 1 .. m
  BY <1>1, <1>2
<1>5. Rest(b[c], b[c][p].key) = r
  BY <1>1, <1>2, <1>3, PositionFacts DEF Rest
<1>6. \A j \in p + 1 .. m : t[j] \in Entry
  BY <1>1, <1>2, <1>4, ElementOfSeq
<1>7. /\ r \in Seq(Entry) /\ Len(r) = m - p
      /\ \A j \in 1 .. m - p : r[j] = t[p + j]
  BY <1>2, <1>3, <1>4, <1>6, SubSeqProperties
<1>8. \A j \in 1 .. m - p : p + j \in 1 .. m
  BY <1>4
<1> QED
  BY <1>1, <1>2, <1>5, <1>7, <1>8

(* It is the cursor's place and everything onwards. *)
LEMMA AheadIsOnwards ==
  ASSUME NEW b, Sound(b), NEW c \in Nat, c + 1 \in DOMAIN b,
         NEW p \in DOMAIN b[c + 1]
  PROVE  AheadOf(b, c, b[c + 1][p].key) = Onwards(b, c + 1, p)
<1>1. PICK d \in Nat : d = c + 1 /\ c + 2 = d + 1 /\ d \in DOMAIN b /\ p \in DOMAIN b[d]
  OBVIOUS
<1>2. PICK n \in Nat : n = Len(b) /\ DOMAIN b = 1 .. n
  BY ChainFacts
<1>3. PICK y : y = b[d][p].key
  OBVIOUS
<1>4. y \in Keys /\ Index(y, Len(b)) = d
  BY <1>1, <1>2, <1>3, ChainFacts DEF Sound
<1>5. PICK r : r = Rest(b[d], y)
  OBVIOUS
<1>6. PICK m \in Nat : m = Len(b[d]) /\ DOMAIN b[d] = 1 .. m
  BY <1>1, <1>2, ChainFacts
<1>7. /\ r \in Seq(Entry) /\ Len(r) = m - p
      /\ \A j \in 1 .. m - p : p + j \in 1 .. m /\ r[j] = b[d][p + j]
  BY <1>1, <1>3, <1>5, <1>6, RestFacts
<1>8. DOMAIN r = 1 .. m - p
  BY <1>7
<1> DEFINE X == {y} \cup {e.key : e \in Range(r)} \cup
                {e.key : e \in UNION {Range(b[i]) : i \in d + 1 .. n}}
<1>9. AheadOf(b, c, y) = X
  BY <1>1, <1>2, <1>4, <1>5 DEF AheadOf
<1>10. ASSUME NEW x
       PROVE  x \in X <=> \/ x = y
                          \/ \E j \in 1 .. m - p : b[d][p + j].key = x
                          \/ \E i \in d + 1 .. n : \E j \in DOMAIN b[i] : b[i][j].key = x
  <2>1. x \in {e.key : e \in Range(r)} <=> \E j \in 1 .. m - p : b[d][p + j].key = x
    <3>1. x \in {e.key : e \in Range(r)} <=> \E j \in 1 .. m - p : r[j].key = x
      BY <1>8 DEF Range
    <3> QED
      BY <3>1, <1>7
  <2>2. x \in {e.key : e \in UNION {Range(b[i]) : i \in d + 1 .. n}} <=>
          \E i \in d + 1 .. n : \E j \in DOMAIN b[i] : b[i][j].key = x
    <3>1. ASSUME NEW i \in d + 1 .. n, NEW j \in DOMAIN b[i], b[i][j].key = x
          PROVE  x \in {e.key : e \in UNION {Range(b[k]) : k \in d + 1 .. n}}
      <4>1. b[i][j] \in UNION {Range(b[k]) : k \in d + 1 .. n}
        BY DEF Range
      <4> QED
        BY <4>1, <3>1
    <3>2. ASSUME NEW e \in UNION {Range(b[k]) : k \in d + 1 .. n}, e.key = x
          PROVE  \E i \in d + 1 .. n : \E j \in DOMAIN b[i] : b[i][j].key = x
      <4>1. PICK i \in d + 1 .. n : e \in Range(b[i])
        OBVIOUS
      <4>2. PICK j \in DOMAIN b[i] : b[i][j] = e
        BY <4>1 DEF Range
      <4> QED
        BY <4>2, <3>2
    <3> QED
      BY <3>1, <3>2
  <2> QED
    BY <2>1, <2>2
<1> HIDE DEF X
<1>11. \A i \in d + 1 .. n : i \in 1 .. n /\ i > d
  BY <1>1, <1>2
<1>12. ASSUME NEW x \in X
       PROVE  x \in Keys /\ \E i \in DOMAIN b : \E j \in DOMAIN b[i] : b[i][j].key = x
  <2>1. \E i \in DOMAIN b : \E j \in DOMAIN b[i] : b[i][j].key = x
    <3>1. CASE x = y
      BY <3>1, <1>1, <1>3
    <3>2. CASE \E j \in 1 .. m - p : b[d][p + j].key = x
      BY <3>2, <1>1, <1>6, <1>7
    <3>3. CASE \E i \in d + 1 .. n : \E j \in DOMAIN b[i] : b[i][j].key = x
      BY <3>3, <1>2, <1>11
    <3> QED
      BY <3>1, <3>2, <3>3, <1>10
  <2> QED
    BY <2>1, <1>2, ChainFacts
<1>13. ASSUME NEW i \in DOMAIN b, NEW j \in DOMAIN b[i]
       PROVE  b[i][j].key \in X <=> (i > d \/ (i = d /\ j >= p))
  <2>1. ASSUME b[i][j].key \in X
        PROVE  i > d \/ (i = d /\ j >= p)
    <3>1. CASE b[i][j].key = y
      <4>1. i = d /\ j = p
        BY <3>1, <1>1, <1>3, KeyOnce
      <4> QED
        BY <4>1, <1>1, <1>6
    <3>2. CASE \E k \in 1 .. m - p : b[d][p + k].key = b[i][j].key
      <4>1. PICK k \in 1 .. m - p : b[d][p + k].key = b[i][j].key
        BY <3>2
      <4>2. i = d /\ j = p + k
        BY <4>1, <1>1, <1>6, <1>7, KeyOnce
      <4>3. p \in Nat
        BY <1>1, <1>6
      <4> QED
        BY <4>2, <4>3
    <3>3. CASE \E k \in d + 1 .. n : \E q \in DOMAIN b[k] : b[k][q].key = b[i][j].key
      <4>1. PICK k \in d + 1 .. n : \E q \in DOMAIN b[k] : b[k][q].key = b[i][j].key
        BY <3>3
      <4>2. i = k
        BY <4>1, <1>2, <1>11, KeyOnce
      <4> QED
        BY <4>2, <1>11
    <3> QED
      BY <2>1, <3>1, <3>2, <3>3, <1>10
  <2>2. ASSUME i > d
        PROVE  b[i][j].key \in X
    <3>1. i \in d + 1 .. n
      BY <1>2, <2>2
    <3> QED
      BY <3>1, <1>10
  <2>3. ASSUME i = d, j >= p
        PROVE  b[i][j].key \in X
    <3>1. p \in 1 .. m /\ j \in 1 .. m
      BY <1>1, <1>6, <2>3
    <3>2. CASE j = p
      BY <3>2, <2>3, <1>3, <1>10
    <3>3. CASE j # p
      <4>1. j - p \in 1 .. m - p /\ p + (j - p) = j
        BY <3>1, <3>3, <2>3
      <4> QED
        BY <4>1, <2>3, <1>10
    <3> QED
      BY <3>2, <3>3
  <2> QED
    BY <2>1, <2>2, <2>3
<1>14. X = Onwards(b, d, p)
  <2>1. X \in SUBSET Keys
    BY <1>12
  <2>2. \A x \in X : \E i \in DOMAIN b : \E j \in DOMAIN b[i] : b[i][j].key = x
    BY <1>12
  <2>3. \A i \in DOMAIN b : \A j \in DOMAIN b[i] :
          b[i][j].key \in X <=> (i > d \/ (i = d /\ j >= p))
    BY <1>13
  <2>4. Covers(X, b, d, p)
    BY <2>1, <2>2, <2>3 DEF Covers
  <2> QED
    BY <2>4, OnwardsIs
<1> QED
  BY <1>1, <1>3, <1>9, <1>14

(* A step to the next place of a chain leaves one key behind. *)
LEMMA OnwardsStep ==
  ASSUME NEW b, Sound(b), NEW c \in DOMAIN b, NEW p \in DOMAIN b[c]
  PROVE  Onwards(b, c, p + 1) = Onwards(b, c, p) \ {b[c][p].key}
<1> DEFINE X == Onwards(b, c, p) \ {b[c][p].key}
<1>1. X \in SUBSET Keys /\ \A x \in X : \E i \in DOMAIN b : \E j \in DOMAIN b[i] : b[i][j].key = x
  BY OnwardsKeys
<1>2. ASSUME NEW i \in DOMAIN b, NEW j \in DOMAIN b[i]
      PROVE  b[i][j].key \in X <=> (i > c \/ (i = c /\ j >= p + 1))
  <2>1. p \in Nat /\ j \in Nat /\ c \in Nat /\ i \in Nat
    BY ChainFacts
  <2>2. b[i][j].key \in X <=> ((i > c \/ (i = c /\ j >= p)) /\ b[i][j].key # b[c][p].key)
    BY OnwardsFacts
  <2>3. b[i][j].key = b[c][p].key <=> (i = c /\ j = p)
    BY KeyOnce
  <2> QED
    BY <2>1, <2>2, <2>3
<1> HIDE DEF X
<1>3. PICK q : q = p + 1
  OBVIOUS
<1>4. X = Onwards(b, c, q)
  <2>1. \A i \in DOMAIN b : \A j \in DOMAIN b[i] :
          b[i][j].key \in X <=> (i > c \/ (i = c /\ j >= q))
    BY <1>2, <1>3
  <2>2. Covers(X, b, c, q)
    BY <1>1, <2>1 DEF Covers
  <2> QED
    BY <2>2, OnwardsIs
<1> QED
  BY <1>3, <1>4 DEF X

(* After the last place of a chain come the places of the later chains. *)
LEMMA OnwardsSkip ==
  ASSUME NEW b, Sound(b), NEW c \in Nat, NEW p \in Nat, NEW d \in Nat, c < d,
         c \in DOMAIN b => p > Len(b[c]),
         \A i \in c + 1 .. d - 1 : i \in DOMAIN b => b[i] = <<>>
  PROVE  Onwards(b, c, p) = Onwards(b, d, 1)
<1> DEFINE X == Onwards(b, c, p)
<1>1. X \in SUBSET Keys /\ \A x \in X : \E i \in DOMAIN b : \E j \in DOMAIN b[i] : b[i][j].key = x
  BY OnwardsKeys
<1>2. ASSUME NEW i \in DOMAIN b, NEW j \in DOMAIN b[i]
      PROVE  b[i][j].key \in X <=> (i > d \/ (i = d /\ j >= 1))
  <2>1. i \in Nat /\ j \in 1 .. Len(b[i]) /\ Len(b[i]) \in Nat /\ b[i] # <<>>
    <3>1. i \in Nat /\ j \in 1 .. Len(b[i]) /\ Len(b[i]) \in Nat
      BY ChainFacts
    <3> QED
      BY <3>1
  <2>2. b[i][j].key \in X <=> (i > c \/ (i = c /\ j >= p))
    BY OnwardsFacts
  <2>3. ~ (i \in c + 1 .. d - 1) /\ ~ (i = c /\ j >= p)
    BY <2>1
  <2> QED
    BY <2>1, <2>2, <2>3
<1> HIDE DEF X
<1>3. X = Onwards(b, d, 1)
  <2>1. \A i \in DOMAIN b : \A j \in DOMAIN b[i] :
          b[i][j].key \in X <=> (i > d \/ (i = d /\ j >= 1))
    BY <1>2
  <2>2. Covers(X, b, d, 1)
    BY <1>1, <2>1 DEF Covers
  <2> QED
    BY <2>2, OnwardsIs
<1> QED
  BY <1>3 DEF X

(* Nothing is onwards of the last chain. *)
LEMMA OnwardsEnd ==
  ASSUME NEW b, Sound(b), NEW c \in Nat, c > Len(b), NEW p
  PROVE  Onwards(b, c, p) = {}
<1>1. Len(b) \in Nat /\ DOMAIN b = 1 .. Len(b)
  BY ChainFacts
<1>2. \A i \in DOMAIN b : ~ (i > c) /\ i # c
  BY <1>1
<1> QED
  BY <1>2 DEF Onwards

(* Every key is onwards of the first place. *)
LEMMA OnwardsAll ==
  ASSUME NEW b, Sound(b)
  PROVE  Onwards(b, 1, 1) = {e.key : e \in EntriesOf(b)}
<1> DEFINE X == {e.key : e \in EntriesOf(b)}
<1>1. ASSUME NEW x \in X
      PROVE  x \in Keys /\ \E i \in DOMAIN b : \E j \in DOMAIN b[i] : b[i][j].key = x
  <2>1. PICK e \in EntriesOf(b) : e.key = x
    OBVIOUS
  <2>2. \E i \in DOMAIN b : \E j \in DOMAIN b[i] : b[i][j] = e
    BY EntryFacts
  <2> QED
    BY <2>1, <2>2, ChainFacts
<1>2. ASSUME NEW i \in DOMAIN b, NEW j \in DOMAIN b[i]
      PROVE  b[i][j].key \in X <=> (i > 1 \/ (i = 1 /\ j >= 1))
  <2>1. i \in Nat /\ i >= 1 /\ j \in Nat /\ j >= 1
    BY ChainFacts
  <2>2. b[i][j] \in EntriesOf(b)
    BY EntryFacts
  <2> QED
    BY <2>1, <2>2
<1> HIDE DEF X
<1>3. X = Onwards(b, 1, 1)
  <2>1. /\ X \in SUBSET Keys
        /\ \A x \in X : \E i \in DOMAIN b : \E j \in DOMAIN b[i] : b[i][j].key = x
    BY <1>1
  <2>2. \A i \in DOMAIN b : \A j \in DOMAIN b[i] :
          b[i][j].key \in X <=> (i > 1 \/ (i = 1 /\ j >= 1))
    BY <1>2
  <2>3. Covers(X, b, 1, 1)
    BY <2>1, <2>2 DEF Covers
  <2> QED
    BY <2>3, OnwardsIs
<1> QED
  BY <1>3 DEF X

(* A new entry in front of a chain before the cursor, of the cursor's own  *)
(* chain, or of a later one: only in a later one does it lie ahead.        *)
LEMMA OnwardsPrepend ==
  ASSUME NEW b, Sound(b), NEW e \in Entry, \A f \in EntriesOf(b) : f.key # e.key,
         NEW c \in DOMAIN b, NEW p \in DOMAIN b[c]
  PROVE  \E q \in DOMAIN Prepend(b, e)[c] :
           /\ Prepend(b, e)[c][q].key = b[c][p].key
           /\ Onwards(Prepend(b, e), c, q) \in
                {Onwards(b, c, p), Onwards(b, c, p) \cup {e.key}}
<1>1. PICK n \in Nat \ {0} : n = Len(b) /\ DOMAIN b = 1 .. n
  <2>1. Len(b) \in Nat /\ DOMAIN b = 1 .. Len(b) /\ Len(b) # 0
    BY ChainFacts
  <2> QED
    BY <2>1
<1>2. PICK k : k = Index(e.key, n)
  OBVIOUS
<1>3. PICK u : u = Prepend(b, e)
  OBVIOUS
<1>4. PICK s \in Seq(Entry) : s = b[k] /\ k \in 1 .. n
  BY <1>1, <1>2, PrependFacts, ChainFacts
<1>5. /\ Sound(u) /\ Len(u) = n /\ DOMAIN u = 1 .. n /\ u[k] = Cons(e, s)
      /\ \A i \in 1 .. n : i # k => u[i] = b[i]
  <2>1. /\ Sound(u) /\ Len(u) = n /\ u[k] = Cons(e, s)
        /\ \A i \in 1 .. n : i # k => u[i] = b[i]
    BY <1>1, <1>2, <1>3, <1>4, PrependFacts
  <2> QED
    BY <2>1, ChainFacts
<1>6. PICK m \in Nat : m = Len(s) /\ DOMAIN s = 1 .. m
  OBVIOUS
<1>7. PICK t : t = Cons(e, s)
  OBVIOUS
<1>8. /\ t \in Seq(Entry) /\ Len(t) = m + 1 /\ DOMAIN t = 1 .. m + 1 /\ t[1] = e
      /\ \A j \in 2 .. m + 1 : j - 1 \in 1 .. m /\ t[j] = s[j - 1]
  <2>1. /\ t \in Seq(Entry) /\ Len(t) = m + 1 /\ t[1] = e
        /\ \A j \in 2 .. m + 1 : j - 1 \in 1 .. m /\ t[j] = s[j - 1]
    <3>1. /\ Cons(e, s) \in Seq(Entry) /\ Len(Cons(e, s)) = Len(s) + 1
          /\ Cons(e, s)[1] = e
          /\ \A j \in 2 .. Len(s) + 1 : j - 1 \in 1 .. Len(s) /\ Cons(e, s)[j] = s[j - 1]
      BY ConsFacts
    <3> QED
      BY <3>1, <1>6, <1>7
  <2> QED
    BY <2>1, LenProperties
<1>9. \A j \in 1 .. m : j + 1 \in 2 .. m + 1 /\ j + 1 \in 1 .. m + 1 /\ (j + 1) - 1 = j
  BY <1>6
<1>10. \A j \in 1 .. m + 1 : j = 1 \/ j \in 2 .. m + 1
  BY <1>6
<1>11. \A i \in 1 .. n : \A j \in DOMAIN b[i] :
         u[i][IF i = k THEN j + 1 ELSE j] = b[i][j]
         /\ (IF i = k THEN j + 1 ELSE j) \in DOMAIN u[i]
  <2>1. ASSUME NEW i \in 1 .. n, NEW j \in DOMAIN b[i], i = k
        PROVE  u[i][j + 1] = b[i][j] /\ j + 1 \in DOMAIN u[i]
    <3>1. j \in 1 .. m
      BY <2>1, <1>4, <1>6
    <3>2. t[j + 1] = s[j] /\ j + 1 \in DOMAIN t
      BY <3>1, <1>8, <1>9
    <3> QED
      BY <3>2, <2>1, <1>4, <1>5, <1>7
  <2>2. ASSUME NEW i \in 1 .. n, NEW j \in DOMAIN b[i], i # k
        PROVE  u[i][j] = b[i][j] /\ j \in DOMAIN u[i]
    BY <2>2, <1>5
  <2> QED
    BY <2>1, <2>2
<1>12. \A i \in 1 .. n : \A j \in DOMAIN u[i] :
         \/ i = k /\ j = 1 /\ u[i][j] = e
         \/ i = k /\ j \in 2 .. m + 1 /\ j - 1 \in DOMAIN b[i] /\ u[i][j] = b[i][j - 1]
         \/ i # k /\ j \in DOMAIN b[i] /\ u[i][j] = b[i][j]
  <2>1. ASSUME NEW i \in 1 .. n, NEW j \in DOMAIN u[i], i = k
        PROVE  \/ j = 1 /\ u[i][j] = e
               \/ j \in 2 .. m + 1 /\ j - 1 \in DOMAIN b[i] /\ u[i][j] = b[i][j - 1]
    <3>1. j \in 1 .. m + 1 /\ u[i] = t
      BY <2>1, <1>5, <1>7, <1>8
    <3> QED
      BY <3>1, <2>1, <1>4, <1>6, <1>8, <1>10
  <2> QED
    BY <2>1, <1>5
<1>13. PICK q : q = IF c = k THEN p + 1 ELSE p
  OBVIOUS
<1>14. q \in DOMAIN u[c] /\ u[c][q] = b[c][p]
  BY <1>1, <1>11, <1>13
<1>15. DOMAIN b[c] \subseteq Nat /\ c \in Nat /\ k \in Nat
  BY <1>1, <1>4, ChainFacts
<1>16. p \in Nat /\ q \in Nat
  BY <1>13, <1>15
<1> DEFINE X == IF k > c THEN Onwards(b, c, p) \cup {e.key} ELSE Onwards(b, c, p)
<1>17. ASSUME NEW i \in DOMAIN u, NEW j \in DOMAIN u[i]
       PROVE  u[i][j].key \in X <=> (i > c \/ (i = c /\ j >= q))
  <2>1. i \in 1 .. n
    BY <1>5
  <2>2. e.key \notin Onwards(b, c, p)
    <3>1. SUFFICES ASSUME e.key \in Onwards(b, c, p) PROVE FALSE
      OBVIOUS
    <3>2. PICK i1 \in DOMAIN b : \E j1 \in DOMAIN b[i1] : b[i1][j1].key = e.key
      BY <3>1, OnwardsKeys
    <3>3. PICK j1 \in DOMAIN b[i1] : b[i1][j1].key = e.key
      BY <3>2
    <3>4. b[i1][j1] \in EntriesOf(b)
      BY EntryFacts
    <3> QED
      BY <3>3, <3>4
  <2>3. \A i1 \in DOMAIN b : \A j1 \in DOMAIN b[i1] : b[i1][j1].key # e.key
    BY EntryFacts
  <2>4. CASE i = k /\ j = 1 /\ u[i][j] = e
    <3>1. u[i][j].key \in X <=> k > c
      BY <2>2, <2>4
    <3>2. ~ (k = c /\ 1 >= q)
      BY <1>6, <1>13, <1>14, <1>15, <1>16, <1>4, <1>1
    <3> QED
      BY <3>1, <3>2, <2>4, <1>15
  <2>5. CASE i = k /\ j \in 2 .. m + 1 /\ j - 1 \in DOMAIN b[i] /\ u[i][j] = b[i][j - 1]
    <3>1. u[i][j].key \in X <=> u[i][j].key \in Onwards(b, c, p)
      BY <2>1, <2>3, <2>5, <1>1
    <3>2. u[i][j].key \in Onwards(b, c, p) <=> (i > c \/ (i = c /\ j - 1 >= p))
      <4>1. PICK j1 \in DOMAIN b[i] : j1 = j - 1 /\ u[i][j] = b[i][j1]
        BY <2>5
      <4> QED
        BY <4>1, <2>1, <1>1, OnwardsFacts
    <3>3. i = c => (j - 1 >= p <=> j >= q)
      BY <2>5, <1>13, <1>15, <1>16, <1>6
    <3> QED
      BY <3>1, <3>2, <3>3
  <2>6. CASE i # k /\ j \in DOMAIN b[i] /\ u[i][j] = b[i][j]
    <3>1. u[i][j].key \in X <=> u[i][j].key \in Onwards(b, c, p)
      BY <2>1, <2>3, <2>6, <1>1
    <3>2. u[i][j].key \in Onwards(b, c, p) <=> (i > c \/ (i = c /\ j >= p))
      BY <2>1, <2>6, <1>1, OnwardsFacts
    <3>3. i = c => q = p
      BY <2>6, <1>13
    <3> QED
      BY <3>1, <3>2, <3>3
  <2> QED
    BY <2>1, <2>4, <2>5, <2>6, <1>12
<1>18. ASSUME NEW x \in X
       PROVE  x \in Keys /\ \E i \in DOMAIN u : \E j \in DOMAIN u[i] : u[i][j].key = x
  <2>1. CASE x = e.key
    <3>1. k \in DOMAIN u /\ 1 \in DOMAIN u[k] /\ u[k][1] = e
      BY <1>4, <1>5, <1>6, <1>7, <1>8
    <3> QED
      BY <2>1, <3>1 DEF Entry
  <2>2. CASE x # e.key
    <3>1. x \in Onwards(b, c, p)
      BY <1>18, <2>2
    <3>2. PICK i \in DOMAIN b : \E j \in DOMAIN b[i] : b[i][j].key = x
      BY <3>1, OnwardsKeys
    <3>3. PICK j \in DOMAIN b[i] : b[i][j].key = x
      BY <3>2
    <3>4. x \in Keys
      BY <3>1, OnwardsKeys
    <3>5. PICK j1 : j1 = IF i = k THEN j + 1 ELSE j
      OBVIOUS
    <3>6. i \in DOMAIN u /\ j1 \in DOMAIN u[i] /\ u[i][j1].key = x
      BY <3>3, <3>5, <1>1, <1>5, <1>11
    <3> QED
      BY <3>4, <3>6
  <2> QED
    BY <2>1, <2>2
<1>19. X \in {Onwards(b, c, p), Onwards(b, c, p) \cup {e.key}}
  OBVIOUS
<1> HIDE DEF X
<1>20. X = Onwards(u, c, q)
  <2>1. /\ X \in SUBSET Keys
        /\ \A x \in X : \E i \in DOMAIN u : \E j \in DOMAIN u[i] : u[i][j].key = x
    BY <1>18
  <2>2. \A i \in DOMAIN u : \A j \in DOMAIN u[i] :
          u[i][j].key \in X <=> (i > c \/ (i = c /\ j >= q))
    BY <1>17
  <2>3. Sound(u)
    BY <1>5
  <2>4. Covers(X, u, c, q)
    BY <2>1, <2>2, <2>3 DEF Covers
  <2> QED
    BY <2>4, <1>5, OnwardsIs
<1> QED
  BY <1>3, <1>14, <1>19, <1>20

(* The removal of another entry takes its key from what is ahead.          *)
LEMMA OnwardsRemoved ==
  ASSUME NEW b, Sound(b), NEW c \in DOMAIN b, NEW p \in DOMAIN b[c],
         NEW d \in DOMAIN b, NEW r \in DOMAIN b[d], NEW k, k = b[d][r].key,
         k # b[c][p].key, NEW u, u = Removed(b, k)
  PROVE  \E q \in DOMAIN u[c] :
           /\ u[c][q].key = b[c][p].key
           /\ Onwards(u, c, q) = Onwards(b, c, p) \ {k}
<1>1. PICK n \in Nat : n = Len(b) /\ DOMAIN b = 1 .. n
  BY ChainFacts
<1>2. k = b[d][r].key
  OBVIOUS
<1>3. u = Removed(b, k)
  OBVIOUS
<1>4. PICK t \in Seq(Entry) : t = b[d]
  BY ChainFacts
<1>5. PICK m \in Nat : m = Len(t) /\ DOMAIN t = 1 .. m
  OBVIOUS
<1>6. r \in 1 .. m /\ r \in 1 .. Len(t)
  BY <1>4, <1>5
<1>7. PICK s : s = RemoveAt(t, r)
  OBVIOUS
<1>8. /\ Sound(u) /\ Len(u) = n /\ DOMAIN u = 1 .. n /\ u[d] = s
      /\ EntriesOf(u) = EntriesOf(b) \ {b[d][r]}
      /\ \A i \in 1 .. n : i # d => u[i] = b[i]
  <2>1. /\ Sound(u) /\ Len(u) = n /\ u[d] = s
        /\ EntriesOf(u) = EntriesOf(b) \ {b[d][r]}
        /\ \A i \in 1 .. n : i # d => u[i] = b[i]
    <3>1. u = Removed(b, b[d][r].key)
      BY <1>2, <1>3
    <3>2. /\ Sound(u) /\ Len(u) = Len(b) /\ u[d] = RemoveAt(b[d], r)
          /\ EntriesOf(u) = EntriesOf(b) \ {b[d][r]}
          /\ \A i \in DOMAIN b : i # d => u[i] = b[i]
      BY <3>1, RemovedFacts
    <3> QED
      BY <3>2, <1>1, <1>4, <1>7
  <2> QED
    BY <2>1, ChainFacts
<1>9. /\ s \in Seq(Entry) /\ Len(s) = m - 1 /\ DOMAIN s = 1 .. m - 1
      /\ \A j \in 1 .. r - 1 : s[j] = t[j]
      /\ \A j \in r .. m - 1 : s[j] = t[j + 1]
  <2>1. /\ s \in Seq(Entry) /\ Len(s) = m - 1
        /\ \A j \in 1 .. r - 1 : s[j] = t[j]
        /\ \A j \in r .. m - 1 : s[j] = t[j + 1]
    BY <1>5, <1>6, <1>7, RemoveAtFacts
  <2> QED
    BY <2>1, LenProperties
<1>10. PICK q : q = IF c = d /\ p > r THEN p - 1 ELSE p
  OBVIOUS
<1>11. p \in Nat /\ c \in Nat /\ d \in Nat /\ DOMAIN b[c] = 1 .. Len(b[c])
  BY <1>1, ChainFacts
<1>12. c = d => p \in 1 .. m /\ p # r
  BY <1>4, <1>5
<1>13. q \in DOMAIN u[c] /\ u[c][q] = b[c][p]
  <2>1. CASE c # d
    BY <2>1, <1>1, <1>8, <1>10
  <2>2. CASE c = d /\ p > r
    <3>1. q \in r .. m - 1 /\ q \in 1 .. m - 1 /\ q + 1 = p
      BY <2>2, <1>6, <1>10, <1>11, <1>12
    <3>2. s[q] = t[p]
      BY <3>1, <1>9
    <3> QED
      BY <2>2, <3>1, <3>2, <1>4, <1>8, <1>9
  <2>3. CASE c = d /\ ~ (p > r)
    <3>1. q \in 1 .. r - 1 /\ q \in 1 .. m - 1 /\ q = p
      BY <2>3, <1>6, <1>10, <1>11, <1>12
    <3>2. s[q] = t[p]
      BY <3>1, <1>9
    <3> QED
      BY <2>3, <3>1, <3>2, <1>4, <1>8, <1>9
  <2> QED
    BY <2>1, <2>2, <2>3
<1> DEFINE X == Onwards(b, c, p) \ {k}
<1>14. ASSUME NEW i \in DOMAIN u, NEW j \in DOMAIN u[i]
       PROVE  u[i][j].key \in X <=> (i > c \/ (i = c /\ j >= q))
  <2>1. i \in DOMAIN b /\ i \in 1 .. n
    BY <1>1, <1>8
  <2>2. u[i][j].key # k
    <3>1. u[i][j] \in EntriesOf(u)
      BY <1>8, EntryFacts
    <3>2. b[d][r] \in EntriesOf(b)
      BY EntryFacts
    <3> QED
      BY <3>1, <3>2, <1>2, <1>8, KeyOnce
  <2>3. CASE i # d
    <3>1. j \in DOMAIN b[i] /\ u[i][j] = b[i][j]
      BY <2>1, <2>3, <1>8
    <3>2. u[i][j].key \in Onwards(b, c, p) <=> (i > c \/ (i = c /\ j >= p))
      BY <3>1, <2>1, OnwardsFacts
    <3> QED
      BY <3>2, <2>2, <2>3, <1>10
  <2>4. CASE i = d
    <3>1. j \in 1 .. m - 1 /\ u[i] = s
      BY <2>4, <1>8, <1>9
    <3>2. PICK j1 : j1 = IF j < r THEN j ELSE j + 1
      OBVIOUS
    <3>3. j1 \in 1 .. m /\ s[j] = t[j1]
      <4>1. CASE j < r
        <5>1. j \in 1 .. r - 1 /\ j1 = j /\ j \in 1 .. m
          BY <4>1, <3>1, <3>2, <1>6
        <5> QED
          BY <5>1, <1>9
      <4>2. CASE ~ (j < r)
        <5>1. j \in r .. m - 1 /\ j1 = j + 1 /\ j + 1 \in 1 .. m
          BY <4>2, <3>1, <3>2, <1>6
        <5> QED
          BY <5>1, <1>9
      <4> QED
        BY <4>1, <4>2
    <3>4. j1 \in DOMAIN b[i] /\ u[i][j] = b[i][j1]
      BY <3>1, <3>3, <2>4, <1>4, <1>5
    <3>5. u[i][j].key \in Onwards(b, c, p) <=> (i > c \/ (i = c /\ j1 >= p))
      BY <3>4, <2>1, OnwardsFacts
    <3>6. i = c => (j1 >= p <=> j >= q)
      BY <3>1, <3>2, <2>4, <1>6, <1>10, <1>11, <1>12
    <3> QED
      BY <3>5, <3>6, <2>2
  <2> QED
    BY <2>3, <2>4
<1>15. ASSUME NEW x \in X
       PROVE  x \in Keys /\ \E i \in DOMAIN u : \E j \in DOMAIN u[i] : u[i][j].key = x
  <2>1. x \in Onwards(b, c, p) /\ x # k
    OBVIOUS
  <2>2. PICK i \in DOMAIN b : \E j \in DOMAIN b[i] : b[i][j].key = x
    BY <2>1, OnwardsKeys
  <2>3. PICK j \in DOMAIN b[i] : b[i][j].key = x
    BY <2>2
  <2>4. b[i][j] \in EntriesOf(u)
    BY <2>1, <2>3, <1>2, <1>8, EntryFacts
  <2>5. \E i1 \in DOMAIN u : \E j1 \in DOMAIN u[i1] : u[i1][j1] = b[i][j]
    BY <2>4, <1>8, EntryFacts
  <2>6. \E i1 \in DOMAIN u : \E j1 \in DOMAIN u[i1] : u[i1][j1].key = x
    BY <2>3, <2>5
  <2> QED
    BY <2>1, <2>6, OnwardsKeys
<1>16. X = Onwards(b, c, p) \ {k}
  OBVIOUS
<1> HIDE DEF X
<1>17. X = Onwards(u, c, q)
  <2>1. /\ X \in SUBSET Keys
        /\ \A x \in X : \E i \in DOMAIN u : \E j \in DOMAIN u[i] : u[i][j].key = x
    BY <1>15
  <2>2. \A i \in DOMAIN u : \A j \in DOMAIN u[i] :
          u[i][j].key \in X <=> (i > c \/ (i = c /\ j >= q))
    BY <1>14
  <2>3. Covers(X, u, c, q)
    BY <2>1, <2>2 DEF Covers
  <2> QED
    BY <2>3, <1>8, OnwardsIs
<1> QED
  BY <1>2, <1>3, <1>13, <1>16, <1>17

(***************************************************************************)
(* The cursor of the table.                                                *)
(***************************************************************************)

(* A cursor at a key is in the chain that has it. *)
CursorSound(b, c, y) ==
  y \in Keys => c + 1 \in DOMAIN b /\ \E p \in DOMAIN b[c + 1] : b[c + 1][p].key = y

(* Ahead is what is ahead of the cursor. *)
LEMMA AheadFacts ==
  Ahead = IF ientry \notin Keys THEN {} ELSE AheadOf(buckets, ibucket, ientry)
BY DEF Ahead, AheadOf, Chain, bucket_count

(* CursorFrom finds the first of the later places that has an entry.       *)
LEMMA CursorFromFacts ==
  ASSUME Sound(buckets), NEW from \in Nat, CursorFrom(from), UNCHANGED buckets
  PROVE  /\ ibucket' \in Nat /\ ientry' \in Keys \cup {NULL}
         /\ CursorSound(buckets, ibucket', ientry')
         /\ Ahead' = Onwards(buckets, from + 1, 1)
<1>1. PICK b : b = buckets
  OBVIOUS
<1>2. PICK n \in Nat : n = Len(b) /\ DOMAIN b = 1 .. n
  BY <1>1, ChainFacts
<1>3. Sound(b) /\ buckets' = b
  BY <1>1
<1>4. Busy(from) = {i \in from + 1 .. n : b[i] # <<>>}
  BY <1>1, <1>2 DEF Busy, bucket_count
<1>5. Ahead' = IF ientry' \notin Keys THEN {} ELSE AheadOf(b, ibucket', ientry')
  BY <1>3 DEF Ahead, AheadOf, Chain, bucket_count
<1>6. CASE Busy(from) = {}
  <2>1. ibucket' = n /\ ientry' = NULL
    BY <1>1, <1>2, <1>6 DEF CursorFrom, bucket_count
  <2>2. ientry' \notin Keys
    BY <2>1, KeysAssumption
  <2>3. Onwards(b, from + 1, 1) = {}
    <3>1. PICK d \in Nat : d = n + from + 2
      BY <1>2
    <3>2. \A i \in (from + 1) + 1 .. d - 1 : i \in DOMAIN b => b[i] = <<>>
      BY <1>2, <1>4, <1>6, <3>1
    <3>3. from + 1 \in DOMAIN b => b[from + 1] = <<>>
      BY <1>2, <1>4, <1>6
    <3>4. from + 1 \in DOMAIN b => 1 > Len(b[from + 1])
      BY <3>3
    <3>5. from + 1 \in Nat /\ from + 1 < d
      BY <1>2, <3>1
    <3>6. Onwards(b, from + 1, 1) = Onwards(b, d, 1)
      BY <3>2, <3>4, <3>5, <1>3, OnwardsSkip
    <3>7. d > Len(b)
      BY <1>2, <3>1
    <3> QED
      BY <3>6, <3>7, <1>3, OnwardsEnd
  <2> QED
    BY <2>1, <2>2, <2>3, <1>1, <1>2, <1>5 DEF CursorSound
<1>7. CASE Busy(from) # {}
  <2>1. PICK i \in Busy(from) : \A j \in Busy(from) : i <= j
    <3>1. Busy(from) \in SUBSET Nat
      BY <1>2, <1>4
    <3> QED
      BY <3>1, <1>7, LeastNatural
  <2>2. Least(Busy(from)) = i
    <3>1. PICK l : l = Least(Busy(from))
      OBVIOUS
    <3>2. l \in Busy(from) /\ \A j \in Busy(from) : l <= j
      BY <2>1, <3>1 DEF Least
    <3>3. l <= i /\ i <= l /\ l \in Nat /\ i \in Nat
      BY <2>1, <3>2, <1>2, <1>4
    <3> QED
      BY <3>1, <3>3
  <2>3. ibucket' = i - 1 /\ ientry' = Head(b[i]).key
    BY <1>1, <1>7, <2>2 DEF CursorFrom
  <2>4. i \in from + 1 .. n /\ i \in 1 .. n /\ b[i] # <<>> /\ b[i] \in Seq(Entry)
    BY <2>1, <1>2, <1>3, <1>4, ChainFacts
  <2>5. Head(b[i]) = b[i][1] /\ 1 \in DOMAIN b[i]
    BY <2>4
  <2>6. PICK c \in Nat : c = i - 1 /\ c + 1 = i
    BY <2>4
  <2>7. ientry' \in Keys /\ ientry' = b[c + 1][1].key
    BY <2>3, <2>4, <2>5, <2>6, <1>2, <1>3, ChainFacts
  <2>8. AheadOf(b, c, b[c + 1][1].key) = Onwards(b, c + 1, 1)
    BY <2>4, <2>5, <2>6, <1>2, <1>3, AheadIsOnwards
  <2>9. Onwards(b, from + 1, 1) = Onwards(b, i, 1)
    <3>1. CASE i = from + 1
      BY <3>1
    <3>2. CASE i # from + 1
      <4>1. \A j \in from + 1 .. i - 1 : j \notin Busy(from) /\ j \in from + 1 .. n
        BY <2>1, <2>4, <1>2
      <4>2. \A j \in from + 1 .. i - 1 : b[j] = <<>>
        BY <4>1, <1>4
      <4>3. from + 1 \in Nat /\ i \in Nat /\ from + 1 < i /\ from + 1 \in from + 1 .. i - 1
        BY <2>4, <3>2, <1>2
      <4>4. from + 1 \in DOMAIN b => 1 > Len(b[from + 1])
        BY <4>2, <4>3
      <4>5. \A j \in (from + 1) + 1 .. i - 1 : j \in DOMAIN b => b[j] = <<>>
        BY <4>2
      <4> QED
        BY <4>3, <4>4, <4>5, <1>3, OnwardsSkip
    <3> QED
      BY <3>1, <3>2
  <2>10. CursorSound(b, c, ientry')
    BY <2>4, <2>5, <2>6, <2>7, <1>2 DEF CursorSound
  <2> QED
    BY <2>3, <2>6, <2>7, <2>8, <2>9, <2>10, <1>1, <1>5
<1> QED
  BY <1>6, <1>7

(***************************************************************************)
(* The table as a map.                                                     *)
(***************************************************************************)

(* AsMap, of any table. *)
MapOf(b) ==
  [k \in Keys |-> LET found == {e \in EntriesOf(b) : e.key = k} IN
                  IF found = {} THEN Absent ELSE Result(found)]

(* The value of a key is that of its entry. *)
LEMMA MapFacts ==
  ASSUME NEW b, Sound(b)
  PROVE  /\ \A e \in EntriesOf(b) :
              e.key \in Keys /\ MapOf(b)[e.key] = e.value /\ e.value # Absent
         /\ \A k \in Keys : (\A e \in EntriesOf(b) : e.key # k) => MapOf(b)[k] = Absent
         /\ {k \in Keys : MapOf(b)[k] # Absent} = {e.key : e \in EntriesOf(b)}
<1>1. ASSUME NEW e \in EntriesOf(b)
      PROVE  e.key \in Keys /\ MapOf(b)[e.key] = e.value /\ e.value # Absent
  <2>1. e \in Entry
    BY KeyOnce
  <2>2. e.key \in Keys /\ e.value # Absent
    BY <2>1, KeysAssumption DEF Entry
  <2>3. {f \in EntriesOf(b) : f.key = e.key} = {e}
    BY KeyOnce
  <2>4. PICK s : s = {f \in EntriesOf(b) : f.key = e.key}
    OBVIOUS
  <2>5. s # {} /\ Result(s) = e.value
    BY <2>3, <2>4 DEF Result
  <2>6. MapOf(b)[e.key] = IF s = {} THEN Absent ELSE Result(s)
    BY <2>2, <2>4 DEF MapOf
  <2> QED
    BY <2>2, <2>5, <2>6
<1>2. ASSUME NEW k \in Keys, \A e \in EntriesOf(b) : e.key # k
      PROVE  MapOf(b)[k] = Absent
  <2>1. {f \in EntriesOf(b) : f.key = k} = {}
    BY <1>2
  <2> QED
    BY <2>1 DEF MapOf
<1>3. \A k \in Keys : (\A e \in EntriesOf(b) : e.key # k) => MapOf(b)[k] = Absent
  BY <1>2
<1>4. \A k \in Keys : MapOf(b)[k] # Absent <=> \E e \in EntriesOf(b) : e.key = k
  BY <1>1, <1>3
<1>5. {k \in Keys : MapOf(b)[k] # Absent} = {e.key : e \in EntriesOf(b)}
  BY <1>1, <1>4
<1> QED
  BY <1>1, <1>3, <1>5

(* A map is known by the entries. *)
LEMMA MapIs ==
  ASSUME NEW b, Sound(b), NEW f, f = [k \in Keys |-> f[k]],
         \A e \in EntriesOf(b) : f[e.key] = e.value,
         \A k \in Keys : (\A e \in EntriesOf(b) : e.key # k) => f[k] = Absent
  PROVE  f = MapOf(b)
<1>1. ASSUME NEW k \in Keys
      PROVE  f[k] = MapOf(b)[k]
  <2>1. CASE \A e \in EntriesOf(b) : e.key # k
    BY <2>1, MapFacts
  <2>2. CASE ~ \A e \in EntriesOf(b) : e.key # k
    <3>1. PICK e \in EntriesOf(b) : e.key = k
      BY <2>2
    <3> QED
      BY <3>1, MapFacts
  <2> QED
    BY <2>1, <2>2
<1>2. MapOf(b) = [k \in Keys |-> MapOf(b)[k]]
  BY DEF MapOf
<1> QED
  BY <1>1, <1>2

(* What a search in the chain of a key returns. *)
LEMMA ResultFacts ==
  ASSUME NEW b, Sound(b), Len(b) # 0, NEW k \in Keys
  PROVE  /\ Find(b[Index(k, Len(b))], k) = {} <=> MapOf(b)[k] = Absent
         /\ Result(Find(b[Index(k, Len(b))], k)) =
              IF MapOf(b)[k] # Absent THEN MapOf(b)[k] ELSE NULL
<1>1. PICK s : s = {e \in EntriesOf(b) : e.key = k}
  OBVIOUS
<1>2. Find(b[Index(k, Len(b))], k) = s
  BY <1>1, FindFacts
<1>3. MapOf(b)[k] = IF s = {} THEN Absent ELSE Result(s)
  BY <1>1 DEF MapOf
<1>4. s # {} => MapOf(b)[k] # Absent
  BY <1>1, MapFacts
<1>5. s = {} => Result(s) = NULL
  BY DEF Result
<1> QED
  BY <1>2, <1>3, <1>4, <1>5

(* AsMap and Entries are those of the buckets. *)
LEMMA StateFacts ==
  AsMap = MapOf(buckets) /\ Entries = EntriesOf(buckets)
BY DEF AsMap, MapOf, Entries, EntriesOf

(* A table has a finite number of entries. *)
LEMMA CountFacts ==
  ASSUME NEW b, Sound(b)
  PROVE  IsFiniteSet(EntriesOf(b)) /\ Cardinality(EntriesOf(b)) \in Nat
<1>1. CASE Len(b) # 0
  BY <1>1, FlattenCount
<1>2. CASE Len(b) = 0
  <2>1. DOMAIN b = {}
    BY <1>2, ChainFacts
  <2>2. EntriesOf(b) = {}
    BY <2>1 DEF EntriesOf
  <2> QED
    BY <2>2, FS_EmptySet
<1> QED
  BY <1>1, <1>2

(***************************************************************************)
(* The invariant, and what each call does.                                 *)
(***************************************************************************)

(* The invariant: the chains are sound, the count is of at least the       *)
(* entries, and the cursor is at a key that the table has.                 *)
HInv ==
  /\ Sound(buckets)
  /\ size \in Nat /\ Cardinality(Entries) <= size
  /\ ibucket \in Nat /\ ientry \in Keys \cup {NULL, Wild}
  /\ CursorSound(buckets, ibucket, ientry)
  /\ LoadBounded

(* A call of the map, or nothing that it shows. *)
MapStep == D!Next \/ UNCHANGED D!vars

(* One step of SizeDrifts. *)
DriftStep ==
  \/ Drift' = Drift
  \/ ret' = <<"clear">> /\ Drift' = Drift + Cardinality(Entries)
  \/ Drift' = 0

(* A table without entries and without a cursor keeps the invariant. *)
LEMMA EmptyStep ==
  ASSUME HInv, NEW n \in Nat, buckets' = Empty(n), size' \in Nat,
         ibucket' \in Nat, ientry' \in {NULL, Wild}
  PROVE  /\ HInv' /\ Cardinality(Entries)' = 0
         /\ AsMap' = [k \in Keys |-> Absent] /\ Ahead' = {}
<1>1. /\ Sound(Empty(n)) /\ Len(Empty(n)) = n /\ EntriesOf(Empty(n)) = {}
  BY EmptySound
<1>2. Entries' = {} /\ Cardinality(Entries)' = 0
  BY <1>1, FS_EmptySet DEF Entries, EntriesOf
<1>3. AsMap' = [k \in Keys |-> Absent]
  BY <1>2 DEF AsMap
<1>4. ientry' \notin Keys
  BY KeysAssumption
<1>5. Ahead' = {}
  BY <1>4 DEF Ahead
<1>6. LoadBounded'
  <2>1. bucket_count' = n
    BY <1>1 DEF bucket_count
  <2> QED
    BY <2>1, <1>2 DEF LoadBounded
<1>7. Sound(buckets)' /\ CursorSound(buckets, ibucket, ientry)'
  BY <1>1, <1>4 DEF CursorSound, Sound
<1>8. (Cardinality(Entries) <= size)'
  BY <1>2
<1> QED
  BY <1>2, <1>3, <1>5, <1>6, <1>7, <1>8 DEF HInv

(* hash_table_create. *)
LEMMA CreateStep ==
  ASSUME HInv, NEW asked \in Nat, hash_table_create(asked)
  PROVE  HInv' /\ MapStep /\ DriftStep
<1>1. CountFor(asked) \in Nat
  BY HashAssumption DEF CountFor
<1>2. /\ buckets' = Empty(CountFor(asked)) /\ size' = 0 /\ ibucket' = 0
      /\ ientry' = Wild /\ ret' = <<"create">>
  BY DEF hash_table_create
<1>3. /\ HInv' /\ Cardinality(Entries)' = 0
      /\ AsMap' = [k \in Keys |-> Absent] /\ Ahead' = {}
  BY <1>1, <1>2, EmptyStep
<1>4. D!Clear("create")
  BY <1>2, <1>3 DEF D!Clear, D!Absent, Absent
<1>5. Drift' = 0
  BY <1>2, <1>3 DEF Drift
<1> QED
  BY <1>3, <1>4, <1>5 DEF MapStep, DriftStep, D!Next

(* hash_table_delete. *)
LEMMA DeleteStep ==
  ASSUME HInv, hash_table_delete
  PROVE  HInv' /\ MapStep /\ DriftStep
<1>1. /\ buckets' = <<>> /\ size' = 0 /\ ibucket' = 0
      /\ ientry' = Wild /\ ret' = <<"delete">>
  BY DEF hash_table_delete
<1>2. Empty(0) = <<>>
  <2>1. Empty(0) \in Seq(Seq(Entry)) /\ Len(Empty(0)) = 0
    BY EmptySound DEF Sound
  <2> HIDE DEF Empty
  <2> QED
    BY <2>1, EmptySeq
<1>3. /\ HInv' /\ Cardinality(Entries)' = 0
      /\ AsMap' = [k \in Keys |-> Absent] /\ Ahead' = {}
  <2> HIDE DEF Empty
  <2> QED
    BY <1>1, <1>2, EmptyStep
<1>4. D!Clear("delete")
  BY <1>1, <1>3 DEF D!Clear, D!Absent, Absent
<1>5. Drift' = 0
  BY <1>1, <1>3 DEF Drift
<1> QED
  BY <1>3, <1>4, <1>5 DEF MapStep, DriftStep, D!Next

(* hash_table_clear, which forgets the entries and not their number. *)
LEMMA ClearStep ==
  ASSUME HInv, hash_table_clear
  PROVE  HInv' /\ MapStep /\ DriftStep
<1>1. /\ buckets' = Empty(bucket_count) /\ size' = size /\ ibucket' = ibucket
      /\ ientry' = (IF ientry \in Keys THEN Wild ELSE ientry) /\ ret' = <<"clear">>
  BY DEF hash_table_clear
<1>2. /\ bucket_count \in Nat /\ size \in Nat /\ ibucket \in Nat
      /\ ientry \in Keys \cup {NULL, Wild}
      /\ IsFiniteSet(Entries) /\ Cardinality(Entries) \in Nat
  BY ChainFacts, CountFacts, StateFacts DEF HInv, bucket_count
<1>3. ientry' \in {NULL, Wild}
  BY <1>1, <1>2
<1>4. /\ HInv' /\ Cardinality(Entries)' = 0
      /\ AsMap' = [k \in Keys |-> Absent] /\ Ahead' = {}
  BY <1>1, <1>2, <1>3, EmptyStep
<1>5. D!Clear("clear")
  BY <1>1, <1>4 DEF D!Clear, D!Absent, Absent
<1>6. Drift' = Drift + Cardinality(Entries)
  BY <1>1, <1>2, <1>4 DEF Drift
<1> QED
  BY <1>1, <1>4, <1>5, <1>6 DEF MapStep, DriftStep, D!Next

(* A call that leaves the entries and the count alone. *)
LEMMA SameTable ==
  ASSUME HInv, UNCHANGED table
  PROVE  /\ Sound(buckets)' /\ size' \in Nat /\ (Cardinality(Entries) <= size)'
         /\ LoadBounded' /\ AsMap' = AsMap /\ DriftStep
<1>1. buckets' = buckets /\ size' = size
  BY DEF table
<1>2. Entries' = Entries /\ AsMap' = AsMap
  BY <1>1 DEF Entries, AsMap
<1>3. Drift' = Drift
  BY <1>1, <1>2 DEF Drift
<1> QED
  BY <1>1, <1>2, <1>3 DEF HInv, Sound, LoadBounded, Live, bucket_count, DriftStep

(* hash_table_lookup. *)
LEMMA LookupStep ==
  ASSUME HInv, Live, NEW k \in Keys, hash_table_lookup(k)
  PROVE  HInv' /\ MapStep /\ DriftStep
<1>1. /\ buckets' = buckets /\ UNCHANGED table /\ ibucket' = ibucket /\ ientry' = ientry
      /\ ret' = <<"lookup", k, Result(Find(buckets[Index(k, Len(buckets))], k))>>
  BY DEF hash_table_lookup, table, Chain, bucket_count
<1>2. Sound(buckets) /\ Len(buckets) # 0
  <2>1. Sound(buckets) /\ buckets \in Seq(Seq(Entry)) /\ buckets # <<>>
    BY DEF HInv, Sound, Live
  <2> QED
    BY <2>1
<1>3. Ahead' = Ahead
  BY <1>1 DEF Ahead, Chain, bucket_count
<1>4. AsMap' = AsMap /\ AsMap = MapOf(buckets)
  BY <1>1, SameTable, StateFacts
<1>5. ret' = <<"lookup", k, IF AsMap[k] # Absent THEN AsMap[k] ELSE NULL>>
  BY <1>1, <1>2, <1>4, ResultFacts
<1>6. D!Lookup(k)
  BY <1>3, <1>4, <1>5
  DEF D!Lookup, D!Present, D!Absent, D!NULL, Absent, NULL
<1>7. HInv'
  BY <1>1, SameTable DEF HInv, CursorSound
<1> QED
  BY <1>1, <1>6, <1>7, SameTable DEF MapStep, D!Next

(* hash_table_firstkey. *)
LEMMA FirstStep ==
  ASSUME HInv, hash_table_firstkey
  PROVE  HInv' /\ MapStep /\ DriftStep
<1>1. CursorFrom(0) /\ ret' = <<"firstkey">> /\ UNCHANGED table /\ UNCHANGED buckets
  BY DEF hash_table_firstkey, table
<1>2. Sound(buckets)
  BY DEF HInv
<1>3. /\ ibucket' \in Nat /\ ientry' \in Keys \cup {NULL}
      /\ CursorSound(buckets, ibucket', ientry')
      /\ Ahead' = Onwards(buckets, 0 + 1, 1)
  BY <1>1, <1>2, CursorFromFacts
<1>4. Ahead' = {k \in Keys : AsMap[k] # Absent}
  <2>1. Ahead' = {e.key : e \in EntriesOf(buckets)}
    BY <1>2, <1>3, OnwardsAll
  <2> QED
    BY <2>1, <1>2, MapFacts, StateFacts
<1>5. D!FirstKey
  BY <1>1, <1>4, SameTable DEF D!FirstKey, D!Present, D!Absent, Absent
<1>6. HInv'
  BY <1>1, <1>3, SameTable DEF HInv, CursorSound
<1> QED
  BY <1>1, <1>5, <1>6, SameTable DEF MapStep, D!Next

(* The place of a cursor at a key. *)
LEMMA CursorPlace ==
  ASSUME HInv, ientry \in Keys
  PROVE  /\ ibucket + 1 \in DOMAIN buckets /\ Index(ientry, Len(buckets)) = ibucket + 1
         /\ \E p \in DOMAIN buckets[ibucket + 1] :
              /\ buckets[ibucket + 1][p].key = ientry
              /\ Ahead = Onwards(buckets, ibucket + 1, p)
<1>1. Sound(buckets) /\ ibucket \in Nat
  BY DEF HInv
<1>2. ibucket + 1 \in DOMAIN buckets
  BY DEF HInv, CursorSound
<1>3. PICK p \in DOMAIN buckets[ibucket + 1] : buckets[ibucket + 1][p].key = ientry
  BY DEF HInv, CursorSound
<1>4. Index(ientry, Len(buckets)) = ibucket + 1
  BY <1>1, <1>2, <1>3 DEF Sound
<1>5. AheadOf(buckets, ibucket, buckets[ibucket + 1][p].key) =
        Onwards(buckets, ibucket + 1, p)
  BY <1>1, <1>2, AheadIsOnwards
<1>6. Ahead = Onwards(buckets, ibucket + 1, p)
  BY <1>3, <1>5, AheadFacts
<1> QED
  BY <1>2, <1>3, <1>4, <1>6

(* hash_table_nextkey leaves one key behind. *)
LEMMA NextStep ==
  ASSUME HInv, hash_table_nextkey
  PROVE  HInv' /\ MapStep /\ DriftStep
<1>1. /\ ientry # Wild /\ UNCHANGED table /\ UNCHANGED buckets /\ Sound(buckets)
      /\ ientry \in Keys \cup {NULL, Wild} /\ ibucket \in Nat
  BY DEF hash_table_nextkey, table, HInv
<1>2. CASE ientry = NULL
  <2>1. ret' = <<"nextkey">> /\ UNCHANGED cursor
    BY <1>2 DEF hash_table_nextkey
  <2>2. Ahead' = Ahead
    BY <1>1, <2>1 DEF Ahead, Chain, bucket_count, cursor
  <2>3. Ahead = {}
    BY <1>2, KeysAssumption DEF Ahead
  <2>4. D!NextKey
    BY <2>1, <2>2, <2>3, <1>1, SameTable DEF D!NextKey
  <2>5. HInv'
    BY <1>1, <2>1, SameTable DEF HInv, CursorSound, cursor
  <2> QED
    BY <1>1, <2>4, <2>5, SameTable DEF MapStep, D!Next
<1>3. CASE ientry \in Keys
  <2>1. PICK b : b = buckets
    OBVIOUS
  <2>2. PICK c \in Nat : c = ibucket + 1
    BY <1>1
  <2>3. PICK y \in Keys : y = ientry
    BY <1>3
  <2>4. /\ Sound(b) /\ c \in DOMAIN b /\ Index(y, Len(b)) = c
        /\ \E p \in DOMAIN b[c] : b[c][p].key = y /\ Ahead = Onwards(b, c, p)
    BY <1>1, <1>3, <2>1, <2>2, <2>3, CursorPlace
  <2>5. PICK p \in DOMAIN b[c] : b[c][p].key = y /\ Ahead = Onwards(b, c, p)
    BY <2>4
  <2>6. PICK rest : rest = Rest(b[c], y)
    OBVIOUS
  <2>7. /\ ret' = <<"nextkey", y, Result(Find(b[c], y))>>
        /\ IF rest # <<>> THEN ientry' = Head(rest).key /\ ibucket' = ibucket
                          ELSE CursorFrom(ibucket + 1)
    <3>1. ientry # NULL
      BY <1>3, KeysAssumption
    <3>2. Chain(ientry) = b[c]
      BY <2>1, <2>3, <2>4 DEF Chain, bucket_count
    <3> QED
      BY <3>1, <3>2, <2>3, <2>6 DEF hash_table_nextkey
  <2>8. b[c] \in Seq(Entry) /\ DOMAIN b[c] = 1 .. Len(b[c]) /\ Len(b[c]) \in Nat
    BY <2>4, ChainFacts
  <2>9. /\ rest \in Seq(Entry) /\ Len(rest) = Len(b[c]) - p
        /\ \A j \in 1 .. Len(b[c]) - p : p + j \in DOMAIN b[c] /\ rest[j] = b[c][p + j]
    BY <2>4, <2>5, <2>6, RestFacts
  <2>10. Onwards(b, c, p + 1) = Ahead \ {y}
    BY <2>4, <2>5, OnwardsStep
  <2>11. /\ ibucket' \in Nat /\ ientry' \in Keys \cup {NULL}
         /\ CursorSound(buckets, ibucket', ientry') /\ Ahead' = Ahead \ {y}
    <3>1. CASE rest # <<>>
      <4>1. 1 \in 1 .. Len(b[c]) - p /\ Head(rest) = rest[1]
        BY <2>5, <2>8, <2>9, <3>1
      <4>2. p + 1 \in DOMAIN b[c] /\ ientry' = b[c][p + 1].key /\ ibucket' = ibucket
        BY <4>1, <2>7, <2>9, <3>1
      <4>3. PICK q : q = p + 1
        OBVIOUS
      <4>4. AheadOf(b, ibucket, b[c][q].key) = Onwards(b, c, q)
        BY <4>2, <4>3, <1>1, <2>2, <2>4, AheadIsOnwards
      <4>5. ientry' \in Keys
        BY <4>2, <2>4, ChainFacts
      <4>6. Ahead' = AheadOf(b, ibucket, ientry')
        BY <4>2, <4>5, <1>1, <2>1 DEF Ahead, AheadOf, Chain, bucket_count
      <4>7. Ahead' = Ahead \ {y}
        BY <4>2, <4>3, <4>4, <4>6, <2>10
      <4>8. CursorSound(buckets, ibucket', ientry')
        BY <4>2, <2>1, <2>2, <2>4 DEF CursorSound
      <4> QED
        BY <4>2, <4>5, <4>7, <4>8, <1>1
    <3>2. CASE rest = <<>>
      <4>1. p = Len(b[c])
        <5>1. Len(rest) = 0
          BY <3>2
        <5> QED
          BY <5>1, <2>5, <2>8, <2>9
      <4>2. CursorFrom(c)
        BY <2>2, <2>7, <3>2
      <4>3. /\ ibucket' \in Nat /\ ientry' \in Keys \cup {NULL}
            /\ CursorSound(buckets, ibucket', ientry')
            /\ Ahead' = Onwards(buckets, c + 1, 1)
        BY <4>2, <1>1, <2>2, CursorFromFacts
      <4>4. Onwards(b, c, p + 1) = Onwards(b, c + 1, 1)
        <5>1. p + 1 \in Nat /\ c + 1 \in Nat /\ c < c + 1 /\ p + 1 > Len(b[c])
          BY <4>1, <2>8
        <5>2. \A i \in c + 1 .. (c + 1) - 1 : FALSE
          BY <2>2
        <5> QED
          BY <5>1, <5>2, <2>4, OnwardsSkip
      <4> QED
        BY <4>3, <4>4, <2>1, <2>10
    <3> QED
      BY <3>1, <3>2
  <2>12. y \in Ahead
    <3>1. b[c][p].key \in Onwards(b, c, p) <=> (c > c \/ (c = c /\ p >= p))
      BY <2>4, <2>5, OnwardsFacts
    <3>2. p >= p
      BY <2>5, <2>8
    <3> QED
      BY <3>1, <3>2, <2>5
  <2>13. ret' = <<"nextkey", y, AsMap[y]>>
    <3>1. b[c][p] \in EntriesOf(b)
      BY <2>4, <2>5, EntryFacts
    <3>2. MapOf(b)[y] # Absent
      BY <3>1, <2>4, <2>5, MapFacts
    <3>3. Len(b) # 0
      BY <2>4, ChainFacts
    <3>4. Result(Find(b[c], y)) = MapOf(b)[y]
      <4>1. Result(Find(b[Index(y, Len(b))], y)) =
              IF MapOf(b)[y] # Absent THEN MapOf(b)[y] ELSE NULL
        BY <3>3, <2>4, ResultFacts
      <4> QED
        BY <4>1, <3>2, <2>4
    <3> QED
      BY <3>4, <2>1, <2>7, StateFacts
  <2>14. D!NextKey
    BY <2>11, <2>12, <2>13, <1>1, SameTable DEF D!NextKey
  <2>15. HInv'
    BY <2>11, <1>1, SameTable DEF HInv, CursorSound
  <2> QED
    BY <2>14, <2>15, <1>1, SameTable DEF MapStep, D!Next
<1> QED
  BY <1>1, <1>2, <1>3

(* hash_table_remove of a key that is not there. *)
LEMMA RemoveNothing ==
  ASSUME HInv, Live, NEW k \in Keys, hash_table_remove(k),
         Find(buckets[Index(k, Len(buckets))], k) = {}
  PROVE  HInv' /\ MapStep /\ DriftStep
<1>1. /\ UNCHANGED table /\ buckets' = buckets /\ Sound(buckets) /\ Len(buckets) # 0
      /\ ientry' = (IF ientry = k THEN Wild ELSE ientry) /\ ibucket' = ibucket
      /\ ret' = <<"remove", k, Result(Find(buckets[Index(k, Len(buckets))], k))>>
  <2>1. Sound(buckets) /\ buckets \in Seq(Seq(Entry)) /\ buckets # <<>>
    BY DEF HInv, Sound, Live
  <2> QED
    BY <2>1 DEF hash_table_remove, table, bucket_count
<1>2. AsMap[k] = Absent
  BY <1>1, ResultFacts, StateFacts
<1>3. \A e \in EntriesOf(buckets) : e.key # k
  BY <1>1, <1>2, MapFacts, StateFacts
<1>4. ientry # k
  <2>1. SUFFICES ASSUME ientry = k PROVE FALSE
    OBVIOUS
  <2>2. ibucket + 1 \in DOMAIN buckets
        /\ \E p \in DOMAIN buckets[ibucket + 1] : buckets[ibucket + 1][p].key = k
    BY <2>1, CursorPlace
  <2>3. PICK p \in DOMAIN buckets[ibucket + 1] : buckets[ibucket + 1][p].key = k
    BY <2>2
  <2>4. buckets[ibucket + 1][p] \in EntriesOf(buckets)
    BY <2>2, <1>1, EntryFacts
  <2> QED
    BY <2>3, <2>4, <1>3
<1>5. ientry' = ientry /\ Ahead' = Ahead
  BY <1>1, <1>4 DEF Ahead, Chain, bucket_count
<1>6. k \notin Ahead
  <2>1. CASE ientry \notin Keys
    BY <2>1 DEF Ahead
  <2>2. CASE ientry \in Keys
    <3>1. PICK p : Ahead = Onwards(buckets, ibucket + 1, p)
      BY <2>2, CursorPlace
    <3>2. SUFFICES ASSUME k \in Ahead PROVE FALSE
      OBVIOUS
    <3>3. PICK i \in DOMAIN buckets : \E j \in DOMAIN buckets[i] : buckets[i][j].key = k
      BY <1>1, <3>1, <3>2, OnwardsKeys
    <3>4. PICK j \in DOMAIN buckets[i] : buckets[i][j].key = k
      BY <3>3
    <3>5. buckets[i][j] \in EntriesOf(buckets)
      BY <1>1, EntryFacts
    <3> QED
      BY <3>4, <3>5, <1>3
  <2> QED
    BY <2>1, <2>2
<1>7. ret' = <<"remove", k, IF AsMap[k] # Absent THEN AsMap[k] ELSE NULL>>
  BY <1>1, ResultFacts, StateFacts
<1>8. AsMap' = [AsMap EXCEPT ![k] = Absent]
  <2>1. AsMap' = AsMap /\ AsMap = [x \in Keys |-> AsMap[x]]
    BY <1>1, SameTable DEF AsMap
  <2> QED
    BY <2>1, <1>2
<1>9. D!Remove(k)
  BY <1>5, <1>6, <1>7, <1>8
  DEF D!Remove, D!Present, D!Absent, D!NULL, Absent, NULL
<1>10. HInv'
  BY <1>1, <1>5, SameTable DEF HInv, CursorSound
<1> QED
  BY <1>1, <1>9, <1>10, SameTable DEF MapStep, D!Next

(* hash_table_remove of a key that is there. *)
LEMMA RemoveFound ==
  ASSUME HInv, Live, NEW k \in Keys, hash_table_remove(k),
         Find(buckets[Index(k, Len(buckets))], k) # {}
  PROVE  HInv' /\ MapStep /\ DriftStep
<1>1. /\ Sound(buckets) /\ Len(buckets) # 0 /\ Len(buckets) \in Nat
      /\ size' = size - 1 /\ size \in Nat
      /\ ientry' = (IF ientry = k THEN Wild ELSE ientry) /\ ibucket' = ibucket
      /\ ret' = <<"remove", k, Result(Find(buckets[Index(k, Len(buckets))], k))>>
  <2>1. Sound(buckets) /\ buckets \in Seq(Seq(Entry)) /\ buckets # <<>> /\ size \in Nat
    BY DEF HInv, Sound, Live
  <2> QED
    BY <2>1 DEF hash_table_remove, table, bucket_count
<1>2. buckets' = Removed(buckets, k)
  BY DEF hash_table_remove, Removed, bucket_count, table
<1>3. PICK e \in EntriesOf(buckets) : e.key = k
  BY <1>1, FindFacts
<1>4. PICK d \in DOMAIN buckets : \E r \in DOMAIN buckets[d] : buckets[d][r] = e
  BY <1>1, <1>3, EntryFacts
<1>5. PICK r \in DOMAIN buckets[d] : buckets[d][r] = e
  BY <1>4
<1>6. PICK b : b = buckets
  OBVIOUS
<1>7. PICK u : u = Removed(b, k)
  OBVIOUS
<1>8. /\ Sound(b) /\ d \in DOMAIN b /\ r \in DOMAIN b[d] /\ b[d][r] = e
      /\ b[d][r].key = k /\ buckets' = u
  BY <1>1, <1>2, <1>3, <1>4, <1>5, <1>6, <1>7
<1>9. Sound(u) /\ Len(u) = Len(b) /\ EntriesOf(u) = EntriesOf(b) \ {e}
  BY <1>7, <1>8, RemovedFacts
<1>10. /\ Entries = EntriesOf(b) /\ Entries' = EntriesOf(u)
       /\ AsMap = MapOf(b) /\ AsMap' = MapOf(u)
  BY <1>6, <1>8, StateFacts DEF Entries, EntriesOf, AsMap, MapOf
<1>11. /\ Cardinality(Entries) \in Nat /\ Cardinality(Entries)' = Cardinality(Entries) - 1
       /\ Cardinality(Entries)' \in Nat /\ Cardinality(Entries) <= size
  <2>1. IsFiniteSet(Entries) /\ Cardinality(Entries) \in Nat
    BY <1>1, CountFacts, StateFacts
  <2>2. e \in Entries /\ Entries' = Entries \ {e}
    BY <1>3, <1>6, <1>9, <1>10
  <2>3. Cardinality(Entries \ {e}) = Cardinality(Entries) - 1
    BY <2>1, <2>2, FS_RemoveElement
  <2>4. Cardinality(Entries)' \in Nat
    BY <1>9, <1>10, CountFacts
  <2> QED
    BY <2>1, <2>2, <2>3, <2>4 DEF HInv
<1>12. AsMap' = [AsMap EXCEPT ![k] = Absent]
  <2>1. AsMap = [x \in Keys |-> AsMap[x]]
    BY DEF AsMap
  <2>2. PICK f : f = [AsMap EXCEPT ![k] = Absent]
    OBVIOUS
  <2>3. f = [x \in Keys |-> f[x]] /\ \A x \in Keys : f[x] = IF x = k THEN Absent ELSE AsMap[x]
    BY <2>1, <2>2
  <2>4. ASSUME NEW g \in EntriesOf(u)
        PROVE  f[g.key] = g.value
    <3>1. g \in EntriesOf(b) /\ g.key # k
      BY <1>3, <1>6, <1>8, <1>9, KeyOnce
    <3> QED
      BY <3>1, <2>3, <1>8, <1>10, MapFacts
  <2>5. ASSUME NEW x \in Keys, \A g \in EntriesOf(u) : g.key # x
        PROVE  f[x] = Absent
    <3>1. CASE x = k
      BY <3>1, <2>3
    <3>2. CASE x # k
      <4>1. \A g \in EntriesOf(b) : g.key # x
        BY <2>5, <3>2, <1>3, <1>9
      <4>2. AsMap[x] = Absent
        BY <4>1, <1>8, <1>10, MapFacts
      <4> QED
        BY <4>2, <3>2, <2>3
    <3> QED
      BY <3>1, <3>2
  <2>6. f = MapOf(u)
    BY <2>3, <2>4, <2>5, <1>9, MapIs
  <2> QED
    BY <2>2, <2>6, <1>10
<1>13. ret' = <<"remove", k, IF AsMap[k] # Absent THEN AsMap[k] ELSE NULL>>
  BY <1>1, ResultFacts, StateFacts
<1>14. Ahead' \in {Ahead \ {k}, {}} /\ CursorSound(u, ibucket', ientry')
  <2>1. CASE ientry' \notin Keys
    BY <2>1 DEF Ahead, CursorSound
  <2>2. CASE ientry' \in Keys
    <3>1. ientry' = ientry /\ ientry # k /\ ientry \in Keys
      BY <2>2, <1>1, KeysAssumption
    <3>2. PICK c \in Nat : c = ibucket + 1
      BY DEF HInv
    <3>3. PICK y \in Keys : y = ientry
      BY <3>1
    <3>4. /\ c \in DOMAIN b
          /\ \E p \in DOMAIN b[c] : b[c][p].key = y /\ Ahead = Onwards(b, c, p)
      BY <3>1, <3>2, <3>3, <1>6, CursorPlace
    <3>5. PICK p \in DOMAIN b[c] : b[c][p].key = y /\ Ahead = Onwards(b, c, p)
      BY <3>4
    <3>6. PICK q \in DOMAIN u[c] :
            u[c][q].key = y /\ Onwards(u, c, q) = Onwards(b, c, p) \ {k}
      <4>1. /\ Sound(b) /\ c \in DOMAIN b /\ p \in DOMAIN b[c]
            /\ d \in DOMAIN b /\ r \in DOMAIN b[d] /\ k = b[d][r].key
            /\ k # b[c][p].key /\ u = Removed(b, k)
        BY <3>1, <3>3, <3>4, <3>5, <1>7, <1>8
      <4>2. \E q \in DOMAIN u[c] :
              /\ u[c][q].key = b[c][p].key
              /\ Onwards(u, c, q) = Onwards(b, c, p) \ {k}
        BY ONLY <4>1, OnwardsRemoved, SMTT(30)
      <4> QED
        BY <4>2, <3>5
    <3>7. c \in DOMAIN u
      BY <3>4, <1>8, <1>9, ChainFacts
    <3>8. AheadOf(u, ibucket, u[c][q].key) = Onwards(u, c, q)
      BY <3>2, <3>7, <1>9, AheadIsOnwards DEF HInv
    <3>9. Ahead' = AheadOf(u, ibucket, y)
      BY <3>1, <3>3, <1>1, <1>8 DEF Ahead, AheadOf, Chain, bucket_count
    <3>10. CursorSound(u, ibucket', ientry')
      BY <3>1, <3>2, <3>3, <3>6, <3>7, <1>1 DEF CursorSound
    <3> QED
      BY <3>5, <3>6, <3>8, <3>9, <3>10
  <2> QED
    BY <2>1, <2>2
<1>15. D!Remove(k)
  BY <1>12, <1>13, <1>14
  DEF D!Remove, D!Present, D!Absent, D!NULL, Absent, NULL
<1>16. Drift' = Drift
  BY <1>1, <1>11 DEF Drift
<1>17. LoadBounded'
  <2>1. bucket_count' = bucket_count /\ bucket_count \in Nat
    BY <1>1, <1>6, <1>8, <1>9 DEF bucket_count
  <2>2. 4 * (Cardinality(Entries) - 1) <= 3 * bucket_count
    BY DEF HInv, LoadBounded
  <2> QED
    BY <2>1, <2>2, <1>11 DEF LoadBounded
<1>18. HInv'
  <2>1. size' \in Nat /\ (Cardinality(Entries) <= size)'
    BY <1>1, <1>11
  <2>2. /\ Sound(buckets)' /\ CursorSound(buckets, ibucket, ientry)'
        /\ ibucket' \in Nat /\ ientry' \in Keys \cup {NULL, Wild}
    BY <1>1, <1>8, <1>9, <1>14 DEF HInv, Sound, CursorSound
  <2> QED
    BY <2>1, <2>2, <1>17 DEF HInv
<1> QED
  BY <1>15, <1>16, <1>18 DEF MapStep, DriftStep, D!Next

(* The buckets and the count that an insertion goes on with: a doubling    *)
(* makes room and corrects the count.                                      *)
LEMMA GrownFacts ==
  ASSUME HInv, Live
  PROVE  /\ Sound(Grown[1]) /\ Len(Grown[1]) \in Nat \ {0}
         /\ EntriesOf(Grown[1]) = Entries
         /\ Grown[2] \in Nat /\ Cardinality(Entries) <= Grown[2]
         /\ 4 * Cardinality(Entries) <= 3 * Len(Grown[1])
         /\ Grown[2] - Cardinality(Entries) = Drift \/ Grown[2] - Cardinality(Entries) = 0
         /\ ~ Overloaded => Grown[1] = buckets
<1>1. /\ Sound(buckets) /\ Len(buckets) # 0 /\ Len(buckets) \in Nat
      /\ size \in Nat /\ Cardinality(Entries) <= size
      /\ 4 * (Cardinality(Entries) - 1) <= 3 * Len(buckets)
      /\ Entries = EntriesOf(buckets) /\ Cardinality(Entries) \in Nat
  <2>1. buckets \in Seq(Seq(Entry)) /\ buckets # <<>>
    BY DEF HInv, Sound, Live
  <2>2. Entries = EntriesOf(buckets) /\ Cardinality(Entries) \in Nat
    BY StateFacts, CountFacts DEF HInv
  <2> QED
    BY <2>1, <2>2 DEF HInv, LoadBounded, bucket_count
<1>2. CASE Overloaded
  <2>1. Grown = <<Moved, Len(FlattenSeq(buckets))>>
    BY <1>2 DEF Grown
  <2>2. Sound(Moved) /\ Len(Moved) = 2 * Len(buckets) /\ EntriesOf(Moved) = Entries
    BY <1>1, MovedFacts DEF bucket_count
  <2>3. Len(FlattenSeq(buckets)) = Cardinality(Entries)
    BY <1>1, FlattenCount
  <2>4. PICK n \in Nat \ {0} : n = Len(buckets)
    BY <1>1
  <2>5. PICK a \in Nat : a = Cardinality(Entries)
    BY <1>1
  <2>6. 4 * a <= 3 * (2 * n)
    BY <1>1, <2>4, <2>5
  <2> HIDE DEF Grown, Moved
  <2> QED
    BY <2>1, <2>2, <2>3, <2>4, <2>5, <2>6, <1>2
<1>3. CASE ~ Overloaded
  <2>1. Grown = <<buckets, size>>
    BY <1>3 DEF Grown
  <2>2. 4 * size <= 3 * Len(buckets)
    BY <1>1, <1>3 DEF Overloaded, bucket_count
  <2> HIDE DEF Grown
  <2> QED
    BY <2>1, <2>2, <1>1 DEF Drift
<1> QED
  BY <1>2, <1>3

(* hash_table_insert of a key that is there, which may double the buckets. *)
LEMMA InsertFound ==
  ASSUME HInv, Live, NEW k \in Keys, NEW v \in Values, hash_table_insert(k, v),
         Find(Grown[1][Index(k, Len(Grown[1]))], k) # {}
  PROVE  HInv' /\ MapStep /\ DriftStep
<1>1. PICK g : g = Grown[1]
  OBVIOUS
<1>2. PICK h : h = Grown[2]
  OBVIOUS
<1>3. /\ Sound(g) /\ Len(g) \in Nat \ {0} /\ EntriesOf(g) = Entries
      /\ h \in Nat /\ Cardinality(Entries) <= h
      /\ 4 * Cardinality(Entries) <= 3 * Len(g)
      /\ h - Cardinality(Entries) = Drift \/ h - Cardinality(Entries) = 0
      /\ ~ Overloaded => g = buckets
  BY <1>1, <1>2, GrownFacts
<1>4. /\ buckets' = g /\ size' = h /\ ret' = <<"insert", k, 0>> /\ CursorAfterGrowth
  BY <1>1, <1>2 DEF hash_table_insert
<1>5. Entries' = Entries /\ AsMap' = MapOf(g) /\ AsMap = MapOf(buckets)
  BY <1>3, <1>4, StateFacts DEF Entries, EntriesOf, AsMap, MapOf
<1>6. AsMap' = AsMap
  BY <1>3, <1>5, StateFacts DEF MapOf
<1>7. AsMap[k] # Absent
  BY <1>1, <1>3, <1>5, <1>6, ResultFacts
<1>8. /\ ibucket' \in Nat /\ ientry' \in Keys \cup {NULL, Wild}
      /\ CursorSound(g, ibucket', ientry') /\ Ahead' \in {Ahead, {}}
  <2>1. CASE Overloaded
    <3>1. ibucket' = bucket_count /\ ientry' = NULL
      BY <2>1, <1>4 DEF CursorAfterGrowth
    <3>2. ientry' \notin Keys
      BY <3>1, KeysAssumption
    <3>3. bucket_count \in Nat
      BY ChainFacts DEF HInv, bucket_count
    <3> QED
      BY <3>1, <3>2, <3>3 DEF Ahead, CursorSound
  <2>2. CASE ~ Overloaded
    <3>1. ibucket' = ibucket /\ ientry' = ientry /\ buckets' = buckets /\ g = buckets
      BY <2>2, <1>3, <1>4 DEF CursorAfterGrowth, cursor
    <3>2. Ahead' = Ahead
      BY <3>1 DEF Ahead, Chain, bucket_count
    <3> QED
      BY <3>1, <3>2 DEF HInv
  <2> QED
    BY <2>1, <2>2
<1>9. D!Insert(k, v)
  BY <1>4, <1>6, <1>7, <1>8 DEF D!Insert, D!Present, D!Absent, Absent
<1>10. DriftStep
  BY <1>3, <1>4, <1>5 DEF DriftStep, Drift
<1>11. LoadBounded'
  <2>1. Cardinality(Entries) \in Nat
    BY <1>3, CountFacts
  <2> QED
    BY <2>1, <1>3, <1>4, <1>5 DEF LoadBounded, bucket_count
<1>12. HInv'
  <2>1. Sound(buckets)' /\ CursorSound(buckets, ibucket, ientry)'
    BY <1>3, <1>4, <1>8 DEF Sound, CursorSound
  <2>2. size' \in Nat /\ (Cardinality(Entries) <= size)'
    BY <1>3, <1>4, <1>5
  <2> QED
    BY <2>1, <2>2, <1>8, <1>11 DEF HInv
<1> QED
  BY <1>9, <1>10, <1>12 DEF MapStep, D!Next

(* hash_table_insert of a new key. *)
LEMMA InsertNew ==
  ASSUME HInv, Live, NEW k \in Keys, NEW v \in Values, hash_table_insert(k, v),
         Find(Grown[1][Index(k, Len(Grown[1]))], k) = {}
  PROVE  HInv' /\ MapStep /\ DriftStep
<1>1. PICK g : g = Grown[1]
  OBVIOUS
<1>2. PICK h : h = Grown[2]
  OBVIOUS
<1>3. /\ Sound(g) /\ Len(g) \in Nat \ {0} /\ EntriesOf(g) = Entries
      /\ h \in Nat /\ Cardinality(Entries) <= h
      /\ 4 * Cardinality(Entries) <= 3 * Len(g)
      /\ h - Cardinality(Entries) = Drift \/ h - Cardinality(Entries) = 0
      /\ ~ Overloaded => g = buckets
  BY <1>1, <1>2, GrownFacts
<1>4. PICK e : e = [key |-> k, value |-> v]
  OBVIOUS
<1>5. e \in Entry /\ e.key = k /\ e.value = v
  BY <1>4 DEF Entry
<1>6. PICK u : u = Prepend(g, e)
  OBVIOUS
<1>7. /\ buckets' = u /\ size' = h + 1 /\ ret' = <<"insert", k, 1>> /\ CursorAfterGrowth
  BY <1>1, <1>2, <1>4, <1>6 DEF hash_table_insert
<1>8. /\ AsMap = MapOf(g) /\ AsMap[k] = Absent
      /\ \A f \in EntriesOf(g) : f.key # e.key
  <2>1. AsMap = MapOf(g)
    BY <1>3, StateFacts DEF MapOf
  <2>2. MapOf(g)[k] = Absent
    BY <1>1, <1>3, ResultFacts
  <2> QED
    BY <2>1, <2>2, <1>3, <1>5, MapFacts
<1>9. Sound(u) /\ Len(u) = Len(g) /\ EntriesOf(u) = EntriesOf(g) \cup {e}
  BY <1>3, <1>5, <1>6, <1>8, PrependFacts
<1>10. Entries' = EntriesOf(u) /\ AsMap' = MapOf(u)
  BY <1>7 DEF Entries, EntriesOf, AsMap, MapOf
<1>11. /\ Cardinality(Entries) \in Nat
       /\ Cardinality(Entries)' = Cardinality(Entries) + 1
  <2>1. IsFiniteSet(Entries) /\ Cardinality(Entries) \in Nat
    BY <1>3, CountFacts
  <2>2. e \notin Entries /\ Entries' = Entries \cup {e}
    BY <1>3, <1>8, <1>9, <1>10
  <2>3. Cardinality(Entries \cup {e}) = Cardinality(Entries) + 1
    BY <2>1, <2>2, FS_AddElement
  <2> QED
    BY <2>1, <2>2, <2>3
<1>12. AsMap' = [AsMap EXCEPT ![k] = v]
  <2>1. AsMap = [x \in Keys |-> AsMap[x]]
    BY DEF AsMap
  <2>2. PICK f : f = [AsMap EXCEPT ![k] = v]
    OBVIOUS
  <2>3. f = [x \in Keys |-> f[x]] /\ \A x \in Keys : f[x] = IF x = k THEN v ELSE AsMap[x]
    BY <2>1, <2>2
  <2>4. ASSUME NEW i \in EntriesOf(u)
        PROVE  f[i.key] = i.value
    <3>1. CASE i = e
      BY <3>1, <2>3, <1>5
    <3>2. CASE i # e
      <4>1. i \in EntriesOf(g) /\ i.key # k
        BY <3>2, <1>5, <1>8, <1>9
      <4> QED
        BY <4>1, <2>3, <1>3, <1>8, MapFacts
    <3> QED
      BY <3>1, <3>2
  <2>5. ASSUME NEW x \in Keys, \A i \in EntriesOf(u) : i.key # x
        PROVE  f[x] = Absent
    <3>1. x # k /\ \A i \in EntriesOf(g) : i.key # x
      BY <2>5, <1>5, <1>9
    <3> QED
      BY <3>1, <2>3, <1>3, <1>8, MapFacts
  <2>6. f = MapOf(u)
    BY <2>3, <2>4, <2>5, <1>9, MapIs
  <2> QED
    BY <2>2, <2>6, <1>10
<1>13. /\ ibucket' \in Nat /\ ientry' \in Keys \cup {NULL, Wild}
       /\ CursorSound(u, ibucket', ientry') /\ Ahead' \in {Ahead, Ahead \cup {k}, {}}
  <2>1. CASE Overloaded
    <3>1. ibucket' = bucket_count /\ ientry' = NULL
      BY <2>1, <1>7 DEF CursorAfterGrowth
    <3>2. ientry' \notin Keys
      BY <3>1, KeysAssumption
    <3>3. bucket_count \in Nat
      BY ChainFacts DEF HInv, bucket_count
    <3> QED
      BY <3>1, <3>2, <3>3 DEF Ahead, CursorSound
  <2>2. CASE ~ Overloaded /\ ientry \notin Keys
    <3>1. ibucket' = ibucket /\ ientry' = ientry
      BY <2>2, <1>7 DEF CursorAfterGrowth, cursor
    <3> QED
      BY <2>2, <3>1 DEF Ahead, CursorSound, HInv
  <2>3. CASE ~ Overloaded /\ ientry \in Keys
    <3>1. ibucket' = ibucket /\ ientry' = ientry /\ g = buckets
      BY <2>3, <1>3, <1>7 DEF CursorAfterGrowth, cursor
    <3>2. PICK c \in Nat : c = ibucket + 1
      BY DEF HInv
    <3>3. PICK y \in Keys : y = ientry
      BY <2>3
    <3>4. /\ c \in DOMAIN g
          /\ \E p \in DOMAIN g[c] : g[c][p].key = y /\ Ahead = Onwards(g, c, p)
      BY <2>3, <3>1, <3>2, <3>3, CursorPlace
    <3>5. PICK p \in DOMAIN g[c] : g[c][p].key = y /\ Ahead = Onwards(g, c, p)
      BY <3>4
    <3>6. \E q \in DOMAIN u[c] :
            /\ u[c][q].key = y
            /\ Onwards(u, c, q) \in {Ahead, Ahead \cup {k}}
      <4>1. /\ Sound(g) /\ e \in Entry /\ \A f \in EntriesOf(g) : f.key # e.key
            /\ c \in DOMAIN g /\ p \in DOMAIN g[c]
        BY <3>4, <1>3, <1>5, <1>8
      <4>2. \E q \in DOMAIN Prepend(g, e)[c] :
              /\ Prepend(g, e)[c][q].key = g[c][p].key
              /\ Onwards(Prepend(g, e), c, q) \in
                   {Onwards(g, c, p), Onwards(g, c, p) \cup {e.key}}
        BY ONLY <4>1, OnwardsPrepend
      <4> QED
        BY <4>2, <3>5, <1>5, <1>6
    <3>7. PICK q \in DOMAIN u[c] :
            u[c][q].key = y /\ Onwards(u, c, q) \in {Ahead, Ahead \cup {k}}
      BY <3>6
    <3>8. c \in DOMAIN u
      BY <3>4, <1>3, <1>9, ChainFacts
    <3>9. AheadOf(u, ibucket, u[c][q].key) = Onwards(u, c, q)
      BY <3>2, <3>8, <1>9, AheadIsOnwards DEF HInv
    <3>10. Ahead' = AheadOf(u, ibucket, y)
      BY <2>3, <3>1, <3>3, <1>7 DEF Ahead, AheadOf, Chain, bucket_count
    <3>11. CursorSound(u, ibucket', ientry')
      BY <3>1, <3>2, <3>3, <3>7, <3>8 DEF CursorSound
    <3> QED
      BY <3>1, <3>7, <3>9, <3>10, <3>11 DEF HInv
  <2> QED
    BY <2>1, <2>2, <2>3
<1>14. D!Insert(k, v)
  BY <1>7, <1>8, <1>12, <1>13 DEF D!Insert, D!Present, D!Absent, Absent
<1>15. DriftStep
  <2>1. Drift' = h - Cardinality(Entries)
    BY <1>3, <1>7, <1>11 DEF Drift
  <2> QED
    BY <2>1, <1>3 DEF DriftStep
<1>16. LoadBounded'
  <2>1. bucket_count' = Len(g)
    BY <1>7, <1>9 DEF bucket_count
  <2> QED
    BY <2>1, <1>3, <1>11 DEF LoadBounded
<1>17. HInv'
  <2>1. Sound(buckets)' /\ CursorSound(buckets, ibucket, ientry)'
    BY <1>7, <1>9, <1>13 DEF Sound, CursorSound
  <2>2. size' \in Nat /\ (Cardinality(Entries) <= size)'
    BY <1>3, <1>7, <1>11
  <2> QED
    BY <2>1, <2>2, <1>13, <1>16 DEF HInv
<1> QED
  BY <1>14, <1>15, <1>17 DEF MapStep, D!Next

(***************************************************************************)
(* The theorems.                                                           *)
(***************************************************************************)

(* Before hash_table_create there is no table, and an empty map. *)
LEMMA InitFacts ==
  ASSUME HashInit
  PROVE  HInv /\ D!Init
<1>1. /\ buckets = <<>> /\ size = 0 /\ ibucket = 0 /\ ientry = Wild /\ ret = <<"none">>
  BY DEF HashInit
<1>2. buckets \in Seq(Seq(Entry)) /\ DOMAIN buckets = {} /\ ~ Live
  BY <1>1 DEF Live
<1>3. Sound(buckets)
  BY <1>2 DEF Sound
<1>4. Entries = {} /\ Cardinality(Entries) = 0
  BY <1>2, FS_EmptySet DEF Entries
<1>5. ientry \notin Keys
  BY <1>1, KeysAssumption
<1>6. HInv
  BY <1>1, <1>2, <1>3, <1>4, <1>5 DEF HInv, CursorSound, LoadBounded
<1>7. AsMap = [k \in Keys |-> Absent] /\ Ahead = {}
  BY <1>4, <1>5 DEF AsMap, Ahead
<1> QED
  BY <1>1, <1>6, <1>7 DEF D!Init, D!Absent, Absent

(* Every call keeps the invariant and is a call of the map. *)
LEMMA StepFacts ==
  ASSUME HInv, [Next]_vars
  PROVE  HInv' /\ MapStep /\ (DriftStep \/ UNCHANGED vars)
<1>1. CASE UNCHANGED vars
  <2>1. /\ UNCHANGED table /\ buckets' = buckets /\ size' = size /\ ibucket' = ibucket
        /\ ientry' = ientry /\ ret' = ret
    BY <1>1 DEF vars, table
  <2>2. HInv'
    BY <2>1, SameTable DEF HInv, CursorSound
  <2>3. UNCHANGED D!vars
    BY <2>1, SameTable DEF D!vars, Ahead, Chain, bucket_count
  <2> QED
    BY <1>1, <2>2, <2>3 DEF MapStep
<1>2. CASE \E asked \in 0 .. MaxBuckets : hash_table_create(asked)
  BY <1>2, HashAssumption, CreateStep
<1>3. ASSUME Live, NEW k \in Keys, hash_table_lookup(k)
      PROVE  HInv' /\ MapStep /\ DriftStep
  BY <1>3, LookupStep
<1>4. ASSUME Live, NEW k \in Keys, hash_table_remove(k)
      PROVE  HInv' /\ MapStep /\ DriftStep
  BY <1>4, RemoveNothing, RemoveFound
<1>5. ASSUME Live, NEW k \in Keys, NEW v \in Values, hash_table_insert(k, v)
      PROVE  HInv' /\ MapStep /\ DriftStep
  BY <1>5, InsertFound, InsertNew
<1> QED
  BY <1>1, <1>2, <1>3, <1>4, <1>5, ClearStep, DeleteStep, FirstStep, NextStep DEF Next

(* The chains are sound, the count is of at least the entries, and the     *)
(* cursor is at a key that is there, after any sequence of calls.          *)
THEOREM HInvHolds == Spec => []HInv
<1>1. HashInit => HInv
  BY InitFacts
<1>2. HInv /\ [Next]_vars => HInv'
  BY StepFacts
<1> QED
  BY <1>1, <1>2, PTL DEF Spec

(* Every entry has a key and a value, and the cursor of firstkey and       *)
(* nextkey is at a key, at the end, or not to be used.                     *)
THEOREM HashTableTyped == Spec => []TypeOK
<1>1. HInv => TypeOK
  <2>1. HInv => Entries \subseteq Entry
    BY KeyOnce, StateFacts DEF HInv
  <2> QED
    BY <2>1 DEF HInv, TypeOK, Entry
<1> QED
  BY <1>1, HInvHolds, PTL

(* hash_table_insert's doubling keeps the load at 3/4 of an entry per      *)
(* bucket, and one entry more, whatever calls came before.                 *)
THEOREM LoadStaysBounded == Spec => []LoadBounded
<1>1. HInv => LoadBounded
  BY DEF HInv
<1> QED
  BY <1>1, HInvHolds, PTL

(* Only hash_table_clear makes the count differ from the entries.          *)
THEOREM OnlyClearDrifts == Spec => SizeDrifts
<1>1. HInv /\ [Next]_vars =>
        [ \/ Drift' = Drift
          \/ ret' = <<"clear">> /\ Drift' = Drift + Cardinality(Entries)
          \/ Drift' = 0 ]_vars
  BY StepFacts DEF DriftStep
<1> QED
  BY <1>1, HInvHolds, PTL DEF Spec, SizeDrifts

(* hash_table.c, with its chains, its doubling and its cursor, implements  *)
(* the map with one iteration that hash_table.h promises.                  *)
THEOREM HashTableImplementsDictionary == Spec => ImplementsDictionary
<1>1. HashInit => D!Init
  BY InitFacts
<1>2. HInv /\ [Next]_vars => [D!Next]_(D!vars)
  BY StepFacts DEF MapStep
<1> QED
  BY <1>1, <1>2, HInvHolds, PTL DEF Spec, ImplementsDictionary, D!Spec
=============================================================================
