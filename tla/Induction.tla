----------------------------- MODULE Induction -----------------------------
(***************************************************************************)
(* Induction on the natural numbers, in the form that needs no operator as *)
(* a parameter: a set of numbers that is not empty has a least member.     *)
(***************************************************************************)
EXTENDS Integers, Sequences, WellFoundedInduction, TLAPS

(* A set of natural numbers that is not empty has a least member: a proof  *)
(* takes the least number for which a statement about the code's sequences *)
(* fails, and refutes it.                                                  *)
LEMMA LeastNatural ==
  ASSUME NEW T \in SUBSET Nat, T # {}
  PROVE  \E x \in T : \A y \in T : x <= y
<1>1. IsWellFoundedOn(OpToRel(<, Nat), Nat)
  BY NatLessThanWellFounded
<1>2. PICK x \in T : \A y \in T : ~ (<<y, x>> \in OpToRel(<, Nat))
  BY <1>1, WFMin
<1>3. \A y \in T : ~ (y < x)
  BY <1>2 DEF OpToRel
<1>4. x \in Nat /\ \A y \in T : y \in Nat
  OBVIOUS
<1>5. \A y \in T : x <= y
  BY <1>3, <1>4
<1> QED
  BY <1>5

(* A set of numbers below a bound has a greatest member, as the scopes in  *)
(* which a name is declared have an innermost one.                         *)
LEMMA GreatestBelow ==
  ASSUME NEW n \in Nat, NEW T \in SUBSET (1 .. n), T # {}
  PROVE  \E x \in T : \A y \in T : y <= x
<1> DEFINE M == {m \in Nat : \A y \in T : y <= m}
<1>1. n \in M
  OBVIOUS
<1>2. PICK m \in M : \A k \in M : m <= k
  BY <1>1, LeastNatural
<1>3. m \in Nat /\ \A y \in T : y <= m /\ y \in Nat /\ y >= 1
  OBVIOUS
<1>4. m \in T
  <2>1. SUFFICES ASSUME m \notin T PROVE FALSE
    OBVIOUS
  <2>2. \A y \in T : y <= m - 1
    BY <1>3, <2>1
  <2>3. m - 1 \in Nat
    <3>1. PICK y \in T : TRUE
      OBVIOUS
    <3> QED
      BY <1>3, <2>2, <3>1
  <2>4. m - 1 \in M
    BY <2>2, <2>3
  <2>5. m <= m - 1
    BY <1>2, <2>4
  <2> QED
    BY <1>3, <2>5
<1> QED
  BY <1>3, <1>4

(* A statement that holds of 0 and passes from each number to the next     *)
(* holds of all; T is the set of numbers of which it holds.                *)
LEMMA NaturalInduction ==
  ASSUME NEW T, 0 \in T, \A k \in Nat : k \in T => k + 1 \in T
  PROVE  \A k \in Nat : k \in T
<1> DEFINE F == {k \in Nat : k \notin T}
<1>1. SUFFICES ASSUME F # {} PROVE FALSE
  OBVIOUS
<1>2. PICK k \in F : \A m \in F : k <= m
  BY <1>1, LeastNatural
<1>3. k \in Nat /\ k # 0 /\ k \notin T
  OBVIOUS
<1>4. k - 1 \in Nat /\ ~ k <= k - 1 /\ (k - 1) + 1 = k
  BY <1>3
<1>5. k - 1 \in T
  BY <1>2, <1>4
<1> QED
  BY <1>3, <1>4, <1>5

(* FlattenSeq puts the sequences of a sequence b behind each other; f[k]   *)
(* runs through the first k of them.                                       *)
Flattens(f, b) ==
  f = [i \in 1 .. Len(b) |-> IF i = 1 THEN b[i] ELSE f[i - 1] \o b[i]]

(* That recursion has a solution. *)
LEMMA FlatteningExists ==
  ASSUME NEW b, Len(b) \in Nat
  PROVE  \E f : Flattens(f, b)
<1> DEFINE Solves(f, k) ==
             f = [i \in 1 .. k |-> IF i = 1 THEN b[i] ELSE f[i - 1] \o b[i]]
           T == {k \in Nat : \E f : Solves(f, k)}
<1>1. 0 \in T
  <2>1. Solves([i \in 1 .. 0 |-> {}], 0)
    OBVIOUS
  <2> QED
    BY <2>1
<1>2. ASSUME NEW k \in Nat, k \in T
      PROVE  k + 1 \in T
  <2>1. PICK f : Solves(f, k)
    BY <1>2
  <2> DEFINE g == [i \in 1 .. k + 1 |->
                     IF i = k + 1 THEN IF i = 1 THEN b[i] ELSE f[i - 1] \o b[i]
                                  ELSE f[i]]
  <2>2. \A i \in 1 .. k : g[i] = f[i] /\ i \in 1 .. k + 1 /\ i # k + 1
    OBVIOUS
  <2>3. ASSUME NEW i \in 1 .. k + 1
        PROVE  g[i] = IF i = 1 THEN b[i] ELSE g[i - 1] \o b[i]
    <3>1. CASE i = k + 1
      <4>1. i = 1 \/ i - 1 \in 1 .. k
        BY <3>1
      <4> QED
        BY <3>1, <4>1, <2>2
    <3>2. CASE i # k + 1
      <4>1. i \in 1 .. k /\ (i = 1 \/ i - 1 \in 1 .. k)
        BY <3>2
      <4>2. f[i] = IF i = 1 THEN b[i] ELSE f[i - 1] \o b[i]
        BY <2>1, <4>1
      <4>3. g[i] = f[i] /\ (i = 1 \/ g[i - 1] = f[i - 1])
        BY <2>2, <4>1
      <4> QED
        BY <4>2, <4>3
    <3> QED
      BY <3>1, <3>2
  <2>4. g = [i \in 1 .. k + 1 |-> g[i]]
    OBVIOUS
  <2>5. Solves(g, k + 1)
    <3> HIDE DEF g
    <3> QED
      BY <2>3, <2>4
  <2>6. \E h : Solves(h, k + 1)
    <3> HIDE DEF g, Solves
    <3> QED
      BY <2>5
  <2>7. k + 1 \in Nat
    OBVIOUS
  <2> HIDE DEF Solves
  <2> QED
    BY <2>6, <2>7
<1>3. \A k \in Nat : k \in T
  <2> HIDE DEF T
  <2> QED
    BY <1>1, <1>2, NaturalInduction
<1> QED
  BY <1>3 DEF Flattens
=============================================================================
