-------------------------- MODULE TypeCheckProofs --------------------------
(***************************************************************************)
(* Proof that the type checker's types stay types and that it follows a    *)
(* NULL pointer only where CrashExplained says, for every program.         *)
(*                                                                         *)
(* Between two steps, todo and values are the call stack of the C code and *)
(* what its frames have computed.  The walk is described by h and b: h[k]  *)
(* is the number of types there are when call k begins, and call b is the  *)
(* one that ends the expressions of the current statement; the calls after *)
(* it are statements and declarations.                                     *)
(***************************************************************************)
EXTENDS TypeCheck, Induction, SequenceTheorems, TLAPS

-----------------------------------------------------------------------------
(***************************************************************************)
(* Types: sequences of words, "ARRAY" once for each dimension, then the    *)
(* kind of the elements, and at least one size for each dimension.         *)
(***************************************************************************)
Nested(w, k) ==
  /\ Len(w) >= 2 * k + 1
  /\ \A i \in 1 .. k : w[i] = "ARRAY"
  /\ w[k + 1] \in Simple \cup {"FUNCTION", "NULL"}
  /\ w[k + 1] # "FUNCTION" => Len(w) = 2 * k + 1

(* The words that are literals are listed: the provers do not know that    *)
(* they are strings.                                                       *)
Alphabet == STRING \cup TypeKinds \cup {"NULL", "end", "0", NoSize}

TypeWords == {w \in Seq(Alphabet) : \E k \in Nat : Nested(w, k)}

(* Something is missing: following it may follow a NULL pointer.           *)
Tainted(w) == \E i \in 1 .. Len(w) : w[i] \in {"NULL", NoSize}

(* A struct type in which something is missing. *)
Explains(tys, c) ==
  /\ c \in DOMAIN tys
  /\ \/ tys[c].kind = "ARRAY" /\ tys[c].size = NoSize
     \/ tys[c].kind \in {"ARRAY", "FUNCTION"} /\ tys[c].sub = 0

(* The table as it was, but for the kinds of what had no subtype.          *)
TypesOf(tys, p) ==
  /\ tys \in Seq([kind : TypeKinds, sub : Nat, params : Seq(Nat), size : STRING \ {"NULL"}])
  /\ Len(tys) = Len(p.types)
  /\ \A c \in 1 .. Len(tys) :
       /\ tys[c].sub = p.types[c].sub /\ tys[c].params = p.types[c].params
       /\ tys[c].sub # 0 => tys[c].kind = p.types[c].kind

-----------------------------------------------------------------------------
(***************************************************************************)
(* Calls.                                                                  *)
(***************************************************************************)
Exprs(p) == Parts(p).exprs
Snapshots(p) ==
  [type : TypeWords, result : TypeWords, params : Seq(TypeWords), args : Seq(Exprs(p))]

Calls(p) ==
  {Do("expr", e) : e \in Exprs(p) \cup {None}}
  \cup {Do("node", e) : e \in {x \in Exprs(p) : x.kind # "FCALL"}}
  \cup {Do("arguments", n) : n \in Nat}
  \cup {Do("call", c) : c \in Snapshots(p)}
  \cup {Do("argument", t) : t \in TypeWords}
  \cup {Do("forget", 1), Do("condition", 1), Do("loop", 3)}
  \cup {Do("return", d) : d \in Parts(p).decls}
  \cup {Do("initial", d) : d \in Parts(p).decls}
  \cup {Do("stmt", [stmt |-> s, func |-> d]) : s \in Parts(p).stmts, d \in Parts(p).decls}
  \cup {Do("decl", d) : d \in Parts(p).decls}

(* The number of types that a call takes, and of those that it leaves.     *)
Uses(c) ==
  CASE c.do = "node" -> Len(c.arg.sub)
    [] c.do \in {"arguments", "forget", "condition", "loop"} -> c.arg
    [] c.do \in {"argument", "return", "initial"} -> 1
    [] OTHER -> 0
Gives(c) == IF c.do \in {"expr", "node", "call"} THEN 1 ELSE 0

InnerCalls == {"expr", "node", "arguments", "call", "argument"}
EndCalls == {"arguments", "forget", "condition", "loop", "return", "initial"}
Outer == {"stmt", "decl"}
(* The calls that look whether there is an expression. *)
Lenient == {"forget", "loop", "return", "initial"}

(***************************************************************************)
(* The shape of the walk.                                                  *)
(***************************************************************************)
Heights(td, n, h, b) ==
  /\ h \in [1 .. Len(td) + 1 -> Nat]
  /\ h[1] = n
  /\ \A k \in 1 .. Len(td) :
       /\ h[k] >= Uses(td[k])
       /\ h[k + 1] = h[k] - Uses(td[k]) + Gives(td[k])
  /\ b \in 0 .. Len(td)
  /\ h[b + 1] = 0
  /\ \A k \in 1 .. b - 1 : td[k].do \in InnerCalls
  /\ b > 0 => td[b].do \in EndCalls
  /\ \A k \in b + 1 .. Len(td) : td[k].do \in Outer

(* Where no expression is to be checked, only such are left before the     *)
(* call that looks whether there was one.                                  *)
Absent(td, h, b) ==
  \A k \in 1 .. b - 1 : td[k] = Do("expr", None) =>
    /\ td[b].do \in Lenient
    /\ \A j \in k + 1 .. b - 1 : td[j].do = "expr" /\ h[j] > h[k]

(* An assignment to a variable, which may be of type auto. *)
ToVariable(c) == c.do = "node" /\ c.arg.kind = "ASSIGN" /\ c.arg.sub[1].kind = "ID"
Variable(c) == c.arg.sub[1].val

(* Either the variable is the next to be looked at, or its type is below   *)
(* all that the calls before the assignment take.                          *)
Assigns(tys, td, vs, h, b) ==
  \A j \in 1 .. b - 1 : ToVariable(td[j]) =>
    \/ /\ h[j] = Len(vs) + 2 /\ j = 3
       /\ td[1] \in {Do("expr", td[j].arg.sub[1]), Do("node", td[j].arg.sub[1])}
       /\ td[2].do = "expr"
    \/ /\ h[j] <= Len(vs) + 1
       /\ \A i \in 1 .. j - 1 : h[i] - Uses(td[i]) >= h[j] - 1
       /\ vs[h[j] - 1][1] = "AUTO" =>
            Variable(td[j]) \in DOMAIN tys /\ tys[Variable(td[j])].sub = 0

(* The assignment j will overwrite the type c.                             *)
Overwrites(td, vs, h, j, c) ==
  /\ ToVariable(td[j]) /\ h[j] <= Len(vs) + 1
  /\ vs[h[j] - 1][1] = "AUTO" /\ Variable(td[j]) = c

(* What is missing in a type on the stack is missing in the table, and     *)
(* stays missing until the type is taken: an assignment that overwrites    *)
(* it and is still to be made began before the type was copied.            *)
ValuesExplained(tys, td, vs, h, b) ==
  \A q \in 1 .. Len(vs) : Tainted(vs[q]) =>
    \/ /\ vs[q] = NULL /\ b > 0 /\ td[b].do \in Lenient
       /\ \A k \in 1 .. b - 1 : h[k] - Uses(td[k]) >= q
    \/ \E c \in DOMAIN tys :
         /\ Explains(tys, c)
         /\ \A j \in 1 .. b - 1 : Overwrites(td, vs, h, j, c) => h[j] - 1 <= q

(* The same of the types that a call of a function has copied.             *)
Copied(c) ==
  IF c.do = "argument" THEN {c.arg}
  ELSE IF c.do # "call" THEN {}
  ELSE {c.arg.type} \cup
       (IF c.arg.type[1] = "FUNCTION" THEN {c.arg.result} \cup Range(c.arg.params) ELSE {})

CopiesExplained(tys, td, vs, h, b) ==
  \A k \in 1 .. b - 1 : (\E w \in Copied(td[k]) : Tainted(w)) =>
    \E c \in DOMAIN tys :
      /\ Explains(tys, c)
      /\ \A j \in 1 .. k - 1 : ~ Overwrites(td, vs, h, j, c)

Walk(p, tys, td, vs, h, b) ==
  /\ TypesOf(tys, p)
  /\ td \in Seq(Calls(p))
  /\ vs \in Seq(TypeWords)
  /\ Heights(td, Len(vs), h, b)
  /\ Absent(td, h, b)
  /\ Assigns(tys, td, vs, h, b)
  /\ ValuesExplained(tys, td, vs, h, b)
  /\ CopiesExplained(tys, td, vs, h, b)

WalkInv == \E h \in Seq(Nat), b \in Nat : Walk(ast_head, types, todo, values, h, b)

-----------------------------------------------------------------------------
(***************************************************************************)
(* Words.                                                                  *)
(***************************************************************************)

(* A type has a kind, which is "NULL" only for a NULL pointer.             *)
LEMMA WordFacts ==
  ASSUME NEW w \in TypeWords
  PROVE  /\ w \in Seq(Alphabet) /\ Len(w) \in Nat \ {0} /\ w # <<>>
         /\ DOMAIN w = 1 .. Len(w)
         /\ w[1] \in TypeKinds \cup {"NULL"}
         /\ w[1] = "NULL" => w = NULL
         /\ w[1] \in Simple => ~ Tainted(w)
<1>1. PICK k \in Nat : Nested(w, k)
  BY DEF TypeWords
<1>2. w \in Seq(Alphabet) /\ Len(w) \in Nat /\ DOMAIN w = 1 .. Len(w)
  BY DEF TypeWords
<1>3. Len(w) >= 1 /\ w # <<>>
  <2>1. Len(w) >= 2 * k + 1
    BY <1>1 DEF Nested
  <2> QED
    BY <2>1, <1>2
<1>4. CASE k = 0
  <2>1. w[1] \in Simple \cup {"FUNCTION", "NULL"} /\ (w[1] # "FUNCTION" => Len(w) = 1)
    <3>1. w[1] = w[k + 1] /\ 2 * k + 1 = 1
      BY <1>4
    <3> QED
      BY <3>1, <1>1 DEF Nested
  <2>2. w[1] = "NULL" => w = NULL
    <3>1. SUFFICES ASSUME w[1] = "NULL" PROVE w = <<"NULL">>
      BY DEF NULL
    <3>2. Len(w) = 1
      BY <2>1, <3>1
    <3> QED
      BY <3>1, <3>2, <1>2
  <2>3. w[1] \in Simple => ~ Tainted(w)
    BY <2>1 DEF Tainted, Simple, NoSize
  <2> QED
    BY <2>1, <2>2, <2>3, <1>2, <1>3 DEF Simple, TypeKinds
<1>5. CASE k # 0
  <2>1. w[1] = "ARRAY"
    BY <1>1, <1>5 DEF Nested
  <2> QED
    BY <2>1, <1>2, <1>3 DEF Simple, TypeKinds
<1> QED
  BY <1>4, <1>5

(* A type of one word. *)
LEMMA SimpleWord ==
  ASSUME NEW k \in Simple \cup {"NULL"}
  PROVE  <<k>> \in TypeWords /\ <<k>>[1] = k /\ (k \in Simple => ~ Tainted(<<k>>))
<1>1. <<k>> \in Seq(Alphabet) /\ Len(<<k>>) = 1 /\ <<k>>[1] = k
  <2>1. k \in Alphabet
    BY DEF Alphabet, TypeKinds
  <2> QED
    BY <2>1
<1>2. Nested(<<k>>, 0)
  BY <1>1 DEF Nested
<1>3. k \in Simple => ~ Tainted(<<k>>)
  BY <1>1 DEF Tainted, Simple, NoSize
<1> QED
  BY <1>1, <1>2, <1>3 DEF TypeWords

(* The types of literals and of the results of operators. *)
LEMMA Words ==
  /\ NULL \in TypeWords /\ Integer \in TypeWords /\ Boolean \in TypeWords
  /\ <<"CHARACTER">> \in TypeWords /\ <<"STRING">> \in TypeWords
  /\ ~ Tainted(Integer) /\ ~ Tainted(Boolean)
  /\ ~ Tainted(<<"CHARACTER">>) /\ ~ Tainted(<<"STRING">>)
  /\ Tainted(NULL)
<1>1. Tainted(NULL)
  BY DEF Tainted, NULL
<1> QED
  BY <1>1, SimpleWord DEF NULL, Integer, Boolean, Simple

(* A sequence between two words. *)
LEMMA Bracketed ==
  ASSUME NEW S, NEW x \in S, NEW z \in S, NEW y \in Seq(S), NEW m \in Nat, Len(y) = m
  PROVE  LET a == <<x>> \o y \o <<z>> IN
         /\ a \in Seq(S) /\ Len(a) = m + 2 /\ a[1] = x /\ a[m + 2] = z
         /\ \A i \in 2 .. m + 1 : a[i] = y[i - 1]
<1>1. PICK u : u = <<x>> \o y
  OBVIOUS
<1>2. u \in Seq(S) /\ Len(u) = m + 1 /\ u[1] = x /\ \A i \in 2 .. m + 1 : u[i] = y[i - 1]
  BY <1>1
<1>3. PICK a : a = u \o <<z>>
  OBVIOUS
<1>4. a \in Seq(S) /\ Len(a) = m + 2 /\ a[m + 2] = z /\ \A i \in 1 .. m + 1 : a[i] = u[i]
  BY <1>2, <1>3
<1> QED
  BY <1>1, <1>2, <1>3, <1>4

(* An array type is one dimension more than its elements. *)
LEMMA ArrayWord ==
  ASSUME NEW w \in TypeWords, NEW n \in Alphabet
  PROVE  /\ <<"ARRAY">> \o w \o <<n>> \in TypeWords
         /\ (<<"ARRAY">> \o w \o <<n>>)[1] = "ARRAY"
         /\ Tainted(<<"ARRAY">> \o w \o <<n>>) => Tainted(w) \/ n \in {"NULL", NoSize}
<1>1. PICK k \in Nat : Nested(w, k)
  BY DEF TypeWords
<1>2. PICK m \in Nat : m = Len(w) /\ w \in Seq(Alphabet)
  BY DEF TypeWords
<1>3. PICK a : a = <<"ARRAY">> \o w \o <<n>>
  OBVIOUS
<1>4. "ARRAY" \in Alphabet
  BY DEF Alphabet, TypeKinds
<1>5. /\ a \in Seq(Alphabet) /\ Len(a) = m + 2 /\ a[1] = "ARRAY" /\ a[m + 2] = n
      /\ \A i \in 2 .. m + 1 : a[i] = w[i - 1]
  BY <1>2, <1>3, <1>4, Bracketed
<1>6. m >= 2 * k + 1
  BY <1>1, <1>2 DEF Nested
<1>7. Nested(a, k + 1)
  <2>1. Len(a) >= 2 * (k + 1) + 1
    BY <1>5, <1>6
  <2>2. \A i \in 1 .. k + 1 : a[i] = "ARRAY"
    <3>1. \A i \in 2 .. k + 1 : i - 1 \in 1 .. k /\ i \in 2 .. m + 1
      BY <1>6
    <3> QED
      <4>1. \A i \in 2 .. k + 1 : a[i] = "ARRAY"
        BY <3>1, <1>5, <1>1 DEF Nested
      <4> QED
        BY <4>1, <1>5
  <2>3. a[(k + 1) + 1] = w[k + 1]
    <3>1. (k + 1) + 1 \in 2 .. m + 1 /\ ((k + 1) + 1) - 1 = k + 1
      BY <1>6
    <3> QED
      BY <3>1, <1>5
  <2>4. a[(k + 1) + 1] # "FUNCTION" => Len(a) = 2 * (k + 1) + 1
    BY <2>3, <1>1, <1>2, <1>5 DEF Nested
  <2> QED
    BY <2>1, <2>2, <2>3, <2>4, <1>1 DEF Nested
<1>8. Tainted(a) => Tainted(w) \/ n \in {"NULL", NoSize}
  <2>1. ASSUME NEW i \in 1 .. m + 2, a[i] \in {"NULL", NoSize}
        PROVE  Tainted(w) \/ n \in {"NULL", NoSize}
    <3>1. i # 1
      BY <1>5, <2>1 DEF NoSize
    <3>2. CASE i = m + 2
      BY <3>2, <1>5, <2>1
    <3>3. CASE i \in 2 .. m + 1
      <4>1. i - 1 \in 1 .. m /\ w[i - 1] \in {"NULL", NoSize}
        BY <3>3, <1>5, <2>1
      <4> QED
        BY <4>1, <1>2 DEF Tainted
    <3> QED
      BY <3>1, <3>2, <3>3
  <2> QED
    BY <2>1, <1>5 DEF Tainted
<1> QED
  BY <1>3, <1>5, <1>7, <1>8 DEF TypeWords

(* The elements of an array have one dimension less. *)
LEMMA ElementWord ==
  ASSUME NEW w \in TypeWords, w[1] = "ARRAY"
  PROVE  ElementType(w) \in TypeWords /\ (Tainted(ElementType(w)) => Tainted(w))
<1>1. PICK k \in Nat : Nested(w, k)
  BY DEF TypeWords
<1>2. PICK m \in Nat : m = Len(w) /\ w \in Seq(Alphabet)
  BY DEF TypeWords
<1>3. k # 0
  BY <1>1 DEF Nested, Simple
<1>4. m >= 2 * k + 1 /\ m >= 3
  BY <1>1, <1>2, <1>3 DEF Nested
<1>5. PICK a : a = ElementType(w)
  OBVIOUS
<1>6. /\ a \in Seq(Alphabet) /\ Len(a) = m - 2
      /\ \A i \in 1 .. m - 2 : a[i] = w[i + 1]
  <2>1. \A i \in 2 .. m - 1 : w[i] \in Alphabet
    BY <1>2
  <2>2. a = SubSeq(w, 2, m - 1)
    BY <1>2, <1>5 DEF ElementType
  <2> QED
    BY <2>1, <2>2, <1>4
<1>7. Nested(a, k - 1)
  <2>1. Len(a) >= 2 * (k - 1) + 1
    BY <1>4, <1>6
  <2>2. \A i \in 1 .. k - 1 : a[i] = "ARRAY"
    <3>1. \A i \in 1 .. k - 1 : i \in 1 .. m - 2 /\ i + 1 \in 1 .. k
      BY <1>4
    <3> QED
      BY <3>1, <1>6, <1>1 DEF Nested
  <2>3. a[(k - 1) + 1] = w[k + 1]
    <3>1. k \in 1 .. m - 2 /\ (k - 1) + 1 = k
      BY <1>3, <1>4
    <3> QED
      BY <3>1, <1>6
  <2>4. a[(k - 1) + 1] # "FUNCTION" => Len(a) = 2 * (k - 1) + 1
    BY <2>3, <1>1, <1>2, <1>6 DEF Nested
  <2> QED
    BY <2>1, <2>2, <2>3, <2>4, <1>1 DEF Nested
<1>8. Tainted(a) => Tainted(w)
  <2>1. \A i \in 1 .. m - 2 : i + 1 \in 1 .. m
    OBVIOUS
  <2> QED
    BY <2>1, <1>2, <1>6 DEF Tainted
<1>9. k - 1 \in Nat
  BY <1>3
<1> QED
  BY <1>5, <1>6, <1>7, <1>8, <1>9 DEF TypeWords

(* A type that type_equals or type_print cannot follow is tainted. *)
LEMMA StuckTaints ==
  ASSUME NEW v \in TypeWords, NEW w \in TypeWords, Stuck(v, w)
  PROVE  Tainted(v) \/ Tainted(w)
<1>1. PICK i \in DOMAIN v \cap DOMAIN w : {v[i], w[i]} \cap {"NULL", NoSize} # {}
  BY DEF Stuck
<1>2. i \in 1 .. Len(v) /\ i \in 1 .. Len(w)
  BY WordFacts
<1>3. v[i] \in {"NULL", NoSize} \/ w[i] \in {"NULL", NoSize}
  BY <1>1
<1> QED
  BY <1>2, <1>3 DEF Tainted

(* A type that type_print cannot follow is tainted. *)
LEMMA UnprintableTaints ==
  ASSUME NEW ts \in SUBSET TypeWords, Unprintable(ts)
  PROVE  \E t \in ts : Tainted(t)
<1>1. PICK t \in ts : "NULL" \in Range(t)
  BY DEF Unprintable
<1>2. PICK i \in DOMAIN t : t[i] = "NULL"
  BY <1>1 DEF Range
<1>3. i \in 1 .. Len(t)
  BY WordFacts
<1> QED
  BY <1>2, <1>3 DEF Tainted

(* Types that agree are compared to their ends; what has no kind stops the *)
(* comparison at once.                                                     *)
LEMMA NullIsStuck ==
  ASSUME NEW v \in TypeWords, NEW w \in TypeWords, v = NULL \/ w = NULL
  PROVE  Stuck(v, w)
<1>1. 1 \in DOMAIN v \cap DOMAIN w
  BY WordFacts
<1>2. SubSeq(v, 1, 1 - 1) = <<>> /\ SubSeq(w, 1, 1 - 1) = <<>>
  BY SubSeqEmpty
<1>3. {v[1], w[1]} \cap {"NULL", NoSize} # {}
  <2>1. NULL[1] = "NULL"
    BY DEF NULL
  <2>2. v[1] = "NULL" \/ w[1] = "NULL"
    BY <2>1
  <2> QED
    BY <2>2
<1> QED
  BY <1>1, <1>2, <1>3 DEF Stuck

-----------------------------------------------------------------------------
(***************************************************************************)
(* type_copy and the nesting of arrays.                                    *)
(***************************************************************************)

(* Sequences put behind each other have no other words than their own.     *)
LEMMA FlattenWords ==
  ASSUME NEW S, NEW b \in Seq(Seq(S))
  PROVE  /\ FlattenSeq(b) \in Seq(S)
         /\ \A q \in 1 .. Len(FlattenSeq(b)) :
              \E i \in 1 .. Len(b) : \E j \in 1 .. Len(b[i]) : FlattenSeq(b)[q] = b[i][j]
<1>1. CASE Len(b) = 0
  <2>1. FlattenSeq(b) = b /\ b = <<>>
    BY <1>1 DEF FlattenSeq
  <2> QED
    BY <2>1
<1>2. CASE Len(b) # 0
  <2>1. PICK n \in Nat : n = Len(b) /\ n # 0
    BY <1>2
  <2>2. PICK f : Flattens(f, b) /\ FlattenSeq(b) = f[Len(b)]
    <3>1. PICK g : Flattens(g, b)
      BY FlatteningExists
    <3> QED
      BY <1>2, <3>1 DEF Flattens, FlattenSeq
  <2>3. FlattenSeq(b) = f[n]
    BY <2>1, <2>2
  <2> DEFINE Part(k) ==
               /\ f[k] \in Seq(S)
               /\ \A q \in 1 .. Len(f[k]) :
                    \E i \in 1 .. k : \E j \in 1 .. Len(b[i]) : f[k][q] = b[i][j]
             T == {k \in Nat : k \in 1 .. n => Part(k)}
  <2>4. \A i \in 1 .. n : b[i] \in Seq(S)
    BY <2>1
  <2>5. 0 \in T
    OBVIOUS
  <2>6. ASSUME NEW k \in Nat, k \in T
        PROVE  k + 1 \in T
    <3>1. SUFFICES ASSUME k + 1 \in 1 .. n PROVE Part(k + 1)
      OBVIOUS
    <3>2. CASE k = 0
      <4>1. f[k + 1] = b[1] /\ k + 1 = 1 /\ 1 \in 1 .. n
        BY <3>1, <3>2, <2>1, <2>2 DEF Flattens
      <4>2. b[1] \in Seq(S) /\ \A q \in 1 .. Len(b[1]) : \E j \in 1 .. Len(b[1]) : b[1][q] = b[1][j]
        BY <4>1, <2>4
      <4> QED
        BY <4>1, <4>2, <3>2
    <3>3. CASE k # 0
      <4>1. k \in 1 .. n /\ Part(k)
        <5>1. k \in 1 .. n
          BY <3>1, <3>3
        <5> QED
          BY <5>1, <2>6
      <4>2. PICK u, v : u = f[k] /\ v = b[k + 1]
        OBVIOUS
      <4>3. f[k + 1] = u \o v
        <5>1. k + 1 \in 1 .. Len(b) /\ k + 1 # 1 /\ (k + 1) - 1 = k
          BY <2>1, <3>1, <3>3
        <5> QED
          BY <5>1, <4>2, <2>2 DEF Flattens
      <4>4. u \in Seq(S) /\ v \in Seq(S)
        BY <3>1, <4>1, <4>2, <2>4
      <4>5. PICK x \in Nat, y \in Nat : x = Len(u) /\ y = Len(v)
        BY <4>4
      <4>6. PICK w : w = u \o v
        OBVIOUS
      <4>7. /\ w \in Seq(S) /\ Len(w) = x + y
            /\ \A q \in 1 .. x + y : w[q] = IF q <= x THEN u[q] ELSE v[q - x]
        BY <4>4, <4>5, <4>6, ConcatProperties
      <4>8. ASSUME NEW q \in 1 .. x + y
            PROVE  \E i \in 1 .. k + 1 : \E j \in 1 .. Len(b[i]) : w[q] = b[i][j]
        <5>1. CASE q <= x
          <6>1. q \in 1 .. Len(u) /\ w[q] = u[q]
            BY <5>1, <4>5, <4>7
          <6>2. PICK i \in 1 .. k : \E j \in 1 .. Len(b[i]) : u[q] = b[i][j]
            BY <6>1, <4>1, <4>2
          <6> QED
            BY <6>1, <6>2
        <5>2. CASE ~ q <= x
          <6>1. q - x \in 1 .. Len(v) /\ w[q] = v[q - x]
            BY <5>2, <4>5, <4>7
          <6>2. k + 1 \in 1 .. k + 1
            OBVIOUS
          <6> QED
            BY <6>1, <6>2, <4>2
        <5> QED
          BY <5>1, <5>2
      <4>9. f[k + 1] = w
        BY <4>3, <4>6
      <4> QED
        BY <4>7, <4>8, <4>9
    <3> QED
      BY <3>2, <3>3
  <2>7. \A k \in Nat : k \in T
    <3> HIDE DEF T
    <3> QED
      BY <2>5, <2>6, NaturalInduction
  <2>8. Part(n)
    <3>1. n \in Nat /\ n \in 1 .. n
      BY <2>1
    <3>2. n \in T
      BY <2>7, <3>1
    <3> QED
      BY <3>1, <3>2
  <2> QED
    BY <2>1, <2>3, <2>8
<1> QED
  BY <1>1, <1>2

(* A sequence and a word behind it. *)
LEMMA Appended ==
  ASSUME NEW S, NEW z \in S, NEW y \in Seq(S), NEW m \in Nat, Len(y) = m
  PROVE  LET a == y \o <<z>> IN
         /\ a \in Seq(S) /\ Len(a) = m + 1 /\ a[m + 1] = z
         /\ \A i \in 1 .. m : a[i] = y[i]
OBVIOUS

(* The words of a function type. *)
LEMMA FunctionWord ==
  ASSUME NEW r \in TypeWords, NEW b \in Seq(TypeWords)
  PROVE  LET a == <<"FUNCTION">> \o r \o FlattenSeq(b) \o <<"end">> IN
         /\ a \in TypeWords /\ a[1] = "FUNCTION"
         /\ Tainted(a) => Tainted(r) \/ \E i \in 1 .. Len(b) : Tainted(b[i])
<1>1. r \in Seq(Alphabet)
  BY DEF TypeWords
<1>2. b \in Seq(Seq(Alphabet))
  BY DEF TypeWords
<1>3. PICK s : s = FlattenSeq(b)
  OBVIOUS
<1>4. /\ s \in Seq(Alphabet)
      /\ \A q \in 1 .. Len(s) :
           \E i \in 1 .. Len(b) : \E j \in 1 .. Len(b[i]) : s[q] = b[i][j]
  BY <1>2, <1>3, FlattenWords
<1>5. "FUNCTION" \in Alphabet /\ "end" \in Alphabet
  BY DEF Alphabet, TypeKinds
<1>6. PICK x \in Nat, y \in Nat : x = Len(r) /\ y = Len(s)
  BY <1>1, <1>4
<1>7. PICK u : u = <<"FUNCTION">> \o r
  OBVIOUS
<1>8. /\ u \in Seq(Alphabet) /\ Len(u) = x + 1 /\ u[1] = "FUNCTION"
      /\ \A i \in 2 .. x + 1 : u[i] = r[i - 1]
  BY <1>1, <1>5, <1>6, <1>7
<1>9. PICK v : v = u \o s
  OBVIOUS
<1>10. /\ v \in Seq(Alphabet) /\ Len(v) = x + y + 1
       /\ \A i \in 1 .. x + 1 : v[i] = u[i]
       /\ \A i \in x + 2 .. x + 1 + y : v[i] = s[i - (x + 1)]
  <2>1. PICK m \in Nat : m = x + 1
    OBVIOUS
  <2>2. /\ v \in Seq(Alphabet) /\ Len(v) = m + y
        /\ \A i \in 1 .. m + y : v[i] = IF i <= m THEN u[i] ELSE s[i - m]
    <3>1. Len(u) = m /\ Len(s) = y
      BY <1>6, <1>8, <2>1
    <3> QED
      <4>1. u \in Seq(Alphabet) /\ s \in Seq(Alphabet)
        BY <1>4, <1>8
      <4>2. /\ v \in Seq(Alphabet) /\ Len(v) = Len(u) + Len(s)
            /\ \A i \in 1 .. Len(u) + Len(s) :
                 v[i] = IF i <= Len(u) THEN u[i] ELSE s[i - Len(u)]
        BY ONLY <4>1, <1>9, ConcatProperties, Zenon
      <4> QED
        BY <3>1, <4>2
  <2>3. Len(v) = x + y + 1 /\ \A i \in 1 .. x + 1 : v[i] = u[i]
    BY ONLY <2>1, <2>2, x \in Nat, y \in Nat, m \in Nat
  <2>4. \A i \in m + 1 .. m + y : v[i] = s[i - m]
    BY ONLY <2>2, m \in Nat, y \in Nat
  <2> QED
    <3>1. \A i \in x + 2 .. x + 1 + y : i \in m + 1 .. m + y
      BY ONLY <2>1, x \in Nat, y \in Nat
    <3> QED
      BY <2>1, <2>2, <2>3, <2>4, <3>1
<1>11. PICK a : a = v \o <<"end">>
  OBVIOUS
<1>12. /\ a \in Seq(Alphabet) /\ Len(a) = x + y + 2 /\ a[x + y + 2] = "end"
       /\ \A i \in 1 .. x + 1 + y : a[i] = v[i]
  <2>1. PICK m \in Nat : m = x + y + 1
    OBVIOUS
  <2>2. v \in Seq(Alphabet) /\ Len(v) = m /\ "end" \in Alphabet
    BY <1>5, <1>10, <2>1
  <2>3. /\ a \in Seq(Alphabet) /\ Len(a) = m + 1 /\ a[m + 1] = "end"
        /\ \A i \in 1 .. m : a[i] = v[i]
    BY ONLY <2>2, <1>11, m \in Nat, Appended
  <2>4. m + 1 = x + y + 2 /\ m = x + 1 + y
    BY ONLY <2>1, x \in Nat, y \in Nat
  <2> QED
    BY ONLY <2>3, <2>4
<1>13. a[1] = "FUNCTION"
  BY <1>8, <1>10, <1>12
<1>14. a \in TypeWords
  <2>1. Nested(a, 0)
    BY <1>12, <1>13 DEF Nested
  <2> QED
    BY <2>1, <1>12 DEF TypeWords
<1>15. Tainted(a) => Tainted(r) \/ \E i \in 1 .. Len(b) : Tainted(b[i])
  <2>1. ASSUME NEW q \in 1 .. x + y + 2, a[q] \in {"NULL", NoSize}
        PROVE  Tainted(r) \/ \E i \in 1 .. Len(b) : Tainted(b[i])
    <3>1. q # 1 /\ q # x + y + 2
      BY <2>1, <1>12, <1>13 DEF NoSize
    <3>2. CASE q \in 2 .. x + 1
      <4>1. q - 1 \in 1 .. Len(r) /\ r[q - 1] \in {"NULL", NoSize}
        BY <3>2, <2>1, <1>6, <1>8, <1>10, <1>12
      <4> QED
        BY <4>1 DEF Tainted
    <3>3. CASE q \in x + 2 .. x + 1 + y
      <4>1. q - (x + 1) \in 1 .. Len(s) /\ s[q - (x + 1)] \in {"NULL", NoSize}
        BY <3>3, <2>1, <1>6, <1>10, <1>12
      <4>2. PICK i \in 1 .. Len(b) : \E j \in 1 .. Len(b[i]) : s[q - (x + 1)] = b[i][j]
        BY <4>1, <1>4
      <4> QED
        BY <4>1, <4>2 DEF Tainted
    <3> QED
      BY <3>1, <3>2, <3>3
  <2> QED
    BY <2>1, <1>12 DEF Tainted
<1> QED
  BY <1>3, <1>7, <1>9, <1>11, <1>13, <1>14, <1>15

(* What is known of the struct types at any time.                          *)
LEMMA TableFacts ==
  ASSUME NEW p \in Programs, NEW tys, TypesOf(tys, p)
  PROVE  /\ Len(tys) \in Nat /\ DOMAIN tys = 1 .. Len(tys) /\ Len(tys) = Len(p.types)
         /\ \A c \in 1 .. Len(tys) :
              /\ tys[c].kind \in TypeKinds
              /\ tys[c].sub \in 0 .. c - 1
              /\ tys[c].sub # 0 => tys[c].kind \in {"ARRAY", "FUNCTION"}
              /\ tys[c].kind \in Simple => tys[c].sub = 0
              /\ tys[c].params \in Seq(1 .. c - 1)
              /\ tys[c].size \in STRING \ {"NULL"}
<1> DEFINE R == [kind : TypeKinds, sub : Nat, params : Seq(Nat), size : STRING \ {"NULL"}]
<1>1. /\ tys \in Seq(R) /\ Len(tys) = Len(p.types)
      /\ \A c \in 1 .. Len(tys) :
           /\ tys[c].sub = p.types[c].sub /\ tys[c].params = p.types[c].params
           /\ tys[c].sub # 0 => tys[c].kind = p.types[c].kind
  BY DEF TypesOf
<1>2. /\ p.types \in Seq(R)
      /\ \A c \in DOMAIN p.types :
           /\ p.types[c].sub < c
           /\ p.types[c].sub = 0 <=> p.types[c].kind \in Simple
           /\ \A i \in DOMAIN p.types[c].params : p.types[c].params[i] \in 1 .. c - 1
  BY ProgramsAssumption DEF TableOK
<1>3. PICK n \in Nat : n = Len(tys)
  BY <1>1, LenProperties
<1>4. DOMAIN tys = 1 .. n /\ DOMAIN p.types = 1 .. n
  BY <1>1, <1>2, <1>3, LenProperties
<1>5. ASSUME NEW c \in 1 .. n
      PROVE  /\ tys[c].kind \in TypeKinds
             /\ tys[c].sub \in 0 .. c - 1
             /\ tys[c].sub # 0 => tys[c].kind \in {"ARRAY", "FUNCTION"}
             /\ tys[c].kind \in Simple => tys[c].sub = 0
             /\ tys[c].params \in Seq(1 .. c - 1)
             /\ tys[c].size \in STRING \ {"NULL"}
  <2>1. tys[c] \in R /\ p.types[c] \in R
    <3> HIDE DEF R
    <3>1. c \in 1 .. Len(tys) /\ c \in 1 .. Len(p.types)
      BY <1>1, <1>3
    <3> QED
      BY <3>1, <1>1, <1>2, ElementOfSeq
  <2>2. PICK r : r = tys[c]
    OBVIOUS
  <2>3. /\ r.kind \in TypeKinds /\ r.sub \in Nat /\ r.params \in Seq(Nat)
        /\ r.size \in STRING \ {"NULL"} /\ p.types[c].kind \in TypeKinds
    BY <2>1, <2>2
  <2>4. /\ r.sub < c
        /\ r.sub = 0 <=> p.types[c].kind \in Simple
        /\ \A i \in DOMAIN r.params : r.params[i] \in 1 .. c - 1
        /\ r.sub # 0 => r.kind = p.types[c].kind
    <3>1. PICK q : q = p.types[c]
      OBVIOUS
    <3>2. r.sub = q.sub /\ r.params = q.params /\ (r.sub # 0 => r.kind = q.kind)
      BY <2>2, <3>1, <1>1, <1>3
    <3>3. /\ q.sub < c
          /\ q.sub = 0 <=> q.kind \in Simple
          /\ \A i \in DOMAIN q.params : q.params[i] \in 1 .. c - 1
      BY <3>1, <1>2, <1>4
    <3> QED
      BY <3>1, <3>2, <3>3
  <2>5. r.params \in Seq(1 .. c - 1)
    BY <2>3, <2>4
  <2>6. r.sub \in 0 .. c - 1
    BY <2>3, <2>4
  <2>7. r.sub # 0 => r.kind \in {"ARRAY", "FUNCTION"}
    BY <2>3, <2>4 DEF TypeKinds
  <2> QED
    BY <2>2, <2>3, <2>4, <2>5, <2>6, <2>7 DEF Simple
<1> QED
  BY <1>1, <1>3, <1>4, <1>5

(* One copy, from those of its parts. *)
CopyOf(f, c) ==
  IF c = 0 THEN NULL
  ELSE LET t == types[c] IN
       CASE t.kind = "ARRAY" -> <<"ARRAY">> \o f[t.sub] \o <<Word(t.size)>>
         [] t.kind = "FUNCTION" ->
              <<"FUNCTION">> \o f[t.sub]
              \o FlattenSeq([i \in DOMAIN t.params |-> f[t.params[i]]]) \o <<"end">>
         [] OTHER -> <<t.kind>>

(* A copy depends on those of its parts only. *)
LEMMA CopyOfAgrees ==
  ASSUME NEW p \in Programs, TypesOf(types, p), NEW c \in 0 .. Len(types),
         NEW f, NEW g, \A j \in 0 .. c - 1 : f[j] = g[j]
  PROVE  CopyOf(f, c) = CopyOf(g, c)
<1>1. CASE c = 0
  BY <1>1 DEF CopyOf
<1>2. CASE c # 0
  <2>1. c \in 1 .. Len(types)
    BY <1>2, TableFacts
  <2>2. types[c].sub \in 0 .. c - 1 /\ types[c].params \in Seq(1 .. c - 1)
    BY <2>1, TableFacts
  <2>3. f[types[c].sub] = g[types[c].sub]
    BY <2>2
  <2>4. \A i \in DOMAIN types[c].params : f[types[c].params[i]] = g[types[c].params[i]]
    <3>1. \A i \in DOMAIN types[c].params : types[c].params[i] \in 1 .. c - 1
      BY <2>2
    <3>2. \A j \in 1 .. c - 1 : j \in 0 .. c - 1
      OBVIOUS
    <3> QED
      BY <3>1, <3>2
  <2>5. [i \in DOMAIN types[c].params |-> f[types[c].params[i]]]
        = [i \in DOMAIN types[c].params |-> g[types[c].params[i]]]
    BY <2>4
  <2> QED
    BY <1>2, <2>3, <2>5 DEF CopyOf
<1> QED
  BY <1>1, <1>2

(* The recursion of type_copy ends, as a type is created after its parts.  *)
LEMMA CopyUnfolds ==
  ASSUME NEW p \in Programs, TypesOf(types, p)
  PROVE  \A c \in 0 .. Len(types) : type_copy[c] = CopyOf(type_copy, c)
<1> DEFINE Solves(f, k) == f = [c \in 0 .. k |-> CopyOf(f, c)]
           T == {k \in Nat : k <= Len(types) => \E f : Solves(f, k)}
<1>1. PICK n \in Nat : n = Len(types)
  BY TableFacts
<1>2. 0 \in T
  <2> DEFINE g == [c \in 0 .. 0 |-> NULL]
  <2>1. \A c \in 0 .. 0 : CopyOf(g, c) = NULL
    BY DEF CopyOf
  <2>2. g = [c \in 0 .. 0 |-> CopyOf(g, c)]
    BY <2>1
  <2> QED
    BY <2>2
<1>3. ASSUME NEW k \in Nat, k \in T
      PROVE  k + 1 \in T
  <2>1. SUFFICES ASSUME k + 1 <= n PROVE \E f : Solves(f, k + 1)
    BY <1>1
  <2>2. PICK f : Solves(f, k)
    BY <1>1, <1>3, <2>1
  <2> DEFINE g == [c \in 0 .. k + 1 |-> IF c = k + 1 THEN CopyOf(f, c) ELSE f[c]]
  <2>3. \A c \in 0 .. k : g[c] = f[c]
    OBVIOUS
  <2>4. \A c \in 0 .. k + 1 : c \in 0 .. n /\ \A j \in 0 .. c - 1 : g[j] = f[j]
    BY <2>1, <2>3
  <2>5. \A c \in 0 .. k + 1 : CopyOf(g, c) = CopyOf(f, c)
    <3> HIDE DEF g
    <3> QED
      BY <2>4, <1>1, CopyOfAgrees
  <2>6. \A c \in 0 .. k + 1 : g[c] = CopyOf(f, c)
    BY <2>2
  <2>7. g = [c \in 0 .. k + 1 |-> CopyOf(g, c)]
    BY <2>5, <2>6
  <2>8. Solves(g, k + 1)
    <3> HIDE DEF g
    <3> QED
      BY <2>7
  <2> HIDE DEF g, Solves
  <2> QED
    BY <2>8
<1>4. \A k \in Nat : k \in T
  <2> HIDE DEF T
  <2> QED
    BY <1>2, <1>3, NaturalInduction
<1>5. PICK f : f = [c \in 0 .. n |-> CopyOf(f, c)]
  BY <1>1, <1>4
<1>6. type_copy = [c \in 0 .. n |-> CopyOf(type_copy, c)]
  BY <1>1, <1>5 DEF type_copy, Copies, CopyOf
<1> QED
  BY <1>1, <1>6

(* Words of the sizes of arrays. *)
LEMMA SizeWord ==
  ASSUME NEW size \in STRING \ {"NULL"}
  PROVE  Word(size) \in Alphabet /\ (Word(size) \in {"NULL", NoSize} => size = NoSize)
<1>1. CASE size = Computed
  <2>1. Word(size) = "0"
    BY <1>1 DEF Word
  <2> QED
    BY <2>1 DEF Alphabet, NoSize
<1>2. CASE size # Computed
  <2>1. Word(size) = size
    BY <1>2 DEF Word
  <2> QED
    BY <2>1 DEF Alphabet
<1> QED
  BY <1>1, <1>2

(* The cases of CopyOf. *)
LEMMA CopyCases ==
  ASSUME NEW f, NEW c, NEW t, t = types[c]
  PROVE  /\ CopyOf(f, 0) = NULL
         /\ c # 0 /\ t.kind = "ARRAY" =>
              CopyOf(f, c) = <<"ARRAY">> \o f[t.sub] \o <<Word(t.size)>>
         /\ c # 0 /\ t.kind = "FUNCTION" =>
              CopyOf(f, c) = <<"FUNCTION">> \o f[t.sub]
                \o FlattenSeq([i \in DOMAIN t.params |-> f[t.params[i]]]) \o <<"end">>
         /\ c # 0 /\ t.kind \notin {"ARRAY", "FUNCTION"} => CopyOf(f, c) = <<t.kind>>
BY DEF CopyOf

(* A copy of a struct type has its kind, and what is missing in the copy   *)
(* is missing in the table.                                                *)
LEMMA CopyFacts ==
  ASSUME NEW p \in Programs, TypesOf(types, p)
  PROVE  /\ type_copy[0] = NULL
         /\ \A c \in 1 .. Len(types) :
              /\ type_copy[c] \in TypeWords
              /\ type_copy[c][1] = types[c].kind
              /\ Tainted(type_copy[c]) => \E d \in DOMAIN types : Explains(types, d)
<1> DEFINE Good(c) ==
             /\ type_copy[c] \in TypeWords
             /\ type_copy[c][1] = types[c].kind
             /\ Tainted(type_copy[c]) => \E d \in DOMAIN types : Explains(types, d)
           T == {k \in Nat : \A c \in 1 .. Len(types) : c <= k => Good(c)}
<1>1. PICK n \in Nat : n = Len(types) /\ DOMAIN types = 1 .. n
  BY TableFacts
<1>2. \A c \in 0 .. n : type_copy[c] = CopyOf(type_copy, c)
  BY <1>1, CopyUnfolds
<1>3. type_copy[0] = NULL
  <2>1. 0 \in 0 .. n
    BY <1>1
  <2>2. type_copy[0] = CopyOf(type_copy, 0)
    BY <1>2, <2>1
  <2>3. CopyOf(type_copy, 0) = NULL
    BY CopyCases, Zenon
  <2> QED
    BY <2>2, <2>3
<1>4. 0 \in T
  BY <1>1
<1>5. ASSUME NEW k \in Nat, k \in T
      PROVE  k + 1 \in T
  <2>1. SUFFICES ASSUME k + 1 \in 1 .. n PROVE Good(k + 1)
    <3>1. \A c \in 1 .. n : c <= k + 1 => c <= k \/ c = k + 1
      OBVIOUS
    <3> QED
      BY <1>1, <1>5, <3>1
  <2>2. PICK c : c = k + 1
    OBVIOUS
  <2>3. c \in 1 .. n /\ c \in 0 .. n
    BY <2>1, <2>2
  <2>4. PICK t : t = types[c]
    OBVIOUS
  <2>11. type_copy[c] = CopyOf(type_copy, c) /\ c # 0
    BY <1>2, <2>3
  <2>5. /\ t.kind \in TypeKinds /\ t.sub \in 0 .. k /\ t.params \in Seq(1 .. k)
        /\ t.size \in STRING \ {"NULL"}
    <3>1. c - 1 = k
      BY <2>2
    <3> QED
      BY <3>1, <2>3, <2>4, <1>1, TableFacts
  <2>6. \A d \in 1 .. k : Good(d)
    <3>1. \A d \in 1 .. k : d \in 1 .. Len(types) /\ d <= k
      BY <1>1, <2>1
    <3> QED
      BY <1>5, <3>1
  <2>7. ASSUME NEW d \in 0 .. k
        PROVE  /\ type_copy[d] \in TypeWords
               /\ Tainted(type_copy[d]) /\ d # 0 => \E x \in DOMAIN types : Explains(types, x)
    <3>1. CASE d = 0
      BY <3>1, <1>3, Words
    <3>2. CASE d # 0
      BY <3>2, <2>6
    <3> QED
      BY <3>1, <3>2
  <2>8. CASE t.kind = "ARRAY"
    <3>1. type_copy[c] = <<"ARRAY">> \o type_copy[t.sub] \o <<Word(t.size)>>
      <4>1. CopyOf(type_copy, c) = <<"ARRAY">> \o type_copy[t.sub] \o <<Word(t.size)>>
        BY <2>4, <2>8, <2>11 DEF CopyOf
      <4> QED
        BY <4>1, <2>11
    <3>2. PICK w \in TypeWords : w = type_copy[t.sub]
      BY <2>5, <2>7
    <3>3. Word(t.size) \in Alphabet /\ (Word(t.size) \in {"NULL", NoSize} => t.size = NoSize)
      BY <2>5, SizeWord
    <3>4. /\ type_copy[c] \in TypeWords /\ type_copy[c][1] = "ARRAY"
          /\ Tainted(type_copy[c]) => Tainted(w) \/ Word(t.size) \in {"NULL", NoSize}
      BY <3>1, <3>2, <3>3, ArrayWord
    <3>5. t.size = NoSize \/ t.sub = 0 => Explains(types, c)
      BY <1>1, <2>3, <2>4, <2>8 DEF Explains
    <3>6. Tainted(type_copy[c]) => \E d \in DOMAIN types : Explains(types, d)
      BY <3>2, <3>3, <3>4, <3>5, <2>5, <2>7 DEF Explains
    <3> QED
      BY <3>4, <3>6, <2>2, <2>4, <2>8
  <2>9. CASE t.kind = "FUNCTION"
    <3>1. PICK b : b = [i \in DOMAIN t.params |-> type_copy[t.params[i]]]
      OBVIOUS
    <3>2. type_copy[c] = <<"FUNCTION">> \o type_copy[t.sub] \o FlattenSeq(b) \o <<"end">>
      <4>1. CopyOf(type_copy, c)
            = <<"FUNCTION">> \o type_copy[t.sub] \o FlattenSeq(b) \o <<"end">>
        BY <2>4, <2>9, <2>11, <3>1 DEF CopyOf
      <4> QED
        BY <4>1, <2>11
    <3>3. PICK w \in TypeWords : w = type_copy[t.sub]
      BY <2>5, <2>7
    <3>4. PICK m \in Nat : m = Len(t.params) /\ DOMAIN t.params = 1 .. m
      BY <2>5
    <3>5. \A i \in 1 .. m : t.params[i] \in 0 .. k /\ t.params[i] # 0
      <4>1. \A i \in 1 .. m : t.params[i] \in 1 .. k
        BY <2>5, <3>4
      <4> QED
        BY <4>1
    <3>6. /\ b \in Seq(TypeWords) /\ Len(b) = m
          /\ \A i \in 1 .. m : b[i] = type_copy[t.params[i]]
      <4>1. \A i \in 1 .. m : type_copy[t.params[i]] \in TypeWords
        BY <3>5, <2>7
      <4>2. b = [i \in 1 .. m |-> type_copy[t.params[i]]]
        BY <3>1, <3>4
      <4> QED
        BY <4>1, <4>2
    <3>7. /\ type_copy[c] \in TypeWords /\ type_copy[c][1] = "FUNCTION"
          /\ Tainted(type_copy[c]) => Tainted(w) \/ \E i \in 1 .. m : Tainted(b[i])
      <4>1. Len(b) = m /\ b \in Seq(TypeWords)
        BY <3>6
      <4>2. PICK a : a = <<"FUNCTION">> \o w \o FlattenSeq(b) \o <<"end">>
        OBVIOUS
      <4>3. /\ a \in TypeWords /\ a[1] = "FUNCTION"
            /\ Tainted(a) => Tainted(w) \/ \E i \in 1 .. Len(b) : Tainted(b[i])
        BY <4>1, <4>2, FunctionWord
      <4>4. type_copy[c] = a
        BY <3>2, <3>3, <4>2
      <4> QED
        BY <4>1, <4>3, <4>4
    <3>8. t.sub = 0 => Explains(types, c)
      BY <1>1, <2>3, <2>4, <2>9 DEF Explains
    <3>9. Tainted(type_copy[c]) => \E d \in DOMAIN types : Explains(types, d)
      <4>1. CASE Tainted(w)
        BY <4>1, <3>3, <3>8, <2>5, <2>7 DEF Explains
      <4>2. ASSUME NEW i \in 1 .. m, Tainted(b[i])
            PROVE  \E d \in DOMAIN types : Explains(types, d)
        BY <4>2, <3>5, <3>6, <2>7
      <4> QED
        BY <4>1, <4>2, <3>7
    <3> QED
      BY <3>7, <3>9, <2>2, <2>4, <2>9
  <2>10. CASE t.kind \notin {"ARRAY", "FUNCTION"}
    <3>1. type_copy[c] = <<t.kind>>
      BY ONLY <2>11, <2>4, <2>10, CopyCases, Zenon
    <3>2. t.kind \in Simple
      BY <2>5, <2>10 DEF TypeKinds
    <3>3. PICK x \in Simple : x = t.kind
      BY <3>2
    <3> QED
      BY <3>1, <3>3, <2>2, <2>4, SimpleWord
  <2> QED
    BY <2>8, <2>9, <2>10
<1>6. \A k \in Nat : k \in T
  <2> HIDE DEF T
  <2> QED
    BY <1>4, <1>5, NaturalInduction
<1>7. n \in T
  BY <1>6
<1> QED
  BY <1>1, <1>3, <1>7

(* One step of the descent into an array. *)
NestOf(f, c) ==
  IF c = 0 THEN {}
  ELSE IF types[c].kind = "ARRAY" THEN {c} \cup f[types[c].sub] ELSE {c}

(* That descent ends. *)
LEMMA NestUnfolds ==
  ASSUME NEW p \in Programs, TypesOf(types, p)
  PROVE  \A c \in 0 .. Len(types) : Nest[c] = NestOf(Nest, c)
<1>1. PICK n \in Nat : n = Len(types) /\ DOMAIN types = 1 .. n
  BY TableFacts
<1>2. \A c \in 1 .. n : types[c].sub \in 0 .. c - 1
  BY <1>1, TableFacts
<1> DEFINE Solves(f, k) == f = [c \in 0 .. k |-> NestOf(f, c)]
           T == {k \in Nat : k <= n => \E f : Solves(f, k)}
<1>3. 0 \in T
  <2> DEFINE g == [c \in 0 .. 0 |-> {}]
  <2>1. g = [c \in 0 .. 0 |-> NestOf(g, c)]
    BY DEF NestOf
  <2> QED
    BY <2>1
<1>4. ASSUME NEW k \in Nat, k \in T
      PROVE  k + 1 \in T
  <2>1. SUFFICES ASSUME k + 1 <= n PROVE \E f : Solves(f, k + 1)
    OBVIOUS
  <2>2. PICK f : Solves(f, k)
    BY <1>4, <2>1
  <2> DEFINE g == [c \in 0 .. k + 1 |-> IF c = k + 1 THEN NestOf(f, c) ELSE f[c]]
  <2>3. \A c \in 0 .. k : g[c] = f[c]
    OBVIOUS
  <2>4. \A c \in 0 .. k + 1 : c # 0 => g[types[c].sub] = f[types[c].sub]
    <3>1. \A c \in 0 .. k + 1 : c # 0 => types[c].sub \in 0 .. k
      BY <1>2, <2>1
    <3> HIDE DEF g
    <3> QED
      BY <2>3, <3>1
  <2>5. \A c \in 0 .. k + 1 : NestOf(g, c) = NestOf(f, c)
    <3> HIDE DEF g
    <3> QED
      BY <2>4 DEF NestOf
  <2>6. \A c \in 0 .. k + 1 : g[c] = NestOf(f, c)
    BY <2>2
  <2>7. g = [c \in 0 .. k + 1 |-> NestOf(g, c)]
    BY <2>5, <2>6
  <2>8. Solves(g, k + 1)
    <3> HIDE DEF g
    <3> QED
      BY <2>7
  <2> HIDE DEF g, Solves
  <2> QED
    BY <2>8
<1>5. \A k \in Nat : k \in T
  <2> HIDE DEF T
  <2> QED
    BY <1>3, <1>4, NaturalInduction
<1>6. PICK f : f = [c \in 0 .. n |-> NestOf(f, c)]
  BY <1>5
<1>7. Nest = [c \in 0 .. n |-> NestOf(Nest, c)]
  BY <1>1, <1>6 DEF Nest, NestOf
<1> QED
  BY <1>1, <1>7

(* type_check_valid sees struct types of the table only.                   *)
LEMMA NestFacts ==
  ASSUME NEW p \in Programs, TypesOf(types, p)
  PROVE  \A c \in 0 .. Len(types) : Nest[c] \subseteq DOMAIN types
<1>1. PICK n \in Nat : n = Len(types) /\ DOMAIN types = 1 .. n
  BY TableFacts
<1>2. \A c \in 1 .. n : types[c].sub \in 0 .. c - 1
  BY <1>1, TableFacts
<1>3. \A c \in 0 .. n : Nest[c] = NestOf(Nest, c)
  BY <1>1, NestUnfolds
<1> DEFINE B == {k \in Nat : \A c \in 0 .. n : c <= k => Nest[c] \subseteq 1 .. n}
<1>4. 0 \in B
  <2>1. 0 \in 0 .. n /\ Nest[0] = NestOf(Nest, 0)
    BY <1>3
  <2>2. Nest[0] = {}
    BY <2>1 DEF NestOf
  <2>3. \A c \in 0 .. n : c <= 0 => c = 0
    OBVIOUS
  <2> QED
    BY <2>2, <2>3
<1>5. ASSUME NEW k \in Nat, k \in B
      PROVE  k + 1 \in B
  <2>1. SUFFICES ASSUME NEW c \in 0 .. n, c = k + 1 PROVE Nest[c] \subseteq 1 .. n
    BY <1>5
  <2>2. c \in 1 .. n /\ types[c].sub \in 0 .. n /\ types[c].sub <= k
    BY <2>1, <1>2
  <2>3. Nest[types[c].sub] \subseteq 1 .. n
    BY <2>2, <1>5
  <2>4. Nest[c] \subseteq {c} \cup Nest[types[c].sub]
    BY <1>3, <2>2 DEF NestOf
  <2> QED
    BY <2>2, <2>3, <2>4
<1>6. \A k \in Nat : k \in B
  <2> HIDE DEF B
  <2> QED
    BY <1>4, <1>5, NaturalInduction
<1>7. n \in B
  BY <1>6
<1> QED
  BY <1>1, <1>7

-----------------------------------------------------------------------------
(***************************************************************************)
(* Verdicts: what is missing in a result, or followed although it is       *)
(* missing, is missing in an operand.                                      *)
(***************************************************************************)
SomeTainted(v) == \E i \in 1 .. Len(v) : Tainted(v[i])

(* Operands that have to be of one type. *)
LEMMA DemandFacts ==
  ASSUME NEW want, NEW v \in Seq(TypeWords), NEW result
  PROVE  /\ Demand(want, v, result).type = result
         /\ Demand(want, v, result).crash => SomeTainted(v)
<1>1. Demand(want, v, result).type = result
  BY DEF Demand, Verdict
<1>2. ASSUME Demand(want, v, result).crash PROVE SomeTainted(v)
  <2>1. DOMAIN v = 1 .. Len(v) /\ \A i \in 1 .. Len(v) : v[i] \in TypeWords
    OBVIOUS
  <2>2. CASE \E i \in DOMAIN v : v[i] = NULL
    BY <2>1, <2>2, Words DEF SomeTainted
  <2>3. CASE Unprintable(Range(v) \ {NULL})
    <3>1. Range(v) \ {NULL} \in SUBSET TypeWords
      BY <2>1 DEF Range
    <3>2. PICK t \in Range(v) \ {NULL} : Tainted(t)
      BY <3>1, <2>3, UnprintableTaints
    <3>3. PICK i \in DOMAIN v : v[i] = t
      BY <3>2 DEF Range
    <3> QED
      BY <3>2, <3>3, <2>1 DEF SomeTainted
  <2>4. (\E i \in DOMAIN v : v[i] = NULL) \/ Unprintable(Range(v) \ {NULL})
    BY <1>2 DEF Demand, Verdict
  <2> QED
    BY <2>2, <2>3, <2>4
<1> QED
  BY <1>1, <1>2

(* Operands that have to agree. *)
LEMMA AgreeFacts ==
  ASSUME NEW v \in TypeWords, NEW w \in TypeWords, NEW bad, NEW result
  PROVE  /\ Agree(v, w, bad, result).type = result
         /\ Agree(v, w, bad, result).crash => Tainted(v) \/ Tainted(w)
         /\ v = NULL \/ w = NULL => Agree(v, w, bad, result).crash
<1>1. Agree(v, w, bad, result).type = result
  BY DEF Agree, Verdict
<1>2. Agree(v, w, bad, result).crash => Stuck(v, w) \/ Unprintable({v, w})
  BY DEF Agree, Verdict
<1>3. Stuck(v, w) => Agree(v, w, bad, result).crash
  BY DEF Agree, Verdict
<1>4. Unprintable({v, w}) => Tainted(v) \/ Tainted(w)
  <2>1. {v, w} \in SUBSET TypeWords
    OBVIOUS
  <2> QED
    BY <2>1, UnprintableTaints
<1> QED
  BY <1>1, <1>2, <1>3, <1>4, StuckTaints, NullIsStuck

(* A type that is printed in a message. *)
LEMMA PrintedFacts ==
  ASSUME NEW v \in TypeWords, Unprintable({v})
  PROVE  Tainted(v)
<1>1. {v} \in SUBSET TypeWords
  OBVIOUS
<1> QED
  BY <1>1, UnprintableTaints

(* An element of an array. *)
LEMMA IndexedFacts ==
  ASSUME NEW v \in TypeWords, NEW i \in TypeWords
  PROVE  /\ Indexed(v, i).type \in TypeWords
         /\ Indexed(v, i).crash \/ Tainted(Indexed(v, i).type) => Tainted(v) \/ Tainted(i)
<1>1. CASE v[1] = "ARRAY"
  <2>1. PICK c \in BOOLEAN : c <=> i # Integer /\ Unprintable({i})
    OBVIOUS
  <2>2. Indexed(v, i).type = ElementType(v) /\ Indexed(v, i).crash = c
    BY <1>1, <2>1 DEF Indexed, Kind, Verdict
  <2> QED
    BY <2>1, <2>2, <1>1, ElementWord, PrintedFacts
<1>2. CASE v[1] # "ARRAY"
  <2>1. Indexed(v, i) = Verdict(v, TRUE, Unprintable({v}))
    BY <1>2 DEF Indexed, Kind
  <2>2. Indexed(v, i).type = v /\ (Indexed(v, i).crash => Unprintable({v}))
    BY <2>1 DEF Verdict
  <2> QED
    BY <2>2, PrintedFacts
<1> QED
  BY <1>1, <1>2

(* A row of values. *)
LEMMA ArrayOfFacts ==
  ASSUME NEW v \in TypeWords, NEW n, ToString(n) \in STRING \ {"NULL", NoSize}
  PROVE  /\ ArrayOf(v, n) \in TypeWords
         /\ Tainted(ArrayOf(v, n)) => Tainted(v)
<1>1. PICK w \in Alphabet : w = ToString(n) /\ w \notin {"NULL", NoSize}
  BY DEF Alphabet
<1>2. ArrayOf(v, n) = <<"ARRAY">> \o v \o <<w>>
  BY <1>1 DEF ArrayOf
<1> QED
  BY <1>1, <1>2, ArrayWord

(* The three readings of a list of values. *)
LEMMA ListFacts ==
  ASSUME NEW v \in Seq(TypeWords), v # <<>>
  PROVE  /\ List(v).type \in TypeWords
         /\ List(v).crash \/ Tainted(List(v).type) => SomeTainted(v)
         /\ ToString(Len(v)) \in STRING \ {"NULL", NoSize} =>
              /\ Row(v).type \in TypeWords /\ Rows(v).type \in TypeWords
              /\ Row(v).crash \/ Tainted(Row(v).type) => SomeTainted(v)
              /\ Rows(v).crash \/ Tainted(Rows(v).type) => SomeTainted(v)
<1>1. PICK n \in Nat \ {0} : n = Len(v) /\ DOMAIN v = 1 .. n
  BY EmptySeq, LenProperties
<1>2. \A i \in 1 .. n : v[i] \in TypeWords /\ (Tainted(v[i]) => SomeTainted(v))
  BY <1>1 DEF SomeTainted
<1>3. 1 \in 1 .. n
  BY <1>1
<1>4. PICK f \in TypeWords : f = v[1]
  BY <1>2, <1>3
<1>5. (\E i \in DOMAIN v : v[i] = NULL) => SomeTainted(v)
  BY <1>1, <1>2, Words
<1>6. PICK g \in TypeWords : g = IF f[1] = "AUTO" THEN Integer ELSE f
  BY Words
<1>7. Tainted(g) => SomeTainted(v)
  BY <1>2, <1>3, <1>4, <1>6, Words
<1>8. List(v).type = g /\ (List(v).crash => \E i \in DOMAIN v : v[i] = NULL)
  BY <1>4, <1>6 DEF List, Verdict, Kind
<1>9. ASSUME ToString(Len(v)) \in STRING \ {"NULL", NoSize}
      PROVE  /\ Row(v).type \in TypeWords /\ Rows(v).type \in TypeWords
             /\ Row(v).crash \/ Tainted(Row(v).type) => SomeTainted(v)
             /\ Rows(v).crash \/ Tainted(Rows(v).type) => SomeTainted(v)
  <2>1. /\ Row(v).type = ArrayOf(g, Len(v))
        /\ Row(v).crash => Stuck(f, f) \/ \E i \in DOMAIN v : v[i] = NULL
    BY <1>4, <1>6 DEF Row, Verdict, Kind
  <2>2. Stuck(f, f) => Tainted(f)
    BY StuckTaints
  <2>3. /\ ~ Rows(v).crash
        /\ Rows(v).type = IF Len(v) = 1 THEN f ELSE ArrayOf(f, Len(v))
    BY <1>4 DEF Rows, Verdict
  <2>4. /\ ArrayOf(g, Len(v)) \in TypeWords /\ ArrayOf(f, Len(v)) \in TypeWords
        /\ Tainted(ArrayOf(g, Len(v))) => Tainted(g)
        /\ Tainted(ArrayOf(f, Len(v))) => Tainted(f)
    BY <1>9, ArrayOfFacts
  <2>5. Tainted(f) => SomeTainted(v)
    BY <1>2, <1>3, <1>4
  <2> QED
    BY <2>1, <2>2, <2>3, <2>4, <2>5, <1>5, <1>7
<1> QED
  BY <1>5, <1>6, <1>7, <1>8, <1>9

(* The types of operands that a node finds: for every kind of expression.  *)
LEMMA RuleFacts ==
  ASSUME NEW p \in Programs, TypesOf(types, p), NEW e \in Exprs(p),
         e.kind \notin {"FCALL", "ASSIGN"}, NEW v \in Seq(TypeWords), Len(v) = Len(e.sub)
  PROVE  /\ Rule(e, v).type \in TypeWords
         /\ e.kind = "ID" => /\ e.val \in 0 .. Len(types)
                             /\ Rule(e, v).type = type_copy[e.val]
                             /\ Rule(e, v).crash = (e.val = 0)
         /\ Rule(e, v).crash \/ Tainted(Rule(e, v).type) =>
              \/ SomeTainted(v)
              \/ e.kind = "ID" /\ e.val = 0
              \/ \E c \in DOMAIN types : Explains(types, c)
<1>1. ExprOK(e, p)
  BY ProgramsAssumption DEF Exprs
<1>2. \A i \in 1 .. Len(v) : v[i] \in TypeWords /\ (Tainted(v[i]) => SomeTainted(v))
  BY DEF SomeTainted
<1>3. CASE e.kind \in Literal
  <2>1. ~ Rule(e, v).crash
    BY <1>3 DEF Rule, Verdict, Literal, Arithmetic, Step, Logical, Comparison
  <2>2. Rule(e, v).type \in {Integer, Boolean, <<"CHARACTER">>, <<"STRING">>}
    BY <1>3 DEF Rule, Verdict, Literal, Arithmetic, Step, Logical, Comparison
  <2> QED
    BY <2>1, <2>2, <1>3, Words DEF Literal
<1>4. CASE e.kind = "ID"
  <2>1. Rule(e, v) = Verdict(type_copy[e.val], FALSE, e.val = 0)
    BY <1>4 DEF Rule, Arithmetic, Step, Logical, Comparison
  <2>2. Rule(e, v).type = type_copy[e.val] /\ Rule(e, v).crash = (e.val = 0)
    BY <2>1 DEF Verdict
  <2>3. e.val \in 0 .. Len(types)
    BY <1>1, <1>4, TableFacts DEF ExprOK
  <2>4. CASE e.val = 0
    BY <2>2, <2>3, <2>4, <1>4, CopyFacts, Words
  <2>5. CASE e.val # 0
    <3>1. e.val \in 1 .. Len(types)
      BY <2>3, <2>5, TableFacts
    <3> QED
      BY <2>2, <2>3, <2>5, <3>1, CopyFacts
  <2> QED
    BY <2>4, <2>5
<1>5. CASE e.kind \in Arithmetic \cup {"NEGATION"} \cup Logical \cup {"NOT"}
  <2>1. \/ Rule(e, v) = Demand(Integer, v, Integer)
        \/ Rule(e, v) = Demand(Boolean, v, Boolean)
    BY <1>5 DEF Rule, Arithmetic, Step, Logical, Comparison
  <2> QED
    BY <2>1, <1>5, DemandFacts, Words DEF Arithmetic, Logical
<1>6. CASE e.kind \in Step
  <2>1. PICK w : w = Demand(Integer, v, Integer)
    OBVIOUS
  <2>2. w = [type |-> w.type, bad |-> w.bad, crash |-> w.crash]
    BY <2>1 DEF Demand, Verdict
  <2>3. Rule(e, v) = [w EXCEPT !.bad = @ \/ ~ InMemory(e.sub[1])]
    BY <2>1, <1>6 DEF Rule, Arithmetic, Step, Logical, Comparison
  <2>4. Rule(e, v).type = w.type /\ Rule(e, v).crash = w.crash
    BY <2>2, <2>3
  <2> QED
    BY <2>1, <2>4, <1>6, DemandFacts, Words DEF Step
<1>7. CASE e.kind \in Comparison
  <2>1. Len(v) = 2
    BY <1>1, <1>7 DEF ExprOK
  <2>2. CASE e.kind \in {"EQ", "NOT_EQ"}
    <3>1. Rule(e, v) = Agree(v[1], v[2], Kind(v[1]) \in Unusable \cup {"ARRAY"}, Boolean)
      BY <2>2 DEF Rule, Arithmetic, Step, Logical, Comparison
    <3>2. Rule(e, v).type = Boolean /\ (Rule(e, v).crash => Tainted(v[1]) \/ Tainted(v[2]))
      BY <3>1, <2>1, <1>2, AgreeFacts
    <3> QED
      BY <3>2, <2>1, <2>2, <1>2, Words
  <2>3. CASE e.kind \notin {"EQ", "NOT_EQ"}
    <3>1. Rule(e, v) = Demand(Integer, v, Boolean)
      BY <1>7, <2>3 DEF Rule, Arithmetic, Step, Logical, Comparison
    <3> QED
      BY <3>1, <1>7, DemandFacts, Words DEF Comparison
  <2> QED
    BY <2>2, <2>3
<1>8. CASE e.kind = "TERNARY1"
  <2>1. Len(v) = 3
    BY <1>1, <1>8 DEF ExprOK
  <2>2. PICK test : test = Demand(Boolean, <<v[1]>>, Boolean)
    OBVIOUS
  <2>3. PICK arms : arms = Agree(v[2], v[3], Kind(v[2]) \in Unusable, v[2])
    OBVIOUS
  <2>4. PICK c \in BOOLEAN : c <=> test.crash \/ arms.crash
    OBVIOUS
  <2>5. v[1] \in TypeWords /\ v[2] \in TypeWords /\ v[3] \in TypeWords
    BY <2>1, <1>2
  <2>6. test.crash => Tainted(v[1])
    <3>1. PICK x \in TypeWords : x = v[1]
      BY <2>5
    <3>2. PICK u : u = <<x>>
      OBVIOUS
    <3>3. u \in Seq(TypeWords) /\ Len(u) = 1 /\ u[1] = x
      BY <3>2
    <3>4. test.crash => SomeTainted(u)
      BY <2>2, <3>1, <3>2, <3>3, DemandFacts
    <3> QED
      BY <3>1, <3>3, <3>4 DEF SomeTainted
  <2>7. arms.crash => Tainted(v[2]) \/ Tainted(v[3])
    BY <2>3, <2>5, AgreeFacts
  <2>8. Rule(e, v).type = v[2] /\ (Rule(e, v).crash => test.crash \/ arms.crash)
    <3>1. Rule(e, v) = Verdict(v[2], test.bad \/ arms.bad, test.crash \/ arms.crash)
      BY <2>2, <2>3, <1>8 DEF Rule, Arithmetic, Step, Logical, Comparison
    <3>2. Rule(e, v) = Verdict(v[2], test.bad \/ arms.bad, c)
      BY <3>1, <2>4
    <3> QED
      BY <3>2, <2>4 DEF Verdict
  <2> QED
    BY <2>1, <2>5, <2>6, <2>7, <2>8, <1>2, <1>8
<1>9. CASE e.kind = "INDEX"
  <2>1. Len(v) = 2
    BY <1>1, <1>9 DEF ExprOK
  <2>2. Rule(e, v) = Indexed(v[1], v[2])
    BY <1>9 DEF Rule, Arithmetic, Step, Logical, Comparison
  <2>3. v[1] \in TypeWords /\ v[2] \in TypeWords
    BY <2>1, <1>2
  <2>4. Rule(e, v).crash \/ Tainted(Rule(e, v).type) => Tainted(v[1]) \/ Tainted(v[2])
    BY <2>2, <2>3, IndexedFacts
  <2>5. Rule(e, v).type \in TypeWords
    BY <2>2, <2>3, IndexedFacts
  <2> QED
    BY <2>1, <2>4, <2>5, <1>2, <1>9
<1>10. CASE e.kind \in {"BRACE", "ARG"}
  <2>1. v # <<>> /\ ToString(Len(v)) \in STRING \ {"NULL", NoSize}
    <3>1. /\ e.sub # <<>> /\ ToString(Len(e.sub)) \in STRING \ {"NULL", NoSize}
          /\ e.sub \in Seq(Exprs(p))
      BY <1>1, <1>10 DEF ExprOK, Exprs
    <3>2. Len(e.sub) # 0
      BY <3>1, EmptySeq
    <3> QED
      BY <3>1, <3>2
  <2>2. Rule(e, v) = Row(v) \/ Rule(e, v) = Rows(v) \/ Rule(e, v) = List(v)
    BY <1>10 DEF Rule, Arithmetic, Step, Logical, Comparison
  <2> QED
    BY <2>1, <2>2, <1>10, ListFacts
<1>11. CASE e.kind = "GROUP"
  <2>1. Len(v) = 1
    BY <1>1, <1>11 DEF ExprOK
  <2>2. Rule(e, v) = Verdict(v[1], FALSE, FALSE)
    BY <1>11 DEF Rule, Arithmetic, Step, Logical, Comparison
  <2>3. Rule(e, v).type = v[1] /\ ~ Rule(e, v).crash
    BY <2>2 DEF Verdict
  <2> QED
    BY <2>1, <2>3, <1>2, <1>11
<1>12. e.kind \in ExprKinds
  BY <1>1 DEF ExprOK
<1> QED
  BY <1>3, <1>4, <1>5, <1>6, <1>7, <1>8, <1>9, <1>10, <1>11, <1>12 DEF ExprKinds, Leaf

-----------------------------------------------------------------------------
(***************************************************************************)
(* The calls of the walk.                                                  *)
(***************************************************************************)

(* What a call is about, by what it does. *)
LEMMA CallForms ==
  ASSUME NEW p \in Programs, NEW c \in Calls(p)
  PROVE  /\ c = Do(c.do, c.arg)
         /\ c.do \in InnerCalls \cup EndCalls \cup Outer
         /\ c.do = "expr" => c.arg \in Exprs(p) \cup {None}
         /\ c.do = "node" => c.arg \in Exprs(p) /\ c.arg.kind # "FCALL"
         /\ c.do = "arguments" => c.arg \in Nat
         /\ c.do = "call" => c.arg \in Snapshots(p)
         /\ c.do = "argument" => c.arg \in TypeWords
         /\ c.do \in {"forget", "condition"} => c.arg = 1
         /\ c.do = "loop" => c.arg = 3
         /\ c.do \in {"return", "initial", "decl"} => c.arg \in Parts(p).decls
         /\ c.do = "stmt" => c.arg.stmt \in Parts(p).stmts /\ c.arg.func \in Parts(p).decls
<1> USE DEF Do, InnerCalls, EndCalls, Outer
<1>1. CASE c \in {Do("expr", e) : e \in Exprs(p) \cup {None}}
  BY <1>1
<1>2. CASE c \in {Do("node", e) : e \in {x \in Exprs(p) : x.kind # "FCALL"}}
  BY <1>2
<1>3. CASE c \in {Do("arguments", n) : n \in Nat}
  BY <1>3
<1>4. CASE c \in {Do("call", x) : x \in Snapshots(p)}
  BY <1>4
<1>5. CASE c \in {Do("argument", t) : t \in TypeWords}
  BY <1>5
<1>6. CASE c \in {Do("forget", 1), Do("condition", 1), Do("loop", 3)}
  BY <1>6
<1>7. CASE c \in {Do("return", d) : d \in Parts(p).decls}
  BY <1>7
<1>8. CASE c \in {Do("initial", d) : d \in Parts(p).decls}
  BY <1>8
<1>9. CASE c \in {Do("stmt", [stmt |-> s, func |-> d]) :
                    s \in Parts(p).stmts, d \in Parts(p).decls}
  BY <1>9
<1>10. CASE c \in {Do("decl", d) : d \in Parts(p).decls}
  BY <1>10
<1> QED
  BY <1>1, <1>2, <1>3, <1>4, <1>5, <1>6, <1>7, <1>8, <1>9, <1>10 DEF Calls

(* What calls take and leave. *)
LEMMA CallCounts ==
  ASSUME NEW p \in Programs, NEW c \in Calls(p)
  PROVE  /\ Uses(c) \in Nat /\ Gives(c) \in {0, 1}
         /\ Gives(c) = 1 <=> c.do \in {"expr", "node", "call"}
         /\ c.do \in Outer \cup {"expr", "call"} => Uses(c) = 0
         /\ c.do = "node" => Uses(c) = Len(c.arg.sub)
         /\ c.do \in {"arguments", "forget", "condition", "loop"} => Uses(c) = c.arg
         /\ c.do \in {"argument", "return", "initial"} => Uses(c) = 1
<1>1. c.do = "node" => Len(c.arg.sub) \in Nat
  <2>1. SUFFICES ASSUME c.do = "node" PROVE Len(c.arg.sub) \in Nat
    OBVIOUS
  <2>2. c.arg \in Exprs(p)
    BY <2>1, CallForms
  <2>3. c.arg.sub \in Seq(Exprs(p))
    BY <2>2, ProgramsAssumption DEF ExprOK, Exprs
  <2> QED
    BY <2>3
<1>2. c.do \in InnerCalls \cup EndCalls \cup Outer
  BY CallForms
<1>3. /\ c.do = "arguments" => c.arg \in Nat
      /\ c.do \in {"forget", "condition"} => c.arg = 1
      /\ c.do = "loop" => c.arg = 3
  BY CallForms
<1> QED
  BY <1>1, <1>2, <1>3 DEF Uses, Gives, InnerCalls, EndCalls, Outer

(* The operands of an expression. *)
LEMMA OperandFacts ==
  ASSUME NEW p \in Programs, NEW e \in Exprs(p)
  PROVE  /\ e.kind \in ExprKinds /\ e.kind # "NONE" /\ e # None
         /\ e.sub \in Seq(Exprs(p)) /\ Len(e.sub) \in Nat
         /\ e.kind = "ID" => Len(e.sub) = 0
         /\ e.kind = "ASSIGN" => Len(e.sub) = 2
<1>1. ExprOK(e, p)
  BY ProgramsAssumption DEF Exprs
<1>2. e.kind \in ExprKinds /\ e.sub \in Seq(Exprs(p))
  BY <1>1 DEF ExprOK, Exprs
<1>3. e.kind = "ID" => Len(e.sub) = 0
  BY <1>1 DEF ExprOK, Leaf
<1>4. e.kind = "ASSIGN" => Len(e.sub) = 2
  BY <1>1 DEF ExprOK
<1>5. e.kind # "NONE"
  BY <1>2 DEF ExprKinds, Arithmetic, Comparison, Logical, Step, Leaf, Literal
<1>6. None.kind = "NONE"
  BY DEF None, Node
<1> QED
  BY <1>2, <1>3, <1>4, <1>5, <1>6

(* An assignment to a variable. *)
LEMMA VariableFacts ==
  ASSUME NEW p \in Programs, NEW c \in Calls(p), ToVariable(c)
  PROVE  /\ c.arg \in Exprs(p) /\ Uses(c) = 2 /\ Gives(c) = 1
         /\ c.arg.sub[1] \in Exprs(p) /\ c.arg.sub[1].kind = "ID"
         /\ Len(c.arg.sub[1].sub) = 0
<1>1. c.do = "node" /\ c.arg.kind = "ASSIGN" /\ c.arg.sub[1].kind = "ID"
  BY DEF ToVariable
<1>2. c.arg \in Exprs(p)
  BY <1>1, CallForms
<1>3. c.arg.sub \in Seq(Exprs(p)) /\ Len(c.arg.sub) = 2
  BY <1>1, <1>2, OperandFacts
<1>4. c.arg.sub[1] \in Exprs(p)
  BY <1>3
<1> QED
  BY <1>1, <1>2, <1>3, <1>4, OperandFacts, CallCounts

(* A function of positions is a sequence. *)
LEMMA Listed ==
  ASSUME NEW S, NEW m \in Nat, NEW f \in [1 .. m -> S]
  PROVE  f \in Seq(S) /\ Len(f) = m /\ DOMAIN f = 1 .. m
OBVIOUS

-----------------------------------------------------------------------------
(***************************************************************************)
(* A call that returns.                                                    *)
(***************************************************************************)

(* The types r may be what the call c returns. *)
MayReturn(tys, c, r) ==
  /\ c.do = "expr" => c.arg = None
  /\ c.do = "node" /\ c.arg.kind = "ID" /\ r[1][1] = "AUTO" =>
       c.arg.val \in DOMAIN tys /\ tys[c.arg.val].kind = "AUTO"
  /\ Len(r) = 1 /\ Tainted(r[1]) =>
       \/ \E d \in DOMAIN tys : Explains(tys, d)
       \/ c.do = "expr" /\ r[1] = NULL

WalksTo(p, tys, td, vs, c) ==
  \E h1 \in Seq(Nat), b1 \in Nat : Walk(p, tys, td, vs, h1, b1) /\ b1 = c

(* The walk goes on with the calls that remain. *)
LEMMA PopWalk ==
  ASSUME NEW p \in Programs, NEW tys, NEW td, NEW vs, NEW h \in Seq(Nat), NEW b \in Nat,
         Walk(p, tys, td, vs, h, b), b # 0,
         NEW r \in Seq(TypeWords), Len(r) = Gives(td[1]), MayReturn(tys, td[1], r)
  PROVE  WalksTo(p, tys, Tail(td), SubSeq(vs, 1, Len(vs) - Uses(td[1])) \o r, b - 1)
<1>0. SUFFICES
      ASSUME td[1].do = "expr" => td[1].arg = None,
             td[1].do = "node" /\ td[1].arg.kind = "ID" /\ r[1][1] = "AUTO" =>
               td[1].arg.val \in DOMAIN tys /\ tys[td[1].arg.val].kind = "AUTO",
             Len(r) = 1 /\ Tainted(r[1]) =>
               \/ \E c \in DOMAIN tys : Explains(tys, c)
               \/ td[1].do = "expr" /\ r[1] = NULL
      PROVE  \E h1 \in Seq(Nat), b1 \in Nat :
               /\ Walk(p, tys, Tail(td), SubSeq(vs, 1, Len(vs) - Uses(td[1])) \o r, h1, b1)
               /\ b1 = b - 1
  BY DEF MayReturn, WalksTo
<1>1. PICK n \in Nat, m \in Nat \ {0} :
        n = Len(vs) /\ m = Len(td) /\ DOMAIN td = 1 .. m /\ b \in 1 .. m
  <2>1. vs \in Seq(TypeWords) /\ td \in Seq(Calls(p)) /\ b \in 0 .. Len(td)
    BY DEF Walk, Heights
  <2>2. Len(vs) \in Nat /\ Len(td) \in Nat /\ DOMAIN td = 1 .. Len(td)
    BY ONLY <2>1, LenProperties, Zenon
  <2>3. Len(td) # 0 /\ b \in 1 .. Len(td)
    BY <2>1, <2>2
  <2> QED
    BY <2>2, <2>3
<1>2. \A k \in 1 .. m : td[k] \in Calls(p)
  BY <1>1 DEF Walk
<1>3. PICK u \in Nat : u = Uses(td[1])
  BY <1>1, <1>2, CallCounts
<1>4. PICK g \in {0, 1} : g = Gives(td[1]) /\ g = Len(r)
  BY <1>1, <1>2, CallCounts
<1>5. /\ \A k \in 1 .. m + 1 : h[k] \in Nat
      /\ h[1] = n /\ h[b + 1] = 0
      /\ \A k \in 1 .. m : /\ h[k] >= Uses(td[k])
                           /\ h[k + 1] = h[k] - Uses(td[k]) + Gives(td[k])
      /\ \A k \in 1 .. b - 1 : td[k].do \in InnerCalls
      /\ td[b].do \in EndCalls
      /\ \A k \in b + 1 .. m : td[k].do \in Outer
  <2>1. Heights(td, n, h, b)
    BY <1>1 DEF Walk
  <2> QED
    BY <2>1, <1>1 DEF Heights
<1>6. n >= u /\ h[2] = n - u + g /\ n - u \in Nat
  <2>1. 1 \in 1 .. m
    BY <1>1
  <2> QED
    <3>1. h[1] = n /\ h[1] >= Uses(td[1]) /\ h[1 + 1] = h[1] - Uses(td[1]) + Gives(td[1])
      BY <2>1, <1>5
    <3> QED
      BY ONLY <3>1, <1>3, <1>4, n \in Nat, u \in Nat
<1>7. PICK t : t = Tail(td)
  OBVIOUS
<1>8. /\ t \in Seq(Calls(p)) /\ Len(t) = m - 1 /\ m - 1 \in Nat
      /\ \A k \in 1 .. m - 1 : t[k] = td[k + 1]
  <2>1. td \in Seq(Calls(p)) /\ td # <<>>
    BY <1>1 DEF Walk
  <2> QED
    BY <2>1, <1>1, <1>7
<1>9. PICK w : w = SubSeq(vs, 1, Len(vs) - Uses(td[1])) \o r
  OBVIOUS
<1>10. /\ w \in Seq(TypeWords) /\ Len(w) = n - u + g
       /\ \A q \in 1 .. n - u : w[q] = vs[q]
       /\ g = 1 => w[n - u + 1] = r[1]
  <2>1. PICK x : x = SubSeq(vs, 1, n - u)
    OBVIOUS
  <2>2. \A q \in 1 .. n - u : q \in 1 .. n
    BY <1>6
  <2>3. x \in Seq(TypeWords) /\ Len(x) = n - u /\ \A q \in 1 .. n - u : x[q] = vs[q]
    <3>1. vs \in Seq(TypeWords)
      BY DEF Walk
    <3> QED
      BY <2>1, <2>2, <3>1, <1>1, <1>6
  <2>4. w = x \o r
    BY <1>1, <1>3, <1>9, <2>1
  <2>5. PICK l \in Nat : l = n - u
    BY <1>6
  <2>6. x \in Seq(TypeWords) /\ Len(x) = l /\ r \in Seq(TypeWords) /\ Len(r) = g
    BY <2>3, <2>5, <1>4
  <2>7. /\ w \in Seq(TypeWords) /\ Len(w) = l + g
        /\ \A q \in 1 .. l : w[q] = x[q]
        /\ g = 1 => w[l + 1] = r[1]
    BY ONLY <2>4, <2>6, l \in Nat, g \in {0, 1}
  <2> QED
    BY ONLY <2>3, <2>5, <2>7
<1>11. PICK h1 \in Seq(Nat) : Len(h1) = m /\ \A k \in 1 .. m : h1[k] = h[k + 1]
  <2> DEFINE f == [k \in 1 .. m |-> h[k + 1]]
  <2>1. \A k \in 1 .. m : h[k + 1] \in Nat
    BY <1>5
  <2>2. f \in [1 .. m -> Nat] /\ \A k \in 1 .. m : f[k] = h[k + 1]
    BY <2>1
  <2> HIDE DEF f
  <2> QED
    BY <2>2, Listed
<1>12. PICK b1 \in Nat : b1 = b - 1 /\ b1 \in 0 .. m - 1 /\ b1 + 1 = b
  BY <1>1
<1>13. Heights(t, Len(w), h1, b1)
  <2>1. h1 \in [1 .. Len(t) + 1 -> Nat]
    BY <1>8, <1>11
  <2>2. h1[1] = Len(w) /\ b1 \in 0 .. Len(t)
    BY <1>1, <1>6, <1>8, <1>10, <1>11, <1>12
  <2>3. h1[b1 + 1] = 0
    BY <1>1, <1>5, <1>11, <1>12
  <2>4. \A k \in 1 .. m - 1 : /\ h1[k] >= Uses(t[k])
                              /\ h1[k + 1] = h1[k] - Uses(t[k]) + Gives(t[k])
    <3>1. \A k \in 1 .. m - 1 : k \in 1 .. m /\ k + 1 \in 1 .. m
      OBVIOUS
    <3> QED
      BY <3>1, <1>5, <1>8, <1>11
  <2>5. /\ \A k \in 1 .. b1 - 1 : t[k].do \in InnerCalls
        /\ b1 > 0 => t[b1].do \in EndCalls
        /\ \A k \in b1 + 1 .. m - 1 : t[k].do \in Outer
    <3>1. \A k \in 1 .. b1 - 1 : k \in 1 .. m - 1 /\ k + 1 \in 1 .. b - 1
      BY <1>1, <1>12
    <3>2. \A k \in b1 + 1 .. m - 1 : k \in 1 .. m - 1 /\ k + 1 \in b + 1 .. m
      BY <1>1, <1>12
    <3>3. b1 > 0 => b1 \in 1 .. m - 1
      BY <1>12
    <3> QED
      BY <3>1, <3>2, <3>3, <1>5, <1>8, <1>12
  <2> QED
    BY <2>1, <2>2, <2>3, <2>4, <2>5, <1>8 DEF Heights
<1>14. \A k \in 1 .. b1 : k \in 1 .. m - 1 /\ k \in 1 .. m /\ k + 1 \in 1 .. b /\ k + 1 \in 2 .. b
  BY <1>1, <1>12
<1>15. \A k \in 1 .. b1 - 1 : k \in 1 .. b1 /\ k + 1 \in 1 .. b - 1
  BY <1>12
<1>24. \A k \in 1 .. b1 - 1 :
         /\ h1[k] = h[k + 1] /\ h[k + 1] \in Nat /\ t[k] = td[k + 1]
         /\ k \in 1 .. m /\ k + 1 \in 1 .. m /\ k + 1 \in 1 .. m + 1
  <2>1. \A k \in 1 .. b1 - 1 : k \in 1 .. m - 1 /\ k \in 1 .. m /\ k + 1 \in 1 .. m /\ k + 1 \in 1 .. m + 1
    BY <1>1, <1>12
  <2> QED
    BY <2>1, <1>5, <1>8, <1>11
<1>16. b1 # 0 => t[b1] = td[b] /\ b - 1 >= 1
  <2>1. b1 # 0 => b1 \in 1 .. m - 1
    BY <1>12
  <2> QED
    BY <2>1, <1>8, <1>12
<1>17. Absent(t, h1, b1)
  <2>1. SUFFICES ASSUME NEW k \in 1 .. b1 - 1, t[k] = Do("expr", None)
                 PROVE  /\ t[b1].do \in Lenient
                        /\ \A j \in k + 1 .. b1 - 1 : t[j].do = "expr" /\ h1[j] > h1[k]
    BY DEF Absent
  <2>2. td[k + 1] = Do("expr", None) /\ k + 1 \in 1 .. b - 1
    BY <2>1, <1>8, <1>14, <1>15
  <2>3. /\ td[b].do \in Lenient
        /\ \A j \in (k + 1) + 1 .. b - 1 : td[j].do = "expr" /\ h[j] > h[k + 1]
    BY <2>2 DEF Walk, Absent
  <2>4. \A j \in k + 1 .. b1 - 1 : j \in 1 .. b1 - 1 /\ j + 1 \in (k + 1) + 1 .. b - 1
    BY <1>12
  <2>5. b1 # 0
    BY <1>12
  <2> QED
    BY <2>3, <2>4, <2>5, <1>8, <1>11, <1>14, <1>15, <1>16
(* Either an assignment has been reached, or its variable has now been.    *)
<1>18. ASSUME NEW j \in 1 .. b1 - 1, ToVariable(t[j])
       PROVE  \/ /\ h[j + 1] <= n + 1 /\ h[j + 1] - 1 \in 1 .. n - u
                 /\ \A i \in 1 .. j : h[i] - Uses(td[i]) >= h[j + 1] - 1
                 /\ vs[h[j + 1] - 1][1] = "AUTO" =>
                      Variable(t[j]) \in DOMAIN tys /\ tys[Variable(t[j])].sub = 0
              \/ /\ h[j + 1] = n + 2 /\ j = 2 /\ u = 0 /\ g = 1
                 /\ Uses(t[1]) = 0 /\ h1[1] = n + 1
                 /\ r[1][1] = "AUTO" =>
                      Variable(t[j]) \in DOMAIN tys /\ tys[Variable(t[j])].kind = "AUTO"
  <2>1. t[j] = td[j + 1] /\ j + 1 \in 1 .. b - 1 /\ j + 1 \in 1 .. m /\ j + 1 # 1
    <3>1. t[j] = td[j + 1] /\ j + 1 \in 1 .. m
      BY <1>24
    <3>2. j + 1 \in 1 .. b - 1
      BY <1>15
    <3>3. j + 1 # 1
      OBVIOUS
    <3> QED
      BY ONLY <3>1, <3>2, <3>3
  <2>2. \/ /\ h[j + 1] = n + 2 /\ j + 1 = 3
           /\ td[1] \in {Do("expr", td[j + 1].arg.sub[1]), Do("node", td[j + 1].arg.sub[1])}
           /\ td[2].do = "expr"
        \/ /\ h[j + 1] <= n + 1
           /\ \A i \in 1 .. (j + 1) - 1 : h[i] - Uses(td[i]) >= h[j + 1] - 1
           /\ vs[h[j + 1] - 1][1] = "AUTO" =>
                Variable(td[j + 1]) \in DOMAIN tys /\ tys[Variable(td[j + 1])].sub = 0
    BY <2>1, <1>1, <1>18 DEF Walk, Assigns
  <2>3. /\ Uses(td[j + 1]) = 2 /\ td[j + 1].arg.sub[1] \in Exprs(p)
        /\ td[j + 1].arg.sub[1].kind = "ID" /\ Len(td[j + 1].arg.sub[1].sub) = 0
    BY <2>1, <1>2, <1>18, VariableFacts
  <2>4. CASE /\ h[j + 1] = n + 2 /\ j + 1 = 3
             /\ td[1] \in {Do("expr", td[j + 1].arg.sub[1]), Do("node", td[j + 1].arg.sub[1])}
             /\ td[2].do = "expr"
    <3>1. td[1] # Do("expr", td[j + 1].arg.sub[1])
      <4>1. td[j + 1].arg.sub[1] # None
        BY <2>3, OperandFacts
      <4> QED
        BY <4>1, <1>0 DEF Do
    <3>2. /\ td[1].do = "node" /\ td[1].arg = td[j + 1].arg.sub[1]
      BY <3>1, <2>4 DEF Do
    <3>3. u = 0 /\ g = 1
      <4>1. td[1] \in Calls(p)
        BY <1>1, <1>2
      <4> QED
        BY <4>1, <3>2, <2>3, <1>3, <1>4, CallCounts
    <3>4. t[1] = td[2] /\ td[2] \in Calls(p)
      BY <2>1, <2>4, <1>2, <1>8
    <3>5. Uses(t[1]) = 0
      BY <3>4, <2>4, CallCounts
    <3>6. h1[1] = n + 1
      BY <3>3, <1>1, <1>6, <1>11
    <3>7. r[1][1] = "AUTO" =>
            Variable(t[j]) \in DOMAIN tys /\ tys[Variable(t[j])].kind = "AUTO"
      BY <3>2, <2>1, <2>3, <1>0 DEF Variable
    <3> QED
      BY <3>3, <3>5, <3>6, <3>7, <2>4
  <2>5. CASE /\ h[j + 1] <= n + 1
             /\ \A i \in 1 .. (j + 1) - 1 : h[i] - Uses(td[i]) >= h[j + 1] - 1
             /\ vs[h[j + 1] - 1][1] = "AUTO" =>
                  Variable(td[j + 1]) \in DOMAIN tys /\ tys[Variable(td[j + 1])].sub = 0
    <3>1. h[j + 1] \in Nat /\ h[j + 1] >= 2
      <4>1. h[j + 1] >= Uses(td[j + 1])
        BY <2>1, <1>5
      <4> QED
        BY <4>1, <2>3, <1>24
    <3>2. 1 \in 1 .. (j + 1) - 1 /\ (j + 1) - 1 = j
      OBVIOUS
    <3>3. n - u >= h[j + 1] - 1
      BY <2>5, <3>2, <1>3, <1>5
    <3>4. h[j + 1] - 1 \in 1 .. n - u
      <4>1. PICK q \in Nat : q = h[j + 1]
        BY <3>1
      <4>2. q >= 2 /\ n - u >= q - 1
        BY <4>1, <3>1, <3>3
      <4>3. q - 1 \in 1 .. n - u
        BY <4>2, <1>6
      <4> QED
        BY <4>1, <4>3
    <3> QED
      BY <3>2, <3>4, <2>1, <2>5
  <2> QED
    BY <2>2, <2>4, <2>5
<1>19. Assigns(tys, t, w, h1, b1)
  <2>1. SUFFICES ASSUME NEW j \in 1 .. b1 - 1, ToVariable(t[j])
                 PROVE  /\ h1[j] <= Len(w) + 1
                        /\ \A i \in 1 .. j - 1 : h1[i] - Uses(t[i]) >= h1[j] - 1
                        /\ w[h1[j] - 1][1] = "AUTO" =>
                             Variable(t[j]) \in DOMAIN tys /\ tys[Variable(t[j])].sub = 0
    BY DEF Assigns
  <2>2. h1[j] = h[j + 1] /\ h[j + 1] \in Nat
    BY <1>24
  <2>3. CASE /\ h[j + 1] <= n + 1 /\ h[j + 1] - 1 \in 1 .. n - u
             /\ \A i \in 1 .. j : h[i] - Uses(td[i]) >= h[j + 1] - 1
             /\ vs[h[j + 1] - 1][1] = "AUTO" =>
                  Variable(t[j]) \in DOMAIN tys /\ tys[Variable(t[j])].sub = 0
    <3>1. \A i \in 1 .. j - 1 : i + 1 \in 1 .. j /\ i \in 1 .. m - 1 /\ i \in 1 .. m
      BY <1>12
    <3>2. \A i \in 1 .. j - 1 : h1[i] = h[i + 1] /\ t[i] = td[i + 1]
      BY <3>1, <1>8, <1>11
    <3>3. w[h1[j] - 1] = vs[h[j + 1] - 1]
      <4>1. PICK q \in Nat : q = h[j + 1]
        BY <2>2
      <4>2. q - 1 \in 1 .. n - u /\ h1[j] = q
        BY <4>1, <2>2, <2>3
      <4>3. w[q - 1] = vs[q - 1]
        BY <4>2, <1>10
      <4> QED
        BY <4>1, <4>2, <4>3
    <3>4. h1[j] <= Len(w) + 1
      <4>1. PICK q \in Nat : q = h[j + 1]
        BY <2>2
      <4>2. q <= n - u + g + 1
        <5>1. q - 1 \in 1 .. n - u
          BY <4>1, <2>3
        <5> QED
          BY ONLY <5>1, <1>6, n \in Nat, u \in Nat, g \in {0, 1}, q \in Nat
      <4> QED
        BY <4>1, <4>2, <2>2, <1>10
    <3> QED
      BY <3>1, <3>2, <3>3, <3>4, <2>2, <2>3
  <2>4. CASE /\ h[j + 1] = n + 2 /\ j = 2 /\ u = 0 /\ g = 1
             /\ Uses(t[1]) = 0 /\ h1[1] = n + 1
             /\ r[1][1] = "AUTO" =>
                  Variable(t[j]) \in DOMAIN tys /\ tys[Variable(t[j])].kind = "AUTO"
    <3>1. \A i \in 1 .. j - 1 : h1[i] - Uses(t[i]) >= h1[j] - 1
      <4>1. \A i \in 1 .. j - 1 : i = 1
        BY <2>4
      <4> QED
        BY <4>1, <2>2, <2>4
    <3>2. h1[j] <= Len(w) + 1 /\ w[h1[j] - 1] = r[1]
      BY <2>2, <2>4, <1>10
    <3>3. \A c \in DOMAIN tys : tys[c].kind = "AUTO" => tys[c].sub = 0
      BY TableFacts DEF Walk, Simple
    <3> QED
      BY <3>1, <3>2, <3>3, <2>4
  <2> QED
    BY <2>1, <2>3, <2>4, <1>18
<1>20. ASSUME NEW j \in 1 .. b1 - 1, NEW c, Explains(tys, c), Overwrites(t, w, h1, j, c)
       PROVE  Overwrites(td, vs, h, j + 1, c)
  <2>1. t[j] = td[j + 1] /\ h1[j] = h[j + 1] /\ h[j + 1] \in Nat
    BY <1>24
  <2>2. ToVariable(t[j]) /\ w[h[j + 1] - 1][1] = "AUTO" /\ Variable(t[j]) = c
    BY <2>1, <1>20 DEF Overwrites
  <2>3. CASE h[j + 1] <= n + 1 /\ h[j + 1] - 1 \in 1 .. n - u
    <3>1. w[h[j + 1] - 1] = vs[h[j + 1] - 1]
      BY <2>3, <1>10
    <3> QED
      BY <3>1, <2>1, <2>2, <2>3, <1>1 DEF Overwrites
  <2>4. CASE /\ h[j + 1] = n + 2 /\ u = 0 /\ g = 1
             /\ r[1][1] = "AUTO" => tys[Variable(t[j])].kind = "AUTO"
    <3>1. w[h[j + 1] - 1] = r[1]
      BY <2>4, <1>10
    <3>2. tys[c].kind = "AUTO"
      BY <3>1, <2>2, <2>4
    <3> QED
      BY <3>2, <1>20 DEF Explains
  <2> QED
    BY <2>2, <2>3, <2>4, <1>18
<1>21. ValuesExplained(tys, t, w, h1, b1)
  <2>1. SUFFICES ASSUME NEW q \in 1 .. n - u + g, Tainted(w[q])
                 PROVE  \/ /\ w[q] = NULL /\ b1 > 0 /\ t[b1].do \in Lenient
                           /\ \A k \in 1 .. b1 - 1 : h1[k] - Uses(t[k]) >= q
                        \/ \E c \in DOMAIN tys :
                             /\ Explains(tys, c)
                             /\ \A j \in 1 .. b1 - 1 :
                                  Overwrites(t, w, h1, j, c) => h1[j] - 1 <= q
    BY <1>10 DEF ValuesExplained
  <2>2. CASE q \in 1 .. n - u
    <3>1. w[q] = vs[q] /\ q \in 1 .. Len(vs)
      BY <2>2, <1>1, <1>6, <1>10
    <3>2. \/ /\ vs[q] = NULL /\ td[b].do \in Lenient
             /\ \A k \in 1 .. b - 1 : h[k] - Uses(td[k]) >= q
          \/ \E c \in DOMAIN tys :
               /\ Explains(tys, c)
               /\ \A j \in 1 .. b - 1 : Overwrites(td, vs, h, j, c) => h[j] - 1 <= q
      BY <3>1, <2>1 DEF Walk, ValuesExplained
    <3>3. b1 # 0
      <4>1. b = 1 => h[2] = 0
        BY <1>5
      <4> QED
        BY <4>1, <2>2, <1>4, <1>6, <1>12
    <3>4. CASE vs[q] = NULL /\ td[b].do \in Lenient
               /\ \A k \in 1 .. b - 1 : h[k] - Uses(td[k]) >= q
      <4>1. \A k \in 1 .. b1 - 1 : h1[k] - Uses(t[k]) >= q
        BY <3>4, <1>8, <1>11, <1>14, <1>15
      <4> QED
        BY <4>1, <3>1, <3>3, <3>4, <1>12, <1>16
    <3>5. ASSUME NEW c \in DOMAIN tys, Explains(tys, c),
                 \A j \in 1 .. b - 1 : Overwrites(td, vs, h, j, c) => h[j] - 1 <= q
          PROVE  \A j \in 1 .. b1 - 1 : Overwrites(t, w, h1, j, c) => h1[j] - 1 <= q
      BY <3>5, <1>11, <1>14, <1>15, <1>20
    <3> QED
      BY <3>2, <3>4, <3>5
  <2>3. CASE q \notin 1 .. n - u
    <3>1. g = 1 /\ q = n - u + 1 /\ w[q] = r[1]
      BY <2>3, <2>1, <1>6, <1>10
    <3>2. \/ \E c \in DOMAIN tys : Explains(tys, c)
          \/ td[1].do = "expr" /\ r[1] = NULL
      BY <3>1, <2>1, <1>4, <1>0
    <3>3. ASSUME NEW c \in DOMAIN tys, Explains(tys, c)
          PROVE  \A j \in 1 .. b1 - 1 : Overwrites(t, w, h1, j, c) => h1[j] - 1 <= q
      <4> TAKE j \in 1 .. b1 - 1
      <4>2. PICK x \in Nat : x = h1[j]
        BY <1>24
      <4>3. Overwrites(t, w, h1, j, c) => x <= n - u + g + 1
        BY <4>2, <1>10 DEF Overwrites
      <4> QED
        BY <4>2, <4>3, <3>1
    <3>4. CASE td[1].do = "expr" /\ r[1] = NULL
      <4>1. td[1] \in Calls(p) /\ td[1] = Do("expr", None)
        BY <3>4, <1>0, <1>1, <1>2, CallForms
      <4>2. b # 1
        BY <3>4, <1>5 DEF EndCalls
      <4>3. 1 \in 1 .. b - 1
        BY <4>2, <1>1
      <4>4. /\ td[b].do \in Lenient
            /\ \A j \in 2 .. b - 1 : td[j].do = "expr" /\ h[j] > n
        <5>1. Absent(td, h, b)
          BY DEF Walk
        <5>2. /\ td[b].do \in Lenient
              /\ \A j \in 1 + 1 .. b - 1 : td[j].do = "expr" /\ h[j] > h[1]
          BY <5>1, <4>1, <4>3 DEF Absent
        <5>3. h[1] = n
          BY <1>5
        <5> QED
          BY ONLY <5>2, <5>3
      <4>5. u = 0
        BY <4>1, <3>4, <1>3, CallCounts
      <4>6. \A k \in 1 .. b1 - 1 : h1[k] - Uses(t[k]) >= q
        <5>1. \A k \in 1 .. b1 - 1 : k + 1 \in 2 .. b - 1 /\ k + 1 \in 1 .. m
          BY <1>12
        <5>2. \A k \in 1 .. b1 - 1 : td[k + 1] \in Calls(p) /\ td[k + 1].do = "expr"
          BY <5>1, <4>4, <1>2
        <5>3. \A k \in 1 .. b1 - 1 : Uses(td[k + 1]) = 0
          BY <5>2, CallCounts
        <5>4. \A k \in 1 .. b1 - 1 : h1[k] = h[k + 1] /\ h[k + 1] \in Nat /\ h[k + 1] > n
          BY <5>1, <4>4, <1>24
        <5>5. SUFFICES ASSUME NEW k \in 1 .. b1 - 1 PROVE h1[k] - Uses(t[k]) >= q
          OBVIOUS
        <5>6. PICK x \in Nat : x = h1[k] /\ x > n
          BY <5>4
        <5>7. Uses(t[k]) = 0
          BY <5>3, <1>24
        <5> QED
          BY <5>6, <5>7, <4>5, <3>1
      <4>7. b1 # 0
        BY <4>2, <1>12
      <4> QED
        BY <4>4, <4>6, <4>7, <3>1, <3>4, <1>12, <1>16
    <3> QED
      BY <3>2, <3>3, <3>4
  <2> QED
    BY <2>2, <2>3
<1>22. CopiesExplained(tys, t, w, h1, b1)
  <2>1. SUFFICES ASSUME NEW k \in 1 .. b1 - 1, \E x \in Copied(t[k]) : Tainted(x)
                 PROVE  \E c \in DOMAIN tys :
                          /\ Explains(tys, c)
                          /\ \A j \in 1 .. k - 1 : ~ Overwrites(t, w, h1, j, c)
    BY DEF CopiesExplained
  <2>2. t[k] = td[k + 1] /\ k + 1 \in 1 .. b - 1
    BY <1>8, <1>14, <1>15
  <2>3. PICK c \in DOMAIN tys :
          /\ Explains(tys, c)
          /\ \A j \in 1 .. (k + 1) - 1 : ~ Overwrites(td, vs, h, j, c)
    BY <2>1, <2>2 DEF Walk, CopiesExplained
  <2>4. \A j \in 1 .. k - 1 : j \in 1 .. b1 - 1 /\ j + 1 \in 1 .. (k + 1) - 1
    BY <1>12
  <2> QED
    BY <2>3, <2>4, <1>20
<1>23. Walk(p, tys, t, w, h1, b1)
  BY <1>8, <1>10, <1>13, <1>17, <1>19, <1>21, <1>22 DEF Walk
<1> QED
  BY <1>7, <1>9, <1>12, <1>23

-----------------------------------------------------------------------------
(***************************************************************************)
(* A call that makes other calls.                                          *)
(***************************************************************************)

(* In place of the call c there are l others.  g[k] is the number of types *)
(* there are when call k of them begins.                                   *)
Pushes(p, tys, c, n, calls, l, g) ==
  /\ calls \in Seq(Calls(p)) /\ l \in Nat \ {0} /\ Len(calls) = l
  /\ \A k \in 1 .. l + 1 : g[k] \in Nat
  /\ g[1] = n /\ g[l + 1] = n + 1
  /\ \A k \in 1 .. l : /\ calls[k].do \in InnerCalls
                       /\ calls[k] # Do("expr", None)
                       /\ g[k] >= Uses(calls[k])
                       /\ g[k] - Uses(calls[k]) >= n
                       /\ g[k + 1] = g[k] - Uses(calls[k]) + Gives(calls[k])
  /\ \A k \in 1 .. l : ToVariable(calls[k]) =>
       /\ k = 3 /\ l = 3 /\ g[3] = n + 2
       /\ calls[1] = Do("expr", calls[3].arg.sub[1]) /\ calls[2].do = "expr"
  /\ c.do = "expr" /\ c.arg.kind = "ID" => calls = <<Do("node", c.arg)>>
  /\ \A k \in 1 .. l : (\E w \in Copied(calls[k]) : Tainted(w)) =>
       \E d \in DOMAIN tys : Explains(tys, d)

Walks(p, tys, td, vs) == \E h1 \in Seq(Nat), b1 \in Nat : Walk(p, tys, td, vs, h1, b1)

(* Such calls continue a walk. *)
LEMMA PushWalk ==
  ASSUME NEW p \in Programs, NEW tys, NEW td, NEW vs, NEW h \in Seq(Nat), NEW b \in Nat,
         Walk(p, tys, td, vs, h, b), td # <<>>, td[1].do \in {"expr", "call"},
         NEW calls \in Seq(Calls(p)), NEW l \in Nat \ {0}, NEW g,
         Pushes(p, tys, td[1], Len(vs), calls, l, g)
  PROVE  Walks(p, tys, calls \o Tail(td), vs)
<1>0. SUFFICES
      ASSUME Len(calls) = l,
             \A k \in 1 .. l + 1 : g[k] \in Nat,
             g[1] = Len(vs), g[l + 1] = Len(vs) + 1,
             \A k \in 1 .. l : /\ calls[k].do \in InnerCalls
                               /\ calls[k] # Do("expr", None)
                               /\ g[k] >= Uses(calls[k])
                               /\ g[k] - Uses(calls[k]) >= Len(vs)
                               /\ g[k + 1] = g[k] - Uses(calls[k]) + Gives(calls[k]),
             \A k \in 1 .. l : ToVariable(calls[k]) =>
               /\ k = 3 /\ l = 3 /\ g[3] = Len(vs) + 2
               /\ calls[1] = Do("expr", calls[3].arg.sub[1]) /\ calls[2].do = "expr",
             td[1].do = "expr" /\ td[1].arg.kind = "ID" => calls = <<Do("node", td[1].arg)>>,
             \A k \in 1 .. l : (\E w \in Copied(calls[k]) : Tainted(w)) =>
               \E c \in DOMAIN tys : Explains(tys, c)
      PROVE  \E h1 \in Seq(Nat), b1 \in Nat : Walk(p, tys, calls \o Tail(td), vs, h1, b1)
  BY DEF Pushes, Walks
<1>1. PICK n \in Nat, m \in Nat \ {0} : n = Len(vs) /\ m = Len(td) /\ DOMAIN td = 1 .. m
  <2>1. vs \in Seq(TypeWords) /\ td \in Seq(Calls(p))
    BY DEF Walk
  <2>2. Len(vs) \in Nat /\ Len(td) \in Nat /\ DOMAIN td = 1 .. Len(td)
    BY ONLY <2>1, LenProperties, Zenon
  <2>3. Len(td) # 0
    BY <2>1, <2>2, EmptySeq
  <2> QED
    BY <2>2, <2>3
<1>2. \A k \in 1 .. m : td[k] \in Calls(p)
  BY <1>1 DEF Walk
<1>3. /\ \A k \in 1 .. m + 1 : h[k] \in Nat
      /\ h[1] = n /\ h[b + 1] = 0 /\ b \in 0 .. m
      /\ \A k \in 1 .. m : /\ h[k] >= Uses(td[k])
                           /\ h[k + 1] = h[k] - Uses(td[k]) + Gives(td[k])
      /\ \A k \in 1 .. b - 1 : td[k].do \in InnerCalls
      /\ b > 0 => td[b].do \in EndCalls
      /\ \A k \in b + 1 .. m : td[k].do \in Outer
  BY <1>1 DEF Walk, Heights
<1>4. b \in 2 .. m
  <2>1. b # 0
    <3>1. SUFFICES ASSUME b = 0 PROVE FALSE
      OBVIOUS
    <3>2. 1 \in b + 1 .. m
      BY <3>1, <1>1
    <3>3. td[1].do \in Outer
      BY <3>2, <1>3
    <3> QED
      BY <3>3 DEF Outer
  <2>2. b # 1
    BY <1>3 DEF EndCalls
  <2> QED
    BY <2>1, <2>2, <1>3
<1>5. h[2] = n + 1
  <2>1. 1 \in 1 .. m
    BY <1>1
  <2>2. Uses(td[1]) = 0 /\ Gives(td[1]) = 1
    BY <2>1, <1>2, CallCounts
  <2> QED
    BY <2>1, <2>2, <1>3
<1>6. /\ \A k \in 1 .. l + 1 : g[k] \in Nat
      /\ g[1] = n /\ g[l + 1] = n + 1
      /\ \A k \in 1 .. l : /\ calls[k].do \in InnerCalls
                           /\ calls[k] # Do("expr", None)
                           /\ g[k] >= Uses(calls[k])
                           /\ g[k] - Uses(calls[k]) >= n
                           /\ g[k + 1] = g[k] - Uses(calls[k]) + Gives(calls[k])
  BY <1>0, <1>1
<1>7. PICK s \in Nat : s = l - 1
  OBVIOUS
<1>8. PICK t : t = calls \o Tail(td)
  OBVIOUS
<1>9. /\ t \in Seq(Calls(p)) /\ Len(t) = m + s
      /\ \A k \in 1 .. l : t[k] = calls[k]
      /\ \A k \in l + 1 .. m + s : t[k] = td[k - s]
  <2>1. td \in Seq(Calls(p))
    BY DEF Walk
  <2>2. PICK y : y = Tail(td)
    OBVIOUS
  <2>3. y \in Seq(Calls(p)) /\ Len(y) = m - 1 /\ \A k \in 1 .. m - 1 : y[k] = td[k + 1]
    <3>1. y \in Seq(Calls(p)) /\ Len(y) = m - 1
      BY <2>1, <2>2, <1>1, HeadTailProperties
    <3>2. \A k \in 1 .. m - 1 : y[k] = td[k + 1]
      BY <2>1, <2>2, <1>1
    <3> QED
      BY <3>1, <3>2
  <2>4. /\ calls \o y \in Seq(Calls(p)) /\ Len(calls \o y) = l + (m - 1)
        /\ \A k \in 1 .. l : (calls \o y)[k] = calls[k]
        /\ \A k \in l + 1 .. l + (m - 1) : (calls \o y)[k] = y[k - l]
    <3>1. m - 1 \in Nat
      BY <1>1
    <3>2. calls \in Seq(Calls(p)) /\ Len(calls) = l /\ l \in Nat
      BY <1>0
    <3>3. /\ calls \o y \in Seq(Calls(p)) /\ Len(calls \o y) = Len(calls) + Len(y)
          /\ \A k \in 1 .. Len(calls) + Len(y) :
               (calls \o y)[k] = IF k <= Len(calls) THEN calls[k] ELSE y[k - Len(calls)]
      BY ONLY <2>3, <3>2, ConcatProperties, Zenon
    <3>4. PICK z : z = calls \o y
      OBVIOUS
    <3>5. /\ z \in Seq(Calls(p)) /\ Len(z) = l + (m - 1)
          /\ \A k \in 1 .. l + (m - 1) : z[k] = IF k <= l THEN calls[k] ELSE y[k - l]
      BY ONLY <2>3, <3>2, <3>3, <3>4, Zenon
    <3>6. /\ \A k \in 1 .. l : k \in 1 .. l + (m - 1) /\ k <= l
          /\ \A k \in l + 1 .. l + (m - 1) : k \in 1 .. l + (m - 1) /\ ~ (k <= l)
      BY ONLY <3>1, <3>2
    <3> QED
      BY ONLY <3>4, <3>5, <3>6
  <2>5. \A k \in l + 1 .. m + s : k - l \in 1 .. m - 1 /\ (k - l) + 1 = k - s
    BY <1>1, <1>7
  <2>6. l + (m - 1) = m + s
    BY <1>1, <1>7
  <2>7. t = calls \o y
    BY <2>2, <1>8
  <2>8. \A k \in l + 1 .. m + s : t[k] = td[k - s]
    <3>1. SUFFICES ASSUME NEW k \in l + 1 .. m + s PROVE t[k] = td[k - s]
      OBVIOUS
    <3>2. t[k] = y[k - l]
      BY <2>4, <2>6, <2>7
    <3>3. y[k - l] = td[(k - l) + 1]
      BY <2>3, <2>5
    <3> QED
      BY <3>2, <3>3, <2>5
  <2> QED
    BY <2>4, <2>6, <2>7, <2>8
<1>10. PICK h1 \in Seq(Nat) :
         /\ h1 \in [1 .. m + s + 1 -> Nat]
         /\ \A k \in 1 .. l : h1[k] = g[k]
         /\ \A k \in l + 1 .. m + s + 1 : h1[k] = h[k - s]
  <2> DEFINE f == [k \in 1 .. m + s + 1 |-> IF k \in 1 .. l THEN g[k] ELSE h[k - s]]
  <2>1. \A k \in 1 .. m + s + 1 : k \notin 1 .. l => k - s \in 1 .. m + 1
    BY <1>1, <1>7
  <2>2. \A k \in 1 .. l : k \in 1 .. l + 1 /\ k \in 1 .. m + s + 1
    BY <1>1, <1>7
  <2>3. \A k \in 1 .. m + s + 1 : (IF k \in 1 .. l THEN g[k] ELSE h[k - s]) \in Nat
    BY <2>1, <2>2, <1>3, <1>6
  <2>4. /\ f \in [1 .. m + s + 1 -> Nat]
        /\ \A k \in 1 .. l : f[k] = g[k]
    BY <2>2, <2>3
  <2>5. \A k \in l + 1 .. m + s + 1 : f[k] = h[k - s]
    <3>1. \A k \in l + 1 .. m + s + 1 : k \notin 1 .. l /\ k \in 1 .. m + s + 1
      BY <1>1, <1>7
    <3> QED
      BY <3>1
  <2>6. m + s + 1 \in Nat
    BY <1>1
  <2> HIDE DEF f
  <2> QED
    BY <2>4, <2>5, <2>6, Listed
<1>11. PICK b1 \in Nat : b1 = b + s
  OBVIOUS
(* The calls that were there before. *)
<1>12. /\ \A k \in l + 1 .. m + s : /\ k - s \in 2 .. m /\ k - s \in 1 .. m /\ k \in l + 1 .. m + s + 1
                                    /\ t[k] = td[k - s] /\ h1[k] = h[k - s]
                                    /\ k + 1 \in l + 1 .. m + s + 1
                                    /\ h1[k + 1] = h[(k - s) + 1]
  <2>1. \A k \in l + 1 .. m + s : /\ k - s \in 2 .. m /\ k - s \in 1 .. m
                                  /\ k \in l + 1 .. m + s + 1
                                  /\ k + 1 \in l + 1 .. m + s + 1
                                  /\ (k + 1) - s = (k - s) + 1
    <3>1. m \in Nat /\ l \in Nat /\ s \in Nat /\ s = l - 1
      BY <1>1, <1>7
    <3> QED
      BY ONLY <3>1
  <2>2. \A k \in l + 1 .. m + s : h1[k + 1] = h[(k + 1) - s]
    BY <2>1, <1>10
  <2>3. \A k \in l + 1 .. m + s : t[k] = td[k - s] /\ h1[k] = h[k - s]
    BY <2>1, <1>9, <1>10
  <2> QED
    BY <2>1, <2>2, <2>3
<1>13. \A k \in 1 .. m + s : k \in 1 .. l \/ k \in l + 1 .. m + s
  BY <1>1
<1>14. h1[l + 1] = n + 1
  <2>1. l + 1 \in l + 1 .. m + s + 1 /\ (l + 1) - s = 2
    BY <1>1, <1>7
  <2>2. h1[l + 1] = h[(l + 1) - s]
    BY <2>1, <1>10
  <2> QED
    BY <2>1, <2>2, <1>5
<1>15. /\ b1 \in l + 1 .. m + s /\ b1 - s = b /\ b1 + 1 \in l + 1 .. m + s + 1
       /\ (b1 + 1) - s = b + 1
       /\ \A k \in 1 .. b1 - 1 : k \in 1 .. m + s
       /\ \A k \in l + 1 .. b1 - 1 : k \in l + 1 .. m + s /\ k - s \in 2 .. b - 1 /\ k - s \in 1 .. b - 1
       /\ \A k \in b1 + 1 .. m + s : k \in l + 1 .. m + s /\ k - s \in b + 1 .. m
       /\ \A k \in 1 .. b1 - 1 : k \in 1 .. l \/ k \in l + 1 .. b1 - 1
  <2>6. /\ l \in Nat /\ l # 0 /\ m \in Nat /\ b \in 2 .. m /\ s \in Nat /\ s = l - 1
        /\ b1 \in Nat /\ b1 = b + s
    BY <1>1, <1>4, <1>7, <1>11
  <2>1. /\ b1 \in l + 1 .. m + s /\ b1 - s = b /\ b1 + 1 \in l + 1 .. m + s + 1
        /\ (b1 + 1) - s = b + 1
    BY ONLY <2>6
  <2>2. \A k \in 1 .. b1 - 1 : k \in 1 .. m + s
    BY ONLY <2>6
  <2>3. \A k \in l + 1 .. b1 - 1 :
          k \in l + 1 .. m + s /\ k - s \in 2 .. b - 1 /\ k - s \in 1 .. b - 1
    BY ONLY <2>6
  <2>4. \A k \in b1 + 1 .. m + s : k \in l + 1 .. m + s /\ k - s \in b + 1 .. m
    BY ONLY <2>6
  <2>5. \A k \in 1 .. b1 - 1 : k \in 1 .. l \/ k \in l + 1 .. b1 - 1
    BY ONLY <2>6
  <2> QED
    BY <2>1, <2>2, <2>3, <2>4, <2>5
<1>16. t[b1] = td[b] /\ h1[b1 + 1] = 0
  <2>1. t[b1] = td[b1 - s] /\ h1[b1 + 1] = h[(b1 + 1) - s]
    BY <1>9, <1>10, <1>15
  <2> QED
    BY <2>1, <1>3, <1>15
<1>17. Heights(t, n, h1, b1)
  <2>1. h1 \in [1 .. Len(t) + 1 -> Nat]
    BY <1>9, <1>10
  <2>2. h1[1] = n
    <3>1. 1 \in 1 .. l
      OBVIOUS
    <3> QED
      BY <3>1, <1>6, <1>10
  <2>3. \A k \in 1 .. m + s : /\ h1[k] >= Uses(t[k])
                              /\ h1[k + 1] = h1[k] - Uses(t[k]) + Gives(t[k])
    <3>1. ASSUME NEW k \in 1 .. l PROVE h1[k] >= Uses(t[k]) /\ h1[k + 1] = h1[k] - Uses(t[k]) + Gives(t[k])
      <4>1. t[k] = calls[k] /\ h1[k] = g[k]
        BY <1>9, <1>10
      <4>2. h1[k + 1] = g[k + 1]
        <5>1. CASE k = l
          BY <5>1, <1>6, <1>14
        <5>2. CASE k # l
          <6>1. k + 1 \in 1 .. l
            BY <5>2
          <6> QED
            BY <6>1, <1>10
        <5> QED
          BY <5>1, <5>2
      <4> QED
        BY <4>1, <4>2, <1>6
    <3>2. ASSUME NEW k \in l + 1 .. m + s
          PROVE  h1[k] >= Uses(t[k]) /\ h1[k + 1] = h1[k] - Uses(t[k]) + Gives(t[k])
      BY <1>3, <1>12
    <3> QED
      BY <3>1, <3>2, <1>13
  <2>4. \A k \in 1 .. b1 - 1 : t[k].do \in InnerCalls
    <3>1. \A k \in l + 1 .. b1 - 1 : t[k].do \in InnerCalls
      BY <1>3, <1>12, <1>15
    <3>2. \A k \in 1 .. l : t[k].do \in InnerCalls
      BY <1>6, <1>9
    <3> QED
      BY <3>1, <3>2, <1>15
  <2>5. \A k \in b1 + 1 .. m + s : t[k].do \in Outer
    BY <1>3, <1>12, <1>15
  <2>6. t[b1].do \in EndCalls
    BY <1>3, <1>4, <1>16
  <2>7. b1 \in 0 .. m + s
    BY <1>15
  <2> QED
    BY <2>1, <2>2, <2>3, <2>4, <2>5, <2>6, <2>7, <1>9, <1>16 DEF Heights
<1>18. Absent(t, h1, b1)
  <2>1. SUFFICES ASSUME NEW k \in 1 .. b1 - 1, t[k] = Do("expr", None)
                 PROVE  /\ t[b1].do \in Lenient
                        /\ \A j \in k + 1 .. b1 - 1 : t[j].do = "expr" /\ h1[j] > h1[k]
    BY DEF Absent
  <2>2. k \notin 1 .. l
    BY <2>1, <1>6, <1>9
  <2>3. k \in l + 1 .. b1 - 1
    BY <2>2, <1>15
  <2>4. td[k - s] = Do("expr", None) /\ k - s \in 1 .. b - 1 /\ h1[k] = h[k - s]
    BY <2>1, <2>3, <1>12, <1>15
  <2>5. /\ td[b].do \in Lenient
        /\ \A j \in (k - s) + 1 .. b - 1 : td[j].do = "expr" /\ h[j] > h[k - s]
    BY <2>4 DEF Walk, Absent
  <2>6. \A j \in k + 1 .. b1 - 1 : j \in l + 1 .. b1 - 1 /\ j - s \in (k - s) + 1 .. b - 1
    BY <2>3, <1>7, <1>11
  <2>7. \A j \in k + 1 .. b1 - 1 : t[j] = td[j - s] /\ h1[j] = h[j - s]
    BY <2>6, <1>12, <1>15
  <2>8. ASSUME NEW j \in k + 1 .. b1 - 1 PROVE t[j].do = "expr" /\ h1[j] > h1[k]
    <3>1. td[j - s].do = "expr" /\ h[j - s] > h[k - s]
      BY <2>5, <2>6
    <3>2. t[j] = td[j - s] /\ h1[j] = h[j - s]
      BY <2>7
    <3> QED
      BY <3>1, <3>2, <2>4
  <2> QED
    BY <2>5, <2>8, <1>16
(* No call before the old ones overwrites a type that is there.            *)
<1>19. ASSUME NEW j \in 1 .. b1 - 1, NEW c, Overwrites(t, vs, h1, j, c)
       PROVE  j \in l + 1 .. b1 - 1 /\ Overwrites(td, vs, h, j - s, c)
  <2>1. ToVariable(t[j]) /\ h1[j] <= n + 1 /\ vs[h1[j] - 1][1] = "AUTO" /\ Variable(t[j]) = c
    BY <1>1, <1>19 DEF Overwrites
  <2>2. j \notin 1 .. l
    <3>1. SUFFICES ASSUME j \in 1 .. l PROVE FALSE
      OBVIOUS
    <3>2. ToVariable(calls[j]) /\ h1[j] = g[j]
      BY <2>1, <3>1, <1>9, <1>10
    <3>3. j = 3 /\ g[3] = n + 2
      BY <3>1, <3>2, <1>0, <1>1
    <3> QED
      BY <3>2, <3>3, <2>1
  <2>3. j \in l + 1 .. b1 - 1
    BY <2>2, <1>15
  <2>4. t[j] = td[j - s] /\ h1[j] = h[j - s]
    BY <2>3, <1>12, <1>15
  <2> QED
    BY <2>1, <2>3, <2>4, <1>1 DEF Overwrites
<1>20. Assigns(tys, t, vs, h1, b1)
  <2>1. SUFFICES ASSUME NEW j \in 1 .. b1 - 1, ToVariable(t[j])
                 PROVE  \/ /\ h1[j] = n + 2 /\ j = 3
                           /\ t[1] \in {Do("expr", t[j].arg.sub[1]), Do("node", t[j].arg.sub[1])}
                           /\ t[2].do = "expr"
                        \/ /\ h1[j] <= n + 1
                           /\ \A i \in 1 .. j - 1 : h1[i] - Uses(t[i]) >= h1[j] - 1
                           /\ vs[h1[j] - 1][1] = "AUTO" =>
                                Variable(t[j]) \in DOMAIN tys /\ tys[Variable(t[j])].sub = 0
    BY <1>1 DEF Assigns
  <2>2. CASE j \in 1 .. l
    <3>1. t[j] = calls[j] /\ h1[j] = g[j]
      BY <2>2, <1>9, <1>10
    <3>2. /\ j = 3 /\ l = 3 /\ g[3] = n + 2
          /\ calls[1] = Do("expr", calls[3].arg.sub[1]) /\ calls[2].do = "expr"
      BY <3>1, <2>1, <2>2, <1>0, <1>1
    <3>3. t[1] = calls[1] /\ t[2] = calls[2]
      <4>1. 1 \in 1 .. l /\ 2 \in 1 .. l
        BY <3>2
      <4> QED
        BY <4>1, <1>9
    <3> QED
      BY <3>1, <3>2, <3>3
  <2>3. CASE j \in l + 1 .. b1 - 1
    <3>1. t[j] = td[j - s] /\ h1[j] = h[j - s] /\ j - s \in 1 .. b - 1 /\ j - s \in 1 .. m
      BY <2>3, <1>12, <1>15
    <3>2. \/ /\ h[j - s] = n + 2 /\ j - s = 3
             /\ td[1] \in {Do("expr", td[j - s].arg.sub[1]), Do("node", td[j - s].arg.sub[1])}
             /\ td[2].do = "expr"
          \/ /\ h[j - s] <= n + 1
             /\ \A i \in 1 .. (j - s) - 1 : h[i] - Uses(td[i]) >= h[j - s] - 1
             /\ vs[h[j - s] - 1][1] = "AUTO" =>
                  Variable(td[j - s]) \in DOMAIN tys /\ tys[Variable(td[j - s])].sub = 0
      BY <3>1, <2>1, <1>1 DEF Walk, Assigns
    <3>3. CASE /\ h[j - s] = n + 2 /\ j - s = 3
               /\ td[1] \in {Do("expr", td[j - s].arg.sub[1]), Do("node", td[j - s].arg.sub[1])}
               /\ td[2].do = "expr"
      <4>1. td[1].arg = td[j - s].arg.sub[1] /\ td[1].do = "expr"
        <5>1. td[1] # Do("node", td[j - s].arg.sub[1])
          BY DEF Do
        <5>2. td[1] = Do("expr", td[j - s].arg.sub[1])
          BY <5>1, <3>3
        <5> QED
          BY <5>2 DEF Do
      <4>2. td[1].arg.kind = "ID"
        BY <4>1, <3>1, <2>1 DEF ToVariable
      <4>3. calls = <<Do("node", td[1].arg)>>
        BY <4>1, <4>2, <1>0
      <4>4. l = 1 /\ s = 0 /\ calls[1] = Do("node", td[1].arg)
        BY <4>3, <1>0, <1>7
      <4>5. j = 3 /\ 2 \in l + 1 .. m + s /\ 1 \in 1 .. l /\ 2 - s = 2
        BY <4>4, <3>3, <2>3, <1>15
      <4>6. t[1] = calls[1] /\ t[2] = td[2]
        BY <4>5, <1>9
      <4> QED
        BY <4>1, <4>4, <4>5, <4>6, <3>1, <3>3
    <3>4. CASE /\ h[j - s] <= n + 1
               /\ \A i \in 1 .. (j - s) - 1 : h[i] - Uses(td[i]) >= h[j - s] - 1
               /\ vs[h[j - s] - 1][1] = "AUTO" =>
                    Variable(td[j - s]) \in DOMAIN tys /\ tys[Variable(td[j - s])].sub = 0
      <4>1. PICK x \in Nat : x = h[j - s] /\ x <= n + 1
        <5>1. h[j - s] \in Nat
          <6>1. j - s \in 1 .. m + 1
            BY <3>1, <1>1
          <6> QED
            BY <6>1, <1>3
        <5> QED
          BY <5>1, <3>4
      <4>2. ASSUME NEW i \in 1 .. j - 1 PROVE h1[i] - Uses(t[i]) >= x - 1
        <5>1. CASE i \in 1 .. l
          <6>1. t[i] = calls[i] /\ h1[i] = g[i] /\ g[i] - Uses(calls[i]) >= n
            BY <5>1, <1>6, <1>9, <1>10
          <6>2. i \in 1 .. l + 1 /\ g[i] \in Nat /\ Uses(calls[i]) \in Nat
            BY <5>1, <1>0, <1>6, CallCounts
          <6>3. PICK y \in Int : y = g[i] - Uses(calls[i]) /\ y >= n
            BY <6>1, <6>2
          <6> QED
            <7>1. h1[i] - Uses(t[i]) = y
              BY <6>1, <6>3
            <7> QED
              BY ONLY <7>1, <6>3, <4>1, n \in Nat, x \in Nat, y \in Int
        <5>2. CASE i \in l + 1 .. b1 - 1
          <6>1. t[i] = td[i - s] /\ h1[i] = h[i - s]
            BY <5>2, <1>12, <1>15
          <6>2. i - s \in 1 .. (j - s) - 1
            BY <5>2, <2>3, <1>7
          <6> QED
            BY <6>1, <6>2, <4>1, <3>4
        <5> QED
          BY <5>1, <5>2, <1>15
      <4> QED
        BY <4>1, <4>2, <3>1, <3>4
    <3> QED
      BY <3>2, <3>3, <3>4
  <2> QED
    BY <2>2, <2>3, <1>15
<1>21. ValuesExplained(tys, t, vs, h1, b1)
  <2>1. SUFFICES ASSUME NEW q \in 1 .. n, Tainted(vs[q])
                 PROVE  \/ /\ vs[q] = NULL /\ b1 > 0 /\ t[b1].do \in Lenient
                           /\ \A k \in 1 .. b1 - 1 : h1[k] - Uses(t[k]) >= q
                        \/ \E c \in DOMAIN tys :
                             /\ Explains(tys, c)
                             /\ \A j \in 1 .. b1 - 1 :
                                  Overwrites(t, vs, h1, j, c) => h1[j] - 1 <= q
    BY <1>1 DEF ValuesExplained
  <2>2. \/ /\ vs[q] = NULL /\ td[b].do \in Lenient
           /\ \A k \in 1 .. b - 1 : h[k] - Uses(td[k]) >= q
        \/ \E c \in DOMAIN tys :
             /\ Explains(tys, c)
             /\ \A j \in 1 .. b - 1 : Overwrites(td, vs, h, j, c) => h[j] - 1 <= q
    BY <2>1, <1>1 DEF Walk, ValuesExplained
  <2>3. CASE vs[q] = NULL /\ td[b].do \in Lenient
             /\ \A k \in 1 .. b - 1 : h[k] - Uses(td[k]) >= q
    <3>1. ASSUME NEW k \in 1 .. l PROVE h1[k] - Uses(t[k]) >= q
      <4>1. t[k] = calls[k] /\ h1[k] = g[k] /\ g[k] - Uses(calls[k]) >= n
        BY <1>6, <1>9, <1>10
      <4>2. k \in 1 .. l + 1 /\ g[k] \in Nat /\ Uses(calls[k]) \in Nat
        BY <1>0, <1>6, CallCounts
      <4> QED
        BY <4>1, <4>2
    <3>2. \A k \in l + 1 .. b1 - 1 : h1[k] - Uses(t[k]) >= q
      BY <2>3, <1>12, <1>15
    <3>3. b1 > 0
      BY <1>15
    <3> QED
      BY <3>1, <3>2, <3>3, <2>3, <1>15, <1>16
  <2>4. ASSUME NEW c \in DOMAIN tys, Explains(tys, c),
               \A j \in 1 .. b - 1 : Overwrites(td, vs, h, j, c) => h[j] - 1 <= q
        PROVE  \A j \in 1 .. b1 - 1 : Overwrites(t, vs, h1, j, c) => h1[j] - 1 <= q
    BY <2>4, <1>12, <1>15, <1>19
  <2> QED
    BY <2>2, <2>3, <2>4
<1>22. CopiesExplained(tys, t, vs, h1, b1)
  <2>1. SUFFICES ASSUME NEW k \in 1 .. b1 - 1, \E x \in Copied(t[k]) : Tainted(x)
                 PROVE  \E c \in DOMAIN tys :
                          /\ Explains(tys, c)
                          /\ \A j \in 1 .. k - 1 : ~ Overwrites(t, vs, h1, j, c)
    BY DEF CopiesExplained
  <2>2. \A j \in 1 .. k - 1 : j \in 1 .. b1 - 1
    OBVIOUS
  <2>3. CASE k \in 1 .. l
    <3>1. PICK c \in DOMAIN tys : Explains(tys, c)
      BY <2>1, <2>3, <1>0, <1>9
    <3>2. \A j \in 1 .. k - 1 : j \notin l + 1 .. b1 - 1
      BY <2>3
    <3> QED
      BY <3>1, <3>2, <2>2, <1>19
  <2>4. CASE k \in l + 1 .. b1 - 1
    <3>1. t[k] = td[k - s] /\ k - s \in 1 .. b - 1
      BY <2>4, <1>12, <1>15
    <3>2. PICK c \in DOMAIN tys :
            /\ Explains(tys, c)
            /\ \A j \in 1 .. (k - s) - 1 : ~ Overwrites(td, vs, h, j, c)
      BY <3>1, <2>1 DEF Walk, CopiesExplained
    <3>3. \A j \in 1 .. k - 1 : j \in l + 1 .. b1 - 1 => j - s \in 1 .. (k - s) - 1
      BY ONLY <2>4, <1>7, l \in Nat \ {0}, s \in Nat, b1 \in Nat
    <3> QED
      BY <3>2, <3>3, <2>2, <1>19
  <2> QED
    BY <2>3, <2>4, <1>15
<1>23. TypesOf(tys, p) /\ vs \in Seq(TypeWords)
  BY DEF Walk
<1>24. Walk(p, tys, t, vs, h1, b1)
  BY <1>1, <1>9, <1>17, <1>18, <1>20, <1>21, <1>22, <1>23 DEF Walk
<1> QED
  BY <1>8, <1>24

-----------------------------------------------------------------------------
(***************************************************************************)
(* A statement begins.                                                     *)
(***************************************************************************)
Outers(p) == {c \in Calls(p) : c.do \in Outer}

(* Two sequences of calls, one behind the other. *)
LEMMA Joined ==
  ASSUME NEW S, NEW x \in Seq(S), NEW y \in Seq(S)
  PROVE  /\ x \o y \in Seq(S) /\ Len(x \o y) = Len(x) + Len(y)
         /\ \A k \in 1 .. Len(x) : (x \o y)[k] = x[k]
         /\ \A k \in Len(x) + 1 .. Len(x) + Len(y) : (x \o y)[k] = y[k - Len(x)]
<1>1. PICK z : z = x \o y
  OBVIOUS
<1>2. PICK l \in Nat, d \in Nat : l = Len(x) /\ d = Len(y)
  OBVIOUS
<1>3. /\ z \in Seq(S) /\ Len(z) = l + d
      /\ \A k \in 1 .. l + d : z[k] = IF k <= l THEN x[k] ELSE y[k - l]
  BY <1>1, <1>2, ConcatProperties
<1>4. /\ \A k \in 1 .. l : k \in 1 .. l + d /\ k <= l
      /\ \A k \in l + 1 .. l + d : k \in 1 .. l + d /\ ~ (k <= l)
  OBVIOUS
<1> QED
  BY ONLY <1>1, <1>2, <1>3, <1>4

(* Statements and declarations leave no types. *)
LEMMA StartOuter ==
  ASSUME NEW p \in Programs, NEW tys, TypesOf(tys, p), NEW t \in Seq(Outers(p))
  PROVE  \E h1 \in Seq(Nat), b1 \in Nat : Walk(p, tys, t, <<>>, h1, b1)
<1>1. PICK m \in Nat : m = Len(t)
  OBVIOUS
<1>2. t \in Seq(Calls(p)) /\ \A k \in 1 .. m : t[k] \in Calls(p) /\ t[k].do \in Outer
  <2>1. \A k \in 1 .. m : t[k] \in Outers(p)
    BY <1>1
  <2>2. \A k \in 1 .. m : t[k] \in Calls(p) /\ t[k].do \in Outer
    BY <2>1 DEF Outers
  <2>3. Outers(p) \subseteq Calls(p)
    BY DEF Outers
  <2>4. t \in [1 .. m -> Calls(p)]
    BY <1>1, <2>2
  <2> QED
    BY <2>2, <2>4, Listed
<1>3. PICK h1 \in Seq(Nat) : h1 \in [1 .. m + 1 -> Nat] /\ \A k \in 1 .. m + 1 : h1[k] = 0
  <2> DEFINE f == [k \in 1 .. m + 1 |-> 0]
  <2>1. f \in [1 .. m + 1 -> Nat] /\ \A k \in 1 .. m + 1 : f[k] = 0
    OBVIOUS
  <2>2. m + 1 \in Nat
    OBVIOUS
  <2> HIDE DEF f
  <2> QED
    BY <2>1, <2>2, Listed
<1>4. \A k \in 1 .. m : Uses(t[k]) = 0 /\ Gives(t[k]) = 0
  <2>1. SUFFICES ASSUME NEW k \in 1 .. m PROVE Uses(t[k]) = 0 /\ Gives(t[k]) = 0
    OBVIOUS
  <2>2. t[k] \in Calls(p) /\ t[k].do \in {"stmt", "decl"}
    BY <1>2 DEF Outer
  <2> QED
    BY <2>2, CallCounts DEF Outer
<1>5. Heights(t, 0, h1, 0)
  <2>1. \A k \in 1 .. m : h1[k] = 0 /\ h1[k + 1] = 0
    BY <1>3
  <2>2. h1[1] = 0
    BY <1>3
  <2> QED
    BY <2>1, <2>2, <1>1, <1>2, <1>3, <1>4 DEF Heights
<1>6. <<>> \in Seq(TypeWords) /\ Len(<<>>) = 0
  OBVIOUS
<1>7. /\ Absent(t, h1, 0) /\ Assigns(tys, t, <<>>, h1, 0)
      /\ ValuesExplained(tys, t, <<>>, h1, 0) /\ CopiesExplained(tys, t, <<>>, h1, 0)
  BY <1>6 DEF Absent, Assigns, ValuesExplained, CopiesExplained
<1> QED
  BY <1>2, <1>3, <1>5, <1>6, <1>7 DEF Walk

(* The expressions of a statement, and the call that takes their types.    *)
LEMMA StartWalk ==
  ASSUME NEW p \in Programs, NEW tys, TypesOf(tys, p),
         NEW a \in Seq(Exprs(p) \cup {None}), NEW end \in Calls(p),
         end.do \in EndCalls, Uses(end) = Len(a),
         (\E i \in 1 .. Len(a) : a[i] = None) => end.do \in Lenient,
         NEW r \in Seq(Outers(p))
  PROVE  \E h1 \in Seq(Nat), b1 \in Nat :
           Walk(p, tys, (Each("expr", a) \o <<end>>) \o r, <<>>, h1, b1)
<1>1. PICK l \in Nat, d \in Nat : l = Len(a) /\ d = Len(r) /\ DOMAIN a = 1 .. l
  BY LenProperties
<1>2. r \in Seq(Calls(p)) /\ \A k \in 1 .. d : r[k] \in Calls(p) /\ r[k].do \in Outer
  <2>1. \A k \in 1 .. d : r[k] \in Outers(p)
    BY <1>1
  <2>2. \A k \in 1 .. d : r[k] \in Calls(p) /\ r[k].do \in Outer
    BY <2>1 DEF Outers
  <2>3. r \in [1 .. d -> Calls(p)]
    BY <1>1, <2>2
  <2> QED
    BY <2>2, <2>3, Listed
<1>3. PICK x \in Seq(Calls(p)) : x = Each("expr", a) /\ Len(x) = l
                               /\ \A k \in 1 .. l : x[k] = Do("expr", a[k])
  <2> DEFINE f == [k \in 1 .. l |-> Do("expr", a[k])]
  <2>1. \A k \in 1 .. l : a[k] \in Exprs(p) \cup {None}
    BY <1>1
  <2>2. \A k \in 1 .. l : Do("expr", a[k]) \in Calls(p)
    BY <2>1 DEF Calls
  <2>3. f \in [1 .. l -> Calls(p)] /\ \A k \in 1 .. l : f[k] = Do("expr", a[k])
    BY <2>2
  <2>4. Each("expr", a) = f
    BY <1>1 DEF Each
  <2> HIDE DEF f
  <2> QED
    BY <2>3, <2>4, Listed
<1>4. PICK y \in Seq(Calls(p)) : y = x \o <<end>> /\ Len(y) = l + 1 /\ y[l + 1] = end
                                 /\ \A k \in 1 .. l : y[k] = x[k]
  <2>1. <<end>> \in Seq(Calls(p)) /\ Len(<<end>>) = 1 /\ <<end>>[1] = end
    OBVIOUS
  <2>2. PICK z : z = <<end>>
    OBVIOUS
  <2>3. /\ x \o z \in Seq(Calls(p)) /\ Len(x \o z) = l + 1
        /\ \A k \in 1 .. l : (x \o z)[k] = x[k]
        /\ \A k \in l + 1 .. l + 1 : (x \o z)[k] = z[k - l]
    <3>1. /\ x \in Seq(Calls(p)) /\ Len(x) = l /\ l \in Nat
          /\ z \in Seq(Calls(p)) /\ Len(z) = 1 /\ 1 \in Nat
      BY <2>1, <2>2, <1>3
    <3>2. /\ x \o z \in Seq(Calls(p)) /\ Len(x \o z) = Len(x) + Len(z)
          /\ \A k \in 1 .. Len(x) : (x \o z)[k] = x[k]
          /\ \A k \in Len(x) + 1 .. Len(x) + Len(z) : (x \o z)[k] = z[k - Len(x)]
      BY ONLY <3>1, Joined, Zenon
    <3> QED
      BY ONLY <3>1, <3>2
  <2>4. l + 1 \in l + 1 .. l + 1 /\ (l + 1) - l = 1
    OBVIOUS
  <2>5. (x \o z)[l + 1] = end
    BY <2>1, <2>2, <2>3, <2>4
  <2> QED
    BY <2>2, <2>3, <2>5
<1>5. PICK t : t = (Each("expr", a) \o <<end>>) \o r
  OBVIOUS
<1>6. PICK m \in Nat : m = (l + 1) + d /\ l + 1 \in 1 .. m
  OBVIOUS
<1>7. /\ t \in Seq(Calls(p)) /\ Len(t) = m
      /\ \A k \in 1 .. l : t[k] = Do("expr", a[k])
      /\ t[l + 1] = end
      /\ \A k \in l + 2 .. m : t[k] \in Calls(p) /\ t[k].do \in Outer
  <2>1. t = y \o r
    BY <1>3, <1>4, <1>5
  <2>2. /\ y \o r \in Seq(Calls(p)) /\ Len(y \o r) = (l + 1) + d
        /\ \A k \in 1 .. l + 1 : (y \o r)[k] = y[k]
        /\ \A k \in (l + 1) + 1 .. (l + 1) + d : (y \o r)[k] = r[k - (l + 1)]
    <3>1. /\ y \in Seq(Calls(p)) /\ Len(y) = l + 1 /\ l + 1 \in Nat
          /\ r \in Seq(Calls(p)) /\ Len(r) = d /\ d \in Nat
      BY <1>1, <1>2, <1>4
    <3>2. /\ y \o r \in Seq(Calls(p)) /\ Len(y \o r) = Len(y) + Len(r)
          /\ \A k \in 1 .. Len(y) : (y \o r)[k] = y[k]
          /\ \A k \in Len(y) + 1 .. Len(y) + Len(r) : (y \o r)[k] = r[k - Len(y)]
      BY ONLY <3>1, Joined, Zenon
    <3> QED
      BY ONLY <3>1, <3>2
  <2>3. \A k \in 1 .. l : k \in 1 .. l + 1
    OBVIOUS
  <2>4. l + 1 \in 1 .. l + 1
    OBVIOUS
  <2>5. \A k \in l + 2 .. m : k \in (l + 1) + 1 .. (l + 1) + d /\ k - (l + 1) \in 1 .. d
    BY <1>6
  <2>6. \A k \in l + 2 .. m : t[k] = r[k - (l + 1)]
    BY <2>1, <2>2, <2>5
  <2> QED
    <3>1. t \in Seq(Calls(p)) /\ Len(t) = m
      BY <2>1, <2>2, <1>6
    <3>2. \A k \in 1 .. l : t[k] = Do("expr", a[k])
      BY <2>1, <2>2, <2>3, <1>3, <1>4
    <3>3. t[l + 1] = end
      BY <2>1, <2>2, <2>4, <1>4
    <3>4. \A k \in l + 2 .. m : t[k] \in Calls(p) /\ t[k].do \in Outer
      BY <2>5, <2>6, <1>2
    <3> QED
      BY <3>1, <3>2, <3>3, <3>4
<1>8. PICK h1 \in Seq(Nat) :
        /\ h1 \in [1 .. m + 1 -> Nat]
        /\ \A k \in 1 .. l + 1 : h1[k] = k - 1
        /\ \A k \in l + 2 .. m + 1 : h1[k] = 0
  <2> DEFINE f == [k \in 1 .. m + 1 |-> IF k <= l + 1 THEN k - 1 ELSE 0]
  <2>1. f \in [1 .. m + 1 -> Nat]
    OBVIOUS
  <2>2. \A k \in 1 .. l + 1 : k \in 1 .. m + 1 /\ k <= l + 1
    BY <1>6
  <2>3. \A k \in l + 2 .. m + 1 : k \in 1 .. m + 1 /\ ~ (k <= l + 1)
    BY <1>6
  <2>4. /\ \A k \in 1 .. l + 1 : f[k] = k - 1
        /\ \A k \in l + 2 .. m + 1 : f[k] = 0
    BY <2>2, <2>3
  <2>5. m + 1 \in Nat
    OBVIOUS
  <2> HIDE DEF f
  <2> QED
    BY <2>1, <2>4, <2>5, Listed
<1>9. \A k \in 1 .. l : t[k].do = "expr" /\ Uses(t[k]) = 0 /\ Gives(t[k]) = 1
  <2>1. SUFFICES ASSUME NEW k \in 1 .. l
                 PROVE  t[k].do = "expr" /\ Uses(t[k]) = 0 /\ Gives(t[k]) = 1
    OBVIOUS
  <2>2. t[k] \in Calls(p) /\ t[k].do = "expr"
    <3>1. k \in 1 .. m
      BY <1>6
    <3>2. t[k] \in Calls(p) /\ t[k] = Do("expr", a[k])
      BY <3>1, <1>7
    <3> QED
      BY <3>2 DEF Do
  <2> QED
    BY <2>2, CallCounts
<1>10. Uses(end) = l /\ Gives(end) = 0
  <2>1. end.do \notin {"expr", "node", "call"}
    BY DEF EndCalls
  <2> QED
    BY <2>1, <1>1, CallCounts
<1>11. \A k \in l + 2 .. m : Uses(t[k]) = 0 /\ Gives(t[k]) = 0
  <2>1. SUFFICES ASSUME NEW k \in l + 2 .. m PROVE Uses(t[k]) = 0 /\ Gives(t[k]) = 0
    OBVIOUS
  <2>2. t[k] \in Calls(p) /\ t[k].do \in {"stmt", "decl"}
    BY <1>7 DEF Outer
  <2> QED
    BY <2>2, CallCounts DEF Outer
<1>12. Heights(t, 0, h1, l + 1)
  <2>1. ASSUME NEW k \in 1 .. m
        PROVE  h1[k] >= Uses(t[k]) /\ h1[k + 1] = h1[k] - Uses(t[k]) + Gives(t[k])
    <3>1. CASE k \in 1 .. l
      <4>1. k \in 1 .. l + 1 /\ k + 1 \in 1 .. l + 1
        BY <3>1
      <4>2. h1[k] = k - 1 /\ h1[k + 1] = (k + 1) - 1
        BY <4>1, <1>8
      <4> QED
        BY <4>2, <3>1, <1>9
    <3>2. CASE k = l + 1
      <4>1. h1[k] = l /\ h1[k + 1] = 0
        <5>1. l + 1 \in 1 .. l + 1 /\ (l + 1) + 1 \in l + 2 .. m + 1
          BY <1>6
        <5> QED
          BY <5>1, <3>2, <1>8
      <4> QED
        BY <4>1, <3>2, <1>7, <1>10
    <3>3. CASE k \in l + 2 .. m
      <4>1. k \in l + 2 .. m + 1 /\ k + 1 \in l + 2 .. m + 1
        BY <3>3
      <4> QED
        BY <4>1, <3>3, <1>8, <1>11
    <3> QED
      BY <3>1, <3>2, <3>3
  <2>2. h1[1] = 0
    <3>1. 1 \in 1 .. l + 1
      OBVIOUS
    <3> QED
      BY <3>1, <1>8
  <2>3. h1[(l + 1) + 1] = 0
    <3>1. (l + 1) + 1 \in l + 2 .. m + 1
      BY <1>6
    <3> QED
      BY <3>1, <1>8
  <2>4. \A k \in 1 .. (l + 1) - 1 : t[k].do \in InnerCalls
    <3>1. (l + 1) - 1 = l
      OBVIOUS
    <3> QED
      BY <3>1, <1>9 DEF InnerCalls
  <2>5. \A k \in (l + 1) + 1 .. m : t[k].do \in Outer
    <3>1. (l + 1) + 1 = l + 2
      OBVIOUS
    <3> QED
      BY <3>1, <1>7
  <2>6. l + 1 \in 0 .. m
    BY <1>6
  <2> QED
    BY <2>1, <2>2, <2>3, <2>4, <2>5, <2>6, <1>7, <1>8 DEF Heights
<1>13. \A k \in 1 .. (l + 1) - 1 : k \in 1 .. l /\ k \in 1 .. l + 1 /\ t[k].do = "expr"
  BY <1>9
<1>14. Absent(t, h1, l + 1)
  <2>1. SUFFICES ASSUME NEW k \in 1 .. (l + 1) - 1, t[k] = Do("expr", None)
                 PROVE  /\ t[l + 1].do \in Lenient
                        /\ \A j \in k + 1 .. (l + 1) - 1 : t[j].do = "expr" /\ h1[j] > h1[k]
    BY DEF Absent
  <2>2. a[k] = None
    <3>1. Do("expr", None) = Do("expr", a[k])
      BY <2>1, <1>7, <1>13
    <3> QED
      BY <3>1 DEF Do
  <2>3. t[l + 1].do \in Lenient
    BY <2>2, <1>1, <1>7, <1>13
  <2>4. \A j \in k + 1 .. (l + 1) - 1 : j \in 1 .. (l + 1) - 1 /\ j - 1 > k - 1
    OBVIOUS
  <2> QED
    BY <2>3, <2>4, <1>8, <1>13
<1>15. Assigns(tys, t, <<>>, h1, l + 1)
  BY <1>13 DEF Assigns, ToVariable
<1>16. CopiesExplained(tys, t, <<>>, h1, l + 1)
  BY <1>13 DEF CopiesExplained, Copied
<1>17. <<>> \in Seq(TypeWords) /\ Len(<<>>) = 0
  OBVIOUS
<1>18. ValuesExplained(tys, t, <<>>, h1, l + 1)
  BY <1>17 DEF ValuesExplained
<1>19. l + 1 \in Nat
  OBVIOUS
<1> QED
  BY <1>5, <1>7, <1>8, <1>12, <1>14, <1>15, <1>16, <1>17, <1>18, <1>19 DEF Walk

(* Between two statements nothing has been computed. *)
LEMMA OuterFacts ==
  ASSUME NEW p \in Programs, NEW tys, NEW td, NEW vs, NEW h \in Seq(Nat), NEW b \in Nat,
         Walk(p, tys, td, vs, h, b), td # <<>>, td[1].do \in Outer
  PROVE  vs = <<>> /\ td[1] \in Calls(p) /\ Tail(td) \in Seq(Outers(p))
<1>1. td \in Seq(Calls(p)) /\ vs \in Seq(TypeWords)
  BY DEF Walk
<1>2. PICK m \in Nat \ {0} : m = Len(td) /\ DOMAIN td = 1 .. m
  <2>1. Len(td) \in Nat /\ DOMAIN td = 1 .. Len(td)
    BY ONLY <1>1, LenProperties, Zenon
  <2>2. Len(td) # 0
    BY <1>1, EmptySeq
  <2> QED
    BY <2>1, <2>2
<1>3. /\ h[1] = Len(vs) /\ h[b + 1] = 0 /\ b \in 0 .. m
      /\ \A k \in 1 .. b - 1 : td[k].do \in InnerCalls
      /\ b > 0 => td[b].do \in EndCalls
      /\ \A k \in b + 1 .. m : td[k].do \in Outer
  BY <1>2 DEF Walk, Heights
<1>4. td[1].do \notin InnerCalls /\ td[1].do \notin EndCalls
  BY DEF Outer, InnerCalls, EndCalls
<1>5. b = 0
  <2>1. CASE b = 1
    BY <2>1, <1>3, <1>4
  <2>2. CASE b > 1
    <3>1. 1 \in 1 .. b - 1
      BY <2>2
    <3> QED
      BY <3>1, <1>3, <1>4
  <2> QED
    BY <2>1, <2>2
<1>6. vs = <<>>
  BY <1>1, <1>3, <1>5, EmptySeq
<1>7. \A k \in 1 .. m : td[k] \in Calls(p) /\ td[k].do \in Outer
  <2>1. \A k \in 1 .. m : td[k] \in Calls(p)
    BY <1>1, <1>2
  <2> QED
    BY <2>1, <1>3, <1>5
<1>8. \A k \in 1 .. m : td[k] \in Outers(p)
  BY <1>7 DEF Outers
<1>9. td \in Seq(Outers(p))
  <2>1. td \in [1 .. m -> Outers(p)]
    BY <1>1, <1>2, <1>8
  <2> QED
    BY <2>1, Listed
<1>10. 1 \in 1 .. m
  BY <1>2
<1> QED
  BY <1>6, <1>7, <1>9, <1>10, HeadTailProperties

-----------------------------------------------------------------------------
(***************************************************************************)
(* A type is overwritten.                                                  *)
(***************************************************************************)

(* The walk goes on when auto becomes a kind: between two statements, or   *)
(* when the assignment that overwrites it is the call that is made now.    *)
LEMMA RetypeWalk ==
  ASSUME NEW p \in Programs, NEW tys, NEW td, NEW vs, NEW h \in Seq(Nat), NEW b \in Nat,
         Walk(p, tys, td, vs, h, b),
         NEW c \in DOMAIN tys, tys[c].sub = 0, NEW right \in TypeKinds,
         b # 0 => /\ b # 1 /\ Overwrites(td, vs, h, 1, c)
                  /\ Len(vs) # 0 /\ right = vs[Len(vs)][1]
  PROVE  Walk(p, [tys EXCEPT ![c].kind = right], td, vs, h, b)
<1>1. PICK e : e = [tys EXCEPT ![c].kind = right]
  OBVIOUS
<1>2. PICK l \in Nat : l = Len(tys) /\ DOMAIN tys = 1 .. l
  BY TableFacts DEF Walk
<1>3. /\ DOMAIN e = 1 .. l
      /\ \A d \in 1 .. l : d # c => e[d] = tys[d]
      /\ e[c] = [tys[c] EXCEPT !.kind = right]
  <2>1. tys \in Seq([kind : TypeKinds, sub : Nat, params : Seq(Nat), size : STRING \ {"NULL"}])
    BY DEF Walk, TypesOf
  <2> QED
    BY <2>1, <1>1, <1>2
<1>4. TypesOf(e, p)
  <2> DEFINE R == [kind : TypeKinds, sub : Nat, params : Seq(Nat), size : STRING \ {"NULL"}]
  <2>1. tys \in Seq(R) /\ l = Len(p.types)
    BY <1>2 DEF Walk, TypesOf
  <2>2. \A d \in 1 .. l : tys[d] \in R
    <3> HIDE DEF R
    <3> QED
      BY <2>1, <1>2
  <2>3. e[c] \in R /\ e[c].sub = tys[c].sub /\ e[c].params = tys[c].params
    BY <2>2, <1>2, <1>3
  <2>4. \A d \in 1 .. l : e[d] \in R /\ e[d].sub = tys[d].sub /\ e[d].params = tys[d].params
                          /\ (d # c => e[d].kind = tys[d].kind)
    BY <2>2, <2>3, <1>3
  <2>5. e \in [1 .. l -> R]
    <3>1. \A d \in 1 .. l : e[d] \in R
      BY <2>4
    <3>2. e = [d \in 1 .. l |-> e[d]]
      BY <1>1, <1>2
    <3> HIDE DEF R
    <3> QED
      BY <3>1, <3>2
  <2>6. e \in Seq(R) /\ Len(e) = l
    <3> HIDE DEF R
    <3> QED
      BY <2>5, Listed
  <2>7. \A d \in 1 .. l : /\ tys[d].sub = p.types[d].sub /\ tys[d].params = p.types[d].params
                          /\ tys[d].sub # 0 => tys[d].kind = p.types[d].kind
    BY <1>2 DEF Walk, TypesOf
  <2>8. \A d \in 1 .. l : /\ e[d].sub = p.types[d].sub /\ e[d].params = p.types[d].params
                          /\ e[d].sub # 0 => e[d].kind = p.types[d].kind
    <3>1. \A d \in 1 .. l : d = c => e[d].sub = 0
      BY <2>3, <1>2, tys[c].sub = 0
    <3> QED
      BY ONLY <2>4, <2>7, <3>1
  <2> HIDE DEF R
  <2> QED
    <3>1. R = [kind : TypeKinds, sub : Nat, params : Seq(Nat), size : STRING \ {"NULL"}]
      BY DEF R
    <3> QED
      BY ONLY <2>1, <2>6, <2>8, <3>1 DEF TypesOf
<1>5. /\ \A d \in 1 .. l : e[d].sub = tys[d].sub
      /\ \A d \in 1 .. l : d # c /\ Explains(tys, d) => Explains(e, d)
      /\ right \in {"ARRAY", "FUNCTION"} => Explains(e, c)
  <2> DEFINE R == [kind : TypeKinds, sub : Nat, params : Seq(Nat), size : STRING \ {"NULL"}]
  <2>1. tys[c] \in R
    <3>1. tys \in Seq(R)
      BY DEF Walk, TypesOf
    <3> HIDE DEF R
    <3> QED
      BY <3>1, <1>2
  <2>2. e[c].sub = tys[c].sub /\ e[c].kind = right
    BY <2>1, <1>3
  <2> QED
    BY <2>2, <1>2, <1>3 DEF Explains
<1>6. Assigns(e, td, vs, h, b)
  <2>1. SUFFICES ASSUME NEW j \in 1 .. b - 1, ToVariable(td[j])
                 PROVE  \/ /\ h[j] = Len(vs) + 2 /\ j = 3
                           /\ td[1] \in {Do("expr", td[j].arg.sub[1]), Do("node", td[j].arg.sub[1])}
                           /\ td[2].do = "expr"
                        \/ /\ h[j] <= Len(vs) + 1
                           /\ \A i \in 1 .. j - 1 : h[i] - Uses(td[i]) >= h[j] - 1
                           /\ vs[h[j] - 1][1] = "AUTO" =>
                                Variable(td[j]) \in DOMAIN e /\ e[Variable(td[j])].sub = 0
    BY DEF Assigns
  <2>2. \/ /\ h[j] = Len(vs) + 2 /\ j = 3
           /\ td[1] \in {Do("expr", td[j].arg.sub[1]), Do("node", td[j].arg.sub[1])}
           /\ td[2].do = "expr"
        \/ /\ h[j] <= Len(vs) + 1
           /\ \A i \in 1 .. j - 1 : h[i] - Uses(td[i]) >= h[j] - 1
           /\ vs[h[j] - 1][1] = "AUTO" =>
                Variable(td[j]) \in DOMAIN tys /\ tys[Variable(td[j])].sub = 0
    BY <2>1 DEF Walk, Assigns
  <2> QED
    BY <2>2, <1>2, <1>3, <1>5
<1>7. ValuesExplained(e, td, vs, h, b)
  <2>1. SUFFICES ASSUME NEW q \in 1 .. Len(vs), Tainted(vs[q])
                 PROVE  \/ /\ vs[q] = NULL /\ b > 0 /\ td[b].do \in Lenient
                           /\ \A k \in 1 .. b - 1 : h[k] - Uses(td[k]) >= q
                        \/ \E d \in DOMAIN e :
                             /\ Explains(e, d)
                             /\ \A j \in 1 .. b - 1 : Overwrites(td, vs, h, j, d) => h[j] - 1 <= q
    BY DEF ValuesExplained
  <2>2. \/ /\ vs[q] = NULL /\ b > 0 /\ td[b].do \in Lenient
           /\ \A k \in 1 .. b - 1 : h[k] - Uses(td[k]) >= q
        \/ \E d \in DOMAIN tys :
             /\ Explains(tys, d)
             /\ \A j \in 1 .. b - 1 : Overwrites(td, vs, h, j, d) => h[j] - 1 <= q
    BY <2>1 DEF Walk, ValuesExplained
  <2>3. ASSUME NEW d \in DOMAIN tys, Explains(tys, d),
               \A j \in 1 .. b - 1 : Overwrites(td, vs, h, j, d) => h[j] - 1 <= q
        PROVE  /\ d \in DOMAIN e /\ Explains(e, d)
               /\ \A j \in 1 .. b - 1 : Overwrites(td, vs, h, j, d) => h[j] - 1 <= q
    <3>1. CASE d # c
      BY <3>1, <2>3, <1>2, <1>3, <1>5
    <3>2. CASE d = c
      <4>1. PICK n \in Nat : n = Len(vs) /\ vs \in Seq(TypeWords) /\ h[1] = n
        BY DEF Walk, Heights
      <4>2. b # 0
        <5>1. b = 0 => h[b + 1] = 0 /\ b + 1 = 1
          BY DEF Walk, Heights
        <5> QED
          BY <5>1, <4>1, <2>1
      <4>3. 1 \in 1 .. b - 1 /\ Overwrites(td, vs, h, 1, c) /\ n # 0 /\ right = vs[n][1]
        BY <4>1, <4>2
      <4>4. n - 1 <= q
        BY <4>1, <4>3, <3>2, <2>3
      <4>5. vs[n - 1][1] = "AUTO"
        BY <4>1, <4>3 DEF Overwrites
      <4>6. q # n - 1
        <5>1. SUFFICES ASSUME q = n - 1 PROVE FALSE
          OBVIOUS
        <5>2. vs[q] \in TypeWords
          BY <4>1
        <5>3. vs[q][1] \in Simple
          BY <5>1, <4>5 DEF Simple
        <5> QED
          BY <5>2, <5>3, <2>1, WordFacts
      <4>7. q = n
        BY <4>1, <4>4, <4>6, <2>1
      <4>8. right \in {"ARRAY", "FUNCTION"}
        <5>1. vs[n] \in TypeWords /\ Tainted(vs[n])
          BY <4>1, <4>7, <2>1
        <5>2. vs[n][1] \notin Simple
          BY <5>1, WordFacts
        <5> QED
          BY <5>2, <4>3 DEF TypeKinds
      <4> QED
        BY <4>8, <3>2, <2>3, <1>2, <1>3, <1>5
    <3> QED
      BY <3>1, <3>2
  <2> QED
    BY <2>2, <2>3
<1>8. CopiesExplained(e, td, vs, h, b)
  <2>1. SUFFICES ASSUME NEW k \in 1 .. b - 1, \E w \in Copied(td[k]) : Tainted(w)
                 PROVE  \E d \in DOMAIN e :
                          /\ Explains(e, d)
                          /\ \A j \in 1 .. k - 1 : ~ Overwrites(td, vs, h, j, d)
    BY DEF CopiesExplained
  <2>2. PICK d \in DOMAIN tys :
          /\ Explains(tys, d)
          /\ \A j \in 1 .. k - 1 : ~ Overwrites(td, vs, h, j, d)
    BY <2>1 DEF Walk, CopiesExplained
  <2>3. Overwrites(td, vs, h, 1, c)
    BY <2>1
  <2>4. k # 1
    <3>1. td[1].do = "node"
      BY <2>3 DEF Overwrites, ToVariable
    <3> QED
      BY <3>1, <2>1 DEF Copied
  <2>5. d # c
    <3>1. 1 \in 1 .. k - 1
      BY <2>4
    <3> QED
      BY <3>1, <2>2, <2>3
  <2> QED
    BY <2>2, <2>5, <1>2, <1>3, <1>5
<1> QED
  BY <1>1, <1>4, <1>6, <1>7, <1>8 DEF Walk

-----------------------------------------------------------------------------
(***************************************************************************)
(* The types that a call takes.                                            *)
(***************************************************************************)
Operands(tys, td, vs, b, v, u) ==
  /\ u = Uses(td[1])
  /\ v = SubSeq(vs, Len(vs) - u + 1, Len(vs))
  /\ Len(v) = u
  /\ \A i \in 1 .. u : Tainted(v[i]) =>
       \/ \E c \in DOMAIN tys : Explains(tys, c)
       \/ b = 1 /\ v[i] = NULL /\ td[1].do \in Lenient

(* They are explained as long as they are there. *)
LEMMA OperandTypes ==
  ASSUME NEW p \in Programs, NEW tys, NEW td, NEW vs, NEW h \in Seq(Nat), NEW b \in Nat,
         Walk(p, tys, td, vs, h, b), b # 0
  PROVE  \E v \in Seq(TypeWords), u \in Nat : Operands(tys, td, vs, b, v, u)
<1>1. td \in Seq(Calls(p)) /\ vs \in Seq(TypeWords) /\ b \in 1 .. Len(td)
  BY DEF Walk, Heights
<1>2. PICK n \in Nat, m \in Nat \ {0} : n = Len(vs) /\ m = Len(td) /\ 1 \in 1 .. m
  <2>1. Len(td) \in Nat /\ Len(vs) \in Nat
    BY ONLY <1>1, LenProperties, Zenon
  <2> QED
    BY <2>1, <1>1
<1>3. td[1] \in Calls(p)
  BY <1>1, <1>2
<1>4. PICK u \in Nat : u = Uses(td[1])
  BY <1>3, CallCounts
<1>5. h[1] = n /\ h[1] >= u
  BY <1>2, <1>4 DEF Walk, Heights
<1>6. n - u \in Nat /\ n - u + 1 \in Nat
  BY <1>4, <1>5
<1>7. PICK v : v = SubSeq(vs, n - u + 1, n)
  OBVIOUS
<1>8. v \in Seq(TypeWords) /\ Len(v) = u /\ \A i \in 1 .. u : v[i] = vs[(n - u) + i]
  <2>1. \A i \in n - u + 1 .. n : vs[i] \in TypeWords
    BY <1>1, <1>2, <1>6
  <2>2. v \in Seq(TypeWords)
    BY <2>1, <1>6, <1>7
  <2>3. Len(v) = IF n - u + 1 <= n THEN n - (n - u + 1) + 1 ELSE 0
    BY <1>1, <1>2, <1>6, <1>7
  <2>4. Len(v) = u
    BY <2>3, <1>4
  <2>5. \A i \in 1 .. u : v[i] = vs[(n - u + 1) + i - 1]
    <3>1. PICK x \in Nat : x = n - u + 1
      BY <1>6
    <3>2. v = SubSeq(vs, x, n) /\ \A i \in x .. n : vs[i] \in TypeWords
      BY <3>1, <2>1, <1>7
    <3>3. \A i \in 1 .. n - x + 1 : v[i] = vs[x + i - 1]
      BY <3>2, SubSeqProperties
    <3>4. n - x + 1 = u
      BY <3>1, <1>4
    <3> QED
      BY <3>1, <3>3, <3>4
  <2>6. \A i \in 1 .. u : (n - u + 1) + i - 1 = (n - u) + i
    BY <1>4
  <2> QED
    BY <2>2, <2>4, <2>5, <2>6
<1>9. ASSUME NEW i \in 1 .. u, Tainted(v[i])
      PROVE  \/ \E c \in DOMAIN tys : Explains(tys, c)
             \/ b = 1 /\ v[i] = NULL /\ td[1].do \in Lenient
  <2>1. PICK q \in 1 .. n : q = (n - u) + i /\ q > n - u
    <3>1. (n - u) + i \in 1 .. n /\ (n - u) + i > n - u
      BY <1>4, <1>6
    <3> QED
      BY <3>1
  <2>2. v[i] = vs[q]
    BY <2>1, <1>8
  <2>3. \/ /\ vs[q] = NULL /\ td[b].do \in Lenient
           /\ \A k \in 1 .. b - 1 : h[k] - Uses(td[k]) >= q
        \/ \E c \in DOMAIN tys : Explains(tys, c)
    BY <2>1, <2>2, <1>2, <1>9 DEF Walk, ValuesExplained
  <2>4. CASE /\ vs[q] = NULL /\ td[b].do \in Lenient
             /\ \A k \in 1 .. b - 1 : h[k] - Uses(td[k]) >= q
    <3>1. b = 1
      <4>1. SUFFICES ASSUME b # 1 PROVE FALSE
        OBVIOUS
      <4>2. 1 \in 1 .. b - 1
        BY <4>1
      <4>3. n - u >= q
        BY <4>2, <2>4, <1>4, <1>5
      <4> QED
        BY <4>3, <2>1, <1>6
    <3> QED
      BY <3>1, <2>2, <2>4
  <2> QED
    BY <2>3, <2>4
<1>10. v = SubSeq(vs, Len(vs) - u + 1, Len(vs))
  BY <1>2, <1>7
<1> QED
  BY <1>4, <1>8, <1>9, <1>10 DEF Operands

-----------------------------------------------------------------------------
(***************************************************************************)
(* The handlers.  CrashBody is what explains a crash.                      *)
(***************************************************************************)
Missing == \E c \in DOMAIN types : Explains(types, c)

CrashBody ==
  \/ Missing
  \/ /\ Call.do = "node" /\ Call.arg.kind = "ASSIGN"
     /\ Call.arg.sub[1].kind # "ID" /\ Kind(Latest(2)[1]) = "AUTO"
  \/ Call.do \in {"expr", "node"} /\ Call.arg.kind \in {"ID", "FCALL"} /\ Call.arg.val = 0
  \/ Call.do \in {"initial", "return"} /\ Call.arg.symtype = 0
  \/ Call.do = "return" /\ types[Call.arg.type].sub = 0

Inv ==
  /\ ast_head \in Programs
  /\ WalkInv
  /\ type_err \in BOOLEAN
  /\ status \in {"running", "crashed"}
  /\ CrashExplained

(* CrashBody is what CrashExplained says of a crash. *)
LEMMA CrashExplainedBy == CrashExplained <=> (status = "crashed" => CrashBody)
BY DEF CrashExplained, CrashBody, Missing, Explains

(* The call that is made next. *)
LEMMA CallNow ==
  ASSUME Inv, todo # <<>>
  PROVE  /\ ast_head \in Programs /\ TypesOf(types, ast_head)
         /\ Call = todo[1] /\ Call \in Calls(ast_head)
         /\ Tail(todo) \in Seq(Calls(ast_head))
         /\ <<>> \o Tail(todo) = Tail(todo)
         /\ values \in Seq(TypeWords)
         /\ \E h \in Seq(Nat), b \in Nat :
              /\ Walk(ast_head, types, todo, values, h, b)
              /\ Call.do \notin Outer => b # 0
              /\ Call.do \in InnerCalls \ {"arguments"} => 1 \in 1 .. b - 1
              /\ Call.do \in EndCalls \ {"arguments"} => b = 1
<1>1. ast_head \in Programs
  BY DEF Inv
<1>2. PICK h \in Seq(Nat), b \in Nat : Walk(ast_head, types, todo, values, h, b)
  BY DEF Inv, WalkInv
<1>3. /\ TypesOf(types, ast_head) /\ todo \in Seq(Calls(ast_head)) /\ values \in Seq(TypeWords)
  BY <1>2 DEF Walk
<1>4. PICK m \in Nat : m = Len(todo) /\ 1 \in 1 .. m /\ DOMAIN todo = 1 .. m
  <2>1. Len(todo) \in Nat /\ DOMAIN todo = 1 .. Len(todo)
    BY ONLY <1>3, LenProperties, Zenon
  <2>2. Len(todo) # 0
    BY <1>3, EmptySeq
  <2>3. PICK m \in Nat : m = Len(todo) /\ m # 0
    BY <2>1, <2>2
  <2>4. 1 \in 1 .. m
    BY <2>3
  <2> QED
    BY <2>1, <2>3, <2>4
<1>5. Call = todo[1] /\ Call \in Calls(ast_head)
  <2>1. todo[1] \in Calls(ast_head)
    BY <1>3, <1>4
  <2> QED
    BY <2>1, <1>3 DEF Call
<1>6. Tail(todo) \in Seq(Calls(ast_head)) /\ <<>> \o Tail(todo) = Tail(todo)
  BY <1>3, HeadTailProperties, ConcatEmptySeq
<1>7. /\ \A k \in 1 .. b - 1 : todo[k].do \in InnerCalls
      /\ b > 0 => todo[b].do \in EndCalls
      /\ \A k \in b + 1 .. m : todo[k].do \in Outer
  BY <1>2, <1>4 DEF Walk, Heights
<1>8. Call.do \notin Outer => b # 0
  <2>1. b = 0 => 1 \in b + 1 .. m
    BY <1>4
  <2> QED
    BY <2>1, <1>5, <1>7
<1>9. Call.do \in InnerCalls \ {"arguments"} => 1 \in 1 .. b - 1
  <2>1. SUFFICES ASSUME Call.do \in InnerCalls \ {"arguments"} PROVE 1 \in 1 .. b - 1
    OBVIOUS
  <2>2. b # 0
    BY <2>1, <1>8 DEF InnerCalls, Outer
  <2>3. Call.do \notin EndCalls
    BY <2>1 DEF InnerCalls, EndCalls
  <2>4. b # 1
    BY <2>3, <1>5, <1>7
  <2> QED
    BY <2>2, <2>4
<1>10. Call.do \in EndCalls \ {"arguments"} => b = 1
  <2>1. SUFFICES ASSUME Call.do \in EndCalls \ {"arguments"} PROVE b = 1
    OBVIOUS
  <2>2. b # 0
    BY <2>1, <1>8 DEF EndCalls, Outer
  <2>3. Call.do \notin InnerCalls
    BY <2>1 DEF InnerCalls, EndCalls
  <2>4. 1 \notin 1 .. b - 1
    BY <2>3, <1>5, <1>7
  <2> QED
    BY <2>2, <2>4
<1> QED
  BY <1>1, <1>2, <1>3, <1>5, <1>6, <1>8, <1>9, <1>10

(* A call that returns leaves a walk behind, also when it has overwritten  *)
(* a type.                                                                 *)
LEMMA Popped ==
  ASSUME Inv, todo # <<>>,
         NEW h \in Seq(Nat), NEW b \in Nat, b # 0,
         NEW tys, Walk(ast_head, tys, todo, values, h, b), types' = tys,
         UNCHANGED ast_head, Replace(<<>>),
         NEW r \in Seq(TypeWords), Len(r) = Gives(Call),
         values' = Before(Uses(Call)) \o r,
         Call.do = "expr" => Call.arg = None,
         Call.do = "node" /\ Call.arg.kind = "ID" /\ r[1][1] = "AUTO" =>
           Call.arg.val \in DOMAIN tys /\ tys[Call.arg.val].kind = "AUTO",
         Len(r) = 1 /\ Tainted(r[1]) =>
           \/ \E c \in DOMAIN tys : Explains(tys, c)
           \/ Call.do = "expr" /\ r[1] = NULL
  PROVE  WalkInv'
<1>1. Call = todo[1] /\ ast_head \in Programs
  BY CallNow
<1>2. PICK c : c = todo[1]
  OBVIOUS
<1>3. todo' = Tail(todo)
  BY CallNow DEF Replace
<1>4. values' = SubSeq(values, 1, Len(values) - Uses(c)) \o r
  BY <1>1, <1>2 DEF Before
<1>5. PICK h1 \in Seq(Nat), b1 \in Nat :
        Walk(ast_head, tys, Tail(todo), SubSeq(values, 1, Len(values) - Uses(todo[1])) \o r, h1, b1)
  <2>1. MayReturn(tys, Call, r)
    BY DEF MayReturn
  <2>2. MayReturn(tys, todo[1], r) /\ Len(r) = Gives(todo[1])
    BY <2>1, <1>1
  <2>3. WalksTo(ast_head, tys, Tail(todo), SubSeq(values, 1, Len(values) - Uses(todo[1])) \o r, b - 1)
    BY <2>2, <1>1, PopWalk
  <2> QED
    BY <2>3 DEF WalksTo
<1>6. Walk(ast_head', types', todo', values', h1, b1)
  BY <1>2, <1>3, <1>4, <1>5
<1> QED
  BY <1>6 DEF WalkInv

(* What the next call takes. *)
LEMMA Taken ==
  ASSUME Inv, todo # <<>>, Call.do \notin Outer
  PROVE  LET u == Uses(Call)
             v == Latest(u)
         IN  /\ u \in Nat /\ v \in Seq(TypeWords) /\ Len(v) = u
             /\ \A i \in 1 .. u : Tainted(v[i]) =>
                  Missing \/ (v[i] = NULL /\ Call.do \in Lenient)
             /\ Call.do \notin Lenient => (SomeTainted(v) => Missing)
<1>1. PICK h \in Seq(Nat), b \in Nat : Walk(ast_head, types, todo, values, h, b) /\ b # 0
  BY CallNow
<1>2. ast_head \in Programs /\ Call = todo[1]
  BY CallNow
<1>3. PICK v \in Seq(TypeWords), u \in Nat : Operands(types, todo, values, b, v, u)
  BY <1>1, <1>2, OperandTypes
<1>4. /\ u = Uses(todo[1])
      /\ v = SubSeq(values, Len(values) - u + 1, Len(values))
      /\ Len(v) = u
      /\ \A i \in 1 .. u : Tainted(v[i]) =>
           \/ \E c \in DOMAIN types : Explains(types, c)
           \/ b = 1 /\ v[i] = NULL /\ todo[1].do \in Lenient
  BY <1>3 DEF Operands
<1>5. Latest(Uses(Call)) = v
  BY <1>2, <1>4 DEF Latest
<1>6. \A i \in 1 .. u : Tainted(v[i]) => Missing \/ (v[i] = NULL /\ Call.do \in Lenient)
  BY <1>2, <1>4 DEF Missing
<1>7. Call.do \notin Lenient => (SomeTainted(v) => Missing)
  BY <1>4, <1>6 DEF SomeTainted
<1> QED
  BY <1>2, <1>4, <1>5, <1>6, <1>7

(* What the next call has copied. *)
LEMMA CopiedThen ==
  ASSUME Inv, todo # <<>>, Call.do \in {"call", "argument"},
         \E w \in Copied(Call) : Tainted(w)
  PROVE  Missing
<1>1. PICK h \in Seq(Nat), b \in Nat :
        Walk(ast_head, types, todo, values, h, b) /\ 1 \in 1 .. b - 1
  BY CallNow DEF InnerCalls
<1>2. Call = todo[1]
  BY CallNow
<1>3. PICK c \in DOMAIN types : Explains(types, c)
  BY <1>1, <1>2 DEF Walk, CopiesExplained
<1> QED
  BY <1>3 DEF Missing

(* A step that does not crash, and one that does. *)
LEMMA RunsOn ==
  ASSUME Inv, UNCHANGED ast_head, WalkInv', type_err' \in BOOLEAN, status' = "running"
  PROVE  Inv'
BY CrashExplainedBy DEF Inv, CrashExplained

(* A NULL pointer is followed. *)
LEMMA Crashes ==
  ASSUME Inv, UNCHANGED <<ast_head, types, todo, values, type_err>>, status' = "crashed",
         CrashBody
  PROVE  Inv'
<1>1. CrashBody'
  BY DEF CrashBody, Missing, Call, Latest
<1>2. CrashExplained'
  BY <1>1 DEF CrashExplained, CrashBody, Missing, Explains
<1>3. WalkInv'
  BY DEF Inv, WalkInv
<1> QED
  BY <1>2, <1>3 DEF Inv

(* A handler concludes: it crashes, or the walk goes on. *)
LEMMA Concluding ==
  ASSUME Inv, todo # <<>>, status = "running", UNCHANGED ast_head,
         NEW n, NEW verdict, NEW r, Conclude(n, verdict, r),
         verdict.crash /\ status' = "crashed" => CrashBody /\ types' = types,
         ~ verdict.crash /\ status' = "running" /\ Replace(<<>>) /\ values' = Before(n) \o r
           => WalkInv'
  PROVE  Inv'
<1>1. CASE verdict.crash
  <2>1. status' = "crashed" /\ UNCHANGED <<todo, values, type_err>>
    BY <1>1 DEF Conclude
  <2> QED
    BY <2>1, <1>1, Crashes
<1>2. CASE ~ verdict.crash
  <2>1. /\ type_err' = (type_err \/ verdict.bad)
        /\ values' = Before(n) \o r /\ Replace(<<>>) /\ status' = "running"
    BY <1>2 DEF Conclude
  <2>2. type_err' \in BOOLEAN
    BY <2>1
  <2> QED
    BY <2>1, <2>2, <1>2, RunsOn
<1> QED
  BY <1>1, <1>2

(* A handler that leaves the struct types alone. *)
LEMMA Concludes ==
  ASSUME Inv, todo # <<>>, status = "running", UNCHANGED <<ast_head, types>>,
         Call.do \notin Outer, Call.do # "expr",
         NEW verdict, NEW r \in Seq(TypeWords), Len(r) = Gives(Call),
         Conclude(Uses(Call), verdict, r),
         verdict.crash => CrashBody,
         ~ verdict.crash /\ Call.do = "node" /\ Call.arg.kind = "ID" /\ r[1][1] = "AUTO" =>
           Call.arg.val \in DOMAIN types /\ types[Call.arg.val].kind = "AUTO",
         ~ verdict.crash /\ Len(r) = 1 /\ Tainted(r[1]) => Missing
  PROVE  Inv'
<1>1. ASSUME ~ verdict.crash, Replace(<<>>), values' = Before(Uses(Call)) \o r
      PROVE  WalkInv'
  <2>1. PICK h \in Seq(Nat), b \in Nat : Walk(ast_head, types, todo, values, h, b) /\ b # 0
    BY CallNow
  <2>2. Len(r) = 1 /\ Tainted(r[1]) =>
          \/ \E c \in DOMAIN types : Explains(types, c)
          \/ Call.do = "expr" /\ r[1] = NULL
    BY <1>1 DEF Missing
  <2>3. Call.do = "node" /\ Call.arg.kind = "ID" /\ r[1][1] = "AUTO" =>
          Call.arg.val \in DOMAIN types /\ types[Call.arg.val].kind = "AUTO"
    BY <1>1
  <2>4. PICK tys : tys = types
    OBVIOUS
  <2>5. /\ Walk(ast_head, tys, todo, values, h, b) /\ types' = tys /\ UNCHANGED ast_head
        /\ Len(r) = 1 /\ Tainted(r[1]) =>
             \/ \E c \in DOMAIN tys : Explains(tys, c)
             \/ Call.do = "expr" /\ r[1] = NULL
        /\ Call.do = "node" /\ Call.arg.kind = "ID" /\ r[1][1] = "AUTO" =>
             Call.arg.val \in DOMAIN tys /\ tys[Call.arg.val].kind = "AUTO"
    BY <2>1, <2>2, <2>3, <2>4
  <2> QED
    BY <1>1, <2>1, <2>5, Popped
<1> QED
  BY <1>1, Concluding

(* What the handlers drop, and what is left when they take nothing.        *)
LEMMA Remaining ==
  ASSUME Inv, todo # <<>>
  PROVE  /\ Before(0) = values
         /\ \A n \in Nat : n <= Len(values) => Before(n) \o <<>> = Before(n)
         /\ Append(values, NULL) = Before(0) \o <<NULL>>
<1>1. values \in Seq(TypeWords) /\ NULL \in TypeWords
  BY CallNow, Words
<1>2. Len(values) \in Nat
  BY ONLY <1>1, LenProperties, Zenon
<1>3. Before(0) = values
  <2>1. Len(values) - 0 = Len(values)
    BY <1>2
  <2> QED
    BY <2>1, <1>1, SubSeqFull DEF Before
<1>4. ASSUME NEW n \in Nat, n <= Len(values) PROVE Before(n) \o <<>> = Before(n)
  <2>1. \A i \in 1 .. Len(values) - n : values[i] \in TypeWords
    BY <1>1, <1>2
  <2>2. SubSeq(values, 1, Len(values) - n) \in Seq(TypeWords)
    BY <2>1, <1>2, SubSeqProperties
  <2> QED
    BY <2>2, ConcatEmptySeq DEF Before
<1>5. Append(values, NULL) = values \o <<NULL>>
  BY <1>1
<1> QED
  BY <1>3, <1>4, <1>5

-----------------------------------------------------------------------------
(***************************************************************************)
(* The handlers of expressions that return.                                *)
(***************************************************************************)

(* A sequence of one. *)
LEMMA Single ==
  ASSUME NEW S, NEW x \in S
  PROVE  <<x>> \in Seq(S) /\ Len(<<x>>) = 1 /\ <<x>>[1] = x
OBVIOUS

(* The empty sequence. *)
LEMMA Nothing ==
  ASSUME NEW S
  PROVE  <<>> \in Seq(S) /\ Len(<<>>) = 0
OBVIOUS

(* A sequence of known length, by its members. *)
LEMMA Lone ==
  ASSUME NEW S, NEW x \in Seq(S)
  PROVE  /\ Len(x) = 1 => x = <<x[1]>>
         /\ Len(x) = 2 => x = <<x[1], x[2]>>
         /\ Len(x) = 3 => x = <<x[1], x[2], x[3]>>
<1>1. Len(x) = 1 => x = <<x[1]>>
  OBVIOUS
<1>2. Len(x) = 2 => x = <<x[1], x[2]>>
  OBVIOUS
<1>3. Len(x) = 3 => x = <<x[1], x[2], x[3]>>
  OBVIOUS
<1> QED
  BY <1>1, <1>2, <1>3

(* A part of a sequence. *)
LEMMA Span ==
  ASSUME NEW S, NEW x \in Seq(S), NEW m \in Nat, NEW n \in Nat, 1 <= m, m <= n, n <= Len(x)
  PROVE  /\ SubSeq(x, m, n) \in Seq(S) /\ Len(SubSeq(x, m, n)) = n - m + 1
         /\ \A i \in 1 .. n - m + 1 : SubSeq(x, m, n)[i] = x[m + i - 1]
OBVIOUS

(* A sequence of two. *)
LEMMA Pair ==
  ASSUME NEW S, NEW x \in S, NEW y \in S
  PROVE  /\ <<x, y>> \in Seq(S) /\ Len(<<x, y>>) = 2 /\ <<x, y>>[1] = x /\ <<x, y>>[2] = y
         /\ <<x>> \o <<y>> = <<x, y>>
<1>1. <<x, y>> \in Seq(S) /\ Len(<<x, y>>) = 2
  OBVIOUS
<1>2. <<x, y>>[1] = x /\ <<x, y>>[2] = y
  OBVIOUS
<1>3. <<x>> \o <<y>> = <<x, y>>
  <2>1. PICK v, w : v = <<x>> /\ w = <<y>>
    OBVIOUS
  <2>2. v \in Seq(S) /\ Len(v) = 1 /\ v[1] = x /\ w \in Seq(S) /\ Len(w) = 1 /\ w[1] = y
    BY <2>1, Single
  <2>3. PICK z : z = v \o w
    OBVIOUS
  <2>4. /\ z \in Seq(S) /\ Len(z) = Len(v) + Len(w)
        /\ \A k \in 1 .. Len(v) : z[k] = v[k]
        /\ \A k \in Len(v) + 1 .. Len(v) + Len(w) : z[k] = w[k - Len(v)]
    BY <2>2, <2>3, Joined
  <2>5. z \in Seq(S) /\ Len(z) = 2 /\ z[1] = x /\ z[2] = y
    BY <2>2, <2>4
  <2>6. z = <<z[1], z[2]>>
    BY <2>5, Lone
  <2> QED
    BY <2>1, <2>3, <2>5, <2>6
<1> QED
  BY <1>1, <1>2, <1>3

(* A sequence of three. *)
LEMMA Triple ==
  ASSUME NEW S, NEW x \in S, NEW y \in S, NEW z \in S
  PROVE  /\ <<x, y, z>> \in Seq(S) /\ Len(<<x, y, z>>) = 3
         /\ <<x, y, z>>[1] = x /\ <<x, y, z>>[2] = y /\ <<x, y, z>>[3] = z
OBVIOUS

(* A sequence without its head. *)
LEMMA Rest ==
  ASSUME NEW S, NEW x \in Seq(S), x # <<>>
  PROVE  /\ Tail(x) \in Seq(S) /\ Len(Tail(x)) = Len(x) - 1 /\ Len(x) \in Nat
         /\ \A i \in 1 .. Len(x) - 1 : Tail(x)[i] = x[i + 1]
OBVIOUS

(* Three sequences, one behind the other. *)
LEMMA Grouped ==
  ASSUME NEW S, NEW x \in Seq(S), NEW y \in Seq(S), NEW z \in Seq(S)
  PROVE  (x \o y) \o z = x \o (y \o z)
BY ConcatAssociative

(* A sequence over a set is one over every larger set. *)
LEMMA Widened ==
  ASSUME NEW S, NEW T, S \subseteq T, NEW x \in Seq(S)
  PROVE  x \in Seq(T)
OBVIOUS

(* The parts of a loop and of an if, by their positions. *)
LEMMA Cut ==
  ASSUME NEW S, NEW x \in Seq(S)
  PROVE  /\ Len(x) = 4 => SubSeq(x, 1, 3) = <<x[1], x[2], x[3]>> /\ SubSeq(x, 4, 4) = <<x[4]>>
         /\ Len(x) = 3 => SubSeq(x, 1, 1) = <<x[1]>> /\ SubSeq(x, 2, 3) = <<x[2], x[3]>>
<1>1. ASSUME Len(x) = 4 PROVE SubSeq(x, 1, 3) = <<x[1], x[2], x[3]>>
  <2>1. PICK y : y = SubSeq(x, 1, 3)
    OBVIOUS
  <2>2. /\ y \in Seq(S) /\ Len(y) = 3 - 1 + 1
        /\ \A i \in 1 .. 3 - 1 + 1 : y[i] = x[1 + i - 1]
    <3>1. 1 \in Nat /\ 3 \in Nat /\ 1 <= 1 /\ 1 <= 3 /\ 3 <= Len(x)
      BY <1>1
    <3>2. x \in Seq(S)
      OBVIOUS
    <3> QED
      BY ONLY <2>1, <3>1, <3>2, Span
  <2>3. y \in Seq(S) /\ Len(y) = 3 /\ y[1] = x[1] /\ y[2] = x[2] /\ y[3] = x[3]
    BY ONLY <2>2
  <2>4. y = <<y[1], y[2], y[3]>>
    BY <2>3, Lone
  <2> QED
    BY <2>1, <2>3, <2>4
<1>2. ASSUME Len(x) = 4 PROVE SubSeq(x, 4, 4) = <<x[4]>>
  <2>1. PICK y : y = SubSeq(x, 4, 4)
    OBVIOUS
  <2>2. /\ y \in Seq(S) /\ Len(y) = 4 - 4 + 1
        /\ \A i \in 1 .. 4 - 4 + 1 : y[i] = x[4 + i - 1]
    BY <2>1, <1>2, Span
  <2>3. y \in Seq(S) /\ Len(y) = 1 /\ y[1] = x[4]
    BY ONLY <2>2
  <2>4. y = <<y[1]>>
    BY <2>3, Lone
  <2> QED
    BY <2>1, <2>3, <2>4
<1>3. ASSUME Len(x) = 3 PROVE SubSeq(x, 1, 1) = <<x[1]>>
  <2>1. PICK y : y = SubSeq(x, 1, 1)
    OBVIOUS
  <2>2. /\ y \in Seq(S) /\ Len(y) = 1 - 1 + 1
        /\ \A i \in 1 .. 1 - 1 + 1 : y[i] = x[1 + i - 1]
    BY <2>1, <1>3, Span
  <2>3. y \in Seq(S) /\ Len(y) = 1 /\ y[1] = x[1]
    BY ONLY <2>2
  <2>4. y = <<y[1]>>
    BY <2>3, Lone
  <2> QED
    BY <2>1, <2>3, <2>4
<1>4. ASSUME Len(x) = 3 PROVE SubSeq(x, 2, 3) = <<x[2], x[3]>>
  <2>1. PICK y : y = SubSeq(x, 2, 3)
    OBVIOUS
  <2>2. /\ y \in Seq(S) /\ Len(y) = 3 - 2 + 1
        /\ \A i \in 1 .. 3 - 2 + 1 : y[i] = x[2 + i - 1]
    <3>1. 2 \in Nat /\ 3 \in Nat /\ 1 <= 2 /\ 2 <= 3 /\ 3 <= Len(x)
      BY <1>4
    <3>2. x \in Seq(S)
      OBVIOUS
    <3> QED
      BY ONLY <2>1, <3>1, <3>2, Span
  <2>3. y \in Seq(S) /\ Len(y) = 2 /\ y[1] = x[2] /\ y[2] = x[3]
    BY ONLY <2>2
  <2>4. y = <<y[1], y[2]>>
    BY <2>3, Lone
  <2> QED
    BY <2>1, <2>3, <2>4
<1> QED
  BY <1>1, <1>2, <1>3, <1>4

(* expr_typecheck of NULL returns NULL. *)
LEMMA SkipNullStep ==
  ASSUME Inv, SkipNull
  PROVE  Inv'
<1>1. /\ status = "running" /\ todo # <<>> /\ Call.do = "expr" /\ Call.arg.kind = "NONE"
      /\ values' = Append(values, NULL) /\ Replace(<<>>)
      /\ UNCHANGED <<ast_head, types, type_err, status>>
  BY DEF SkipNull, Ready, Quietly
<1>2. Call.arg = None
  <2>1. ast_head \in Programs /\ Call \in Calls(ast_head)
    BY <1>1, CallNow
  <2>2. Call.arg \in Exprs(ast_head) \cup {None}
    BY <2>1, <1>1, CallForms
  <2> QED
    BY <2>1, <2>2, <1>1, OperandFacts
<1>3. Uses(Call) = 0 /\ Gives(Call) = 1
  BY <1>1, CallNow, CallCounts
<1>4. values' = Before(Uses(Call)) \o <<NULL>>
  BY <1>1, <1>3, Remaining
<1>5. PICK h \in Seq(Nat), b \in Nat : Walk(ast_head, types, todo, values, h, b) /\ b # 0
  BY <1>1, CallNow DEF Outer
<1>6. PICK tys : tys = types /\ Walk(ast_head, tys, todo, values, h, b) /\ types' = tys
  BY <1>1, <1>5
<1>7. PICK r : r = <<NULL>> /\ r \in Seq(TypeWords) /\ Len(r) = 1 /\ r[1] = NULL
  BY Words, Single
<1>8. values' = Before(Uses(Call)) \o r
  BY <1>4, <1>7
<1>9. WalkInv'
  BY <1>1, <1>2, <1>3, <1>5, <1>6, <1>7, <1>8, Popped
<1> QED
  BY <1>1, <1>9, RunsOn DEF Inv

(* A node concludes from the types of its operands. *)
LEMMA CheckNodeStep ==
  ASSUME Inv, CheckNode
  PROVE  Inv'
<1>1. PICK e, v, w :
        /\ e = Call.arg /\ v = Latest(Len(e.sub)) /\ w = Rule(e, v)
        /\ status = "running" /\ todo # <<>> /\ Call.do = "node" /\ e.kind # "ASSIGN"
        /\ Conclude(Len(e.sub), w, <<w.type>>)
        /\ UNCHANGED <<ast_head, types>>
  BY DEF CheckNode, Ready
<1>2. /\ ast_head \in Programs /\ TypesOf(types, ast_head) /\ Call \in Calls(ast_head)
  BY <1>1, CallNow
<1>3. e \in Exprs(ast_head) /\ e.kind # "FCALL"
  BY <1>1, <1>2, CallForms
<1>4. Uses(Call) = Len(e.sub) /\ Gives(Call) = 1
  BY <1>1, <1>2, CallCounts
<1>5. v \in Seq(TypeWords) /\ Len(v) = Len(e.sub) /\ (SomeTainted(v) => Missing)
  BY <1>1, <1>4, Taken DEF Outer, Lenient
<1>6. /\ w.type \in TypeWords
      /\ e.kind = "ID" => /\ e.val \in 0 .. Len(types)
                          /\ w.type = type_copy[e.val]
                          /\ w.crash = (e.val = 0)
      /\ w.crash \/ Tainted(w.type) =>
           SomeTainted(v) \/ (e.kind = "ID" /\ e.val = 0) \/ Missing
  BY <1>1, <1>2, <1>3, <1>5, RuleFacts DEF Missing
<1>7. w.crash => CrashBody
  BY <1>1, <1>5, <1>6 DEF CrashBody
<1>8. ~ w.crash /\ e.kind = "ID" /\ w.type[1] = "AUTO" =>
        e.val \in DOMAIN types /\ types[e.val].kind = "AUTO"
  <2>1. SUFFICES ASSUME ~ w.crash, e.kind = "ID", w.type[1] = "AUTO"
                 PROVE  e.val \in DOMAIN types /\ types[e.val].kind = "AUTO"
    OBVIOUS
  <2>2. PICK n \in Nat : n = Len(types) /\ DOMAIN types = 1 .. n
    BY <1>2, TableFacts
  <2>3. e.val \in 1 .. n
    <3>1. e.val \in 0 .. n /\ w.crash = (e.val = 0)
      BY <2>1, <2>2, <1>6
    <3>2. e.val # 0
      BY <2>1, <3>1
    <3> QED
      BY <3>1, <3>2
  <2>4. type_copy[e.val][1] = types[e.val].kind
    BY <2>2, <2>3, <1>2, CopyFacts
  <2>5. w.type = type_copy[e.val]
    BY <2>1, <1>6
  <2> QED
    BY <2>1, <2>2, <2>3, <2>4, <2>5
<1>9. ~ w.crash /\ Tainted(w.type) => Missing
  BY <1>5, <1>6
<1>10. PICK r : r = <<w.type>> /\ r \in Seq(TypeWords) /\ Len(r) = 1 /\ r[1] = w.type
  BY <1>6, Single
<1>11. Call.do \notin Outer /\ Call.do # "expr"
  BY <1>1 DEF Outer
<1> QED
  BY <1>1, <1>4, <1>7, <1>8, <1>9, <1>10, <1>11, Concludes

(* A list of arguments is checked. *)
LEMMA CheckArgumentsStep ==
  ASSUME Inv, CheckArguments
  PROVE  Inv'
<1>1. PICK v, w :
        /\ v = Latest(Call.arg)
        /\ w = IF v = <<>> THEN Verdict(NULL, FALSE, FALSE) ELSE List(v)
        /\ status = "running" /\ todo # <<>> /\ Call.do = "arguments"
        /\ Conclude(Call.arg, w, <<>>)
        /\ UNCHANGED <<ast_head, types>>
  BY DEF CheckArguments, Ready
<1>2. ast_head \in Programs /\ Call \in Calls(ast_head)
  BY <1>1, CallNow
<1>3. Uses(Call) = Call.arg /\ Gives(Call) = 0
  BY <1>1, <1>2, CallCounts
<1>4. v \in Seq(TypeWords) /\ (SomeTainted(v) => Missing)
  BY <1>1, <1>3, Taken DEF Outer, Lenient
<1>5. w.crash => CrashBody
  <2>1. w.crash => v # <<>> /\ List(v).crash
    BY <1>1 DEF Verdict
  <2> QED
    BY <2>1, <1>4, ListFacts DEF CrashBody
<1>6. Call.do \notin Outer /\ Call.do # "expr" /\ Call.do # "node"
  BY <1>1 DEF Outer
<1>7. PICK r : r = <<>> /\ r \in Seq(TypeWords) /\ Len(r) = 0
  BY Nothing
<1> QED
  <2>1. Conclude(Uses(Call), w, r)
    <3>1. Conclude(Call.arg, w, <<>>)
      BY <1>1
    <3> QED
      BY ONLY <3>1, <1>3, <1>7, Zenon
  <2>2. Len(r) = Gives(Call) /\ Len(r) # 1
    BY ONLY <1>3, <1>7
  <2> QED
    BY <2>1, <2>2, <1>1, <1>5, <1>6, <1>7, Concludes

(* The types that a call of a function has copied. *)
LEMMA SnapshotFacts ==
  ASSUME Inv, todo # <<>>, Call.do = "call"
  PROVE  LET c == Call.arg IN
         /\ Call \in Calls(ast_head) /\ Call = Do("call", c)
         /\ c \in Snapshots(ast_head)
         /\ c.type \in TypeWords /\ c.result \in TypeWords
         /\ c.params \in Seq(TypeWords) /\ c.args \in Seq(Exprs(ast_head))
         /\ Tainted(c.type) => Missing
         /\ Kind(c.type) = "FUNCTION" =>
              /\ Tainted(c.result) => Missing
              /\ \A i \in 1 .. Len(c.params) : Tainted(c.params[i]) => Missing
<1>1. PICK c : c = Call.arg
  OBVIOUS
<1>2. ast_head \in Programs /\ Call \in Calls(ast_head)
  BY CallNow
<1>3. c \in Snapshots(ast_head) /\ Call = Do("call", c)
  BY <1>1, <1>2, CallForms
<1>4. /\ c.type \in TypeWords /\ c.result \in TypeWords
      /\ c.params \in Seq(TypeWords) /\ c.args \in Seq(Exprs(ast_head))
  BY <1>3 DEF Snapshots
<1>5. /\ c.type \in Copied(Call)
      /\ Kind(c.type) = "FUNCTION" => c.result \in Copied(Call) /\ Range(c.params) \subseteq Copied(Call)
  BY <1>1 DEF Copied, Kind
<1>6. \A i \in 1 .. Len(c.params) : c.params[i] \in Range(c.params)
  <2>1. DOMAIN c.params = 1 .. Len(c.params)
    BY <1>4
  <2> QED
    BY <2>1 DEF Range
<1>7. \A x \in Copied(Call) : Tainted(x) => Missing
  BY CopiedThen
<1> QED
  BY <1>1, <1>2, <1>3, <1>4, <1>5, <1>6, <1>7

(* What is called is no function. *)
LEMMA CallNonFunctionStep ==
  ASSUME Inv, CallNonFunction
  PROVE  Inv'
<1>1. PICK t, w :
        /\ t = Call.arg.type /\ w = Verdict(t, TRUE, Unprintable({t}))
        /\ status = "running" /\ todo # <<>> /\ Call.do = "call"
        /\ Conclude(0, w, <<t>>)
        /\ UNCHANGED <<ast_head, types>>
  BY DEF CallNonFunction, Ready
<1>2. t \in TypeWords /\ (Tainted(t) => Missing) /\ Call \in Calls(ast_head) /\ ast_head \in Programs
  BY <1>1, SnapshotFacts, CallNow
<1>3. Uses(Call) = 0 /\ Gives(Call) = 1
  BY <1>1, <1>2, CallCounts
<1>4. w.crash => CrashBody
  <2>1. w.crash => Unprintable({t})
    BY <1>1 DEF Verdict
  <2> QED
    BY <2>1, <1>2, PrintedFacts DEF CrashBody
<1>5. Call.do \notin Outer /\ Call.do # "expr" /\ Call.do # "node"
  BY <1>1 DEF Outer
<1>6. PICK r : r = <<t>> /\ r \in Seq(TypeWords) /\ Len(r) = 1 /\ r[1] = t
  BY <1>2, Single
<1> QED
  BY <1>1, <1>2, <1>3, <1>4, <1>5, <1>6, Concludes

(* A call is worth what its function returns. *)
LEMMA CallReturnsStep ==
  ASSUME Inv, CallReturns
  PROVE  Inv'
<1>1. PICK c, w :
        /\ c = Call.arg /\ w = Verdict(c.result, c.args # c.params, FALSE)
        /\ status = "running" /\ todo # <<>> /\ Call.do = "call"
        /\ Kind(c.type) = "FUNCTION"
        /\ Conclude(0, w, <<c.result>>)
        /\ UNCHANGED <<ast_head, types>>
  BY DEF CallReturns, Ready
<1>2. /\ c.result \in TypeWords /\ (Tainted(c.result) => Missing)
      /\ Call \in Calls(ast_head) /\ ast_head \in Programs
  BY <1>1, SnapshotFacts, CallNow
<1>3. Uses(Call) = 0 /\ Gives(Call) = 1
  BY <1>1, <1>2, CallCounts
<1>4. ~ w.crash
  BY <1>1 DEF Verdict
<1>5. Call.do \notin Outer /\ Call.do # "expr" /\ Call.do # "node"
  BY <1>1 DEF Outer
<1>6. PICK r : r = <<c.result>> /\ r \in Seq(TypeWords) /\ Len(r) = 1 /\ r[1] = c.result
  BY <1>2, Single
<1> QED
  BY <1>1, <1>2, <1>3, <1>4, <1>5, <1>6, Concludes

(* An argument is compared with its parameter. *)
LEMMA CheckArgumentStep ==
  ASSUME Inv, CheckArgument
  PROVE  Inv'
<1>1. PICK t, q, w :
        /\ t = Latest(1)[1] /\ q = Call.arg /\ w = Agree(t, q, Kind(t) \in Unusable, t)
        /\ status = "running" /\ todo # <<>> /\ Call.do = "argument"
        /\ Conclude(1, w, <<>>)
        /\ UNCHANGED <<ast_head, types>>
  BY DEF CheckArgument, Ready
<1>2. ast_head \in Programs /\ Call \in Calls(ast_head)
  BY <1>1, CallNow
<1>3. Uses(Call) = 1 /\ Gives(Call) = 0
  BY <1>1, <1>2, CallCounts
<1>4. q \in TypeWords
  BY <1>1, <1>2, CallForms
<1>5. t \in TypeWords /\ (Tainted(t) => Missing)
  <2>1. /\ Latest(1) \in Seq(TypeWords) /\ Len(Latest(1)) = 1
        /\ SomeTainted(Latest(1)) => Missing
    BY <1>1, <1>3, Taken DEF Outer, Lenient
  <2> QED
    BY <2>1, <1>1 DEF SomeTainted
<1>6. Tainted(q) => Missing
  <2>1. q \in Copied(Call)
    BY <1>1 DEF Copied
  <2> QED
    BY <2>1, <1>1, CopiedThen
<1>7. w.crash => CrashBody
  BY <1>1, <1>4, <1>5, <1>6, AgreeFacts DEF CrashBody
<1>8. Call.do \notin Outer /\ Call.do # "expr" /\ Call.do # "node"
  BY <1>1 DEF Outer
<1>9. PICK r : r = <<>> /\ r \in Seq(TypeWords) /\ Len(r) = 0
  BY Nothing
<1> QED
  <2>1. Conclude(Uses(Call), w, r) /\ Len(r) = Gives(Call) /\ Len(r) # 1
    BY <1>1, <1>3, <1>9
  <2> QED
    BY <2>1, <1>1, <1>7, <1>8, <1>9, Concludes

(* A function that resolve has not seen is called. *)
LEMMA CallUnresolvedStep ==
  ASSUME Inv, CallUnresolved
  PROVE  Inv'
<1>1. /\ Call.do = "expr" /\ Call.arg.kind = "FCALL" /\ Call.arg.val = 0
      /\ status' = "crashed" /\ UNCHANGED <<ast_head, types, todo, values, type_err>>
  BY DEF CallUnresolved, Ready
<1>2. CrashBody
  BY <1>1 DEF CrashBody
<1> QED
  BY <1>1, <1>2, Crashes

(* A variable of type auto is assigned to. *)
LEMMA AssignWalk ==
  ASSUME Inv, todo # <<>>, Call.do = "node", Call.arg.kind = "ASSIGN",
         Call.arg.sub[1].kind = "ID",
         Kind(Latest(2)[1]) = "AUTO", Kind(Latest(2)[2]) \in TypeKinds,
         NEW h \in Seq(Nat), NEW b \in Nat, Walk(ast_head, types, todo, values, h, b),
         1 \in 1 .. b - 1
  PROVE  Walk(ast_head, [types EXCEPT ![Call.arg.sub[1].val].kind = Kind(Latest(2)[2])],
              todo, values, h, b)
<1>1. ast_head \in Programs /\ Call = todo[1] /\ Call \in Calls(ast_head) /\ values \in Seq(TypeWords)
  BY CallNow
<1>2. PICK n \in Nat : n = Len(values)
  BY <1>1
<1>3. ToVariable(Call)
  BY DEF ToVariable
<1>4. Uses(Call) = 2
  BY <1>1, <1>3, VariableFacts
<1>5. h[1] = n /\ n >= 2
  <2>1. 1 \in 1 .. Len(todo)
    BY DEF Walk, Heights
  <2>2. h[1] = n /\ h[1] >= Uses(todo[1])
    BY <2>1, <1>2 DEF Walk, Heights
  <2> QED
    BY <2>2, <1>1, <1>4
<1>6. Latest(2)[1] = values[n - 1] /\ Latest(2)[2] = values[n]
  <2>1. Latest(2) = SubSeq(values, n - 1, n)
    <3>1. n - 2 + 1 = n - 1
      BY <1>5
    <3> QED
      BY <3>1, <1>2 DEF Latest
  <2>2. PICK x \in Nat : x = n - 1
    BY <1>5
  <2>3. \A i \in x .. n : values[i] \in TypeWords
    BY <2>2, <1>1, <1>2, <1>5
  <2>4. \A i \in 1 .. n - x + 1 : SubSeq(values, x, n)[i] = values[x + i - 1]
    BY <2>3, SubSeqProperties
  <2>5. 1 \in 1 .. n - x + 1 /\ 2 \in 1 .. n - x + 1 /\ x + 1 - 1 = n - 1 /\ x + 2 - 1 = n
    BY <2>2
  <2> QED
    BY <2>1, <2>2, <2>4, <2>5
<1>7. PICK c : c = Call.arg.sub[1].val
  OBVIOUS
<1>8. values[h[1] - 1][1] = "AUTO"
  BY <1>5, <1>6 DEF Kind
<1>9. Overwrites(todo, values, h, 1, c)
  <2>1. h[1] <= Len(values) + 1
    BY <1>2, <1>5
  <2> QED
    BY <2>1, <1>1, <1>3, <1>7, <1>8 DEF Overwrites, Variable
<1>10. c \in DOMAIN types /\ types[c].sub = 0
  <2>1. \/ h[1] = Len(values) + 2
        \/ values[h[1] - 1][1] = "AUTO" =>
             Variable(todo[1]) \in DOMAIN types /\ types[Variable(todo[1])].sub = 0
    BY <1>1, <1>3 DEF Walk, Assigns
  <2>2. h[1] # Len(values) + 2
    BY <1>2, <1>5
  <2> QED
    BY <2>1, <2>2, <1>1, <1>7, <1>8 DEF Variable
<1>11. PICK right \in TypeKinds : right = Kind(Latest(2)[2])
  OBVIOUS
<1>12. right = values[Len(values)][1] /\ Len(values) # 0 /\ b # 1
  BY <1>2, <1>5, <1>6, <1>11 DEF Kind
<1>13. Walk(ast_head, [types EXCEPT ![c].kind = right], todo, values, h, b)
  BY <1>1, <1>9, <1>10, <1>12, RetypeWalk
<1> QED
  BY <1>7, <1>11, <1>13

(* An assignment compares its sides, or settles the type of a variable. *)
LEMMA CheckAssignStep ==
  ASSUME Inv, CheckAssign
  PROVE  Inv'
<1>1. /\ status = "running" /\ todo # <<>> /\ Call.do = "node" /\ Call.arg.kind = "ASSIGN"
      /\ UNCHANGED ast_head
  BY DEF CheckAssign, Ready
<1>2. PICK e, v : e = Call.arg /\ v = Latest(2)
  OBVIOUS
<1>3. PICK settles \in BOOLEAN : settles <=> Kind(v[1]) = "AUTO" /\ Kind(v[2]) # "AUTO"
  OBVIOUS
<1>4. PICK bad \in BOOLEAN : bad <=> Kind(v[2]) \in Unusable \/ ~ InMemory(e.sub[1])
  OBVIOUS
<1>5. PICK a : a = Agree(v[1], v[2], bad, v[2])
  OBVIOUS
<1>6. PICK w : w = [a EXCEPT !.crash = @ \/ (settles /\ e.sub[1].kind # "ID")]
  OBVIOUS
<1>7. /\ Conclude(2, w, <<v[2]>>)
      /\ types' = IF settles /\ status' = "running"
                  THEN [types EXCEPT ![e.sub[1].val].kind = Kind(v[2])]
                  ELSE types
  <2>1. /\ Conclude(2, [Agree(v[1], v[2], (Kind(v[2]) \in Unusable \/ ~ InMemory(e.sub[1])), v[2])
                        EXCEPT !.crash = @ \/ ((Kind(v[1]) = "AUTO" /\ Kind(v[2]) # "AUTO")
                                               /\ e.sub[1].kind # "ID")], <<v[2]>>)
        /\ types' = IF (Kind(v[1]) = "AUTO" /\ Kind(v[2]) # "AUTO") /\ status' = "running"
                    THEN [types EXCEPT ![e.sub[1].val].kind = Kind(v[2])]
                    ELSE types
    BY <1>2 DEF CheckAssign
  <2>2. /\ settles = (Kind(v[1]) = "AUTO" /\ Kind(v[2]) # "AUTO")
        /\ bad = (Kind(v[2]) \in Unusable \/ ~ InMemory(e.sub[1]))
    BY <1>3, <1>4
  <2> QED
    BY <2>1, <2>2, <1>5, <1>6
<1>8. w.crash <=> a.crash \/ (settles /\ e.sub[1].kind # "ID")
  BY <1>5, <1>6 DEF Agree, Verdict
<1>9. /\ ast_head \in Programs /\ Call \in Calls(ast_head)
      /\ Uses(Call) = 2 /\ Gives(Call) = 1
  <2>1. ast_head \in Programs /\ Call \in Calls(ast_head)
    BY <1>1, CallNow
  <2>2. Call.arg \in Exprs(ast_head)
    BY <2>1, <1>1, CallForms
  <2> QED
    BY <2>1, <2>2, <1>1, CallCounts, OperandFacts
<1>10. /\ v \in Seq(TypeWords) /\ Len(v) = 2
       /\ SomeTainted(v) => Missing
  BY <1>1, <1>2, <1>9, Taken DEF Outer, Lenient
<1>11. /\ v[1] \in TypeWords /\ v[2] \in TypeWords
       /\ Tainted(v[1]) \/ Tainted(v[2]) => Missing
  BY <1>10 DEF SomeTainted
<1>12. w.crash => CrashBody
  <2>1. a.crash => Missing
    BY <1>5, <1>11, AgreeFacts
  <2> QED
    BY <2>1, <1>1, <1>2, <1>3, <1>8 DEF CrashBody
<1>13. status' = "crashed" => types' = types
  BY <1>7
<1>14. ASSUME ~ w.crash, status' = "running", Replace(<<>>), values' = Before(2) \o <<v[2]>>
       PROVE  WalkInv'
  <2>1. PICK h \in Seq(Nat), b \in Nat :
          Walk(ast_head, types, todo, values, h, b) /\ b # 0 /\ 1 \in 1 .. b - 1
    BY <1>1, CallNow DEF InnerCalls, Outer
  <2>2. PICK tys : tys = types'
    OBVIOUS
  <2>3. Walk(ast_head, tys, todo, values, h, b)
    <3>1. CASE settles
      <4>1. Kind(v[2]) \in TypeKinds
        <5>1. v[2] # NULL
          BY <1>5, <1>8, <1>11, <1>14, AgreeFacts
        <5> QED
          BY <5>1, <1>11, WordFacts DEF Kind
      <4>2. types' = [types EXCEPT ![Call.arg.sub[1].val].kind = Kind(Latest(2)[2])]
        BY <3>1, <1>2, <1>7, <1>14
      <4>3. Call.arg.sub[1].kind = "ID"
        BY <3>1, <1>2, <1>8, <1>14
      <4>4. Kind(Latest(2)[1]) = "AUTO" /\ Kind(Latest(2)[2]) \in TypeKinds
        BY <3>1, <4>1, <1>2, <1>3
      <4> QED
        BY <4>2, <4>3, <4>4, <2>1, <2>2, <1>1, AssignWalk
    <3>2. CASE ~ settles
      BY <3>2, <2>1, <2>2, <1>7
    <3> QED
      BY <3>1, <3>2
  <2>4. Tainted(v[2]) => \E c \in DOMAIN tys : Explains(tys, c)
    <3>1. Call = todo[1]
      BY <1>1, CallNow
    <3>2. PICK x \in Seq(TypeWords), u \in Nat : Operands(tys, todo, values, b, x, u)
      BY <2>1, <2>3, <1>9, OperandTypes
    <3>3. u = 2 /\ x = v
      BY <3>1, <3>2, <1>2, <1>9 DEF Operands, Latest
    <3>4. todo[1].do \notin Lenient
      BY <3>1, <1>1 DEF Lenient
    <3> QED
      BY <3>2, <3>3, <3>4 DEF Operands
  <2>5. PICK r : r = <<v[2]>> /\ r \in Seq(TypeWords) /\ Len(r) = 1 /\ r[1] = v[2]
    BY <1>11, Single
  <2>6. values' = Before(Uses(Call)) \o r
    BY <2>5, <1>9, <1>14
  <2>7. types' = tys /\ Len(r) = Gives(Call)
    BY <2>2, <2>5, <1>9
  <2>8. Call.do # "expr" /\ Call.arg.kind # "ID"
    BY <1>1
  <2> QED
    BY <2>1, <2>3, <2>4, <2>5, <2>6, <2>7, <2>8, <1>1, <1>14, Popped
<1> QED
  BY <1>1, <1>7, <1>12, <1>13, <1>14, Concluding

-----------------------------------------------------------------------------
(***************************************************************************)
(* The handlers that end the expressions of a statement.                   *)
(***************************************************************************)

(* The one type that such a handler takes. *)
LEMMA TakenOne ==
  ASSUME Inv, todo # <<>>, Call.do \notin Outer, Uses(Call) = 1
  PROVE  /\ Latest(1)[1] \in TypeWords
         /\ Latest(1) \in Seq(TypeWords)
         /\ Len(values) \in Nat /\ 1 <= Len(values)
         /\ Tainted(Latest(1)[1]) => Missing \/ Latest(1)[1] = NULL
         /\ Call.do \notin Lenient => (SomeTainted(Latest(1)) => Missing)
<1>1. /\ Latest(1) \in Seq(TypeWords) /\ Len(Latest(1)) = 1
      /\ \A i \in 1 .. 1 : Tainted(Latest(1)[i]) =>
           Missing \/ (Latest(1)[i] = NULL /\ Call.do \in Lenient)
      /\ Call.do \notin Lenient => (SomeTainted(Latest(1)) => Missing)
  BY Taken
<1>2. values \in Seq(TypeWords)
  BY CallNow
<1>3. Len(values) \in Nat
  BY ONLY <1>2, LenProperties, Zenon
<1>4. 1 <= Len(values)
  <2>1. PICK h \in Seq(Nat), b \in Nat : Walk(ast_head, types, todo, values, h, b) /\ b # 0
    BY CallNow
  <2>2. 1 \in 1 .. Len(todo)
    BY <2>1 DEF Walk, Heights
  <2>3. h[1] = Len(values) /\ h[1] >= Uses(todo[1])
    BY <2>1, <2>2 DEF Walk, Heights
  <2> QED
    BY <2>3, <1>3, CallNow
<1> QED
  BY <1>1, <1>3, <1>4

(* The value of an expression statement is dropped. *)
LEMMA ForgetResultStep ==
  ASSUME Inv, ForgetResult
  PROVE  Inv'
<1>1. /\ status = "running" /\ todo # <<>> /\ Call.do = "forget"
      /\ values' = Before(1) /\ Replace(<<>>)
      /\ UNCHANGED <<ast_head, types, type_err, status>>
  BY DEF ForgetResult, Ready, Quietly
<1>2. ast_head \in Programs /\ Call \in Calls(ast_head)
  BY <1>1, CallNow
<1>3. Uses(Call) = 1 /\ Gives(Call) = 0
  BY <1>1, <1>2, CallCounts, CallForms
<1>4. Call.do \notin Outer /\ Call.do # "expr" /\ Call.do # "node"
  BY <1>1 DEF Outer
<1>5. values' = Before(Uses(Call)) \o <<>>
  BY <1>1, <1>3, <1>4, TakenOne, Remaining
<1>6. PICK h \in Seq(Nat), b \in Nat : Walk(ast_head, types, todo, values, h, b) /\ b # 0
  BY <1>1, <1>4, CallNow
<1>7. PICK tys : tys = types /\ Walk(ast_head, tys, todo, values, h, b) /\ types' = tys
  BY <1>1, <1>6
<1>8. PICK r : r = <<>> /\ r \in Seq(TypeWords) /\ Len(r) = 0
  BY Nothing
<1>9. values' = Before(Uses(Call)) \o r /\ Len(r) = Gives(Call) /\ Len(r) # 1
  BY <1>3, <1>5, <1>8
<1>10. WalkInv'
  BY <1>1, <1>4, <1>6, <1>7, <1>8, <1>9, Popped
<1> QED
  BY <1>1, <1>10, RunsOn DEF Inv

(* A handler that takes types and leaves none. *)
LEMMA ConcludesAll ==
  ASSUME Inv, todo # <<>>, status = "running", UNCHANGED <<ast_head, types>>,
         Call.do \in EndCalls,
         NEW n, n = Uses(Call), NEW verdict, Conclude(n, verdict, <<>>),
         verdict.crash => CrashBody
  PROVE  Inv'
<1>1. ast_head \in Programs /\ Call \in Calls(ast_head)
  BY CallNow
<1>2. Call.do \notin Outer /\ Call.do # "expr" /\ Call.do # "node" /\ Call.do # "call"
  BY DEF EndCalls, Outer
<1>3. Gives(Call) = 0
  BY <1>1, <1>2, CallCounts
<1>4. PICK r : r = <<>> /\ r \in Seq(TypeWords) /\ Len(r) = 0
  BY Nothing
<1>5. Conclude(Uses(Call), verdict, r) /\ Len(r) = Gives(Call) /\ Len(r) # 1
  BY <1>3, <1>4
<1> QED
  BY <1>2, <1>4, <1>5, Concludes

(* The condition of an if is boolean. *)
LEMMA CheckConditionStep ==
  ASSUME Inv, CheckCondition
  PROVE  Inv'
<1>1. PICK w :
        /\ w = Demand(Boolean, Latest(1), Boolean)
        /\ status = "running" /\ todo # <<>> /\ Call.do = "condition"
        /\ Conclude(1, w, <<>>)
        /\ UNCHANGED <<ast_head, types>>
  BY DEF CheckCondition, Ready
<1>2. ast_head \in Programs /\ Call \in Calls(ast_head)
  BY <1>1, CallNow
<1>3. Uses(Call) = 1
  BY <1>1, <1>2, CallCounts, CallForms
<1>4. Call.do \in EndCalls /\ Call.do \notin Outer /\ Call.do \notin Lenient
  BY <1>1 DEF EndCalls, Outer, Lenient
<1>5. w.crash => CrashBody
  <2>1. Latest(1) \in Seq(TypeWords) /\ (SomeTainted(Latest(1)) => Missing)
    BY <1>1, <1>3, <1>4, TakenOne
  <2> QED
    BY <2>1, <1>1, DemandFacts DEF CrashBody
<1> QED
  BY <1>1, <1>3, <1>4, <1>5, ConcludesAll

(* The parts of a loop are looked at, those that are there. *)
LEMMA CheckLoopStep ==
  ASSUME Inv, CheckLoop
  PROVE  Inv'
<1>1. PICK v, odd, w :
        /\ v = Latest(3)
        /\ odd = {i \in 1 .. 3 : v[i] \notin {NULL, <<Integer, Boolean, Integer>>[i]}}
        /\ w = Verdict(NULL, FALSE, Unprintable({v[i] : i \in odd}))
        /\ status = "running" /\ todo # <<>> /\ Call.do = "loop"
        /\ Conclude(3, w, <<>>)
        /\ UNCHANGED <<ast_head, types>>
  BY DEF CheckLoop, Ready
<1>2. ast_head \in Programs /\ Call \in Calls(ast_head)
  BY <1>1, CallNow
<1>3. Uses(Call) = 3
  BY <1>1, <1>2, CallCounts, CallForms
<1>4. Call.do \in EndCalls /\ Call.do \notin Outer
  BY <1>1 DEF EndCalls, Outer
<1>5. /\ v \in Seq(TypeWords) /\ Len(v) = 3
      /\ \A i \in 1 .. 3 : Tainted(v[i]) => Missing \/ v[i] = NULL
  BY <1>1, <1>3, <1>4, Taken
<1>6. w.crash => CrashBody
  <2>1. SUFFICES ASSUME w.crash PROVE Missing
    BY DEF CrashBody
  <2>2. Unprintable({v[i] : i \in odd})
    BY <2>1, <1>1 DEF Verdict
  <2>3. {v[i] : i \in odd} \in SUBSET TypeWords
    BY <1>1, <1>5
  <2>4. PICK t \in {v[i] : i \in odd} : Tainted(t)
    BY <2>2, <2>3, UnprintableTaints
  <2>5. PICK i \in 1 .. 3 : t = v[i] /\ v[i] # NULL
    BY <2>4, <1>1
  <2> QED
    BY <2>4, <2>5, <1>5
<1> QED
  BY <1>1, <1>3, <1>4, <1>6, ConcludesAll

(* The last call for the expressions of a statement returns.               *)
LEMMA PopEnd ==
  ASSUME NEW p \in Programs, NEW tys, NEW td, NEW vs, NEW h \in Seq(Nat), NEW b \in Nat,
         Walk(p, tys, td, vs, h, b), b # 0, td[1].do \in EndCalls, Gives(td[1]) = 0
  PROVE  \E h1 \in Seq(Nat), b1 \in Nat :
           /\ Walk(p, tys, Tail(td), SubSeq(vs, 1, Len(vs) - Uses(td[1])) \o <<>>, h1, b1)
           /\ b1 = b - 1
<1>1. PICK r : r = <<>> /\ r \in Seq(TypeWords) /\ Len(r) = 0
  BY Nothing
<1>2. td[1].do # "expr" /\ td[1].do # "node"
  BY DEF EndCalls
<1>3. td[1].do = "expr" => td[1].arg = None
  BY <1>2
<1>4. td[1].do = "node" /\ td[1].arg.kind = "ID" /\ r[1][1] = "AUTO" =>
        td[1].arg.val \in DOMAIN tys /\ tys[td[1].arg.val].kind = "AUTO"
  BY <1>2
<1>5. Len(r) = 1 /\ Tainted(r[1]) =>
        \/ \E c \in DOMAIN tys : Explains(tys, c)
        \/ td[1].do = "expr" /\ r[1] = NULL
  BY <1>1
<1>6. Len(r) = Gives(td[1])
  BY <1>1
<1>7. MayReturn(tys, td[1], r)
  BY <1>3, <1>4, <1>5 DEF MayReturn
<1>8. WalksTo(p, tys, Tail(td), SubSeq(vs, 1, Len(vs) - Uses(td[1])) \o r, b - 1)
  BY <1>1, <1>6, <1>7, PopWalk
<1> QED
  BY <1>1, <1>8 DEF WalksTo

(* A type is overwritten once a statement's expressions have been taken.   *)
LEMMA PoppedRetyped ==
  ASSUME Inv, todo # <<>>, Call.do \in {"return", "initial"},
         UNCHANGED ast_head, Replace(<<>>), values' = Before(1) \o <<>>,
         NEW c \in DOMAIN types, types[c].sub = 0, NEW right \in TypeKinds,
         types' = [types EXCEPT ![c].kind = right]
  PROVE  WalkInv'
<1>1. PICK h \in Seq(Nat), b \in Nat : Walk(ast_head, types, todo, values, h, b) /\ b = 1
  BY CallNow DEF EndCalls
<1>2. /\ Call = todo[1] /\ ast_head \in Programs /\ Call \in Calls(ast_head)
      /\ todo' = Tail(todo)
  BY CallNow DEF Replace
<1>3. Uses(Call) = 1 /\ Gives(Call) = 0
  BY <1>2, CallCounts
<1>4. PICK u : u = SubSeq(values, 1, Len(values) - Uses(todo[1])) \o <<>>
  OBVIOUS
<1>5. values' = u
  BY <1>2, <1>3, <1>4 DEF Before
<1>7. PICK h1 \in Seq(Nat), b1 \in Nat :
        Walk(ast_head, types, Tail(todo), u, h1, b1) /\ b1 = b - 1
  <2>1. b # 0 /\ todo[1].do \in EndCalls /\ Gives(todo[1]) = 0
    BY <1>1, <1>2, <1>3 DEF EndCalls
  <2>2. \E h1 \in Seq(Nat), b1 \in Nat :
          /\ Walk(ast_head, types, Tail(todo),
                  SubSeq(values, 1, Len(values) - Uses(todo[1])) \o <<>>, h1, b1)
          /\ b1 = b - 1
    BY <2>1, <1>1, <1>2, PopEnd
  <2> QED
    BY <2>2, <1>4
<1>8. b1 = 0
  BY <1>1, <1>7
<1>9. Walk(ast_head, [types EXCEPT ![c].kind = right], Tail(todo), u, h1, b1)
  BY <1>2, <1>7, <1>8, RetypeWalk
<1>10. Walk(ast_head', types', todo', values', h1, b1)
  BY <1>2, <1>5, <1>9
<1> QED
  BY <1>10 DEF WalkInv

(* What the function of a statement is declared as. *)
LEMMA DeclFacts ==
  ASSUME Inv, todo # <<>>, Call.do \in {"return", "initial", "decl"}
  PROVE  LET d == Call.arg IN
         /\ d \in Parts(ast_head).decls
         /\ d.value \in Exprs(ast_head) \cup {None}
         /\ d.code = <<>> \/ \E s \in Parts(ast_head).stmts : d.code = <<s>>
         /\ d.type \in 1 .. Len(types)
         /\ types[d.type].sub # 0 /\ types[types[d.type].sub].kind = "AUTO" /\ d.symtype # 0 =>
              /\ types[d.symtype].sub \in DOMAIN types
              /\ types[types[d.symtype].sub].sub = 0
         /\ types[d.type].kind = "AUTO" /\ d.symtype # 0 =>
              /\ d.symtype = d.type /\ types[d.type].sub = 0
<1>1. PICK d, p : d = Call.arg /\ p = ast_head
  OBVIOUS
<1>2. p \in Programs /\ TypesOf(types, p) /\ d \in Parts(p).decls
  BY <1>1, CallNow, CallForms
<1>3. TableOK(p.types) /\ DeclOK(d, p)
  BY <1>2, ProgramsAssumption
<1>4. PICK n \in Nat :
        /\ n = Len(types) /\ DOMAIN types = 1 .. n /\ n = Len(p.types)
        /\ \A c \in 1 .. n :
             /\ types[c].kind \in TypeKinds
             /\ types[c].sub \in 0 .. c - 1
             /\ types[c].sub # 0 => types[c].kind \in {"ARRAY", "FUNCTION"}
  BY <1>2, TableFacts
<1>5. /\ \A c \in 1 .. n : /\ types[c].sub = p.types[c].sub
                           /\ types[c].sub # 0 => types[c].kind = p.types[c].kind
  BY <1>2, <1>4 DEF TypesOf
<1>6. DOMAIN p.types = 1 .. n
  <2> DEFINE R == [kind : TypeKinds, sub : Nat, params : Seq(Nat), size : STRING \ {"NULL"}]
  <2>1. p.types \in Seq(R)
    BY <1>3 DEF TableOK
  <2> HIDE DEF R
  <2> QED
    BY <2>1, <1>4
<1>7. \A c \in 1 .. n : p.types[c].sub = 0 <=> p.types[c].kind \in Simple
  BY <1>3, <1>6 DEF TableOK
<1>8. /\ d.type \in 1 .. n /\ d.symtype \in 0 .. n
      /\ d.symtype \notin {0, d.type} =>
           /\ p.types[d.type].kind = "FUNCTION" /\ p.types[d.symtype].kind = "FUNCTION"
           /\ p.types[p.types[d.type].sub].kind = p.types[p.types[d.symtype].sub].kind
      /\ d.value \in Exprs(p) \cup {None}
      /\ d.code = <<>> \/ \E s \in Parts(p).stmts : d.code = <<s>>
  BY <1>3, <1>4, <1>6 DEF DeclOK, Exprs
<1>9. ASSUME types[d.type].sub # 0, types[types[d.type].sub].kind = "AUTO", d.symtype # 0
      PROVE  types[d.symtype].sub \in DOMAIN types /\ types[types[d.symtype].sub].sub = 0
  <2>1. PICK x \in 1 .. n : x = types[d.type].sub
    BY <1>4, <1>8, <1>9
  <2>2. types[x].sub = 0
    BY <2>1, <1>4, <1>9
  <2>3. CASE d.symtype = d.type
    BY <2>1, <2>2, <2>3, <1>4
  <2>4. CASE d.symtype # d.type
    <3>1. d.symtype \in 1 .. n
      BY <1>8, <1>9
    <3>2. /\ p.types[d.symtype].kind = "FUNCTION"
          /\ p.types[p.types[d.type].sub].kind = p.types[p.types[d.symtype].sub].kind
      BY <2>4, <1>8, <1>9
    <3>3. p.types[d.symtype].sub # 0
      BY <3>1, <3>2, <1>7 DEF Simple
    <3>4. PICK y \in 1 .. n : y = types[d.symtype].sub /\ y = p.types[d.symtype].sub
      <4>1. types[d.symtype].sub = p.types[d.symtype].sub
        BY <3>1, <1>5
      <4>2. types[d.symtype].sub \in 0 .. d.symtype - 1
        BY <3>1, <1>4
      <4> QED
        BY ONLY <4>1, <4>2, <3>1, <3>3, n \in Nat
    <3>5. p.types[x].kind \in Simple
      BY <2>1, <2>2, <1>5, <1>7
    <3>6. p.types[d.type].sub = x
      BY <2>1, <1>5, <1>8
    <3>7. p.types[y].kind \in Simple
      BY <3>2, <3>4, <3>5, <3>6
    <3>8. types[y].sub = 0
      BY <3>7, <1>5, <1>7
    <3> QED
      BY <3>4, <3>8, <1>4
  <2> QED
    BY <2>3, <2>4
<1>10. ASSUME types[d.type].kind = "AUTO", d.symtype # 0
       PROVE  d.symtype = d.type /\ types[d.type].sub = 0
  <2>1. types[d.type].sub = 0
    BY <1>4, <1>8, <1>10
  <2>2. d.symtype = d.type
    <3>1. SUFFICES ASSUME d.symtype # d.type PROVE FALSE
      OBVIOUS
    <3>2. p.types[d.type].kind = "FUNCTION"
      BY <3>1, <1>8, <1>10
    <3>3. p.types[d.type].sub # 0
      BY <3>2, <1>7, <1>8 DEF Simple
    <3> QED
      BY <3>3, <2>1, <1>5, <1>8
  <2> QED
    BY <2>1, <2>2
<1> QED
  BY <1>1, <1>2, <1>4, <1>8, <1>9, <1>10

(* The same when the types stay as they are.                               *)
LEMMA PoppedEnd ==
  ASSUME Inv, todo # <<>>, Call.do \in {"return", "initial"},
         UNCHANGED <<ast_head, types>>, Replace(<<>>), values' = Before(1) \o <<>>
  PROVE  WalkInv'
<1>1. PICK h \in Seq(Nat), b \in Nat : Walk(ast_head, types, todo, values, h, b) /\ b = 1
  BY CallNow DEF EndCalls
<1>2. /\ Call = todo[1] /\ ast_head \in Programs /\ Call \in Calls(ast_head)
      /\ todo' = Tail(todo)
  BY CallNow DEF Replace
<1>3. Uses(Call) = 1 /\ Gives(Call) = 0
  BY <1>2, CallCounts
<1>4. PICK u : u = SubSeq(values, 1, Len(values) - Uses(todo[1])) \o <<>>
  OBVIOUS
<1>5. values' = u
  BY <1>2, <1>3, <1>4 DEF Before
<1>6. b # 0 /\ todo[1].do \in EndCalls /\ Gives(todo[1]) = 0
  BY <1>1, <1>2, <1>3 DEF EndCalls
<1>7. PICK h1 \in Seq(Nat), b1 \in Nat :
        /\ Walk(ast_head, types, Tail(todo),
                SubSeq(values, 1, Len(values) - Uses(todo[1])) \o <<>>, h1, b1)
        /\ b1 = b - 1
  BY <1>6, <1>1, <1>2, PopEnd
<1>8. Walk(ast_head', types', todo', values', h1, b1)
  BY <1>2, <1>4, <1>5, <1>7
<1> QED
  BY <1>8 DEF WalkInv

(* What is returned is compared with the result, or becomes its kind.      *)
LEMMA CheckReturnStep ==
  ASSUME Inv, CheckReturn
  PROVE  Inv'
<1>1. /\ status = "running" /\ todo # <<>> /\ Call.do = "return"
      /\ UNCHANGED ast_head
  BY DEF CheckReturn, Ready
<1>2. PICK f, e : f = Call.arg /\ e = Latest(1)[1]
  OBVIOUS
<1>3. PICK result : result = types[f.type].sub
  OBVIOUS
<1>4. PICK settles \in BOOLEAN :
        settles <=> e # NULL /\ result # 0 /\ types[result].kind = "AUTO"
  OBVIOUS
<1>5. PICK w :
        w = IF e = NULL THEN Verdict(NULL, FALSE, FALSE)
            ELSE IF settles
            THEN Verdict(NULL, Kind(e) = "AUTO", Unprintable({e}) \/ f.symtype = 0)
            ELSE Agree(e, type_copy[result], Kind(e) = "AUTO", NULL)
  OBVIOUS
<1>6. /\ Conclude(1, w, <<>>)
      /\ types' = IF settles /\ status' = "running"
                  THEN [types EXCEPT ![types[f.symtype].sub].kind = Kind(e)]
                  ELSE types
  <2>1. /\ Conclude(1,
             IF e = NULL THEN Verdict(NULL, FALSE, FALSE)
             ELSE IF (e # NULL /\ result # 0 /\ types[result].kind = "AUTO")
             THEN Verdict(NULL, Kind(e) = "AUTO", Unprintable({e}) \/ f.symtype = 0)
             ELSE Agree(e, type_copy[result], Kind(e) = "AUTO", NULL), <<>>)
        /\ types' = IF (e # NULL /\ result # 0 /\ types[result].kind = "AUTO")
                       /\ status' = "running"
                    THEN [types EXCEPT ![types[f.symtype].sub].kind = Kind(e)]
                    ELSE types
    BY <1>2, <1>3 DEF CheckReturn
  <2>2. settles = (e # NULL /\ result # 0 /\ types[result].kind = "AUTO")
    BY <1>4
  <2> QED
    BY <2>1, <2>2, <1>5
<1>7. /\ ast_head \in Programs /\ TypesOf(types, ast_head) /\ Call \in Calls(ast_head)
  BY <1>1, CallNow
<1>8. Uses(Call) = 1 /\ Call.do \notin Outer
  BY <1>1, <1>7, CallCounts DEF Outer
<1>9. e \in TypeWords /\ (Tainted(e) => Missing \/ e = NULL)
  BY <1>1, <1>2, <1>8, TakenOne
<1>10. PICK n \in Nat :
         /\ n = Len(types) /\ DOMAIN types = 1 .. n
         /\ \A c \in 1 .. n : types[c].sub \in 0 .. c - 1
  BY <1>7, TableFacts
<1>11. /\ f.type \in 1 .. n /\ result \in 0 .. n
       /\ result # 0 /\ types[result].kind = "AUTO" /\ f.symtype # 0 =>
            /\ types[f.symtype].sub \in DOMAIN types
            /\ types[types[f.symtype].sub].sub = 0
  BY <1>1, <1>2, <1>3, <1>10, DeclFacts
<1>12. w.crash => CrashBody
  <2>1. SUFFICES ASSUME w.crash, ~ Missing, f.symtype # 0, result # 0 PROVE FALSE
    BY <1>1, <1>2, <1>3 DEF CrashBody
  <2>2. e # NULL
    BY <2>1, <1>5 DEF Verdict
  <2>3. CASE settles
    <3>1. Unprintable({e})
      BY <2>1, <2>2, <2>3, <1>5 DEF Verdict
    <3> QED
      BY <3>1, <2>1, <2>2, <1>9, PrintedFacts
  <2>4. CASE ~ settles
    <3>1. PICK t : t = type_copy[result]
      OBVIOUS
    <3>2. t \in TypeWords /\ (Tainted(t) => Missing)
      BY <3>1, <2>1, <1>7, <1>10, <1>11, CopyFacts DEF Missing
    <3>3. w = Agree(e, t, Kind(e) = "AUTO", NULL)
      BY <3>1, <2>2, <2>4, <1>5
    <3>4. Tainted(e) \/ Tainted(t)
      BY <3>2, <3>3, <2>1, <1>9, AgreeFacts
    <3> QED
      BY <3>2, <3>4, <2>1, <2>2, <1>9
  <2> QED
    BY <2>3, <2>4
<1>13. status' = "crashed" => types' = types
  BY <1>6
<1>14. ASSUME ~ w.crash, status' = "running", Replace(<<>>), values' = Before(1) \o <<>>
       PROVE  WalkInv'
  <2>1. CASE settles
    <3>1. e # NULL /\ result # 0 /\ types[result].kind = "AUTO"
      BY <2>1, <1>4
    <3>2. f.symtype # 0
      BY <2>1, <3>1, <1>5, <1>14 DEF Verdict
    <3>3. PICK c \in DOMAIN types : c = types[f.symtype].sub /\ types[c].sub = 0
      BY <3>1, <3>2, <1>11
    <3>4. PICK right \in TypeKinds : right = Kind(e)
      BY <3>1, <1>9, WordFacts DEF Kind
    <3>5. types' = [types EXCEPT ![c].kind = right]
      BY <2>1, <3>3, <3>4, <1>6, <1>14
    <3> QED
      BY <3>3, <3>5, <1>1, <1>14, PoppedRetyped
  <2>2. CASE ~ settles
    BY <2>2, <1>1, <1>6, <1>14, PoppedEnd
  <2> QED
    BY <2>1, <2>2
<1> QED
  BY <1>1, <1>6, <1>12, <1>13, <1>14, Concluding

(* The value of a declaration is compared with it, or becomes its kind.    *)
LEMMA CheckInitialStep ==
  ASSUME Inv, CheckInitial
  PROVE  Inv'
<1>1. /\ status = "running" /\ todo # <<>> /\ Call.do = "initial"
      /\ UNCHANGED ast_head
  BY DEF CheckInitial, Ready
<1>2. PICK d, t : d = Call.arg /\ t = Latest(1)[1]
  OBVIOUS
<1>3. PICK bad : bad = BadInitial(d, t)
  OBVIOUS
<1>4. PICK settles \in BOOLEAN : settles <=> t # NULL /\ types[d.type].kind = "AUTO"
  OBVIOUS
<1>5. PICK w :
        w = IF t = NULL THEN Verdict(NULL, FALSE, FALSE)
            ELSE IF d.symtype = 0 THEN Verdict(NULL, FALSE, TRUE)
            ELSE IF settles THEN Verdict(NULL, bad, Unprintable({t}))
            ELSE Agree(type_copy[d.type], t, bad, NULL)
  OBVIOUS
<1>6. /\ Conclude(1, w, <<>>)
      /\ types' = IF settles /\ status' = "running"
                  THEN [types EXCEPT ![d.symtype].kind = Kind(t)]
                  ELSE types
  <2>1. /\ Conclude(1,
             IF t = NULL THEN Verdict(NULL, FALSE, FALSE)
             ELSE IF d.symtype = 0 THEN Verdict(NULL, FALSE, TRUE)
             ELSE IF (t # NULL /\ types[d.type].kind = "AUTO")
             THEN Verdict(NULL, bad, Unprintable({t}))
             ELSE Agree(type_copy[d.type], t, bad, NULL), <<>>)
        /\ types' = IF (t # NULL /\ types[d.type].kind = "AUTO") /\ status' = "running"
                    THEN [types EXCEPT ![d.symtype].kind = Kind(t)]
                    ELSE types
    BY <1>2, <1>3 DEF CheckInitial
  <2>2. settles = (t # NULL /\ types[d.type].kind = "AUTO")
    BY <1>4
  <2> QED
    BY <2>1, <2>2, <1>5
<1>7. /\ ast_head \in Programs /\ TypesOf(types, ast_head) /\ Call \in Calls(ast_head)
  BY <1>1, CallNow
<1>8. Uses(Call) = 1 /\ Call.do \notin Outer
  BY <1>1, <1>7, CallCounts DEF Outer
<1>9. t \in TypeWords /\ (Tainted(t) => Missing \/ t = NULL)
  BY <1>1, <1>2, <1>8, TakenOne
<1>10. PICK n \in Nat : n = Len(types) /\ DOMAIN types = 1 .. n
  BY <1>7, TableFacts
<1>11. /\ d.type \in 1 .. n
       /\ types[d.type].kind = "AUTO" /\ d.symtype # 0 =>
            d.symtype = d.type /\ types[d.type].sub = 0
  BY <1>1, <1>2, <1>10, DeclFacts
<1>12. w.crash => CrashBody
  <2>1. SUFFICES ASSUME w.crash, ~ Missing, d.symtype # 0 PROVE FALSE
    BY <1>1, <1>2 DEF CrashBody
  <2>2. t # NULL
    BY <2>1, <1>5 DEF Verdict
  <2>3. CASE settles
    <3>1. Unprintable({t})
      BY <2>1, <2>2, <2>3, <1>5 DEF Verdict
    <3> QED
      BY <3>1, <2>1, <2>2, <1>9, PrintedFacts
  <2>4. CASE ~ settles
    <3>1. PICK v : v = type_copy[d.type]
      OBVIOUS
    <3>2. v \in TypeWords /\ (Tainted(v) => Missing)
      BY <3>1, <2>1, <1>7, <1>10, <1>11, CopyFacts DEF Missing
    <3>3. w = Agree(v, t, bad, NULL)
      BY <3>1, <2>1, <2>2, <2>4, <1>5
    <3>4. Tainted(v) \/ Tainted(t)
      BY <3>2, <3>3, <2>1, <1>9, AgreeFacts
    <3> QED
      BY <3>2, <3>4, <2>1, <2>2, <1>9
  <2> QED
    BY <2>3, <2>4
<1>13. status' = "crashed" => types' = types
  BY <1>6
<1>14. ASSUME ~ w.crash, status' = "running", Replace(<<>>), values' = Before(1) \o <<>>
       PROVE  WalkInv'
  <2>1. CASE settles
    <3>1. t # NULL /\ types[d.type].kind = "AUTO"
      BY <2>1, <1>4
    <3>2. d.symtype # 0
      BY <3>1, <1>5, <1>14 DEF Verdict
    <3>3. PICK c \in DOMAIN types : c = d.symtype /\ types[c].sub = 0
      BY <3>1, <3>2, <1>10, <1>11
    <3>4. PICK right \in TypeKinds : right = Kind(t)
      BY <3>1, <1>9, WordFacts DEF Kind
    <3>5. types' = [types EXCEPT ![c].kind = right]
      BY <2>1, <3>3, <3>4, <1>6, <1>14
    <3> QED
      BY <3>3, <3>5, <1>1, <1>14, PoppedRetyped
  <2>2. CASE ~ settles
    BY <2>2, <1>1, <1>6, <1>14, PoppedEnd
  <2> QED
    BY <2>1, <2>2
<1> QED
  BY <1>1, <1>6, <1>12, <1>13, <1>14, Concluding

-----------------------------------------------------------------------------
(***************************************************************************)
(* The handlers of expressions that make other calls.                      *)
(***************************************************************************)
(* Such calls continue a walk. *)
LEMMA Pushed ==
  ASSUME Inv, todo # <<>>, Call.do \in {"expr", "call"}, status = "running",
         UNCHANGED values, Quietly,
         NEW calls, NEW l, NEW g, Replace(calls),
         Pushes(ast_head, types, Call, Len(values), calls, l, g)
  PROVE  Inv'
<1>1. PICK h \in Seq(Nat), b \in Nat : Walk(ast_head, types, todo, values, h, b)
  BY CallNow
<1>2. Call = todo[1] /\ ast_head \in Programs
  BY CallNow
<1>3. PICK c : c = todo[1]
  OBVIOUS
<1>4. PICK n : n = Len(values)
  OBVIOUS
<1>5. PICK p : p = ast_head
  OBVIOUS
<1>6. PICK tys : tys = types
  OBVIOUS
<1>7. Pushes(p, tys, c, n, calls, l, g)
  BY <1>2, <1>3, <1>4, <1>5, <1>6
<1>8. /\ p \in Programs /\ Walk(p, tys, todo, values, h, b) /\ todo # <<>>
      /\ todo[1].do \in {"expr", "call"}
  BY <1>1, <1>2, <1>5, <1>6
<1>9. Pushes(p, tys, todo[1], Len(values), calls, l, g)
  BY <1>3, <1>4, <1>7
<1>10. calls \in Seq(Calls(p)) /\ l \in Nat \ {0}
  BY <1>9 DEF Pushes
<1>14. Walks(p, tys, calls \o Tail(todo), values)
  BY <1>8, <1>9, <1>10, PushWalk
<1>15. PICK h1 \in Seq(Nat), b1 \in Nat : Walk(p, tys, calls \o Tail(todo), values, h1, b1)
  BY <1>14 DEF Walks
<1>16. todo' = calls \o Tail(todo) /\ UNCHANGED <<ast_head, types, values>>
  BY DEF Replace, Quietly
<1>17. Walk(ast_head', types', todo', values', h1, b1)
  BY <1>5, <1>6, <1>15, <1>16
<1>18. WalkInv'
  BY <1>17 DEF WalkInv
<1> QED
  BY <1>18, RunsOn DEF Quietly, Inv

(* A call for each of the expressions of a list.                           *)
LEMMA EachFacts ==
  ASSUME NEW p, NEW a \in Seq(Exprs(p) \cup {None})
  PROVE  /\ Each("expr", a) \in Seq(Calls(p)) /\ Len(Each("expr", a)) = Len(a)
         /\ Len(a) \in Nat
         /\ \A k \in 1 .. Len(a) : Each("expr", a)[k] = Do("expr", a[k])
         /\ Len(a) = 0 => Each("expr", a) = <<>>
<1>1. PICK l \in Nat : l = Len(a) /\ DOMAIN a = 1 .. l
  OBVIOUS
<1> DEFINE f == [k \in 1 .. l |-> Do("expr", a[k])]
<1>2. \A k \in 1 .. l : Do("expr", a[k]) \in Calls(p)
  <2>1. \A k \in 1 .. l : a[k] \in Exprs(p) \cup {None}
    BY <1>1
  <2> QED
    BY <2>1 DEF Calls
<1>3. f \in [1 .. l -> Calls(p)] /\ \A k \in 1 .. l : f[k] = Do("expr", a[k])
  BY <1>2
<1>4. Each("expr", a) = f
  BY <1>1 DEF Each
<1> HIDE DEF f
<1>5. f \in Seq(Calls(p)) /\ Len(f) = l
  BY <1>3, Listed
<1>6. l = 0 => f = <<>>
  BY <1>5
<1> QED
  BY <1>1, <1>3, <1>4, <1>5, <1>6

(* What a node or a call of the type checker is, by its kind.              *)
LEMMA DoFacts ==
  ASSUME NEW k, NEW x
  PROVE  Do(k, x).do = k /\ Do(k, x).arg = x
BY DEF Do

(* The operands of an expression are checked before it.                    *)
LEMMA DescendStep ==
  ASSUME Inv, Descend
  PROVE  Inv'
<1>1. PICK e :
        /\ e = Call.arg /\ status = "running" /\ todo # <<>> /\ Call.do = "expr"
        /\ e.kind \notin {"NONE", "FCALL"}
        /\ Replace(Each("expr", e.sub) \o <<Do("node", e)>>)
        /\ UNCHANGED values /\ Quietly
  BY DEF Descend, Ready
<1>2. PICK p : p = ast_head
  OBVIOUS
<1>3. p \in Programs /\ e \in Exprs(p) /\ values \in Seq(TypeWords)
  <2>1. p \in Programs /\ Call \in Calls(p) /\ values \in Seq(TypeWords)
    BY <1>1, <1>2, CallNow
  <2>2. e \in Exprs(p) \cup {None}
    BY <2>1, <1>1, CallForms
  <2>3. e # None
    <3>1. e.kind # "NONE"
      BY <1>1
    <3>2. None.kind = "NONE"
      BY DEF None, Node
    <3> QED
      BY ONLY <3>1, <3>2
  <2> QED
    BY <2>1, <2>2, <2>3
<1>4. PICK n \in Nat : n = Len(values)
  BY <1>3
<1>5. PICK l \in Nat : l = Len(e.sub)
  BY <1>3, OperandFacts
<1>6. /\ e.sub \in Seq(Exprs(p) \cup {None})
      /\ \A k \in 1 .. l : e.sub[k] \in Exprs(p)
      /\ e.kind = "ID" => l = 0
      /\ e.kind = "ASSIGN" => l = 2
  <2>1. e.sub \in Seq(Exprs(p))
    BY <1>3, OperandFacts
  <2>2. \A k \in 1 .. l : e.sub[k] \in Exprs(p)
    BY <2>1, <1>5
  <2>3. e.sub \in Seq(Exprs(p) \cup {None})
    BY <2>1
  <2> QED
    BY <2>2, <2>3, <1>3, <1>5, OperandFacts
<1>7. PICK x \in Seq(Calls(p)) :
        /\ x = Each("expr", e.sub) /\ Len(x) = l
        /\ \A k \in 1 .. l : x[k] = Do("expr", e.sub[k])
        /\ l = 0 => x = <<>>
  BY <1>5, <1>6, EachFacts
<1>8. PICK z \in Calls(p) : z = Do("node", e)
  BY <1>1, <1>3 DEF Calls
<1>9. PICK calls : calls = x \o <<z>>
  OBVIOUS
<1>10. /\ calls \in Seq(Calls(p)) /\ Len(calls) = l + 1 /\ calls[l + 1] = z
       /\ \A k \in 1 .. l : calls[k] = x[k]
  BY <1>7, <1>9, Appended
<1>11. z.do = "node" /\ z.arg = e /\ Uses(z) = l /\ Gives(z) = 1
  <2>1. z.do = "node" /\ z.arg = e
    BY <1>8, DoFacts
  <2> QED
    BY <2>1, <1>3, <1>5, CallCounts
<1>12. \A k \in 1 .. l :
         /\ calls[k] = Do("expr", e.sub[k]) /\ calls[k].do = "expr" /\ calls[k].arg = e.sub[k]
         /\ calls[k] \in Calls(p) /\ Uses(calls[k]) = 0 /\ Gives(calls[k]) = 1
         /\ calls[k] # Do("expr", None)
  <2> TAKE k \in 1 .. l
  <2>1. calls[k] = Do("expr", e.sub[k]) /\ calls[k] \in Calls(p)
    BY <1>7, <1>10
  <2>2. calls[k].do = "expr" /\ calls[k].arg = e.sub[k]
    BY <2>1, DoFacts
  <2>3. e.sub[k] # None
    BY <1>3, <1>6, OperandFacts
  <2>4. calls[k] # Do("expr", None)
    BY <2>2, <2>3, DoFacts
  <2> QED
    BY <2>1, <2>2, <2>4, <1>3, CallCounts
<1>13. PICK g :
         /\ \A k \in 1 .. l + 1 : g[k] = n + k - 1
         /\ g[l + 2] = n + 1
  <2> WITNESS [k \in 1 .. l + 2 |-> IF k = l + 2 THEN n + 1 ELSE n + k - 1]
  <2> QED
    OBVIOUS
<1>14. PICK m \in Nat \ {0} : m = l + 1
  OBVIOUS
<1>15. Pushes(p, types, Call, n, calls, m, g)
  <2>1. \A k \in 1 .. m + 1 : g[k] \in Nat
    BY <1>13, <1>14
  <2>2. g[1] = n /\ g[m + 1] = n + 1
    BY <1>13, <1>14
  <2>3. \A k \in 1 .. m : /\ calls[k].do \in InnerCalls
                          /\ calls[k] # Do("expr", None)
                          /\ g[k] >= Uses(calls[k])
                          /\ g[k] - Uses(calls[k]) >= n
                          /\ g[k + 1] = g[k] - Uses(calls[k]) + Gives(calls[k])
    <3> TAKE k \in 1 .. m
    <3>1. CASE k = l + 1
      <4>1. calls[k] = z /\ g[k] = n + l /\ g[k + 1] = n + 1
        BY <3>1, <1>10, <1>13
      <4>2. z # Do("expr", None)
        BY <1>11, DoFacts
      <4> QED
        BY <4>1, <4>2, <1>11 DEF InnerCalls
    <3>2. CASE k \in 1 .. l
      <4>1. g[k] = n + k - 1 /\ g[k + 1] = n + k
        BY <3>2, <1>13
      <4> QED
        BY <3>2, <4>1, <1>12 DEF InnerCalls
    <3> QED
      BY <3>1, <3>2, <1>14
  <2>4. \A k \in 1 .. m : ToVariable(calls[k]) =>
          /\ k = 3 /\ m = 3 /\ g[3] = n + 2
          /\ calls[1] = Do("expr", calls[3].arg.sub[1]) /\ calls[2].do = "expr"
    <3> SUFFICES ASSUME NEW k \in 1 .. m, ToVariable(calls[k])
                 PROVE  /\ k = 3 /\ m = 3 /\ g[3] = n + 2
                        /\ calls[1] = Do("expr", calls[3].arg.sub[1]) /\ calls[2].do = "expr"
      OBVIOUS
    <3>1. calls[k].do = "node" /\ calls[k].arg.kind = "ASSIGN"
      BY DEF ToVariable
    <3>2. k = l + 1
      BY <3>1, <1>12, <1>14
    <3>3. l = 2
      BY <3>1, <3>2, <1>6, <1>10, <1>11
    <3>4. calls[3] = z /\ calls[1] = Do("expr", e.sub[1]) /\ calls[2].do = "expr"
      BY <3>3, <1>10, <1>12
    <3>5. g[3] = n + 2
      BY <3>3, <1>13
    <3> QED
      BY <3>2, <3>3, <3>4, <3>5, <1>11, <1>14
  <2>5. Call.do = "expr" /\ Call.arg.kind = "ID" => calls = <<Do("node", Call.arg)>>
    <3>1. <<>> \o <<z>> = <<z>>
      OBVIOUS
    <3> QED
      BY <3>1, <1>1, <1>6, <1>7, <1>8, <1>9
  <2>6. \A k \in 1 .. m : Copied(calls[k]) = {}
    <3> TAKE k \in 1 .. m
    <3>1. calls[k].do \in {"expr", "node"}
      BY <1>10, <1>11, <1>12, <1>14
    <3> QED
      BY <3>1 DEF Copied
  <2> QED
    BY <2>1, <2>2, <2>3, <2>4, <2>5, <2>6, <1>10, <1>14 DEF Pushes
<1>16. Replace(calls)
  BY <1>1, <1>7, <1>8, <1>9
<1>17. Pushes(ast_head, types, Call, Len(values), calls, m, g)
  BY <1>2, <1>4, <1>15
<1> QED
  BY <1>1, <1>16, <1>17, Pushed

(* What a call of a function copies is missing only where the table says.  *)
LEMMA CalleeFacts ==
  ASSUME NEW p \in Programs, TypesOf(types, p), NEW e \in Exprs(p), e.kind = "FCALL", e.val # 0
  PROVE  LET f == types[e.val]
             callee == [type |-> type_copy[e.val], result |-> type_copy[f.sub],
                        params |-> [i \in DOMAIN f.params |-> type_copy[f.params[i]]],
                        args |-> e.sub]
         IN  /\ callee \in Snapshots(p)
             /\ \A w \in Copied(Do("call", callee)) :
                  Tainted(w) => \E d \in DOMAIN types : Explains(types, d)
<1>1. PICK n \in Nat :
        /\ n = Len(types) /\ DOMAIN types = 1 .. n /\ Len(p.types) = n
        /\ \A c \in 1 .. n :
             /\ types[c].sub \in 0 .. c - 1 /\ types[c].params \in Seq(1 .. c - 1)
  BY TableFacts
<1>2. PICK c \in 1 .. n : c = e.val
  <2>1. e.val \in 0 .. Len(p.types)
    BY ProgramsAssumption DEF Exprs, ExprOK
  <2> QED
    BY <2>1, <1>1
<1>3. /\ type_copy[0] = NULL
      /\ \A i \in 1 .. n : /\ type_copy[i] \in TypeWords
                           /\ type_copy[i][1] = types[i].kind
                           /\ Tainted(type_copy[i]) => \E d \in DOMAIN types : Explains(types, d)
  BY <1>1, CopyFacts
<1>4. PICK f : f = types[c]
  OBVIOUS
<1>5. f.sub \in 0 .. c - 1 /\ f.params \in Seq(1 .. c - 1)
  BY <1>1, <1>4
<1>6. PICK m \in Nat : m = Len(f.params) /\ DOMAIN f.params = 1 .. m
                       /\ \A i \in 1 .. m : f.params[i] \in 1 .. c - 1
  BY <1>5
<1>7. PICK q : q = [i \in DOMAIN f.params |-> type_copy[f.params[i]]]
  OBVIOUS
<1>8. \A i \in 1 .. m : f.params[i] \in 1 .. n
  BY <1>2, <1>6
<1>9. q \in [1 .. m -> TypeWords] /\ \A i \in 1 .. m : q[i] = type_copy[f.params[i]]
  <2>1. \A i \in 1 .. m : type_copy[f.params[i]] \in TypeWords
    BY <1>3, <1>8
  <2> QED
    BY <2>1, <1>6, <1>7
<1>10. q \in Seq(TypeWords) /\ Len(q) = m /\ DOMAIN q = 1 .. m
  BY <1>9, Listed
<1>11. PICK r : r = type_copy[f.sub]
  OBVIOUS
<1>12. r \in TypeWords
  <2>1. CASE f.sub = 0
    BY <2>1, <1>3, <1>11, Words
  <2>2. CASE f.sub # 0
    <3>1. f.sub \in 1 .. n
      BY <2>2, <1>2, <1>5
    <3> QED
      BY <3>1, <1>3, <1>11
  <2> QED
    BY <2>1, <2>2
<1>13. PICK t : t = type_copy[c]
  OBVIOUS
<1>14. PICK callee : callee = [type |-> t, result |-> r, params |-> q, args |-> e.sub]
  OBVIOUS
<1>15. callee \in Snapshots(p)
  <2>1. t \in TypeWords /\ e.sub \in Seq(Exprs(p))
    BY <1>3, <1>13, OperandFacts
  <2> QED
    BY <2>1, <1>10, <1>12, <1>14 DEF Snapshots
<1>16. ASSUME NEW w \in Copied(Do("call", callee)), Tainted(w)
       PROVE  \E d \in DOMAIN types : Explains(types, d)
  <2>1. \/ w = t
        \/ t[1] = "FUNCTION" /\ w = r
        \/ t[1] = "FUNCTION" /\ w \in Range(q)
    <3>1. PICK x : x = Do("call", callee)
      OBVIOUS
    <3>2. x.do = "call" /\ x.arg = callee
      BY <3>1, DoFacts
    <3>3. /\ callee.type = t /\ callee.result = r /\ callee.params = q
      BY <1>14
    <3>4. w \in {t} \cup (IF t[1] = "FUNCTION" THEN {r} \cup Range(q) ELSE {})
      BY <3>1, <3>2, <3>3, <1>16 DEF Copied
    <3> QED
      BY <3>4
  <2>2. CASE w = t
    BY <2>2, <1>3, <1>13, <1>16
  <2>3. CASE t[1] = "FUNCTION" /\ w = r
    <3>1. f.kind = "FUNCTION"
      BY <2>3, <1>3, <1>4, <1>13
    <3>2. CASE f.sub = 0
      BY <3>1, <3>2, <1>1, <1>2, <1>4 DEF Explains
    <3>3. CASE f.sub # 0
      <4>1. f.sub \in 1 .. n
        BY <3>3, <1>2, <1>5
      <4> QED
        BY <4>1, <2>3, <1>3, <1>11, <1>16
    <3> QED
      BY <3>2, <3>3
  <2>4. CASE w \in Range(q)
    <3>1. PICK i \in 1 .. m : w = q[i]
      BY <2>4, <1>10 DEF Range
    <3> QED
      BY <3>1, <1>3, <1>8, <1>9, <1>16
  <2> QED
    BY <2>1, <2>2, <2>3, <2>4
<1> QED
  BY <1>2, <1>4, <1>7, <1>11, <1>13, <1>14, <1>15, <1>16

(* The arguments of a call are checked before the call itself.             *)
LEMMA EnterCallStep ==
  ASSUME Inv, EnterCall
  PROVE  Inv'
<1>1. PICK e, f, callee :
        /\ e = Call.arg /\ f = types[e.val]
        /\ callee = [type |-> type_copy[e.val], result |-> type_copy[f.sub],
                     params |-> [i \in DOMAIN f.params |-> type_copy[f.params[i]]],
                     args |-> e.sub]
        /\ status = "running" /\ todo # <<>> /\ Call.do = "expr"
        /\ e.kind = "FCALL" /\ e.val # 0
        /\ Replace(Each("expr", e.sub) \o <<Do("arguments", Len(e.sub)), Do("call", callee)>>)
        /\ UNCHANGED values /\ Quietly
  BY DEF EnterCall, Ready
<1>2. PICK p : p = ast_head
  OBVIOUS
<1>3. p \in Programs /\ TypesOf(types, p) /\ e \in Exprs(p) /\ values \in Seq(TypeWords)
  <2>1. p \in Programs /\ TypesOf(types, p) /\ Call \in Calls(p) /\ values \in Seq(TypeWords)
    BY <1>1, <1>2, CallNow
  <2>2. e \in Exprs(p) \cup {None}
    BY <2>1, <1>1, CallForms
  <2>3. e # None
    <3>1. e.kind # "NONE"
      BY <1>1
    <3>2. None.kind = "NONE"
      BY DEF None, Node
    <3> QED
      BY ONLY <3>1, <3>2
  <2> QED
    BY <2>1, <2>2, <2>3
<1>4. PICK n \in Nat : n = Len(values)
  BY <1>3
<1>5. PICK l \in Nat : l = Len(e.sub)
  BY <1>3, OperandFacts
<1>6. /\ e.sub \in Seq(Exprs(p) \cup {None})
      /\ \A k \in 1 .. l : e.sub[k] \in Exprs(p)
  <2>1. e.sub \in Seq(Exprs(p))
    BY <1>3, OperandFacts
  <2> QED
    BY <2>1, <1>5
<1>7. PICK x \in Seq(Calls(p)) :
        /\ x = Each("expr", e.sub) /\ Len(x) = l
        /\ \A k \in 1 .. l : x[k] = Do("expr", e.sub[k])
  BY <1>5, <1>6, EachFacts
<1>8. callee \in Snapshots(p) /\ \A w \in Copied(Do("call", callee)) :
        Tainted(w) => \E d \in DOMAIN types : Explains(types, d)
  BY <1>1, <1>3, CalleeFacts
<1>9. PICK y \in Calls(p) : y = Do("arguments", l)
  BY DEF Calls
<1>10. PICK z \in Calls(p) : z = Do("call", callee)
  BY <1>8 DEF Calls
<1>11. /\ y.do = "arguments" /\ y.arg = l /\ Uses(y) = l /\ Gives(y) = 0
       /\ z.do = "call" /\ Uses(z) = 0 /\ Gives(z) = 1
  <2>1. y.do = "arguments" /\ y.arg = l /\ z.do = "call"
    BY <1>9, <1>10, DoFacts
  <2> QED
    BY <2>1, <1>3, CallCounts DEF Outer
<1>12. PICK s \in Seq(Calls(p)) : s = <<y, z>> /\ Len(s) = 2 /\ s[1] = y /\ s[2] = z
  <2>1. PICK q : q = <<y, z>>
    OBVIOUS
  <2>2. q \in Seq(Calls(p)) /\ Len(q) = 2 /\ q[1] = y /\ q[2] = z
    BY <2>1, Pair
  <2> QED
    BY <2>1, <2>2
<1>13. PICK calls : calls = x \o s
  OBVIOUS
<1>14. /\ calls \in Seq(Calls(p)) /\ Len(calls) = l + 2
       /\ \A k \in 1 .. l : calls[k] = x[k]
       /\ calls[l + 1] = y /\ calls[l + 2] = z
  <2>1. /\ x \in Seq(Calls(p)) /\ Len(x) = l /\ l \in Nat
        /\ s \in Seq(Calls(p)) /\ Len(s) = 2
    BY <1>7, <1>12
  <2>2. /\ x \o s \in Seq(Calls(p)) /\ Len(x \o s) = Len(x) + Len(s)
        /\ \A k \in 1 .. Len(x) : (x \o s)[k] = x[k]
        /\ \A k \in Len(x) + 1 .. Len(x) + Len(s) : (x \o s)[k] = s[k - Len(x)]
    BY ONLY <2>1, Joined, Zenon
  <2>3. \A k \in l + 1 .. l + 2 : calls[k] = s[k - l]
    BY ONLY <2>1, <2>2, <1>13
  <2>4. l + 1 \in l + 1 .. l + 2 /\ l + 2 \in l + 1 .. l + 2 /\ l + 1 - l = 1 /\ l + 2 - l = 2
    OBVIOUS
  <2>5. calls[l + 1] = y /\ calls[l + 2] = z
    BY <2>3, <2>4, <1>12
  <2> QED
    BY <2>1, <2>2, <2>5, <1>13
<1>15. \A k \in 1 .. l :
         /\ calls[k].do = "expr" /\ Uses(calls[k]) = 0 /\ Gives(calls[k]) = 1
         /\ calls[k] # Do("expr", None)
  <2> TAKE k \in 1 .. l
  <2>1. calls[k] = Do("expr", e.sub[k]) /\ calls[k] \in Calls(p)
    BY <1>7, <1>14
  <2>2. calls[k].do = "expr" /\ calls[k].arg = e.sub[k]
    BY <2>1, DoFacts
  <2>3. e.sub[k] # None
    BY <1>3, <1>6, OperandFacts
  <2>4. calls[k] # Do("expr", None)
    BY <2>2, <2>3, DoFacts
  <2> QED
    BY <2>1, <2>2, <2>4, <1>3, CallCounts
<1>16. PICK g :
         /\ \A k \in 1 .. l + 1 : g[k] = n + k - 1
         /\ g[l + 2] = n /\ g[l + 3] = n + 1
  <2> WITNESS [k \in 1 .. l + 3 |-> IF k = l + 3 THEN n + 1 ELSE
                                    IF k = l + 2 THEN n ELSE n + k - 1]
  <2> QED
    OBVIOUS
<1>17. PICK m \in Nat \ {0} : m = l + 2
  OBVIOUS
<1>18. Pushes(p, types, Call, n, calls, m, g)
  <2>1. \A k \in 1 .. m + 1 : g[k] \in Nat
    BY <1>16, <1>17
  <2>2. g[1] = n /\ g[m + 1] = n + 1
    BY <1>16, <1>17
  <2>3. \A k \in 1 .. m : /\ calls[k].do \in InnerCalls
                          /\ calls[k] # Do("expr", None)
                          /\ g[k] >= Uses(calls[k])
                          /\ g[k] - Uses(calls[k]) >= n
                          /\ g[k + 1] = g[k] - Uses(calls[k]) + Gives(calls[k])
    <3> TAKE k \in 1 .. m
    <3>1. y # Do("expr", None) /\ z # Do("expr", None)
      BY <1>11, DoFacts
    <3>2. CASE k = l + 1
      <4>1. calls[k] = y /\ g[k] = n + l /\ g[k + 1] = n
        <5>1. l + 1 \in 1 .. l + 1 /\ (l + 1) + 1 = l + 2 /\ n + (l + 1) - 1 = n + l
          OBVIOUS
        <5>2. g[l + 1] = n + l /\ g[(l + 1) + 1] = n
          BY <5>1, <1>16
        <5> QED
          BY <5>2, <3>2, <1>14
      <4> QED
        BY <3>1, <4>1, <1>11 DEF InnerCalls
    <3>3. CASE k = l + 2
      <4>1. calls[k] = z /\ g[k] = n /\ g[k + 1] = n + 1
        BY <3>3, <1>14, <1>16
      <4> QED
        BY <3>1, <4>1, <1>11 DEF InnerCalls
    <3>4. CASE k \in 1 .. l
      <4>1. g[k] = n + k - 1 /\ g[k + 1] = n + k
        BY <3>4, <1>16
      <4> QED
        BY <3>4, <4>1, <1>15 DEF InnerCalls
    <3> QED
      BY <3>2, <3>3, <3>4, <1>17
  <2>4. \A k \in 1 .. m : calls[k].do \in {"expr", "arguments"} \/ calls[k] = z
    <3> TAKE k \in 1 .. m
    <3>1. k \in 1 .. l \/ k = l + 1 \/ k = l + 2
      BY <1>17
    <3> QED
      BY <3>1, <1>11, <1>14, <1>15
  <2>5. \A k \in 1 .. m : ~ ToVariable(calls[k])
    BY <2>4, <1>11 DEF ToVariable
  <2>6. ~ (Call.do = "expr" /\ Call.arg.kind = "ID")
    BY <1>1
  <2>7. ASSUME NEW k \in 1 .. m, \E w \in Copied(calls[k]) : Tainted(w)
        PROVE  \E d \in DOMAIN types : Explains(types, d)
    <3>1. CASE calls[k].do \in {"expr", "arguments"}
      BY <2>7, <3>1 DEF Copied
    <3>2. CASE calls[k] = z
      BY <2>7, <3>2, <1>8, <1>10
    <3> QED
      BY <2>4, <3>1, <3>2
  <2> QED
    BY <2>1, <2>2, <2>3, <2>5, <2>6, <2>7, <1>14, <1>17 DEF Pushes
<1>19. Replace(calls)
  BY <1>1, <1>5, <1>7, <1>9, <1>10, <1>12, <1>13
<1>20. Pushes(ast_head, types, Call, Len(values), calls, m, g)
  BY <1>2, <1>4, <1>18
<1> QED
  BY <1>1, <1>19, <1>20, Pushed

(* An argument is checked once more, against its parameter.                *)
LEMMA CallNextStep ==
  ASSUME Inv, CallNext
  PROVE  Inv'
<1>1. PICK c :
        /\ c = Call.arg /\ status = "running" /\ todo # <<>> /\ Call.do = "call"
        /\ Kind(c.type) = "FUNCTION" /\ c.args # <<>> /\ c.params # <<>>
        /\ Replace(<<Do("expr", Head(c.args)), Do("argument", Head(c.params)),
                     Do("call", [c EXCEPT !.args = Tail(@), !.params = Tail(@)])>>)
        /\ UNCHANGED values /\ Quietly
  BY DEF CallNext, Ready
<1>2. PICK p : p = ast_head
  OBVIOUS
<1>3. /\ p \in Programs /\ values \in Seq(TypeWords)
      /\ c \in Snapshots(p)
      /\ c.type \in TypeWords /\ c.result \in TypeWords
      /\ c.params \in Seq(TypeWords) /\ c.args \in Seq(Exprs(p))
      /\ Tainted(c.type) => Missing
      /\ Tainted(c.result) => Missing
      /\ \A i \in 1 .. Len(c.params) : Tainted(c.params[i]) => Missing
  BY <1>1, <1>2, CallNow, SnapshotFacts
<1>4. PICK n \in Nat : n = Len(values)
  BY <1>3
<1>5. PICK e \in Exprs(p) : e = Head(c.args)
  BY <1>1, <1>3, HeadTailProperties
<1>6. PICK t \in TypeWords : t = Head(c.params) /\ (Tainted(t) => Missing)
  BY <1>1, <1>3
<1>7. PICK q \in Seq(TypeWords) :
        q = Tail(c.params) /\ \A i \in 1 .. Len(q) : Tainted(q[i]) => Missing
  <2>1. Tail(c.params) \in Seq(TypeWords) /\ Len(Tail(c.params)) = Len(c.params) - 1
        /\ Len(c.params) \in Nat
        /\ \A i \in 1 .. Len(c.params) - 1 : Tail(c.params)[i] = c.params[i + 1]
    BY <1>1, <1>3, Rest
  <2>2. PICK m \in Nat : m = Len(c.params)
    BY <2>1
  <2>3. \A i \in 1 .. m - 1 : i + 1 \in 1 .. m
    OBVIOUS
  <2> QED
    BY <2>1, <2>2, <2>3, <1>3
<1>8. PICK d : d = [c EXCEPT !.args = Tail(@), !.params = Tail(@)]
  OBVIOUS
<1>9. /\ d \in Snapshots(p) /\ d.type = c.type /\ d.result = c.result /\ d.params = q
  <2>1. Tail(c.args) \in Seq(Exprs(p))
    BY <1>1, <1>3, Rest
  <2> QED
    BY <2>1, <1>3, <1>7, <1>8 DEF Snapshots
<1>10. PICK x \in Calls(p) : x = Do("expr", e)
  BY DEF Calls
<1>11. PICK y \in Calls(p) : y = Do("argument", t)
  BY DEF Calls
<1>12. PICK z \in Calls(p) : z = Do("call", d)
  BY <1>9 DEF Calls
<1>13. /\ x.do = "expr" /\ Uses(x) = 0 /\ Gives(x) = 1
       /\ y.do = "argument" /\ y.arg = t /\ Uses(y) = 1 /\ Gives(y) = 0
       /\ z.do = "call" /\ z.arg = d /\ Uses(z) = 0 /\ Gives(z) = 1
  <2>1. x.do = "expr" /\ y.do = "argument" /\ y.arg = t /\ z.do = "call" /\ z.arg = d
    BY <1>10, <1>11, <1>12, DoFacts
  <2> QED
    BY <2>1, <1>3, CallCounts DEF Outer
<1>14. x # Do("expr", None) /\ y # Do("expr", None) /\ z # Do("expr", None)
  <2>1. e # None
    BY <1>3, OperandFacts
  <2> QED
    BY <2>1, <1>10, <1>13, DoFacts
<1>15. PICK calls \in Seq(Calls(p)) :
         calls = <<x, y, z>> /\ Len(calls) = 3 /\ calls[1] = x /\ calls[2] = y /\ calls[3] = z
  <2>1. PICK w : w = <<x, y, z>>
    OBVIOUS
  <2>2. w \in Seq(Calls(p)) /\ Len(w) = 3 /\ w[1] = x /\ w[2] = y /\ w[3] = z
    BY <2>1, Triple
  <2> QED
    BY <2>1, <2>2
<1>16. PICK g : g[1] = n /\ g[2] = n + 1 /\ g[3] = n /\ g[4] = n + 1
  <2> WITNESS [k \in 1 .. 4 |-> IF k \in {1, 3} THEN n ELSE n + 1]
  <2> QED
    OBVIOUS
<1>17. PICK m \in Nat \ {0} : m = 3
  OBVIOUS
<1>18. Pushes(p, types, Call, n, calls, m, g)
  <2>1. \A k \in 1 .. m + 1 : k = 1 \/ k = 2 \/ k = 3 \/ k = 4
    BY <1>17
  <2>2. \A k \in 1 .. m : k = 1 \/ k = 2 \/ k = 3
    BY <1>17
  <2>3. \A k \in 1 .. m + 1 : g[k] \in Nat
    BY <2>1, <1>16
  <2>4. g[1] = n /\ g[m + 1] = n + 1
    BY <1>16, <1>17
  <2>5. \A k \in 1 .. m : /\ calls[k].do \in InnerCalls
                          /\ calls[k] # Do("expr", None)
                          /\ g[k] >= Uses(calls[k])
                          /\ g[k] - Uses(calls[k]) >= n
                          /\ g[k + 1] = g[k] - Uses(calls[k]) + Gives(calls[k])
    <3> TAKE k \in 1 .. m
    <3>1. CASE k = 1
      BY <3>1, <1>13, <1>14, <1>15, <1>16 DEF InnerCalls
    <3>2. CASE k = 2
      BY <3>2, <1>13, <1>14, <1>15, <1>16 DEF InnerCalls
    <3>3. CASE k = 3
      BY <3>3, <1>13, <1>14, <1>15, <1>16 DEF InnerCalls
    <3> QED
      BY <2>2, <3>1, <3>2, <3>3
  <2>6. \A k \in 1 .. m : ~ ToVariable(calls[k])
    BY <2>2, <1>13, <1>15 DEF ToVariable
  <2>7. ~ (Call.do = "expr" /\ Call.arg.kind = "ID")
    BY <1>1
  <2>8. ASSUME NEW k \in 1 .. m, NEW w \in Copied(calls[k]), Tainted(w)
        PROVE  Missing
    <3>1. CASE k = 1
      BY <3>1, <2>8, <1>13, <1>15 DEF Copied
    <3>2. CASE k = 2
      BY <3>2, <2>8, <1>6, <1>13, <1>15 DEF Copied
    <3>3. CASE k = 3
      <4>1. w \in {c.type} \cup
                  (IF c.type[1] = "FUNCTION" THEN {c.result} \cup Range(q) ELSE {})
        <5>1. calls[k] = z
          BY <3>3, <1>15
        <5> QED
          BY <5>1, <2>8, <1>9, <1>13 DEF Copied
      <4>2. \A u \in Range(q) : Tainted(u) => Missing
        <5>1. Range(q) = {q[i] : i \in 1 .. Len(q)}
          BY RangeEquality
        <5> QED
          BY <5>1, <1>7
      <4> QED
        BY <4>1, <4>2, <2>8, <1>3
    <3> QED
      BY <2>2, <3>1, <3>2, <3>3
  <2>9. \A k \in 1 .. m : (\E w \in Copied(calls[k]) : Tainted(w)) =>
          \E i \in DOMAIN types : Explains(types, i)
    BY <2>8 DEF Missing
  <2> QED
    BY <2>3, <2>4, <2>5, <2>6, <2>7, <2>9, <1>15, <1>17 DEF Pushes
<1>19. Replace(calls)
  BY <1>1, <1>5, <1>6, <1>8, <1>10, <1>11, <1>12, <1>15
<1>20. Pushes(ast_head, types, Call, Len(values), calls, m, g)
  BY <1>2, <1>4, <1>18
<1> QED
  BY <1>1, <1>19, <1>20, Pushed

-----------------------------------------------------------------------------
(***************************************************************************)
(* Statements and declarations.                                            *)
(***************************************************************************)

(* Before a statement or a declaration nothing has been computed.          *)
LEMMA OuterNow ==
  ASSUME Inv, todo # <<>>, Call.do \in Outer
  PROVE  values = <<>> /\ Tail(todo) \in Seq(Outers(ast_head))
<1>1. PICK h \in Seq(Nat), b \in Nat : Walk(ast_head, types, todo, values, h, b)
  BY CallNow
<1>2. ast_head \in Programs /\ todo[1].do \in Outer
  BY CallNow
<1> QED
  BY <1>1, <1>2, OuterFacts

(* A statement's expressions are checked, and its parts after them.        *)
LEMMA Started ==
  ASSUME Inv, todo # <<>>, Call.do \in Outer, status' = "running", type_err' \in BOOLEAN,
         UNCHANGED <<ast_head, types, values>>,
         NEW a \in Seq(Exprs(ast_head) \cup {None}), NEW end \in Calls(ast_head),
         end.do \in EndCalls, Uses(end) = Len(a),
         (\E i \in 1 .. Len(a) : a[i] = None) => end.do \in Lenient,
         NEW r \in Seq(Outers(ast_head)),
         todo' = (Each("expr", a) \o <<end>>) \o (r \o Tail(todo))
  PROVE  Inv'
<1>1. /\ values = <<>> /\ Tail(todo) \in Seq(Outers(ast_head))
      /\ ast_head \in Programs /\ TypesOf(types, ast_head)
  BY OuterNow, CallNow
<1>2. PICK p, tys : p = ast_head /\ tys = types
  OBVIOUS
<1>3. PICK t \in Seq(Outers(p)) : t = r \o Tail(todo)
  <2>1. r \in Seq(Outers(p)) /\ Tail(todo) \in Seq(Outers(p))
    BY <1>1, <1>2
  <2> QED
    BY ONLY <2>1, Joined
<1>4. /\ p \in Programs /\ TypesOf(tys, p) /\ a \in Seq(Exprs(p) \cup {None})
      /\ end \in Calls(p)
  BY <1>1, <1>2
<1>5. \E h1 \in Seq(Nat), b1 \in Nat : Walk(p, tys, (Each("expr", a) \o <<end>>) \o t, <<>>, h1, b1)
  BY <1>3, <1>4, StartWalk
<1>6. PICK h1 \in Seq(Nat), b1 \in Nat :
        Walk(p, tys, (Each("expr", a) \o <<end>>) \o t, <<>>, h1, b1)
  BY <1>5
<1>7. Walk(ast_head', types', todo', values', h1, b1)
  BY <1>1, <1>2, <1>3, <1>6
<1>8. WalkInv'
  BY <1>7 DEF WalkInv
<1> QED
  BY <1>8, RunsOn

(* A statement without expressions.                                        *)
LEMMA Continued ==
  ASSUME Inv, todo # <<>>, Call.do \in Outer, status' = "running", type_err' \in BOOLEAN,
         UNCHANGED <<ast_head, types, values>>,
         NEW r \in Seq(Outers(ast_head)), todo' = r \o Tail(todo)
  PROVE  Inv'
<1>1. /\ values = <<>> /\ Tail(todo) \in Seq(Outers(ast_head))
      /\ ast_head \in Programs /\ TypesOf(types, ast_head)
  BY OuterNow, CallNow
<1>2. PICK p, tys : p = ast_head /\ tys = types
  OBVIOUS
<1>3. PICK t \in Seq(Outers(p)) : t = r \o Tail(todo)
  <2>1. r \in Seq(Outers(p)) /\ Tail(todo) \in Seq(Outers(p))
    BY <1>1, <1>2
  <2> QED
    BY ONLY <2>1, Joined
<1>4. p \in Programs /\ TypesOf(tys, p)
  BY <1>1, <1>2
<1>5. \E h1 \in Seq(Nat), b1 \in Nat : Walk(p, tys, t, <<>>, h1, b1)
  BY <1>4, StartOuter
<1>6. PICK h1 \in Seq(Nat), b1 \in Nat : Walk(p, tys, t, <<>>, h1, b1)
  BY <1>5
<1>7. Walk(ast_head', types', todo', values', h1, b1)
  BY <1>1, <1>2, <1>3, <1>6
<1>8. WalkInv'
  BY <1>7 DEF WalkInv
<1> QED
  BY <1>8, RunsOn

(* The statements of a block, a loop or an if.                             *)
Bodies(ss, f) == [i \in DOMAIN ss |-> Do("stmt", [stmt |-> ss[i], func |-> f])]

(* They are statements of the program. *)
LEMMA BodiesFacts ==
  ASSUME NEW p, NEW ss \in Seq(Parts(p).stmts), NEW f \in Parts(p).decls
  PROVE  Bodies(ss, f) \in Seq(Outers(p))
<1>1. PICK l \in Nat : l = Len(ss) /\ DOMAIN ss = 1 .. l
  OBVIOUS
<1> DEFINE g == [i \in 1 .. l |-> Do("stmt", [stmt |-> ss[i], func |-> f])]
<1>2. \A i \in 1 .. l : Do("stmt", [stmt |-> ss[i], func |-> f]) \in Outers(p)
  <2> TAKE i \in 1 .. l
  <2>1. ss[i] \in Parts(p).stmts
    BY <1>1
  <2>2. PICK c : c = Do("stmt", [stmt |-> ss[i], func |-> f])
    OBVIOUS
  <2>3. c \in Calls(p)
    BY <2>1, <2>2 DEF Calls
  <2>4. c.do = "stmt"
    BY <2>2, DoFacts
  <2> QED
    BY <2>2, <2>3, <2>4 DEF Outers, Outer
<1>3. g \in [1 .. l -> Outers(p)]
  BY <1>2
<1>4. Bodies(ss, f) = g
  BY <1>1 DEF Bodies
<1> HIDE DEF g
<1> QED
  BY <1>3, <1>4, Listed

(* What a statement makes of itself, by its kind.                          *)
LEMMA StmtCases ==
  ASSUME NEW s, NEW f
  PROVE  /\ s.kind = "DECL" => StmtCalls(s, f) = <<Do("decl", s.val)>>
         /\ s.kind = "EXPR" => StmtCalls(s, f) = Each("expr", s.sub) \o <<Do("forget", 1)>>
         /\ s.kind = "PRINT" =>
              StmtCalls(s, f) = Each("expr", s.sub) \o <<Do("arguments", Len(s.sub))>>
         /\ s.kind = "RETURN" =>
              StmtCalls(s, f) = Each("expr", IF s.sub = <<>> THEN <<None>> ELSE s.sub)
                                \o <<Do("return", f)>>
         /\ s.kind = "IF_ELSE" =>
              StmtCalls(s, f) = (Each("expr", SubSeq(s.sub, 1, 1)) \o <<Do("condition", 1)>>)
                                \o Bodies(SubSeq(s.sub, 2, 3), f)
         /\ s.kind = "FOR" =>
              StmtCalls(s, f) = (Each("expr", SubSeq(s.sub, 1, 3)) \o <<Do("loop", 3)>>)
                                \o Bodies(SubSeq(s.sub, 4, 4), f)
         /\ s.kind = "BLOCK" => StmtCalls(s, f) = Bodies(s.sub, f)
         /\ s.kind = "NONE" => StmtCalls(s, f) = <<>>
BY DEF StmtCalls, Bodies

(* A statement: its expressions are checked, then its parts.               *)
LEMMA stmt_typecheckStep ==
  ASSUME Inv, stmt_typecheck
  PROVE  Inv'
<1>1. PICK s, f :
        /\ s = Call.arg.stmt /\ f = Call.arg.func
        /\ status = "running" /\ todo # <<>> /\ Call.do = "stmt"
        /\ Replace(StmtCalls(s, f))
        /\ UNCHANGED values /\ Quietly
  BY DEF stmt_typecheck, Ready
<1>2. PICK p : p = ast_head
  OBVIOUS
<1>3. /\ p \in Programs /\ s \in Parts(p).stmts /\ f \in Parts(p).decls
      /\ Tail(todo) \in Seq(Outers(p))
  <2>1. p \in Programs /\ Call \in Calls(p) /\ Tail(todo) \in Seq(Outers(p))
    BY <1>1, <1>2, CallNow, OuterNow DEF Outer
  <2> QED
    BY <2>1, <1>1, CallForms
<1>4. /\ todo' = StmtCalls(s, f) \o Tail(todo)
      /\ UNCHANGED <<ast_head, types, values>> /\ status' = "running" /\ type_err' \in BOOLEAN
      /\ Call.do \in Outer /\ todo # <<>>
  BY <1>1 DEF Replace, Quietly, Outer, Inv
<1>5. StmtOK(s, p)
  BY <1>3, ProgramsAssumption
<1>6. \A e \in Exprs(p) : e # None
  BY <1>3, OperandFacts
<1>7. \A x \in Seq(Calls(p)), y \in Calls(p) : x \o <<y>> \in Seq(Calls(p))
  OBVIOUS
<1>8. \A a \in Seq(Exprs(p)) : a \in Seq(Exprs(p) \cup {None})
                               /\ \A i \in 1 .. Len(a) : a[i] # None
  <2> TAKE a \in Seq(Exprs(p))
  <2>1. \A i \in 1 .. Len(a) : a[i] \in Exprs(p)
    OBVIOUS
  <2> QED
    BY <2>1, <1>6
<1>9. PICK t \in Seq(Calls(p)) : t = Tail(todo)
  <2>1. Outers(p) \subseteq Calls(p)
    BY DEF Outers
  <2> QED
    BY <2>1, <1>3, Widened
<1>10. ASSUME NEW a \in Seq(Exprs(p) \cup {None}), NEW end \in Calls(p),
              end.do \in EndCalls, Uses(end) = Len(a),
              (\E i \in 1 .. Len(a) : a[i] = None) => end.do \in Lenient,
              StmtCalls(s, f) = Each("expr", a) \o <<end>>
       PROVE  Inv'
  <2>1. PICK r : r = <<>> /\ r \in Seq(Outers(p))
    BY Nothing
  <2>2. r \o Tail(todo) = Tail(todo)
    BY <2>1, <1>1, CallNow
  <2>3. todo' = (Each("expr", a) \o <<end>>) \o (r \o Tail(todo))
    BY <2>2, <1>4, <1>10
  <2>4. /\ a \in Seq(Exprs(ast_head) \cup {None}) /\ end \in Calls(ast_head)
        /\ r \in Seq(Outers(ast_head))
    BY <2>1, <1>2, <1>10
  <2> QED
    BY <2>3, <2>4, <1>4, <1>10, Started
<1>11. ASSUME NEW a \in Seq(Exprs(p) \cup {None}), NEW end \in Calls(p),
              end.do \in EndCalls, Uses(end) = Len(a),
              (\E i \in 1 .. Len(a) : a[i] = None) => end.do \in Lenient,
              NEW r \in Seq(Outers(p)),
              StmtCalls(s, f) = (Each("expr", a) \o <<end>>) \o r
       PROVE  Inv'
  <2>1. PICK x \in Seq(Calls(p)) : x = Each("expr", a) \o <<end>>
    <3>1. Each("expr", a) \in Seq(Calls(p))
      BY <1>11, EachFacts
    <3> QED
      BY <3>1, <1>7, <1>11
  <2>2. r \in Seq(Calls(p))
    <3>1. Outers(p) \subseteq Calls(p)
      BY DEF Outers
    <3> QED
      BY <3>1, <1>11, Widened
  <2>3. (x \o r) \o t = x \o (r \o t)
    <3>1. PICK S : S = Calls(p)
      OBVIOUS
    <3>2. x \in Seq(S) /\ r \in Seq(S) /\ t \in Seq(S)
      BY <2>2, <3>1
    <3> QED
      BY ONLY <3>2, Grouped
  <2>4. todo' = (Each("expr", a) \o <<end>>) \o (r \o Tail(todo))
    BY <2>1, <2>3, <1>4, <1>9, <1>11
  <2>5. /\ a \in Seq(Exprs(ast_head) \cup {None}) /\ end \in Calls(ast_head)
        /\ r \in Seq(Outers(ast_head))
    BY <1>2, <1>11
  <2> QED
    BY <2>4, <2>5, <1>4, <1>11, Started
<1>12. ASSUME NEW r \in Seq(Outers(p)), StmtCalls(s, f) = r
       PROVE  Inv'
  <2>1. r \in Seq(Outers(ast_head)) /\ todo' = r \o Tail(todo)
    BY <1>2, <1>4, <1>12
  <2> QED
    BY <2>1, <1>4, Continued
<1>13. \A end \in Calls(p) : end.do \in {"arguments", "forget", "condition", "loop"} =>
         Uses(end) = end.arg
  BY <1>3, CallCounts
<1>14. CASE s.kind = "DECL"
  <2>1. PICK c : c = Do("decl", s.val)
    OBVIOUS
  <2>2. s.val \in Parts(p).decls
    BY <1>5, <1>14 DEF StmtOK
  <2>3. c \in Calls(p) /\ c.do = "decl"
    BY <2>1, <2>2, DoFacts DEF Calls
  <2>4. PICK r \in Seq(Outers(p)) : r = <<c>>
    <3>1. c \in Outers(p)
      BY <2>3 DEF Outers, Outer
    <3> QED
      BY <3>1, Single
  <2> QED
    BY <2>1, <2>4, <1>12, <1>14, StmtCases
<1>15. CASE s.kind = "EXPR"
  <2>1. PICK end \in Calls(p) : end = Do("forget", 1)
    BY DEF Calls
  <2>2. end.do = "forget" /\ end.arg = 1
    BY <2>1, DoFacts
  <2>3. s.sub \in Seq(Exprs(p)) /\ Len(s.sub) = 1
    BY <1>5, <1>15 DEF StmtOK, Exprs
  <2>4. PICK a \in Seq(Exprs(p) \cup {None}) : a = s.sub /\ Len(a) = 1
    BY <2>3, <1>8
  <2>5. end.do \in EndCalls /\ end.do \in Lenient /\ Uses(end) = Len(a)
    BY <2>2, <2>4, <1>13 DEF EndCalls, Lenient
  <2>6. StmtCalls(s, f) = Each("expr", a) \o <<end>>
    BY <2>1, <2>4, <1>15, StmtCases
  <2> QED
    BY <2>5, <2>6, <1>10
<1>16. CASE s.kind = "PRINT"
  <2>1. s.sub \in Seq(Exprs(p))
    BY <1>5, <1>16 DEF StmtOK, Exprs
  <2>2. PICK a \in Seq(Exprs(p) \cup {None}) : a = s.sub /\ \A i \in 1 .. Len(a) : a[i] # None
    BY <2>1, <1>8
  <2>3. PICK end \in Calls(p) : end = Do("arguments", Len(a))
    BY DEF Calls
  <2>4. end.do = "arguments" /\ end.arg = Len(a)
    BY <2>3, DoFacts
  <2>5. end.do \in EndCalls /\ Uses(end) = Len(a)
    BY <2>4, <1>13 DEF EndCalls
  <2>6. StmtCalls(s, f) = Each("expr", a) \o <<end>>
    BY <2>2, <2>3, <1>16, StmtCases
  <2> QED
    BY <2>2, <2>5, <2>6, <1>10
<1>17. CASE s.kind = "RETURN"
  <2>1. PICK end \in Calls(p) : end = Do("return", f)
    BY <1>3 DEF Calls
  <2>2. end.do = "return"
    BY <2>1, DoFacts
  <2>3. s.sub \in Seq(Exprs(p)) /\ Len(s.sub) \in {0, 1}
    BY <1>5, <1>17 DEF StmtOK, Exprs
  <2>4. PICK a \in Seq(Exprs(p) \cup {None}) :
          a = (IF s.sub = <<>> THEN <<None>> ELSE s.sub) /\ Len(a) = 1
    <3>1. CASE s.sub = <<>>
      BY <3>1, Single
    <3>2. CASE s.sub # <<>>
      <4>1. Len(s.sub) = 1
        BY <3>2, <2>3
      <4> QED
        BY <3>2, <4>1, <2>3, <1>8
    <3> QED
      BY <3>1, <3>2
  <2>5. end.do \in EndCalls /\ end.do \in Lenient /\ Uses(end) = Len(a)
    BY <2>2, <2>4, <1>3, CallCounts DEF EndCalls, Lenient
  <2>6. StmtCalls(s, f) = Each("expr", a) \o <<end>>
    BY <2>1, <2>4, <1>17, StmtCases
  <2> QED
    BY <2>5, <2>6, <1>10
<1>18. CASE s.kind = "IF_ELSE"
  <2>1. PICK end \in Calls(p) : end = Do("condition", 1)
    BY DEF Calls
  <2>2. end.do = "condition" /\ end.arg = 1
    BY <2>1, DoFacts
  <2>3. PICK e \in Exprs(p), s1 \in Parts(p).stmts, s2 \in Parts(p).stmts : s.sub = <<e, s1, s2>>
    BY <1>5, <1>18 DEF StmtOK, Exprs
  <2>4. SubSeq(s.sub, 1, 1) = <<e>> /\ SubSeq(s.sub, 2, 3) = <<s1, s2>>
    <3>1. PICK q : q = <<e, s1, s2>>
      OBVIOUS
    <3>2. /\ q \in Seq({e, s1, s2}) /\ Len(q) = 3
          /\ q[1] = e /\ q[2] = s1 /\ q[3] = s2
      BY <3>1, Triple
    <3>3. SubSeq(q, 1, 1) = <<e>> /\ SubSeq(q, 2, 3) = <<s1, s2>>
      BY <3>2, Cut
    <3> QED
      BY <3>1, <3>3, <2>3
  <2>5. PICK a \in Seq(Exprs(p) \cup {None}) : a = <<e>> /\ Len(a) = 1
                                               /\ \A i \in 1 .. Len(a) : a[i] # None
    <3>1. <<e>> \in Seq(Exprs(p)) /\ Len(<<e>>) = 1
      BY Single
    <3> QED
      BY <3>1, <1>8
  <2>6. PICK r \in Seq(Outers(p)) : r = Bodies(<<s1, s2>>, f)
    <3>1. <<s1, s2>> \in Seq(Parts(p).stmts)
      BY Pair
    <3> QED
      BY <3>1, <1>3, BodiesFacts
  <2>7. end.do \in EndCalls /\ Uses(end) = Len(a)
    BY <2>2, <2>5, <1>13 DEF EndCalls
  <2>8. StmtCalls(s, f) = (Each("expr", a) \o <<end>>) \o r
    BY <2>1, <2>4, <2>5, <2>6, <1>18, StmtCases
  <2> QED
    BY <2>5, <2>7, <2>8, <1>11
<1>19. CASE s.kind = "FOR"
  <2>1. PICK end \in Calls(p) : end = Do("loop", 3)
    BY DEF Calls
  <2>2. end.do = "loop" /\ end.arg = 3
    BY <2>1, DoFacts
  <2>3. /\ s.sub \in Seq(Exprs(p) \cup Parts(p).stmts \cup {None}) /\ Len(s.sub) = 4
        /\ \A i \in 1 .. 3 : s.sub[i] \in Exprs(p) \cup {None}
        /\ s.sub[4] \in Parts(p).stmts
    BY <1>5, <1>19 DEF StmtOK, Exprs
  <2>4. PICK q : q = s.sub
    OBVIOUS
  <2>5. PICK a \in Seq(Exprs(p) \cup {None}) : a = SubSeq(q, 1, 3) /\ Len(a) = 3
    <3>1. SubSeq(q, 1, 3) = <<q[1], q[2], q[3]>>
      BY <2>3, <2>4, Cut
    <3>2. /\ q[1] \in Exprs(p) \cup {None} /\ q[2] \in Exprs(p) \cup {None}
          /\ q[3] \in Exprs(p) \cup {None}
      BY <2>3, <2>4
    <3>3. PICK a : a = <<q[1], q[2], q[3]>>
      OBVIOUS
    <3>4. a \in Seq(Exprs(p) \cup {None}) /\ Len(a) = 3
      BY <3>2, <3>3, Triple
    <3> QED
      BY <3>1, <3>3, <3>4
  <2>6. PICK r \in Seq(Outers(p)) : r = Bodies(SubSeq(q, 4, 4), f)
    <3>1. SubSeq(q, 4, 4) = <<q[4]>>
      BY <2>3, <2>4, Cut
    <3>2. <<q[4]>> \in Seq(Parts(p).stmts)
      BY <2>3, <2>4, Single
    <3> QED
      BY <3>1, <3>2, <1>3, BodiesFacts
  <2>7. end.do \in EndCalls /\ end.do \in Lenient /\ Uses(end) = Len(a)
    BY <2>2, <2>5, <1>13 DEF EndCalls, Lenient
  <2>8. StmtCalls(s, f) = (Each("expr", a) \o <<end>>) \o r
    BY <2>1, <2>4, <2>5, <2>6, <1>19, StmtCases
  <2> QED
    BY <2>7, <2>8, <1>11
<1>20. CASE s.kind = "BLOCK"
  <2>1. s.sub \in Seq(Parts(p).stmts)
    BY <1>5, <1>20 DEF StmtOK
  <2>2. PICK r \in Seq(Outers(p)) : r = Bodies(s.sub, f)
    BY <2>1, <1>3, BodiesFacts
  <2> QED
    BY <2>2, <1>12, <1>20, StmtCases
<1>21. CASE s.kind = "NONE"
  <2>1. PICK r \in Seq(Outers(p)) : r = <<>>
    BY Nothing
  <2> QED
    BY <2>1, <1>12, <1>21, StmtCases
<1>22. s.kind \in StmtKinds \cup {"NONE"}
  BY <1>5 DEF StmtOK
<1> QED
  BY <1>14, <1>15, <1>16, <1>17, <1>18, <1>19, <1>20, <1>21, <1>22 DEF StmtKinds

(* A declaration: its value is checked, then the body of a function.       *)
LEMMA decl_typecheckStep ==
  ASSUME Inv, decl_typecheck
  PROVE  Inv'
<1>1. PICK d :
        /\ d = Call.arg
        /\ status = "running" /\ todo # <<>> /\ Call.do = "decl"
        /\ \/ /\ Sizeless(d.type)
              /\ status' = "crashed"
              /\ UNCHANGED <<todo, type_err>>
           \/ /\ type_err' = (type_err \/ InvalidType(d.type))
              /\ Replace(DeclCalls(d))
              /\ UNCHANGED status
        /\ UNCHANGED <<ast_head, types, values>>
  BY DEF decl_typecheck, Ready
<1>2. PICK p : p = ast_head
  OBVIOUS
<1>3. /\ p \in Programs /\ TypesOf(types, p)
      /\ d \in Parts(p).decls
      /\ d.value \in Exprs(p) \cup {None}
      /\ d.code = <<>> \/ \E s \in Parts(p).stmts : d.code = <<s>>
      /\ d.type \in 1 .. Len(types)
      /\ Tail(todo) \in Seq(Outers(p))
  BY <1>1, <1>2, CallNow, DeclFacts, OuterNow DEF Outer
<1>4. CASE Sizeless(d.type) /\ status' = "crashed" /\ UNCHANGED <<todo, type_err>>
  <2>1. PICK c \in Nest[d.type] : types[c].kind = "ARRAY" /\ types[c].size = NoSize
    BY <1>4 DEF Sizeless
  <2>2. c \in DOMAIN types
    <3>1. d.type \in 0 .. Len(types)
      BY <1>3
    <3> QED
      BY <3>1, <2>1, <1>3, NestFacts
  <2>3. Missing
    BY <2>1, <2>2 DEF Missing, Explains
  <2> QED
    BY <2>3, <1>1, <1>4, Crashes DEF CrashBody
<1>5. CASE /\ type_err' = (type_err \/ InvalidType(d.type))
           /\ Replace(DeclCalls(d)) /\ UNCHANGED status
  <2>1. type_err' \in BOOLEAN /\ status' = "running"
    BY <1>1, <1>5
  <2>2. PICK a \in Seq(Exprs(p) \cup {None}) : a = <<d.value>> /\ Len(a) = 1 /\ a[1] = d.value
    BY <1>3, Single
  <2>3. PICK end \in Calls(p) : end = Do("initial", d)
    BY <1>3 DEF Calls
  <2>4. end.do = "initial"
    BY <2>3, DoFacts
  <2>5. end.do \in EndCalls /\ end.do \in Lenient /\ Uses(end) = Len(a)
    BY <2>2, <2>4, <1>3, CallCounts DEF EndCalls, Lenient
  <2>6. PICK r \in Seq(Outers(p)) : r = Bodies(d.code, d)
    <3>1. d.code \in Seq(Parts(p).stmts)
      BY <1>3, Single, Nothing
    <3> QED
      BY <3>1, <1>3, BodiesFacts
  <2>7. PICK x \in Seq(Calls(p)) : x = Each("expr", a) /\ x = <<Do("expr", d.value)>>
    <3>1. /\ Each("expr", a) \in Seq(Calls(p)) /\ Len(Each("expr", a)) = 1
          /\ Each("expr", a)[1] = Do("expr", d.value)
      <4>1. PICK x : x = Each("expr", a)
        OBVIOUS
      <4>2. /\ x \in Seq(Calls(p)) /\ Len(x) = Len(a)
            /\ \A k \in 1 .. Len(a) : x[k] = Do("expr", a[k])
        BY <4>1, EachFacts
      <4> QED
        BY <4>1, <4>2, <2>2
    <3> QED
      BY <3>1, Lone
  <2>8. PICK c : c = Do("expr", d.value)
    OBVIOUS
  <2>9. x \o <<end>> = <<c, end>>
    <3>1. x = <<c>>
      BY <2>7, <2>8
    <3>2. <<c>> \o <<end>> = <<c, end>>
      <4>1. c \in {c, end} /\ end \in {c, end}
        OBVIOUS
      <4> QED
        BY ONLY <4>1, Pair
    <3> QED
      BY <3>1, <3>2
  <2>10. PICK y \in Seq(Calls(p)) : y = x \o <<end>>
    <3>1. x \in Seq(Calls(p)) /\ <<end>> \in Seq(Calls(p))
      BY Single
    <3> QED
      BY ONLY <3>1, Joined
  <2>11. DeclCalls(d) = y \o r
    BY <2>3, <2>6, <2>8, <2>9, <2>10 DEF DeclCalls, Bodies
  <2>12. r \in Seq(Calls(p)) /\ Tail(todo) \in Seq(Calls(p))
    <3>1. Outers(p) \subseteq Calls(p)
      BY DEF Outers
    <3> QED
      BY <3>1, <2>6, <1>3
  <2>13. PICK t : t = Tail(todo)
    OBVIOUS
  <2>14. (y \o r) \o t = y \o (r \o t)
    <3>1. PICK S : S = Calls(p)
      OBVIOUS
    <3>2. y \in Seq(S) /\ r \in Seq(S) /\ t \in Seq(S)
      BY <2>12, <2>13, <3>1
    <3> QED
      BY ONLY <3>2, Grouped
  <2>15. todo' = (Each("expr", a) \o <<end>>) \o (r \o Tail(todo))
    BY <2>7, <2>10, <2>11, <2>13, <2>14, <1>5 DEF Replace
  <2>16. /\ a \in Seq(Exprs(ast_head) \cup {None}) /\ end \in Calls(ast_head)
         /\ r \in Seq(Outers(ast_head)) /\ Call.do \in Outer
    BY <2>2, <2>3, <2>6, <1>1, <1>2 DEF Outer
  <2> QED
    BY <2>1, <2>5, <2>15, <2>16, <1>1, Started
<1> QED
  BY <1>1, <1>4, <1>5

(* Nothing happens any more. *)
LEMMA StutterStep ==
  ASSUME Inv, UNCHANGED vars
  PROVE  Inv'
BY CrashExplainedBy
   DEF vars, Inv, WalkInv, CrashExplained, CrashBody, Missing, Explains, Call, Latest

-----------------------------------------------------------------------------
(***************************************************************************)
(* The theorems.                                                           *)
(***************************************************************************)

(* Before the walk there are only the declarations of the program. *)
LEMMA InitInv ==
  ASSUME TypeCheckInit
  PROVE  Inv
<1>1. PICK p \in Programs : p = ast_head
  BY DEF TypeCheckInit
<1>2. PICK tys : tys = p.types /\ tys = types
  BY <1>1 DEF TypeCheckInit
<1>3. TypesOf(tys, p)
  BY <1>1, <1>2, ProgramsAssumption DEF TypesOf, TableOK
<1>4. PICK l \in Nat : l = Len(p.decls) /\ DOMAIN p.decls = 1 .. l
                       /\ \A i \in 1 .. l : p.decls[i] \in Parts(p).decls
  BY <1>1, ProgramsAssumption
<1> DEFINE f == [i \in 1 .. l |-> Do("decl", p.decls[i])]
<1>5. \A i \in 1 .. l : Do("decl", p.decls[i]) \in Outers(p)
  <2> TAKE i \in 1 .. l
  <2>1. PICK c : c = Do("decl", p.decls[i])
    OBVIOUS
  <2>2. c \in Calls(p) /\ c.do = "decl"
    BY <2>1, <1>4, DoFacts DEF Calls
  <2> QED
    BY <2>1, <2>2 DEF Outers, Outer
<1>6. f \in [1 .. l -> Outers(p)]
  BY <1>5
<1>7. todo = f
  BY <1>1, <1>4 DEF TypeCheckInit, Each
<1> HIDE DEF f
<1>8. f \in Seq(Outers(p))
  BY <1>6, Listed
<1>9. PICK h1 \in Seq(Nat), b1 \in Nat : Walk(p, tys, f, <<>>, h1, b1)
  BY <1>1, <1>3, <1>8, StartOuter
<1>10. WalkInv
  <2>1. Walk(ast_head, types, todo, values, h1, b1)
    BY <1>1, <1>2, <1>7, <1>9 DEF TypeCheckInit
  <2> QED
    BY <2>1 DEF WalkInv
<1> QED
  BY <1>10 DEF TypeCheckInit, Inv, CrashExplained

(* Every handler keeps the walk in its shape, and crashes only where it is *)
(* explained.                                                              *)
LEMMA NextInv ==
  ASSUME Inv, [Next]_vars
  PROVE  Inv'
<1>1. CASE SkipNull
  BY <1>1, SkipNullStep
<1>2. CASE Descend
  BY <1>2, DescendStep
<1>3. CASE CheckNode
  BY <1>3, CheckNodeStep
<1>4. CASE CheckAssign
  BY <1>4, CheckAssignStep
<1>5. CASE EnterCall
  BY <1>5, EnterCallStep
<1>6. CASE CallUnresolved
  BY <1>6, CallUnresolvedStep
<1>7. CASE CheckArguments
  BY <1>7, CheckArgumentsStep
<1>8. CASE CallNonFunction
  BY <1>8, CallNonFunctionStep
<1>9. CASE CallReturns
  BY <1>9, CallReturnsStep
<1>10. CASE CallNext
  BY <1>10, CallNextStep
<1>11. CASE CheckArgument
  BY <1>11, CheckArgumentStep
<1>12. CASE stmt_typecheck
  BY <1>12, stmt_typecheckStep
<1>13. CASE ForgetResult
  BY <1>13, ForgetResultStep
<1>14. CASE CheckCondition
  BY <1>14, CheckConditionStep
<1>15. CASE CheckLoop
  BY <1>15, CheckLoopStep
<1>16. CASE CheckReturn
  BY <1>16, CheckReturnStep
<1>17. CASE decl_typecheck
  BY <1>17, decl_typecheckStep
<1>18. CASE CheckInitial
  BY <1>18, CheckInitialStep
<1>19. CASE Terminated
  BY <1>19, StutterStep DEF Terminated
<1>20. CASE UNCHANGED vars
  BY <1>20, StutterStep
<1> QED
  BY <1>1, <1>2, <1>3, <1>4, <1>5, <1>6, <1>7, <1>8, <1>9, <1>10, <1>11, <1>12, <1>13,
     <1>14, <1>15, <1>16, <1>17, <1>18, <1>19, <1>20 DEF Next

(* Types stay types: what expr_typecheck returns has a kind, and the table *)
(* of struct types refers to itself only, whatever auto has become.        *)
THEOREM TypesStayTypes == Spec => []TypeOK
<1>1. TypeCheckInit => Inv
  BY InitInv
<1>2. Inv /\ [Next]_vars => Inv'
  BY NextInv
<1>3. Inv => TypeOK
  <2> SUFFICES ASSUME Inv PROVE TypeOK
    OBVIOUS
  <2>1. PICK h \in Seq(Nat), b \in Nat : Walk(ast_head, types, todo, values, h, b)
    BY DEF Inv, WalkInv
  <2>2. ast_head \in Programs /\ TypesOf(types, ast_head) /\ values \in Seq(TypeWords)
    BY <2>1 DEF Inv, Walk
  <2>3. PICK n \in Nat :
          /\ n = Len(types) /\ DOMAIN types = 1 .. n
          /\ \A c \in 1 .. n : types[c].kind \in TypeKinds /\ types[c].sub \in 0 .. c - 1
    BY <2>2, TableFacts
  <2>4. \A c \in DOMAIN types : types[c].kind \in TypeKinds /\ types[c].sub \in 0 .. Len(types)
    BY <2>3
  <2>5. \A i \in DOMAIN values : values[i] # <<>>
    <3> TAKE i \in DOMAIN values
    <3>1. values[i] \in TypeWords
      BY <2>2
    <3> QED
      BY <3>1, WordFacts
  <2> QED
    BY <2>4, <2>5 DEF TypeOK, Inv
<1> QED
  BY <1>1, <1>2, <1>3, PTL DEF Spec

(* Whatever the program, the type checker follows a NULL pointer only      *)
(* where a type has a part missing, where something without a symbol is    *)
(* looked up or assigned to, or in the code of what is no function.        *)
THEOREM CrashesAreExplained == Spec => []CrashExplained
<1>1. TypeCheckInit => Inv
  BY InitInv
<1>2. Inv /\ [Next]_vars => Inv'
  BY NextInv
<1>3. Inv => CrashExplained
  BY DEF Inv
<1> QED
  BY <1>1, <1>2, <1>3, PTL DEF Spec
=============================================================================
