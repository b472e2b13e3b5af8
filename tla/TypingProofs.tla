---------------------------- MODULE TypingProofs ----------------------------
(***************************************************************************)
(* Proof that the type checker rejects a program without auto exactly when *)
(* it breaks a typing rule, for every program.                             *)
(*                                                                         *)
(* Each call of the type checker has a meaning of its own under the rules: *)
(* the stack of types that it makes from another, if it finds no fault.    *)
(* A list of calls runs from one stack to another, and passes when it runs *)
(* to its end.  The invariant Exact says that the program is well typed    *)
(* exactly when what is left of todo passes from the values there are.     *)
(* Handlers are compared with the rules one by one.                        *)
(***************************************************************************)
EXTENDS Typing, TypeCheckProofs

-----------------------------------------------------------------------------
(***************************************************************************)
(* Recursion over programs.                                                *)
(***************************************************************************)

(* The heights of the nodes of a program.                                  *)
LEMMA HeightFacts ==
  ASSUME NEW p \in Programs
  PROVE  /\ Tallest(p) \in Nat
         /\ \A e \in Exprs(p) : Height(e) \in Nat /\ Height(e) < Tallest(p) + 1
         /\ \A s \in Parts(p).stmts : Height(s) \in Nat /\ Height(s) < Tallest(p) + 1
BY HeightAssumption DEF Exprs

(* The parts of an expression are lower expressions.                       *)
LEMMA PartsBelow ==
  ASSUME NEW p \in Programs, NEW e \in Exprs(p), NEW k \in Nat, Height(e) < k + 1
  PROVE  \A i \in DOMAIN e.sub : e.sub[i] \in Exprs(p) /\ Height(e.sub[i]) < k
<1>1. ExprOK(e, p)
  BY ProgramsAssumption DEF Exprs
<1>2. \A i \in DOMAIN e.sub : e.sub[i] \in Exprs(p)
  BY <1>1 DEF ExprOK, Exprs
<1>3. \A i \in DOMAIN e.sub : Height(e.sub[i]) < Height(e)
  BY HeightAssumption DEF Exprs
<1>4. Height(e) \in Nat /\ \A i \in DOMAIN e.sub : Height(e.sub[i]) \in Nat
  BY <1>2, HeightFacts
<1> QED
  BY <1>2, <1>3, <1>4

(* The recursion over the parts of a node ends.  The type of an expression. *)
LEMMA TypeOfUnfolds ==
  ASSUME NEW p \in Programs, NEW table
  PROVE  \A e \in Exprs(p) : TypeOf(p, table)[e] = Result(table, e, TypesWithin(p, table, e))
<1> DEFINE Body(f, e) == Result(table, e, [i \in DOMAIN e.sub |-> f[e.sub[i]]])
           Low(k) == {e \in Exprs(p) : Height(e) < k}
           Solves(f, k) == f = [e \in Low(k) |-> Body(f, e)]
           S == {k \in Nat : \E f : Solves(f, k)}
<1>1. ASSUME NEW k \in Nat, NEW e \in Low(k + 1), NEW f, NEW g,
             \A y \in Low(k) : f[y] = g[y]
      PROVE  Body(f, e) = Body(g, e)
  <2>1. \A i \in DOMAIN e.sub : e.sub[i] \in Low(k)
    BY PartsBelow
  <2>2. [i \in DOMAIN e.sub |-> f[e.sub[i]]] = [i \in DOMAIN e.sub |-> g[e.sub[i]]]
    BY <1>1, <2>1
  <2> QED
    BY <2>2
<1>2. 0 \in S
  <2> DEFINE g == [e \in Low(0) |-> Body([y \in {} |-> 0], e)]
  <2>1. Low(0) = {}
    <3>1. \A e \in Exprs(p) : Height(e) \in Nat
      BY HeightFacts
    <3> QED
      BY <3>1
  <2>2. Solves(g, 0)
    <3> HIDE DEF Body
    <3> QED
      BY <2>1
  <2> HIDE DEF Solves, g
  <2> QED
    BY <2>2
<1>3. ASSUME NEW k \in Nat, k \in S PROVE k + 1 \in S
  <2>1. PICK f : Solves(f, k)
    BY <1>3
  <2> DEFINE g == [e \in Low(k + 1) |-> Body(f, e)]
  <2>2. Low(k) \subseteq Low(k + 1)
    BY HeightFacts
  <2>3. \A y \in Low(k) : f[y] = g[y]
    <3> HIDE DEF Body, Low
    <3> QED
      BY <2>1, <2>2
  <2>4. \A e \in Low(k + 1) : Body(f, e) = Body(g, e)
    <3> HIDE DEF Body, Low, g
    <3> QED
      BY <2>3, <1>1
  <2>5. g = [e \in Low(k + 1) |-> Body(g, e)]
    <3> HIDE DEF Body, Low
    <3> QED
      BY <2>4
  <2>6. Solves(g, k + 1)
    <3> HIDE DEF g, Body, Low
    <3> QED
      BY <2>5
  <2> HIDE DEF g, Solves
  <2> QED
    BY <2>6
<1>4. \A k \in Nat : k \in S
  <2> HIDE DEF S
  <2> QED
    BY <1>2, <1>3, NaturalInduction
<1>5. Low(Tallest(p) + 1) = Exprs(p) /\ Tallest(p) + 1 \in Nat
  BY HeightFacts
<1>6. PICK f : f = [e \in Exprs(p) |-> Body(f, e)]
  <2>1. PICK f : Solves(f, Tallest(p) + 1)
    <3> HIDE DEF Solves
    <3> QED
      BY <1>4, <1>5
  <2>2. f = [e \in Exprs(p) |-> Body(f, e)]
    <3> HIDE DEF Body, Low
    <3> QED
      BY <2>1, <1>5
  <2> QED
    BY <2>2
<1>7. TypeOf(p, table) = [e \in Exprs(p) |-> Body(TypeOf(p, table), e)]
  BY <1>6 DEF TypeOf, Exprs
<1>8. \A e \in Exprs(p) : TypeOf(p, table)[e] = Body(TypeOf(p, table), e)
  <2> HIDE DEF Body
  <2> QED
    BY <1>7
<1> QED
  BY <1>8 DEF TypesWithin

(* Whether it has one.                                                     *)
LEMMA ExprTypedUnfolds ==
  ASSUME NEW p \in Programs, NEW table
  PROVE  \A e \in Exprs(p) : ExprTyped(p, table)[e] = ((\A i \in DOMAIN e.sub : ExprTyped(p, table)[e.sub[i]]) /\ Fits(table, e, TypesWithin(p, table, e)))
<1> DEFINE Body(f, e) == (\A i \in DOMAIN e.sub : f[e.sub[i]]) /\ Fits(table, e, TypesWithin(p, table, e))
           Low(k) == {e \in Exprs(p) : Height(e) < k}
           Solves(f, k) == f = [e \in Low(k) |-> Body(f, e)]
           S == {k \in Nat : \E f : Solves(f, k)}
<1>1. ASSUME NEW k \in Nat, NEW e \in Low(k + 1), NEW f, NEW g,
             \A y \in Low(k) : f[y] = g[y]
      PROVE  Body(f, e) = Body(g, e)
  <2>1. \A i \in DOMAIN e.sub : e.sub[i] \in Low(k)
    BY PartsBelow
  <2>2. \A i \in DOMAIN e.sub : f[e.sub[i]] = g[e.sub[i]]
    BY <1>1, <2>1
  <2> QED
    BY <2>2
<1>2. 0 \in S
  <2> DEFINE g == [e \in Low(0) |-> Body([y \in {} |-> 0], e)]
  <2>1. Low(0) = {}
    <3>1. \A e \in Exprs(p) : Height(e) \in Nat
      BY HeightFacts
    <3> QED
      BY <3>1
  <2>2. Solves(g, 0)
    <3> HIDE DEF Body
    <3> QED
      BY <2>1
  <2> HIDE DEF Solves, g
  <2> QED
    BY <2>2
<1>3. ASSUME NEW k \in Nat, k \in S PROVE k + 1 \in S
  <2>1. PICK f : Solves(f, k)
    BY <1>3
  <2> DEFINE g == [e \in Low(k + 1) |-> Body(f, e)]
  <2>2. Low(k) \subseteq Low(k + 1)
    BY HeightFacts
  <2>3. \A y \in Low(k) : f[y] = g[y]
    <3> HIDE DEF Body, Low
    <3> QED
      BY <2>1, <2>2
  <2>4. \A e \in Low(k + 1) : Body(f, e) = Body(g, e)
    <3> HIDE DEF Body, Low, g
    <3> QED
      BY <2>3, <1>1
  <2>5. g = [e \in Low(k + 1) |-> Body(g, e)]
    <3> HIDE DEF Body, Low
    <3> QED
      BY <2>4
  <2>6. Solves(g, k + 1)
    <3> HIDE DEF g, Body, Low
    <3> QED
      BY <2>5
  <2> HIDE DEF g, Solves
  <2> QED
    BY <2>6
<1>4. \A k \in Nat : k \in S
  <2> HIDE DEF S
  <2> QED
    BY <1>2, <1>3, NaturalInduction
<1>5. Low(Tallest(p) + 1) = Exprs(p) /\ Tallest(p) + 1 \in Nat
  BY HeightFacts
<1>6. PICK f : f = [e \in Exprs(p) |-> Body(f, e)]
  <2>1. PICK f : Solves(f, Tallest(p) + 1)
    <3> HIDE DEF Solves
    <3> QED
      BY <1>4, <1>5
  <2>2. f = [e \in Exprs(p) |-> Body(f, e)]
    <3> HIDE DEF Body, Low
    <3> QED
      BY <2>1, <1>5
  <2> QED
    BY <2>2
<1>7. ExprTyped(p, table) = [e \in Exprs(p) |-> Body(ExprTyped(p, table), e)]
  BY <1>6 DEF ExprTyped, Exprs
<1>8. \A e \in Exprs(p) : ExprTyped(p, table)[e] = Body(ExprTyped(p, table), e)
  <2> HIDE DEF Body
  <2> QED
    BY <1>7
<1> QED
  BY <1>8

(* What is inside an expression.                                           *)
LEMMA InsideUnfolds ==
  ASSUME NEW p \in Programs
  PROVE  \A e \in Exprs(p) : Inside(p)[e] = ({e} \cup UNION {Inside(p)[e.sub[i]] : i \in DOMAIN e.sub})
<1> DEFINE Body(f, e) == {e} \cup UNION {f[e.sub[i]] : i \in DOMAIN e.sub}
           Low(k) == {e \in Exprs(p) : Height(e) < k}
           Solves(f, k) == f = [e \in Low(k) |-> Body(f, e)]
           S == {k \in Nat : \E f : Solves(f, k)}
<1>1. ASSUME NEW k \in Nat, NEW e \in Low(k + 1), NEW f, NEW g,
             \A y \in Low(k) : f[y] = g[y]
      PROVE  Body(f, e) = Body(g, e)
  <2>1. \A i \in DOMAIN e.sub : e.sub[i] \in Low(k)
    BY PartsBelow
  <2>2. {f[e.sub[i]] : i \in DOMAIN e.sub} = {g[e.sub[i]] : i \in DOMAIN e.sub}
    BY <1>1, <2>1
  <2> QED
    BY <2>2
<1>2. 0 \in S
  <2> DEFINE g == [e \in Low(0) |-> Body([y \in {} |-> 0], e)]
  <2>1. Low(0) = {}
    <3>1. \A e \in Exprs(p) : Height(e) \in Nat
      BY HeightFacts
    <3> QED
      BY <3>1
  <2>2. Solves(g, 0)
    <3> HIDE DEF Body
    <3> QED
      BY <2>1
  <2> HIDE DEF Solves, g
  <2> QED
    BY <2>2
<1>3. ASSUME NEW k \in Nat, k \in S PROVE k + 1 \in S
  <2>1. PICK f : Solves(f, k)
    BY <1>3
  <2> DEFINE g == [e \in Low(k + 1) |-> Body(f, e)]
  <2>2. Low(k) \subseteq Low(k + 1)
    BY HeightFacts
  <2>3. \A y \in Low(k) : f[y] = g[y]
    <3> HIDE DEF Body, Low
    <3> QED
      BY <2>1, <2>2
  <2>4. \A e \in Low(k + 1) : Body(f, e) = Body(g, e)
    <3> HIDE DEF Body, Low, g
    <3> QED
      BY <2>3, <1>1
  <2>5. g = [e \in Low(k + 1) |-> Body(g, e)]
    <3> HIDE DEF Body, Low
    <3> QED
      BY <2>4
  <2>6. Solves(g, k + 1)
    <3> HIDE DEF g, Body, Low
    <3> QED
      BY <2>5
  <2> HIDE DEF g, Solves
  <2> QED
    BY <2>6
<1>4. \A k \in Nat : k \in S
  <2> HIDE DEF S
  <2> QED
    BY <1>2, <1>3, NaturalInduction
<1>5. Low(Tallest(p) + 1) = Exprs(p) /\ Tallest(p) + 1 \in Nat
  BY HeightFacts
<1>6. PICK f : f = [e \in Exprs(p) |-> Body(f, e)]
  <2>1. PICK f : Solves(f, Tallest(p) + 1)
    <3> HIDE DEF Solves
    <3> QED
      BY <1>4, <1>5
  <2>2. f = [e \in Exprs(p) |-> Body(f, e)]
    <3> HIDE DEF Body, Low
    <3> QED
      BY <2>1, <1>5
  <2> QED
    BY <2>2
<1>7. Inside(p) = [e \in Exprs(p) |-> Body(Inside(p), e)]
  BY <1>6 DEF Inside, Exprs
<1>8. \A e \in Exprs(p) : Inside(p)[e] = Body(Inside(p), e)
  <2> HIDE DEF Body
  <2> QED
    BY <1>7
<1> QED
  BY <1>8

(* The parts of a statement are lower statements, and so is the code of a  *)
(* declaration.                                                            *)
LEMMA StmtsBelow ==
  ASSUME NEW p \in Programs, NEW s \in Parts(p).stmts, NEW k \in Nat, Height(s) < k + 1
  PROVE  /\ s.kind = "DECL" => /\ s.val \in Parts(p).decls
                               /\ \A i \in DOMAIN s.val.code :
                                    /\ s.val.code[i] \in Parts(p).stmts
                                    /\ Height(s.val.code[i]) < k
         /\ s.kind = "IF_ELSE" => \A i \in {2, 3} : /\ s.sub[i] \in Parts(p).stmts
                                                    /\ Height(s.sub[i]) < k
         /\ s.kind = "FOR" => /\ s.sub[4] \in Parts(p).stmts
                              /\ Height(s.sub[4]) < k
         /\ s.kind = "BLOCK" => \A i \in DOMAIN s.sub : /\ s.sub[i] \in Parts(p).stmts
                                                       /\ Height(s.sub[i]) < k
<1>1. StmtOK(s, p) /\ \A d \in Parts(p).decls : DeclOK(d, p)
  BY ProgramsAssumption
<1>2. /\ Height(s) \in Nat
      /\ \A i \in DOMAIN s.sub : Height(s.sub[i]) < Height(s)
      /\ s.kind = "DECL" => \A i \in DOMAIN s.val.code : Height(s.val.code[i]) < Height(s)
  BY HeightAssumption
<1>3. \A t \in Parts(p).stmts : Height(t) \in Nat
  BY HeightFacts
<1>4. ASSUME s.kind = "DECL"
      PROVE  /\ s.val \in Parts(p).decls
             /\ \A i \in DOMAIN s.val.code : s.val.code[i] \in Parts(p).stmts
  <2>1. s.val \in Parts(p).decls /\ DeclOK(s.val, p)
    BY <1>1, <1>4 DEF StmtOK
  <2>2. s.val.code = <<>> \/ \E t \in Parts(p).stmts : s.val.code = <<t>>
    BY <2>1 DEF DeclOK
  <2> QED
    BY <2>1, <2>2
<1>5. ASSUME s.kind = "IF_ELSE"
      PROVE  \A i \in {2, 3} : s.sub[i] \in Parts(p).stmts /\ i \in DOMAIN s.sub
  <2>1. PICK e \in Parts(p).exprs, s1 \in Parts(p).stmts, s2 \in Parts(p).stmts :
          s.sub = <<e, s1, s2>>
    BY <1>1, <1>5 DEF StmtOK
  <2> QED
    BY <2>1
<1>6. ASSUME s.kind = "FOR" PROVE s.sub[4] \in Parts(p).stmts /\ 4 \in DOMAIN s.sub
  BY <1>1, <1>6 DEF StmtOK
<1>7. ASSUME s.kind = "BLOCK" PROVE \A i \in DOMAIN s.sub : s.sub[i] \in Parts(p).stmts
  BY <1>1, <1>7 DEF StmtOK
<1>8. \A t \in Parts(p).stmts : Height(t) < Height(s) => Height(t) < k
  BY <1>2, <1>3
<1> QED
  BY <1>2, <1>4, <1>5, <1>6, <1>7, <1>8

(* Which statements are right.                                             *)
LEMMA StmtTypedUnfolds ==
  ASSUME NEW p \in Programs, NEW table
  PROVE  \A x \in (Parts(p).stmts \X Parts(p).decls) : StmtTyped(p, table)[x] = StmtRight(p, table, StmtTyped(p, table), x[1], x[2])
<1> DEFINE Body(f, x) == StmtRight(p, table, f, x[1], x[2])
           Low(k) == {x \in (Parts(p).stmts \X Parts(p).decls) : Height(x[1]) < k}
           Solves(f, k) == f = [x \in Low(k) |-> Body(f, x)]
           S == {k \in Nat : \E f : Solves(f, k)}
<1>1. ASSUME NEW k \in Nat, NEW x \in Low(k + 1), NEW f, NEW g,
             \A y \in Low(k) : f[y] = g[y]
      PROVE  Body(f, x) = Body(g, x)
  <2>1. PICK s \in Parts(p).stmts, d \in Parts(p).decls : x = <<s, d>>
    OBVIOUS
  <2>2. \A t \in Parts(p).stmts, c \in Parts(p).decls :
          Height(t) < k => f[<<t, c>>] = g[<<t, c>>]
    BY <1>1
  <2>3. Height(s) < k + 1
    BY <2>1
  <2>4. StmtRight(p, table, f, s, d) = StmtRight(p, table, g, s, d)
    <3> HIDE DEF Body, Low
    <3>1. CASE s.kind = "DECL"
      <4>1. \A i \in DOMAIN s.val.code : f[<<s.val.code[i], s.val>>] = g[<<s.val.code[i], s.val>>]
        BY <2>2, <2>3, <3>1, StmtsBelow
      <4> QED
        BY <3>1, <4>1 DEF StmtRight, DeclRight
    <3>2. CASE s.kind = "IF_ELSE"
      <4>1. f[<<s.sub[2], d>>] = g[<<s.sub[2], d>>] /\ f[<<s.sub[3], d>>] = g[<<s.sub[3], d>>]
        BY <2>2, <2>3, <3>2, StmtsBelow
      <4> QED
        BY <3>2, <4>1 DEF StmtRight
    <3>3. CASE s.kind = "FOR"
      <4>1. f[<<s.sub[4], d>>] = g[<<s.sub[4], d>>]
        BY <2>2, <2>3, <3>3, StmtsBelow
      <4> QED
        BY <3>3, <4>1 DEF StmtRight
    <3>4. CASE s.kind = "BLOCK"
      <4>1. \A i \in DOMAIN s.sub : f[<<s.sub[i], d>>] = g[<<s.sub[i], d>>]
        BY <2>2, <2>3, <3>4, StmtsBelow
      <4> QED
        BY <3>4, <4>1 DEF StmtRight
    <3>5. CASE s.kind \in {"EXPR", "PRINT", "RETURN", "NONE"}
      BY <3>5 DEF StmtRight
    <3>6. s.kind \in StmtKinds \cup {"NONE"}
      <4>1. StmtOK(s, p)
        BY ProgramsAssumption
      <4> QED
        BY ONLY <4>1 DEF StmtOK
    <3> QED
      BY <3>1, <3>2, <3>3, <3>4, <3>5, <3>6 DEF StmtKinds
  <2> QED
    BY <2>1, <2>4
<1>2. 0 \in S
  <2> DEFINE g == [x \in Low(0) |-> Body([y \in {} |-> 0], x)]
  <2>1. Low(0) = {}
    <3>1. \A x \in (Parts(p).stmts \X Parts(p).decls) : Height(x[1]) \in Nat
      BY HeightFacts
    <3> QED
      BY <3>1
  <2>2. Solves(g, 0)
    <3> HIDE DEF Body
    <3> QED
      BY <2>1
  <2> HIDE DEF Solves, g
  <2> QED
    BY <2>2
<1>3. ASSUME NEW k \in Nat, k \in S PROVE k + 1 \in S
  <2>1. PICK f : Solves(f, k)
    BY <1>3
  <2> DEFINE g == [x \in Low(k + 1) |-> Body(f, x)]
  <2>2. Low(k) \subseteq Low(k + 1)
    BY HeightFacts
  <2>3. \A y \in Low(k) : f[y] = g[y]
    <3> HIDE DEF Body, Low
    <3> QED
      BY <2>1, <2>2
  <2>4. \A x \in Low(k + 1) : Body(f, x) = Body(g, x)
    <3> HIDE DEF Body, Low, g
    <3> QED
      BY <2>3, <1>1
  <2>5. g = [x \in Low(k + 1) |-> Body(g, x)]
    <3> HIDE DEF Body, Low
    <3> QED
      BY <2>4
  <2>6. Solves(g, k + 1)
    <3> HIDE DEF g, Body, Low
    <3> QED
      BY <2>5
  <2> HIDE DEF g, Solves
  <2> QED
    BY <2>6
<1>4. \A k \in Nat : k \in S
  <2> HIDE DEF S
  <2> QED
    BY <1>2, <1>3, NaturalInduction
<1>5. Low(Tallest(p) + 1) = (Parts(p).stmts \X Parts(p).decls) /\ Tallest(p) + 1 \in Nat
  BY HeightFacts
<1>6. PICK f : f = [x \in (Parts(p).stmts \X Parts(p).decls) |-> Body(f, x)]
  <2>1. PICK f : Solves(f, Tallest(p) + 1)
    <3> HIDE DEF Solves
    <3> QED
      BY <1>4, <1>5
  <2>2. f = [x \in (Parts(p).stmts \X Parts(p).decls) |-> Body(f, x)]
    <3> HIDE DEF Body, Low
    <3> QED
      BY <2>1, <1>5
  <2> QED
    BY <2>2
<1>7. StmtTyped(p, table) = [x \in (Parts(p).stmts \X Parts(p).decls) |-> Body(StmtTyped(p, table), x)]
  BY <1>6 DEF StmtTyped
<1>8. \A x \in (Parts(p).stmts \X Parts(p).decls) : StmtTyped(p, table)[x] = Body(StmtTyped(p, table), x)
  <2> HIDE DEF Body
  <2> QED
    BY <1>7
<1> QED
  BY <1>8

-----------------------------------------------------------------------------
(***************************************************************************)
(* Valid types.                                                            *)
(***************************************************************************)

(* No part of a type is missing.                                           *)
Full(table) ==
  \A c \in 1 .. Len(table) : table[c].kind \in {"ARRAY", "FUNCTION"} => table[c].sub # 0

ValidBody(table, f, c) ==
  LET t == table[c]
      isFunction(q) == table[q].kind = "FUNCTION"
  IN
  CASE t.kind = "ARRAY" -> t.size # Computed /\ ~ isFunction(t.sub) /\ f[t.sub]
    [] t.kind = "FUNCTION" -> ~ \E q \in {t.sub} \cup Range(t.params) : isFunction(q)
    [] OTHER -> TRUE

(* Which types are valid.                                                  *)
LEMMA ValidUnfolds ==
  ASSUME NEW p \in Programs, NEW table, TypesOf(table, p), Full(table)
  PROVE  \A c \in 1 .. Len(table) : ValidTypes(table)[c] = ValidBody(table, ValidTypes(table), c)
<1>1. PICK n \in Nat : n = Len(table) /\ DOMAIN table = 1 .. n
  BY TableFacts
<1>2. \A c \in 1 .. n : table[c].kind = "ARRAY" => table[c].sub \in 1 .. c - 1
  BY <1>1, TableFacts DEF Full
<1> DEFINE Solves(f, k) == f = [c \in 1 .. k |-> ValidBody(table, f, c)]
           S == {k \in Nat : k <= n => \E f : Solves(f, k)}
<1>3. 0 \in S
  <2> DEFINE g == [c \in 1 .. 0 |-> ValidBody(table, <<>>, c)]
  <2>1. Solves(g, 0)
    OBVIOUS
  <2> HIDE DEF Solves, g
  <2> QED
    BY <2>1
<1>4. ASSUME NEW k \in Nat, k \in S PROVE k + 1 \in S
  <2>1. SUFFICES ASSUME k + 1 <= n PROVE \E f : Solves(f, k + 1)
    OBVIOUS
  <2>2. PICK f : Solves(f, k)
    BY <1>4, <2>1
  <2> DEFINE g == [c \in 1 .. k + 1 |-> ValidBody(table, f, c)]
  <2>3. \A c \in 1 .. k : g[c] = f[c]
    BY <2>2
  <2>4. \A c \in 1 .. k + 1 : table[c].kind = "ARRAY" => g[table[c].sub] = f[table[c].sub]
    <3>1. \A c \in 1 .. k + 1 : table[c].kind = "ARRAY" => table[c].sub \in 1 .. k
      BY <1>2, <2>1
    <3> HIDE DEF g
    <3> QED
      BY <2>3, <3>1
  <2>5. \A c \in 1 .. k + 1 : ValidBody(table, g, c) = ValidBody(table, f, c)
    <3> HIDE DEF g
    <3> QED
      BY <2>4 DEF ValidBody
  <2>6. g = [c \in 1 .. k + 1 |-> ValidBody(table, g, c)]
    BY <2>5
  <2>7. Solves(g, k + 1)
    <3> HIDE DEF g
    <3> QED
      BY <2>6
  <2> HIDE DEF g, Solves
  <2> QED
    BY <2>7
<1>5. \A k \in Nat : k \in S
  <2> HIDE DEF S
  <2> QED
    BY <1>3, <1>4, NaturalInduction
<1>6. PICK f : f = [c \in 1 .. n |-> ValidBody(table, f, c)]
  BY <1>5
<1>7. ValidTypes(table) = [c \in 1 .. n |-> ValidBody(table, ValidTypes(table), c)]
  BY <1>1, <1>6 DEF ValidTypes, ValidBody
<1> QED
  BY <1>1, <1>7

(* What the descent into a type sees.                                      *)
LEMMA NestBelow ==
  ASSUME NEW p \in Programs, TypesOf(types, p), Full(types)
  PROVE  \A c \in 1 .. Len(types) : c \in Nest[c] /\ Nest[c] \subseteq 1 .. c
<1>1. PICK n \in Nat : n = Len(types) /\ DOMAIN types = 1 .. n
  BY TableFacts
<1>2. \A c \in 1 .. n : types[c].kind = "ARRAY" => types[c].sub \in 1 .. c - 1
  BY <1>1, TableFacts DEF Full
<1>3. \A c \in 1 .. n :
        Nest[c] = IF types[c].kind = "ARRAY" THEN {c} \cup Nest[types[c].sub] ELSE {c}
  <2>1. \A c \in 1 .. n : c \in 0 .. n /\ c # 0
    OBVIOUS
  <2>2. \A c \in 1 .. n : Nest[c] = NestOf(Nest, c)
    BY <1>1, <2>1, NestUnfolds
  <2> QED
    BY <2>1, <2>2, Zenon DEF NestOf
<1> DEFINE S == {k \in Nat : \A c \in 1 .. n :
                   c <= k => c \in Nest[c] /\ Nest[c] \subseteq 1 .. c}
<1>4. 0 \in S
  OBVIOUS
<1>5. ASSUME NEW k \in Nat, k \in S PROVE k + 1 \in S
  <2>1. SUFFICES ASSUME NEW c \in 1 .. n, c = k + 1
                 PROVE  c \in Nest[c] /\ Nest[c] \subseteq 1 .. c
    BY <1>5
  <2>2. CASE types[c].kind = "ARRAY"
    <3>1. PICK d \in 1 .. n : d = types[c].sub /\ d <= k /\ d < c
      BY <1>2, <2>1, <2>2
    <3>2. Nest[d] \subseteq 1 .. d
      BY <3>1, <1>5
    <3>3. Nest[c] = {c} \cup Nest[d]
      BY <1>3, <2>2, <3>1
    <3> QED
      BY <3>1, <3>2, <3>3
  <2>3. CASE types[c].kind # "ARRAY"
    <3>1. Nest[c] = {c}
      BY <1>3, <2>3
    <3> QED
      BY <3>1
  <2> QED
    BY <2>2, <2>3
<1>6. \A k \in Nat : k \in S
  <2> HIDE DEF S
  <2> QED
    BY <1>4, <1>5, NaturalInduction
<1> QED
  BY <1>1, <1>6

(* What is wrong with a type: inside an array, and with a function.        *)
InvalidInside(c) ==
  \E a \in Nest[c] : \/ types[a].kind = "ARRAY" /\ types[a].size = Computed
                     \/ types[a].kind = "FUNCTION" /\ a # c

InvalidFunction(c) ==
  /\ types[c].kind = "FUNCTION"
  /\ \E q \in {types[c].sub} \cup Range(types[c].params) : types[q].kind = "FUNCTION"

(* The two ways in which type_check_valid finds a type invalid. *)
LEMMA InvalidParts == \A c : InvalidType(c) <=> InvalidInside(c) \/ InvalidFunction(c)
BY DEF InvalidType, InvalidInside, InvalidFunction

(* type_check_valid finds the types that are not valid.                    *)
LEMMA ValidIsChecked ==
  ASSUME NEW p \in Programs, TypesOf(types, p), Full(types)
  PROVE  \A c \in 1 .. Len(types) : ValidTypes(types)[c] <=> ~ InvalidType(c)
<1>1. PICK n \in Nat : n = Len(types) /\ DOMAIN types = 1 .. n
  BY TableFacts
<1>2. \A c \in 1 .. n : types[c].kind = "ARRAY" => types[c].sub \in 1 .. c - 1
  BY <1>1, TableFacts DEF Full
<1>3. \A c \in 1 .. n :
        Nest[c] = IF types[c].kind = "ARRAY" THEN {c} \cup Nest[types[c].sub] ELSE {c}
  <2>1. \A c \in 1 .. n : c \in 0 .. n /\ c # 0
    OBVIOUS
  <2>2. \A c \in 1 .. n : Nest[c] = NestOf(Nest, c)
    BY <1>1, <2>1, NestUnfolds
  <2> QED
    BY <2>1, <2>2, Zenon DEF NestOf
<1>4. \A c \in 1 .. n : c \in Nest[c] /\ Nest[c] \subseteq 1 .. c
  BY <1>1, NestBelow
<1>5. PICK V : V = ValidTypes(types)
  OBVIOUS
<1>6. \A c \in 1 .. n : V[c] = ValidBody(types, V, c)
  BY <1>1, <1>5, ValidUnfolds
<1> DEFINE S == {k \in Nat : \A c \in 1 .. n : c <= k => (V[c] <=> ~ InvalidType(c))}
<1>7. \A c : InvalidType(c) <=> InvalidInside(c) \/ InvalidFunction(c)
  BY InvalidParts
<1>8. ASSUME NEW c \in 1 .. n, types[c].kind # "ARRAY" PROVE V[c] <=> ~ InvalidType(c)
  <2>1. Nest[c] = {c}
    BY <1>3, <1>8
  <2>2. ~ InvalidInside(c)
    BY <2>1, <1>8 DEF InvalidInside
  <2>3. V[c] = ValidBody(types, V, c)
    BY <1>6
  <2>4. V[c] <=> ~ InvalidFunction(c)
    BY <2>3, <1>8 DEF ValidBody, InvalidFunction
  <2> QED
    BY <1>7, <2>2, <2>4
<1>9. ASSUME NEW c \in 1 .. n, types[c].kind = "ARRAY", NEW d, d = types[c].sub,
             V[d] <=> ~ InvalidType(d)
      PROVE  V[c] <=> ~ InvalidType(c)
  <2>1. d \in 1 .. n /\ d < c
    BY <1>2, <1>9
  <2>2. Nest[c] = {c} \cup Nest[d] /\ d \in Nest[d] /\ c \notin Nest[d]
    <3>1. Nest[d] \subseteq 1 .. d
      BY <2>1, <1>4
    <3>2. c \notin 1 .. d
      BY <2>1
    <3> QED
      BY <3>1, <3>2, <2>1, <1>3, <1>4, <1>9
  <2>3. ~ InvalidFunction(c)
    BY <1>9 DEF InvalidFunction
  <2>4. V[c] <=> types[c].size # Computed /\ types[d].kind # "FUNCTION" /\ V[d]
    <3>1. V[c] = ValidBody(types, V, c)
      BY <1>6
    <3> QED
      BY <3>1, <1>9 DEF ValidBody
  <2>5. InvalidInside(c) <=> \/ types[c].size = Computed
                     \/ types[d].kind = "FUNCTION"
                     \/ InvalidInside(d)
    <3>1. InvalidInside(c) <=> \/ types[c].size = Computed
                       \/ \E a \in Nest[d] : \/ types[a].kind = "ARRAY" /\ types[a].size = Computed
                                             \/ types[a].kind = "FUNCTION"
      BY <2>2, <1>9 DEF InvalidInside
    <3>2. (\E a \in Nest[d] : \/ types[a].kind = "ARRAY" /\ types[a].size = Computed
                             \/ types[a].kind = "FUNCTION")
          <=> types[d].kind = "FUNCTION" \/ InvalidInside(d)
      BY <2>2 DEF InvalidInside
    <3> QED
      BY <3>1, <3>2
  <2>6. types[d].kind # "FUNCTION" => ~ InvalidFunction(d)
    BY DEF InvalidFunction
  <2> QED
    BY <1>7, <1>9, <2>3, <2>4, <2>5, <2>6
<1>10. 0 \in S
  OBVIOUS
<1>11. ASSUME NEW k \in Nat, k \in S PROVE k + 1 \in S
  <2>1. SUFFICES ASSUME NEW c \in 1 .. n, c = k + 1 PROVE V[c] <=> ~ InvalidType(c)
    BY <1>11
  <2>2. ASSUME types[c].kind = "ARRAY"
        PROVE  V[types[c].sub] <=> ~ InvalidType(types[c].sub)
    <3>1. types[c].sub \in 1 .. n /\ types[c].sub <= k
      BY <1>2, <2>1, <2>2
    <3> QED
      BY <3>1, <1>11
  <2> QED
    BY <1>8, <1>9, <2>2
<1>12. \A k \in Nat : k \in S
  <2> HIDE DEF S
  <2> QED
    BY <1>10, <1>11, NaturalInduction
<1> QED
  BY <1>1, <1>5, <1>12

(* Constant expressions.                                                   *)
LEMMA ConstantUnfolds ==
  ASSUME NEW p \in Programs
  PROVE  \A e \in Exprs(p) : ConstantExprs(p)[e] = (e.kind \in Literal \/ (e.kind \in {"BRACE", "ARG"} /\ \A i \in DOMAIN e.sub : ConstantExprs(p)[e.sub[i]]))
<1> DEFINE Body(f, e) == e.kind \in Literal \/ (e.kind \in {"BRACE", "ARG"} /\ \A i \in DOMAIN e.sub : f[e.sub[i]])
           Low(k) == {e \in Exprs(p) : Height(e) < k}
           Solves(f, k) == f = [e \in Low(k) |-> Body(f, e)]
           S == {k \in Nat : \E f : Solves(f, k)}
<1>1. ASSUME NEW k \in Nat, NEW e \in Low(k + 1), NEW f, NEW g,
             \A y \in Low(k) : f[y] = g[y]
      PROVE  Body(f, e) = Body(g, e)
  <2>1. \A i \in DOMAIN e.sub : e.sub[i] \in Low(k)
    BY PartsBelow
  <2>2. \A i \in DOMAIN e.sub : f[e.sub[i]] = g[e.sub[i]]
    BY <1>1, <2>1
  <2> QED
    BY <2>2
<1>2. 0 \in S
  <2> DEFINE g == [e \in Low(0) |-> Body([y \in {} |-> 0], e)]
  <2>1. Low(0) = {}
    <3>1. \A e \in Exprs(p) : Height(e) \in Nat
      BY HeightFacts
    <3> QED
      BY <3>1
  <2>2. Solves(g, 0)
    <3> HIDE DEF Body
    <3> QED
      BY <2>1
  <2> HIDE DEF Solves, g
  <2> QED
    BY <2>2
<1>3. ASSUME NEW k \in Nat, k \in S PROVE k + 1 \in S
  <2>1. PICK f : Solves(f, k)
    BY <1>3
  <2> DEFINE g == [e \in Low(k + 1) |-> Body(f, e)]
  <2>2. Low(k) \subseteq Low(k + 1)
    BY HeightFacts
  <2>3. \A y \in Low(k) : f[y] = g[y]
    <3> HIDE DEF Body, Low
    <3> QED
      BY <2>1, <2>2
  <2>4. \A e \in Low(k + 1) : Body(f, e) = Body(g, e)
    <3> HIDE DEF Body, Low, g
    <3> QED
      BY <2>3, <1>1
  <2>5. g = [e \in Low(k + 1) |-> Body(g, e)]
    <3> HIDE DEF Body, Low
    <3> QED
      BY <2>4
  <2>6. Solves(g, k + 1)
    <3> HIDE DEF g, Body, Low
    <3> QED
      BY <2>5
  <2> HIDE DEF g, Solves
  <2> QED
    BY <2>6
<1>4. \A k \in Nat : k \in S
  <2> HIDE DEF S
  <2> QED
    BY <1>2, <1>3, NaturalInduction
<1>5. Low(Tallest(p) + 1) = Exprs(p) /\ Tallest(p) + 1 \in Nat
  BY HeightFacts
<1>6. PICK f : f = [e \in Exprs(p) |-> Body(f, e)]
  <2>1. PICK f : Solves(f, Tallest(p) + 1)
    <3> HIDE DEF Solves
    <3> QED
      BY <1>4, <1>5
  <2>2. f = [e \in Exprs(p) |-> Body(f, e)]
    <3> HIDE DEF Body, Low
    <3> QED
      BY <2>1, <1>5
  <2> QED
    BY <2>2
<1>7. ConstantExprs(p) = [e \in Exprs(p) |-> Body(ConstantExprs(p), e)]
  BY <1>6 DEF ConstantExprs, Exprs
<1>8. \A e \in Exprs(p) : ConstantExprs(p)[e] = Body(ConstantExprs(p), e)
  <2> HIDE DEF Body
  <2> QED
    BY <1>7
<1> QED
  BY <1>8

(* An expression is constant when all that is in it is.                    *)
LEMMA ConstantIsChecked ==
  ASSUME NEW p \in Programs
  PROVE  \A e \in Exprs(p) : ConstantExprs(p)[e] <=> \A n \in Inside(p)[e] : n.kind \in ConstantNodes
<1> DEFINE Right(e) == ConstantExprs(p)[e] <=> \A n \in Inside(p)[e] : n.kind \in ConstantNodes
           S == {k \in Nat : \A e \in Exprs(p) : Height(e) < k => Right(e)}
<1>1. \A e \in Exprs(p) :
        ConstantExprs(p)[e] <=> \/ e.kind \in Literal
                             \/ /\ e.kind \in {"BRACE", "ARG"}
                                /\ \A i \in DOMAIN e.sub : ConstantExprs(p)[e.sub[i]]
  BY ConstantUnfolds
<1>2. \A e \in Exprs(p) : Inside(p)[e] = {e} \cup UNION {Inside(p)[e.sub[i]] : i \in DOMAIN e.sub}
  BY InsideUnfolds
<1>3. ASSUME NEW e \in Exprs(p), \A i \in DOMAIN e.sub : Right(e.sub[i])
      PROVE  Right(e)
  <2>1. e.kind \in Literal => DOMAIN e.sub = {}
    <3>1. ExprOK(e, p)
      BY ProgramsAssumption DEF Exprs
    <3>2. e.kind \in Literal => Len(e.sub) = 0 /\ e.sub \in Seq(Parts(p).exprs)
      BY <3>1 DEF ExprOK, Leaf
    <3> QED
      BY <3>2
  <2>2. (\A n \in Inside(p)[e] : n.kind \in ConstantNodes) <=>
          /\ e.kind \in ConstantNodes
          /\ \A i \in DOMAIN e.sub : \A n \in Inside(p)[e.sub[i]] : n.kind \in ConstantNodes
    BY <1>2
  <2> QED
    BY <1>1, <1>3, <2>1, <2>2 DEF ConstantNodes
<1>4. 0 \in S
  BY HeightFacts
<1>5. ASSUME NEW k \in Nat, k \in S PROVE k + 1 \in S
  <2>1. SUFFICES ASSUME NEW e \in Exprs(p), Height(e) < k + 1 PROVE Right(e)
    OBVIOUS
  <2>2. \A i \in DOMAIN e.sub : e.sub[i] \in Exprs(p) /\ Height(e.sub[i]) < k
    BY <2>1, PartsBelow
  <2> HIDE DEF Right
  <2>3. \A i \in DOMAIN e.sub : Right(e.sub[i])
    BY <2>2, <1>5
  <2> QED
    BY <2>3, <1>3
<1>6. \A k \in Nat : k \in S
  <2> HIDE DEF S
  <2> QED
    BY <1>4, <1>5, NaturalInduction
<1>7. ASSUME NEW e \in Exprs(p) PROVE Right(e)
  <2>1. Tallest(p) + 1 \in Nat /\ Height(e) < Tallest(p) + 1
    BY HeightFacts
  <2>2. Tallest(p) + 1 \in S
    BY <2>1, <1>6
  <2> HIDE DEF Right
  <2> QED
    BY <2>1, <2>2
<1> QED
  BY <1>7

-----------------------------------------------------------------------------
(***************************************************************************)
(* Runs without an error.  Each call takes types from a stack and leaves   *)
(* some, according to the typing rules; a statement or a declaration as a  *)
(* whole takes and leaves none, and an expression leaves its type.         *)
(***************************************************************************)
ValueOf(p, table, e) == IF e.kind = "NONE" THEN NULL ELSE TypeOf(p, table)[e]

(* The arguments of a call against the parameters.                         *)
Matches(p, table, args, params) ==
  /\ Len(args) = Len(params)
  /\ \A i \in 1 .. Len(args) : /\ Typed(p, table, args[i])
                               /\ TypeOf(p, table)[args[i]] = params[i]
                               /\ Storable(params[i])

ReturnFits(table, t, f) ==
  LET declared == Copies(table)[table[f.type].sub] IN
  t # NULL => Kind(declared) = "AUTO" \/ t = declared

InitialFits(p, table, t, d) ==
  t # NULL =>
    /\ t = Copies(table)[d.type]
    /\ Storable(t)
    /\ d.global => ConstantExprs(p)[d.value]
    /\ ~ d.global /\ Kind(t) = "ARRAY" => d.value.kind # "BRACE"

(* The call c makes no error of the types v.                               *)
Fine(p, table, c, v) ==
  CASE c.do = "expr" -> Typed(p, table, c.arg)
    [] c.do = "node" -> Fits(table, c.arg, v)
    [] c.do = "arguments" -> \A i \in DOMAIN v : Kind(v[i]) # "AUTO"
    [] c.do = "call" -> Kind(c.arg.type) = "FUNCTION" /\ Matches(p, table, c.arg.args, c.arg.params)
    [] c.do = "argument" -> v[1] = c.arg /\ Storable(v[1])
    [] c.do = "condition" -> v[1] = Boolean
    [] c.do = "return" -> ReturnFits(table, v[1], c.arg)
    [] c.do = "initial" -> InitialFits(p, table, v[1], c.arg)
    [] c.do = "stmt" -> StmtTyped(p, table)[<<c.arg.stmt, c.arg.func>>]
    [] c.do = "decl" -> DeclTyped(p, table, c.arg)
    [] OTHER -> TRUE

(* What it leaves.                                                         *)
Leaves(p, table, c, v) ==
  CASE c.do = "expr" -> <<ValueOf(p, table, c.arg)>>
    [] c.do = "node" -> <<Result(table, c.arg, v)>>
    [] c.do = "call" -> <<c.arg.result>>
    [] OTHER -> <<>>

Stack(w) == w \in Seq(Range(w))
Top(w, n) == SubSeq(w, Len(w) - n + 1, Len(w))
Below(w, n) == SubSeq(w, 1, Len(w) - n)
OnTop(w, v) == w \o v

(* The call c turns the stack w into x.                                    *)
Makes(p, table, c, w, x) ==
  /\ Uses(c) <= Len(w)
  /\ Fine(p, table, c, Top(w, Uses(c)))
  /\ x = OnTop(Below(w, Uses(c)), Leaves(p, table, c, Top(w, Uses(c))))

(* So do the calls td.                                                     *)
Runs(p, table, td, w, x) ==
  \E ws : /\ ws[1] = w /\ ws[Len(td) + 1] = x
          /\ \A k \in 1 .. Len(td) : Makes(p, table, td[k], ws[k], ws[k + 1])

Passes(p, table, td, w) == \E x : Runs(p, table, td, w, x)

(* No call leaves the stack as it is. *)
LEMMA RunsNothing ==
  ASSUME NEW p, NEW table, NEW w, NEW x
  PROVE  Runs(p, table, <<>>, w, x) <=> x = w
<1>1. Len(<<>>) = 0 /\ 0 + 1 = 1
  OBVIOUS
<1>2. ASSUME x = w PROVE Runs(p, table, <<>>, w, x)
  <2> DEFINE ws == [k \in {1} |-> w]
  <2>1. ws[1] = w /\ ws[Len(<<>>) + 1] = x
    BY <1>1, <1>2
  <2>2. \A k \in 1 .. Len(<<>>) : Makes(p, table, <<>>[k], ws[k], ws[k + 1])
    BY <1>1
  <2> HIDE DEF ws
  <2> QED
    BY <2>1, <2>2 DEF Runs
<1>3. ASSUME Runs(p, table, <<>>, w, x) PROVE x = w
  BY <1>1, <1>3 DEF Runs
<1> QED
  BY <1>2, <1>3

(* One call runs when it makes what it should. *)
LEMMA RunsOne ==
  ASSUME NEW p, NEW table, NEW c, NEW w, NEW x
  PROVE  Runs(p, table, <<c>>, w, x) <=> Makes(p, table, c, w, x)
<1>1. PICK td : td = <<c>>
  OBVIOUS
<1>2. Len(td) = 1 /\ td[1] = c
  BY <1>1
<1>3. ASSUME Makes(p, table, c, w, x) PROVE Runs(p, table, td, w, x)
  <2> DEFINE ws == [k \in {1, 2} |-> IF k = 1 THEN w ELSE x]
  <2>1. ws[1] = w /\ ws[2] = x
    OBVIOUS
  <2> HIDE DEF ws
  <2>2. ws[Len(td) + 1] = x
    BY <1>2, <2>1
  <2>3. \A k \in 1 .. Len(td) : Makes(p, table, td[k], ws[k], ws[k + 1])
    <3>1. \A k \in 1 .. Len(td) : k = 1 /\ k + 1 = 2
      BY <1>2
    <3> QED
      BY <3>1, <1>2, <1>3, <2>1
  <2> QED
    BY <2>1, <2>2, <2>3 DEF Runs
<1>4. ASSUME Runs(p, table, td, w, x) PROVE Makes(p, table, c, w, x)
  <2>1. PICK ws : /\ ws[1] = w /\ ws[Len(td) + 1] = x
                  /\ \A k \in 1 .. Len(td) : Makes(p, table, td[k], ws[k], ws[k + 1])
    BY <1>4 DEF Runs
  <2>2. 1 \in 1 .. Len(td) /\ Len(td) + 1 = 1 + 1
    BY <1>2
  <2>3. Makes(p, table, td[1], ws[1], ws[1 + 1]) /\ ws[1 + 1] = x
    BY <2>1, <2>2
  <2> QED
    BY <2>1, <2>3, <1>2
<1> QED
  BY <1>1, <1>3, <1>4

(* One run behind another.                                                 *)
LEMMA RunsThen ==
  ASSUME NEW p, NEW table, NEW S, NEW a \in Seq(S), NEW b \in Seq(S), NEW w, NEW x
  PROVE  Runs(p, table, a \o b, w, x) <=> \E y : Runs(p, table, a, w, y) /\ Runs(p, table, b, y, x)
<1>1. PICK m \in Nat, n \in Nat : m = Len(a) /\ n = Len(b)
  OBVIOUS
<1>2. PICK td : td = a \o b
  OBVIOUS
<1>3. /\ Len(td) = m + n
      /\ \A k \in 1 .. m : td[k] = a[k] /\ k \in 1 .. m + n
      /\ \A k \in 1 .. n : td[m + k] = b[k] /\ m + k \in 1 .. m + n
  <2>1. Len(td) = m + n
    BY <1>1, <1>2
  <2>2. \A k \in 1 .. m : td[k] = a[k] /\ k \in 1 .. m + n
    BY <1>1, <1>2
  <2>3. \A k \in 1 .. n : td[m + k] = b[k] /\ m + k \in 1 .. m + n
    BY <1>1, <1>2
  <2> QED
    BY <2>1, <2>2, <2>3
<1>4. ASSUME Runs(p, table, td, w, x)
      PROVE  \E y : Runs(p, table, a, w, y) /\ Runs(p, table, b, y, x)
  <2>1. PICK ws : /\ ws[1] = w /\ ws[m + n + 1] = x
                  /\ \A k \in 1 .. m + n : Makes(p, table, td[k], ws[k], ws[k + 1])
    BY <1>3, <1>4 DEF Runs
  <2>2. \A k \in 1 .. m : Makes(p, table, a[k], ws[k], ws[k + 1])
    BY <2>1, <1>3
  <2>3. Runs(p, table, a, w, ws[m + 1])
    BY <2>1, <2>2, <1>1 DEF Runs
  <2> DEFINE us == [k \in 1 .. n + 1 |-> ws[m + k]]
  <2>4. us[1] = ws[m + 1] /\ us[n + 1] = x
    <3>1. 1 \in 1 .. n + 1 /\ n + 1 \in 1 .. n + 1 /\ m + (n + 1) = m + n + 1
      OBVIOUS
    <3>2. us[1] = ws[m + 1] /\ us[n + 1] = ws[m + (n + 1)]
      BY <3>1
    <3> QED
      BY <3>1, <3>2, <2>1
  <2>5. \A k \in 1 .. n : Makes(p, table, b[k], us[k], us[k + 1])
    <3>1. TAKE k \in 1 .. n
    <3>2. us[k] = ws[m + k] /\ us[k + 1] = ws[m + (k + 1)] /\ m + (k + 1) = (m + k) + 1
      OBVIOUS
    <3>3. Makes(p, table, td[m + k], ws[m + k], ws[(m + k) + 1])
      BY <2>1, <1>3
    <3> HIDE DEF us
    <3> QED
      BY <3>2, <3>3, <1>3
  <2> HIDE DEF us
  <2>6. Runs(p, table, b, ws[m + 1], x)
    BY <2>4, <2>5, <1>1 DEF Runs
  <2> QED
    BY <2>3, <2>6
<1>5. ASSUME NEW y, Runs(p, table, a, w, y), Runs(p, table, b, y, x)
      PROVE  Runs(p, table, td, w, x)
  <2>1. PICK us : /\ us[1] = w /\ us[m + 1] = y
                  /\ \A k \in 1 .. m : Makes(p, table, a[k], us[k], us[k + 1])
    BY <1>1, <1>5 DEF Runs
  <2>2. PICK vs : /\ vs[1] = y /\ vs[n + 1] = x
                  /\ \A k \in 1 .. n : Makes(p, table, b[k], vs[k], vs[k + 1])
    BY <1>1, <1>5 DEF Runs
  <2> DEFINE ws == [k \in 1 .. m + n + 1 |-> IF k <= m THEN us[k] ELSE vs[k - m]]
  <2>3. \A k \in 1 .. m + 1 : ws[k] = us[k]
    <3>1. TAKE k \in 1 .. m + 1
    <3>2. CASE k <= m
      BY <3>2
    <3>3. CASE k = m + 1
      <4>1. ws[m + 1] = vs[(m + 1) - m] /\ (m + 1) - m = 1
        OBVIOUS
      <4> QED
        BY <4>1, <3>3, <2>1, <2>2
    <3> QED
      BY <3>2, <3>3
  <2>4. \A k \in 1 .. n + 1 : ws[m + k] = vs[k]
    <3>1. TAKE k \in 1 .. n + 1
    <3>2. m + k \in 1 .. m + n + 1 /\ ~ (m + k <= m) /\ (m + k) - m = k
      OBVIOUS
    <3> QED
      BY <3>2
  <2> HIDE DEF ws
  <2>5. ws[1] = w /\ ws[m + n + 1] = x
    <3>1. 1 \in 1 .. m + 1 /\ n + 1 \in 1 .. n + 1 /\ m + (n + 1) = m + n + 1
      OBVIOUS
    <3>2. ws[1] = us[1] /\ ws[m + (n + 1)] = vs[n + 1]
      BY <3>1, <2>3, <2>4
    <3> QED
      BY <3>1, <3>2, <2>1, <2>2
  <2>6. \A k \in 1 .. m + n : Makes(p, table, td[k], ws[k], ws[k + 1])
    <3>1. TAKE k \in 1 .. m + n
    <3>2. CASE k <= m
      <4>1. k \in 1 .. m /\ k \in 1 .. m + 1 /\ k + 1 \in 1 .. m + 1
        BY <3>2
      <4> QED
        BY <4>1, <2>1, <2>3, <1>3
    <3>3. CASE ~ (k <= m)
      <4>1. PICK j \in 1 .. n : j = k - m
        BY <3>3
      <4>2. k = m + j /\ k + 1 = m + (j + 1) /\ j \in 1 .. n + 1 /\ j + 1 \in 1 .. n + 1
        BY <4>1
      <4>3. ws[k] = vs[j] /\ ws[k + 1] = vs[j + 1] /\ td[k] = b[j]
        BY <4>2, <2>4, <1>3
      <4> QED
        BY <4>3, <2>2
    <3> QED
      BY <3>2, <3>3
  <2> QED
    BY <2>5, <2>6, <1>3 DEF Runs
<1> QED
  BY <1>2, <1>4, <1>5

(* Stacks are sequences. *)
LEMMA Stacks ==
  ASSUME NEW S, NEW w \in Seq(S)
  PROVE  Stack(w) /\ Len(w) \in Nat
<1>1. DOMAIN w = 1 .. Len(w) /\ Len(w) \in Nat
  BY LenProperties
<1>2. \A i \in 1 .. Len(w) : w[i] \in Range(w)
  BY <1>1 DEF Range
<1>3. w = [i \in 1 .. Len(w) |-> w[i]]
  OBVIOUS
<1>4. w \in [1 .. Len(w) -> Range(w)]
  BY <1>2, <1>3
<1>5. w \in Seq(Range(w))
  BY <1>1, <1>4, Listed
<1> QED
  BY <1>1, <1>5 DEF Stack

(* What is put on top of a stack is on top, and the rest is below it. *)
LEMMA StackOn ==
  ASSUME NEW w, Stack(w), NEW R, NEW v \in Seq(R)
  PROVE  /\ Stack(OnTop(w, v)) /\ Len(OnTop(w, v)) = Len(w) + Len(v)
         /\ Len(w) \in Nat /\ Len(v) \in Nat
         /\ Top(OnTop(w, v), Len(v)) = v /\ Below(OnTop(w, v), Len(v)) = w
         /\ Top(w, 0) = <<>> /\ Below(w, 0) = w /\ OnTop(w, <<>>) = w
<1>1. PICK U : U = Range(w) \cup R
  OBVIOUS
<1>2. w \in Seq(U) /\ v \in Seq(U)
  <2>1. w \in Seq(Range(w))
    BY DEF Stack
  <2> QED
    BY <2>1, <1>1, Widened
<1>3. PICK m \in Nat, n \in Nat : m = Len(w) /\ n = Len(v)
  BY <1>2, LenProperties
<1>4. PICK z : z = w \o v
  OBVIOUS
<1>5. /\ z \in Seq(U) /\ Len(z) = m + n
      /\ \A i \in 1 .. m + n : z[i] = IF i <= m THEN w[i] ELSE v[i - m]
  BY <1>2, <1>3, <1>4, ConcatProperties
<1>6. SubSeq(z, (m + n) - n + 1, m + n) = v
  <2>1. PICK t : t = SubSeq(z, (m + n) - n + 1, m + n)
    OBVIOUS
  <2>2. (m + n) - n + 1 = m + 1
    OBVIOUS
  <2>3. \A i \in m + 1 .. m + n : z[i] \in U
    BY <1>5
  <2>4. /\ t \in Seq(U) /\ Len(t) = IF m + 1 <= m + n THEN (m + n) - (m + 1) + 1 ELSE 0
        /\ \A i \in 1 .. (m + n) - (m + 1) + 1 : t[i] = z[(m + 1) + i - 1]
    BY <2>1, <2>2, <2>3, SubSeqProperties
  <2>5. Len(t) = n
    BY <2>4
  <2>6. \A i \in 1 .. n : t[i] = v[i]
    <3>1. TAKE i \in 1 .. n
    <3>2. i \in 1 .. (m + n) - (m + 1) + 1 /\ (m + 1) + i - 1 = m + i
      OBVIOUS
    <3>3. t[i] = z[m + i]
      BY <2>4, <3>2
    <3>4. z[m + i] = v[i]
      <4>1. m + i \in 1 .. m + n /\ ~ (m + i <= m) /\ (m + i) - m = i
        OBVIOUS
      <4> QED
        BY <4>1, <1>5
    <3> QED
      BY <3>3, <3>4
  <2>7. t = v
    BY <2>4, <2>5, <2>6, <1>2, <1>3, SeqEqual
  <2> QED
    BY <2>1, <2>7
<1>7. SubSeq(z, 1, (m + n) - n) = w
  <2>1. PICK t : t = SubSeq(z, 1, (m + n) - n)
    OBVIOUS
  <2>2. (m + n) - n = m
    OBVIOUS
  <2>3. \A i \in 1 .. m : z[i] \in U
    BY <1>5
  <2>4. /\ t \in Seq(U) /\ Len(t) = IF 1 <= m THEN m - 1 + 1 ELSE 0
        /\ \A i \in 1 .. m - 1 + 1 : t[i] = z[1 + i - 1]
    BY <2>1, <2>2, <2>3, SubSeqProperties
  <2>5. Len(t) = m
    BY <2>4
  <2>6. \A i \in 1 .. m : t[i] = w[i]
    <3>1. TAKE i \in 1 .. m
    <3>2. i \in 1 .. m - 1 + 1 /\ 1 + i - 1 = i /\ i \in 1 .. m + n /\ i <= m
      OBVIOUS
    <3> QED
      BY <3>2, <2>4, <1>5
  <2>7. t = w
    BY <2>4, <2>5, <2>6, <1>2, <1>3, SeqEqual
  <2> QED
    BY <2>1, <2>7
<1>8. Stack(z)
  BY <1>5, Stacks
<1>9. Below(w, 0) = w
  <2>1. Len(w) - 0 = Len(w)
    BY <1>3
  <2> QED
    BY <2>1, <1>2, SubSeqFull DEF Below
<1>10. Top(w, 0) = <<>>
  <2>1. Len(w) - 0 + 1 \in Int /\ Len(w) \in Int /\ Len(w) < Len(w) - 0 + 1
    BY <1>3
  <2> QED
    BY <2>1, SubSeqEmpty DEF Top
<1>11. w \o <<>> = w
  BY <1>2, ConcatEmptySeq
<1> QED
  BY <1>3, <1>4, <1>5, <1>6, <1>7, <1>8, <1>9, <1>10, <1>11 DEF Top, Below, OnTop

(* A call on top of its operands, and one without any.                     *)
LEMMA MakesOn ==
  ASSUME NEW p, NEW table, NEW c, NEW w, NEW v, NEW x, Stack(w), Stack(v), Uses(c) = Len(v)
  PROVE  Makes(p, table, c, OnTop(w, v), x) <=>
           Fine(p, table, c, v) /\ x = OnTop(w, Leaves(p, table, c, v))
<1>1. /\ Len(OnTop(w, v)) = Len(w) + Len(v) /\ Len(w) \in Nat /\ Len(v) \in Nat
      /\ Top(OnTop(w, v), Len(v)) = v /\ Below(OnTop(w, v), Len(v)) = w
  <2>1. v \in Seq(Range(v))
    BY DEF Stack
  <2> QED
    BY <2>1, StackOn
<1>2. Uses(c) <= Len(OnTop(w, v))
  BY <1>1
<1> QED
  BY <1>1, <1>2 DEF Makes

(* A call that takes nothing. *)
LEMMA MakesAlone ==
  ASSUME NEW p, NEW table, NEW c, NEW w, NEW x, Stack(w), Uses(c) = 0
  PROVE  Makes(p, table, c, w, x) <=>
           Fine(p, table, c, <<>>) /\ x = OnTop(w, Leaves(p, table, c, <<>>))
<1>1. <<>> \in Seq({})
  OBVIOUS
<1>2. Top(w, 0) = <<>> /\ Below(w, 0) = w /\ Len(w) \in Nat
  BY <1>1, StackOn
<1>3. 0 <= Len(w)
  BY <1>2
<1> QED
  BY <1>2, <1>3 DEF Makes

(* The types of a list of expressions.                                     *)
ValuesOf(p, table, es) == [i \in 1 .. Len(es) |-> ValueOf(p, table, es[i])]

(* The values of a list of expressions are a list. *)
LEMMA ValuesSeq ==
  ASSUME NEW p, NEW table, NEW S, NEW es \in Seq(S)
  PROVE  /\ ValuesOf(p, table, es) \in Seq(Range(ValuesOf(p, table, es)))
         /\ Len(ValuesOf(p, table, es)) = Len(es) /\ Len(es) \in Nat
         /\ DOMAIN ValuesOf(p, table, es) = 1 .. Len(es)
<1>1. PICK n \in Nat : n = Len(es)
  BY LenProperties
<1>2. PICK v : v = ValuesOf(p, table, es)
  OBVIOUS
<1>3. v = [i \in 1 .. n |-> v[i]] /\ DOMAIN v = 1 .. n
  BY <1>1, <1>2 DEF ValuesOf
<1>4. v \in [1 .. n -> Range(v)]
  BY <1>3 DEF Range
<1>5. v \in Seq(Range(v)) /\ Len(v) = n
  BY <1>4, Listed
<1> QED
  BY <1>1, <1>2, <1>3, <1>5

-----------------------------------------------------------------------------
(***************************************************************************)
(* The calls that a handler makes, run without an error, do what the rules *)
(* say that it does.                                                       *)
(***************************************************************************)

(* A list of expressions is checked in order.                              *)
EachRuns(p, table, es, n, w, x) ==
  /\ \A i \in 1 .. n : Typed(p, table, es[i])
  /\ x = OnTop(w, [i \in 1 .. n |-> ValueOf(p, table, es[i])])

FirstCalls(es, n) == [i \in 1 .. n |-> Do("expr", es[i])]

(* The first n + 1 expressions are the first n and one more. *)
LEMMA FirstSplit ==
  ASSUME NEW p, NEW table, NEW es, NEW n \in Nat
  PROVE  /\ FirstCalls(es, n) \in Seq({Do("expr", es[i]) : i \in 1 .. n + 1})
         /\ <<Do("expr", es[n + 1])>> \in Seq({Do("expr", es[i]) : i \in 1 .. n + 1})
         /\ FirstCalls(es, n + 1) = FirstCalls(es, n) \o <<Do("expr", es[n + 1])>>
         /\ [i \in 1 .. n |-> ValueOf(p, table, es[i])] \in Seq({ValueOf(p, table, es[i]) : i \in 1 .. n + 1})
         /\ <<ValueOf(p, table, es[n + 1])>> \in Seq({ValueOf(p, table, es[i]) : i \in 1 .. n + 1})
         /\ [i \in 1 .. n + 1 |-> ValueOf(p, table, es[i])]
            = [i \in 1 .. n |-> ValueOf(p, table, es[i])] \o <<ValueOf(p, table, es[n + 1])>>
<1>1. ASSUME NEW S, NEW f \in [1 .. n + 1 -> S]
      PROVE  /\ [i \in 1 .. n |-> f[i]] \in Seq(S) /\ <<f[n + 1]>> \in Seq(S)
             /\ f = [i \in 1 .. n |-> f[i]] \o <<f[n + 1]>>
  <2>1. n + 1 \in 1 .. n + 1 /\ \A i \in 1 .. n : i \in 1 .. n + 1
    OBVIOUS
  <2>2. PICK a : a = [i \in 1 .. n |-> f[i]]
    OBVIOUS
  <2>3. a \in [1 .. n -> S]
    BY <2>1, <2>2
  <2>4. a \in Seq(S) /\ Len(a) = n /\ \A i \in 1 .. n : a[i] = f[i]
    BY <2>2, <2>3, Listed
  <2>5. PICK y \in S : y = f[n + 1]
    BY <2>1
  <2>6. <<y>> \in Seq(S) /\ Len(<<y>>) = 1 /\ <<y>>[1] = y
    BY Single
  <2>7. PICK z : z = a \o <<y>>
    OBVIOUS
  <2>8. /\ z \in Seq(S) /\ Len(z) = n + 1
        /\ \A i \in 1 .. n + 1 : z[i] = IF i <= n THEN a[i] ELSE <<y>>[i - n]
    BY <2>4, <2>6, <2>7, ConcatProperties
  <2>9. \A i \in 1 .. n + 1 : z[i] = f[i]
    <3>1. TAKE i \in 1 .. n + 1
    <3>2. CASE i <= n
      BY <3>2, <2>4, <2>8
    <3>3. CASE i = n + 1
      <4>1. ~ (i <= n) /\ i - n = 1
        BY <3>3
      <4> QED
        BY <4>1, <3>3, <2>5, <2>6, <2>8
    <3> QED
      BY <3>2, <3>3
  <2>10. f \in Seq(S) /\ Len(f) = n + 1
    BY Listed
  <2>11. z = f
    BY <2>8, <2>9, <2>10, SeqEqual
  <2> QED
    BY <2>2, <2>4, <2>5, <2>6, <2>7, <2>11
<1>2. ASSUME NEW f, f = [i \in 1 .. n + 1 |-> Do("expr", es[i])]
      PROVE  /\ FirstCalls(es, n) \in Seq({Do("expr", es[i]) : i \in 1 .. n + 1})
             /\ <<Do("expr", es[n + 1])>> \in Seq({Do("expr", es[i]) : i \in 1 .. n + 1})
             /\ FirstCalls(es, n + 1) = FirstCalls(es, n) \o <<Do("expr", es[n + 1])>>
  <2>1. PICK S : S = {Do("expr", es[i]) : i \in 1 .. n + 1}
    OBVIOUS
  <2>2. f \in [1 .. n + 1 -> S]
    BY <1>2, <2>1
  <2>3. /\ [i \in 1 .. n |-> f[i]] \in Seq(S) /\ <<f[n + 1]>> \in Seq(S)
        /\ f = [i \in 1 .. n |-> f[i]] \o <<f[n + 1]>>
    BY <2>2, <1>1
  <2>4. [i \in 1 .. n |-> f[i]] = FirstCalls(es, n) /\ f[n + 1] = Do("expr", es[n + 1])
    BY <1>2 DEF FirstCalls
  <2> QED
    BY <2>1, <2>3, <2>4, <1>2 DEF FirstCalls
<1>3. ASSUME NEW f, f = [i \in 1 .. n + 1 |-> ValueOf(p, table, es[i])]
      PROVE  /\ [i \in 1 .. n |-> ValueOf(p, table, es[i])] \in Seq({ValueOf(p, table, es[i]) : i \in 1 .. n + 1})
             /\ <<ValueOf(p, table, es[n + 1])>> \in Seq({ValueOf(p, table, es[i]) : i \in 1 .. n + 1})
             /\ f = [i \in 1 .. n |-> ValueOf(p, table, es[i])] \o <<ValueOf(p, table, es[n + 1])>>
  <2>1. PICK S : S = {ValueOf(p, table, es[i]) : i \in 1 .. n + 1}
    OBVIOUS
  <2>2. f \in [1 .. n + 1 -> S]
    BY <1>3, <2>1
  <2>3. /\ [i \in 1 .. n |-> f[i]] \in Seq(S) /\ <<f[n + 1]>> \in Seq(S)
        /\ f = [i \in 1 .. n |-> f[i]] \o <<f[n + 1]>>
    BY <2>2, <1>1
  <2>4. [i \in 1 .. n |-> f[i]] = [i \in 1 .. n |-> ValueOf(p, table, es[i])]
        /\ f[n + 1] = ValueOf(p, table, es[n + 1])
    BY <1>3
  <2> QED
    BY <2>1, <2>3, <2>4
<1> QED
  BY <1>2, <1>3

(* Running the first n of a list of expressions puts their values on the   *)
(* stack.                                                                  *)
LEMMA RunsFirst ==
  ASSUME NEW p, NEW table, NEW es, NEW w, Stack(w)
  PROVE  \A n \in Nat : \A x :
           Runs(p, table, FirstCalls(es, n), w, x) <=> EachRuns(p, table, es, n, w, x)
<1> DEFINE T == {n \in Nat : \A x :
                   Runs(p, table, FirstCalls(es, n), w, x) <=> EachRuns(p, table, es, n, w, x)}
<1>1. 0 \in T
  <2>1. FirstCalls(es, 0) = <<>>
    BY DEF FirstCalls
  <2>2. [i \in 1 .. 0 |-> ValueOf(p, table, es[i])] = <<>>
    OBVIOUS
  <2>3. <<>> \in Seq({})
    OBVIOUS
  <2>4. OnTop(w, <<>>) = w
    BY <2>3, StackOn
  <2>5. \A x : EachRuns(p, table, es, 0, w, x) <=> x = w
    <3>1. \A i \in 1 .. 0 : Typed(p, table, es[i])
      OBVIOUS
    <3> QED
      BY <3>1, <2>2, <2>4, Zenon DEF EachRuns
  <2>6. \A x : Runs(p, table, FirstCalls(es, 0), w, x) <=> x = w
    BY <2>1, RunsNothing
  <2> QED
    BY <2>5, <2>6
<1>2. ASSUME NEW n \in Nat, n \in T
      PROVE  n + 1 \in T
  <2>1. PICK c : c = Do("expr", es[n + 1])
    OBVIOUS
  <2>2. PICK v : v = [i \in 1 .. n |-> ValueOf(p, table, es[i])]
    OBVIOUS
  <2>3. PICK u : u = ValueOf(p, table, es[n + 1])
    OBVIOUS
  <2>4. PICK V : V = {ValueOf(p, table, es[i]) : i \in 1 .. n + 1}
    OBVIOUS
  <2>5. /\ v \in Seq(V) /\ <<u>> \in Seq(V)
        /\ [i \in 1 .. n + 1 |-> ValueOf(p, table, es[i])] = v \o <<u>>
    BY <2>2, <2>3, <2>4, FirstSplit
  <2>6. Stack(OnTop(w, v))
    BY <2>5, StackOn
  <2>7. OnTop(OnTop(w, v), <<u>>) = OnTop(w, v \o <<u>>)
    <3>1. PICK U : U = Range(w) \cup V
      OBVIOUS
    <3>2. w \in Seq(U) /\ v \in Seq(U) /\ <<u>> \in Seq(U)
      <4>1. w \in Seq(Range(w))
        BY DEF Stack
      <4> QED
        BY <4>1, <3>1, <2>5, Widened
    <3> QED
      BY <3>2, ConcatAssociative DEF OnTop
  <2>8. Uses(c) = 0 /\ Leaves(p, table, c, <<>>) = <<u>> /\ (Fine(p, table, c, <<>>) <=> Typed(p, table, es[n + 1]))
    BY <2>1, <2>3 DEF Uses, Leaves, Fine, Do
  <2>9. \A x : Makes(p, table, c, OnTop(w, v), x) <=> Typed(p, table, es[n + 1]) /\ x = OnTop(OnTop(w, v), <<u>>)
    BY <2>6, <2>8, MakesAlone
  <2>10. \A x : Runs(p, table, FirstCalls(es, n + 1), w, x)
                 <=> \E y : Runs(p, table, FirstCalls(es, n), w, y) /\ Runs(p, table, <<c>>, y, x)
    <3>1. PICK S : S = {Do("expr", es[i]) : i \in 1 .. n + 1}
      OBVIOUS
    <3>2. /\ FirstCalls(es, n) \in Seq(S) /\ <<c>> \in Seq(S)
          /\ FirstCalls(es, n + 1) = FirstCalls(es, n) \o <<c>>
      BY <3>1, <2>1, FirstSplit
    <3> QED
      BY <3>2, RunsThen
  <2>11. \A y : Runs(p, table, FirstCalls(es, n), w, y) <=> EachRuns(p, table, es, n, w, y)
    BY <1>2
  <2>12. \A y : EachRuns(p, table, es, n, w, y)
                  <=> (\A i \in 1 .. n : Typed(p, table, es[i])) /\ y = OnTop(w, v)
    BY <2>2 DEF EachRuns
  <2>13. \A x : EachRuns(p, table, es, n + 1, w, x)
                  <=> (\A i \in 1 .. n + 1 : Typed(p, table, es[i])) /\ x = OnTop(w, v \o <<u>>)
    BY <2>5 DEF EachRuns
  <2>14. (\A i \in 1 .. n + 1 : Typed(p, table, es[i]))
         <=> (\A i \in 1 .. n : Typed(p, table, es[i])) /\ Typed(p, table, es[n + 1])
    <3>1. n + 1 \in 1 .. n + 1 /\ \A i \in 1 .. n + 1 : i \in 1 .. n \/ i = n + 1
      OBVIOUS
    <3>2. \A i \in 1 .. n : i \in 1 .. n + 1
      OBVIOUS
    <3> QED
      BY <3>1, <3>2
  <2>15. \A y, x : Runs(p, table, <<c>>, y, x) <=> Makes(p, table, c, y, x)
    BY RunsOne
  <2>16. \A x : Runs(p, table, FirstCalls(es, n + 1), w, x) <=> EachRuns(p, table, es, n + 1, w, x)
    <3>1. TAKE x
    <3>2. Runs(p, table, FirstCalls(es, n + 1), w, x)
          <=> \E y : /\ (\A i \in 1 .. n : Typed(p, table, es[i])) /\ y = OnTop(w, v)
                     /\ Makes(p, table, c, y, x)
      BY <2>10, <2>11, <2>12, <2>15, Zenon
    <3>3. (\E y : /\ (\A i \in 1 .. n : Typed(p, table, es[i])) /\ y = OnTop(w, v)
                  /\ Makes(p, table, c, y, x))
          <=> (\A i \in 1 .. n : Typed(p, table, es[i])) /\ Makes(p, table, c, OnTop(w, v), x)
      BY Zenon
    <3>4. Makes(p, table, c, OnTop(w, v), x) <=> Typed(p, table, es[n + 1]) /\ x = OnTop(OnTop(w, v), <<u>>)
      BY <2>9
    <3>5. EachRuns(p, table, es, n + 1, w, x)
          <=> (\A i \in 1 .. n + 1 : Typed(p, table, es[i])) /\ x = OnTop(w, v \o <<u>>)
      BY <2>13
    <3> QED
      BY <3>2, <3>3, <3>4, <3>5, <2>7, <2>14, Zenon
  <2> QED
    BY <2>16
<1>3. \A n \in Nat : n \in T
  <2> HIDE DEF T
  <2> QED
    BY <1>1, <1>2, NaturalInduction
<1> QED
  BY <1>3

(* Running a list of expressions puts their values on the stack. *)
LEMMA RunsEach ==
  ASSUME NEW p, NEW table, NEW S, NEW es \in Seq(S), NEW w, Stack(w), NEW x
  PROVE  Runs(p, table, Each("expr", es), w, x) <=>
           (\A i \in DOMAIN es : Typed(p, table, es[i])) /\ x = OnTop(w, ValuesOf(p, table, es))
<1>1. PICK n \in Nat : n = Len(es) /\ DOMAIN es = 1 .. n
  BY LenProperties
<1>2. Each("expr", es) = FirstCalls(es, n)
  BY <1>1 DEF Each, FirstCalls
<1>3. ValuesOf(p, table, es) = [i \in 1 .. n |-> ValueOf(p, table, es[i])]
  BY <1>1 DEF ValuesOf
<1>4. Runs(p, table, FirstCalls(es, n), w, x) <=> EachRuns(p, table, es, n, w, x)
  BY RunsFirst
<1> QED
  BY <1>1, <1>2, <1>3, <1>4 DEF EachRuns

(* Statements and declarations leave the stack as it is.                   *)
LEMMA RunsOuter ==
  ASSUME NEW p, NEW table, NEW S, NEW td \in Seq(S), \A k \in DOMAIN td : td[k].do \in Outer,
         NEW w, Stack(w), NEW x
  PROVE  Runs(p, table, td, w, x) <=> (\A k \in DOMAIN td : Fine(p, table, td[k], <<>>)) /\ x = w
<1>1. PICK n \in Nat : n = Len(td) /\ DOMAIN td = 1 .. n
  BY LenProperties
<1>2. OnTop(w, <<>>) = w
  <2>1. <<>> \in Seq({})
    OBVIOUS
  <2> QED
    BY <2>1, StackOn
<1>3. \A k \in 1 .. n : \A y :
        Makes(p, table, td[k], w, y) <=> Fine(p, table, td[k], <<>>) /\ y = w
  <2>1. TAKE k \in 1 .. n
  <2>2. TAKE y
  <2>3. PICK c : c = td[k]
    OBVIOUS
  <2>4. c.do \in Outer
    BY <1>1, <2>3
  <2>5. Uses(c) = 0 /\ Leaves(p, table, c, <<>>) = <<>>
    BY <2>4 DEF Uses, Leaves, Outer
  <2>6. Makes(p, table, c, w, y) <=>
          Fine(p, table, c, <<>>) /\ y = OnTop(w, Leaves(p, table, c, <<>>))
    BY <2>5, MakesAlone
  <2>7. Makes(p, table, c, w, y) <=> Fine(p, table, c, <<>>) /\ y = w
    BY <2>5, <2>6, <1>2
  <2> QED
    BY <2>3, <2>7
<1>4. ASSUME Runs(p, table, td, w, x)
      PROVE  (\A k \in 1 .. n : Fine(p, table, td[k], <<>>)) /\ x = w
  <2>1. PICK ws : /\ ws[1] = w /\ ws[n + 1] = x
                  /\ \A k \in 1 .. n : Makes(p, table, td[k], ws[k], ws[k + 1])
    BY <1>1, <1>4 DEF Runs
  <2> DEFINE T == {k \in Nat : k <= n => ws[k + 1] = w}
  <2>2. 0 \in T
    BY <2>1
  <2>3. ASSUME NEW k \in Nat, k \in T PROVE k + 1 \in T
    <3>1. SUFFICES ASSUME k + 1 <= n PROVE ws[(k + 1) + 1] = w
      OBVIOUS
    <3>2. k + 1 \in 1 .. n /\ k <= n
      BY <3>1
    <3>3. ws[k + 1] = w
      BY <2>3, <3>2
    <3>4. Makes(p, table, td[k + 1], w, ws[(k + 1) + 1])
      BY <2>1, <3>2, <3>3
    <3>5. PICK y : y = ws[(k + 1) + 1]
      OBVIOUS
    <3>6. Makes(p, table, td[k + 1], w, y)
      BY <3>4, <3>5
    <3>7. Makes(p, table, td[k + 1], w, y) <=> Fine(p, table, td[k + 1], <<>>) /\ y = w
      BY ONLY <1>3, <3>2
    <3> QED
      BY <3>5, <3>6, <3>7
  <2>4. \A k \in Nat : k \in T
    <3> HIDE DEF T
    <3> QED
      BY <2>2, <2>3, NaturalInduction
  <2>5. \A k \in 1 .. n : ws[k] = w
    <3>1. TAKE k \in 1 .. n
    <3>2. k - 1 \in Nat /\ k - 1 <= n /\ (k - 1) + 1 = k
      OBVIOUS
    <3>3. ws[(k - 1) + 1] = w
      BY <2>4, <3>2
    <3> QED
      BY <3>2, <3>3
  <2>6. x = w
    BY <2>1, <2>4
  <2>7. \A k \in 1 .. n : Fine(p, table, td[k], <<>>)
    <3>1. TAKE k \in 1 .. n
    <3>2. PICK y : y = ws[k + 1]
      OBVIOUS
    <3>3. Makes(p, table, td[k], w, y)
      BY <2>1, <2>5, <3>2
    <3> QED
      BY <1>3, <3>3
  <2> QED
    BY <2>6, <2>7
<1>5. ASSUME \A k \in 1 .. n : Fine(p, table, td[k], <<>>), x = w
      PROVE  Runs(p, table, td, w, x)
  <2> DEFINE ws == [k \in 1 .. n + 1 |-> w]
  <2>1. \A k \in 1 .. n + 1 : ws[k] = w
    OBVIOUS
  <2> HIDE DEF ws
  <2>2. 1 \in 1 .. n + 1 /\ n + 1 \in 1 .. n + 1 /\ \A k \in 1 .. n : k \in 1 .. n + 1 /\ k + 1 \in 1 .. n + 1
    OBVIOUS
  <2>3. ws[1] = w /\ ws[n + 1] = x
    BY <2>1, <2>2, <1>5
  <2>4. \A k \in 1 .. n : Makes(p, table, td[k], ws[k], ws[k + 1])
    BY <2>1, <2>2, <1>3, <1>5
  <2> QED
    BY <1>1, <2>3, <2>4 DEF Runs
<1> QED
  BY <1>1, <1>4, <1>5

(* The calls that an expression makes, against the expression.             *)
LEMMA ExprValue ==
  ASSUME NEW p \in Programs, NEW table, NEW e \in Exprs(p)
  PROVE  /\ Typed(p, table, e) <=> /\ \A i \in DOMAIN e.sub : Typed(p, table, e.sub[i])
                                   /\ Fits(table, e, ValuesOf(p, table, e.sub))
         /\ ValueOf(p, table, e) = Result(table, e, ValuesOf(p, table, e.sub))
         /\ ValueOf(p, table, e) = TypeOf(p, table)[e]
         /\ Typed(p, table, e) = ExprTyped(p, table)[e]
         /\ ValuesOf(p, table, e.sub) = TypesWithin(p, table, e)
<1>1. e.kind # "NONE" /\ e.sub \in Seq(Exprs(p))
  BY OperandFacts
<1>2. PICK n \in Nat : n = Len(e.sub) /\ DOMAIN e.sub = 1 .. n
  BY <1>1
<1>3. \A i \in 1 .. n : e.sub[i] \in Exprs(p) /\ e.sub[i].kind # "NONE"
  <2>1. \A i \in 1 .. n : e.sub[i] \in Exprs(p)
    BY <1>1, <1>2
  <2> QED
    BY <2>1, OperandFacts
<1>4. ValuesOf(p, table, e.sub) = TypesWithin(p, table, e)
  BY <1>2, <1>3 DEF ValuesOf, ValueOf, TypesWithin
<1>5. \A i \in 1 .. n : Typed(p, table, e.sub[i]) = ExprTyped(p, table)[e.sub[i]]
  <2>1. \A i \in 1 .. n : ExprTyped(p, table)[e.sub[i]] \in BOOLEAN
    BY <1>3, ExprTypedUnfolds
  <2> QED
    BY <1>3, <2>1 DEF Typed
<1>6. ExprTyped(p, table)[e] = ((\A i \in DOMAIN e.sub : ExprTyped(p, table)[e.sub[i]])
                                /\ Fits(table, e, TypesWithin(p, table, e)))
  BY ExprTypedUnfolds
<1>7. TypeOf(p, table)[e] = Result(table, e, TypesWithin(p, table, e))
  BY TypeOfUnfolds
<1>8. ValueOf(p, table, e) = TypeOf(p, table)[e]
  BY <1>1 DEF ValueOf
<1>9. Typed(p, table, e) = ExprTyped(p, table)[e]
  BY <1>1, <1>6 DEF Typed
<1>10. Typed(p, table, e) <=> /\ \A i \in DOMAIN e.sub : Typed(p, table, e.sub[i])
                              /\ Fits(table, e, ValuesOf(p, table, e.sub))
  BY <1>2, <1>4, <1>5, <1>6, <1>9
<1> QED
  BY <1>4, <1>7, <1>8, <1>9, <1>10

(* Expressions, and the calls that take their types.                       *)
LEMMA RunsInto ==
  ASSUME NEW p, NEW table, NEW S, NEW es \in Seq(S), NEW c, Uses(c) = Len(es),
         NEW w, Stack(w), NEW x
  PROVE  Runs(p, table, Each("expr", es) \o <<c>>, w, x) <=>
           /\ \A i \in DOMAIN es : Typed(p, table, es[i])
           /\ Fine(p, table, c, ValuesOf(p, table, es))
           /\ x = OnTop(w, Leaves(p, table, c, ValuesOf(p, table, es)))
<1>1. PICK n \in Nat : n = Len(es) /\ DOMAIN es = 1 .. n
  BY LenProperties
<1>2. PICK v : v = ValuesOf(p, table, es)
  OBVIOUS
<1>3. v \in Seq(Range(v)) /\ Len(v) = n
  BY <1>1, <1>2, ValuesSeq
<1>4. \A y : Runs(p, table, Each("expr", es), w, y) <=>
           (\A i \in DOMAIN es : Typed(p, table, es[i])) /\ y = OnTop(w, v)
  BY <1>2, RunsEach
<1>5. Runs(p, table, <<c>>, OnTop(w, v), x) <=> Makes(p, table, c, OnTop(w, v), x)
  BY RunsOne
<1>6. Makes(p, table, c, OnTop(w, v), x) <=>
        Fine(p, table, c, v) /\ x = OnTop(w, Leaves(p, table, c, v))
  <2>1. Stack(v) /\ Uses(c) = Len(v)
    BY <1>1, <1>3 DEF Stack
  <2> QED
    BY <2>1, MakesOn
<1>7. Runs(p, table, Each("expr", es) \o <<c>>, w, x)
      <=> \E y : Runs(p, table, Each("expr", es), w, y) /\ Runs(p, table, <<c>>, y, x)
  <2>1. PICK U : U = Range(Each("expr", es)) \cup {c}
    OBVIOUS
  <2>2. Each("expr", es) = [i \in 1 .. n |-> Do("expr", es[i])]
    BY <1>1 DEF Each
  <2>3. Each("expr", es) \in [1 .. n -> U]
    BY <2>1, <2>2 DEF Range
  <2>4. Each("expr", es) \in Seq(U) /\ <<c>> \in Seq(U)
    BY <2>1, <2>3, Listed
  <2> QED
    BY <2>4, RunsThen
<1>8. Runs(p, table, Each("expr", es) \o <<c>>, w, x)
      <=> (\A i \in DOMAIN es : Typed(p, table, es[i])) /\ Runs(p, table, <<c>>, OnTop(w, v), x)
  BY <1>4, <1>7, Zenon
<1> QED
  BY <1>2, <1>5, <1>6, <1>8, Zenon

(* An expression is checked by checking its operands and then its node. *)
LEMMA DescendRuns ==
  ASSUME NEW p \in Programs, NEW table, NEW e \in Exprs(p), NEW w, Stack(w), NEW x
  PROVE  Runs(p, table, Each("expr", e.sub) \o <<Do("node", e)>>, w, x)
           <=> Makes(p, table, Do("expr", e), w, x)
<1>1. e.sub \in Seq(Exprs(p))
  BY OperandFacts
<1>2. PICK c : c = Do("node", e)
  OBVIOUS
<1>3. PICK v : v = ValuesOf(p, table, e.sub)
  OBVIOUS
<1>4. /\ Uses(c) = Len(e.sub) /\ (Fine(p, table, c, v) <=> Fits(table, e, v))
      /\ Leaves(p, table, c, v) = <<Result(table, e, v)>>
  BY <1>2 DEF Uses, Fine, Leaves, Do
<1>5. Runs(p, table, Each("expr", e.sub) \o <<c>>, w, x) <=>
           /\ \A i \in DOMAIN e.sub : Typed(p, table, e.sub[i])
           /\ Fine(p, table, c, v)
           /\ x = OnTop(w, Leaves(p, table, c, v))
  <2>1. Uses(c) = Len(e.sub)
    BY <1>4
  <2> QED
    BY <1>1, <1>3, <2>1, RunsInto
<1>6. PICK d : d = Do("expr", e)
  OBVIOUS
<1>7. /\ Uses(d) = 0 /\ (Fine(p, table, d, <<>>) <=> Typed(p, table, e))
      /\ Leaves(p, table, d, <<>>) = <<ValueOf(p, table, e)>>
  BY <1>6 DEF Uses, Fine, Leaves, Do
<1>8. Makes(p, table, d, w, x) <=> Typed(p, table, e) /\ x = OnTop(w, <<ValueOf(p, table, e)>>)
  BY <1>7, MakesAlone
<1>9. /\ Typed(p, table, e) <=>
           (\A i \in DOMAIN e.sub : Typed(p, table, e.sub[i])) /\ Fits(table, e, v)
      /\ ValueOf(p, table, e) = Result(table, e, v)
  BY <1>3, ExprValue, Zenon
<1> QED
  BY <1>2, <1>4, <1>5, <1>6, <1>8, <1>9, Zenon

(* A call: its arguments are checked as a list, and then one by one.       *)
LEMMA EnterCallRuns ==
  ASSUME NEW p \in Programs, TypesOf(types, p),
         NEW e \in Exprs(p), e.kind = "FCALL", e.val # 0,
         NEW f, f = types[e.val],
         NEW callee,
         callee = [type |-> type_copy[e.val], result |-> type_copy[f.sub],
                   params |-> [i \in DOMAIN f.params |-> type_copy[f.params[i]]],
                   args |-> e.sub],
         NEW w, Stack(w), NEW x
  PROVE  Runs(p, types, Each("expr", e.sub) \o <<Do("arguments", Len(e.sub)), Do("call", callee)>>, w, x)
           <=> Makes(p, types, Do("expr", e), w, x)
<1>1. PICK n \in Nat : n = Len(e.sub) /\ DOMAIN e.sub = 1 .. n /\ e.sub \in Seq(Exprs(p))
  BY OperandFacts
<1>2. PICK v : v = ValuesOf(p, types, e.sub)
  OBVIOUS
<1>3. PICK a, c, d : a = Do("arguments", Len(e.sub)) /\ c = Do("call", callee) /\ d = Do("expr", e)
  OBVIOUS
<1>4. \A i \in 1 .. n : v[i] = TypeOf(p, types)[e.sub[i]]
  <2>1. TAKE i \in 1 .. n
  <2>2. e.sub[i] \in Exprs(p)
    BY <1>1
  <2>3. e.sub[i].kind # "NONE"
    BY <2>2, OperandFacts
  <2>4. v[i] = ValueOf(p, types, e.sub[i])
    BY <1>1, <1>2 DEF ValuesOf
  <2> QED
    BY <2>3, <2>4 DEF ValueOf
<1>5. v = [i \in 1 .. n |-> v[i]] /\ DOMAIN v = 1 .. n
  BY <1>1, <1>2 DEF ValuesOf
<1>6. OnTop(w, <<>>) = w
  <2>1. <<>> \in Seq({})
    OBVIOUS
  <2> QED
    BY <2>1, StackOn
<1>7. /\ Uses(a) = Len(e.sub) /\ Leaves(p, types, a, v) = <<>>
      /\ Fine(p, types, a, v) <=> \A i \in 1 .. n : Kind(v[i]) # "AUTO"
  BY <1>3, <1>5 DEF Uses, Leaves, Fine, Do
<1>8. \A y : Runs(p, types, Each("expr", e.sub) \o <<a>>, w, y) <=>
               /\ \A i \in DOMAIN e.sub : Typed(p, types, e.sub[i])
               /\ Fine(p, types, a, v)
               /\ y = w
  <2>1. TAKE y
  <2>2. Uses(a) = Len(e.sub)
    BY <1>7
  <2>3. Runs(p, types, Each("expr", e.sub) \o <<a>>, w, y) <=>
               /\ \A i \in DOMAIN e.sub : Typed(p, types, e.sub[i])
               /\ Fine(p, types, a, v)
               /\ y = OnTop(w, Leaves(p, types, a, v))
    BY <1>1, <1>2, <2>2, RunsInto
  <2> QED
    BY <2>3, <1>6, <1>7
<1>9. PICK params : params = [i \in DOMAIN f.params |-> type_copy[f.params[i]]]
  OBVIOUS
<1>10. /\ Uses(c) = 0 /\ Leaves(p, types, c, <<>>) = <<type_copy[f.sub]>>
       /\ Fine(p, types, c, <<>>) <=>
            Kind(type_copy[e.val]) = "FUNCTION" /\ Matches(p, types, e.sub, params)
  BY <1>3, <1>9 DEF Uses, Leaves, Fine, Do
<1>11. Makes(p, types, c, w, x) <=>
         Fine(p, types, c, <<>>) /\ x = OnTop(w, <<type_copy[f.sub]>>)
  <2>1. Uses(c) = 0
    BY <1>10
  <2>2. Makes(p, types, c, w, x) <=>
         Fine(p, types, c, <<>>) /\ x = OnTop(w, Leaves(p, types, c, <<>>))
    BY <2>1, MakesAlone
  <2> QED
    BY <2>2, <1>10
<1>12. Each("expr", e.sub) \o <<a, c>> = (Each("expr", e.sub) \o <<a>>) \o <<c>>
       /\ \E S : Each("expr", e.sub) \o <<a>> \in Seq(S) /\ <<c>> \in Seq(S)
  <2>1. PICK S : S = Range(Each("expr", e.sub)) \cup {a, c}
    OBVIOUS
  <2>2. Each("expr", e.sub) = [i \in 1 .. n |-> Do("expr", e.sub[i])]
    BY <1>1 DEF Each
  <2>3. Each("expr", e.sub) \in [1 .. n -> S]
    BY <2>1, <2>2 DEF Range
  <2>4. PICK g \in Seq(S) : g = Each("expr", e.sub)
    BY <2>3, Listed
  <2>5. PICK u, t : u = <<a>> /\ t = <<c>>
    OBVIOUS
  <2>6. u \in Seq(S) /\ t \in Seq(S) /\ u \o t = <<a, c>>
    <3>1. a \in S /\ c \in S
      BY <2>1
    <3>2. <<a>> \in Seq(S) /\ <<c>> \in Seq(S)
      BY <3>1
    <3>3. <<a>> \o <<c>> = <<a, c>>
      BY <3>1, Pair
    <3> QED
      BY <3>2, <3>3, <2>5
  <2>7. (g \o u) \o t = g \o (u \o t)
    <3>1. g \in Seq(S) /\ u \in Seq(S) /\ t \in Seq(S)
      BY <2>4, <2>6
    <3> QED
      BY ONLY <3>1, Grouped
  <2>8. g \o u \in Seq(S)
    BY <2>6
  <2> QED
    BY <2>4, <2>5, <2>6, <2>7, <2>8
<1>13. Runs(p, types, Each("expr", e.sub) \o <<a, c>>, w, x)
       <=> \E y : Runs(p, types, Each("expr", e.sub) \o <<a>>, w, y) /\ Runs(p, types, <<c>>, y, x)
  <2>1. PICK g : g = Each("expr", e.sub) \o <<a>>
    OBVIOUS
  <2>2. PICK S : g \in Seq(S) /\ <<c>> \in Seq(S)
    BY <1>12, <2>1
  <2>3. Runs(p, types, g \o <<c>>, w, x) <=> \E y : Runs(p, types, g, w, y) /\ Runs(p, types, <<c>>, y, x)
    BY <2>2, RunsThen
  <2> QED
    BY <2>1, <2>3, <1>12
<1>14. \A y : Runs(p, types, <<c>>, y, x) <=> Makes(p, types, c, y, x)
  BY RunsOne
<1>15. Runs(p, types, Each("expr", e.sub) \o <<a, c>>, w, x) <=>
         /\ \A i \in DOMAIN e.sub : Typed(p, types, e.sub[i])
         /\ Fine(p, types, a, v)
         /\ Fine(p, types, c, <<>>)
         /\ x = OnTop(w, <<type_copy[f.sub]>>)
  BY <1>8, <1>11, <1>13, <1>14, Zenon
<1>16. Makes(p, types, d, w, x) <=> Typed(p, types, e) /\ x = OnTop(w, <<ValueOf(p, types, e)>>)
  <2>1. /\ Uses(d) = 0 /\ (Fine(p, types, d, <<>>) <=> Typed(p, types, e))
        /\ Leaves(p, types, d, <<>>) = <<ValueOf(p, types, e)>>
    BY <1>3 DEF Uses, Fine, Leaves, Do
  <2> QED
    BY <2>1, MakesAlone
<1>17. /\ Typed(p, types, e) <=>
             (\A i \in DOMAIN e.sub : Typed(p, types, e.sub[i])) /\ Fits(types, e, v)
       /\ ValueOf(p, types, e) = Result(types, e, v)
  BY <1>2, ExprValue
<1>18. Result(types, e, v) = type_copy[f.sub]
  BY DEF Result, type_copy, Literal, Arithmetic, Comparison, Step, Logical
<1>19. Fits(types, e, v) <=>
         /\ f.kind = "FUNCTION"
         /\ v = params
         /\ \A i \in DOMAIN v : Storable(v[i])
  BY <1>9 DEF Fits, type_copy, Literal, Arithmetic, Comparison, Step, Logical
<1>20. Kind(type_copy[e.val]) = f.kind
  <2>1. e.val \in 1 .. Len(types)
    <3>1. e.val \in 0 .. Len(p.types)
      BY ProgramsAssumption DEF Exprs, ExprOK
    <3> QED
      BY <3>1 DEF TypesOf
  <2> QED
    BY <2>1, CopyFacts DEF Kind
<1>21. f.params \in Seq(Nat)
  <2>1. e.val \in 1 .. Len(types)
    <3>1. e.val \in 0 .. Len(p.types)
      BY ProgramsAssumption DEF Exprs, ExprOK
    <3> QED
      BY <3>1 DEF TypesOf
  <2> QED
    <3>1. f \in [kind : TypeKinds, sub : Nat, params : Seq(Nat), size : STRING \ {"NULL"}]
      <4>1. PICK X : X = [kind : TypeKinds, sub : Nat, params : Seq(Nat), size : STRING \ {"NULL"}]
        OBVIOUS
      <4>2. types \in Seq(X)
        BY <4>1 DEF TypesOf
      <4>3. types[e.val] \in X
        BY <2>1, <4>2
      <4> QED
        BY <4>1, <4>3
    <3> QED
      BY <3>1
<1>22. PICK m \in Nat : m = Len(f.params) /\ DOMAIN f.params = 1 .. m
  BY <1>21
<1>23. Len(params) = m /\ params = [i \in 1 .. m |-> params[i]] /\ DOMAIN params = 1 .. m
  <2>1. params = [i \in 1 .. m |-> params[i]] /\ DOMAIN params = 1 .. m
    BY <1>9, <1>22
  <2>2. params \in [1 .. m -> Range(params)]
    BY <2>1 DEF Range
  <2> QED
    BY <2>1, <2>2, Listed
<1>24. ASSUME \A i \in DOMAIN e.sub : Typed(p, types, e.sub[i])
       PROVE  Fine(p, types, a, v) /\ Matches(p, types, e.sub, params)
              <=> v = params /\ \A i \in DOMAIN v : Storable(v[i])
  <2>1. ASSUME v = params, \A i \in DOMAIN v : Storable(v[i])
        PROVE  Fine(p, types, a, v) /\ Matches(p, types, e.sub, params)
    <3>1. m = n
      BY <2>1, <1>5, <1>23
    <3>2. \A i \in 1 .. n : Kind(v[i]) # "AUTO"
      BY <2>1, <1>5 DEF Storable, Unusable
    <3>3. \A i \in 1 .. n : /\ Typed(p, types, e.sub[i])
                            /\ TypeOf(p, types)[e.sub[i]] = params[i]
                            /\ Storable(params[i])
      BY <2>1, <1>1, <1>4, <1>5, <1>24
    <3> QED
      BY <3>1, <3>2, <3>3, <1>1, <1>7, <1>23 DEF Matches
  <2>2. ASSUME Matches(p, types, e.sub, params)
        PROVE  v = params /\ \A i \in DOMAIN v : Storable(v[i])
    <3>1. n = m /\ \A i \in 1 .. n : TypeOf(p, types)[e.sub[i]] = params[i] /\ Storable(params[i])
      BY <2>2, <1>1, <1>23 DEF Matches
    <3>2. \A i \in 1 .. n : v[i] = params[i]
      BY <3>1, <1>4
    <3>3. v = params
      BY <3>1, <3>2, <1>5, <1>23
    <3> QED
      BY <3>1, <3>2, <3>3, <1>5
  <2> QED
    BY <2>1, <2>2
<1>25. (Fine(p, types, a, v) /\ Fine(p, types, c, <<>>) /\ \A i \in DOMAIN e.sub : Typed(p, types, e.sub[i]))
       <=> (Fits(types, e, v) /\ \A i \in DOMAIN e.sub : Typed(p, types, e.sub[i]))
  BY <1>10, <1>19, <1>20, <1>24
<1> QED
  BY <1>3, <1>15, <1>16, <1>17, <1>18, <1>25

(* The next argument against the next parameter, and then the others.      *)
LEMMA MatchesNext ==
  ASSUME NEW p, NEW table, NEW S, NEW T, NEW args \in Seq(S), NEW params \in Seq(T),
         args # <<>>, params # <<>>
  PROVE  Matches(p, table, args, params) <=>
           /\ Typed(p, table, Head(args)) /\ TypeOf(p, table)[Head(args)] = Head(params)
           /\ Storable(Head(params))
           /\ Matches(p, table, Tail(args), Tail(params))
<1>1. /\ Tail(args) \in Seq(S) /\ Len(Tail(args)) = Len(args) - 1 /\ Len(args) \in Nat
      /\ \A i \in 1 .. Len(args) - 1 : Tail(args)[i] = args[i + 1]
  BY Rest
<1>2. /\ Tail(params) \in Seq(T) /\ Len(Tail(params)) = Len(params) - 1 /\ Len(params) \in Nat
      /\ \A i \in 1 .. Len(params) - 1 : Tail(params)[i] = params[i + 1]
  BY Rest
<1>3. Head(args) = args[1] /\ Head(params) = params[1] /\ Len(args) # 0 /\ Len(params) # 0
  BY EmptySeq
<1>14. PICK n \in Nat, m \in Nat : n = Len(args) - 1 /\ m = Len(params) - 1
  <2>1. Len(args) - 1 \in Nat /\ Len(params) - 1 \in Nat
    BY <1>1, <1>2, <1>3
  <2> QED
    BY <2>1
<1>15. PICK at, pt : at = Tail(args) /\ pt = Tail(params)
  OBVIOUS
<1>4. at = Tail(args) /\ pt = Tail(params) /\ n = Len(args) - 1 /\ m = Len(params) - 1
  BY <1>14, <1>15
<1> DEFINE Pair1(i) == /\ Typed(p, table, args[i]) /\ TypeOf(p, table)[args[i]] = params[i]
                       /\ Storable(params[i])
<1>5. Matches(p, table, args, params) <=> n = m /\ \A i \in 1 .. n + 1 : Pair1(i)
  <2>1. Len(args) = n + 1 /\ Len(params) = m + 1
    BY <1>1, <1>2, <1>4
  <2> QED
    BY <2>1 DEF Matches
<1>6. Matches(p, table, at, pt) <=> n = m /\ \A i \in 1 .. n : Pair1(i + 1)
  <2>1. Len(at) = n /\ Len(pt) = m
    BY <1>1, <1>2, <1>4
  <2>2. \A i \in 1 .. n : at[i] = args[i + 1]
    BY <1>1, <1>4
  <2>3. n = m => \A i \in 1 .. n : pt[i] = params[i + 1]
    BY <1>2, <1>4
  <2> QED
    BY <2>1, <2>2, <2>3 DEF Matches
<1> HIDE DEF Pair1
<1>7. (\A i \in 1 .. n + 1 : Pair1(i)) <=> Pair1(1) /\ \A i \in 1 .. n : Pair1(i + 1)
  <2>1. ASSUME \A i \in 1 .. n + 1 : Pair1(i) PROVE Pair1(1) /\ \A i \in 1 .. n : Pair1(i + 1)
    <3>1. 1 \in 1 .. n + 1 /\ \A i \in 1 .. n : i + 1 \in 1 .. n + 1
      OBVIOUS
    <3> QED
      BY <2>1, <3>1
  <2>2. ASSUME Pair1(1), \A i \in 1 .. n : Pair1(i + 1), NEW i \in 1 .. n + 1 PROVE Pair1(i)
    <3>1. CASE i = 1
      BY <2>2, <3>1
    <3>2. CASE i # 1
      <4>1. PICK j \in 1 .. n : i = j + 1
        <5>1. i - 1 \in 1 .. n /\ i = (i - 1) + 1
          BY <3>2
        <5> QED
          BY <5>1
      <4> QED
        BY <4>1, <2>2
    <3> QED
      BY <3>1, <3>2
  <2> QED
    BY <2>1, <2>2
<1> QED
  BY <1>3, <1>4, <1>5, <1>6, <1>7 DEF Pair1

(* A call is checked by checking the next argument and then the others. *)
LEMMA CallNextRuns ==
  ASSUME NEW p \in Programs, NEW table, NEW c \in Snapshots(p), Kind(c.type) = "FUNCTION",
         c.args # <<>>, c.params # <<>>, NEW d, d = [c EXCEPT !.args = Tail(@), !.params = Tail(@)],
         NEW w, Stack(w), NEW x
  PROVE  Runs(p, table, <<Do("expr", Head(c.args)), Do("argument", Head(c.params)), Do("call", d)>>, w, x)
           <=> Makes(p, table, Do("call", c), w, x)
<1>1. /\ c.args \in Seq(Exprs(p)) /\ c.params \in Seq(TypeWords)
      /\ d.type = c.type /\ d.result = c.result /\ d.args = Tail(c.args) /\ d.params = Tail(c.params)
  BY DEF Snapshots
<1>2. PICK e \in Exprs(p) : e = Head(c.args)
  BY <1>1
<1>3. PICK t : t = Head(c.params)
  OBVIOUS
<1>4. PICK ce, ca, cd, cc :
        /\ ce = Do("expr", e) /\ ca = Do("argument", t)
        /\ cd = Do("call", d) /\ cc = Do("call", c)
  OBVIOUS
<1>5. e.kind # "NONE" /\ ValueOf(p, table, e) = TypeOf(p, table)[e]
  <2>1. e.kind # "NONE"
    BY OperandFacts
  <2> QED
    BY <2>1 DEF ValueOf
<1>6. PICK u : u = <<ValueOf(p, table, e)>>
  OBVIOUS
<1>7. Stack(u) /\ Len(u) = 1 /\ u[1] = ValueOf(p, table, e)
  <2>1. <<ValueOf(p, table, e)>> \in Seq({ValueOf(p, table, e)})
    OBVIOUS
  <2>2. u \in Seq({ValueOf(p, table, e)})
    BY <1>6, <2>1
  <2>3. Len(u) = 1 /\ u[1] = ValueOf(p, table, e)
    BY <1>6
  <2> QED
    BY <2>2, <2>3, Stacks
<1>8. OnTop(w, <<>>) = w
  <2>1. <<>> \in Seq({})
    OBVIOUS
  <2> QED
    BY <2>1, StackOn
<1>9. \A y : Makes(p, table, ce, w, y) <=> Typed(p, table, e) /\ y = OnTop(w, u)
  <2>1. /\ Uses(ce) = 0 /\ (Fine(p, table, ce, <<>>) <=> Typed(p, table, e))
        /\ Leaves(p, table, ce, <<>>) = u
    BY <1>4, <1>6 DEF Uses, Fine, Leaves, Do
  <2> QED
    BY <2>1, MakesAlone
<1>10. \A y : Makes(p, table, ca, OnTop(w, u), y) <=>
                (ValueOf(p, table, e) = t /\ Storable(t)) /\ y = w
  <2>1. /\ Uses(ca) = Len(u) /\ Leaves(p, table, ca, u) = <<>>
        /\ Fine(p, table, ca, u) <=> ValueOf(p, table, e) = t /\ Storable(t)
    BY <1>4, <1>7 DEF Uses, Fine, Leaves, Do
  <2>2. TAKE y
  <2>3. Stack(u) /\ Uses(ca) = Len(u)
    BY <2>1, <1>7
  <2>4. Makes(p, table, ca, OnTop(w, u), y) <=>
          Fine(p, table, ca, u) /\ y = OnTop(w, Leaves(p, table, ca, u))
    BY <2>3, MakesOn
  <2> QED
    BY <2>1, <2>4, <1>8
<1>11. Makes(p, table, cd, w, x) <=>
         Matches(p, table, d.args, d.params) /\ x = OnTop(w, <<c.result>>)
  <2>1. /\ Uses(cd) = 0 /\ Leaves(p, table, cd, <<>>) = <<c.result>>
        /\ Fine(p, table, cd, <<>>) <=> Matches(p, table, d.args, d.params)
    BY <1>1, <1>4 DEF Uses, Fine, Leaves, Do
  <2> QED
    BY <2>1, MakesAlone
<1>12. Makes(p, table, cc, w, x) <=>
         Matches(p, table, c.args, c.params) /\ x = OnTop(w, <<c.result>>)
  <2>1. /\ Uses(cc) = 0 /\ Leaves(p, table, cc, <<>>) = <<c.result>>
        /\ Fine(p, table, cc, <<>>) <=> Matches(p, table, c.args, c.params)
    BY <1>4 DEF Uses, Fine, Leaves, Do
  <2> QED
    BY <2>1, MakesAlone
<1>13. Matches(p, table, c.args, c.params) <=>
           /\ Typed(p, table, e) /\ TypeOf(p, table)[e] = t /\ Storable(t)
           /\ Matches(p, table, d.args, d.params)
  <2>1. PICK a \in Seq(Exprs(p)), q \in Seq(TypeWords) : a = c.args /\ q = c.params
    BY <1>1
  <2>2. a # <<>> /\ q # <<>>
    BY <2>1
  <2>3. Matches(p, table, a, q) <=>
           /\ Typed(p, table, Head(a)) /\ TypeOf(p, table)[Head(a)] = Head(q)
           /\ Storable(Head(q))
           /\ Matches(p, table, Tail(a), Tail(q))
    BY <2>2, MatchesNext
  <2> QED
    BY <2>1, <2>3, <1>1, <1>2, <1>3, Zenon
<1>14. Runs(p, table, <<ce, ca, cd>>, w, x) <=>
         \E y, z : /\ Makes(p, table, ce, w, y) /\ Makes(p, table, ca, y, z)
                   /\ Makes(p, table, cd, z, x)
  <2>1. PICK S : S = {ce, ca, cd}
    OBVIOUS
  <2>2. ce \in S /\ ca \in S /\ cd \in S
    BY <2>1
  <2>3. PICK u1 \in Seq(S), u2 \in Seq(S), u3 \in Seq(S), u12 \in Seq(S) :
          u1 = <<ce>> /\ u2 = <<ca>> /\ u3 = <<cd>> /\ u12 = <<ce, ca>>
    <3>1. <<ce>> \in Seq(S) /\ <<ca>> \in Seq(S) /\ <<cd>> \in Seq(S) /\ <<ce, ca>> \in Seq(S)
      BY <2>2
    <3> QED
      BY <3>1, Zenon
  <2>4. u1 \o u2 = u12
    BY <2>2, <2>3, Pair
  <2>5. u12 \o u3 = <<ce, ca, cd>>
    <3>1. <<ce, ca>> \o <<cd>> = <<ce, ca, cd>>
      <4>1. PICK z : z = u12 \o u3
        OBVIOUS
      <4>2. /\ z \in Seq(S) /\ Len(z) = Len(u12) + Len(u3)
            /\ \A k \in 1 .. Len(u12) : z[k] = u12[k]
            /\ \A k \in Len(u12) + 1 .. Len(u12) + Len(u3) : z[k] = u3[k - Len(u12)]
        BY <4>1, Joined
      <4>3. Len(u12) = 2 /\ u12[1] = ce /\ u12[2] = ca /\ Len(u3) = 1 /\ u3[1] = cd
        BY <2>3
      <4>4. z \in Seq(S) /\ Len(z) = 3 /\ z[1] = ce /\ z[2] = ca /\ z[3] = cd
        BY <4>2, <4>3
      <4>5. z = <<z[1], z[2], z[3]>>
        BY <4>4, Lone
      <4> QED
        BY <4>1, <4>4, <4>5, <2>3
    <3> QED
      BY <3>1, <2>3
  <2>6. Runs(p, table, u12 \o u3, w, x) <=> \E z : Runs(p, table, u12, w, z) /\ Runs(p, table, u3, z, x)
    BY RunsThen
  <2>7. \A z : Runs(p, table, u1 \o u2, w, z) <=> \E y : Runs(p, table, u1, w, y) /\ Runs(p, table, u2, y, z)
    BY RunsThen
  <2>8. \A y, z : /\ Runs(p, table, u1, y, z) <=> Makes(p, table, ce, y, z)
                  /\ Runs(p, table, u2, y, z) <=> Makes(p, table, ca, y, z)
                  /\ Runs(p, table, u3, y, z) <=> Makes(p, table, cd, y, z)
    BY <2>3, RunsOne
  <2>9. \A z : Runs(p, table, u12, w, z) <=> \E y : Makes(p, table, ce, w, y) /\ Makes(p, table, ca, y, z)
    BY <2>4, <2>7, <2>8, Zenon
  <2>10. Runs(p, table, u12 \o u3, w, x) <=> \E z : Runs(p, table, u12, w, z) /\ Makes(p, table, cd, z, x)
    BY <2>6, <2>8, Zenon
  <2>11. Runs(p, table, u12 \o u3, w, x) <=>
         \E y, z : /\ Makes(p, table, ce, w, y) /\ Makes(p, table, ca, y, z)
                   /\ Makes(p, table, cd, z, x)
    BY <2>9, <2>10, Zenon
  <2> QED
    BY <2>5, <2>11, Zenon
<1>15. (\E y, z : /\ Makes(p, table, ce, w, y) /\ Makes(p, table, ca, y, z)
                  /\ Makes(p, table, cd, z, x))
       <=> /\ Typed(p, table, e) /\ ValueOf(p, table, e) = t /\ Storable(t)
           /\ Makes(p, table, cd, w, x)
  <2>1. ASSUME NEW y, NEW z, Makes(p, table, ce, w, y), Makes(p, table, ca, y, z),
               Makes(p, table, cd, z, x)
        PROVE  /\ Typed(p, table, e) /\ ValueOf(p, table, e) = t /\ Storable(t)
               /\ Makes(p, table, cd, w, x)
    <3>1. Typed(p, table, e) /\ y = OnTop(w, u)
      BY <2>1, <1>9
    <3>2. Makes(p, table, ca, OnTop(w, u), z)
      BY <2>1, <3>1
    <3>3. ValueOf(p, table, e) = t /\ Storable(t) /\ z = w
      BY <3>2, <1>10
    <3> QED
      BY <2>1, <3>1, <3>3
  <2>2. ASSUME Typed(p, table, e), ValueOf(p, table, e) = t, Storable(t), Makes(p, table, cd, w, x)
        PROVE  \E y, z : /\ Makes(p, table, ce, w, y) /\ Makes(p, table, ca, y, z)
                         /\ Makes(p, table, cd, z, x)
    <3>1. Makes(p, table, ce, w, OnTop(w, u))
      BY <2>2, <1>9
    <3>2. Makes(p, table, ca, OnTop(w, u), w)
      BY <2>2, <1>10
    <3> QED
      BY <2>2, <3>1, <3>2, Zenon
  <2> QED
    BY <2>1, <2>2, Zenon
<1> QED
  BY <1>2, <1>3, <1>4, <1>5, <1>11, <1>12, <1>13, <1>14, <1>15, Zenon

(* Expressions, the call that takes their types, and statements.           *)
LEMMA RunsStatement ==
  ASSUME NEW p, NEW table, NEW S, NEW es \in Seq(S), NEW c, Uses(c) = Len(es),
         NEW v, v = ValuesOf(p, table, es), Leaves(p, table, c, v) = <<>>,
         NEW Q, NEW td \in Seq(Q), \A k \in DOMAIN td : td[k].do \in Outer,
         NEW w, Stack(w), NEW x
  PROVE  Runs(p, table, (Each("expr", es) \o <<c>>) \o td, w, x) <=>
           /\ \A i \in DOMAIN es : Typed(p, table, es[i])
           /\ Fine(p, table, c, v)
           /\ \A k \in DOMAIN td : Fine(p, table, td[k], <<>>)
           /\ x = w
<1>1. PICK n \in Nat : n = Len(es) /\ DOMAIN es = 1 .. n
  BY LenProperties
<1>2. OnTop(w, <<>>) = w
  <2>1. <<>> \in Seq({})
    OBVIOUS
  <2> QED
    BY <2>1, StackOn
<1>3. PICK g : g = Each("expr", es) \o <<c>>
  OBVIOUS
<1>4. PICK U : g \in Seq(U) /\ td \in Seq(U)
  <2>1. PICK U : U = (Range(Each("expr", es)) \cup {c}) \cup Q
    OBVIOUS
  <2>2. Each("expr", es) = [i \in 1 .. n |-> Do("expr", es[i])]
    BY <1>1 DEF Each
  <2>3. Each("expr", es) \in [1 .. n -> U]
    BY <2>1, <2>2 DEF Range
  <2>4. Each("expr", es) \in Seq(U) /\ <<c>> \in Seq(U)
    BY <2>1, <2>3, Listed
  <2>5. g \in Seq(U)
    BY <2>4, <1>3
  <2>6. td \in Seq(U)
    BY <2>1, Widened
  <2> QED
    BY <2>5, <2>6
<1>5. \A y : Runs(p, table, g, w, y) <=>
               /\ \A i \in DOMAIN es : Typed(p, table, es[i])
               /\ Fine(p, table, c, v)
               /\ y = w
  <2>1. TAKE y
  <2>2. Runs(p, table, Each("expr", es) \o <<c>>, w, y) <=>
           /\ \A i \in DOMAIN es : Typed(p, table, es[i])
           /\ Fine(p, table, c, ValuesOf(p, table, es))
           /\ y = OnTop(w, Leaves(p, table, c, ValuesOf(p, table, es)))
    BY RunsInto
  <2>3. ValuesOf(p, table, es) = v /\ Leaves(p, table, c, v) = <<>>
    OBVIOUS
  <2> QED
    BY <2>2, <2>3, <1>2, <1>3, Zenon
<1>6. Runs(p, table, g \o td, w, x) <=> \E y : Runs(p, table, g, w, y) /\ Runs(p, table, td, y, x)
  BY <1>4, RunsThen
<1>7. Runs(p, table, td, w, x) <=> (\A k \in DOMAIN td : Fine(p, table, td[k], <<>>)) /\ x = w
  BY RunsOuter
<1>8. (\E y : Runs(p, table, g, w, y) /\ Runs(p, table, td, y, x))
      <=> /\ \A i \in DOMAIN es : Typed(p, table, es[i])
          /\ Fine(p, table, c, v)
          /\ Runs(p, table, td, w, x)
  BY <1>5, Zenon
<1> QED
  BY <1>3, <1>6, <1>7, <1>8, Zenon

(* Every expression that is right has a type. *)
Known(p, table) == \A e \in Exprs(p) : Typed(p, table, e) => TypeOf(p, table)[e] # NULL

(* The parts of a statement, as calls. *)
LEMMA BodiesFine ==
  ASSUME NEW p, NEW table, NEW S, NEW ss \in Seq(S), NEW f
  PROVE  /\ Bodies(ss, f) \in Seq({Do("stmt", [stmt |-> s, func |-> f]) : s \in S})
         /\ DOMAIN Bodies(ss, f) = DOMAIN ss
         /\ \A k \in DOMAIN Bodies(ss, f) : Bodies(ss, f)[k].do \in Outer
         /\ (\A k \in DOMAIN Bodies(ss, f) : Fine(p, table, Bodies(ss, f)[k], <<>>))
            <=> \A k \in DOMAIN ss : StmtTyped(p, table)[<<ss[k], f>>]
<1>1. PICK n \in Nat : n = Len(ss) /\ DOMAIN ss = 1 .. n
  BY LenProperties
<1>2. PICK S1 : S1 = {Do("stmt", [stmt |-> s, func |-> f]) : s \in S}
  OBVIOUS
<1>3. PICK b : b = Bodies(ss, f)
  OBVIOUS
<1>4. b = [k \in 1 .. n |-> Do("stmt", [stmt |-> ss[k], func |-> f])] /\ DOMAIN b = 1 .. n
  BY <1>1, <1>3 DEF Bodies
<1>5. \A k \in 1 .. n : b[k] = Do("stmt", [stmt |-> ss[k], func |-> f]) /\ ss[k] \in S
  BY <1>1, <1>4
<1>6. b \in [1 .. n -> S1]
  BY <1>2, <1>4, <1>5
<1>7. b \in Seq(S1)
  BY <1>6, Listed
<1>8. \A k \in 1 .. n : b[k].do \in Outer
  <2>1. TAKE k \in 1 .. n
  <2>2. b[k] = Do("stmt", [stmt |-> ss[k], func |-> f])
    BY <1>5
  <2>3. b[k].do = "stmt"
    <3>1. PICK r : r = [stmt |-> ss[k], func |-> f]
      OBVIOUS
    <3>2. Do("stmt", r).do = "stmt"
      BY DoFacts
    <3> QED
      BY <3>1, <3>2, <2>2
  <2> QED
    BY <2>3 DEF Outer
<1>9. \A k \in 1 .. n : Fine(p, table, b[k], <<>>) <=> StmtTyped(p, table)[<<ss[k], f>>]
  <2>1. TAKE k \in 1 .. n
  <2>2. b[k] = Do("stmt", [stmt |-> ss[k], func |-> f])
    BY <1>5
  <2> QED
    BY <2>2 DEF Fine, Do
<1> QED
  BY <1>1, <1>2, <1>3, <1>4, <1>7, <1>8, <1>9

(* Whether the initial value of a declaration is right. *)
LEMMA InitialIsRight ==
  ASSUME NEW p \in Programs, NEW table, Known(p, table), NEW d, d.value \in Exprs(p) \cup {None}
  PROVE  ValueTyped(p, table, d) <=>
           Typed(p, table, d.value) /\ InitialFits(p, table, ValueOf(p, table, d.value), d)
<1>1. CASE d.value = None
  <2>1. d.value.kind = "NONE"
    BY <1>1 DEF None, Node
  <2> QED
    BY <2>1 DEF ValueTyped, Typed, InitialFits, ValueOf
<1>2. CASE d.value \in Exprs(p)
  <2>1. d.value.kind # "NONE"
    BY <1>2, OperandFacts
  <2>2. ValueOf(p, table, d.value) = TypeOf(p, table)[d.value]
    BY <2>1 DEF ValueOf
  <2>3. Typed(p, table, d.value) => TypeOf(p, table)[d.value] # NULL
    BY <1>2 DEF Known
  <2>4. ConstantExprs(p)[d.value] <=> \A n \in Inside(p)[d.value] : n.kind \in ConstantNodes
    BY <1>2, ConstantIsChecked
  <2> QED
    BY <2>1, <2>2, <2>3, <2>4 DEF ValueTyped, InitialFits
<1> QED
  BY <1>1, <1>2

(* A declaration. *)
LEMMA DeclRuns ==
  ASSUME NEW p \in Programs, NEW table, Known(p, table), NEW d \in Parts(p).decls,
         ValidTypes(table)[d.type], NEW w, Stack(w), NEW x
  PROVE  Runs(p, table, DeclCalls(d), w, x) <=> Makes(p, table, Do("decl", d), w, x)
<1>1. d.value \in Exprs(p) \cup {None} /\ d.code \in Seq(Parts(p).stmts)
  <2>1. DeclOK(d, p)
    BY ProgramsAssumption
  <2>2. d.value \in Exprs(p) \cup {None}
    BY <2>1 DEF DeclOK, Exprs
  <2>3. d.code = <<>> \/ \E s \in Parts(p).stmts : d.code = <<s>>
    BY <2>1 DEF DeclOK
  <2>4. d.code \in Seq(Parts(p).stmts)
    <3>1. CASE d.code = <<>>
      BY <3>1
    <3>2. CASE d.code # <<>>
      <4>1. PICK s \in Parts(p).stmts : d.code = <<s>>
        BY <2>3, <3>2
      <4> QED
        BY <4>1, Single
    <3> QED
      BY <3>1, <3>2
  <2> QED
    BY <2>2, <2>4
<1>2. PICK es, c, cd : es = <<d.value>> /\ c = Do("initial", d) /\ cd = Do("decl", d)
  OBVIOUS
<1>3. es \in Seq({d.value}) /\ Len(es) = 1 /\ es[1] = d.value /\ DOMAIN es = {1}
  BY <1>2
<1>4. PICK b : b = Bodies(d.code, d)
  OBVIOUS
<1>5. /\ b \in Seq({Do("stmt", [stmt |-> s, func |-> d]) : s \in Parts(p).stmts})
      /\ \A k \in DOMAIN b : b[k].do \in Outer
      /\ (\A k \in DOMAIN b : Fine(p, table, b[k], <<>>))
         <=> \A k \in DOMAIN d.code : StmtTyped(p, table)[<<d.code[k], d>>]
  <2>1. PICK ss \in Seq(Parts(p).stmts) : ss = d.code
    BY <1>1
  <2>2. /\ Bodies(ss, d) \in Seq({Do("stmt", [stmt |-> s, func |-> d]) : s \in Parts(p).stmts})
        /\ DOMAIN Bodies(ss, d) = DOMAIN ss
        /\ \A k \in DOMAIN Bodies(ss, d) : Bodies(ss, d)[k].do \in Outer
        /\ (\A k \in DOMAIN Bodies(ss, d) : Fine(p, table, Bodies(ss, d)[k], <<>>))
           <=> \A k \in DOMAIN ss : StmtTyped(p, table)[<<ss[k], d>>]
    BY BodiesFine
  <2> QED
    BY <2>1, <2>2, <1>4, Zenon
<1>6. PICK v : v = ValuesOf(p, table, es)
  OBVIOUS
<1>7. v = [i \in 1 .. 1 |-> ValueOf(p, table, es[i])] /\ v[1] = ValueOf(p, table, d.value)
  BY <1>3, <1>6 DEF ValuesOf
<1>8. /\ Uses(c) = Len(es) /\ Leaves(p, table, c, v) = <<>>
      /\ Fine(p, table, c, v) <=> InitialFits(p, table, v[1], d)
  BY <1>2, <1>3 DEF Uses, Leaves, Fine, Do
<1>9. Runs(p, table, (Each("expr", es) \o <<c>>) \o b, w, x) <=>
           /\ \A i \in DOMAIN es : Typed(p, table, es[i])
           /\ Fine(p, table, c, v)
           /\ \A k \in DOMAIN b : Fine(p, table, b[k], <<>>)
           /\ x = w
  <2>1. Uses(c) = Len(es) /\ Leaves(p, table, c, v) = <<>>
    BY <1>8
  <2> QED
    <3>1. PICK S : S = {d.value}
      OBVIOUS
    <3>2. es \in Seq(S)
      BY <1>3, <3>1
    <3>3. PICK Q : b \in Seq(Q)
      BY <1>5
    <3>4. \A k \in DOMAIN b : b[k].do \in Outer
      BY <1>5
    <3> QED
      BY <3>2, <3>3, <3>4, <1>6, <2>1, RunsStatement
<1>10. DeclCalls(d) = (Each("expr", es) \o <<c>>) \o b
  <2>1. Each("expr", es) = <<Do("expr", d.value)>>
    <3>1. Each("expr", es) = [i \in {1} |-> Do("expr", d.value)]
      BY <1>3 DEF Each
    <3>2. [i \in {1} |-> Do("expr", d.value)] = <<Do("expr", d.value)>>
      OBVIOUS
    <3> QED
      BY <3>1, <3>2
  <2>2. PICK S : S = {Do("expr", d.value), c}
    OBVIOUS
  <2>3. <<Do("expr", d.value)>> \o <<c>> = <<Do("expr", d.value), c>>
    BY <2>2, Pair
  <2> QED
    BY <2>1, <2>3, <1>2, <1>4, Zenon DEF DeclCalls, Bodies
<1>11. Makes(p, table, cd, w, x) <=> DeclTyped(p, table, d) /\ x = w
  <2>1. /\ Uses(cd) = 0 /\ (Fine(p, table, cd, <<>>) <=> DeclTyped(p, table, d))
        /\ Leaves(p, table, cd, <<>>) = <<>>
    BY <1>2 DEF Uses, Fine, Leaves, Do
  <2>2. OnTop(w, <<>>) = w
    <3>1. <<>> \in Seq({})
      OBVIOUS
    <3> QED
      BY <3>1, StackOn
  <2>3. Uses(cd) = 0
    BY <2>1
  <2>4. Makes(p, table, cd, w, x) <=>
           Fine(p, table, cd, <<>>) /\ x = OnTop(w, Leaves(p, table, cd, <<>>))
    BY <2>3, MakesAlone
  <2> QED
    BY <2>1, <2>2, <2>4, Zenon
<1>12. DeclTyped(p, table, d) <=>
         /\ ValueTyped(p, table, d)
         /\ \A k \in DOMAIN d.code : StmtTyped(p, table)[<<d.code[k], d>>]
  BY DEF DeclTyped, DeclRight
<1>13. ValueTyped(p, table, d) <=>
         (\A i \in DOMAIN es : Typed(p, table, es[i])) /\ Fine(p, table, c, v)
  <2>1. ValueTyped(p, table, d) <=>
           Typed(p, table, d.value) /\ InitialFits(p, table, ValueOf(p, table, d.value), d)
    BY <1>1, InitialIsRight
  <2> QED
    BY <2>1, <1>3, <1>7, <1>8
<1> QED
  BY <1>2, <1>5, <1>9, <1>10, <1>11, <1>12, <1>13, Zenon

(* The expressions of a statement and the call that ends them leave        *)
(* nothing.                                                                *)
LEMMA RunsEnd ==
  ASSUME NEW p, NEW table, NEW S, NEW es \in Seq(S), NEW c, Uses(c) = Len(es),
         NEW v, v = ValuesOf(p, table, es), Leaves(p, table, c, v) = <<>>,
         NEW w, Stack(w), NEW x
  PROVE  Runs(p, table, Each("expr", es) \o <<c>>, w, x) <=>
           /\ \A i \in DOMAIN es : Typed(p, table, es[i])
           /\ Fine(p, table, c, v)
           /\ x = w
<1>1. OnTop(w, <<>>) = w
  <2>1. <<>> \in Seq({})
    OBVIOUS
  <2> QED
    BY <2>1, StackOn
<1>2. Runs(p, table, Each("expr", es) \o <<c>>, w, x) <=>
           /\ \A i \in DOMAIN es : Typed(p, table, es[i])
           /\ Fine(p, table, c, ValuesOf(p, table, es))
           /\ x = OnTop(w, Leaves(p, table, c, ValuesOf(p, table, es)))
  BY RunsInto
<1>3. ValuesOf(p, table, es) = v /\ Leaves(p, table, c, v) = <<>>
  OBVIOUS
<1> QED
  BY <1>1, <1>2, <1>3, Zenon

(* What is right of a statement, by its kind.                              *)
LEMMA RightCases ==
  ASSUME NEW p, NEW table, NEW right, NEW s, NEW f
  PROVE  LET Right == StmtRight(p, table, right, s, f) IN
         /\ s.kind = "DECL" => (Right <=> DeclRight(p, table, right, s.val))
         /\ s.kind = "EXPR" => (Right <=> Typed(p, table, s.sub[1]))
         /\ s.kind = "PRINT" =>
              (Right <=> \A i \in DOMAIN s.sub :
                           /\ Typed(p, table, s.sub[i])
                           /\ Kind(TypeOf(p, table)[s.sub[i]]) # "AUTO")
         /\ s.kind = "RETURN" =>
              (Right <=> (s.sub # <<>> => ReturnTyped(p, table, s.sub[1], f)))
         /\ s.kind = "IF_ELSE" =>
              (Right <=> /\ Typed(p, table, s.sub[1]) /\ TypeOf(p, table)[s.sub[1]] = Boolean
                         /\ right[<<s.sub[2], f>>] /\ right[<<s.sub[3], f>>])
         /\ s.kind = "FOR" =>
              (Right <=> (\A i \in 1 .. 3 : Typed(p, table, s.sub[i])) /\ right[<<s.sub[4], f>>])
         /\ s.kind = "BLOCK" => (Right <=> \A i \in DOMAIN s.sub : right[<<s.sub[i], f>>])
         /\ s.kind = "NONE" => (Right <=> TRUE)
BY DEF StmtRight

(* The whole of a statement, as one call. *)
LEMMA StmtMakes ==
  ASSUME NEW p \in Programs, NEW table, NEW s \in Parts(p).stmts, NEW f \in Parts(p).decls,
         NEW w, Stack(w), NEW x
  PROVE  Makes(p, table, Do("stmt", [stmt |-> s, func |-> f]), w, x)
           <=> StmtRight(p, table, StmtTyped(p, table), s, f) /\ x = w
<1>1. PICK c : c = Do("stmt", [stmt |-> s, func |-> f])
  OBVIOUS
<1>2. OnTop(w, <<>>) = w
  <2>1. <<>> \in Seq({})
    OBVIOUS
  <2> QED
    BY <2>1, StackOn
<1>3. /\ Uses(c) = 0 /\ Leaves(p, table, c, <<>>) = <<>>
      /\ Fine(p, table, c, <<>>) <=> StmtTyped(p, table)[<<s, f>>]
  BY <1>1 DEF Uses, Leaves, Fine, Do
<1>4. Makes(p, table, c, w, x) <=>
        Fine(p, table, c, <<>>) /\ x = OnTop(w, Leaves(p, table, c, <<>>))
  <2>1. Uses(c) = 0
    BY <1>3
  <2> QED
    BY <2>1, MakesAlone
<1>5. StmtTyped(p, table)[<<s, f>>] = StmtRight(p, table, StmtTyped(p, table), s, f)
  <2>1. PICK x1 \in Parts(p).stmts \X Parts(p).decls : x1 = <<s, f>>
    OBVIOUS
  <2>2. StmtTyped(p, table)[x1] = StmtRight(p, table, StmtTyped(p, table), x1[1], x1[2])
    BY StmtTypedUnfolds
  <2>3. x1[1] = s /\ x1[2] = f
    BY <2>1
  <2> QED
    BY <2>1, <2>2, <2>3
<1> QED
  BY <1>1, <1>2, <1>3, <1>4, <1>5, Zenon

(* The types of a list of expressions are those that the rules find.       *)
LEMMA ValuesWithin ==
  ASSUME NEW p \in Programs, NEW table, NEW es \in Seq(Exprs(p))
  PROVE  /\ DOMAIN ValuesOf(p, table, es) = DOMAIN es
         /\ \A i \in DOMAIN es : ValuesOf(p, table, es)[i] = TypeOf(p, table)[es[i]]
<1>1. PICK n \in Nat : n = Len(es) /\ DOMAIN es = 1 .. n
  BY LenProperties
<1>2. \A i \in 1 .. n : ValueOf(p, table, es[i]) = TypeOf(p, table)[es[i]]
  <2>1. TAKE i \in 1 .. n
  <2>2. es[i] \in Exprs(p)
    BY <1>1
  <2>3. es[i].kind # "NONE"
    BY <2>2, OperandFacts
  <2> QED
    BY <2>3 DEF ValueOf
<1>3. ValuesOf(p, table, es) = [i \in 1 .. n |-> ValueOf(p, table, es[i])]
  BY <1>1 DEF ValuesOf
<1> QED
  BY <1>1, <1>2, <1>3

(* The same, by names. *)
LEMMA BodiesRight ==
  ASSUME NEW p, NEW table, NEW S, NEW ss \in Seq(S), NEW f,
         NEW b, b = Bodies(ss, f), NEW right, right = StmtTyped(p, table)
  PROVE  /\ \E Q : b \in Seq(Q)
         /\ DOMAIN b = DOMAIN ss
         /\ \A k \in DOMAIN b : b[k].do \in Outer
         /\ (\A k \in DOMAIN b : Fine(p, table, b[k], <<>>))
            <=> \A k \in DOMAIN ss : right[<<ss[k], f>>]
<1>1. /\ Bodies(ss, f) \in Seq({Do("stmt", [stmt |-> s, func |-> f]) : s \in S})
      /\ DOMAIN Bodies(ss, f) = DOMAIN ss
      /\ \A k \in DOMAIN Bodies(ss, f) : Bodies(ss, f)[k].do \in Outer
      /\ (\A k \in DOMAIN Bodies(ss, f) : Fine(p, table, Bodies(ss, f)[k], <<>>))
         <=> \A k \in DOMAIN ss : StmtTyped(p, table)[<<ss[k], f>>]
  BY BodiesFine
<1> QED
  BY <1>1, Zenon

(* A statement. *)
LEMMA StmtRuns ==
  ASSUME NEW p \in Programs, NEW table, Known(p, table),
         NEW s \in Parts(p).stmts, NEW f \in Parts(p).decls, NEW w, Stack(w), NEW x
  PROVE  Runs(p, table, StmtCalls(s, f), w, x)
           <=> Makes(p, table, Do("stmt", [stmt |-> s, func |-> f]), w, x)
<1>1. PICK right : right = StmtTyped(p, table)
  OBVIOUS
<1>2. PICK fits : fits = StmtRight(p, table, right, s, f)
  OBVIOUS
<1>3. Makes(p, table, Do("stmt", [stmt |-> s, func |-> f]), w, x) <=> fits /\ x = w
  BY <1>1, <1>2, StmtMakes
<1>4. StmtOK(s, p)
  BY ProgramsAssumption
<1>5. SUFFICES Runs(p, table, StmtCalls(s, f), w, x) <=> fits /\ x = w
  BY <1>3
<1>6. s.kind \in StmtKinds \cup {"NONE"}
  BY <1>4 DEF StmtOK
<1>7. CASE s.kind = "DECL"
  <2>1. StmtCalls(s, f) = <<Do("decl", s.val)>>
    BY <1>7, StmtCases
  <2>2. PICK c : c = Do("decl", s.val)
    OBVIOUS
  <2>3. /\ Uses(c) = 0 /\ Leaves(p, table, c, <<>>) = <<>>
        /\ Fine(p, table, c, <<>>) <=> DeclTyped(p, table, s.val)
    BY <2>2 DEF Uses, Leaves, Fine, Do
  <2>4. Makes(p, table, c, w, x) <=>
          Fine(p, table, c, <<>>) /\ x = OnTop(w, Leaves(p, table, c, <<>>))
    <3>1. Uses(c) = 0
      BY <2>3
    <3> QED
      BY <3>1, MakesAlone
  <2>5. OnTop(w, <<>>) = w
    <3>1. <<>> \in Seq({})
      OBVIOUS
    <3> QED
      BY <3>1, StackOn
  <2>6. Runs(p, table, <<c>>, w, x) <=> Makes(p, table, c, w, x)
    BY RunsOne
  <2>7. fits <=> DeclTyped(p, table, s.val)
    BY <1>1, <1>2, <1>7, RightCases DEF DeclTyped
  <2> QED
    BY <2>1, <2>2, <2>3, <2>4, <2>5, <2>6, <2>7, Zenon
<1>8. CASE s.kind = "EXPR"
  <2>1. StmtCalls(s, f) = Each("expr", s.sub) \o <<Do("forget", 1)>>
    BY <1>8, StmtCases
  <2>2. PICK es \in Seq(Exprs(p)) : es = s.sub /\ Len(es) = 1
    BY <1>4, <1>8 DEF StmtOK, Exprs
  <2>3. PICK c, v : c = Do("forget", 1) /\ v = ValuesOf(p, table, es)
    OBVIOUS
  <2>4. Uses(c) = Len(es) /\ Leaves(p, table, c, v) = <<>>
    BY <2>2, <2>3 DEF Uses, Leaves, Do
  <2>5. Runs(p, table, Each("expr", es) \o <<c>>, w, x) <=>
           /\ \A i \in DOMAIN es : Typed(p, table, es[i])
           /\ Fine(p, table, c, v)
           /\ x = w
    BY <2>3, <2>4, RunsEnd
  <2>6. Fine(p, table, c, v)
    BY <2>3 DEF Fine, Do
  <2>7. fits <=> Typed(p, table, es[1])
    BY <1>2, <1>8, <2>2, RightCases
  <2>8. DOMAIN es = {1}
    BY <2>2
  <2> QED
    BY <2>1, <2>2, <2>3, <2>5, <2>6, <2>7, <2>8
<1>9. CASE s.kind = "PRINT"
  <2>1. StmtCalls(s, f) = Each("expr", s.sub) \o <<Do("arguments", Len(s.sub))>>
    BY <1>9, StmtCases
  <2>2. PICK es \in Seq(Exprs(p)) : es = s.sub
    BY <1>4, <1>9 DEF StmtOK, Exprs
  <2>3. PICK c, v : c = Do("arguments", Len(es)) /\ v = ValuesOf(p, table, es)
    OBVIOUS
  <2>4. Uses(c) = Len(es) /\ Leaves(p, table, c, v) = <<>>
    BY <2>3 DEF Uses, Leaves, Do
  <2>5. Runs(p, table, Each("expr", es) \o <<c>>, w, x) <=>
           /\ \A i \in DOMAIN es : Typed(p, table, es[i])
           /\ Fine(p, table, c, v)
           /\ x = w
    BY <2>3, <2>4, RunsEnd
  <2>6. Fine(p, table, c, v) <=> \A i \in DOMAIN v : Kind(v[i]) # "AUTO"
    BY <2>3 DEF Fine, Do
  <2>7. DOMAIN v = DOMAIN es /\ \A i \in DOMAIN es : v[i] = TypeOf(p, table)[es[i]]
    BY <2>3, ValuesWithin
  <2>8. fits <=> \A i \in DOMAIN es : /\ Typed(p, table, es[i])
                                      /\ Kind(TypeOf(p, table)[es[i]]) # "AUTO"
    BY <1>2, <1>9, <2>2, RightCases
  <2> QED
    BY <2>1, <2>2, <2>3, <2>5, <2>6, <2>7, <2>8
<1>10. CASE s.kind = "RETURN"
  <2>1. PICK es : es = IF s.sub = <<>> THEN <<None>> ELSE s.sub
    OBVIOUS
  <2>2. StmtCalls(s, f) = Each("expr", es) \o <<Do("return", f)>>
    BY <2>1, <1>10, StmtCases
  <2>3. s.sub \in Seq(Exprs(p)) /\ Len(s.sub) \in {0, 1}
    BY <1>4, <1>10 DEF StmtOK, Exprs
  <2>4. PICK e \in Exprs(p) \cup {None} : es = <<e>> /\ e = es[1]
    BY <2>1, <2>3
  <2>5. es \in Seq({e}) /\ Len(es) = 1 /\ es[1] = e /\ DOMAIN es = {1}
    BY <2>4
  <2>6. PICK c, v : c = Do("return", f) /\ v = ValuesOf(p, table, es)
    OBVIOUS
  <2>7. v[1] = ValueOf(p, table, e)
    BY <2>5, <2>6 DEF ValuesOf
  <2>8. /\ Uses(c) = Len(es) /\ Leaves(p, table, c, v) = <<>>
        /\ Fine(p, table, c, v) <=> ReturnFits(table, v[1], f)
    BY <2>5, <2>6 DEF Uses, Leaves, Fine, Do
  <2>9. Runs(p, table, Each("expr", es) \o <<c>>, w, x) <=>
           /\ \A i \in DOMAIN es : Typed(p, table, es[i])
           /\ Fine(p, table, c, v)
           /\ x = w
    <3>1. Uses(c) = Len(es) /\ Leaves(p, table, c, v) = <<>>
      BY <2>8
    <3>2. PICK S : es \in Seq(S)
      BY <2>5
    <3> QED
      BY <2>6, <3>1, <3>2, RunsEnd
  <2>10. fits <=> (s.sub # <<>> => ReturnTyped(p, table, s.sub[1], f))
    BY <1>2, <1>10, RightCases
  <2>11. Typed(p, table, e) /\ ReturnFits(table, ValueOf(p, table, e), f) <=> fits
    <3>1. CASE s.sub = <<>>
      <4>1. e = None
        BY <3>1, <2>1, <2>4
      <4>2. e.kind = "NONE"
        BY <4>1 DEF None, Node
      <4> QED
        BY <3>1, <4>2, <2>10 DEF Typed, ValueOf, ReturnFits
    <3>2. CASE s.sub # <<>>
      <4>1. es = s.sub
        BY <2>1, <3>2
      <4>2. e \in Exprs(p)
        BY <4>1, <2>3, <2>5
      <4>3. ValueOf(p, table, e) = TypeOf(p, table)[e]
        <5>1. e.kind # "NONE"
          BY <4>2, OperandFacts
        <5> QED
          BY <5>1 DEF ValueOf
      <4>4. Typed(p, table, e) => TypeOf(p, table)[e] # NULL
        BY <4>2 DEF Known
      <4>5. fits <=> ReturnTyped(p, table, e, f)
        BY <2>10, <3>2, <4>1, <2>5
      <4> QED
        BY <4>3, <4>4, <4>5 DEF ReturnTyped, ReturnFits
    <3> QED
      BY <3>1, <3>2
  <2> QED
    BY <2>2, <2>5, <2>6, <2>7, <2>8, <2>9, <2>11
<1>11. CASE s.kind = "IF_ELSE"
  <2>1. StmtCalls(s, f) = (Each("expr", SubSeq(s.sub, 1, 1)) \o <<Do("condition", 1)>>)
                                \o Bodies(SubSeq(s.sub, 2, 3), f)
    BY <1>11, StmtCases
  <2>2. PICK e \in Exprs(p), s1 \in Parts(p).stmts, s2 \in Parts(p).stmts : s.sub = <<e, s1, s2>>
    BY <1>4, <1>11 DEF StmtOK, Exprs
  <2>3. PICK es, ss : es = SubSeq(s.sub, 1, 1) /\ ss = SubSeq(s.sub, 2, 3)
    OBVIOUS
  <2>4. /\ es \in Seq(Exprs(p)) /\ Len(es) = 1 /\ es[1] = s.sub[1] /\ DOMAIN es = {1}
        /\ ss \in Seq(Parts(p).stmts) /\ DOMAIN ss = {1, 2}
        /\ ss[1] = s.sub[2] /\ ss[2] = s.sub[3]
    <3>1. PICK U, q : U = Exprs(p) \cup Parts(p).stmts /\ q = s.sub
      OBVIOUS
    <3>2. e \in U /\ s1 \in U /\ s2 \in U /\ q = <<e, s1, s2>>
      BY <2>2, <3>1
    <3>3. q \in Seq(U) /\ Len(q) = 3 /\ q[1] = e /\ q[2] = s1 /\ q[3] = s2
      BY <3>2, Triple
    <3>4. SubSeq(q, 1, 1) = <<q[1]>> /\ SubSeq(q, 2, 3) = <<q[2], q[3]>>
      BY <3>3, Cut
    <3>5. es = <<e>> /\ ss = <<s1, s2>>
      BY <2>3, <3>1, <3>3, <3>4
    <3>6. es \in Seq(Exprs(p)) /\ Len(es) = 1 /\ es[1] = e /\ DOMAIN es = {1}
      <4>1. es \in Seq(Exprs(p)) /\ Len(es) = 1 /\ es[1] = e
        BY <3>5, Single
      <4> QED
        BY <4>1
    <3>7. ss \in Seq(Parts(p).stmts) /\ DOMAIN ss = {1, 2} /\ ss[1] = s1 /\ ss[2] = s2
      <4>1. PICK S : S = Parts(p).stmts
        OBVIOUS
      <4>2. ss \in Seq(S) /\ Len(ss) = 2 /\ ss[1] = s1 /\ ss[2] = s2
        BY <3>5, <4>1, Pair
      <4>3. DOMAIN ss = {1, 2}
        BY <4>2
      <4> QED
        BY <4>1, <4>2, <4>3
    <3> QED
      BY <3>1, <3>3, <3>6, <3>7
  <2>5. PICK c, v, b : c = Do("condition", 1) /\ v = ValuesOf(p, table, es) /\ b = Bodies(ss, f)
    OBVIOUS
  <2>6. /\ Uses(c) = Len(es) /\ Leaves(p, table, c, v) = <<>>
        /\ Fine(p, table, c, v) <=> v[1] = Boolean
    BY <2>4, <2>5 DEF Uses, Leaves, Fine, Do
  <2>7. v[1] = TypeOf(p, table)[s.sub[1]]
    <3>1. \A i \in DOMAIN es : v[i] = TypeOf(p, table)[es[i]]
      BY <2>4, <2>5, ValuesWithin
    <3> QED
      BY <3>1, <2>4
  <2>8. /\ \E Q : b \in Seq(Q)
        /\ DOMAIN b = DOMAIN ss
        /\ \A k \in DOMAIN b : b[k].do \in Outer
        /\ (\A k \in DOMAIN b : Fine(p, table, b[k], <<>>))
            <=> \A k \in DOMAIN ss : right[<<ss[k], f>>]
    BY <2>4, <2>5, <1>1, BodiesRight
  <2>9. Runs(p, table, (Each("expr", es) \o <<c>>) \o b, w, x) <=>
           /\ \A i \in DOMAIN es : Typed(p, table, es[i])
           /\ Fine(p, table, c, v)
           /\ \A k \in DOMAIN b : Fine(p, table, b[k], <<>>)
           /\ x = w
    <3>1. Uses(c) = Len(es) /\ Leaves(p, table, c, v) = <<>>
      BY <2>6
    <3>2. es \in Seq(Exprs(p))
      BY <2>4
    <3>3. PICK Q : b \in Seq(Q)
      BY <2>8
    <3>4. \A k \in DOMAIN b : b[k].do \in Outer
      BY <2>8
    <3> QED
      BY <3>1, <3>2, <3>3, <3>4, <2>5, RunsStatement
  <2>10. fits <=> /\ Typed(p, table, s.sub[1]) /\ TypeOf(p, table)[s.sub[1]] = Boolean
                  /\ right[<<s.sub[2], f>>] /\ right[<<s.sub[3], f>>]
    BY <1>2, <1>11, RightCases
  <2> QED
    BY <2>1, <2>3, <2>4, <2>5, <2>6, <2>7, <2>8, <2>9, <2>10
<1>12. CASE s.kind = "FOR"
  <2>1. StmtCalls(s, f) = (Each("expr", SubSeq(s.sub, 1, 3)) \o <<Do("loop", 3)>>)
                                \o Bodies(SubSeq(s.sub, 4, 4), f)
    BY <1>12, StmtCases
  <2>2. /\ s.sub \in Seq(Exprs(p) \cup Parts(p).stmts \cup {None}) /\ Len(s.sub) = 4
        /\ \A i \in 1 .. 3 : s.sub[i] \in Exprs(p) \cup {None}
        /\ s.sub[4] \in Parts(p).stmts
    BY <1>4, <1>12 DEF StmtOK, Exprs
  <2>3. PICK es, ss : es = SubSeq(s.sub, 1, 3) /\ ss = SubSeq(s.sub, 4, 4)
    OBVIOUS
  <2>4. /\ es \in Seq(Exprs(p) \cup Parts(p).stmts \cup {None}) /\ Len(es) = 3 /\ DOMAIN es = 1 .. 3
        /\ \A i \in 1 .. 3 : es[i] = s.sub[i]
    <3>1. /\ es \in Seq(Exprs(p) \cup Parts(p).stmts \cup {None}) /\ Len(es) = 3
          /\ \A i \in 1 .. 3 : es[i] = s.sub[i]
      BY <2>2, <2>3
    <3> QED
      BY <3>1
  <2>11. /\ ss \in Seq(Parts(p).stmts) /\ DOMAIN ss = {1} /\ ss[1] = s.sub[4]
    <3>1. PICK q \in Seq(Exprs(p) \cup Parts(p).stmts \cup {None}) : q = s.sub /\ Len(q) = 4
      BY <2>2
    <3>2. SubSeq(q, 4, 4) = <<q[4]>>
      BY <3>1, Cut
    <3>3. ss = <<s.sub[4]>>
      BY <2>3, <3>1, <3>2
    <3>4. PICK t \in Parts(p).stmts : t = s.sub[4]
      BY <2>2
    <3>5. ss \in Seq(Parts(p).stmts) /\ Len(ss) = 1 /\ ss[1] = t
      BY <3>3, <3>4, Single
    <3>6. DOMAIN ss = {1}
      BY <3>5
    <3> QED
      BY <3>4, <3>5, <3>6
  <2>5. PICK c, v, b : c = Do("loop", 3) /\ v = ValuesOf(p, table, es) /\ b = Bodies(ss, f)
    OBVIOUS
  <2>6. /\ Uses(c) = Len(es) /\ Leaves(p, table, c, v) = <<>>
        /\ Fine(p, table, c, v)
    BY <2>4, <2>5 DEF Uses, Leaves, Fine, Do
  <2>8. /\ \E Q : b \in Seq(Q)
        /\ DOMAIN b = DOMAIN ss
        /\ \A k \in DOMAIN b : b[k].do \in Outer
        /\ (\A k \in DOMAIN b : Fine(p, table, b[k], <<>>))
            <=> \A k \in DOMAIN ss : right[<<ss[k], f>>]
    BY <2>11, <2>5, <1>1, BodiesRight
  <2>9. Runs(p, table, (Each("expr", es) \o <<c>>) \o b, w, x) <=>
           /\ \A i \in DOMAIN es : Typed(p, table, es[i])
           /\ Fine(p, table, c, v)
           /\ \A k \in DOMAIN b : Fine(p, table, b[k], <<>>)
           /\ x = w
    <3>1. Uses(c) = Len(es) /\ Leaves(p, table, c, v) = <<>>
      BY <2>6
    <3>2. PICK S : es \in Seq(S)
      BY <2>4
    <3>3. PICK Q : b \in Seq(Q)
      BY <2>8
    <3>4. \A k \in DOMAIN b : b[k].do \in Outer
      BY <2>8
    <3> QED
      BY <3>1, <3>2, <3>3, <3>4, <2>5, RunsStatement
  <2>10. fits <=> (\A i \in 1 .. 3 : Typed(p, table, s.sub[i])) /\ right[<<s.sub[4], f>>]
    BY <1>2, <1>12, RightCases
  <2> QED
    BY <2>1, <2>3, <2>4, <2>11, <2>5, <2>6, <2>8, <2>9, <2>10
<1>13. CASE s.kind = "BLOCK"
  <2>1. StmtCalls(s, f) = Bodies(s.sub, f)
    BY <1>13, StmtCases
  <2>2. PICK ss \in Seq(Parts(p).stmts) : ss = s.sub
    BY <1>4, <1>13 DEF StmtOK
  <2>3. PICK b : b = Bodies(ss, f)
    OBVIOUS
  <2>4. /\ \E Q : b \in Seq(Q)
        /\ DOMAIN b = DOMAIN ss
        /\ \A k \in DOMAIN b : b[k].do \in Outer
        /\ (\A k \in DOMAIN b : Fine(p, table, b[k], <<>>))
            <=> \A k \in DOMAIN ss : right[<<ss[k], f>>]
    BY <2>3, <1>1, BodiesRight
  <2>5. Runs(p, table, b, w, x) <=> (\A k \in DOMAIN b : Fine(p, table, b[k], <<>>)) /\ x = w
    <3>1. PICK Q : b \in Seq(Q)
      BY <2>4
    <3>2. \A k \in DOMAIN b : b[k].do \in Outer
      BY <2>4
    <3> QED
      BY <3>1, <3>2, RunsOuter
  <2>6. fits <=> \A i \in DOMAIN ss : right[<<ss[i], f>>]
    BY <1>2, <1>13, <2>2, RightCases
  <2> QED
    BY <2>1, <2>2, <2>3, <2>4, <2>5, <2>6
<1>14. CASE s.kind = "NONE"
  <2>1. StmtCalls(s, f) = <<>>
    BY <1>14, StmtCases
  <2>2. Runs(p, table, <<>>, w, x) <=> x = w
    BY RunsNothing
  <2>3. fits <=> TRUE
    BY <1>2, <1>14, RightCases
  <2> QED
    BY <2>1, <2>2, <2>3
<1> QED
  BY <1>6, <1>7, <1>8, <1>9, <1>10, <1>11, <1>12, <1>13, <1>14 DEF StmtKinds

(***************************************************************************)
(* The types whose innermost kind, below their dimensions, is not in X.    *)
(***************************************************************************)
Avoiding(X) == {w \in Seq(Alphabet) : \E k \in Nat : Nested(w, k) /\ w[k + 1] \notin X}

Plain == Avoiding({"AUTO"})
Solid == Avoiding({"AUTO", "NULL"})

(* What is known of such a type. *)
LEMMA AvoidingFacts ==
  ASSUME NEW X, "ARRAY" \notin X, NEW w \in Avoiding(X)
  PROVE  w \in TypeWords /\ w[1] \notin X
<1>1. PICK k \in Nat : Nested(w, k) /\ w[k + 1] \notin X
  BY DEF Avoiding
<1>2. w \in TypeWords
  BY <1>1 DEF Avoiding, TypeWords
<1>3. CASE k = 0
  <2>1. k + 1 = 1
    BY <1>3
  <2> QED
    BY <2>1, <1>1, <1>2
<1>4. CASE k # 0
  <2>1. w[1] = "ARRAY"
    BY <1>1, <1>4 DEF Nested
  <2> QED
    BY <2>1, <1>2
<1> QED
  BY <1>3, <1>4

(* A type that is solid is plain, and so is the missing one. *)
LEMMA SolidIsPlain == Solid \subseteq Plain /\ NULL \in Plain
<1>1. Solid \subseteq Plain
  BY DEF Solid, Plain, Avoiding
<1>2. NULL \in Plain
  <2>1. NULL \in Seq(Alphabet) /\ Len(NULL) = 1 /\ NULL[1] = "NULL"
    BY DEF NULL, Alphabet
  <2>2. Nested(NULL, 0) /\ NULL[0 + 1] \notin {"AUTO"}
    BY <2>1 DEF Nested
  <2> QED
    BY <2>1, <2>2 DEF Plain, Avoiding
<1> QED
  BY <1>1, <1>2

(* A plain type is not auto, and a solid one is there, too. *)
LEMMA PlainFacts ==
  /\ \A w \in Plain : w \in TypeWords /\ Kind(w) # "AUTO"
  /\ \A w \in Solid : w \in TypeWords /\ w \in Plain /\ Kind(w) # "AUTO" /\ w # NULL
<1>1. \A w \in Plain : w \in TypeWords /\ Kind(w) # "AUTO"
  BY AvoidingFacts DEF Plain, Kind
<1>2. \A w \in Solid : w \in TypeWords /\ w[1] \notin {"AUTO", "NULL"}
  BY AvoidingFacts DEF Solid
<1>3. NULL[1] = "NULL"
  BY DEF NULL
<1> QED
  BY <1>1, <1>2, <1>3, SolidIsPlain DEF Kind

(* An array is of its elements. *)
LEMMA AvoidingArray ==
  ASSUME NEW X, NEW w \in Avoiding(X), NEW n \in Alphabet
  PROVE  <<"ARRAY">> \o w \o <<n>> \in Avoiding(X)
<1>1. PICK k \in Nat : Nested(w, k) /\ w[k + 1] \notin X
  BY DEF Avoiding
<1>2. PICK m \in Nat : m = Len(w) /\ w \in Seq(Alphabet)
  BY DEF Avoiding
<1>3. PICK a : a = <<"ARRAY">> \o w \o <<n>>
  OBVIOUS
<1>4. "ARRAY" \in Alphabet
  BY DEF Alphabet, TypeKinds
<1>5. /\ a \in Seq(Alphabet) /\ Len(a) = m + 2 /\ a[1] = "ARRAY" /\ a[m + 2] = n
      /\ \A i \in 2 .. m + 1 : a[i] = w[i - 1]
  BY <1>2, <1>3, <1>4, Bracketed
<1>6. m >= 2 * k + 1
  BY <1>1, <1>2 DEF Nested
<1>7. a[(k + 1) + 1] = w[k + 1]
  <2>1. (k + 1) + 1 \in 2 .. m + 1 /\ ((k + 1) + 1) - 1 = k + 1
    BY <1>6
  <2> QED
    BY <2>1, <1>5
<1>8. Nested(a, k + 1)
  <2>1. Len(a) >= 2 * (k + 1) + 1
    BY <1>5, <1>6
  <2>2. \A i \in 1 .. k + 1 : a[i] = "ARRAY"
    <3>1. \A i \in 2 .. k + 1 : i - 1 \in 1 .. k /\ i \in 2 .. m + 1
      BY <1>6
    <3>2. \A i \in 2 .. k + 1 : a[i] = "ARRAY"
      BY <3>1, <1>5, <1>1 DEF Nested
    <3> QED
      BY <3>2, <1>5
  <2>3. a[(k + 1) + 1] # "FUNCTION" => Len(a) = 2 * (k + 1) + 1
    BY <1>7, <1>1, <1>2, <1>5 DEF Nested
  <2> QED
    BY <2>1, <2>2, <2>3, <1>7, <1>1 DEF Nested
<1>9. k + 1 \in Nat
  OBVIOUS
<1> QED
  BY <1>1, <1>3, <1>5, <1>7, <1>8, <1>9 DEF Avoiding

(* So is an element of its array. *)
LEMMA AvoidingElement ==
  ASSUME NEW X, NEW w \in Avoiding(X), w[1] = "ARRAY"
  PROVE  ElementType(w) \in Avoiding(X)
<1>1. PICK k \in Nat : Nested(w, k) /\ w[k + 1] \notin X
  BY DEF Avoiding
<1>2. PICK m \in Nat : m = Len(w) /\ w \in Seq(Alphabet)
  BY DEF Avoiding
<1>3. k # 0
  BY <1>1 DEF Nested, Simple
<1>4. m >= 2 * k + 1 /\ m >= 3
  BY <1>1, <1>2, <1>3 DEF Nested
<1>5. PICK a : a = ElementType(w)
  OBVIOUS
<1>6. /\ a \in Seq(Alphabet) /\ Len(a) = m - 2
      /\ \A i \in 1 .. m - 2 : a[i] = w[i + 1]
  <2>1. \A i \in 2 .. m - 1 : w[i] \in Alphabet
    BY <1>2
  <2>2. a = SubSeq(w, 2, m - 1)
    BY <1>2, <1>5 DEF ElementType
  <2> QED
    BY <2>1, <2>2, <1>4
<1>7. a[(k - 1) + 1] = w[k + 1]
  <2>1. k \in 1 .. m - 2 /\ (k - 1) + 1 = k
    BY <1>3, <1>4
  <2> QED
    BY <2>1, <1>6
<1>8. Nested(a, k - 1)
  <2>1. Len(a) >= 2 * (k - 1) + 1
    BY <1>4, <1>6
  <2>2. \A i \in 1 .. k - 1 : a[i] = "ARRAY"
    <3>1. \A i \in 1 .. k - 1 : i \in 1 .. m - 2 /\ i + 1 \in 1 .. k
      BY <1>4
    <3> QED
      BY <3>1, <1>6, <1>1 DEF Nested
  <2>3. a[(k - 1) + 1] # "FUNCTION" => Len(a) = 2 * (k - 1) + 1
    BY <1>7, <1>1, <1>2, <1>6 DEF Nested
  <2> QED
    BY <2>1, <2>2, <2>3, <1>7, <1>1 DEF Nested
<1>9. k - 1 \in Nat
  BY <1>3
<1> QED
  BY <1>1, <1>5, <1>6, <1>7, <1>8, <1>9 DEF Avoiding

(* The simple types. *)
LEMMA AvoidingSimple ==
  ASSUME NEW X, NEW k \in Simple \cup {"NULL"}, k \notin X
  PROVE  <<k>> \in Avoiding(X)
<1>1. <<k>> \in Seq(Alphabet) /\ Len(<<k>>) = 1 /\ <<k>>[1] = k
  <2>1. k \in Alphabet
    BY DEF Alphabet, TypeKinds
  <2> QED
    BY <2>1
<1>2. Nested(<<k>>, 0) /\ <<k>>[0 + 1] \notin X
  BY <1>1 DEF Nested
<1> QED
  BY <1>1, <1>2 DEF Avoiding

(* A function is one whatever it returns. *)
LEMMA AvoidingFunction ==
  ASSUME NEW X, "FUNCTION" \notin X, NEW w \in TypeWords, w[1] = "FUNCTION"
  PROVE  w \in Avoiding(X)
<1>1. PICK k \in Nat : Nested(w, k)
  BY DEF TypeWords
<1>2. k = 0
  <2>1. k # 0 => w[1] = "ARRAY"
    BY <1>1 DEF Nested
  <2> QED
    BY <2>1
<1>3. w[k + 1] = "FUNCTION"
  BY <1>2
<1> QED
  BY <1>1, <1>3 DEF Avoiding, TypeWords

(* The types of literals and of operators. *)
LEMMA SolidWords ==
  /\ Integer \in Solid /\ Boolean \in Solid
  /\ <<"CHARACTER">> \in Solid /\ <<"STRING">> \in Solid
BY AvoidingSimple DEF Solid, Integer, Boolean, Simple

(* Arrays and their elements. *)
LEMMA SolidArrays ==
  /\ \A w \in Solid : \A n : ToString(n) \in STRING \ {"NULL", NoSize} => ArrayOf(w, n) \in Solid
  /\ \A w \in Plain : \A n : ToString(n) \in STRING \ {"NULL", NoSize} => ArrayOf(w, n) \in Plain
  /\ \A w \in Solid : Kind(w) = "ARRAY" => ElementType(w) \in Solid
  /\ \A w \in Plain : Kind(w) = "ARRAY" => ElementType(w) \in Plain
<1>1. ASSUME NEW X, NEW w \in Avoiding(X), NEW n, ToString(n) \in STRING \ {"NULL", NoSize}
      PROVE  ArrayOf(w, n) \in Avoiding(X)
  <2>1. PICK s \in Alphabet : s = ToString(n)
    BY <1>1 DEF Alphabet
  <2>2. ArrayOf(w, n) = <<"ARRAY">> \o w \o <<s>>
    BY <2>1 DEF ArrayOf
  <2> QED
    BY <2>2, AvoidingArray
<1>2. ASSUME NEW X, NEW w \in Avoiding(X), Kind(w) = "ARRAY"
      PROVE  ElementType(w) \in Avoiding(X)
  BY <1>2, AvoidingElement DEF Kind
<1> QED
  BY <1>1, <1>2 DEF Solid, Plain

(* Where nothing is auto and nothing is missing, the types of names are solid. *)
LEMMA CopyIsSolid ==
  ASSUME NEW p \in Programs, TypesOf(types, p), Full(types),
         \A c \in 1 .. Len(types) : types[c].kind # "AUTO"
  PROVE  \A c \in 1 .. Len(types) : type_copy[c] \in Solid
<1> DEFINE T == {k \in Nat : \A c \in 1 .. Len(types) : c <= k => type_copy[c] \in Solid}
<1>1. PICK n \in Nat : n = Len(types) /\ DOMAIN types = 1 .. n
  BY TableFacts
<1>2. \A c \in 0 .. n : type_copy[c] = CopyOf(type_copy, c)
  BY <1>1, CopyUnfolds
<1>3. 0 \in T
  BY <1>1
<1>4. ASSUME NEW k \in Nat, k \in T PROVE k + 1 \in T
  <2>1. SUFFICES ASSUME k + 1 \in 1 .. n PROVE type_copy[k + 1] \in Solid
    <3>1. \A c \in 1 .. n : c <= k + 1 => c <= k \/ c = k + 1
      OBVIOUS
    <3> QED
      BY <1>1, <1>4, <3>1
  <2>2. PICK c : c = k + 1
    OBVIOUS
  <2>3. c \in 1 .. n /\ c \in 0 .. n /\ c # 0
    BY <2>1, <2>2
  <2>4. PICK t : t = types[c]
    OBVIOUS
  <2>5. type_copy[c] = CopyOf(type_copy, c) /\ type_copy[c] \in TypeWords
        /\ type_copy[c][1] = t.kind
    BY <1>1, <1>2, <2>3, <2>4, CopyFacts
  <2>6. /\ t.kind \in TypeKinds /\ t.sub \in 0 .. c - 1 /\ t.size \in STRING \ {"NULL"}
        /\ t.kind # "AUTO"
    BY <2>3, <2>4, <1>1, TableFacts
  <2>7. CASE t.kind = "ARRAY"
    <3>1. t.sub # 0
      BY <1>1, <2>3, <2>4, <2>7 DEF Full
    <3>2. t.sub \in 1 .. n /\ t.sub <= k
      BY <3>1, <2>2, <2>3, <2>6
    <3>3. PICK w \in Solid : w = type_copy[t.sub]
      BY <3>2, <1>1, <1>4
    <3>4. type_copy[c] = <<"ARRAY">> \o w \o <<Word(t.size)>>
      BY <2>3, <2>4, <2>5, <2>7, <3>3 DEF CopyOf
    <3>5. PICK s \in Alphabet : s = Word(t.size)
      BY <2>6, SizeWord
    <3> QED
      BY <3>3, <3>4, <3>5, <2>2, AvoidingArray DEF Solid
  <2>8. CASE t.kind = "FUNCTION"
    BY <2>2, <2>5, <2>8, AvoidingFunction DEF Solid
  <2>9. CASE t.kind \notin {"ARRAY", "FUNCTION"}
    <3>1. type_copy[c] = <<t.kind>>
      BY ONLY <2>5, <2>3, <2>4, <2>9, CopyCases, Zenon
    <3>2. PICK x \in Simple : x = t.kind /\ x \notin {"AUTO", "NULL"}
      BY <2>6, <2>9 DEF TypeKinds, Simple
    <3> QED
      BY <3>1, <3>2, <2>2, AvoidingSimple DEF Solid
  <2> QED
    BY <2>7, <2>8, <2>9
<1>5. \A k \in Nat : k \in T
  <2> HIDE DEF T
  <2> QED
    BY <1>3, <1>4, NaturalInduction
<1>6. n \in T
  BY <1>5
<1> QED
  BY <1>1, <1>6

-----------------------------------------------------------------------------
(***************************************************************************)
(* Where nothing is auto, what is well typed has a solid type.             *)
(***************************************************************************)

(* Where the operands fit and are solid, the result is solid. *)
LEMMA ResultSolid ==
  ASSUME NEW p \in Programs, TypesOf(types, p), Full(types),
         \A c \in 1 .. Len(types) : types[c].kind # "AUTO",
         NEW e \in Exprs(p), NEW v \in Seq(Solid), Len(v) = Len(e.sub), Fits(types, e, v)
  PROVE  Result(types, e, v) \in Solid
<1>1. ExprOK(e, p)
  BY ProgramsAssumption DEF Exprs
<1>2. \A i \in 1 .. Len(v) : v[i] \in Solid
  OBVIOUS
<1>3. \A c \in 1 .. Len(types) : Copies(types)[c] \in Solid
  BY CopyIsSolid DEF type_copy
<1> USE DEF Literal, Arithmetic, Comparison, Step, Logical
<1>4. CASE e.kind \in Literal
  <2>1. Result(types, e, v) = LiteralType[e.kind]
    BY <1>4 DEF Result
  <2> QED
    BY <2>1, <1>4, SolidWords DEF LiteralType
<1>5. CASE e.kind = "ID"
  <2>1. Result(types, e, v) = Copies(types)[e.val]
    BY <1>5 DEF Result
  <2>2. e.val # 0
    BY <1>5 DEF Fits
  <2>3. e.val \in 1 .. Len(types)
    BY <2>2, <1>1, <1>5, TableFacts DEF ExprOK
  <2> QED
    BY <2>1, <2>3, <1>3
<1>6. CASE e.kind = "FCALL"
  <2>1. Result(types, e, v) = Copies(types)[types[e.val].sub]
    BY <1>6 DEF Result
  <2>2. e.val # 0 /\ types[e.val].kind = "FUNCTION"
    BY <1>6 DEF Fits
  <2>3. e.val \in 1 .. Len(types)
    BY <2>2, <1>1, <1>6, TableFacts DEF ExprOK
  <2>4. types[e.val].sub \in 0 .. e.val - 1 /\ types[e.val].sub # 0 /\ Len(types) \in Nat
    BY <2>2, <2>3, TableFacts DEF Full
  <2>5. types[e.val].sub \in 1 .. Len(types)
    BY <2>3, <2>4
  <2> QED
    BY <2>1, <2>5, <1>3
<1>7. CASE e.kind \in Arithmetic \cup Step \cup {"NEGATION"}
  BY <1>7, SolidWords DEF Result
<1>8. CASE e.kind \in Comparison \cup Logical \cup {"NOT"}
  BY <1>8, SolidWords DEF Result
<1>9. CASE e.kind = "INDEX"
  <2>1. Result(types, e, v) = ElementType(v[1]) /\ Kind(v[1]) = "ARRAY"
    BY <1>9 DEF Result, Fits
  <2>2. v[1] \in Solid
    BY <1>1, <1>2, <1>9 DEF ExprOK
  <2> QED
    BY <2>1, <2>2, SolidArrays
<1>10. CASE e.kind \in {"BRACE", "ARG"}
  <2>1. e.sub # <<>> /\ ToString(Len(e.sub)) \in STRING \ {"NULL", NoSize}
        /\ e.sub \in Seq(Exprs(p))
    BY <1>1, <1>10 DEF ExprOK, Exprs
  <2>2. v[1] \in Solid
    BY <2>1, <1>2, EmptySeq
  <2>3. Result(types, e, v) \in {v[1], ArrayOf(v[1], Len(v))}
    BY <1>10 DEF Result
  <2>4. ArrayOf(v[1], Len(v)) \in Solid
    BY <2>1, <2>2, SolidArrays
  <2> QED
    BY <2>2, <2>3, <2>4
<1>11. CASE e.kind = "TERNARY1"
  <2>1. Result(types, e, v) = v[2]
    BY <1>11 DEF Result
  <2> QED
    BY <2>1, <1>1, <1>2, <1>11 DEF ExprOK
<1>12. CASE e.kind \in {"ASSIGN", "GROUP"}
  <2>1. Result(types, e, v) = v[1]
    BY <1>12 DEF Result
  <2> QED
    BY <2>1, <1>1, <1>2, <1>12 DEF ExprOK
<1>13. e.kind \in ExprKinds
  BY <1>1 DEF ExprOK
<1> QED
  BY <1>4, <1>5, <1>6, <1>7, <1>8, <1>9, <1>10, <1>11, <1>12, <1>13 DEF ExprKinds, Leaf

(* Every expression that is right has a solid type. *)
LEMMA TypedIsSolid ==
  ASSUME NEW p \in Programs, TypesOf(types, p), Full(types),
         \A c \in 1 .. Len(types) : types[c].kind # "AUTO"
  PROVE  \A e \in Exprs(p) : Typed(p, types, e) => TypeOf(p, types)[e] \in Solid
<1> DEFINE Right(e) == Typed(p, types, e) => TypeOf(p, types)[e] \in Solid
           S == {k \in Nat : \A e \in Exprs(p) : Height(e) < k => Right(e)}
<1>1. 0 \in S
  BY HeightFacts
<1>2. ASSUME NEW e \in Exprs(p), \A i \in DOMAIN e.sub : Right(e.sub[i])
      PROVE  Right(e)
  <2>1. SUFFICES ASSUME Typed(p, types, e) PROVE TypeOf(p, types)[e] \in Solid
    OBVIOUS
  <2>2. PICK es, v : es \in Seq(Exprs(p)) /\ es = e.sub /\ v = ValuesOf(p, types, es)
    BY OperandFacts
  <2>3. /\ \A i \in DOMAIN es : Typed(p, types, es[i])
        /\ Fits(types, e, v)
        /\ ValueOf(p, types, e) = Result(types, e, v)
        /\ ValueOf(p, types, e) = TypeOf(p, types)[e]
    BY <2>1, <2>2, ExprValue
  <2>4. DOMAIN v = DOMAIN es /\ \A i \in DOMAIN es : v[i] = TypeOf(p, types)[es[i]]
    BY <2>2, ValuesWithin
  <2>5. Len(v) = Len(es) /\ v \in Seq(Range(v)) /\ DOMAIN v = 1 .. Len(es) /\ Len(es) \in Nat
    BY <2>2, ValuesSeq
  <2>6. \A i \in DOMAIN es : v[i] \in Solid
    BY <2>2, <2>3, <2>4, <1>2
  <2>7. v \in Seq(Solid)
    BY <2>4, <2>5, <2>6
  <2>8. Result(types, e, v) \in Solid
    BY <2>2, <2>3, <2>5, <2>7, ResultSolid
  <2> QED
    BY <2>3, <2>8
<1>3. ASSUME NEW k \in Nat, k \in S PROVE k + 1 \in S
  <2>1. SUFFICES ASSUME NEW e \in Exprs(p), Height(e) < k + 1 PROVE Right(e)
    OBVIOUS
  <2>2. \A i \in DOMAIN e.sub : e.sub[i] \in Exprs(p) /\ Height(e.sub[i]) < k
    BY <2>1, PartsBelow
  <2> HIDE DEF Right
  <2>3. \A i \in DOMAIN e.sub : Right(e.sub[i])
    BY <2>2, <1>3
  <2> QED
    BY <2>3, <1>2
<1>4. \A k \in Nat : k \in S
  <2> HIDE DEF S
  <2> QED
    BY <1>1, <1>3, NaturalInduction
<1>5. ASSUME NEW e \in Exprs(p) PROVE Right(e)
  <2>1. Tallest(p) + 1 \in Nat /\ Height(e) < Tallest(p) + 1
    BY HeightFacts
  <2>2. Tallest(p) + 1 \in S
    BY <2>1, <1>4
  <2> HIDE DEF Right
  <2> QED
    BY <2>1, <2>2
<1> QED
  BY <1>5

(* An expression that is well typed has a type. *)
LEMMA TypedIsKnown ==
  ASSUME NEW p \in Programs, TypesOf(types, p), Full(types),
         \A c \in 1 .. Len(types) : types[c].kind # "AUTO"
  PROVE  Known(p, types)
BY TypedIsSolid, PlainFacts DEF Known

-----------------------------------------------------------------------------
(***************************************************************************)
(* What the handlers conclude is what the typing rules say.                *)
(***************************************************************************)
(* A verdict on a node is that of the typing rules. *)
Judges(verdict, e, v) ==
  /\ verdict.bad <=> ~ Fits(types, e, v)
  /\ ~ verdict.bad => verdict.type = Result(types, e, v)

(* From plain types, the handlers conclude plain ones. *)
LEMMA RulePlain ==
  ASSUME NEW p \in Programs, TypesOf(types, p), NEW e \in Exprs(p),
         e.kind \notin {"FCALL", "ASSIGN"}, NEW v \in Seq(Plain), Len(v) = Len(e.sub),
         \A c \in 0 .. Len(types) : type_copy[c] \in Plain
  PROVE  Rule(e, v).type \in Plain
<1>1. ExprOK(e, p)
  BY ProgramsAssumption DEF Exprs
<1>2. \A i \in 1 .. Len(v) : v[i] \in Plain
  OBVIOUS
<1>3. /\ Integer \in Plain /\ Boolean \in Plain
      /\ <<"CHARACTER">> \in Plain /\ <<"STRING">> \in Plain
  BY SolidWords, SolidIsPlain
<1> USE DEF Literal, Arithmetic, Comparison, Step, Logical
<1>4. CASE e.kind \in Literal
  BY <1>3, <1>4 DEF Rule, Verdict
<1>5. CASE e.kind = "ID"
  <2>1. Rule(e, v).type = type_copy[e.val]
    BY <1>5 DEF Rule, Verdict
  <2>2. e.val \in 0 .. Len(types)
    BY <1>1, <1>5, TableFacts DEF ExprOK
  <2> QED
    BY <2>1, <2>2
<1>6. CASE e.kind \in Arithmetic \cup Step \cup Logical \cup Comparison \cup {"NEGATION", "NOT"}
  <2>1. Rule(e, v).type \in {Integer, Boolean}
    <3>1. CASE e.kind \in Step
      <4>1. PICK w : w = Demand(Integer, v, Integer)
        OBVIOUS
      <4>2. w = [type |-> w.type, bad |-> w.bad, crash |-> w.crash] /\ w.type = Integer
        BY <4>1 DEF Demand, Verdict
      <4>3. Rule(e, v) = [w EXCEPT !.bad = @ \/ ~ InMemory(e.sub[1])]
        BY <4>1, <3>1 DEF Rule
      <4> QED
        BY <4>2, <4>3
    <3>2. CASE e.kind \notin Step
      BY <1>6, <3>2 DEF Rule, Demand, Agree, Verdict
    <3> QED
      BY <3>1, <3>2
  <2> QED
    BY <2>1, <1>3
<1>7. CASE e.kind = "TERNARY1"
  <2>1. Rule(e, v).type = v[2]
    BY <1>7 DEF Rule, Verdict
  <2> QED
    BY <2>1, <1>1, <1>2, <1>7 DEF ExprOK
<1>8. CASE e.kind = "INDEX"
  <2>1. Rule(e, v) = Indexed(v[1], v[2])
    BY <1>8 DEF Rule
  <2>2. Rule(e, v).type = IF Kind(v[1]) = "ARRAY" THEN ElementType(v[1]) ELSE v[1]
    BY <2>1 DEF Indexed, Verdict
  <2>3. v[1] \in Plain
    BY <1>1, <1>2, <1>8 DEF ExprOK
  <2> QED
    BY <2>2, <2>3, SolidArrays
<1>9. CASE e.kind \in {"BRACE", "ARG"}
  <2>1. e.sub # <<>> /\ ToString(Len(e.sub)) \in STRING \ {"NULL", NoSize}
        /\ e.sub \in Seq(Exprs(p))
    BY <1>1, <1>9 DEF ExprOK, Exprs
  <2>2. v[1] \in Plain /\ Kind(v[1]) # "AUTO"
    BY <2>1, <1>2, EmptySeq, PlainFacts
  <2>3. Rule(e, v) = Row(v) \/ Rule(e, v) = Rows(v) \/ Rule(e, v) = List(v)
    BY <1>9 DEF Rule
  <2>4. Rule(e, v).type \in {v[1], ArrayOf(v[1], Len(v))}
    <3>1. Row(v).type = ArrayOf(v[1], Len(v))
      BY <2>2 DEF Row, Verdict
    <3>2. Rows(v).type \in {v[1], ArrayOf(v[1], Len(v))}
      BY <2>2 DEF Rows, Verdict
    <3>3. List(v).type = v[1]
      BY <2>2 DEF List, Verdict
    <3> QED
      BY <2>3, <3>1, <3>2, <3>3
  <2>5. ArrayOf(v[1], Len(v)) \in Plain
    BY <2>1, <2>2, SolidArrays
  <2> QED
    BY <2>2, <2>4, <2>5
<1>10. CASE e.kind = "GROUP"
  <2>1. Rule(e, v).type = v[1]
    BY <1>10 DEF Rule, Verdict
  <2> QED
    BY <2>1, <1>1, <1>2, <1>10 DEF ExprOK
<1>11. e.kind \in ExprKinds
  BY <1>1 DEF ExprOK
<1> QED
  BY <1>4, <1>5, <1>6, <1>7, <1>8, <1>9, <1>10, <1>11 DEF ExprKinds, Leaf

(* Comparisons and demands, by what they say of the operands. *)
LEMMA DemandJudges ==
  ASSUME NEW want, NEW v, NEW result
  PROVE  /\ Demand(want, v, result).bad <=> ~ All(v, want)
         /\ Demand(want, v, result).type = result
<1>1. (Demand(want, v, result).bad <=> Wrong(want, v)) /\ Demand(want, v, result).type = result
  BY DEF Demand, Verdict
<1>2. Wrong(want, v) <=> ~ All(v, want)
  BY Zenon DEF Wrong, All
<1> QED
  BY <1>1, <1>2, Zenon

(* What Agree says of two types. *)
LEMMA AgreeJudges ==
  ASSUME NEW a, NEW b, NEW bad, NEW result
  PROVE  /\ Agree(a, b, bad, result).bad <=> bad \/ a # b
         /\ Agree(a, b, bad, result).type = result
BY DEF Agree, Verdict

(* Unless it crashes, a handler finds an error exactly when the operands   *)
(* do not fit, and otherwise returns the type that the rules give.         *)
LEMMA RuleJudges ==
  ASSUME NEW p \in Programs, TypesOf(types, p), NEW e \in Exprs(p),
         e.kind \notin {"FCALL", "ASSIGN"}, NEW v \in Seq(Plain), Len(v) = Len(e.sub),
         ~ Rule(e, v).crash
  PROVE  Judges(Rule(e, v), e, v)
<1>1. ExprOK(e, p)
  BY ProgramsAssumption DEF Exprs
<1>2. DOMAIN v = 1 .. Len(v) /\ \A i \in DOMAIN v : Kind(v[i]) # "AUTO"
  <2>1. DOMAIN v = 1 .. Len(v) /\ \A i \in DOMAIN v : v[i] \in Plain
    OBVIOUS
  <2> QED
    BY <2>1, PlainFacts
<1>3. PICK r : r = Rule(e, v)
  OBVIOUS
<1>4. SUFFICES /\ r.bad <=> ~ Fits(types, e, v)
               /\ ~ r.bad => r.type = Result(types, e, v)
  BY <1>3 DEF Judges
<1> USE DEF Literal, Arithmetic, Comparison, Step, Logical
<1>5. CASE e.kind \in Literal
  <2>1. PICK t : t = LiteralType[e.kind]
    OBVIOUS
  <2>2. r.type = t /\ ~ r.bad
    BY <1>3, <1>5, <2>1 DEF Rule, Verdict, LiteralType
  <2>3. Fits(types, e, v) /\ Result(types, e, v) = t
    BY <1>5, <2>1 DEF Fits, Result
  <2> QED
    BY <2>2, <2>3
<1>6. CASE e.kind = "ID"
  <2>1. r = Verdict(type_copy[e.val], FALSE, e.val = 0)
    BY <1>3, <1>6 DEF Rule
  <2>2. r.type = type_copy[e.val] /\ ~ r.bad /\ (r.crash = (e.val = 0))
    BY <2>1 DEF Verdict
  <2>3. Fits(types, e, v) <=> e.val # 0
    BY <1>6 DEF Fits
  <2>4. Result(types, e, v) = Copies(types)[e.val]
    BY <1>6 DEF Result
  <2> QED
    BY <2>2, <2>3, <2>4, <1>3 DEF type_copy
<1>7. CASE e.kind \in Arithmetic \cup {"NEGATION"}
  <2>1. r = Demand(Integer, v, Integer)
    BY <1>3, <1>7 DEF Rule
  <2>2. (Fits(types, e, v) <=> All(v, Integer)) /\ Result(types, e, v) = Integer
    BY <1>7 DEF Fits, Result
  <2> QED
    BY <2>1, <2>2, DemandJudges
<1>8. CASE e.kind \in Step
  <2>1. PICK w, b : w = Demand(Integer, v, Integer) /\ b = (w.bad \/ ~ InMemory(e.sub[1]))
    OBVIOUS
  <2>2. w = [type |-> w.type, bad |-> w.bad, crash |-> w.crash]
    BY <2>1 DEF Demand, Verdict
  <2>3. r = [w EXCEPT !.bad = @ \/ ~ InMemory(e.sub[1])]
    BY <1>3, <1>8, <2>1 DEF Rule
  <2>4. r.bad = b /\ r.type = w.type
    <3>1. r = [w EXCEPT !.bad = b]
      BY <2>1, <2>3, Zenon
    <3> QED
      BY <2>2, <3>1
  <2>5. /\ Fits(types, e, v) <=> All(v, Integer) /\ InMemory(e.sub[1])
        /\ Result(types, e, v) = Integer
    BY <1>8 DEF Fits, Result
  <2>6. (w.bad <=> ~ All(v, Integer)) /\ w.type = Integer
    BY <2>1, DemandJudges
  <2> QED
    BY <2>1, <2>4, <2>5, <2>6, Zenon
<1>9. CASE e.kind \in Logical \cup {"NOT"}
  <2>1. r = Demand(Boolean, v, Boolean)
    BY <1>3, <1>9 DEF Rule
  <2>2. (Fits(types, e, v) <=> All(v, Boolean)) /\ Result(types, e, v) = Boolean
    BY <1>9 DEF Fits, Result
  <2> QED
    BY <2>1, <2>2, DemandJudges
<1>10. CASE e.kind \in {"EQ", "NOT_EQ"}
  <2>1. r = Agree(v[1], v[2], Kind(v[1]) \in Unusable \cup {"ARRAY"}, Boolean)
    BY <1>3, <1>10 DEF Rule
  <2>2. /\ Fits(types, e, v) <=> v[1] = v[2] /\ Storable(v[1]) /\ Kind(v[1]) # "ARRAY"
        /\ Result(types, e, v) = Boolean
    BY <1>10 DEF Fits, Result
  <2>3. /\ r.bad <=> Kind(v[1]) \in Unusable \cup {"ARRAY"} \/ v[1] # v[2]
        /\ r.type = Boolean
    BY <2>1 DEF Agree, Verdict
  <2> QED
    BY <2>2, <2>3 DEF Storable
<1>11. CASE e.kind \in Comparison \ {"EQ", "NOT_EQ"}
  <2>1. r = Demand(Integer, v, Boolean)
    BY <1>3, <1>11 DEF Rule
  <2>2. (Fits(types, e, v) <=> All(v, Integer)) /\ Result(types, e, v) = Boolean
    BY <1>11 DEF Fits, Result
  <2> QED
    BY <2>1, <2>2, DemandJudges
<1>12. CASE e.kind = "TERNARY1"
  <2>1. PICK test : test = Demand(Boolean, <<v[1]>>, Boolean)
    OBVIOUS
  <2>2. PICK arms : arms = Agree(v[2], v[3], Kind(v[2]) \in Unusable, v[2])
    OBVIOUS
  <2>3. r = Verdict(v[2], test.bad \/ arms.bad, test.crash \/ arms.crash)
    BY <1>3, <1>12, <2>1, <2>2 DEF Rule
  <2>4. r.type = v[2] /\ (r.bad <=> test.bad \/ arms.bad)
    BY <2>3 DEF Verdict
  <2>5. test.bad <=> v[1] # Boolean
    <3>1. PICK u : u = <<v[1]>>
      OBVIOUS
    <3>2. test.bad <=> ~ All(u, Boolean)
      BY <2>1, <3>1, DemandJudges, Zenon
    <3>3. All(u, Boolean) <=> v[1] = Boolean
      BY <3>1 DEF All
    <3> QED
      BY <3>2, <3>3
  <2>6. arms.bad <=> Kind(v[2]) \in Unusable \/ v[2] # v[3]
    BY <2>2 DEF Agree, Verdict
  <2>7. /\ Fits(types, e, v) <=> v[1] = Boolean /\ v[2] = v[3] /\ Storable(v[2])
        /\ Result(types, e, v) = v[2]
    BY <1>12 DEF Fits, Result
  <2> QED
    BY <2>4, <2>5, <2>6, <2>7 DEF Storable
<1>13. CASE e.kind = "INDEX"
  <2>1. r = Indexed(v[1], v[2])
    BY <1>3, <1>13 DEF Rule
  <2>2. /\ Fits(types, e, v) <=> Kind(v[1]) = "ARRAY" /\ v[2] = Integer
        /\ Result(types, e, v) = ElementType(v[1])
    BY <1>13 DEF Fits, Result
  <2>3. CASE Kind(v[1]) = "ARRAY"
    <3>1. r = Verdict(ElementType(v[1]), v[2] # Integer, v[2] # Integer /\ Unprintable({v[2]}))
      BY <2>1, <2>3 DEF Indexed
    <3>2. r.type = ElementType(v[1]) /\ (r.bad <=> v[2] # Integer)
      BY <3>1 DEF Verdict
    <3> QED
      BY <2>2, <2>3, <3>2
  <2>4. CASE Kind(v[1]) # "ARRAY"
    <3>1. r = Verdict(v[1], TRUE, Unprintable({v[1]}))
      BY <2>1, <2>4 DEF Indexed
    <3>2. r.bad
      BY <3>1 DEF Verdict
    <3> QED
      BY <2>2, <2>4, <3>2
  <2> QED
    BY <2>3, <2>4
<1>14. CASE e.kind \in {"BRACE", "ARG"}
  <2>1. e.sub # <<>> /\ e.sub \in Seq(Exprs(p))
    BY <1>1, <1>14 DEF ExprOK, Exprs
  <2>2. 1 \in DOMAIN v
    BY <2>1, <1>2, EmptySeq
  <2>3. Kind(v[1]) # "AUTO" /\ ~ \E i \in DOMAIN v : Kind(v[i]) = "AUTO"
    BY <2>2, <1>2
  <2>4. CASE e.kind = "BRACE" /\ e.val # "rows"
    <3>1. r = Row(v)
      BY <1>3, <2>4 DEF Rule
    <3>2. /\ r.type = ArrayOf(IF Kind(v[1]) = "AUTO" THEN Integer ELSE v[1], Len(v))
          /\ r.bad <=> ((\E i \in DOMAIN v : Kind(v[i]) = "AUTO") \/ Kind(v[1]) \in Unusable)
      BY <3>1 DEF Row, Verdict
    <3>3. r.type = ArrayOf(v[1], Len(v)) /\ (r.bad <=> Kind(v[1]) \in Unusable)
      BY <3>2, <2>3
    <3>4. Fits(types, e, v) <=> Storable(v[1])
      BY <2>3, <2>4 DEF Fits
    <3>5. Result(types, e, v) = ArrayOf(v[1], Len(v))
      BY <2>4 DEF Result
    <3> QED
      BY <3>3, <3>4, <3>5 DEF Storable
  <2>5. CASE e.kind = "BRACE" /\ e.val = "rows"
    <3>1. r = Rows(v)
      BY <1>3, <2>5 DEF Rule
    <3>2. /\ r.type = IF Len(v) = 1 THEN v[1] ELSE ArrayOf(v[1], Len(v))
          /\ r.bad <=> (\E i \in DOMAIN v : v[i] # v[1])
      BY <3>1 DEF Rows, Verdict
    <3>3. Fits(types, e, v) <=> All(v, v[1])
      BY <2>5 DEF Fits
    <3>4. Result(types, e, v) = IF Len(v) = 1 THEN v[1] ELSE ArrayOf(v[1], Len(v))
      BY <2>5 DEF Result
    <3> QED
      BY <3>2, <3>3, <3>4 DEF All
  <2>6. CASE e.kind = "ARG"
    <3>1. r = List(v)
      BY <1>3, <2>6 DEF Rule
    <3>2. /\ r.type = IF Kind(v[1]) = "AUTO" THEN Integer ELSE v[1]
          /\ r.bad <=> (\E i \in DOMAIN v : Kind(v[i]) = "AUTO")
      BY <3>1 DEF List, Verdict
    <3>3. Fits(types, e, v)
      BY <2>3, <2>6 DEF Fits
    <3>4. Result(types, e, v) = v[1]
      BY <2>6 DEF Result
    <3> QED
      BY <3>2, <3>3, <3>4, <2>3
  <2> QED
    BY <1>14, <2>4, <2>5, <2>6
<1>15. CASE e.kind = "GROUP"
  <2>1. r = Verdict(v[1], FALSE, FALSE)
    BY <1>3, <1>15 DEF Rule
  <2>2. r.type = v[1] /\ ~ r.bad
    BY <2>1 DEF Verdict
  <2>3. Fits(types, e, v) /\ Result(types, e, v) = v[1]
    BY <1>15 DEF Fits, Result
  <2> QED
    BY <2>2, <2>3
<1>16. e.kind \in ExprKinds
  BY <1>1 DEF ExprOK
<1> QED
  BY <1>5, <1>6, <1>7, <1>8, <1>9, <1>10, <1>11, <1>12, <1>13, <1>14, <1>15, <1>16 DEF ExprKinds, Leaf

-----------------------------------------------------------------------------
(***************************************************************************)
(* The invariant.                                                          *)
(***************************************************************************)

(***************************************************************************)
(* What the walk will find, while nothing is auto: an error was found only *)
(* in a program that breaks a rule, and while none was found the program   *)
(* breaks one exactly when the calls that remain will find one.            *)
(***************************************************************************)
Judged(p, table, td, w, err) ==
  /\ err => ~ WellTyped(p, table)
  /\ ~ err => (WellTyped(p, table) <=> Passes(p, table, td, w))

PlainCall(c) == c.do = "call" => c.arg.type \in Plain /\ c.arg.result \in Plain
PlainCalls(td) == \A k \in 1 .. Len(td) : PlainCall(td[k])

Exact ==
  status = "running" /\ WithoutAuto =>
    /\ types = ast_head.types
    /\ values \in Seq(Plain)
    /\ PlainCalls(todo)
    /\ Judged(ast_head, types, todo, values, type_err)

(* Runs of a list of calls, by its first. *)
LEMMA GoodFirst ==
  ASSUME NEW p, NEW table, NEW S, NEW c \in S, NEW td \in Seq(S), NEW w
  PROVE  Passes(p, table, <<c>> \o td, w) <=>
           \E y : Makes(p, table, c, w, y) /\ Passes(p, table, td, y)
<1>1. PICK u \in Seq(S) : u = <<c>>
  BY Single
<1>2. \A x : Runs(p, table, u \o td, w, x) <=> \E y : Runs(p, table, u, w, y) /\ Runs(p, table, td, y, x)
  BY RunsThen
<1>3. \A y : Runs(p, table, u, w, y) <=> Makes(p, table, c, w, y)
  BY <1>1, RunsOne
<1> QED
  BY <1>1, <1>2, <1>3, Zenon DEF Passes

(* A call that returns: what remains is right exactly when it was, and the *)
(* call is.                                                                *)
LEMMA GoodPop ==
  ASSUME NEW p, NEW table, NEW S, NEW c \in S, NEW td \in Seq(S), NEW w,
         NEW u, u = Uses(c), u <= Len(w)
  PROVE  Passes(p, table, <<c>> \o td, w) <=>
           /\ Fine(p, table, c, Top(w, u))
           /\ Passes(p, table, td, OnTop(Below(w, u), Leaves(p, table, c, Top(w, u))))
<1>1. Passes(p, table, <<c>> \o td, w) <=>
           \E y : Makes(p, table, c, w, y) /\ Passes(p, table, td, y)
  BY GoodFirst
<1>2. \A y : Makes(p, table, c, w, y) <=>
               /\ Fine(p, table, c, Top(w, u))
               /\ y = OnTop(Below(w, u), Leaves(p, table, c, Top(w, u)))
  BY Zenon DEF Makes
<1> QED
  BY <1>1, <1>2, Zenon

(* A call that is replaced by the calls it makes. *)
LEMMA GoodPush ==
  ASSUME NEW p, NEW table, NEW S, NEW c \in S, NEW td \in Seq(S), NEW w,
         NEW T, NEW calls \in Seq(T), \A x : Runs(p, table, calls, w, x) <=> Makes(p, table, c, w, x)
  PROVE  Passes(p, table, calls \o td, w) <=> Passes(p, table, <<c>> \o td, w)
<1>1. Passes(p, table, <<c>> \o td, w) <=>
           \E y : Makes(p, table, c, w, y) /\ Passes(p, table, td, y)
  BY GoodFirst
<1>2. PICK U : U = S \cup T
  OBVIOUS
<1>3. calls \in Seq(U) /\ td \in Seq(U)
  BY <1>2, Widened
<1>4. \A x : Runs(p, table, calls \o td, w, x) <=> \E y : Runs(p, table, calls, w, y) /\ Runs(p, table, td, y, x)
  BY <1>3, RunsThen
<1> QED
  BY <1>1, <1>4, Zenon DEF Passes

(* What is there when a call is made. *)
LEMMA CallOfWalk ==
  ASSUME Inv, todo # <<>>
  PROVE  /\ ast_head \in Programs /\ TypesOf(types, ast_head)
         /\ Call \in Calls(ast_head) /\ Tail(todo) \in Seq(Calls(ast_head))
         /\ todo = <<Call>> \o Tail(todo)
         /\ \A k \in 1 .. Len(Tail(todo)) : k + 1 \in 1 .. Len(todo) /\ Tail(todo)[k] = todo[k + 1]
         /\ Call = todo[1] /\ 1 \in 1 .. Len(todo)
         /\ values \in Seq(TypeWords) /\ Len(values) \in Nat /\ Stack(values)
         /\ Uses(Call) \in Nat /\ Uses(Call) <= Len(values)
         /\ Before(Uses(Call)) = Below(values, Uses(Call)) /\ Latest(Uses(Call)) = Top(values, Uses(Call))
<1>1. /\ ast_head \in Programs /\ TypesOf(types, ast_head)
      /\ Call = todo[1] /\ Call \in Calls(ast_head)
      /\ Tail(todo) \in Seq(Calls(ast_head)) /\ values \in Seq(TypeWords)
  BY CallNow
<1>2. PICK h \in Seq(Nat), b \in Nat : Walk(ast_head, types, todo, values, h, b)
  BY CallNow
<1>3. todo \in Seq(Calls(ast_head)) /\ Heights(todo, Len(values), h, b)
  BY <1>2 DEF Walk
<1>4. /\ Tail(todo) \in Seq(Calls(ast_head)) /\ Len(Tail(todo)) = Len(todo) - 1 /\ Len(todo) \in Nat
      /\ \A i \in 1 .. Len(todo) - 1 : Tail(todo)[i] = todo[i + 1]
  BY <1>3, Rest
<1>5. Len(todo) # 0
  BY <1>3, EmptySeq
<1>6. \A k \in 1 .. Len(Tail(todo)) : k + 1 \in 1 .. Len(todo) /\ Tail(todo)[k] = todo[k + 1]
  BY <1>4
<1>7. 1 \in 1 .. Len(todo)
  BY <1>4, <1>5
<1>8. Uses(Call) <= Len(values) /\ Uses(Call) \in Nat
  <2>1. h[1] = Len(values) /\ h[1] >= Uses(todo[1]) /\ Len(values) \in Nat
    BY <1>1, <1>3, <1>7 DEF Heights
  <2>2. Uses(Call) \in Nat
    BY <1>1, CallCounts
  <2> QED
    BY <2>1, <2>2, <1>1
<1>9. Stack(values) /\ Len(values) \in Nat
  BY <1>1, Stacks
<1>10. todo = <<Call>> \o Tail(todo)
  <2>1. PICK q \in Seq(Calls(ast_head)) : q = todo /\ q # <<>>
    BY <1>3
  <2>2. PICK f \in Seq(Calls(ast_head)), t \in Seq(Calls(ast_head)), n \in Nat :
          f = <<q[1]>> /\ t = Tail(q) /\ n = Len(t)
    <3>1. PICK x \in Calls(ast_head) : x = q[1]
      BY <1>1, <2>1
    <3>2. <<x>> \in Seq(Calls(ast_head))
      BY Single
    <3> QED
      BY <3>1, <3>2, <1>4, <2>1, LenProperties
  <2>3. Len(f) = 1 /\ f[1] = q[1] /\ Len(q) = n + 1 /\ \A i \in 1 .. n : t[i] = q[i + 1]
    BY <2>1, <2>2, <1>4
  <2>4. PICK z : z = f \o t
    OBVIOUS
  <2>5. /\ z \in Seq(Calls(ast_head)) /\ Len(z) = Len(f) + Len(t)
        /\ \A k \in 1 .. Len(f) : z[k] = f[k]
        /\ \A k \in Len(f) + 1 .. Len(f) + Len(t) : z[k] = t[k - Len(f)]
    BY <2>4, Joined
  <2>6. \A k \in 1 .. n + 1 : z[k] = q[k]
    <3>1. TAKE k \in 1 .. n + 1
    <3>2. CASE k = 1
      BY <3>2, <2>3, <2>5
    <3>3. CASE k # 1
      <4>1. k \in Len(f) + 1 .. Len(f) + Len(t) /\ k - 1 \in 1 .. n /\ (k - 1) + 1 = k
        BY <3>3, <2>2, <2>3
      <4> QED
        BY <4>1, <2>3, <2>5
    <3> QED
      BY <3>2, <3>3
  <2>7. Len(z) = n + 1
    BY <2>2, <2>3, <2>5
  <2>8. z = q
    BY <2>3, <2>5, <2>6, <2>7, SeqEqual
  <2> QED
    BY <2>1, <2>2, <2>4, <2>8, <1>1
<1>11. Before(Uses(Call)) = Below(values, Uses(Call)) /\ Latest(Uses(Call)) = Top(values, Uses(Call))
  BY DEF Before, Below, Latest, Top
<1> QED
  BY <1>1, <1>4, <1>6, <1>7, <1>8, <1>9, <1>10, <1>11

(* The first call and the others. *)
LEMMA PlainTail ==
  ASSUME Inv, todo # <<>>, PlainCalls(todo)
  PROVE  PlainCalls(Tail(todo)) /\ PlainCall(Call)
BY CallOfWalk DEF PlainCalls

(* Below the operands, the types on the stack are plain, too. *)
LEMMA PlainStack ==
  ASSUME NEW S, NEW w \in Seq(S), NEW u \in Nat, u <= Len(w)
  PROVE  Below(w, u) \in Seq(S) /\ Top(w, u) \in Seq(S) /\ Len(Top(w, u)) = u
<1>1. PICK n \in Nat : n = Len(w)
  BY LenProperties
<1>2. \A i \in 1 .. n - u : w[i] \in S
  BY <1>1
<1>3. \A i \in n - u + 1 .. n : w[i] \in S
  BY <1>1
<1>4. SubSeq(w, 1, n - u) \in Seq(S)
  BY <1>1, <1>2, SubSeqProperties
<1>5. SubSeq(w, n - u + 1, n) \in Seq(S)
      /\ Len(SubSeq(w, n - u + 1, n)) = IF n - u + 1 <= n THEN n - (n - u + 1) + 1 ELSE 0
  BY <1>1, <1>3, SubSeqProperties
<1> QED
  BY <1>1, <1>4, <1>5 DEF Below, Top

(* A call that returns. *)
LEMMA PopExact ==
  ASSUME Inv, Exact, todo # <<>>, status = "running", WithoutAuto,
         UNCHANGED <<ast_head, types>>,
         NEW bad, type_err' = (type_err \/ bad),
         NEW r \in Seq(Plain), values' = OnTop(Below(values, Uses(Call)), r),
         todo' = Tail(todo),
         bad <=> ~ Fine(ast_head, types, Call, Top(values, Uses(Call))),
         ~ bad => r = Leaves(ast_head, types, Call, Top(values, Uses(Call)))
  PROVE  Exact'
<1>1. PICK p, table, c, td, w, u :
        /\ p = ast_head /\ table = types /\ c = Call /\ td = Tail(todo) /\ w = values
        /\ u = Uses(Call)
  OBVIOUS
<1>2. /\ c \in Calls(p) /\ td \in Seq(Calls(p)) /\ todo = <<c>> \o td
      /\ u = Uses(c) /\ u <= Len(w) /\ u \in Nat
  BY <1>1, CallOfWalk, Zenon
<1>3. Passes(p, table, <<c>> \o td, w) <=>
           /\ Fine(p, table, c, Top(w, u))
           /\ Passes(p, table, td, OnTop(Below(w, u), Leaves(p, table, c, Top(w, u))))
  BY <1>2, GoodPop
<1>4. /\ type_err => ~ WellTyped(p, table)
      /\ ~ type_err => (WellTyped(p, table) <=> Passes(p, table, <<c>> \o td, w))
  <2>1. Judged(ast_head, types, todo, values, type_err)
    BY DEF Exact
  <2> QED
    BY <2>1, <1>1, <1>2, Zenon DEF Judged
<1>5. bad <=> ~ Fine(p, table, c, Top(w, u))
  BY <1>1, Zenon
<1>6. ~ bad => r = Leaves(p, table, c, Top(w, u))
  BY <1>1, Zenon
<1>7. Judged(p, table, td, OnTop(Below(w, u), r), type_err \/ bad)
  BY <1>3, <1>4, <1>5, <1>6, Zenon DEF Judged
<1>8. Judged(ast_head, types, todo, values, type_err)'
  BY <1>7, <1>1, Zenon
<1>9. values' \in Seq(Plain)
  <2>1. w \in Seq(Plain)
    BY <1>1 DEF Exact
  <2>2. Below(w, u) \in Seq(Plain)
    BY <2>1, <1>2, PlainStack
  <2>3. Below(w, u) \o r \in Seq(Plain)
    BY <2>2
  <2> QED
    BY <2>3, <1>1 DEF OnTop
<1>10. PlainCalls(todo')
  BY PlainTail DEF Exact
<1>11. types' = ast_head'.types
  BY DEF Exact
<1> QED
  BY <1>8, <1>9, <1>10, <1>11 DEF Exact

(* A call that makes others. *)
LEMMA PushExact ==
  ASSUME Inv, Exact, todo # <<>>, status = "running", WithoutAuto,
         UNCHANGED <<ast_head, types, values>>,
         NEW bad, type_err' = (type_err \/ bad),
         NEW T, NEW calls \in Seq(T), todo' = calls \o Tail(todo), PlainCalls(calls),
         bad => \A x : ~ Makes(ast_head, types, Call, values, x),
         ~ bad => \A x : Runs(ast_head, types, calls, values, x)
                           <=> Makes(ast_head, types, Call, values, x)
  PROVE  Exact'
<1>1. PICK p, table, c, td, w :
        /\ p = ast_head /\ table = types /\ c = Call /\ td = Tail(todo) /\ w = values
  OBVIOUS
<1>2. c \in Calls(p) /\ td \in Seq(Calls(p)) /\ todo = <<c>> \o td
  BY <1>1, CallOfWalk, Zenon
<1>3. Passes(p, table, <<c>> \o td, w) <=>
           \E y : Makes(p, table, c, w, y) /\ Passes(p, table, td, y)
  BY <1>2, GoodFirst
<1>4. /\ type_err => ~ WellTyped(p, table)
      /\ ~ type_err => (WellTyped(p, table) <=> Passes(p, table, <<c>> \o td, w))
  <2>1. Judged(ast_head, types, todo, values, type_err)
    BY DEF Exact
  <2> QED
    BY <2>1, <1>1, <1>2, Zenon DEF Judged
<1>5. bad => ~ Passes(p, table, <<c>> \o td, w)
  BY <1>1, <1>3, Zenon
<1>6. ~ bad => (Passes(p, table, calls \o td, w) <=> Passes(p, table, <<c>> \o td, w))
  <2>1. SUFFICES ASSUME ~ bad
                 PROVE  Passes(p, table, calls \o td, w) <=> Passes(p, table, <<c>> \o td, w)
    OBVIOUS
  <2>2. \A x : Runs(p, table, calls, w, x) <=> Makes(p, table, c, w, x)
    BY <2>1, <1>1, Zenon
  <2> QED
    BY <2>2, <1>2, GoodPush
<1>7. Judged(p, table, calls \o td, w, type_err \/ bad)
  BY <1>4, <1>5, <1>6, Zenon DEF Judged
<1>8. Judged(ast_head, types, todo, values, type_err)'
  BY <1>7, <1>1, Zenon
<1>9. PlainCalls(todo')
  <2>1. PICK U : U = T \cup Calls(p)
    OBVIOUS
  <2>2. calls \in Seq(U) /\ td \in Seq(U)
    BY <2>1, <1>2, Widened
  <2>3. PICK z : z = calls \o td
    OBVIOUS
  <2>4. /\ Len(z) = Len(calls) + Len(td) /\ Len(calls) \in Nat /\ Len(td) \in Nat
        /\ \A k \in 1 .. Len(calls) : z[k] = calls[k]
        /\ \A k \in Len(calls) + 1 .. Len(calls) + Len(td) : z[k] = td[k - Len(calls)]
    BY <2>2, <2>3, Joined, LenProperties
  <2>5. PlainCalls(td)
    BY <1>1, PlainTail DEF Exact
  <2>6. \A k \in 1 .. Len(z) : PlainCall(z[k])
    <3>1. TAKE k \in 1 .. Len(z)
    <3>2. CASE k <= Len(calls)
      <4>1. k \in 1 .. Len(calls)
        BY <3>2, <2>4
      <4> QED
        BY <4>1, <2>4 DEF PlainCalls
    <3>3. CASE ~ (k <= Len(calls))
      <4>1. k - Len(calls) \in 1 .. Len(td) /\ k \in Len(calls) + 1 .. Len(calls) + Len(td)
        BY <3>3, <2>4
      <4> QED
        BY <4>1, <2>4, <2>5 DEF PlainCalls
    <3> QED
      BY <3>2, <3>3
  <2> QED
    BY <2>3, <2>6, <1>1 DEF PlainCalls
<1>10. types' = ast_head'.types /\ values' \in Seq(Plain)
  BY DEF Exact
<1> QED
  BY <1>8, <1>9, <1>10 DEF Exact

-----------------------------------------------------------------------------
(***************************************************************************)
(* The handlers, one by one, while nothing is auto.                        *)
(***************************************************************************)

(* While nothing is auto, the table is the one of the program, and no type *)
(* in it is missing or auto.                                               *)
LEMMA AutoFree ==
  ASSUME Inv, Exact, status = "running", WithoutAuto
  PROVE  /\ types = ast_head.types /\ ast_head \in Programs
         /\ TypesOf(types, ast_head) /\ Full(types)
         /\ \A c \in 1 .. Len(types) : types[c].kind # "AUTO"
         /\ \A c \in 0 .. Len(types) : type_copy[c] \in Plain
         /\ Known(ast_head, types)
         /\ values \in Seq(Plain)
<1>1. PICK p : p = ast_head
  OBVIOUS
<1>2. types = p.types /\ values \in Seq(Plain)
  BY <1>1 DEF Exact
<1>3. p \in Programs /\ TypesOf(types, p)
  <2>1. PICK h \in Seq(Nat), b \in Nat : Walk(ast_head, types, todo, values, h, b)
    BY DEF Inv, WalkInv
  <2> QED
    BY <2>1, <1>1 DEF Inv, Walk
<1>4. DOMAIN types = 1 .. Len(types)
  BY <1>3, TableFacts
<1>5. \A c \in 1 .. Len(types) : types[c].kind # "AUTO"
  BY <1>1, <1>2, <1>4 DEF WithoutAuto
<1>6. Full(types)
  <2>1. TableOK(types)
    BY <1>2, <1>3, ProgramsAssumption
  <2>2. \A c \in 1 .. Len(types) : types[c].sub = 0 <=> types[c].kind \in Simple
    BY <2>1, <1>4 DEF TableOK
  <2> QED
    BY <2>2 DEF Full, Simple
<1>7. \A c \in 1 .. Len(types) : type_copy[c] \in Solid
  BY <1>3, <1>5, <1>6, CopyIsSolid
<1>8. type_copy[0] = NULL
  BY <1>3, CopyFacts
<1>9. \A c \in 0 .. Len(types) : type_copy[c] \in Plain
  <2>1. TAKE c \in 0 .. Len(types)
  <2>2. CASE c = 0
    BY <2>2, <1>8, SolidIsPlain
  <2>3. CASE c # 0
    <3>1. Len(types) \in Nat
      BY <1>3, TableFacts
    <3>2. c \in 1 .. Len(types)
      BY <3>1, <2>3
    <3> QED
      BY <3>2, <1>7, SolidIsPlain
  <2> QED
    BY <2>2, <2>3
<1>10. Known(p, types)
  BY <1>3, <1>5, <1>6, TypedIsKnown
<1> QED
  BY <1>1, <1>2, <1>3, <1>5, <1>6, <1>9, <1>10

(* A handler that concludes. *)
LEMMA ConcludeExact ==
  ASSUME Inv, Exact, todo # <<>>, status = "running", UNCHANGED ast_head,
         NEW n, n = Uses(Call), NEW verdict, NEW r, Conclude(n, verdict, r),
         WithoutAuto /\ ~ verdict.crash =>
           /\ types' = types /\ r \in Seq(Plain)
           /\ verdict.bad <=> ~ Fine(ast_head, types, Call, Latest(n))
           /\ ~ verdict.bad => r = Leaves(ast_head, types, Call, Latest(n))
  PROVE  Exact'
<1>1. CASE verdict.crash
  <2>1. status' = "crashed"
    BY <1>1 DEF Conclude
  <2> QED
    BY <2>1 DEF Exact
<1>2. CASE ~ WithoutAuto
  <2>1. ~ WithoutAuto'
    BY <1>2 DEF WithoutAuto
  <2> QED
    BY <2>1 DEF Exact
<1>3. CASE ~ verdict.crash /\ WithoutAuto
  <2>1. PICK bad : bad = verdict.bad
    OBVIOUS
  <2>2. /\ types' = types /\ r \in Seq(Plain)
        /\ bad <=> ~ Fine(ast_head, types, Call, Latest(n))
        /\ ~ bad => r = Leaves(ast_head, types, Call, Latest(n))
    BY <1>3, <2>1
  <2>3. type_err' = (type_err \/ bad) /\ values' = Before(n) \o r /\ Replace(<<>>)
    BY <1>3, <2>1 DEF Conclude
  <2>4. todo' = Tail(todo)
    BY <2>3, CallNow DEF Replace
  <2>5. Before(n) = Below(values, Uses(Call)) /\ Latest(n) = Top(values, Uses(Call))
    BY CallOfWalk
  <2>6. values' = OnTop(Below(values, Uses(Call)), r)
    BY <2>3, <2>5 DEF OnTop
  <2>7. /\ bad <=> ~ Fine(ast_head, types, Call, Top(values, Uses(Call)))
        /\ ~ bad => r = Leaves(ast_head, types, Call, Top(values, Uses(Call)))
    BY <2>2, <2>5
  <2>8. UNCHANGED <<ast_head, types>>
    BY <2>2
  <2> QED
    BY <1>3, <2>2, <2>3, <2>4, <2>6, <2>7, <2>8, PopExact
<1> QED
  BY <1>1, <1>2, <1>3

(* What a call finds and leaves, by its kind. *)
LEMMA FineCases ==
  ASSUME NEW p, NEW table, NEW c, NEW v
  PROVE  /\ c.do = "expr" => (Fine(p, table, c, v) <=> Typed(p, table, c.arg))
         /\ c.do = "node" => (Fine(p, table, c, v) <=> Fits(table, c.arg, v))
         /\ c.do = "arguments" => (Fine(p, table, c, v) <=> \A i \in DOMAIN v : Kind(v[i]) # "AUTO")
         /\ c.do = "call" => (Fine(p, table, c, v) <=>
              Kind(c.arg.type) = "FUNCTION" /\ Matches(p, table, c.arg.args, c.arg.params))
         /\ c.do = "argument" => (Fine(p, table, c, v) <=> v[1] = c.arg /\ Storable(v[1]))
         /\ c.do = "condition" => (Fine(p, table, c, v) <=> v[1] = Boolean)
         /\ c.do = "return" => (Fine(p, table, c, v) <=> ReturnFits(table, v[1], c.arg))
         /\ c.do = "initial" => (Fine(p, table, c, v) <=> InitialFits(p, table, v[1], c.arg))
         /\ c.do = "decl" => (Fine(p, table, c, v) <=> DeclTyped(p, table, c.arg))
         /\ c.do \in {"loop", "forget"} => (Fine(p, table, c, v) <=> TRUE)
BY DEF Fine

(* What a call leaves, by its kind. *)
LEMMA LeavesCases ==
  ASSUME NEW p, NEW table, NEW c, NEW v
  PROVE  /\ c.do = "expr" => Leaves(p, table, c, v) = <<ValueOf(p, table, c.arg)>>
         /\ c.do = "node" => Leaves(p, table, c, v) = <<Result(table, c.arg, v)>>
         /\ c.do = "call" => Leaves(p, table, c, v) = <<c.arg.result>>
         /\ c.do \notin {"expr", "node", "call"} => Leaves(p, table, c, v) = <<>>
BY DEF Leaves

(* The types that a call takes are not auto. *)
LEMMA PlainLatest ==
  ASSUME Inv, todo # <<>>, NEW n, n = Uses(Call), values \in Seq(Plain)
  PROVE  Latest(n) \in Seq(Plain) /\ Len(Latest(n)) = n /\ n \in Nat
<1>1. Uses(Call) \in Nat /\ Uses(Call) <= Len(values) /\ Latest(Uses(Call)) = Top(values, Uses(Call))
  BY CallOfWalk
<1>2. PICK w \in Seq(Plain), u \in Nat : w = values /\ u = n /\ u <= Len(w)
  BY <1>1
<1>3. Top(w, u) \in Seq(Plain) /\ Len(Top(w, u)) = u
  BY <1>2, PlainStack
<1> QED
  BY <1>1, <1>2, <1>3

(* What an expression that is to be checked is. *)
LEMMA ExprCall ==
  ASSUME Inv, todo # <<>>, Call.do \in {"expr", "node"}, Call.arg.kind # "NONE"
  PROVE  /\ Call.arg \in Exprs(ast_head) /\ ast_head \in Programs
         /\ Call = Do(Call.do, Call.arg)
         /\ Call.do = "node" => Uses(Call) = Len(Call.arg.sub)
         /\ Call.do = "expr" => Uses(Call) = 0
<1>1. ast_head \in Programs /\ Call \in Calls(ast_head)
  BY CallNow
<1>2. Call.arg \in Exprs(ast_head) \cup {None} /\ Call = Do(Call.do, Call.arg)
  BY <1>1, CallForms
<1>3. None.kind = "NONE"
  BY DEF None, Node
<1>4. Call.arg \in Exprs(ast_head)
  <2>1. Call.arg # None
    BY <1>3
  <2> QED
    BY <1>2, <2>1
<1>5. /\ Call.do = "node" => Uses(Call) = Len(Call.arg.sub)
      /\ Call.do = "expr" => Uses(Call) = 0
  BY <1>1, CallCounts
<1> QED
  BY <1>1, <1>2, <1>4, <1>5

(* No expression has no error. *)
LEMMA SkipNullExact ==
  ASSUME Inv, Exact, SkipNull
  PROVE  Exact'
<1>1. /\ status = "running" /\ todo # <<>> /\ Call.do = "expr" /\ Call.arg.kind = "NONE"
      /\ values' = Append(values, NULL) /\ Replace(<<>>)
      /\ UNCHANGED <<ast_head, types, type_err, status>>
  BY DEF SkipNull, Ready, Quietly
<1>2. CASE ~ WithoutAuto
  <2>1. ~ WithoutAuto'
    BY <1>1, <1>2 DEF WithoutAuto
  <2> QED
    BY <2>1 DEF Exact
<1>3. CASE WithoutAuto
  <2>1. Uses(Call) = 0
    BY <1>1, CallNow, CallCounts
  <2>2. PICK r \in Seq(Plain) : r = <<NULL>>
    BY SolidIsPlain, Single
  <2>3. values' = OnTop(Below(values, Uses(Call)), r)
    <3>1. Before(Uses(Call)) = Below(values, Uses(Call))
      BY <1>1, CallOfWalk
    <3>2. Append(values, NULL) = Before(0) \o <<NULL>>
      BY <1>1, Remaining
    <3> QED
      BY <3>1, <3>2, <2>1, <2>2, <1>1, Zenon DEF OnTop
  <2>4. PICK bad : bad = FALSE
    OBVIOUS
  <2>5. type_err' = (type_err \/ bad)
    BY <1>1, <2>4 DEF Inv
  <2>6. todo' = Tail(todo)
    BY <1>1, CallNow DEF Replace
  <2>7. Fine(ast_head, types, Call, Top(values, Uses(Call)))
    <3>1. Typed(ast_head, types, Call.arg)
      BY <1>1 DEF Typed
    <3> QED
      BY <3>1, <1>1, FineCases
  <2>8. r = Leaves(ast_head, types, Call, Top(values, Uses(Call)))
    <3>1. ValueOf(ast_head, types, Call.arg) = NULL
      BY <1>1 DEF ValueOf
    <3>2. Leaves(ast_head, types, Call, Top(values, Uses(Call))) = <<ValueOf(ast_head, types, Call.arg)>>
      BY <1>1, LeavesCases
    <3> QED
      BY <3>1, <3>2, <2>2
  <2>9. bad <=> ~ Fine(ast_head, types, Call, Top(values, Uses(Call)))
    BY <2>4, <2>7
  <2>10. UNCHANGED <<ast_head, types>>
    BY <1>1
  <2> QED
    BY <1>1, <1>3, <2>2, <2>3, <2>5, <2>6, <2>8, <2>9, <2>10, PopExact
<1> QED
  BY <1>2, <1>3

(* A call that is no function is plain, and so are lists of such.          *)
LEMMA NoCalls ==
  ASSUME NEW S, NEW td \in Seq(S), \A k \in DOMAIN td : td[k].do # "call"
  PROVE  PlainCalls(td)
BY DEF PlainCalls, PlainCall

(* Two lists of plain calls after each other. *)
LEMMA PlainJoined ==
  ASSUME NEW S, NEW T, NEW a \in Seq(S), NEW b \in Seq(T), PlainCalls(a), PlainCalls(b)
  PROVE  PlainCalls(a \o b)
<1>1. PICK U : U = S \cup T
  OBVIOUS
<1>2. a \in Seq(U) /\ b \in Seq(U)
  BY <1>1, Widened
<1>3. PICK z : z = a \o b
  OBVIOUS
<1>4. /\ Len(z) = Len(a) + Len(b) /\ Len(a) \in Nat /\ Len(b) \in Nat
      /\ \A k \in 1 .. Len(a) : z[k] = a[k]
      /\ \A k \in Len(a) + 1 .. Len(a) + Len(b) : z[k] = b[k - Len(a)]
  BY <1>2, <1>3, Joined, LenProperties
<1>5. \A k \in 1 .. Len(z) : PlainCall(z[k])
  <2>1. TAKE k \in 1 .. Len(z)
  <2>2. CASE k <= Len(a)
    <3>1. k \in 1 .. Len(a)
      BY <2>2, <1>4
    <3> QED
      BY <3>1, <1>4 DEF PlainCalls
  <2>3. CASE ~ (k <= Len(a))
    <3>1. k - Len(a) \in 1 .. Len(b) /\ k \in Len(a) + 1 .. Len(a) + Len(b)
      BY <2>3, <1>4
    <3> QED
      BY <3>1, <1>4 DEF PlainCalls
  <2> QED
    BY <2>2, <2>3
<1> QED
  BY <1>3, <1>5 DEF PlainCalls

(* The calls for expressions. *)
LEMMA PlainEach ==
  ASSUME NEW p, NEW a \in Seq(Exprs(p) \cup {None})
  PROVE  Each("expr", a) \in Seq(Calls(p)) /\ PlainCalls(Each("expr", a))
<1>1. PICK x : x = Each("expr", a)
  OBVIOUS
<1>2. x \in Seq(Calls(p)) /\ Len(x) = Len(a) /\ \A k \in 1 .. Len(a) : x[k] = Do("expr", a[k])
  BY <1>1, EachFacts
<1>3. \A k \in DOMAIN x : x[k].do = "expr"
  BY <1>2, DoFacts
<1> QED
  BY <1>1, <1>2, <1>3, NoCalls

(* A list of one plain call. *)
LEMMA PlainOne ==
  ASSUME NEW c, PlainCall(c)
  PROVE  <<c>> \in Seq({c}) /\ PlainCalls(<<c>>)
<1>1. PICK x : x = <<c>>
  OBVIOUS
<1>2. x \in Seq({c}) /\ Len(x) = 1 /\ x[1] = c
  BY <1>1, Single
<1>3. \A k \in 1 .. Len(x) : PlainCall(x[k])
  BY <1>2
<1> QED
  BY <1>1, <1>2, <1>3 DEF PlainCalls

(* The operands of an expression. *)
LEMMA DescendExact ==
  ASSUME Inv, Exact, Descend
  PROVE  Exact'
<1>1. PICK e :
        /\ e = Call.arg /\ status = "running" /\ todo # <<>> /\ Call.do = "expr"
        /\ e.kind \notin {"NONE", "FCALL"}
        /\ Replace(Each("expr", e.sub) \o <<Do("node", e)>>)
        /\ UNCHANGED values /\ Quietly
  BY DEF Descend, Ready
<1>2. CASE ~ WithoutAuto
  <2>1. ~ WithoutAuto'
    BY <1>1, <1>2 DEF WithoutAuto, Quietly
  <2> QED
    BY <2>1 DEF Exact
<1>3. CASE WithoutAuto
  <2>1. e \in Exprs(ast_head) /\ ast_head \in Programs /\ Call = Do("expr", e)
    BY <1>1, ExprCall
  <2>2. e.sub \in Seq(Exprs(ast_head) \cup {None})
    <3>1. e.sub \in Seq(Exprs(ast_head))
      BY <2>1, OperandFacts
    <3>2. Exprs(ast_head) \subseteq Exprs(ast_head) \cup {None}
      OBVIOUS
    <3> QED
      BY ONLY <3>1, <3>2, Widened
  <2>3. PICK a \in Seq(Calls(ast_head)) : a = Each("expr", e.sub) /\ PlainCalls(a)
    BY <2>2, PlainEach
  <2>4. PICK c : c = Do("node", e)
    OBVIOUS
  <2>5. PlainCall(c)
    BY <2>4, DoFacts DEF PlainCall
  <2>6. PICK b \in Seq({c}) : b = <<c>> /\ PlainCalls(b)
    BY <2>5, PlainOne
  <2>7. PICK calls : calls = a \o b
    OBVIOUS
  <2>8. PlainCalls(calls)
    BY <2>3, <2>6, <2>7, PlainJoined
  <2>9. PICK U : U = Calls(ast_head) \cup {c}
    OBVIOUS
  <2>10. calls \in Seq(U)
    <3>1. a \in Seq(U) /\ b \in Seq(U)
      BY <2>9, Widened
    <3> QED
      BY ONLY <3>1, <2>7, Joined
  <2>11. todo' = calls \o Tail(todo)
    BY <1>1, <2>3, <2>4, <2>6, <2>7, Zenon DEF Replace
  <2>12. Stack(values)
    BY <1>1, CallOfWalk
  <2>13. \A x : Runs(ast_head, types, calls, values, x) <=> Makes(ast_head, types, Call, values, x)
    <3>1. \A x : Runs(ast_head, types, Each("expr", e.sub) \o <<Do("node", e)>>, values, x)
                  <=> Makes(ast_head, types, Do("expr", e), values, x)
      BY <2>1, <2>12, DescendRuns
    <3> QED
      BY <3>1, <2>1, <2>3, <2>4, <2>6, <2>7, Zenon
  <2>14. PICK bad : bad = FALSE
    OBVIOUS
  <2>15. type_err' = (type_err \/ bad) /\ UNCHANGED <<ast_head, types, values>>
    BY <1>1, <2>14 DEF Inv, Quietly
  <2>16. bad => \A x : ~ Makes(ast_head, types, Call, values, x)
    BY <2>14
  <2> QED
    BY <1>1, <1>3, <2>8, <2>10, <2>11, <2>13, <2>15, <2>16, PushExact
<1> QED
  BY <1>2, <1>3

(* A node is right exactly when its operands fit. *)
LEMMA CheckNodeExact ==
  ASSUME Inv, Exact, CheckNode
  PROVE  Exact'
<1>1. PICK e, v, w :
        /\ e = Call.arg /\ v = Latest(Len(e.sub)) /\ w = Rule(e, v)
        /\ status = "running" /\ todo # <<>> /\ Call.do = "node" /\ e.kind # "ASSIGN"
        /\ Conclude(Len(e.sub), w, <<w.type>>)
        /\ UNCHANGED <<ast_head, types>>
  BY DEF CheckNode, Ready
<1>2. /\ ast_head \in Programs /\ Call \in Calls(ast_head)
  BY <1>1, CallNow
<1>3. e \in Exprs(ast_head) /\ e.kind # "FCALL"
  BY <1>1, <1>2, CallForms
<1>4. Uses(Call) = Len(e.sub)
  BY <1>1, <1>2, CallCounts
<1>5. PICK n, r : n = Len(e.sub) /\ r = <<w.type>>
  OBVIOUS
<1>6. ASSUME WithoutAuto, ~ w.crash
      PROVE  /\ types' = types /\ r \in Seq(Plain)
             /\ w.bad <=> ~ Fine(ast_head, types, Call, Latest(n))
             /\ ~ w.bad => r = Leaves(ast_head, types, Call, Latest(n))
  <2>1. /\ TypesOf(types, ast_head) /\ values \in Seq(Plain)
        /\ \A c \in 0 .. Len(types) : type_copy[c] \in Plain
    BY <1>1, <1>6, AutoFree
  <2>2. v \in Seq(Plain) /\ Len(v) = Len(e.sub)
    <3>1. Latest(n) \in Seq(Plain) /\ Len(Latest(n)) = n
      BY <2>1, <1>1, <1>4, <1>5, PlainLatest
    <3> QED
      BY <3>1, <1>1, <1>5
  <2>3. e.kind \notin {"FCALL", "ASSIGN"}
    BY <1>1, <1>3
  <2>4. Rule(e, v).type \in Plain
    BY <1>2, <1>3, <2>1, <2>2, <2>3, RulePlain
  <2>5. Judges(w, e, v)
    <3>1. ~ Rule(e, v).crash
      BY <1>1, <1>6
    <3>2. Judges(Rule(e, v), e, v)
      BY <1>2, <1>3, <2>1, <2>2, <2>3, <3>1, RuleJudges
    <3> QED
      BY <3>2, <1>1
  <2>6. r \in Seq(Plain)
    BY <2>4, <1>1, <1>5, Single
  <2>7. Latest(n) = v
    BY <1>1, <1>5
  <2>8. Fine(ast_head, types, Call, v) <=> Fits(types, e, v)
    BY <1>1, FineCases
  <2>9. Leaves(ast_head, types, Call, v) = <<Result(types, e, v)>>
    BY <1>1, LeavesCases
  <2> QED
    BY <2>5, <2>6, <2>7, <2>8, <2>9, <1>1, <1>5, Zenon DEF Judges
<1>7. Conclude(n, w, r) /\ n = Uses(Call)
  BY <1>1, <1>4, <1>5
<1> QED
  BY <1>1, <1>6, <1>7, ConcludeExact

(* An assignment; nothing is auto, so that the table stays. *)
LEMMA CheckAssignExact ==
  ASSUME Inv, Exact, CheckAssign
  PROVE  Exact'
<1>1. /\ status = "running" /\ todo # <<>> /\ Call.do = "node" /\ Call.arg.kind = "ASSIGN"
      /\ UNCHANGED ast_head
  BY DEF CheckAssign, Ready
<1>2. PICK e, v : e = Call.arg /\ v = Latest(2)
  OBVIOUS
<1>3. PICK settles \in BOOLEAN : settles <=> Kind(v[1]) = "AUTO" /\ Kind(v[2]) # "AUTO"
  OBVIOUS
<1>4. PICK bad \in BOOLEAN : bad <=> Kind(v[2]) \in Unusable \/ ~ InMemory(e.sub[1])
  OBVIOUS
<1>5. PICK a : a = Agree(v[1], v[2], bad, v[2])
  OBVIOUS
<1>6. PICK w : w = [a EXCEPT !.crash = @ \/ (settles /\ e.sub[1].kind # "ID")]
  OBVIOUS
<1>7. /\ Conclude(2, w, <<v[2]>>)
      /\ types' = IF settles /\ status' = "running"
                  THEN [types EXCEPT ![e.sub[1].val].kind = Kind(v[2])]
                  ELSE types
  <2>1. /\ Conclude(2, [Agree(v[1], v[2], (Kind(v[2]) \in Unusable \/ ~ InMemory(e.sub[1])), v[2])
                        EXCEPT !.crash = @ \/ ((Kind(v[1]) = "AUTO" /\ Kind(v[2]) # "AUTO")
                                               /\ e.sub[1].kind # "ID")], <<v[2]>>)
        /\ types' = IF (Kind(v[1]) = "AUTO" /\ Kind(v[2]) # "AUTO") /\ status' = "running"
                    THEN [types EXCEPT ![e.sub[1].val].kind = Kind(v[2])]
                    ELSE types
    BY <1>2 DEF CheckAssign
  <2>2. /\ settles = (Kind(v[1]) = "AUTO" /\ Kind(v[2]) # "AUTO")
        /\ bad = (Kind(v[2]) \in Unusable \/ ~ InMemory(e.sub[1]))
    BY <1>3, <1>4
  <2> QED
    BY <2>1, <2>2, <1>5, <1>6
<1>8. w.bad <=> bad \/ v[1] # v[2]
  BY <1>5, <1>6 DEF Agree, Verdict
<1>9. e \in Exprs(ast_head) /\ Uses(Call) = 2
  <2>1. e \in Exprs(ast_head) /\ ast_head \in Programs /\ Uses(Call) = Len(e.sub)
    BY <1>1, <1>2, ExprCall
  <2>2. Len(e.sub) = 2
    BY <2>1, <1>1, <1>2, OperandFacts
  <2> QED
    BY <2>1, <2>2
<1>10. PICK n, r : n = 2 /\ r = <<v[2]>>
  OBVIOUS
<1>11. ASSUME WithoutAuto, ~ w.crash
       PROVE  /\ types' = types /\ r \in Seq(Plain)
              /\ w.bad <=> ~ Fine(ast_head, types, Call, Latest(n))
              /\ ~ w.bad => r = Leaves(ast_head, types, Call, Latest(n))
  <2>1. values \in Seq(Plain)
    BY <1>1, <1>11, AutoFree
  <2>2. v \in Seq(Plain) /\ Len(v) = 2
    <3>1. Latest(n) \in Seq(Plain) /\ Len(Latest(n)) = n
      BY <2>1, <1>1, <1>9, <1>10, PlainLatest
    <3> QED
      BY <3>1, <1>2, <1>10
  <2>3. v[1] \in Plain /\ v[2] \in Plain
    BY <2>2
  <2>4. Kind(v[1]) # "AUTO"
    BY <2>3, PlainFacts
  <2>5. types' = types
    BY <2>4, <1>3, <1>7
  <2>6. r \in Seq(Plain)
    BY <2>3, <1>10, Single
  <2>7. Latest(n) = v
    BY <1>2, <1>10
  <2>8. Fits(types, e, v) <=> v[1] = v[2] /\ Storable(v[1]) /\ InMemory(e.sub[1])
    <3>1. e.kind = "ASSIGN"
      BY <1>1, <1>2
    <3> QED
      BY <3>1 DEF Fits, Literal, Arithmetic, Comparison, Step, Logical
  <2>9. w.bad <=> ~ Fits(types, e, v)
    BY <2>8, <1>4, <1>8 DEF Storable
  <2>10. Fine(ast_head, types, Call, v) <=> Fits(types, e, v)
    BY <1>1, <1>2, FineCases
  <2>11. Leaves(ast_head, types, Call, v) = <<Result(types, e, v)>>
    BY <1>1, <1>2, LeavesCases
  <2>12. Result(types, e, v) = v[1]
    <3>1. e.kind = "ASSIGN"
      BY <1>1, <1>2
    <3> QED
      BY <3>1 DEF Result, Literal, Arithmetic, Comparison, Step, Logical
  <2>13. ~ w.bad => r = Leaves(ast_head, types, Call, v)
    <3>1. ~ w.bad => v[1] = v[2]
      BY <1>8
    <3> QED
      BY <3>1, <2>11, <2>12, <1>10, Zenon
  <2> QED
    BY <2>5, <2>6, <2>7, <2>9, <2>10, <2>13, Zenon
<1>12. Conclude(n, w, r) /\ n = Uses(Call)
  BY <1>7, <1>9, <1>10
<1> QED
  BY <1>1, <1>11, <1>12, ConcludeExact

(* A function that resolve has not seen: the process is gone. *)
LEMMA CallUnresolvedExact ==
  ASSUME Inv, Exact, CallUnresolved
  PROVE  Exact'
<1>1. status' = "crashed"
  BY DEF CallUnresolved
<1> QED
  BY <1>1 DEF Exact

(* The handlers that take types and leave none. *)
LEMMA EndExact ==
  ASSUME Inv, Exact, todo # <<>>, status = "running", UNCHANGED ast_head,
         Call.do \notin {"expr", "node", "call"},
         NEW n, n = Uses(Call), NEW verdict, Conclude(n, verdict, <<>>),
         WithoutAuto /\ ~ verdict.crash =>
           types' = types /\ (verdict.bad <=> ~ Fine(ast_head, types, Call, Latest(n)))
  PROVE  Exact'
<1>1. PICK r : r = <<>>
  OBVIOUS
<1>2. r \in Seq(Plain)
  BY <1>1, Nothing
<1>3. Leaves(ast_head, types, Call, Latest(n)) = <<>>
  BY LeavesCases
<1>4. Conclude(n, verdict, r)
  BY <1>1
<1>5. WithoutAuto /\ ~ verdict.crash =>
           /\ types' = types /\ r \in Seq(Plain)
           /\ verdict.bad <=> ~ Fine(ast_head, types, Call, Latest(n))
           /\ ~ verdict.bad => r = Leaves(ast_head, types, Call, Latest(n))
  BY <1>1, <1>2, <1>3
<1> QED
  BY <1>4, <1>5, ConcludeExact

(* A list of values, none of which may be auto. *)
LEMMA CheckArgumentsExact ==
  ASSUME Inv, Exact, CheckArguments
  PROVE  Exact'
<1>1. PICK n, v, w :
        /\ n = Call.arg /\ v = Latest(n)
        /\ w = IF v = <<>> THEN Verdict(NULL, FALSE, FALSE) ELSE List(v)
        /\ status = "running" /\ todo # <<>> /\ Call.do = "arguments"
        /\ Conclude(n, w, <<>>)
        /\ UNCHANGED <<ast_head, types>>
  BY DEF CheckArguments, Ready
<1>2. n = Uses(Call)
  BY <1>1, CallNow, CallCounts
<1>3. w.bad <=> \E i \in DOMAIN v : Kind(v[i]) = "AUTO"
  <2>1. CASE v = <<>>
    BY <2>1, <1>1 DEF Verdict
  <2>2. CASE v # <<>>
    BY <2>2, <1>1 DEF List, Verdict
  <2> QED
    BY <2>1, <2>2
<1>4. Fine(ast_head, types, Call, v) <=> \A i \in DOMAIN v : Kind(v[i]) # "AUTO"
  BY <1>1, FineCases
<1>5. w.bad <=> ~ Fine(ast_head, types, Call, Latest(n))
  BY <1>1, <1>3, <1>4
<1>6. Call.do \notin {"expr", "node", "call"}
  BY <1>1
<1> QED
  BY <1>1, <1>2, <1>5, <1>6, EndExact

(* An argument against its parameter. *)
LEMMA CheckArgumentExact ==
  ASSUME Inv, Exact, CheckArgument
  PROVE  Exact'
<1>1. PICK n, v, q, w :
        /\ n = 1 /\ v = Latest(n) /\ q = Call.arg
        /\ w = Agree(v[1], q, Kind(v[1]) \in Unusable, v[1])
        /\ status = "running" /\ todo # <<>> /\ Call.do = "argument"
        /\ Conclude(n, w, <<>>)
        /\ UNCHANGED <<ast_head, types>>
  BY DEF CheckArgument, Ready
<1>2. n = Uses(Call)
  BY <1>1, CallNow, CallCounts
<1>3. w.bad <=> Kind(v[1]) \in Unusable \/ v[1] # q
  <2>1. PICK bad \in BOOLEAN : bad <=> Kind(v[1]) \in Unusable
    OBVIOUS
  <2>2. bad = (Kind(v[1]) \in Unusable)
    BY <2>1
  <2>3. w = Agree(v[1], q, bad, v[1])
    BY <2>2, <1>1
  <2>4. Agree(v[1], q, bad, v[1]).bad <=> bad \/ v[1] # q
    BY AgreeJudges
  <2> QED
    BY <2>1, <2>3, <2>4, Zenon
<1>4. Fine(ast_head, types, Call, v) <=> v[1] = q /\ Storable(v[1])
  BY <1>1, FineCases
<1>5. w.bad <=> ~ Fine(ast_head, types, Call, Latest(n))
  BY <1>1, <1>3, <1>4 DEF Storable
<1>6. Call.do \notin {"expr", "node", "call"}
  BY <1>1
<1> QED
  BY <1>1, <1>2, <1>5, <1>6, EndExact

(* The condition of an if. *)
LEMMA CheckConditionExact ==
  ASSUME Inv, Exact, CheckCondition
  PROVE  Exact'
<1>1. PICK n, v, w :
        /\ n = 1 /\ v = Latest(n) /\ w = Demand(Boolean, v, Boolean)
        /\ status = "running" /\ todo # <<>> /\ Call.do = "condition"
        /\ Conclude(n, w, <<>>)
        /\ UNCHANGED <<ast_head, types>>
  BY DEF CheckCondition, Ready
<1>2. n = Uses(Call)
  BY <1>1, CallNow, CallCounts, CallForms
<1>3. DOMAIN v = {1}
  <2>1. /\ Latest(n) \in Seq(TypeWords) /\ Len(Latest(n)) = n
    BY <1>1, <1>2, Taken DEF Outer
  <2> QED
    BY <2>1, <1>1
<1>4. w.bad <=> ~ All(v, Boolean)
  BY <1>1, DemandJudges
<1>5. Fine(ast_head, types, Call, v) <=> v[1] = Boolean
  BY <1>1, FineCases
<1>6. w.bad <=> ~ Fine(ast_head, types, Call, Latest(n))
  BY <1>1, <1>3, <1>4, <1>5 DEF All
<1>7. Call.do \notin {"expr", "node", "call"}
  BY <1>1
<1> QED
  BY <1>1, <1>2, <1>6, <1>7, EndExact

(* The parts of a loop: whatever they are, no error is counted. *)
LEMMA CheckLoopExact ==
  ASSUME Inv, Exact, CheckLoop
  PROVE  Exact'
<1>1. PICK n, w :
        /\ n = 3 /\ (w.bad <=> FALSE)
        /\ status = "running" /\ todo # <<>> /\ Call.do = "loop"
        /\ Conclude(n, w, <<>>)
        /\ UNCHANGED <<ast_head, types>>
  <2>1. PICK crash :
          /\ status = "running" /\ todo # <<>> /\ Call.do = "loop"
          /\ Conclude(3, Verdict(NULL, FALSE, crash), <<>>)
          /\ UNCHANGED <<ast_head, types>>
    BY DEF CheckLoop, Ready
  <2>2. Verdict(NULL, FALSE, crash).bad <=> FALSE
    BY DEF Verdict
  <2> QED
    BY <2>1, <2>2
<1>2. n = Uses(Call)
  BY <1>1, CallNow, CallCounts, CallForms
<1>3. w.bad <=> ~ Fine(ast_head, types, Call, Latest(n))
  BY <1>1, FineCases
<1>4. Call.do \notin {"expr", "node", "call"}
  BY <1>1
<1> QED
  BY <1>1, <1>2, <1>3, <1>4, EndExact

(* The value of an expression statement is dropped. *)
LEMMA ForgetResultExact ==
  ASSUME Inv, Exact, ForgetResult
  PROVE  Exact'
<1>1. /\ status = "running" /\ todo # <<>> /\ Call.do = "forget"
      /\ values' = Before(1) /\ Replace(<<>>)
      /\ UNCHANGED <<ast_head, types, type_err, status>>
  BY DEF ForgetResult, Ready, Quietly
<1>2. Uses(Call) = 1
  BY <1>1, CallNow, CallCounts, CallForms
<1>3. PICK n, w : n = 1 /\ w = Verdict(NULL, FALSE, FALSE)
  OBVIOUS
<1>4. (w.bad <=> FALSE) /\ ~ w.crash
  BY <1>3 DEF Verdict
<1>5. values' = Before(n) \o <<>>
  <2>1. 1 <= Len(values)
    BY <1>1, <1>2, TakenOne DEF Outer
  <2> QED
    BY <2>1, <1>1, <1>3, Remaining
<1>6. type_err' = (type_err \/ w.bad)
  BY <1>1, <1>4 DEF Inv
<1>7. Conclude(n, w, <<>>)
  BY <1>1, <1>4, <1>5, <1>6 DEF Conclude
<1>8. w.bad <=> ~ Fine(ast_head, types, Call, Latest(n))
  BY <1>1, <1>4, FineCases
<1>9. Call.do \notin {"expr", "node", "call"} /\ n = Uses(Call)
  BY <1>1, <1>2, <1>3
<1> QED
  BY <1>1, <1>7, <1>8, <1>9, EndExact

(* A list of calls whose functions are plain. *)
PlainList(calls) == PlainCalls(calls) /\ \E T : calls \in Seq(T)

(* The calls for expressions. *)
LEMMA ListEach ==
  ASSUME NEW p, NEW S, S \subseteq Exprs(p) \cup {None}, NEW a \in Seq(S)
  PROVE  PlainList(Each("expr", a))
<1>1. a \in Seq(Exprs(p) \cup {None})
  BY Widened
<1>2. Each("expr", a) \in Seq(Calls(p)) /\ PlainCalls(Each("expr", a))
  BY <1>1, PlainEach
<1> QED
  BY <1>2 DEF PlainList

(* One call. *)
LEMMA ListOne ==
  ASSUME NEW c, PlainCall(c)
  PROVE  PlainList(<<c>>)
<1>1. <<c>> \in Seq({c}) /\ PlainCalls(<<c>>)
  BY PlainOne
<1> QED
  BY <1>1 DEF PlainList

(* One call that is not of a function. *)
LEMMA ListOther ==
  ASSUME NEW k, k # "call", NEW x
  PROVE  PlainList(<<Do(k, x)>>)
<1>1. PICK c : c = Do(k, x)
  OBVIOUS
<1>2. PlainCall(c)
  BY <1>1, DoFacts DEF PlainCall
<1> QED
  BY <1>1, <1>2, ListOne

(* The calls for statements. *)
LEMMA ListBodies ==
  ASSUME NEW S, NEW ss \in Seq(S), NEW f
  PROVE  PlainList(Bodies(ss, f))
<1>1. PICK b : b = Bodies(ss, f)
  OBVIOUS
<1>2. PICK Q : b \in Seq(Q) /\ \A k \in DOMAIN b : b[k].do \in Outer
  <2>1. PICK right : right = StmtTyped(0, 0)
    OBVIOUS
  <2> QED
    BY <1>1, <2>1, BodiesRight
<1>3. \A k \in DOMAIN b : b[k].do # "call"
  BY <1>2 DEF Outer
<1>4. PlainCalls(b)
  BY <1>2, <1>3, NoCalls
<1> QED
  BY <1>1, <1>2, <1>4 DEF PlainList

(* Two lists of calls. *)
LEMMA ListJoined ==
  ASSUME NEW a, NEW b, PlainList(a), PlainList(b)
  PROVE  PlainList(a \o b)
<1>1. PICK S : a \in Seq(S)
  BY DEF PlainList
<1>2. PICK T : b \in Seq(T)
  BY DEF PlainList
<1>3. PlainCalls(a \o b)
  BY <1>1, <1>2, PlainJoined DEF PlainList
<1>4. PICK U : U = S \cup T
  OBVIOUS
<1>5. a \in Seq(U) /\ b \in Seq(U)
  BY <1>1, <1>2, <1>4, Widened
<1>6. a \o b \in Seq(U)
  BY <1>5, Joined
<1> QED
  BY <1>3, <1>6 DEF PlainList

(* A handler that makes calls. *)
LEMMA CallsExact ==
  ASSUME Inv, Exact, todo # <<>>, status = "running",
         UNCHANGED <<ast_head, types, values>>,
         NEW bad, type_err' = (type_err \/ bad),
         NEW calls, Replace(calls),
         WithoutAuto =>
           /\ PlainList(calls)
           /\ bad => \A x : ~ Makes(ast_head, types, Call, values, x)
           /\ ~ bad => \A x : Runs(ast_head, types, calls, values, x)
                                <=> Makes(ast_head, types, Call, values, x)
  PROVE  Exact'
<1>1. CASE ~ WithoutAuto
  <2>1. ~ WithoutAuto'
    BY <1>1 DEF WithoutAuto
  <2> QED
    BY <2>1 DEF Exact
<1>2. CASE WithoutAuto
  <2>1. PICK T : calls \in Seq(T)
    BY <1>2 DEF PlainList
  <2>2. PlainCalls(calls)
    BY <1>2 DEF PlainList
  <2>3. todo' = calls \o Tail(todo)
    BY DEF Replace
  <2> QED
    BY <1>2, <2>1, <2>2, <2>3, PushExact
<1> QED
  BY <1>1, <1>2

(* Nothing is found wrong in a handler that only makes calls. *)
LEMMA QuietlyExact ==
  ASSUME Inv, Exact, todo # <<>>, status = "running", UNCHANGED values, Quietly,
         NEW calls, Replace(calls),
         WithoutAuto =>
           /\ PlainList(calls)
           /\ \A x : Runs(ast_head, types, calls, values, x)
                       <=> Makes(ast_head, types, Call, values, x)
  PROVE  Exact'
<1>1. PICK bad : bad = FALSE
  OBVIOUS
<1>2. type_err' = (type_err \/ bad) /\ UNCHANGED <<ast_head, types, values>>
  BY <1>1 DEF Inv, Quietly
<1>3. ~ bad
  BY <1>1
<1>4. WithoutAuto =>
           /\ PlainList(calls)
           /\ bad => \A x : ~ Makes(ast_head, types, Call, values, x)
           /\ ~ bad => \A x : Runs(ast_head, types, calls, values, x)
                                <=> Makes(ast_head, types, Call, values, x)
  BY <1>3
<1> QED
  BY <1>2, <1>4, CallsExact

(* A call of a function begins. *)
LEMMA EnterCallExact ==
  ASSUME Inv, Exact, EnterCall
  PROVE  Exact'
<1>1. PICK e, f, callee :
        /\ e = Call.arg /\ f = types[e.val]
        /\ callee = [type |-> type_copy[e.val], result |-> type_copy[f.sub],
                     params |-> [i \in DOMAIN f.params |-> type_copy[f.params[i]]],
                     args |-> e.sub]
        /\ status = "running" /\ todo # <<>> /\ Call.do = "expr"
        /\ e.kind = "FCALL" /\ e.val # 0
        /\ Replace(Each("expr", e.sub) \o <<Do("arguments", Len(e.sub)), Do("call", callee)>>)
        /\ UNCHANGED values /\ Quietly
  BY DEF EnterCall, Ready
<1>2. PICK calls :
        calls = Each("expr", e.sub) \o <<Do("arguments", Len(e.sub)), Do("call", callee)>>
  OBVIOUS
<1>3. e \in Exprs(ast_head) /\ ast_head \in Programs /\ Call = Do("expr", e)
  BY <1>1, ExprCall
<1>4. ASSUME WithoutAuto
      PROVE  /\ PlainList(calls)
             /\ \A x : Runs(ast_head, types, calls, values, x)
                         <=> Makes(ast_head, types, Call, values, x)
  <2>1. TypesOf(types, ast_head) /\ \A c \in 0 .. Len(types) : type_copy[c] \in Plain
    BY <1>1, <1>4, AutoFree
  <2>2. Stack(values)
    BY <1>1, CallOfWalk
  <2>3. \A x : Runs(ast_head, types,
                    Each("expr", e.sub) \o <<Do("arguments", Len(e.sub)), Do("call", callee)>>,
                    values, x)
                 <=> Makes(ast_head, types, Do("expr", e), values, x)
    BY <1>1, <1>3, <2>1, <2>2, EnterCallRuns
  <2>4. \A x : Runs(ast_head, types, calls, values, x)
                 <=> Makes(ast_head, types, Call, values, x)
    BY <2>3, <1>2, <1>3, Zenon
  <2>5. PICK a, b : a = Do("arguments", Len(e.sub)) /\ b = Do("call", callee)
    OBVIOUS
  <2>6. PlainCall(b)
    <3>1. e.val \in 1 .. Len(types)
      <4>1. ExprOK(e, ast_head)
        BY <1>3, ProgramsAssumption DEF Exprs
      <4>2. e.val \in 0 .. Len(ast_head.types)
        BY <4>1, <1>1 DEF ExprOK
      <4>3. Len(types) \in Nat /\ Len(types) = Len(ast_head.types)
        BY <1>3, <2>1, TableFacts
      <4>4. e.val # 0
        BY <1>1
      <4> QED
        BY <4>2, <4>3, <4>4
    <3>2. f.sub \in 0 .. Len(types)
      <4>1. /\ Len(types) \in Nat
            /\ \A c \in 1 .. Len(types) : types[c].sub \in 0 .. c - 1
        BY <1>3, <2>1, TableFacts
      <4>2. types[e.val].sub \in 0 .. e.val - 1
        BY <3>1, <4>1
      <4> QED
        BY <3>1, <4>1, <4>2, <1>1
    <3>3. type_copy[e.val] \in Plain /\ type_copy[f.sub] \in Plain
      <4>1. e.val \in 0 .. Len(types)
        BY <3>1
      <4> QED
        BY <4>1, <3>2, <2>1
    <3>4. callee.type = type_copy[e.val] /\ callee.result = type_copy[f.sub]
      BY <1>1
    <3> QED
      BY <3>3, <3>4, <2>5, DoFacts DEF PlainCall
  <2>7. PlainList(<<a>>) /\ PlainList(<<b>>)
    <3>1. PlainList(<<Do("arguments", Len(e.sub))>>)
      BY ListOther
    <3>2. PlainList(<<b>>)
      BY <2>6, ListOne
    <3> QED
      BY <3>1, <3>2, <2>5
  <2>8. PlainList(<<a>> \o <<b>>)
    BY <2>7, ListJoined
  <2>9. <<a>> \o <<b>> = <<a, b>>
    <3>1. a \in {a, b} /\ b \in {a, b}
      OBVIOUS
    <3> QED
      BY ONLY <3>1, Pair
  <2>10. PlainList(Each("expr", e.sub))
    <3>1. e.sub \in Seq(Exprs(ast_head))
      BY <1>3, OperandFacts
    <3> QED
      BY <3>1, ListEach
  <2>11. PlainList(<<a, b>>)
    BY <2>8, <2>9
  <2>12. PlainList(Each("expr", e.sub) \o <<a, b>>)
    BY <2>10, <2>11, ListJoined
  <2>13. PlainList(calls)
    BY <2>12, <2>5, <1>2
  <2> QED
    BY <2>4, <2>13
<1>5. Replace(calls)
  BY <1>1, <1>2
<1> QED
  BY <1>1, <1>4, <1>5, QuietlyExact

(* What is called is no function. *)
LEMMA CallNonFunctionExact ==
  ASSUME Inv, Exact, CallNonFunction
  PROVE  Exact'
<1>1. PICK n, t, w, r :
        /\ n = 0 /\ t = Call.arg.type /\ w = Verdict(t, TRUE, Unprintable({t})) /\ r = <<t>>
        /\ status = "running" /\ todo # <<>> /\ Call.do = "call" /\ Kind(t) # "FUNCTION"
        /\ Conclude(n, w, r)
        /\ UNCHANGED <<ast_head, types>>
  BY DEF CallNonFunction, Ready
<1>2. n = Uses(Call)
  BY <1>1, CallNow, CallCounts
<1>3. w.bad <=> TRUE
  BY <1>1 DEF Verdict
<1>4. ~ Fine(ast_head, types, Call, Latest(n))
  BY <1>1, FineCases
<1>5. WithoutAuto => r \in Seq(Plain)
  <2>1. SUFFICES ASSUME WithoutAuto PROVE r \in Seq(Plain)
    OBVIOUS
  <2>2. PlainCall(Call)
    BY <2>1, <1>1, PlainTail DEF Exact
  <2>3. t \in Plain
    BY <2>2, <1>1 DEF PlainCall
  <2> QED
    BY <2>3, <1>1, Single
<1>6. WithoutAuto /\ ~ w.crash =>
        /\ types' = types /\ r \in Seq(Plain)
        /\ w.bad <=> ~ Fine(ast_head, types, Call, Latest(n))
        /\ ~ w.bad => r = Leaves(ast_head, types, Call, Latest(n))
  BY <1>1, <1>3, <1>4, <1>5
<1> QED
  BY <1>1, <1>2, <1>6, ConcludeExact

(* A call is right when as many arguments as parameters were there. *)
LEMMA CallReturnsExact ==
  ASSUME Inv, Exact, CallReturns
  PROVE  Exact'
<1>1. PICK n, c, w, r :
        /\ n = 0 /\ c = Call.arg /\ w = Verdict(c.result, c.args # c.params, FALSE)
        /\ r = <<c.result>>
        /\ status = "running" /\ todo # <<>> /\ Call.do = "call" /\ Kind(c.type) = "FUNCTION"
        /\ c.args = <<>> \/ c.params = <<>>
        /\ Conclude(n, w, r)
        /\ UNCHANGED <<ast_head, types>>
  BY DEF CallReturns, Ready
<1>2. n = Uses(Call)
  BY <1>1, CallNow, CallCounts
<1>3. w.bad <=> c.args # c.params
  BY <1>1 DEF Verdict
<1>4. Matches(ast_head, types, c.args, c.params) <=> c.args = c.params
  <2>1. c.params \in Seq(TypeWords) /\ c.args \in Seq(Exprs(ast_head))
    BY <1>1, SnapshotFacts
  <2>2. PICK a, q : a = c.args /\ q = c.params /\ a \in Seq(Exprs(ast_head)) /\ q \in Seq(TypeWords)
    BY <2>1
  <2>3. (a = <<>> <=> Len(a) = 0) /\ (q = <<>> <=> Len(q) = 0)
    BY <2>2, EmptySeq
  <2>4. a = <<>> \/ q = <<>>
    BY <1>1, <2>2
  <2>5. Len(a) = Len(q) <=> a = q
    BY <2>3, <2>4
  <2>6. Len(a) = Len(q) => \A i \in 1 .. Len(a) : FALSE
    BY <2>3, <2>4
  <2>7. Matches(ast_head, types, a, q) <=> a = q
    BY <2>5, <2>6 DEF Matches
  <2> QED
    BY <2>2, <2>7
<1>5. Fine(ast_head, types, Call, Latest(n)) <=> c.args = c.params
  <2>1. Fine(ast_head, types, Call, Latest(n)) <=>
          Kind(c.type) = "FUNCTION" /\ Matches(ast_head, types, c.args, c.params)
    BY <1>1, FineCases
  <2> QED
    BY <2>1, <1>1, <1>4
<1>6. WithoutAuto => r \in Seq(Plain)
  <2>1. SUFFICES ASSUME WithoutAuto PROVE r \in Seq(Plain)
    OBVIOUS
  <2>2. PlainCall(Call)
    BY <2>1, <1>1, PlainTail DEF Exact
  <2>3. c.result \in Plain
    BY <2>2, <1>1 DEF PlainCall
  <2> QED
    BY <2>3, <1>1, Single
<1>7. r = Leaves(ast_head, types, Call, Latest(n))
  BY <1>1, LeavesCases
<1>8. WithoutAuto /\ ~ w.crash =>
        /\ types' = types /\ r \in Seq(Plain)
        /\ w.bad <=> ~ Fine(ast_head, types, Call, Latest(n))
        /\ ~ w.bad => r = Leaves(ast_head, types, Call, Latest(n))
  BY <1>1, <1>3, <1>5, <1>6, <1>7
<1> QED
  BY <1>1, <1>2, <1>8, ConcludeExact

(* The next argument of a call. *)
LEMMA CallNextExact ==
  ASSUME Inv, Exact, CallNext
  PROVE  Exact'
<1>1. PICK c, d, calls :
        /\ c = Call.arg /\ status = "running" /\ todo # <<>> /\ Call.do = "call"
        /\ Kind(c.type) = "FUNCTION" /\ c.args # <<>> /\ c.params # <<>>
        /\ d = [c EXCEPT !.args = Tail(@), !.params = Tail(@)]
        /\ calls = <<Do("expr", Head(c.args)), Do("argument", Head(c.params)), Do("call", d)>>
        /\ Replace(calls)
        /\ UNCHANGED values /\ Quietly
  BY DEF CallNext, Ready
<1>2. /\ c \in Snapshots(ast_head) /\ Call = Do("call", c) /\ ast_head \in Programs
  BY <1>1, SnapshotFacts, CallNow
<1>3. ASSUME WithoutAuto
      PROVE  /\ PlainList(calls)
             /\ \A x : Runs(ast_head, types, calls, values, x)
                         <=> Makes(ast_head, types, Call, values, x)
  <2>1. Stack(values)
    BY <1>1, CallOfWalk
  <2>2. \A x : Runs(ast_head, types,
                    <<Do("expr", Head(c.args)), Do("argument", Head(c.params)), Do("call", d)>>,
                    values, x)
                 <=> Makes(ast_head, types, Do("call", c), values, x)
    BY <1>1, <1>2, <2>1, CallNextRuns
  <2>3. \A x : Runs(ast_head, types, calls, values, x)
                 <=> Makes(ast_head, types, Call, values, x)
    BY <2>2, <1>1, <1>2, Zenon
  <2>4. PICK k1, k2, k3 :
          k1 = Do("expr", Head(c.args)) /\ k2 = Do("argument", Head(c.params)) /\ k3 = Do("call", d)
    OBVIOUS
  <2>5. PlainCall(k1) /\ PlainCall(k2)
    BY <2>4, DoFacts DEF PlainCall
  <2>6. PlainCall(k3)
    <3>1. PlainCall(Call)
      BY <1>3, <1>1, PlainTail DEF Exact
    <3>2. c.type \in Plain /\ c.result \in Plain
      BY <3>1, <1>1 DEF PlainCall
    <3>3. d.type = c.type /\ d.result = c.result
      BY <1>1, <1>2 DEF Snapshots
    <3> QED
      BY <3>2, <3>3, <2>4, DoFacts DEF PlainCall
  <2>7. PICK S : S = {k1, k2, k3}
    OBVIOUS
  <2>8. k1 \in S /\ k2 \in S /\ k3 \in S
    BY <2>7
  <2>9. PICK z : z = <<k1, k2, k3>>
    OBVIOUS
  <2>10. z \in Seq(S) /\ Len(z) = 3 /\ z[1] = k1 /\ z[2] = k2 /\ z[3] = k3
    BY <2>8, <2>9, Triple
  <2>11. \A k \in 1 .. Len(z) : PlainCall(z[k])
    BY <2>5, <2>6, <2>10
  <2>12. PlainList(z)
    BY <2>10, <2>11 DEF PlainList, PlainCalls
  <2> QED
    BY <2>3, <2>4, <2>9, <2>12, <1>1
<1> QED
  BY <1>1, <1>3, QuietlyExact

(* The calls that a statement makes are not of functions. *)
LEMMA ListStmt ==
  ASSUME NEW p \in Programs, NEW s \in Parts(p).stmts, NEW f
  PROVE  PlainList(StmtCalls(s, f))
<1>1. StmtOK(s, p)
  BY ProgramsAssumption
<1>2. s.kind \in StmtKinds \cup {"NONE"}
  BY <1>1 DEF StmtOK
<1>3. CASE s.kind = "DECL"
  BY <1>3, StmtCases, ListOther
<1>4. CASE s.kind = "EXPR"
  <2>1. s.sub \in Seq(Exprs(p))
    BY <1>1, <1>4 DEF StmtOK, Exprs
  <2>2. PlainList(Each("expr", s.sub)) /\ PlainList(<<Do("forget", 1)>>)
    <3>1. PlainList(<<Do("forget", 1)>>)
      BY ListOther
    <3> QED
      BY <2>1, <3>1, ListEach
  <2> QED
    BY <2>2, <1>4, StmtCases, ListJoined
<1>5. CASE s.kind = "PRINT"
  <2>1. s.sub \in Seq(Exprs(p))
    BY <1>1, <1>5 DEF StmtOK, Exprs
  <2>2. PlainList(Each("expr", s.sub)) /\ PlainList(<<Do("arguments", Len(s.sub))>>)
    <3>1. PlainList(<<Do("arguments", Len(s.sub))>>)
      BY ListOther
    <3> QED
      BY <2>1, <3>1, ListEach
  <2> QED
    <3>1. StmtCalls(s, f) = Each("expr", s.sub) \o <<Do("arguments", Len(s.sub))>>
      BY <1>5, StmtCases
    <3>2. PlainList(Each("expr", s.sub) \o <<Do("arguments", Len(s.sub))>>)
      BY <2>2, ListJoined
    <3> QED
      BY <3>1, <3>2
<1>6. CASE s.kind = "RETURN"
  <2>1. s.sub \in Seq(Exprs(p))
    BY <1>1, <1>6 DEF StmtOK, Exprs
  <2>2. PICK es : es = IF s.sub = <<>> THEN <<None>> ELSE s.sub
    OBVIOUS
  <2>3. es \in Seq(Exprs(p) \cup {None})
    <3>1. CASE s.sub = <<>>
      BY <3>1, <2>2, Single
    <3>2. CASE s.sub # <<>>
      BY <3>2, <2>1, <2>2, Widened
    <3> QED
      BY <3>1, <3>2
  <2>4. PlainList(Each("expr", es))
    BY <2>3, ListEach
  <2>5. PlainList(<<Do("return", f)>>)
    BY ListOther
  <2>6. StmtCalls(s, f) = Each("expr", es) \o <<Do("return", f)>>
    BY <2>2, <1>6, StmtCases
  <2> QED
    BY <2>4, <2>5, <2>6, ListJoined
<1>7. CASE s.kind = "IF_ELSE"
  <2>1. PICK e \in Exprs(p), s1 \in Parts(p).stmts, s2 \in Parts(p).stmts : s.sub = <<e, s1, s2>>
    BY <1>1, <1>7 DEF StmtOK, Exprs
  <2>2. PICK U : U = Exprs(p) \cup Parts(p).stmts
    OBVIOUS
  <2>3. PICK q : q = <<e, s1, s2>>
    OBVIOUS
  <2>4. q \in Seq(U) /\ Len(q) = 3 /\ q[1] = e /\ q[2] = s1 /\ q[3] = s2
    BY <2>2, <2>3, Triple
  <2>5. SubSeq(q, 1, 1) = <<q[1]>> /\ SubSeq(q, 2, 3) = <<q[2], q[3]>>
    BY <2>4, Cut
  <2>6. SubSeq(s.sub, 1, 1) = <<e>> /\ SubSeq(s.sub, 2, 3) = <<s1, s2>>
    BY <2>1, <2>3, <2>4, <2>5
  <2>7. <<e>> \in Seq(Exprs(p)) /\ <<s1, s2>> \in Seq(Parts(p).stmts)
    BY Single, Pair
  <2>8. PlainList(Each("expr", <<e>>)) /\ PlainList(Bodies(<<s1, s2>>, f))
    BY <2>7, ListEach, ListBodies
  <2>9. PlainList(<<Do("condition", 1)>>)
    BY ListOther
  <2>10. PlainList(Each("expr", <<e>>) \o <<Do("condition", 1)>>)
    BY <2>8, <2>9, ListJoined
  <2>11. StmtCalls(s, f) = (Each("expr", <<e>>) \o <<Do("condition", 1)>>) \o Bodies(<<s1, s2>>, f)
    BY <2>6, <1>7, StmtCases
  <2> QED
    BY <2>8, <2>10, <2>11, ListJoined
<1>8. CASE s.kind = "FOR"
  <2>1. /\ s.sub \in Seq(Exprs(p) \cup Parts(p).stmts \cup {None}) /\ Len(s.sub) = 4
        /\ \A i \in 1 .. 3 : s.sub[i] \in Exprs(p) \cup {None}
        /\ s.sub[4] \in Parts(p).stmts
    BY <1>1, <1>8 DEF StmtOK, Exprs
  <2>2. PICK U, q : U = Exprs(p) \cup Parts(p).stmts \cup {None} /\ q = s.sub
    OBVIOUS
  <2>3. q \in Seq(U) /\ Len(q) = 4
    BY <2>1, <2>2
  <2>4. SubSeq(q, 1, 3) = <<q[1], q[2], q[3]>> /\ SubSeq(q, 4, 4) = <<q[4]>>
    BY <2>3, Cut
  <2>5. /\ q[1] \in Exprs(p) \cup {None} /\ q[2] \in Exprs(p) \cup {None}
        /\ q[3] \in Exprs(p) \cup {None} /\ q[4] \in Parts(p).stmts
    BY <2>1, <2>2
  <2>6. PICK a, b : a = SubSeq(s.sub, 1, 3) /\ b = SubSeq(s.sub, 4, 4)
    OBVIOUS
  <2>7. a = <<q[1], q[2], q[3]>> /\ b = <<q[4]>>
    BY <2>2, <2>4, <2>6
  <2>8. a \in Seq(Exprs(p) \cup {None})
    BY <2>5, <2>7, Triple
  <2>9. b \in Seq(Parts(p).stmts)
    BY <2>5, <2>7, Single
  <2>10. PlainList(Each("expr", a)) /\ PlainList(Bodies(b, f))
    BY <2>8, <2>9, ListEach, ListBodies
  <2>11. PlainList(<<Do("loop", 3)>>)
    BY ListOther
  <2>12. PlainList(Each("expr", a) \o <<Do("loop", 3)>>)
    BY <2>10, <2>11, ListJoined
  <2>13. StmtCalls(s, f) = (Each("expr", a) \o <<Do("loop", 3)>>) \o Bodies(b, f)
    BY <2>6, <1>8, StmtCases
  <2> QED
    BY <2>10, <2>12, <2>13, ListJoined
<1>9. CASE s.kind = "BLOCK"
  <2>1. s.sub \in Seq(Parts(p).stmts)
    BY <1>1, <1>9 DEF StmtOK
  <2> QED
    <3>1. StmtCalls(s, f) = Bodies(s.sub, f)
      BY <1>9, StmtCases
    <3>2. PlainList(Bodies(s.sub, f))
      BY <2>1, ListBodies
    <3> QED
      BY <3>1, <3>2
<1>10. CASE s.kind = "NONE"
  <2>1. StmtCalls(s, f) = <<>>
    BY <1>10, StmtCases
  <2>2. <<>> \in Seq({}) /\ \A k \in 1 .. Len(<<>>) : PlainCall(<<>>[k])
    OBVIOUS
  <2> QED
    BY <2>1, <2>2 DEF PlainList, PlainCalls
<1> QED
  BY <1>2, <1>3, <1>4, <1>5, <1>6, <1>7, <1>8, <1>9, <1>10 DEF StmtKinds

(* A statement is checked by checking its parts. *)
LEMMA stmt_typecheckExact ==
  ASSUME Inv, Exact, stmt_typecheck
  PROVE  Exact'
<1>1. PICK s, f, calls :
        /\ s = Call.arg.stmt /\ f = Call.arg.func
        /\ status = "running" /\ todo # <<>> /\ Call.do = "stmt"
        /\ calls = StmtCalls(s, f) /\ Replace(calls)
        /\ UNCHANGED values /\ Quietly
  BY DEF stmt_typecheck, Ready
<1>2. /\ ast_head \in Programs /\ s \in Parts(ast_head).stmts /\ f \in Parts(ast_head).decls
      /\ Call = Do("stmt", [stmt |-> s, func |-> f])
  <2>1. ast_head \in Programs /\ Call \in Calls(ast_head)
    BY <1>1, CallNow
  <2>2. PICK x \in Parts(ast_head).stmts, y \in Parts(ast_head).decls :
          Call = Do("stmt", [stmt |-> x, func |-> y])
    BY <2>1, <1>1 DEF Calls, Do
  <2>3. PICK r : r = [stmt |-> x, func |-> y]
    OBVIOUS
  <2>4. Call.arg = r /\ r.stmt = x /\ r.func = y
    BY <2>2, <2>3, DoFacts
  <2> QED
    BY <2>1, <2>2, <2>4, <1>1
<1>3. ASSUME WithoutAuto
      PROVE  /\ PlainList(calls)
             /\ \A x : Runs(ast_head, types, calls, values, x)
                         <=> Makes(ast_head, types, Call, values, x)
  <2>1. Known(ast_head, types) /\ Stack(values)
    BY <1>1, <1>3, AutoFree, CallOfWalk
  <2>2. \A x : Runs(ast_head, types, StmtCalls(s, f), values, x)
                 <=> Makes(ast_head, types, Do("stmt", [stmt |-> s, func |-> f]), values, x)
    BY <1>2, <2>1, StmtRuns
  <2>3. PlainList(StmtCalls(s, f))
    BY <1>2, ListStmt
  <2> QED
    BY <2>2, <2>3, <1>1, <1>2, Zenon
<1> QED
  BY <1>1, <1>3, QuietlyExact

(* A declaration: its type, then its value and its code. *)
LEMMA decl_typecheckExact ==
  ASSUME Inv, Exact, decl_typecheck
  PROVE  Exact'
<1>1. PICK d :
        /\ d = Call.arg
        /\ status = "running" /\ todo # <<>> /\ Call.do = "decl"
        /\ \/ status' = "crashed"
           \/ /\ type_err' = (type_err \/ InvalidType(d.type))
              /\ Replace(DeclCalls(d))
              /\ UNCHANGED status
        /\ UNCHANGED <<ast_head, types, values>>
  BY DEF decl_typecheck, Ready
<1>2. /\ ast_head \in Programs /\ TypesOf(types, ast_head)
      /\ d \in Parts(ast_head).decls
      /\ d.value \in Exprs(ast_head) \cup {None}
      /\ d.code = <<>> \/ \E s \in Parts(ast_head).stmts : d.code = <<s>>
      /\ d.type \in 1 .. Len(types)
      /\ Call = Do("decl", d)
  BY <1>1, CallNow, DeclFacts, CallForms
<1>3. CASE status' = "crashed"
  BY <1>3 DEF Exact
<1>4. CASE type_err' = (type_err \/ InvalidType(d.type)) /\ Replace(DeclCalls(d))
  <2>1. PICK bad \in BOOLEAN : bad <=> InvalidType(d.type)
    OBVIOUS
  <2>2. PICK calls : calls = DeclCalls(d)
    OBVIOUS
  <2>3. ASSUME WithoutAuto
        PROVE  /\ PlainList(calls)
               /\ bad => \A x : ~ Makes(ast_head, types, Call, values, x)
               /\ ~ bad => \A x : Runs(ast_head, types, calls, values, x)
                                    <=> Makes(ast_head, types, Call, values, x)
    <3>1. Known(ast_head, types) /\ Stack(values) /\ Full(types)
      BY <1>1, <2>3, AutoFree, CallOfWalk
    <3>2. ValidTypes(types)[d.type] <=> ~ bad
      BY <1>2, <2>1, <3>1, ValidIsChecked
    <3>3. ~ bad => \A x : Runs(ast_head, types, DeclCalls(d), values, x)
                            <=> Makes(ast_head, types, Do("decl", d), values, x)
      BY <1>2, <3>1, <3>2, DeclRuns
    <3>4. bad => \A x : ~ Makes(ast_head, types, Call, values, x)
      <4>1. SUFFICES ASSUME bad, NEW x, Makes(ast_head, types, Call, values, x) PROVE FALSE
        OBVIOUS
      <4>2. PICK v : Fine(ast_head, types, Call, v)
        BY <4>1 DEF Makes
      <4>3. DeclTyped(ast_head, types, d)
        BY <4>2, <1>1, FineCases
      <4>4. ValidTypes(types)[d.type]
        BY <4>3 DEF DeclTyped, DeclRight
      <4> QED
        BY <4>1, <4>4, <3>2
    <3>5. PlainList(calls)
      <4>1. PICK c1, c2, b : /\ c1 = Do("expr", d.value) /\ c2 = Do("initial", d)
                             /\ b = Bodies(d.code, d)
        OBVIOUS
      <4>2. PlainList(<<Do("expr", d.value)>>) /\ PlainList(<<Do("initial", d)>>)
        <5>1. "expr" # "call" /\ "initial" # "call"
          OBVIOUS
        <5> QED
          BY <5>1, ListOther
      <4>3. <<c1>> \o <<c2>> = <<c1, c2>>
        <5>1. c1 \in {c1, c2} /\ c2 \in {c1, c2}
          OBVIOUS
        <5> QED
          BY ONLY <5>1, Pair
      <4>4. PlainList(<<c1, c2>>)
        <5>1. PlainList(<<c1>>) /\ PlainList(<<c2>>)
          BY <4>1, <4>2
        <5>2. PlainList(<<c1>> \o <<c2>>)
          BY <5>1, ListJoined
        <5> QED
          BY <5>2, <4>3
      <4>5. PlainList(b)
        <5>1. d.code \in Seq(Parts(ast_head).stmts)
          BY <1>2, Single, Nothing
        <5>2. PlainList(Bodies(d.code, d))
          BY <5>1, ListBodies
        <5> QED
          BY <5>2, <4>1
      <4>6. PlainList(<<c1, c2>> \o b)
        BY <4>4, <4>5, ListJoined
      <4>7. calls = <<c1, c2>> \o b
        BY <2>2, <4>1 DEF DeclCalls, Bodies
      <4> QED
        BY <4>6, <4>7
    <3> QED
      BY <3>3, <3>4, <3>5, <2>2, <1>2, Zenon
  <2>4. Replace(calls)
    BY <1>4, <2>2
  <2>5. type_err' = (type_err \/ bad)
    <3>1. bad = InvalidType(d.type)
      <4>1. InvalidType(d.type) \in BOOLEAN
        BY DEF InvalidType
      <4> QED
        BY <2>1, <4>1
    <3> QED
      BY <3>1, <1>4
  <2> QED
    BY <1>1, <2>3, <2>4, <2>5, CallsExact
<1> QED
  BY <1>1, <1>3, <1>4

(* The one type that is taken. *)
LEMMA PlainValue ==
  ASSUME Inv, todo # <<>>, Uses(Call) = 1, values \in Seq(Plain)
  PROVE  Latest(1)[1] \in Plain
<1>1. PICK n : n = 1
  OBVIOUS
<1>2. Latest(n) \in Seq(Plain) /\ Len(Latest(n)) = n
  BY <1>1, PlainLatest
<1> QED
  BY <1>1, <1>2

(* What is returned; nothing is auto, so that the table stays. *)
LEMMA CheckReturnExact ==
  ASSUME Inv, Exact, CheckReturn
  PROVE  Exact'
<1>1. /\ status = "running" /\ todo # <<>> /\ Call.do = "return"
      /\ UNCHANGED ast_head
  BY DEF CheckReturn, Ready
<1>2. PICK f, e : f = Call.arg /\ e = Latest(1)[1]
  OBVIOUS
<1>3. PICK result : result = types[f.type].sub
  OBVIOUS
<1>4. PICK settles \in BOOLEAN :
        settles <=> e # NULL /\ result # 0 /\ types[result].kind = "AUTO"
  OBVIOUS
<1>5. PICK w :
        w = IF e = NULL THEN Verdict(NULL, FALSE, FALSE)
            ELSE IF settles
            THEN Verdict(NULL, Kind(e) = "AUTO", Unprintable({e}) \/ f.symtype = 0)
            ELSE Agree(e, type_copy[result], Kind(e) = "AUTO", NULL)
  OBVIOUS
<1>6. /\ Conclude(1, w, <<>>)
      /\ types' = IF settles /\ status' = "running"
                  THEN [types EXCEPT ![types[f.symtype].sub].kind = Kind(e)]
                  ELSE types
  <2>1. /\ Conclude(1,
             IF e = NULL THEN Verdict(NULL, FALSE, FALSE)
             ELSE IF (e # NULL /\ result # 0 /\ types[result].kind = "AUTO")
             THEN Verdict(NULL, Kind(e) = "AUTO", Unprintable({e}) \/ f.symtype = 0)
             ELSE Agree(e, type_copy[result], Kind(e) = "AUTO", NULL), <<>>)
        /\ types' = IF (e # NULL /\ result # 0 /\ types[result].kind = "AUTO")
                       /\ status' = "running"
                    THEN [types EXCEPT ![types[f.symtype].sub].kind = Kind(e)]
                    ELSE types
    BY <1>2, <1>3 DEF CheckReturn
  <2>2. settles = (e # NULL /\ result # 0 /\ types[result].kind = "AUTO")
    BY <1>4
  <2> QED
    BY <2>1, <2>2, <1>5
<1>7. Uses(Call) = 1
  BY <1>1, CallNow, CallCounts
<1>8. PICK n, v : n = 1 /\ v = Latest(n)
  OBVIOUS
<1>9. ASSUME WithoutAuto, ~ w.crash
      PROVE  types' = types /\ (w.bad <=> ~ Fine(ast_head, types, Call, Latest(n)))
  <2>1. /\ TypesOf(types, ast_head) /\ ast_head \in Programs /\ values \in Seq(Plain)
        /\ \A c \in 1 .. Len(types) : types[c].kind # "AUTO"
        /\ \A c \in 0 .. Len(types) : type_copy[c] \in Plain
    BY <1>1, <1>9, AutoFree
  <2>2. e \in Plain
    BY <2>1, <1>1, <1>2, <1>7, PlainValue
  <2>3. Kind(e) # "AUTO"
    BY <2>2, PlainFacts
  <2>4. result \in 0 .. Len(types)
    <3>1. f.type \in 1 .. Len(types)
      BY <1>1, <1>2, DeclFacts
    <3>2. /\ Len(types) \in Nat
          /\ \A c \in 1 .. Len(types) : types[c].sub \in 0 .. c - 1
      BY <2>1, TableFacts
    <3>3. types[f.type].sub \in 0 .. f.type - 1
      BY <3>1, <3>2
    <3> QED
      BY <3>1, <3>2, <3>3, <1>3
  <2>5. ~ settles
    <3>1. SUFFICES ASSUME settles PROVE FALSE
      OBVIOUS
    <3>2. result # 0 /\ types[result].kind = "AUTO"
      BY <3>1, <1>4
    <3>3. result \in 1 .. Len(types)
      BY <3>2, <2>4
    <3> QED
      BY <3>2, <3>3, <2>1
  <2>6. types' = types
    BY <2>5, <1>6
  <2>7. PICK declared : declared = type_copy[result]
    OBVIOUS
  <2>8. declared \in Plain
    BY <2>1, <2>4, <2>7
  <2>9. Kind(declared) # "AUTO"
    BY <2>8, PlainFacts
  <2>10. ReturnFits(types, e, f) <=> (e # NULL => e = declared)
    BY <2>7, <2>9, <1>3 DEF ReturnFits, type_copy
  <2>11. w.bad <=> e # NULL /\ e # declared
    <3>1. CASE e = NULL
      BY <3>1, <1>5 DEF Verdict
    <3>2. CASE e # NULL
      <4>1. PICK bad \in BOOLEAN : bad <=> Kind(e) = "AUTO"
        OBVIOUS
      <4>2. bad = (Kind(e) = "AUTO")
        BY <4>1
      <4>3. w = Agree(e, declared, bad, NULL)
        BY <3>2, <4>2, <2>5, <2>7, <1>5
      <4>4. Agree(e, declared, bad, NULL).bad <=> bad \/ e # declared
        BY AgreeJudges
      <4>5. w.bad <=> bad \/ e # declared
        BY <4>3, <4>4, Zenon
      <4> QED
        BY <3>2, <4>1, <4>5, <2>3
    <3> QED
      BY <3>1, <3>2
  <2>12. Fine(ast_head, types, Call, v) <=> ReturnFits(types, v[1], f)
    BY <1>1, <1>2, FineCases
  <2>13. v[1] = e /\ v = Latest(n)
    BY <1>2, <1>8
  <2> QED
    BY <2>6, <2>10, <2>11, <2>12, <2>13, Zenon
<1>10. Conclude(n, w, <<>>) /\ n = Uses(Call)
  BY <1>6, <1>7, <1>8
<1>11. Call.do \notin {"expr", "node", "call"}
  BY <1>1
<1> QED
  BY <1>1, <1>9, <1>10, <1>11, EndExact

(* The value of a variable; nothing is auto, so that the table stays. *)
LEMMA CheckInitialExact ==
  ASSUME Inv, Exact, CheckInitial
  PROVE  Exact'
<1>1. /\ status = "running" /\ todo # <<>> /\ Call.do = "initial"
      /\ UNCHANGED ast_head
  BY DEF CheckInitial, Ready
<1>2. PICK d, t : d = Call.arg /\ t = Latest(1)[1]
  OBVIOUS
<1>3. PICK settles \in BOOLEAN : settles <=> t # NULL /\ types[d.type].kind = "AUTO"
  OBVIOUS
<1>4. PICK bad \in BOOLEAN : bad <=> BadInitial(d, t)
  OBVIOUS
<1>5. PICK w :
        w = IF t = NULL THEN Verdict(NULL, FALSE, FALSE)
            ELSE IF d.symtype = 0 THEN Verdict(NULL, FALSE, TRUE)
            ELSE IF settles THEN Verdict(NULL, bad, Unprintable({t}))
            ELSE Agree(type_copy[d.type], t, bad, NULL)
  OBVIOUS
<1>6. /\ Conclude(1, w, <<>>)
      /\ types' = IF settles /\ status' = "running"
                  THEN [types EXCEPT ![d.symtype].kind = Kind(t)]
                  ELSE types
  <2>1. /\ Conclude(1,
             IF t = NULL THEN Verdict(NULL, FALSE, FALSE)
             ELSE IF d.symtype = 0 THEN Verdict(NULL, FALSE, TRUE)
             ELSE IF (t # NULL /\ types[d.type].kind = "AUTO")
             THEN Verdict(NULL, BadInitial(d, t), Unprintable({t}))
             ELSE Agree(type_copy[d.type], t, BadInitial(d, t), NULL), <<>>)
        /\ types' = IF (t # NULL /\ types[d.type].kind = "AUTO") /\ status' = "running"
                    THEN [types EXCEPT ![d.symtype].kind = Kind(t)]
                    ELSE types
    BY <1>2 DEF CheckInitial
  <2>2. settles = (t # NULL /\ types[d.type].kind = "AUTO")
    BY <1>3
  <2>3. bad = BadInitial(d, t)
    <3>1. BadInitial(d, t) \in BOOLEAN
      BY DEF BadInitial
    <3> QED
      BY <3>1, <1>4
  <2> QED
    BY <2>1, <2>2, <2>3, <1>5
<1>7. Uses(Call) = 1
  BY <1>1, CallNow, CallCounts
<1>8. PICK n, v : n = 1 /\ v = Latest(n)
  OBVIOUS
<1>9. ASSUME WithoutAuto, ~ w.crash
      PROVE  types' = types /\ (w.bad <=> ~ Fine(ast_head, types, Call, Latest(n)))
  <2>1. \A c \in 1 .. Len(types) : types[c].kind # "AUTO"
    BY <1>1, <1>9, AutoFree
  <2>2. d.type \in 1 .. Len(types)
    BY <1>1, <1>2, DeclFacts
  <2>3. ~ settles
    BY <2>1, <2>2, <1>3
  <2>4. types' = types
    BY <2>3, <1>6
  <2>5. PICK declared : declared = type_copy[d.type]
    OBVIOUS
  <2>6. w.bad <=> t # NULL /\ (bad \/ declared # t)
    <3>1. CASE t = NULL
      BY <3>1, <1>5 DEF Verdict
    <3>2. CASE t # NULL
      <4>1. d.symtype # 0
        BY <3>2, <1>5, <1>9 DEF Verdict
      <4>2. w = Agree(declared, t, bad, NULL)
        BY <3>2, <4>1, <2>3, <2>5, <1>5
      <4>3. Agree(declared, t, bad, NULL).bad <=> bad \/ declared # t
        BY AgreeJudges
      <4>4. w.bad <=> bad \/ declared # t
        BY <4>2, <4>3, Zenon
      <4> QED
        BY <3>2, <4>4
    <3> QED
      BY <3>1, <3>2
  <2>7. InitialFits(ast_head, types, t, d) <=> (t # NULL => ~ bad /\ declared = t)
    BY <2>5, <1>4 DEF InitialFits, BadInitial, Storable, type_copy, expr_constant
  <2>8. Fine(ast_head, types, Call, v) <=> InitialFits(ast_head, types, v[1], d)
    BY <1>1, <1>2, FineCases
  <2>9. v[1] = t /\ v = Latest(n)
    BY <1>2, <1>8
  <2>10. Fine(ast_head, types, Call, Latest(n)) <=> InitialFits(ast_head, types, t, d)
    BY <2>8, <2>9, Zenon
  <2> QED
    BY <2>4, <2>6, <2>7, <2>10
<1>10. Conclude(n, w, <<>>) /\ n = Uses(Call)
  BY <1>6, <1>7, <1>8
<1>11. Call.do \notin {"expr", "node", "call"}
  BY <1>1
<1> QED
  BY <1>1, <1>9, <1>10, <1>11, EndExact

-----------------------------------------------------------------------------
(***************************************************************************)
(* The theorem.                                                            *)
(***************************************************************************)

(* Before the walk, the declarations of the program remain, and nothing was found. *)
LEMMA InitExact ==
  ASSUME TypeCheckInit
  PROVE  Exact
<1>1. PICK p, table, td :
        /\ p \in Programs /\ p = ast_head /\ table = p.types /\ table = types /\ td = Each("decl", p.decls) /\ td = todo
        /\ values = <<>> /\ type_err = FALSE
  BY DEF TypeCheckInit
<1>2. PICK l \in Nat : l = Len(p.decls) /\ DOMAIN p.decls = 1 .. l
                       /\ \A i \in 1 .. l : p.decls[i] \in Parts(p).decls
  BY <1>1, ProgramsAssumption
<1> DEFINE S == {Do("decl", p.decls[i]) : i \in 1 .. l}
<1>3. /\ td \in Seq(S) /\ DOMAIN td = 1 .. l
      /\ \A k \in 1 .. l : td[k] = Do("decl", p.decls[k])
  <2>1. td = [i \in 1 .. l |-> Do("decl", p.decls[i])]
    BY <1>1, <1>2 DEF Each
  <2>2. td \in [1 .. l -> S]
    BY <2>1
  <2> QED
    BY <2>1, <2>2, Listed
<1> HIDE DEF S
<1>4. \A k \in DOMAIN td : td[k].do = "decl" /\ td[k].arg = p.decls[k]
  BY <1>3, DoFacts
<1>5. PICK w : w = <<>> /\ w \in Seq({}) /\ w \in Seq(Plain)
  BY Nothing
<1>6. Stack(w)
  BY <1>5, Stacks
<1>7. \A x : Runs(p, table, td, w, x) <=> (\A k \in DOMAIN td : Fine(p, table, td[k], <<>>)) /\ x = w
  <2>1. \A k \in DOMAIN td : td[k].do \in Outer
    BY <1>4 DEF Outer
  <2> QED
    BY <1>3, <1>6, <2>1, RunsOuter
<1>8. \A k \in DOMAIN td : Fine(p, table, td[k], <<>>) <=> DeclTyped(p, table, p.decls[k])
  BY <1>4, FineCases
<1>9. WellTyped(p, table) <=> \A k \in DOMAIN td : Fine(p, table, td[k], <<>>)
  BY <1>2, <1>3, <1>8 DEF WellTyped
<1>10. WellTyped(p, table) <=> Passes(p, table, td, w)
  BY <1>7, <1>9, Zenon DEF Passes
<1>11. PlainCalls(td)
  <2>1. \A k \in DOMAIN td : td[k].do # "call"
    BY <1>4
  <2> QED
    BY <2>1, <1>3, NoCalls
<1>12. Judged(ast_head, types, todo, values, type_err)
  BY <1>1, <1>5, <1>10 DEF Judged
<1> QED
  BY <1>1, <1>5, <1>11, <1>12 DEF Exact

(* Every handler keeps track of what the walk will find. *)
LEMMA NextExact ==
  ASSUME Inv, Exact, [Next]_vars
  PROVE  Exact'
<1>1. CASE SkipNull
  BY <1>1, SkipNullExact
<1>2. CASE Descend
  BY <1>2, DescendExact
<1>3. CASE CheckNode
  BY <1>3, CheckNodeExact
<1>4. CASE CheckAssign
  BY <1>4, CheckAssignExact
<1>5. CASE EnterCall
  BY <1>5, EnterCallExact
<1>6. CASE CallUnresolved
  BY <1>6, CallUnresolvedExact
<1>7. CASE CheckArguments
  BY <1>7, CheckArgumentsExact
<1>8. CASE CallNonFunction
  BY <1>8, CallNonFunctionExact
<1>9. CASE CallReturns
  BY <1>9, CallReturnsExact
<1>10. CASE CallNext
  BY <1>10, CallNextExact
<1>11. CASE CheckArgument
  BY <1>11, CheckArgumentExact
<1>12. CASE stmt_typecheck
  BY <1>12, stmt_typecheckExact
<1>13. CASE ForgetResult
  BY <1>13, ForgetResultExact
<1>14. CASE CheckCondition
  BY <1>14, CheckConditionExact
<1>15. CASE CheckLoop
  BY <1>15, CheckLoopExact
<1>16. CASE CheckReturn
  BY <1>16, CheckReturnExact
<1>17. CASE decl_typecheck
  BY <1>17, decl_typecheckExact
<1>18. CASE CheckInitial
  BY <1>18, CheckInitialExact
<1>19. CASE UNCHANGED vars
  BY <1>19 DEF vars, Exact, WithoutAuto
<1>20. CASE Terminated
  BY <1>19, <1>20 DEF Terminated
<1> QED
  BY <1>1, <1>2, <1>3, <1>4, <1>5, <1>6, <1>7, <1>8, <1>9, <1>10, <1>11, <1>12, <1>13,
     <1>14, <1>15, <1>16, <1>17, <1>18, <1>19, <1>20 DEF Next

(* A program in which nothing is auto is rejected exactly when it breaks a *)
(* typing rule.                                                            *)
THEOREM TypeErrorsAreExact == Spec => []TypeErrorsExact
<1>1. TypeCheckInit => Inv /\ Exact
  BY InitInv, InitExact
<1>2. Inv /\ Exact /\ [Next]_vars => (Inv /\ Exact)'
  BY NextInv, NextExact
<1>3. Inv /\ Exact => TypeErrorsExact
  <2>1. SUFFICES ASSUME Inv, Exact, Done, WithoutAuto
                 PROVE  types = ast_head.types /\ (type_err <=> ~ WellTyped(ast_head, types))
    BY DEF TypeErrorsExact
  <2>2. status = "running" /\ todo = <<>>
    BY <2>1 DEF Done
  <2>3. types = ast_head.types /\ Judged(ast_head, types, todo, values, type_err)
    BY <2>1, <2>2 DEF Exact
  <2>4. Passes(ast_head, types, <<>>, values)
    BY RunsNothing DEF Passes
  <2>5. type_err <=> ~ WellTyped(ast_head, types)
    BY <2>2, <2>3, <2>4 DEF Judged
  <2> QED
    BY <2>3, <2>5
<1> QED
  BY <1>1, <1>2, <1>3, PTL DEF Spec
=============================================================================
