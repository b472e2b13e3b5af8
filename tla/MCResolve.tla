----------------------------- MODULE MCResolve -----------------------------
(***************************************************************************)
(* Programs for name resolution, and their texts.                          *)
(***************************************************************************)
EXTENDS Scoping

MCNames == {"x", "y", "f"}

Plain == [fun |-> FALSE, sig |-> <<"INTEGER">>]

(* A function type from the words of its result and of its parameters.     *)
FunctionType(result, params) ==
  [fun |-> TRUE, sig |-> <<"FUNCTION">> \o result \o params \o <<"end">>]

TypeOf(params) ==
  FunctionType(<<"INTEGER">>, [i \in DOMAIN params |-> "INTEGER"])

Var(name, uses) ==
  [name |-> name, type |-> Plain, uses |-> uses, params |-> <<>>, code |-> <<>>]
Proto(name, params) ==
  [name |-> name, type |-> TypeOf(params), uses |-> <<>>, params |-> params,
   code |-> <<>>]

Stmt(kind, uses, body, else_body) ==
  [kind |-> kind, uses |-> uses, body |-> body, else_body |-> else_body]
Local(d) == [kind |-> "DECL", decl |-> d]
Use(uses) == Stmt("EXPR", uses, <<>>, <<>>)
Block(body) == Stmt("BLOCK", <<>>, body, <<>>)
If(uses, body, else_body) == Stmt("IF_ELSE", uses, body, else_body)
For(uses, body) == Stmt("FOR", uses, body, <<>>)

Def(name, params, body) ==
  [Proto(name, params) EXCEPT !.code = <<Block(body)>>]

Simple == {Use(<<"x", "y">>), Local(Var("x", <<"x">>)), Local(Var("y", <<"x">>))}

Compound ==
  {Block(<<s>>) : s \in Simple}
  \cup {If(<<"x">>, <<s>>, <<Block(<<t>>)>>) : s \in Simple, t \in Simple}
  \cup {For(<<"y">>, <<Block(<<s, t>>)>>) : s \in Simple, t \in Simple}
  \cup {Local(Proto("f", <<"x">>)), Local(Def("f", <<"y">>, <<Use(<<"y", "f">>)>>)),
        Block(<<Local(Var("y", <<>>)), Block(<<Local(Var("y", <<"y">>))>>),
                Use(<<"y">>)>>)}

Bodies == {<<s>> : s \in Compound}
          \cup {<<s, t>> : s \in Simple \cup Compound, t \in Simple}
          \cup {<<s, t>> : s \in Simple, t \in Compound}

Redeclarations ==
  {Var("f", <<"x">>), Var("x", <<>>), Proto("f", <<>>), Proto("f", <<"x">>),
   Proto("f", <<"y">>), Proto("f", <<"x", "x">>),
   Def("f", <<>>, <<Use(<<"f">>)>>),
   Def("f", <<"x">>, <<Use(<<"x">>), Local(Var("y", <<"x">>))>>)}

(* Functions with arrays, with and without a size.                         *)
Unsized == <<"ARRAY", "INTEGER", NoSize>>
Sized == <<"ARRAY", "INTEGER", "5">>

(* An "array []" behind words that agree, and behind some that differ.     *)
UnsizedTypes ==
  {FunctionType(<<"INTEGER">>, Unsized), FunctionType(<<"VOID">>, Unsized)}

ArrayTypes ==
  UnsizedTypes \cup
  {FunctionType(<<"INTEGER">>, Sized), FunctionType(Unsized, <<>>),
   FunctionType(<<"INTEGER">>, <<"INTEGER">>)}

(* The last one declares the name in a scope of its own. *)
Redeclared(fs) ==
  {[d EXCEPT !.type = ty] : ty \in fs,
     d \in {Proto("f", <<"x">>), Def("f", <<"x">>, <<Use(<<"x">>)>>)}}
  \cup {Var("f", <<>>),
        Def("x", <<>>, <<Local([Proto("f", <<"x">>) EXCEPT
                                  !.type = FunctionType(<<"INTEGER">>, Unsized)])>>)}

(* Nested scopes within one function, and one name declared three times. *)
MCSources ==
  {<<Var("x", <<>>), Def("f", p, b)>> :
     p \in {<<>>, <<"y">>, <<"x", "y">>}, b \in Bodies}
  \cup {<<d, e, g>> : d \in Redeclarations, e \in Redeclarations,
                      g \in Redeclarations}
  \cup {<<d, e>> : d \in Redeclared(ArrayTypes), e \in Redeclared(ArrayTypes)}
  \cup {<<d, e, g>> : d \in Redeclared(UnsizedTypes), e \in Redeclared(UnsizedTypes),
                      g \in Redeclared(UnsizedTypes)}

RECURSIVE StmtsIn(_)

StmtsIn(body) ==
  UNION {{s} \cup (IF s.kind = "DECL" THEN StmtsIn(s.decl.code)
                   ELSE StmtsIn(s.body) \cup StmtsIn(s.else_body)) :
           s \in Range(body)}

MCStmts == UNION {UNION {StmtsIn(d.code) : d \in Range(p)} : p \in MCSources}
MCDecls == UNION {Range(p) : p \in MCSources}
           \cup {s.decl : s \in {t \in MCStmts : t.kind = "DECL"}}

(* The texts of declarations and statements, by recursion. *)
RECURSIVE TextOfStmt(_), TextOfDecl(_)

TextOfBody(body) == FlattenSeq([i \in DOMAIN body |-> TextOfStmt(body[i])])

TextOfDecl(d) ==
  Mentions(d.uses) \o <<Declare(d)>> \o
  (IF d.type.fun THEN Scoped(Parameters(d.params) \o TextOfBody(d.code)) ELSE <<>>)

TextOfStmt(s) ==
  CASE s.kind = "DECL" -> TextOfDecl(s.decl)
    [] s.kind = "EXPR" -> Mentions(s.uses)
    [] s.kind = "BLOCK" -> Scoped(TextOfBody(s.body))
    [] s.kind = "FOR" -> Mentions(s.uses) \o Scoped(TextOfBody(s.body))
    [] s.kind = "IF_ELSE" -> Mentions(s.uses) \o Scoped(TextOfBody(s.body))
                                             \o Scoped(TextOfBody(s.else_body))

MCDeclText == [d \in MCDecls |-> TextOfDecl(d)]
MCStmtText == [s \in MCStmts |-> TextOfStmt(s)]
=============================================================================
