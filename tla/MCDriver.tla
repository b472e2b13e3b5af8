------------------------------ MODULE MCDriver ------------------------------
(***************************************************************************)
(* Source files for Driver: every operator over every other one with its   *)
(* operands in parentheses, every statement in every other one, every type *)
(* and every short literal.                                                *)
(***************************************************************************)
EXTENDS Driver, Grammar, Trees
LOCAL INSTANCE SequencesExt

Name(x) == Node("ID", <<>>, x)
A == Name("a")
One == Num(1)
Group(e) == expr_wrap(e)

(* Source text with parentheses around every operand. *)
RECURSIVE Careful(_)
Careful(e) ==
  [e EXCEPT !.sub = [i \in DOMAIN e.sub |->
     IF e.kind \in {"FCALL", "ARG", "BRACE"} THEN Careful(e.sub[i])
                                             ELSE Group(Careful(e.sub[i]))]]
Written(e) == Spelled(Careful(e))

RECURSIVE WrittenStmt(_)
WrittenStmt(s) ==
  LET e(i) == Written(s.sub[i])
      of(i) == WrittenStmt(s.sub[i])
  IN
  CASE s.kind = "EXPR" -> e(1) \o <<T(";")>>
    [] s.kind = "RETURN" -> <<T("return"), T(";")>>
    [] s.kind = "PRINT" -> <<T("print")>> \o Joined([i \in DOMAIN s.sub |-> e(i)], ",") \o <<T(";")>>
    [] s.kind = "BLOCK" -> <<T("{")>> \o FlattenSeq([i \in DOMAIN s.sub |-> of(i)]) \o <<T("}")>>
    [] s.kind = "IF_ELSE" ->
         <<T("if"), T("(")>> \o e(1) \o <<T(")")>> \o of(2)
         \o (IF s.sub[3] = None THEN <<>> ELSE <<T("else")>> \o of(3))
    [] s.kind = "FOR" ->
         <<T("for"), T("(")>> \o Joined(<<e(1), e(2), e(3)>>, ";") \o <<T(")")>> \o of(4)
    [] s.kind = "DECL" -> decl_print(s)

Declare(name, type_, sub) == Node("DECL", sub, [name |-> name, type |-> type_])
Type(name) == Node("TYPE", <<>>, name)
ArrayType(size, of) == Node("ARRAY", <<size, of>>, 0)
FunctionType(of, params) == Node("FUNCTION", <<of>>, params)
List(s) == Node("ARG", s, 0)
Brace(s) == Node("BRACE", s, 0)

InMain(written) ==
  <<Word("ID", "main"), T(":"), T("function"), T("void"), T("("), T(")"), T("="), T("{")>>
  \o written \o <<T("}")>>

(***************************************************************************)
(* Expressions: one operator of each kind of precedence below each         *)
(* operator.                                                               *)
(***************************************************************************)
Level1 ==
  {A} \cup Binary({"ASSIGN", "OR", "AND", "LT", "SUB", "MUL", "EXPONENT"}, {A})
  \cup Unaries({"NEGATION", "NOT", "INCREMENT"}, {A})
  \cup {Element(A, A), FCall("f", <<A, One>>), Node("TERNARY1", <<A, A, A>>, 0)}

Level2 ==
  Binary({"ASSIGN", "OR", "AND", "GTE", "ADD", "SUB", "DIV", "MOD", "EXPONENT", "INDEX"}, Level1)
  \cup Unaries({"NEGATION", "NOT", "INCREMENT", "DECREMENT"}, Level1)
  \cup UNION {{Node("TERNARY1", <<e, A, A>>, 0), Node("TERNARY1", <<A, e, A>>, 0),
               Node("TERNARY1", <<A, A, e>>, 0), FCall("f", <<e, A>>)} : e \in Level1}

(* A minus sign deep on the left of an operand; parentheses three deep.    *)
Level3 ==
  {Binary_("SUB", A, Binary_("MUL", e, A)) : e \in Level1}
  \cup {Binary_("SUB", Unary_("DECREMENT", A), e) : e \in Level1}
  \cup {Binary_("MUL", Binary_("ADD", Binary_("ASSIGN", A, e), A), A) : e \in Level1}

(***************************************************************************)
(* Literals.                                                               *)
(***************************************************************************)
Raw(n) == UNION {[1 .. k -> {"a", "n", "0", Backslash, "\"", "'"}] : k \in 0 .. n}
Numbers == {Word("INT_LIT", n) : n \in 0 .. IntRange + 1}
Literals ==
  {<<Word("STR_LIT", s)>> : s \in Raw(3)} \cup {<<Word("CHAR_LIT", s)>> : s \in Raw(2)}
  \cup {<<n>> : n \in Numbers} \cup {<<T("-"), n>> : n \in Numbers}
  \cup {<<n, T("-"), n>> : n \in Numbers}

(***************************************************************************)
(* Statements and declarations.                                            *)
(***************************************************************************)
Stmt0 == {ExprStmt(A), Block(<<>>), Block(<<ExprStmt(A)>>), Return_(<<>>),
          Declare("x", Type("integer"), <<List(<<One>>)>>)}
Ifs(S, R) == {If(A, s, t) : s \in S, t \in R \cup {None}}
Fors(S) == {For(i, c, None, s) : i \in {None, Assign(A, One)}, c \in {None, A}, s \in S}
Blocks(S) == {Block(<<s, t>>) : s \in S, t \in S} \cup {Block(<<s>>) : s \in S}
Stmt1 == Ifs(Stmt0, Stmt0) \cup Fors(Stmt0) \cup Blocks(Stmt0)
Some1 == {If(A, ExprStmt(A), None), If(A, ExprStmt(A), Block(<<>>)), For(None, None, A, ExprStmt(A)),
          Block(<<Block(<<>>)>>), Block(<<Block(<<>>), ExprStmt(A)>>)}
Stmt2 == Ifs(Some1, Some1) \cup Fors(Some1) \cup Blocks(Some1)
         \cup {PrintStmt(s, 0) : s \in {<<>>, <<A>>, <<A, One>>}}

Types ==
  LET flat == {Type(n) : n \in Simple}
      nested == {ArrayType(s, t) : s \in {None, One, Binary_("ADD", One, One)}, t \in flat}
  IN  flat \cup nested
      \cup {ArrayType(One, t) : t \in nested}
      \cup {FunctionType(Type("void"), [i \in 1 .. n |-> [name |-> "p", type |-> t]]) :
              n \in 0 .. 2, t \in flat \cup nested}

Values ==
  {List(<<One>>), List(<<One, A>>), Brace(<<List(<<One, One>>)>>),
   Brace(<<Brace(<<List(<<One>>), Brace(<<List(<<A, One>>)>>)>>)>>),
   Brace(<<List(<<One>>), List(<<A>>)>>)}

MCDecls ==
  {Declare("d", t, <<>>) : t \in Types}
  \cup {Declare("d", Type("auto"), <<v>>) : v \in Values}
  \cup {Declare("d", FunctionType(Type("void"), <<>>), <<s>>) :
          s \in {t \in Stmt1 \cup Stmt2 : t.kind = "BLOCK"}}

WrittenDecl(d) ==
  IF d.sub # <<>> /\ d.sub[1].kind = "BLOCK"
  THEN <<Word("ID", "d"), T(":")>> \o type_print(d.val.type) \o <<T("=")>> \o WrittenStmt(d.sub[1])
  ELSE decl_print(d)

(***************************************************************************)
(* Command lines.                                                          *)
(***************************************************************************)
Texts ==
  {InMain(Written(e) \o <<T(";")>>) : e \in Level2 \cup Level3}
  \cup {InMain(word \o <<T(";")>>) : word \in Literals}
  \cup {InMain(WrittenStmt(s)) : s \in Stmt1 \cup Stmt2}
  \cup {WrittenDecl(d) : d \in MCDecls}

Shown(e) == InMain(Written(e) \o <<T(";")>>)
Broken ==
  {InMain(<<T("invalid")>>), InMain(<<T(";")>>), InMain(<<T("while"), T("("), T(")")>>),
   InMain(Written(A)), <<Word("ID", "x")>>, InMain(<<T("("), Word("ID", "a"), T(";")>>)}
Few ==
  {<<>>} \cup Broken \cup {Shown(e) : e \in Level1 \cup Binary(Arithmetic \cup Comparison, {A})}
  \cup {WrittenDecl(Declare("d", t, <<>>)) : t \in Types}
  \cup {InMain(WrittenStmt(s)) : s \in Some1}

Line(count, mode, readable) == [count |-> count, mode |-> mode, readable |-> readable]
MCCommands ==
  {[argv |-> Line(3, "-print", TRUE), text |-> t] : t \in Texts}
  \cup {[argv |-> Line(n, m, TRUE), text |-> t] :
          n \in {3, 4}, m \in ParsingModes \cup {"-scan"}, t \in Few}
  \cup {[argv |-> Line(n, m, r), text |-> <<>>] :
          n \in {1, 2, 3, 4}, m \in {"-codegen", "-help"}, r \in BOOLEAN}

(***************************************************************************)
(* What the printer gets wrong.                                            *)
(***************************************************************************)
RECURSIVE Within(_)
Within(n) == {n} \cup UNION {Within(n.sub[i]) : i \in DOMAIN n.sub}

RECURSIVE LeadsWithMinus(_)
LeadsWithMinus(e) ==
  \/ e.kind = "NEGATION"
  \/ /\ e.kind \notin Leaf \cup {"NOT", "FCALL"}
     /\ ~ Fenced(e, 1) /\ LeadsWithMinus(e.sub[1])

Misprinted(n) ==
  \/ n.kind \in {"NEGATION", "NOT"} \cup Step /\ Precedence(n.sub[1].kind) < 8
  \/ n.kind = "SUB" /\ ~ Fenced(n, 2) /\ LeadsWithMinus(n.sub[2])
  \/ n.kind = "BLOCK" /\ Len(n.sub) > 1 /\ n.sub[1].kind = "BLOCK"
  \/ n.kind = "STR_LIT" /\ \E i \in DOMAIN n.val : n.val[i] = Backslash
  \/ n.kind = "CHAR_LIT" /\ n.val = Backslash
  \/ n.kind = "INT_LIT" /\ n.val < 0

(* A tree up to the braces that stmt_print adds and drops. *)
RECURSIVE Normal(_)
Normal(n) ==
  LET sub == [i \in DOMAIN n.sub |-> Normal(n.sub[i])]
      branch(s) == IF s.kind = "NONE" THEN s ELSE stmt_wrap(s)
  IN
  CASE n.kind = "BLOCK" /\ Len(sub) = 1 /\ sub[1].kind = "BLOCK" -> sub[1]
    [] n.kind = "FOR" -> [n EXCEPT !.sub = <<sub[1], sub[2], sub[3], branch(sub[4])>>]
    [] n.kind = "IF_ELSE" ->
         [n EXCEPT !.sub = <<sub[1], branch(sub[2]),
                             IF sub[3].kind = "IF_ELSE" THEN sub[3] ELSE branch(sub[3])>>]
    [] OTHER -> [n EXCEPT !.sub = sub]

PrintedTwice == at = "exited" /\ first # None_
Same ==
  /\ status = 0
  /\ Normal(ast_head) = Normal(first.tree)
  /\ stdout = first.stdout

(* Printing a file and printing the result give the same program and the   *)
(* same text, unless the program has an operator ++, --, - or ! over an    *)
(* operator of lower precedence, two minus signs in a row, a block that    *)
(* begins with a block, a backslash in a literal, or a literal above the   *)
(* largest int; and then they do not.                                      *)
ReformatsExcept ==
  PrintedTwice => (Same <=> ~ \E n \in Within(first.tree) : Misprinted(n))

(* README.md: the printer reformats the file. *)
Reformats == PrintedTwice => Same

(* A file that the parser accepts is a sequence of tokens that -scan       *)
(* accepts, except for the question mark of a ternary.                     *)
ParsesImpliesScans ==
  (at = "exited" /\ argv.mode = "-scan" /\ status = 1 /\ yyparse(file).ok) =>
    T("?") \in {file[i] : i \in DOMAIN file}
=============================================================================
