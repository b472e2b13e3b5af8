---------------------------- MODULE MCTypeCheck ----------------------------
(***************************************************************************)
(* Programs for the type checker, and the properties that the comments and *)
(* tests of the code state and the code does not have.                     *)
(***************************************************************************)
EXTENDS Typing

CONSTANT Suite      \* which of the sets of programs below is checked

(***************************************************************************)
(* The types of the programs' symbols.                                     *)
(***************************************************************************)
Type(kind, sub, params, size) ==
  [kind |-> kind, sub |-> sub, params |-> params, size |-> size]
Plain(kind) == Type(kind, 0, <<>>, NoSize)

Declared ==
  << Plain("INTEGER"), Plain("BOOLEAN"), Plain("CHARACTER"), Plain("STRING"),
     Plain("VOID"),
     Type("ARRAY", 1, <<>>, "2"),           \* 6   array [2] integer
     Type("ARRAY", 6, <<>>, "2"),           \* 7   array [2] array [2] integer
     Type("FUNCTION", 1, <<1>>, NoSize),    \* 8   function integer (integer)
     Type("FUNCTION", 5, <<>>, NoSize),     \* 9   function void ()
     Type("FUNCTION", 1, <<>>, NoSize),     \* 10  function integer ()
     Type("FUNCTION", 2, <<6, 1>>, NoSize), \* 11
     Type("ARRAY", 1, <<>>, Computed),      \* 12  array [1 + 1] integer
     Type("ARRAY", 9, <<>>, "2"),           \* 13  array [2] function
     Type("FUNCTION", 9, <<>>, NoSize),     \* 14  function function
     Type("FUNCTION", 5, <<9>>, NoSize) >>  \* 15  function (function)

MoreDeclared ==
  Declared \o
  << Type("FUNCTION", 1, <<5>>, NoSize),    \* 16  function integer (void)
     Type("FUNCTION", 1, <<>>, NoSize) >>   \* 17  function integer ()

WithAuto ==
  Declared \o
  << Plain("AUTO"), Plain("AUTO"),          \* 16, 17
     Type("FUNCTION", 17, <<>>, NoSize),    \* 18  function auto ()
     Plain("AUTO"),
     Type("FUNCTION", 19, <<>>, NoSize),    \* 20  function auto ()
     Type("ARRAY", 16, <<>>, "2"),          \* 21  array [2] auto
     Type("ARRAY", 1, <<>>, NoSize),        \* 22  array [] integer
     Type("FUNCTION", 1, <<22>>, NoSize) >> \* 23  function (array [] integer)

(***************************************************************************)
(* Expressions.                                                            *)
(***************************************************************************)
Id(type) == Node("ID", <<>>, type)
One == Node("INT_LIT", <<>>, 1)
Letter == Node("CHAR_LIT", <<>>, 97)
Truth == Node("BOOL_LIT", <<>>, 1)
Text == Node("STR_LIT", <<>>, "text")
CallOf(type, args) == Node("FCALL", args, type)
Assign(e, f) == Node("ASSIGN", <<e, f>>, 0)
Initial(elements) == Node("BRACE", elements, "row")
InitialRows(rows) == Node("BRACE", rows, "rows")

Binary == {"MUL", "LTE", "OR", "EQ", "INDEX", "ASSIGN"}
Unary1 == {"NEGATION", "NOT", "INCREMENT", "GROUP"}

Over(S, T) ==
  {Node(k, <<e, f>>, 0) : k \in Binary, e \in S, f \in T}
  \cup {Node(k, <<e>>, 0) : k \in Unary1, e \in S}
  \cup {Node("TERNARY1", <<e, f, f>>, 0) : e \in S, f \in T}
  \cup {CallOf(8, <<e>>) : e \in S}

Leaves == {One, Id(1), Id(2), Id(6), CallOf(9, <<>>)}
MoreLeaves == Leaves \cup {Letter, Text, Id(7), Id(8)}

Expressions ==
  LET one == Over(MoreLeaves, Leaves) IN
  one
  \cup Over({e \in one : e.kind \in {"INDEX", "EQ", "ASSIGN", "TERNARY1"}},
            {One, Id(2), Id(6)})
  \cup {Node("TERNARY1", <<Truth, e, f>>, 0) : e \in MoreLeaves, f \in Leaves}
  \cup {CallOf(11, args) : args \in {<<>>, <<Id(6)>>, <<Id(6), One>>,
                                     <<One, Id(6)>>, <<Id(6), One, One>>}}
  \cup {CallOf(9, <<One>>), CallOf(1, <<One>>), CallOf(8, <<>>)}

(***************************************************************************)
(* Statements, declarations and programs.                                  *)
(***************************************************************************)
Stmt(kind, sub) == Node(kind, sub, 0)

(* A value without braces is a list of one. *)
Listed(e) == IF e.kind \in {"NONE", "BRACE", "ARG"} THEN e ELSE Node("ARG", <<e>>, 0)

Decl(type, symtype, global, value, code) ==
  [type |-> type, symtype |-> symtype, global |-> global, value |-> Listed(value),
   code |-> code]
Global(type, value) == Decl(type, type, TRUE, value, <<>>)
Local(type, value) ==
  Node("DECL", <<>>, Decl(type, type, FALSE, value, <<>>))
Function(type, body) ==
  Decl(type, type, TRUE, None, <<Stmt("BLOCK", body)>>)

(* A function defined after a prototype of it, which is what its symbol    *)
(* has for its type.                                                       *)
Prototyped(prototype, type, body) ==
  <<Global(prototype, None),
    [Function(type, body) EXCEPT !.symtype = prototype]>>

Program(decls, table) == [decls |-> decls, types |-> table]

Some == {One, Id(2), Id(6), CallOf(9, <<>>), Assign(Id(1), One)}

Statements ==
  {Stmt("IF_ELSE", <<e, Stmt("RETURN", <<f>>), None>>) : e \in Some, f \in Some}
  \cup {Stmt("FOR", <<e, f, g, Stmt("EXPR", <<Node("NOT", <<h>>, 0)>>)>>) :
          e \in {None, One, Id(2)}, f \in {None, Id(2), One},
          g \in {None, One, Id(6)}, h \in {Truth, One}}
  \cup {Stmt("PRINT", args) : args \in {<<>>} \cup {<<e, f>> : e \in Some, f \in Some}}
  \cup {Local(t, e) : t \in {1, 2, 6}, e \in Some \cup {Initial(<<One, One>>), None}}

DeclPrograms ==
  {Program(<<Global(t, e)>>, Declared) :
     t \in {1, 2, 6, 7, 12, 13, 14, 15},
     e \in {None, One, Id(1), Node("ADD", <<One, One>>, 0), Initial(<<One, Id(1)>>),
            Node("ARG", <<One, Letter>>, 0), Node("ARG", <<Letter, One>>, 0),
            Initial(<<One, One>>), Initial(<<Id(6), Id(6)>>),
            InitialRows(<<Initial(<<One, One>>), Initial(<<One, One>>)>>),
            InitialRows(<<Initial(<<One, One>>), Initial(<<One>>)>>),
            InitialRows(<<Initial(<<One, One>>)>>)}}

(* Definitions of prototypes, and arguments without a value. *)
MorePrograms ==
  {Program(Prototyped(17, 10, <<Stmt("RETURN", <<e>>)>>), MoreDeclared) :
     e \in {One, Letter, Id(9), CallOf(16, <<CallOf(9, <<>>)>>)}}

(* Code of a declaration that is no function, where nothing has a symbol.  *)
Unresolved(type, value, code) == Decl(type, 0, FALSE, value, code)
Bodies0 ==
  {Stmt("RETURN", <<>>), Stmt("RETURN", <<One>>), Stmt("PRINT", <<One>>),
   Stmt("EXPR", <<Id(0)>>), Stmt("EXPR", <<CallOf(0, <<>>)>>)}
  \cup {Node("DECL", <<>>, Unresolved(t, e, <<>>)) : t \in {1, 16}, e \in {None, One}}
  \cup {Node("DECL", <<>>, Unresolved(t, None, <<Stmt("BLOCK", <<Stmt("RETURN", s)>>)>>)) :
          t \in {1, 10, 18}, s \in {<<>>, <<One>>}}

OddPrograms ==
  {Program(<<Decl(t, t, TRUE, None, <<Stmt("BLOCK", <<s>>)>>)>>, WithAuto) :
     t \in {1, 16}, s \in Bodies0}

(* Declarations of auto type, their uses, and their returns. *)
AutoValues == {One, Id(2), Letter, Id(16), CallOf(18, <<>>), CallOf(9, <<>>), Id(6)}

AutoPrograms ==
  {Program(<<Function(18, <<Stmt("RETURN", s), Local(16, e)>>),
             Function(f, <<Local(17, Node("TERNARY1", <<Truth, Id(16), d>>, 0)),
                           Stmt("RETURN", <<Id(17)>>)>>)>>, WithAuto) :
     s \in {<<>>, <<One>>, <<Id(2)>>}, e \in AutoValues, d \in AutoValues,
     f \in {10, 20}}
  \cup {Program(Prototyped(20, 18, <<Stmt("RETURN", <<e>>), Stmt("RETURN", <<d>>)>>),
                WithAuto) : e \in AutoValues, d \in {One, CallOf(18, <<>>)}}
  \cup {Program(<<Function(9, <<Stmt("EXPR", <<e>>)>>)>>, WithAuto) :
          e \in {Assign(Id(16), One), Assign(Node("INDEX", <<Id(21), One>>, 0), One),
                 Node("ADD", <<Id(16), Assign(Id(16), One)>>, 0),
                 CallOf(8, <<Id(16)>>), CallOf(23, <<Id(6)>>),
                 Assign(Id(16), CallOf(8, <<Assign(Id(16), Id(9))>>)),
                 Assign(Id(16), CallOf(11, <<Assign(Id(16), Id(9)), Id(16)>>)),
                 Node("EQ", <<Assign(Id(17), Id(9)), Assign(Id(16), Id(17))>>, 0)}}
  \cup {Program(<<Global(22, None)>>, WithAuto),
        Program(<<Function(9, <<Local(16, Id(6)),
                                Stmt("EXPR", <<Node("INDEX", <<Id(16), One>>, 0)>>),
                                Stmt("EXPR", <<Assign(Id(6), Id(16))>>)>>)>>, WithAuto),
        Program(<<Function(9, <<Local(16, Initial(<<Id(17), One>>))>>)>>, WithAuto),
        Program(<<Function(9, <<Local(16, Id(6)),
                                Local(17, Initial(<<Id(16)>>))>>)>>, WithAuto),
        Program(<<Function(20, <<Stmt("RETURN", <<Id(9)>>)>>)>>, WithAuto),
        Program(<<Function(9, <<Local(16, Id(9)), Stmt("EXPR", <<CallOf(16, <<>>)>>)>>)>>,
                WithAuto)}

InMain(s, table) == Program(<<Function(10, <<s>>)>>, table)

Suites ==
  [ all |-> {InMain(Stmt("EXPR", <<e>>), Declared) : e \in Expressions}
            \cup {InMain(s, Declared) : s \in Statements}
            \cup DeclPrograms \cup MorePrograms \cup AutoPrograms \cup OddPrograms,
    loop |-> {InMain(Stmt("FOR", <<None, One, None, None>>), Declared)},
    elements |-> {Program(<<Global(6, Initial(<<One, Letter>>))>>, Declared)},
    returns |-> {Program(Prototyped(20, 18, <<Stmt("RETURN", <<One>>),
                                              Stmt("RETURN", <<Letter>>)>>), WithAuto)} ]

MCPrograms == Suites[Suite]

(* All that is in a program. *)
RECURSIVE Within(_), DeclsOf(_)
Within(s) ==
  {s} \cup UNION {Within(s.sub[i]) : i \in DOMAIN s.sub}
NodesOf(d) == Within(d.value) \cup UNION {Within(d.code[i]) : i \in DOMAIN d.code}
DeclsOf(d) == {d} \cup UNION {DeclsOf(s.val) : s \in {n \in NodesOf(d) : n.kind = "DECL"}}

MCParts(p) ==
  LET decls == UNION {DeclsOf(d) : d \in Range(p.decls)}
      nodes == UNION {NodesOf(d) : d \in decls}
  IN  [exprs |-> {n \in nodes : n.kind \in ExprKinds},
       stmts |-> {n \in nodes : n.kind \in StmtKinds \cup {"NONE"}},
       decls |-> decls]

RECURSIVE MCHeight(_)
MCHeight(n) ==
  LET parts == Range(n.sub) \cup (IF n.kind = "DECL" THEN Range(n.val.code) ELSE {})
  IN  IF parts = {} THEN 0 ELSE 1 + Max({MCHeight(m) : m \in parts})

MCTallest(p) ==
  Max({0} \cup {MCHeight(n) : n \in MCParts(p).exprs \cup MCParts(p).stmts})

(***************************************************************************)
(* Properties that the code does not have.                                 *)
(***************************************************************************)
Bodies == UNION {Within(d.code[1]) : d \in {x \in Range(ast_head.decls) : x.code # <<>>}}

(* The parts of a for loop are an integer, a boolean and an integer. *)
LoopsTyped ==
  Passed => \A s \in Bodies : s.kind = "FOR" =>
    \A i \in 1 .. 3 :
      s.sub[i].kind = "NONE" \/ TypeOf(ast_head, types)[s.sub[i]] = <<Integer, Boolean, Integer>>[i]

(* The values of a row have one type. *)
ElementsAgree ==
  Passed => \A d \in Range(ast_head.decls) : \A e \in Within(d.value) :
    e.kind = "BRACE" => \A i \in DOMAIN e.sub : TypeOf(ast_head, types)[e.sub[i]] = TypeOf(ast_head, types)[e.sub[1]]

(* A return statement matches the return type of its function. *)
ReturnsMatch ==
  Passed => \A d \in Range(ast_head.decls) : d.code # <<>> =>
    \A s \in Within(d.code[1]) : s.kind = "RETURN" /\ s.sub # <<>> =>
      TypeOf(ast_head, types)[s.sub[1]] = type_copy[types[d.symtype].sub]
=============================================================================
