------------------------------ MODULE MCCodegen ------------------------------
(***************************************************************************)
(* Trees for Codegen: every well-typed expression up to a depth, and every *)
(* statement built from a few of them.                                     *)
(***************************************************************************)
EXTENDS Exits, Trees, FiniteSets

CONSTANT Suite      \* which of the sets of programs below is compiled

Int7 == Num(7)
True == Truth(1)
Array == Param(0)
X == Local(1)
Flagged == Global("b")

(* One level of integer expressions over the integers I and booleans B. *)
IntOver(I, B, ops) ==
  Binary(ops, I) \cup Unaries({"NEGATION"}, I)
  \cup {Element(Array, i) : i \in I}
  \cup Unaries({"INCREMENT"}, {X} \cup {Element(Array, i) : i \in I})
  \cup {Node("ASSIGN", <<X, e>>, 0) : e \in I}
  \cup {Node("ASSIGN", <<Element(Array, i), e>>, 0) : i \in I, e \in I}
  \cup {Node("TERNARY1", <<c, e, f>>, 0) : c \in B, e \in I, f \in I}
  \cup {Node("FCALL", <<>>, "f")}
  \cup {Node("FCALL", <<e>>, "f") : e \in I}
  \cup {Node("FCALL", <<e, f>>, "f") : e \in I, f \in I}

BoolOver(I, B, compare, join) ==
  Binary(compare, I) \cup Binary(join, B) \cup Unaries({"NOT"}, B)

Int1 == {X} \cup IntOver({X}, {True}, {"ADD", "MUL", "EXPONENT"})
Bool1 == {True} \cup BoolOver({X}, {True}, {"GT"}, {"AND"})
Int2 == IntOver(Int1, Bool1, {"SUB", "DIV"})
Bool2 == BoolOver(Int1, Bool1, {"LTE"}, {"OR"})

(* Every operator once, over leaves of every kind. *)
Flat ==
  IntOver({Int7, X}, {True}, Arithmetic)
  \cup BoolOver({X}, {True, Flagged}, Comparison, Logical)
  \cup {Node("DECREMENT", <<X>>, 0), Node("DECREMENT", <<Element(Array, X)>>, 0),
        Text("text"), Node("CHAR_LIT", <<>>, 65)}

(* a + (a + (... + a)), which holds one register per level. *)
RECURSIVE RightNested(_)
RightNested(depth) ==
  IF depth = 0 THEN X ELSE Node("ADD", <<X, RightNested(depth - 1)>>, 0)

RECURSIVE LeftNested(_)
LeftNested(depth) ==
  IF depth = 0 THEN X ELSE Node("ADD", <<LeftNested(depth - 1), X>>, 0)

(* The parameter a and the local variable x. *)
Main(s) == Function("main", 1, 1, Block(<<s>>))
Proto == Node("PROTOTYPE", <<>>, [name |-> "f"])

Inc == Node("INCREMENT", <<X>>, 0)
Less == Node("LT", <<X, Int7>>, 0)

Stmt0 ==
  {Return_(<<>>), Return_(<<Inc>>), ExprStmt(Inc), Decl(X, <<>>), Decl(X, <<Inc>>),
   Decl(X, <<Node("BRACE", <<Node("ARG", <<X>>, 0)>>, 0)>>),
   PrintStmt(<<>>, <<>>), PrintStmt(<<X, Less>>, <<"INTEGER", "BOOLEAN">>),
   PrintStmt(<<Text("text")>>, <<"STRING">>), Block(<<>>)}

StmtOver(S) ==
  {If(Less, s, t) : s \in S, t \in S \cup {None}}
  \cup {For(i, c, n, s) : i \in {None, Inc}, c \in {None, Less},
                          n \in {None, Inc}, s \in S}
  \cup {Block(<<s, t>>) : s \in S, t \in S}

Stmt1 == StmtOver(Stmt0)
Stmt2 == StmtOver({If(Less, Return_(<<X>>), ExprStmt(Inc)),
                   For(None, Less, None, PrintStmt(<<Text("text")>>, <<"STRING">>)),
                   Block(<<Decl(X, <<Inc>>), Return_(<<>>)>>)})

Globals ==
  {Data("g", "INTEGER", "NONE", <<>>), Data("g", "INTEGER", "NONE", <<5>>),
   Data("g", "BOOLEAN", "NONE", <<1>>), Data("g", "CHARACTER", "NONE", <<>>),
   Data("g", "STRING", "NONE", <<>>), Data("g", "STRING", "NONE", <<"text">>),
   Data("g", "ARRAY", "INTEGER", <<>>), Data("g", "ARRAY", "INTEGER", <<3, 4>>), Proto}

(* The notice that resolves an auto variable prints its value, and what    *)
(* the printer leaves behind is what is compiled.                          *)
Printer == INSTANCE Printing

Mixed ==
  {X} \cup Binary({"ADD", "MUL", "ASSIGN"}, {X}) \cup Unaries({"NEGATION"}, {X})
  \cup {Node("TERNARY1", <<True, X, X>>, 0)}
Over == Binary({"SUB", "MUL", "EXPONENT"}, Mixed)
WithGroup ==
  {Printer!Grouped(e) : e \in
     Over \cup Unaries({"NEGATION"}, Over)
     \cup {Node("TERNARY1", <<True, e, f>>, 0) : e \in Mixed, f \in Mixed}
     \cup {Node("ADD", <<X, e>>, 0) : e \in Binary({"DIV"}, Mixed)}
     \cup {Node("FCALL", <<X, e>>, "f") : e \in Binary({"MUL"}, Mixed)}}

Suites ==
  [ walk |->
      {Program(<<Main(ExprStmt(e))>>) : e \in Int2 \cup Bool2}
      \cup {Program(<<Main(s)>>) : s \in Stmt1 \cup Stmt2}
      \cup {Program(<<Main(Return_(<<e>>))>>) : e \in Flat}
      \cup {Program(<<d, Function("f", 1, 1, Block(<<s>>)), Main(t)>>) :
              d \in Globals, s \in Stmt0, t \in {PrintStmt(<<Text("text")>>, <<"STRING">>)}},
    limits |->
      {Program(<<Main(Return_(<<e>>))>>) :
         e \in {RightNested(d) : d \in 0 .. 9} \cup {LeftNested(d) : d \in 0 .. 9}}
      \cup {Program(<<Function("f", p, 1, Block(<<>>))>>) : p \in 0 .. 8}
      \cup {Program(<<Main(ExprStmt(
              Node("FCALL", [i \in 1 .. n |-> X], "f")))>>) : n \in 0 .. 8}
      \cup {Program(<<Main(PrintStmt(<<X, Array>>, <<"INTEGER", "ARRAY">>))>>),
            Program(<<Proto, Data("g", "ARRAY", "STRING", <<>>)>>),
            Program(<<Proto, Data("g", "ARRAY", "NONE", <<3, 4>>)>>)}
      \cup {Program(<<Main(Decl(X, <<e>>))>>) : e \in WithGroup},
    deep |-> {Program(<<Main(ExprStmt(RightNested(7)))>>)} ]

MCPrograms == Suites[Suite]

RECURSIVE Subtrees(_)
Subtrees(n) ==
  {n} \cup UNION {Subtrees(Operands(n)[i]) : i \in DOMAIN Operands(n)}
MCNodes == UNION {Subtrees(p) : p \in MCPrograms}

NoGarbage == {}
SomeGarbage == -1 .. NumRegs + 1

(* The registers a tree needs, by recursion on the tree.                   *)
Largest(S) == CHOOSE m \in S : \A k \in S : k <= m

RECURSIVE Peak(_)
Peak(n) ==
  LET ops == Operands(n)
  IN  Largest({Result(n)} \cup {Before(n, i) + Peak(ops[i]) : i \in DOMAIN ops})
MCNeed == [n \in MCNodes |-> Peak(n)]

MCTree == [n \in MCNodes |-> Subtrees(n)]
=============================================================================
