-------------------------------- MODULE Trees --------------------------------
(***************************************************************************)
(* Shorthands for the trees that the runs of the code generator and of the *)
(* machine are given.                                                      *)
(***************************************************************************)
EXTENDS Ast

Num(v) == Node("INT_LIT", <<>>, v)
Truth(v) == Node("BOOL_LIT", <<>>, v)
Text(s) == Node("STR_LIT", <<>>, s)
Id(kind, name, which) == Node("ID", <<>>, [kind |-> kind, name |-> name, which |-> which])
Param(which) == Id("PARAM", "p", which)
Local(which) == Id("LOCAL", "x", which)
Global(name) == Id("GLOBAL", name, 0)

Unary_(kind, e) == Node(kind, <<e>>, 0)
Binary_(kind, e, f) == Node(kind, <<e, f>>, 0)
Element(a, i) == Node("INDEX", <<a, i>>, 0)
Assign(e, f) == Node("ASSIGN", <<e, f>>, 0)
FCall(name, args) == Node("FCALL", args, name)

Binary(kinds, S) == {Node(k, <<e, f>>, 0) : k \in kinds, e \in S, f \in S}
Unaries(kinds, S) == {Node(k, <<e>>, 0) : k \in kinds, e \in S}

Block(s) == Node("BLOCK", s, 0)
ExprStmt(e) == Node("EXPR", <<e>>, 0)
Return_(s) == Node("RETURN", s, 0)
PrintStmt(s, types) == Node("PRINT", s, types)
If(c, s, t) == Node("IF_ELSE", <<c, s, t>>, 0)
For(i, c, n, s) == Node("FOR", <<i, c, n, s>>, 0)
Decl(x, s) == Node("DECL", s, x.val)

(* A function with one slot for each parameter and each local variable.    *)
Function(name, params, locals, body) ==
  Node("FUNCTION", <<body>>,
       [name |-> name, params |-> params, total |-> params + locals])
Data(name, type, subtype, init) ==
  Node("DATA", <<>>,
       [name |-> name, type |-> type, subtype |-> subtype, init |-> init])
Program(s) == Node("PROGRAM", s, 0)
=============================================================================
