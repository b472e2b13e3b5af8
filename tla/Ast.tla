-------------------------------- MODULE Ast --------------------------------
(***************************************************************************)
(* The abstract syntax tree that parser.bison builds and every later pass  *)
(* walks: struct expr, struct stmt and struct decl.  The pointers of the C *)
(* nodes (left, right, body, else_body, next, value, code) become one      *)
(* sequence "sub" of subtrees; what else a node carries is its "val".      *)
(*                                                                         *)
(*   expressions   sub                                                     *)
(*     binary        <<left, right>>                                       *)
(*     unary, ARG    <<left>>        (the rest of an argument list is held *)
(*                                    by the node that owns the list)      *)
(*     TERNARY1      <<condition, first, second>>   (TERNARY2 folded in)   *)
(*     FCALL         the arguments; val is the function's name             *)
(*   statements                                                            *)
(*     EXPR <<e>>, RETURN <<>> or <<e>>, PRINT <<e1, ..., en>>,            *)
(*     DECL <<>> or <<e>>, BLOCK <<s1, ..., sn>>,                          *)
(*     IF_ELSE <<e, s, s>>, FOR <<e, e, e, s>>, in program order           *)
(*   declarations                                                          *)
(*     PROGRAM <<d1, ..., dn>>, FUNCTION <<body>>, PROTOTYPE, DATA         *)
(***************************************************************************)
EXTENDS Integers, Sequences

Node(kind, sub, val) == [kind |-> kind, sub |-> sub, val |-> val]

(* A pointer that is NULL where an expression or a statement may be absent.*)
None == Node("NONE", <<>>, 0)

Arithmetic == {"ADD", "SUB", "MUL", "DIV", "MOD", "EXPONENT"}
Comparison == {"GT", "GTE", "LT", "LTE", "EQ", "NOT_EQ"}
Logical == {"AND", "OR"}
Step == {"INCREMENT", "DECREMENT"}
Literal == {"INT_LIT", "BOOL_LIT", "CHAR_LIT", "STR_LIT"}
Leaf == Literal \cup {"ID"}

ExprKinds ==
  Arithmetic \cup Comparison \cup Logical \cup Step \cup Leaf \cup
  {"INDEX", "FCALL", "ARG", "NEGATION", "NOT", "ASSIGN", "TERNARY1",
   "BRACE", "GROUP"}

StmtKinds ==
  {"DECL", "EXPR", "IF_ELSE", "FOR", "PRINT", "RETURN", "BLOCK"}

DeclKinds == {"PROGRAM", "FUNCTION", "PROTOTYPE", "DATA"}

Kinds == ExprKinds \cup StmtKinds \cup DeclKinds \cup {"NONE"}
=============================================================================
