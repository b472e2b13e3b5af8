------------------------------ MODULE Printing ------------------------------
(***************************************************************************)
(* The printer: decl_print, stmt_print, type_print and expr_print, which   *)
(* turn the tree of the parser back into source text.  Here text is a      *)
(* sequence of tokens, white space left out.                               *)
(*                                                                         *)
(* These trees are those of Ast with their words: the val of an ID is its  *)
(* name, of a literal its characters; ARG holds a whole list; BRACE is     *)
(* <<left>> or <<left, right>>; a DECL holds the declared [name, type] and *)
(* its value or its code.  A type is a tree as well.                       *)
(***************************************************************************)
EXTENDS Ast
LOCAL INSTANCE SequencesExt

T(symbol) == <<symbol>>
Word(kind, val) == <<kind, val>>

Joined(texts, separator) ==
  FlattenSeq([i \in DOMAIN texts |->
                IF i = 1 THEN texts[i] ELSE <<T(separator)>> \o texts[i]])

(***************************************************************************)
(* Literals.  A character is a string; "LF" and "NUL" stand for \n and \0. *)
(***************************************************************************)
Backslash == "\\"

(* What is between the quotes of a printed string. *)
expr_unescape_string(s) ==
  FlattenSeq([i \in DOMAIN s |->
                CASE s[i] = "LF" -> <<Backslash, "n">>
                  [] s[i] = "\"" -> <<Backslash, "\"">>
                  [] OTHER -> <<s[i]>>])

PrintedChar(c) ==
  CASE c = "NUL" -> <<Backslash, "0">>
    [] c = "LF"  -> <<Backslash, "n">>
    [] c = "'"   -> <<Backslash, "'">>
    [] OTHER     -> <<c>>

(***************************************************************************)
(* Expressions.  The parser stores the level of its grammar in each node.  *)
(***************************************************************************)
Precedence(kind) ==
  CASE kind \in {"ASSIGN", "TERNARY1", "GROUP"} -> 0
    [] kind = "OR" -> 1
    [] kind = "AND" -> 2
    [] kind \in Comparison -> 3
    [] kind \in {"ADD", "SUB"} -> 4
    [] kind \in {"MUL", "DIV", "MOD"} -> 5
    [] kind = "EXPONENT" -> 6
    [] kind \in {"NEGATION", "NOT"} -> 7
    [] OTHER -> 8

(* The kinds for which expr_print calls expr_check_precedence, by the side *)
(* on which an operand of the same precedence gets parentheses.            *)
WrapsLeft == {"EXPONENT", "ASSIGN", "TERNARY1"}
WrapsRight == ((Arithmetic \ {"EXPONENT"}) \cup Comparison \cup Logical \cup {"INDEX"})

(* Mutant of Fenced: an operand of equal precedence never gets any. *)
FencedLowerOnly(e, i) ==
  /\ e.kind \in WrapsLeft \cup WrapsRight
  /\ i < 3 /\ (e.kind = "INDEX" => i = 1)
  /\ Precedence(e.sub[i].kind) < Precedence(e.kind)

(* expr_check_precedence gives operand i of e parentheses.  The arms of a  *)
(* ternary are the operands of TERNARY2, of the same precedence.           *)
Fenced(e, i) ==
  LET operand == Precedence(e.sub[i].kind)
      same == IF e.kind = "TERNARY1" THEN {1, 2}
              ELSE IF e.kind \in WrapsLeft THEN {1} ELSE {2}
  IN
  /\ e.kind \in WrapsLeft \cup WrapsRight
  /\ e.kind = "INDEX" => i = 1
  /\ \/ operand < Precedence(e.kind)
     \/ operand = Precedence(e.kind) /\ i \in same

expr_wrap(e) == Node("GROUP", <<e>>, 0)

(* The tree that expr_print leaves behind. *)
RECURSIVE Grouped(_)
Grouped(e) ==
  [e EXCEPT !.sub = [i \in DOMAIN e.sub |->
     IF Fenced(e, i) THEN expr_wrap(Grouped(e.sub[i])) ELSE Grouped(e.sub[i])]]

Symbol ==
  [ADD |-> "+", SUB |-> "-", MUL |-> "*", DIV |-> "/", MOD |-> "%",
   EXPONENT |-> "^", GT |-> ">", GTE |-> ">=", LT |-> "<", LTE |-> "<=",
   EQ |-> "==", NOT_EQ |-> "!=", AND |-> "&&", OR |-> "||", ASSIGN |-> "=",
   INCREMENT |-> "++", DECREMENT |-> "--", NEGATION |-> "-", NOT |-> "!"]

(* What expr_print prints of the tree that it leaves behind; the           *)
(* parentheses of doubled groups are printed once.                         *)
RECURSIVE Spelled(_)
Spelled(e) ==
  LET part(i) == Spelled(e.sub[i])
      list == Joined([i \in DOMAIN e.sub |-> part(i)], ",")
  IN
  CASE e.kind = "NONE" -> <<>>
    [] e.kind \in {"NEGATION", "NOT"} -> <<T(Symbol[e.kind])>> \o part(1)
    [] e.kind \in Step -> part(1) \o <<T(Symbol[e.kind])>>
    [] e.kind = "INDEX" -> part(1) \o <<T("[")>> \o part(2) \o <<T("]")>>
    [] e.kind = "TERNARY1" -> part(1) \o <<T("?")>> \o part(2) \o <<T(":")>> \o part(3)
    [] e.kind = "FCALL" -> <<Word("ID", e.val), T("(")>> \o list \o <<T(")")>>
    [] e.kind = "ARG" -> list
    [] e.kind = "BRACE" ->
         <<T("{")>> \o part(1) \o <<T("}")>> \o
         (IF Len(e.sub) = 2 THEN <<T(",")>> \o part(2) ELSE <<>>)
    [] e.kind = "GROUP" ->
         IF e.sub[1].kind = "GROUP" THEN part(1)
         ELSE <<T("(")>> \o part(1) \o <<T(")")>>
    [] e.kind = "STR_LIT" -> <<Word("STR_LIT", expr_unescape_string(e.val))>>
    [] e.kind = "CHAR_LIT" -> <<Word("CHAR_LIT", PrintedChar(e.val))>>
    [] e.kind = "INT_LIT" ->
         IF e.val < 0 THEN <<T("-"), Word("INT_LIT", -e.val)>> ELSE <<Word("INT_LIT", e.val)>>
    [] e.kind \in {"ID", "BOOL_LIT"} -> <<Word(e.kind, e.val)>>
    [] OTHER -> part(1) \o <<T(Symbol[e.kind])>> \o part(2)

expr_print(e) == Spelled(Grouped(e))

(***************************************************************************)
(* Types, statements and declarations.                                     *)
(***************************************************************************)
RECURSIVE type_print(_)
type_print(t) ==
  CASE t.kind = "ARRAY" ->
         <<T("array"), T("[")>> \o expr_print(t.sub[1]) \o <<T("]")>> \o type_print(t.sub[2])
    [] t.kind = "FUNCTION" ->
         LET param(p) == <<Word("ID", p.name), T(":")>> \o type_print(p.type) IN
         <<T("function")>> \o type_print(t.sub[1]) \o <<T("(")>> \o
         Joined([i \in DOMAIN t.val |-> param(t.val[i])], ",") \o <<T(")")>>
    [] OTHER -> <<T(t.val)>>

stmt_wrap(s) == IF s.kind = "BLOCK" THEN s ELSE Node("BLOCK", <<s>>, 0)

RECURSIVE stmt_print(_), stmts_print(_), decl_print(_)

(* The braces of a block that begins with a block are not printed. *)
stmt_print(s) ==
  CASE s.kind = "IF_ELSE" ->
         LET other == s.sub[3] IN
         <<T("if"), T("(")>> \o expr_print(s.sub[1]) \o <<T(")")>>
         \o stmt_print(stmt_wrap(s.sub[2]))
         \o (IF other = None THEN <<>>
             ELSE <<T("else")>> \o
                  stmt_print(IF other.kind = "IF_ELSE" THEN other ELSE stmt_wrap(other)))
    [] s.kind = "FOR" ->
         <<T("for"), T("(")>>
         \o Joined([i \in 1 .. 3 |-> expr_print(s.sub[i])], ";")
         \o <<T(")")>> \o stmt_print(stmt_wrap(s.sub[4]))
    [] s.kind = "DECL" -> decl_print(s)
    [] s.kind = "EXPR" -> expr_print(s.sub[1]) \o <<T(";")>>
    [] s.kind \in {"PRINT", "RETURN"} ->
         <<T(IF s.kind = "PRINT" THEN "print" ELSE "return")>>
         \o Joined([i \in DOMAIN s.sub |-> expr_print(s.sub[i])], ",") \o <<T(";")>>
    [] s.kind = "BLOCK" ->
         IF s.sub # <<>> /\ s.sub[1].kind = "BLOCK" THEN stmts_print(s.sub)
         ELSE <<T("{")>> \o stmts_print(s.sub) \o <<T("}")>>

stmts_print(s) == FlattenSeq([i \in DOMAIN s |-> stmt_print(s[i])])

decl_print(d) ==
  <<Word("ID", d.val.name), T(":")>> \o type_print(d.val.type) \o
  (IF d.sub = <<>> THEN <<T(";")>>
   ELSE IF d.sub[1].kind = "BLOCK" THEN <<T("=")>> \o stmt_print(d.sub[1])
   ELSE <<T("=")>> \o expr_print(d.sub[1]) \o <<T(";")>>)

program_print(p) == FlattenSeq([i \in DOMAIN p.sub |-> decl_print(p.sub[i])])
=============================================================================
