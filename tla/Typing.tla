------------------------------- MODULE Typing -------------------------------
(***************************************************************************)
(* The typing rules of the language, written independently of the handlers *)
(* and without an order of evaluation: the type of an expression follows   *)
(* from those of its operands, and a statement is right when its parts     *)
(* are.  The rules are over a table of struct types, so that a program can *)
(* be looked at under the types that its declarations end with.            *)
(***************************************************************************)
EXTENDS TypeCheck

CONSTANTS
  Height(_),      \* of a node: it is higher than its parts
  Tallest(_)      \* no node of the program is higher than this

(* A program is a tree. *)
ASSUME HeightAssumption ==
  \A p \in Programs :
    /\ Tallest(p) \in Nat
    /\ \A n \in Parts(p).exprs \cup Parts(p).stmts :
         /\ Height(n) \in 0 .. Tallest(p)
         /\ \A i \in DOMAIN n.sub : Height(n.sub[i]) < Height(n)
    /\ \A s \in Parts(p).stmts : s.kind = "DECL" =>
         \A i \in DOMAIN s.val.code : Height(s.val.code[i]) < Height(s)

(***************************************************************************)
(* Types.                                                                  *)
(***************************************************************************)

(* Arrays have literal sizes and no functions in them, and functions       *)
(* neither take nor return functions.                                      *)
ValidTypes(table) ==
  LET valid[c \in DOMAIN table] ==
        LET t == table[c]
            isFunction(q) == table[q].kind = "FUNCTION"
        IN
        CASE t.kind = "ARRAY" ->
               t.size # Computed /\ ~ isFunction(t.sub) /\ valid[t.sub]
          [] t.kind = "FUNCTION" ->
               ~ \E q \in {t.sub} \cup Range(t.params) : isFunction(q)
          [] OTHER -> TRUE
  IN valid

(* What a value may be stored as, passed as, or compared as. *)
Storable(t) == Kind(t) \notin Unusable

(***************************************************************************)
(* Expressions.                                                            *)
(***************************************************************************)
LiteralType ==
  [INT_LIT |-> Integer, BOOL_LIT |-> Boolean, CHAR_LIT |-> <<"CHARACTER">>,
   STR_LIT |-> <<"STRING">>]

All(v, t) == \A i \in DOMAIN v : v[i] = t

(* What the operands of an expression may be. *)
Fits(table, e, v) ==
  CASE e.kind \in Arithmetic \cup {"NEGATION"} \cup (Comparison \ {"EQ", "NOT_EQ"}) ->
         All(v, Integer)
    [] e.kind \in Step -> All(v, Integer) /\ InMemory(e.sub[1])
    [] e.kind \in Logical \cup {"NOT"} -> All(v, Boolean)
    [] e.kind \in {"EQ", "NOT_EQ"} ->
         v[1] = v[2] /\ Storable(v[1]) /\ Kind(v[1]) # "ARRAY"
    [] e.kind = "ASSIGN" -> v[1] = v[2] /\ Storable(v[1]) /\ InMemory(e.sub[1])
    [] e.kind = "TERNARY1" -> v[1] = Boolean /\ v[2] = v[3] /\ Storable(v[2])
    [] e.kind = "INDEX" -> Kind(v[1]) = "ARRAY" /\ v[2] = Integer
    [] e.kind = "FCALL" ->
         LET f == table[e.val] IN
         /\ e.val # 0 /\ f.kind = "FUNCTION"
         /\ v = [i \in DOMAIN f.params |-> Copies(table)[f.params[i]]]
         /\ \A i \in DOMAIN v : Storable(v[i])
    [] e.kind = "BRACE" ->
         IF e.val = "rows" THEN All(v, v[1])
         ELSE Storable(v[1]) /\ \A i \in DOMAIN v : Kind(v[i]) # "AUTO"
    [] e.kind = "ARG" -> \A i \in DOMAIN v : Kind(v[i]) # "AUTO"
    [] e.kind = "ID" -> e.val # 0
    [] e.kind \in Literal \cup {"GROUP"} -> TRUE

(* The type of an expression whose operands fit. *)
Result(table, e, v) ==
  CASE e.kind \in Literal -> LiteralType[e.kind]
    [] e.kind = "ID" -> Copies(table)[e.val]
    [] e.kind = "FCALL" -> Copies(table)[table[e.val].sub]
    [] e.kind \in Arithmetic \cup Step \cup {"NEGATION"} -> Integer
    [] e.kind \in Comparison \cup Logical \cup {"NOT"} -> Boolean
    [] e.kind = "INDEX" -> ElementType(v[1])
    [] e.kind = "BRACE" /\ (e.val # "rows" \/ Len(v) # 1) -> ArrayOf(v[1], Len(v))
    [] e.kind = "TERNARY1" -> v[2]
    [] OTHER -> v[1]

TypeOf(p, table) ==
  LET type[e \in Parts(p).exprs] ==
        Result(table, e, [i \in DOMAIN e.sub |-> type[e.sub[i]]])
  IN type

TypesWithin(p, table, e) == [i \in DOMAIN e.sub |-> TypeOf(p, table)[e.sub[i]]]

ExprTyped(p, table) ==
  LET typed[e \in Parts(p).exprs] ==
        /\ \A i \in DOMAIN e.sub : typed[e.sub[i]]
        /\ Fits(table, e, TypesWithin(p, table, e))
  IN typed

Typed(p, table, e) == e.kind = "NONE" \/ ExprTyped(p, table)[e]

(* All that is in an expression. *)
Inside(p) ==
  LET nodes[e \in Parts(p).exprs] == {e} \cup UNION {nodes[e.sub[i]] : i \in DOMAIN e.sub}
  IN nodes

ConstantNodes == Literal \cup {"ARG", "BRACE"}

(***************************************************************************)
(* Statements and declarations.  A function that is defined after a        *)
(* prototype and returns auto is not held to one type.                     *)
(***************************************************************************)
ReturnTyped(p, table, e, f) ==
  LET declared == Copies(table)[table[f.type].sub] IN
  Typed(p, table, e) /\ (Kind(declared) = "AUTO" \/ TypeOf(p, table)[e] = declared)

ValueTyped(p, table, d) ==
  LET t == TypeOf(p, table)[d.value] IN
  d.value.kind # "NONE" =>
    /\ Typed(p, table, d.value)
    /\ t = Copies(table)[d.type]
    /\ Storable(t)
    /\ d.global => \A n \in Inside(p)[d.value] : n.kind \in ConstantNodes
    /\ ~ d.global /\ Kind(t) = "ARRAY" => d.value.kind # "BRACE"

(* right says which statements are, each in the function that it is in.    *)
DeclRight(p, table, right, d) ==
  /\ ValidTypes(table)[d.type]
  /\ ValueTyped(p, table, d)
  /\ \A i \in DOMAIN d.code : right[<<d.code[i], d>>]

StmtRight(p, table, right, s, f) ==
  CASE s.kind = "DECL" -> DeclRight(p, table, right, s.val)
    [] s.kind = "EXPR" -> Typed(p, table, s.sub[1])
    [] s.kind = "PRINT" ->
         \A i \in DOMAIN s.sub :
           Typed(p, table, s.sub[i]) /\ Kind(TypeOf(p, table)[s.sub[i]]) # "AUTO"
    [] s.kind = "RETURN" -> s.sub # <<>> => ReturnTyped(p, table, s.sub[1], f)
    [] s.kind = "IF_ELSE" ->
         /\ Typed(p, table, s.sub[1]) /\ TypeOf(p, table)[s.sub[1]] = Boolean
         /\ right[<<s.sub[2], f>>] /\ right[<<s.sub[3], f>>]
    [] s.kind = "FOR" ->
         (\A i \in 1 .. 3 : Typed(p, table, s.sub[i])) /\ right[<<s.sub[4], f>>]
    [] s.kind = "BLOCK" -> \A i \in DOMAIN s.sub : right[<<s.sub[i], f>>]
    [] s.kind = "NONE" -> TRUE

StmtTyped(p, table) ==
  LET right[x \in Parts(p).stmts \X Parts(p).decls] ==
        StmtRight(p, table, right, x[1], x[2])
  IN right

DeclTyped(p, table, d) == DeclRight(p, table, StmtTyped(p, table), d)

WellTyped(p, table) == \A i \in DOMAIN p.decls : DeclTyped(p, table, p.decls[i])

(***************************************************************************)
(* Properties.                                                             *)
(***************************************************************************)
Passed == Done /\ ~ type_err

Complete ==
  \A c \in DOMAIN types : types[c].kind \in {"ARRAY", "FUNCTION"} => types[c].sub # 0

(* What passes the type checker is well typed under the types that its     *)
(* declarations end with, in whatever order auto was resolved.  It does    *)
(* not check the parts of for loops, the elements of array values after    *)
(* the first and the returns of a function with a prototype, and an auto   *)
(* variable or result whose value is an array or a function becomes one of *)
(* nothing.                                                                *)
Sound == (Passed /\ Complete) => WellTyped(ast_head, types)

WithoutAuto == \A c \in DOMAIN ast_head.types : ast_head.types[c].kind # "AUTO"

(* A program without auto is rejected exactly when it breaks a rule, and   *)
(* its types are left as they were declared.                               *)
TypeErrorsExact ==
  (Done /\ WithoutAuto) =>
    /\ types = ast_head.types
    /\ type_err <=> ~ WellTyped(ast_head, types)
=============================================================================
