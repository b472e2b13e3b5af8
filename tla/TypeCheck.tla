----------------------------- MODULE TypeCheck -----------------------------
(***************************************************************************)
(* The type checker: decl_typecheck, stmt_typecheck and expr_typecheck     *)
(* over the nodes of struct type, which declarations and symbols share and *)
(* the resolution of "auto" overwrites.                                    *)
(*                                                                         *)
(* The trees are those of Ast, where                                       *)
(*   ID, FCALL     val is the struct type of the symbol, 0 for a name that *)
(*                 resolve has not seen: it does not enter the code of a   *)
(*                 declaration that is no function, the type checker does  *)
(*   DECL          val is the declaration                                  *)
(*   BRACE         sub is a row of values, or rows when val is "rows"      *)
(*   ARG           sub is the list of values of a declaration              *)
(* A declaration has its type, the type of its symbol (symtype, another    *)
(* one when it defines a prototype, 0 when there is no symbol), global,    *)
(* value and code (<<>> or <<block>>).                                     *)
(* A struct type is an index into "types"; 0 is NULL.                      *)
(***************************************************************************)
EXTENDS Ast, Words, SequencesExt, TLC

CONSTANTS
  Programs,   \* records of decls and types
  Parts(_)    \* a program's nodes: records of exprs, stmts and decls

VARIABLES
  ast_head,   \* the program
  types,      \* struct type: kind, sub, params, and size for arr_val
  todo,       \* the calls that remain to be made, in order
  values,     \* the types that calls of expr_typecheck have returned
  type_err,   \* the flag of scope.c
  status      \* "running", or "crashed" after NULL was dereferenced

vars == <<ast_head, types, todo, values, type_err, status>>

(***************************************************************************)
(* What the parser and name resolution hand over.  A struct type is        *)
(* created after its parts; the parts of a node are nodes of the program.  *)
(***************************************************************************)
Simple == {"VOID", "BOOLEAN", "CHARACTER", "INTEGER", "STRING", "AUTO"}
TypeKinds == Simple \cup {"ARRAY", "FUNCTION"}

Computed == "computed"      \* a size that is no integer literal; its value is 0

TableOK(table) ==
  /\ table \in Seq([kind : TypeKinds, sub : Nat, params : Seq(Nat), size : STRING \ {"NULL"}])
  /\ \A c \in DOMAIN table :
       /\ table[c].sub < c
       /\ table[c].sub = 0 <=> table[c].kind \in Simple
       /\ \A i \in DOMAIN table[c].params : table[c].params[i] \in 1 .. c - 1

ExprOK(e, p) ==
  LET arity(kinds, n) == e.kind \in kinds => Len(e.sub) = n IN
  /\ e.kind \in ExprKinds
  /\ e.sub \in Seq(Parts(p).exprs)
  /\ arity(Leaf, 0) /\ arity(Step \cup {"GROUP"}, 1)
  /\ arity(Comparison \cup {"INDEX", "ASSIGN"}, 2) /\ arity({"TERNARY1"}, 3)
  /\ e.kind \in {"ARG", "BRACE"} => /\ e.sub # <<>>
                                   /\ ToString(Len(e.sub)) \in STRING \ {"NULL", NoSize}
  /\ e.kind \in {"ID", "FCALL"} => e.val \in 0 .. Len(p.types)

StmtOK(s, p) ==
  LET E == Parts(p).exprs
      S == Parts(p).stmts
  IN
  /\ s.kind \in StmtKinds \cup {"NONE"}
  /\ s.kind = "DECL" => s.val \in Parts(p).decls
  /\ s.kind \in {"EXPR", "PRINT", "RETURN"} => s.sub \in Seq(E)
  /\ s.kind = "EXPR" => Len(s.sub) = 1
  /\ s.kind = "RETURN" => Len(s.sub) \in {0, 1}
  /\ s.kind = "IF_ELSE" => s.sub \in {<<e, s1, s2>> : e \in E, s1 \in S, s2 \in S}
  /\ s.kind = "FOR" =>
       /\ s.sub \in Seq(E \cup S \cup {None}) /\ Len(s.sub) = 4
       /\ \A i \in 1 .. 3 : s.sub[i] \in E \cup {None}
       /\ s.sub[4] \in S
  /\ s.kind = "BLOCK" => s.sub \in Seq(S)

(* A definition of a prototype agrees with it in its subtype.              *)
DeclOK(d, p) ==
  /\ d.type \in DOMAIN p.types
  /\ d.symtype \in 0 .. Len(p.types)
  /\ d.symtype \notin {0, d.type} =>
       /\ p.types[d.type].kind = "FUNCTION" /\ p.types[d.symtype].kind = "FUNCTION"
       /\ p.types[p.types[d.type].sub].kind = p.types[p.types[d.symtype].sub].kind
  /\ d.global \in BOOLEAN
  /\ d.value \in Parts(p).exprs \cup {None}
  /\ d.code = <<>> \/ \E s \in Parts(p).stmts : d.code = <<s>>

ASSUME ProgramsAssumption ==
  \A p \in Programs :
    /\ TableOK(p.types)
    /\ p.decls \in Seq(Parts(p).decls)
    /\ \A e \in Parts(p).exprs : ExprOK(e, p)
    /\ \A s \in Parts(p).stmts : StmtOK(s, p)
    /\ \A d \in Parts(p).decls : DeclOK(d, p)

(***************************************************************************)
(* type.c.  A type that type_copy returns is the sequence of words that    *)
(* type_equals compares, in the order in which it compares them.           *)
(***************************************************************************)
NULL == <<"NULL">>
Word(size) == IF size = Computed THEN "0" ELSE size

Integer == <<"INTEGER">>
Boolean == <<"BOOLEAN">>
Kind(t) == t[1]
ArrayOf(t, n) == <<"ARRAY">> \o t \o <<ToString(n)>>
ElementType(t) == SubSeq(t, 2, Len(t) - 1)

Copies(table) ==
  LET copy[c \in 0 .. Len(table)] ==
        IF c = 0 THEN NULL
        ELSE LET t == table[c] IN
             CASE t.kind = "ARRAY" -> <<"ARRAY">> \o copy[t.sub] \o <<Word(t.size)>>
               [] t.kind = "FUNCTION" ->
                    <<"FUNCTION">> \o copy[t.sub] \o
                    FlattenSeq([i \in DOMAIN t.params |-> copy[t.params[i]]])
                    \o <<"end">>
               [] OTHER -> <<t.kind>>
  IN copy

type_copy == Copies(types)

(* type_print follows a NULL pointer. *)
Unprintable(ts) == \E t \in ts : "NULL" \in Range(t)

(* type_check_valid *)
Nest[c \in 0 .. Len(types)] ==
  IF c = 0 THEN {}
  ELSE IF types[c].kind = "ARRAY" THEN {c} \cup Nest[types[c].sub] ELSE {c}

InvalidType(c) ==
  \/ \E a \in Nest[c] : \/ types[a].kind = "ARRAY" /\ types[a].size = Computed
                        \/ types[a].kind = "FUNCTION" /\ a # c
  \/ /\ types[c].kind = "FUNCTION"
     /\ \E p \in {types[c].sub} \cup Range(types[c].params) :
          types[p].kind = "FUNCTION"

Sizeless(c) == \E a \in Nest[c] : types[a].kind = "ARRAY" /\ types[a].size = NoSize

(***************************************************************************)
(* What a case of expr_typecheck concludes: the type it returns, whether   *)
(* it reports an error, and whether it follows a NULL pointer.  v has the  *)
(* types of the operands.                                                  *)
(***************************************************************************)
Verdict(type, bad, crash) == [type |-> type, bad |-> bad, crash |-> crash]

(* Mutant of Wrong: an error only when no operand is right. *)
WrongAll(want, v) == v # <<>> /\ \A i \in DOMAIN v : v[i] # want

Wrong(want, v) == \E i \in DOMAIN v : v[i] # want

(* The operands are looked at in order, up to the first that is wrong; the *)
(* message then prints them all.                                           *)
Demand(want, v, result) ==
  Verdict(result, Wrong(want, v),
          \/ \E i \in DOMAIN v :
               v[i] = NULL /\ \A k \in 1 .. i - 1 : v[k] = want
          \/ (Wrong(want, v) /\ Unprintable(Range(v) \ {NULL})))

Unusable == {"VOID", "FUNCTION", "AUTO"}

Agree(a, b, bad, result) ==
  Verdict(result, bad \/ a # b,
          Stuck(a, b) \/ ((bad \/ a # b) /\ Unprintable({a, b})))

Indexed(a, i) ==
  IF Kind(a) = "ARRAY"
  THEN Verdict(ElementType(a), i # Integer, i # Integer /\ Unprintable({i}))
  ELSE Verdict(a, TRUE, Unprintable({a}))

InMemory(e) == e.kind \in {"ID", "INDEX"}

(* Both the row and its values are looked at again for every value, which  *)
(* finds nothing new: it is always the first value that is looked at, and  *)
(* compared with itself.                                                   *)
Row(v) ==
  LET auto == \E i \in DOMAIN v : Kind(v[i]) = "AUTO" IN
  Verdict(ArrayOf(IF Kind(v[1]) = "AUTO" THEN Integer ELSE v[1], Len(v)),
          auto \/ Kind(v[1]) \in Unusable,
          Stuck(v[1], v[1]) \/ \E i \in DOMAIN v : v[i] = NULL)

Rows(v) ==
  Verdict(IF Len(v) = 1 THEN v[1] ELSE ArrayOf(v[1], Len(v)),
          \E i \in DOMAIN v : v[i] # v[1], FALSE)

(* A list of values is worth its first one.                                *)
List(v) ==
  Verdict(IF Kind(v[1]) = "AUTO" THEN Integer ELSE v[1],
          \E i \in DOMAIN v : Kind(v[i]) = "AUTO",
          \E i \in DOMAIN v : v[i] = NULL)

Rule(e, v) ==
  CASE e.kind = "INT_LIT" -> Verdict(Integer, FALSE, FALSE)
    [] e.kind = "BOOL_LIT" -> Verdict(Boolean, FALSE, FALSE)
    [] e.kind = "CHAR_LIT" -> Verdict(<<"CHARACTER">>, FALSE, FALSE)
    [] e.kind = "STR_LIT" -> Verdict(<<"STRING">>, FALSE, FALSE)
    [] e.kind = "ID" -> Verdict(type_copy[e.val], FALSE, e.val = 0)
    [] e.kind \in Arithmetic \cup {"NEGATION"} -> Demand(Integer, v, Integer)
    [] e.kind \in Step ->
         [Demand(Integer, v, Integer) EXCEPT !.bad = @ \/ ~ InMemory(e.sub[1])]
    [] e.kind \in Logical \cup {"NOT"} -> Demand(Boolean, v, Boolean)
    [] e.kind \in {"EQ", "NOT_EQ"} ->
         Agree(v[1], v[2], Kind(v[1]) \in Unusable \cup {"ARRAY"}, Boolean)
    [] e.kind \in Comparison \ {"EQ", "NOT_EQ"} -> Demand(Integer, v, Boolean)
    [] e.kind = "TERNARY1" ->
         LET test == Demand(Boolean, <<v[1]>>, Boolean)
             arms == Agree(v[2], v[3], Kind(v[2]) \in Unusable, v[2])
         IN  Verdict(v[2], test.bad \/ arms.bad, test.crash \/ arms.crash)
    [] e.kind = "INDEX" -> Indexed(v[1], v[2])
    [] e.kind = "BRACE" -> IF e.val = "rows" THEN Rows(v) ELSE Row(v)
    [] e.kind = "ARG" -> List(v)
    [] e.kind = "GROUP" -> Verdict(v[1], FALSE, FALSE)

(***************************************************************************)
(* The walk.                                                               *)
(***************************************************************************)
Do(call, arg) == [do |-> call, arg |-> arg]
Each(call, args) == [i \in DOMAIN args |-> Do(call, args[i])]

Call == Head(todo)
Ready(kind) == status = "running" /\ todo # <<>> /\ Call.do = kind
Replace(calls) == todo' = calls \o Tail(todo)

Latest(n) == SubSeq(values, Len(values) - n + 1, Len(values))
Before(n) == SubSeq(values, 1, Len(values) - n)

(* A handler used the latest n types and returned some of its own. *)
Conclude(n, verdict, returned) ==
  \/ /\ verdict.crash
     /\ status' = "crashed"
     /\ UNCHANGED <<todo, values, type_err>>
  \/ /\ ~ verdict.crash
     /\ type_err' = (type_err \/ verdict.bad)
     /\ values' = Before(n) \o returned
     /\ Replace(<<>>)
     /\ UNCHANGED status

Quietly == UNCHANGED <<ast_head, types, type_err, status>>

TypeCheckInit ==
  /\ ast_head \in Programs
  /\ types = ast_head.types
  /\ todo = Each("decl", ast_head.decls)
  /\ values = <<>>
  /\ type_err = FALSE
  /\ status = "running"

(***************************************************************************)
(* Expressions.                                                            *)
(***************************************************************************)
SkipNull ==
  /\ Ready("expr") /\ Call.arg.kind = "NONE"
  /\ values' = Append(values, NULL)
  /\ Replace(<<>>)
  /\ Quietly

Descend ==
  LET e == Call.arg IN
  /\ Ready("expr") /\ e.kind \notin {"NONE", "FCALL"}
  /\ Replace(Each("expr", e.sub) \o <<Do("node", e)>>)
  /\ UNCHANGED values
  /\ Quietly

CheckNode ==
  LET e == Call.arg
      n == Len(e.sub)
      verdict == Rule(e, Latest(n))
  IN
  /\ Ready("node") /\ e.kind # "ASSIGN"
  /\ Conclude(n, verdict, <<verdict.type>>)
  /\ UNCHANGED <<ast_head, types>>

(* An assignment to a variable of type auto is an error, and gives the     *)
(* variable the kind of the value.                                         *)
CheckAssign ==
  LET e == Call.arg
      v == Latest(2)
      right == Kind(v[2])
      settles == Kind(v[1]) = "AUTO" /\ right # "AUTO"
      agree == Agree(v[1], v[2], right \in Unusable \/ ~ InMemory(e.sub[1]), v[2])
  IN
  /\ Ready("node") /\ e.kind = "ASSIGN"
  /\ Conclude(2, [agree EXCEPT !.crash = @ \/ (settles /\ e.sub[1].kind # "ID")],
              <<v[2]>>)
  /\ types' = IF settles /\ status' = "running"
              THEN [types EXCEPT ![e.sub[1].val].kind = right]
              ELSE types
  /\ UNCHANGED ast_head

(* A call: the function is looked at, the arguments are checked as a list, *)
(* and then once more, one by one, each against its parameter.             *)
EnterCall ==
  LET e == Call.arg
      f == types[e.val]
      callee == [type |-> type_copy[e.val], result |-> type_copy[f.sub],
                 params |-> [i \in DOMAIN f.params |-> type_copy[f.params[i]]],
                 args |-> e.sub]
  IN
  /\ Ready("expr") /\ e.kind = "FCALL" /\ e.val # 0
  /\ Replace(Each("expr", e.sub) \o
             <<Do("arguments", Len(e.sub)), Do("call", callee)>>)
  /\ UNCHANGED values
  /\ Quietly

CallUnresolved ==
  /\ Ready("expr") /\ Call.arg.kind = "FCALL" /\ Call.arg.val = 0
  /\ status' = "crashed"
  /\ UNCHANGED <<ast_head, types, todo, values, type_err>>

CheckArguments ==
  LET v == Latest(Call.arg) IN
  /\ Ready("arguments")
  /\ Conclude(Call.arg, IF v = <<>> THEN Verdict(NULL, FALSE, FALSE) ELSE List(v), <<>>)
  /\ UNCHANGED <<ast_head, types>>

CallNonFunction ==
  LET t == Call.arg.type IN
  /\ Ready("call") /\ Kind(t) # "FUNCTION"
  /\ Conclude(0, Verdict(t, TRUE, Unprintable({t})), <<t>>)
  /\ UNCHANGED <<ast_head, types>>

CallReturns ==
  LET c == Call.arg IN
  /\ Ready("call") /\ Kind(c.type) = "FUNCTION"
  /\ c.args = <<>> \/ c.params = <<>>
  /\ Conclude(0, Verdict(c.result, c.args # c.params, FALSE), <<c.result>>)
  /\ UNCHANGED <<ast_head, types>>

CallNext ==
  LET c == Call.arg IN
  /\ Ready("call") /\ Kind(c.type) = "FUNCTION"
  /\ c.args # <<>> /\ c.params # <<>>
  /\ Replace(<<Do("expr", Head(c.args)), Do("argument", Head(c.params)),
               Do("call", [c EXCEPT !.args = Tail(@), !.params = Tail(@)])>>)
  /\ UNCHANGED values
  /\ Quietly

CheckArgument ==
  LET t == Latest(1)[1]
      p == Call.arg
  IN
  /\ Ready("argument")
  /\ Conclude(1, Agree(t, p, Kind(t) \in Unusable, t), <<>>)
  /\ UNCHANGED <<ast_head, types>>

(***************************************************************************)
(* Statements, in the function f.                                          *)
(***************************************************************************)
StmtCalls(s, f) ==
  LET nested(ss) ==
        [i \in DOMAIN ss |-> Do("stmt", [stmt |-> ss[i], func |-> f])]
  IN
  CASE s.kind = "DECL" -> <<Do("decl", s.val)>>
    [] s.kind = "EXPR" -> Each("expr", s.sub) \o <<Do("forget", 1)>>
    [] s.kind = "PRINT" -> Each("expr", s.sub) \o <<Do("arguments", Len(s.sub))>>
    [] s.kind = "RETURN" ->
         Each("expr", IF s.sub = <<>> THEN <<None>> ELSE s.sub)
         \o <<Do("return", f)>>
    [] s.kind = "IF_ELSE" ->
         Each("expr", SubSeq(s.sub, 1, 1)) \o <<Do("condition", 1)>>
         \o nested(SubSeq(s.sub, 2, 3))
    [] s.kind = "FOR" ->
         Each("expr", SubSeq(s.sub, 1, 3)) \o <<Do("loop", 3)>>
         \o nested(SubSeq(s.sub, 4, 4))
    [] s.kind = "BLOCK" -> nested(s.sub)
    [] s.kind = "NONE" -> <<>>

stmt_typecheck ==
  /\ Ready("stmt")
  /\ Replace(StmtCalls(Call.arg.stmt, Call.arg.func))
  /\ UNCHANGED values
  /\ Quietly

ForgetResult ==
  /\ Ready("forget")
  /\ values' = Before(1)
  /\ Replace(<<>>)
  /\ Quietly

CheckCondition ==
  /\ Ready("condition")
  /\ Conclude(1, Demand(Boolean, Latest(1), Boolean), <<>>)
  /\ UNCHANGED <<ast_head, types>>

(* A loop whose parts have the wrong types is reported; type_err is left.  *)
CheckLoop ==
  LET v == Latest(3)
      odd == {i \in 1 .. 3 : v[i] \notin {NULL, <<Integer, Boolean, Integer>>[i]}}
  IN
  /\ Ready("loop")
  /\ Conclude(3, Verdict(NULL, FALSE, Unprintable({v[i] : i \in odd})), <<>>)
  /\ UNCHANGED <<ast_head, types>>

(* Mutant of CheckReturn: auto is resolved although nothing is returned. *)
CheckReturnAlways ==
  LET f == Call.arg
      e == Latest(1)[1]
      result == types[f.type].sub
      settles == result # 0 /\ types[result].kind = "AUTO"
  IN
  /\ Ready("return")
  /\ Conclude(1,
       IF e = NULL THEN Verdict(NULL, FALSE, FALSE)
       ELSE IF settles
       THEN Verdict(NULL, Kind(e) = "AUTO", Unprintable({e}) \/ f.symtype = 0)
       ELSE Agree(e, type_copy[result], Kind(e) = "AUTO", NULL), <<>>)
  /\ types' = IF settles /\ status' = "running"
              THEN [types EXCEPT ![types[f.symtype].sub].kind = Kind(e)]
              ELSE types
  /\ UNCHANGED ast_head

(* A function that returns auto gets the kind of what is returned, in the  *)
(* type of its symbol.  What is no function has no subtype.                *)
CheckReturn ==
  LET f == Call.arg
      e == Latest(1)[1]
      result == types[f.type].sub
      settles == e # NULL /\ result # 0 /\ types[result].kind = "AUTO"
  IN
  /\ Ready("return")
  /\ Conclude(1,
       IF e = NULL THEN Verdict(NULL, FALSE, FALSE)
       ELSE IF settles
       THEN Verdict(NULL, Kind(e) = "AUTO", Unprintable({e}) \/ f.symtype = 0)
       ELSE Agree(e, type_copy[result], Kind(e) = "AUTO", NULL), <<>>)
  /\ types' = IF settles /\ status' = "running"
              THEN [types EXCEPT ![types[f.symtype].sub].kind = Kind(e)]
              ELSE types
  /\ UNCHANGED ast_head

(***************************************************************************)
(* Declarations.                                                           *)
(***************************************************************************)
DeclCalls(d) ==
  <<Do("expr", d.value), Do("initial", d)>> \o
  [i \in DOMAIN d.code |-> Do("stmt", [stmt |-> d.code[i], func |-> d])]

decl_typecheck ==
  LET d == Call.arg IN
  /\ Ready("decl")
  /\ \/ /\ Sizeless(d.type)
        /\ status' = "crashed"
        /\ UNCHANGED <<todo, type_err>>
     \/ /\ ~ Sizeless(d.type)
        /\ type_err' = (type_err \/ InvalidType(d.type))
        /\ Replace(DeclCalls(d))
        /\ UNCHANGED status
  /\ UNCHANGED <<ast_head, types, values>>

ConstantExprs(p) ==
  LET constant[e \in Parts(p).exprs] ==
        \/ e.kind \in Literal
        \/ e.kind \in {"BRACE", "ARG"} /\ \A i \in DOMAIN e.sub : constant[e.sub[i]]
  IN constant

expr_constant == ConstantExprs(ast_head)

(* Mutant of BadInitial: the values of local variables are constants, too. *)
BadInitialEverywhere(d, t) == Kind(t) \in Unusable \/ ~ expr_constant[d.value]

BadInitial(d, t) ==
  \/ Kind(t) \in Unusable
  \/ d.global /\ ~ expr_constant[d.value]
  \/ ~ d.global /\ Kind(t) = "ARRAY" /\ d.value.kind = "BRACE"

(* Mutant of CheckInitial: a value is compared also where there is none. *)
CheckInitialAlways ==
  LET d == Call.arg
      t == Latest(1)[1]
  IN
  /\ Ready("initial")
  /\ Conclude(1, Agree(type_copy[d.type], t, FALSE, NULL), <<>>)
  /\ UNCHANGED <<ast_head, types>>

(* A variable of type auto gets the kind of its value. *)
CheckInitial ==
  LET d == Call.arg
      t == Latest(1)[1]
      settles == t # NULL /\ types[d.type].kind = "AUTO"
  IN
  /\ Ready("initial")
  /\ Conclude(1,
       IF t = NULL THEN Verdict(NULL, FALSE, FALSE)
       ELSE IF d.symtype = 0 THEN Verdict(NULL, FALSE, TRUE)
       ELSE IF settles THEN Verdict(NULL, BadInitial(d, t), Unprintable({t}))
       ELSE Agree(type_copy[d.type], t, BadInitial(d, t), NULL), <<>>)
  /\ types' = IF settles /\ status' = "running"
              THEN [types EXCEPT ![d.symtype].kind = Kind(t)]
              ELSE types
  /\ UNCHANGED ast_head

Done == status = "running" /\ todo = <<>>

(* typecheck() has returned type_err, or the process is gone. *)
Terminated == (Done \/ status = "crashed") /\ UNCHANGED vars

Next ==
  \/ SkipNull \/ Descend \/ CheckNode \/ CheckAssign
  \/ EnterCall \/ CallUnresolved \/ CheckArguments \/ CallNonFunction \/ CallReturns \/ CallNext
  \/ CheckArgument
  \/ stmt_typecheck \/ ForgetResult \/ CheckCondition \/ CheckLoop \/ CheckReturn
  \/ decl_typecheck \/ CheckInitial
  \/ Terminated

Spec == TypeCheckInit /\ [][Next]_vars

(***************************************************************************)
(* Properties.                                                             *)
(***************************************************************************)
TypeOK ==
  /\ \A c \in DOMAIN types :
       /\ types[c].kind \in TypeKinds
       /\ types[c].sub \in 0 .. Len(types)
  /\ \A i \in DOMAIN values : values[i] # <<>>
  /\ type_err \in BOOLEAN
  /\ status \in {"running", "crashed"}

(* Whatever the program, the type checker follows a NULL pointer only when *)
(* a part of a type is missing (an array was declared without a size, or   *)
(* an auto variable or function became an array or a function), when       *)
(* something of type auto that has no symbol is assigned to, or in the     *)
(* code of a declaration that is no function: its names and declarations   *)
(* have no symbols, and what it returns is of no type.                     *)
CrashExplained ==
  status = "crashed" =>
    \/ \E c \in DOMAIN types :
         \/ types[c].kind = "ARRAY" /\ types[c].size = NoSize
         \/ types[c].kind \in {"ARRAY", "FUNCTION"} /\ types[c].sub = 0
    \/ /\ Call.do = "node" /\ Call.arg.kind = "ASSIGN"
       /\ Call.arg.sub[1].kind # "ID" /\ Kind(Latest(2)[1]) = "AUTO"
    \/ Call.do \in {"expr", "node"} /\ Call.arg.kind \in {"ID", "FCALL"} /\ Call.arg.val = 0
    \/ Call.do \in {"initial", "return"} /\ Call.arg.symtype = 0
    \/ Call.do = "return" /\ types[Call.arg.type].sub = 0
=============================================================================
