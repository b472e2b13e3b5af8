------------------------------ MODULE Resolve ------------------------------
(***************************************************************************)
(* Name resolution: decl_resolve, stmt_resolve, expr_resolve and           *)
(* param_list_resolve over the scopes of scope.c.  It binds every use of a *)
(* name to a symbol and gives every variable of a function its slot in the *)
(* stack frame that the code generator lays out.                           *)
(*                                                                         *)
(* Resolution sees little of the tree:                                     *)
(*   a declaration   name, type, uses (the names in its value), params (a  *)
(*                   sequence of names) and code (<<block>> or <<>>)       *)
(*   a statement     kind, uses (the names in its expressions, in program  *)
(*                   order), decl, body and else_body (sequences)          *)
(*   a type          fun (is it a function type) and sig, the words that   *)
(*                   type_equals compares (Words)                          *)
(*                                                                         *)
(* The recursion of the handlers appears as "todo": for every open scope   *)
(* the calls still to be made in it, in order.                             *)
(***************************************************************************)
EXTENDS Integers, Sequences, Words

CONSTANTS
  Sources,      \* the programs: sequences of declarations
  Decls,        \* every declaration in them, at whatever depth
  Stmts,        \* every statement in them, at whatever depth
  Names         \* the identifiers in them

(* What the parser builds.                                                 *)
ASSUME SourcesAssumption ==
  /\ Sources \subseteq Seq(Decls)
  /\ \A d \in Decls :
       /\ d.name \in Names
       /\ d.type.fun \in BOOLEAN /\ d.type.sig \in Seq(STRING)
       /\ d.uses \in Seq(Names) /\ d.params \in Seq(Names)
       /\ d.code \in Seq(Stmts)
  /\ \A s \in Stmts :
       \/ s.kind = "DECL" /\ s.decl \in Decls
       \/ s.kind \in {"EXPR", "PRINT", "RETURN"} /\ s.uses \in Seq(Names)
       \/ s.kind = "BLOCK" /\ s.body \in Seq(Stmts)
       \/ /\ s.kind \in {"FOR", "IF_ELSE"} /\ s.uses \in Seq(Names)
          /\ s.body \in Seq(Stmts)
          /\ s.kind = "IF_ELSE" => s.else_body \in Seq(Stmts)

VARIABLES
  todo,         \* for each open scope, the calls that remain to be made
  scopes,       \* the stack of scope.c, the top (stack_top) last
  symbols,      \* the symbols created, in order; a pointer is an index
  resolve_err,  \* the flag of scope.c
  resolved,     \* e->symbol of the identifiers visited, in order
  functions,    \* the function declarations visited: what their d->symbol is
  status        \* "running", or "crashed" after NULL was dereferenced

vars == <<todo, scopes, symbols, resolve_err, resolved, functions, status>>

NULL == 0

Do(call, arg) == [do |-> call, arg |-> arg]
Each(call, args) == [i \in DOMAIN args |-> Do(call, args[i])]

(* One scope_enter, the calls made inside, and scope_exit. *)
Inside(calls) == Do("scope", calls)

(***************************************************************************)
(* scope.c                                                                 *)
(***************************************************************************)
scope_level == Len(scopes)
Top == scopes[Len(scopes)]

EmptyScope(n) == [table |-> [name \in Names |-> NULL], num_vars |-> n]

(* Parameters are counted from 0, everything deeper goes on counting. *)
Inherited == IF scope_level + 1 > 2 THEN Top.num_vars ELSE 0

(* Mutant of Closed: the count goes back to what it was before the scope. *)
ClosedForgetting == SubSeq(scopes, 1, Len(scopes) - 1)

(* Mutant of Closed: the scope is left on the stack. *)
ClosedNot == scopes

(* scope_exit hands the count back to the enclosing scope, so no slot is   *)
(* used twice in a function, except that the parameters' scope does not.   *)
Closed ==
  LET rest == SubSeq(scopes, 1, Len(scopes) - 1) IN
  IF scope_level > 2
  THEN [rest EXCEPT ![Len(scopes) - 1].num_vars = Top.num_vars]
  ELSE rest

Bound(name, s) ==
  [scopes EXCEPT ![Len(scopes)] =
     [table |-> [@.table EXCEPT ![name] = s], num_vars |-> @.num_vars + 1]]

scope_lookup_current(name) == Top.table[name]

Declaring(name) == {i \in DOMAIN scopes : scopes[i].table[name] # NULL}

(* The innermost declaration wins. *)
scope_lookup(name) ==
  IF Declaring(name) = {} THEN NULL
  ELSE scopes[CHOOSE i \in Declaring(name) :
                \A k \in Declaring(name) : k <= i].table[name]

(* A symbol's which is set by scope_bind alone; Unset is never read. *)
Unset == -1

symbol_create(kind, name, type) ==
  [kind |-> kind, name |-> name, type |-> type,
   which |-> Unset, total |-> 0, prototype |-> FALSE]

(* Nothing but parameters is in the scope of a parameter, so its type is   *)
(* compared with no function's.                                            *)
ParamType == [fun |-> FALSE, sig |-> <<"param">>]

(***************************************************************************)
(* The walk.                                                               *)
(***************************************************************************)
Calls == todo[Len(todo)]
Call == Head(Calls)
Ready(kind) == Calls # <<>> /\ Call.do = kind

(* The call at hand is replaced by the calls it makes. *)
Replace(calls) == todo' = [todo EXCEPT ![Len(todo)] = calls \o Tail(@)]

Fail(condition) == resolve_err' = (resolve_err \/ condition)

ResolveInit ==
  /\ \E p \in Sources : todo = <<Each("decl", p)>>
  /\ scopes = <<EmptyScope(0)>>
  /\ symbols = <<>>
  /\ resolve_err = FALSE
  /\ resolved = <<>>
  /\ functions = <<>>
  /\ status = "running"

scope_enter ==
  /\ Ready("scope")
  /\ todo' = Append([todo EXCEPT ![Len(todo)] = Tail(@)], Call.arg)
  /\ scopes' = Append(scopes, EmptyScope(Inherited))
  /\ UNCHANGED <<symbols, resolve_err, resolved, functions>>

scope_exit ==
  /\ Calls = <<>> /\ scope_level > 1
  /\ todo' = SubSeq(todo, 1, Len(todo) - 1)
  /\ scopes' = Closed
  /\ UNCHANGED <<symbols, resolve_err, resolved, functions>>

(* expr_resolve of an identifier. *)
expr_resolve ==
  LET s == scope_lookup(Call.arg) IN
  /\ Ready("use")
  /\ resolved' = Append(resolved, s)
  /\ Fail(s = NULL)
  /\ Replace(<<>>)
  /\ UNCHANGED <<scopes, symbols, functions>>

StmtCalls(s) ==
  CASE s.kind = "DECL" -> <<Do("decl", s.decl)>>
    [] s.kind \in {"EXPR", "PRINT", "RETURN"} -> Each("use", s.uses)
    [] s.kind = "BLOCK" -> <<Inside(Each("stmt", s.body))>>
    [] s.kind = "FOR" ->
         Each("use", s.uses) \o <<Inside(Each("stmt", s.body))>>
    [] s.kind = "IF_ELSE" ->
         Each("use", s.uses) \o <<Inside(Each("stmt", s.body)),
                                  Inside(Each("stmt", s.else_body))>>

stmt_resolve ==
  /\ Ready("stmt")
  /\ Replace(StmtCalls(Call.arg))
  /\ UNCHANGED <<scopes, symbols, resolve_err, resolved, functions>>

param_list_resolve ==
  LET p == symbol_create("PARAM", Call.arg, ParamType)
      s == Len(symbols) + 1
  IN
  /\ Ready("param")
  /\ \/ /\ scope_lookup_current(Call.arg) = NULL
        /\ symbols' = Append(symbols, [p EXCEPT !.which = Top.num_vars])
        /\ scopes' = Bound(Call.arg, s)
        /\ UNCHANGED resolve_err
     \/ /\ scope_lookup_current(Call.arg) # NULL
        /\ symbols' = Append(symbols, p)
        /\ resolve_err' = TRUE
        /\ UNCHANGED scopes
  /\ Replace(<<>>)
  /\ UNCHANGED <<resolved, functions>>

(***************************************************************************)
(* decl_resolve, up to its value, from there to its binding, and a         *)
(* function's total.                                                       *)
(***************************************************************************)
IsPrototype(d) == d.type.fun /\ d.code = <<>>

(* Mutant of DeclCalls: the name is bound before its value is resolved. *)
DeclCallsBindFirst(d, s) ==
  <<Do("bind", [decl |-> d, symbol |-> s])>> \o Each("use", d.uses)

DeclCalls(d, s) ==
  Each("use", d.uses) \o <<Do("bind", [decl |-> d, symbol |-> s])>>

CreateSymbol ==
  LET d == Call.arg
      kind == IF scope_level > 1 THEN "LOCAL" ELSE "GLOBAL"
  IN
  /\ Ready("decl")
  /\ symbols' = Append(symbols, symbol_create(kind, d.name, d.type))
  /\ Replace(DeclCalls(d, Len(symbols) + 1))
  /\ UNCHANGED <<scopes, resolve_err, resolved, functions>>

(* What decl_resolve does next with a function: resolve it in a scope of   *)
(* its own, and put the slots it took into its symbol or, if it defines    *)
(* something that was declared before, into that symbol.                   *)
FunctionCalls(d, s, tmp) ==
  LET target == IF tmp # NULL /\ ~ IsPrototype(d) THEN tmp ELSE s IN
  IF ~ d.type.fun THEN <<>>
  ELSE <<Inside(Each("param", d.params) \o Each("stmt", d.code) \o
                <<Do("total", [decl |-> d, own |-> s, symbol |-> target])>>)>>

BindNew ==
  LET d == Call.arg.decl
      s == Call.arg.symbol
  IN
  /\ Ready("bind") /\ scope_lookup_current(d.name) = NULL
  /\ symbols' = [symbols EXCEPT ![s].which = Top.num_vars,
                                ![s].prototype = IsPrototype(d)]
  /\ scopes' = Bound(d.name, s)
  /\ Replace(FunctionCalls(d, s, NULL))
  /\ UNCHANGED <<resolve_err, resolved, functions>>

(* Mutant of Compares: a second definition is compared as well. *)
ComparesAlways(d, tmp) == d.type.fun

(* Whether type_equals is called: for every prototype, and for the first   *)
(* definition behind one.                                                  *)
Compares(d, tmp) == d.type.fun /\ (IsPrototype(d) \/ symbols[tmp].prototype)

(* type_equals follows the missing arr_val of an "array []". *)
Crashes(d, tmp) == Compares(d, tmp) /\ Stuck(symbols[tmp].type.sig, d.type.sig)

(* Mutant of Redeclare: a definition does not use the prototype up. *)
RedeclareKeepsPrototype ==
  LET d == Call.arg.decl
      s == Call.arg.symbol
      tmp == scope_lookup_current(d.name)
  IN
  /\ Ready("bind") /\ tmp # NULL /\ ~ Crashes(d, tmp)
  /\ Fail(\/ ~ d.type.fun
          \/ symbols[tmp].type # d.type
          \/ ~ IsPrototype(d) /\ ~ symbols[tmp].prototype)
  /\ symbols' = [symbols EXCEPT ![s].prototype = IsPrototype(d)]
  /\ Replace(FunctionCalls(d, s, tmp))
  /\ UNCHANGED <<scopes, resolved, functions>>

(* The name is taken in this scope.  Only a function of the same type may  *)
(* be declared again, and defined only once: its first definition clears   *)
(* the prototype flag of the symbol.                                       *)
Redeclare ==
  LET d == Call.arg.decl
      s == Call.arg.symbol
      tmp == scope_lookup_current(d.name)
      defines == d.type.fun /\ ~ IsPrototype(d)
  IN
  /\ Ready("bind") /\ tmp # NULL /\ ~ Crashes(d, tmp)
  /\ Fail(\/ ~ d.type.fun
          \/ symbols[tmp].type # d.type
          \/ defines /\ ~ symbols[tmp].prototype)
  /\ symbols' = [symbols EXCEPT
                   ![s].prototype = IsPrototype(d),
                   ![tmp].prototype = symbols[tmp].prototype /\ ~ defines]
  /\ Replace(FunctionCalls(d, s, tmp))
  /\ UNCHANGED <<scopes, resolved, functions>>

(* The process ends with the name neither bound nor reported. *)
RedeclareCrash ==
  LET d == Call.arg.decl
      tmp == scope_lookup_current(d.name)
  IN
  /\ Ready("bind") /\ tmp # NULL /\ Crashes(d, tmp)
  /\ status' = "crashed"
  /\ UNCHANGED <<todo, scopes, symbols, resolve_err, resolved, functions>>

(* Mutant of SetTotal: the total of a definition that follows a prototype  *)
(* is put into the definition's own symbol, which is then dropped.         *)
SetTotalOwn ==
  LET c == Call.arg IN
  /\ Ready("total")
  /\ symbols' = [symbols EXCEPT ![c.own].total = Top.num_vars]
  /\ functions' = Append(functions, c)
  /\ Replace(<<>>)
  /\ UNCHANGED <<scopes, resolve_err, resolved>>

SetTotal ==
  LET c == Call.arg IN
  /\ Ready("total")
  /\ symbols' = [symbols EXCEPT ![c.symbol].total = Top.num_vars]
  /\ functions' = Append(functions, c)
  /\ Replace(<<>>)
  /\ UNCHANGED <<scopes, resolve_err, resolved>>

Done == status = "running" /\ scope_level = 1 /\ Calls = <<>>

(* resolve() has returned resolve_err, or the process is gone. *)
Returned == (Done \/ status = "crashed") /\ UNCHANGED vars

Step ==
  \/ scope_enter \/ scope_exit
  \/ expr_resolve \/ stmt_resolve \/ param_list_resolve
  \/ CreateSymbol \/ BindNew \/ Redeclare \/ SetTotal

Next ==
  \/ status = "running" /\ Step /\ UNCHANGED status
  \/ status = "running" /\ RedeclareCrash
  \/ Returned

Spec == ResolveInit /\ [][Next]_vars

(***************************************************************************)
(* Properties.                                                             *)
(***************************************************************************)
Symbol(s) == s \in DOMAIN symbols

TypeOK ==
  /\ Len(todo) = Len(scopes) /\ scopes # <<>>
  /\ \A i \in DOMAIN scopes :
       /\ scopes[i].num_vars \in Nat
       /\ \A n \in Names : scopes[i].table[n] \in DOMAIN symbols \cup {NULL}
  /\ \A s \in DOMAIN symbols :
       /\ symbols[s].kind \in {"GLOBAL", "LOCAL", "PARAM"}
       /\ symbols[s].which \in Nat \cup {Unset}
       /\ symbols[s].total \in Nat
       /\ symbols[s].prototype \in BOOLEAN
  /\ resolve_err \in BOOLEAN /\ status \in {"running", "crashed"}
  /\ \A i \in DOMAIN resolved : resolved[i] \in DOMAIN symbols \cup {NULL}

(* The global declaration in which a symbol was created. *)
IsGlobal(s) == symbols[s].kind = "GLOBAL"
SameFrame(s, t) ==
  \A g \in DOMAIN symbols : IsGlobal(g) => (g <= s <=> g <= t)

InFrame(s) == ~ IsGlobal(s) /\ symbols[s].which # Unset

(* Whatever the nesting of blocks, branches, loops and prototypes, two     *)
(* variables of one function never share a slot of its stack frame.        *)
SlotsDisjoint ==
  \A s, t \in DOMAIN symbols :
    InFrame(s) /\ InFrame(t) /\ SameFrame(s, t)
      /\ symbols[s].which = symbols[t].which => s = t

IsDefinition(f) == f.decl.code # <<>> /\ IsGlobal(f.own)

(* The frame that the prologue of a function makes fits what its code      *)
(* uses: parameter i is in slot i - 1, where the prologue pushes it, and   *)
(* every slot is among the total that the prologue reserves, even when the *)
(* total is kept in the symbol of an earlier prototype.                    *)
FrameFits ==
  ~ resolve_err =>
    \A i \in DOMAIN functions : IsDefinition(functions[i]) =>
      LET f == functions[i] IN
      /\ \A k \in DOMAIN f.decl.params : symbols[f.own + k].which = k - 1
      /\ \A s \in DOMAIN symbols : InFrame(s) /\ SameFrame(s, f.own) =>
           symbols[s].which < symbols[f.symbol].total
=============================================================================
