------------------------------ MODULE Scoping ------------------------------
(***************************************************************************)
(* Static scoping, written independently of the handlers and of scope.c: a *)
(* program is read as its text, from left to right, in which scopes are    *)
(* entered and left and names are declared and used.  What a use means and *)
(* which declarations are in error is then a matter of positions.          *)
(*                                                                         *)
(* The texts of declarations and statements are given by their equations,  *)
(* because they are recursive.                                             *)
(***************************************************************************)
EXTENDS Resolve, FiniteSets, SequencesExt

CONSTANTS
  DeclText,     \* declaration -> its text
  StmtText      \* statement -> its text

Enter == [ev |-> "enter"]
Exit == [ev |-> "exit"]
Mention(name) == [ev |-> "use", name |-> name]
Declare(d) ==
  [ev |-> "declare", name |-> d.name, type |-> d.type, code |-> d.code # <<>>]
Parameter(name) ==
  [ev |-> "declare", name |-> name, type |-> ParamType, code |-> FALSE]

Event ==
  {Enter, Exit} \cup {Mention(n) : n \in Names} \cup {Parameter(n) : n \in Names}
  \cup {Declare(d) : d \in Decls}

Mentions(names) == [i \in DOMAIN names |-> Mention(names[i])]
Parameters(names) == [i \in DOMAIN names |-> Parameter(names[i])]
Scoped(text) == <<Enter>> \o text \o <<Exit>>

BodyText(body) == FlattenSeq([i \in DOMAIN body |-> StmtText[body[i]]])

(* A function's parameters and code are in a scope of their own. *)
FunctionText(d) ==
  IF d.type.fun THEN Scoped(Parameters(d.params) \o BodyText(d.code)) ELSE <<>>

(* A name is declared after its value and before its code. *)
ASSUME DeclTextAssumption ==
  \A d \in Decls :
    /\ DeclText[d] \in Seq(Event)
    /\ DeclText[d] = Mentions(d.uses) \o <<Declare(d)>> \o FunctionText(d)

ASSUME StmtTextAssumption ==
  \A s \in Stmts :
    /\ StmtText[s] \in Seq(Event)
    /\ StmtText[s] =
         CASE s.kind = "DECL" -> DeclText[s.decl]
           [] s.kind \in {"EXPR", "PRINT", "RETURN"} -> Mentions(s.uses)
           [] s.kind = "BLOCK" -> Scoped(BodyText(s.body))
           [] s.kind = "FOR" -> Mentions(s.uses) \o Scoped(BodyText(s.body))
           [] s.kind = "IF_ELSE" ->
                Mentions(s.uses) \o Scoped(BodyText(s.body))
                                 \o Scoped(BodyText(s.else_body))

ProgramText(p) == FlattenSeq([i \in DOMAIN p |-> DeclText[p[i]]])

(***************************************************************************)
(* Positions in a text t.                                                  *)
(***************************************************************************)
Count(t, k, ev) == Cardinality({i \in 1 .. k : t[i].ev = ev})

(* How many scopes are open behind position k. *)
Depth(t, k) == Count(t, k, "enter") - Count(t, k, "exit")

(* The scope that position j is in is still open at i, or is i's own. *)
Open(t, j, i) == \A k \in j .. i : Depth(t, k) >= Depth(t, j)
Together(t, j, i) == Depth(t, j) = Depth(t, i) /\ Open(t, j, i)

Declares(t, j, name) == t[j].ev = "declare" /\ t[j].name = name

(* The first declaration of a name in a scope is the one that counts. *)
First(t, j) ==
  ~ \E k \in 1 .. j - 1 : Declares(t, k, t[j].name) /\ Together(t, k, j)

Visible(t, name, i) ==
  {j \in 1 .. i : Declares(t, j, name) /\ Open(t, j, i) /\ First(t, j)}

Innermost(t, name, i) ==
  CHOOSE j \in Visible(t, name, i) :
    \A k \in Visible(t, name, i) : Depth(t, k) <= Depth(t, j)

(* The declaration that a name means at position i; declarations are       *)
(* numbered as they come, which is the order of their symbols.             *)
Meaning(t, name, i) ==
  IF Visible(t, name, i) = {} THEN NULL
  ELSE Count(t, Innermost(t, name, i), "declare")

(* The declarations of a scope agree when a name is declared again only as *)
(* a function of the same type, and defined at most once.                  *)
Agree(a, b) == a.type.fun /\ b.type.fun /\ a.type = b.type /\ ~ (a.code /\ b.code)

Undeclared(t) ==
  \E i \in DOMAIN t : t[i].ev = "use" /\ Meaning(t, t[i].name, i) = NULL

Conflicting(t) ==
  \E k \in DOMAIN t : \E i \in 1 .. k - 1 :
    /\ t[k].ev = "declare" /\ Declares(t, i, t[k].name)
    /\ Together(t, i, k) /\ ~ Agree(t[i], t[k])

(* A function is compared with the first declaration of its name in the    *)
(* scope: a prototype always, a definition only if that one is a prototype *)
(* that no other definition came behind.                                   *)
Defines(e) == e.type.fun /\ e.code

Defined(t, i, k) ==
  \E m \in i + 1 .. k - 1 :
    Declares(t, m, t[i].name) /\ Together(t, i, m) /\ Defines(t[m])

Compared(t, i, k) ==
  /\ t[k].ev = "declare" /\ t[k].type.fun
  /\ Declares(t, i, t[k].name) /\ Together(t, i, k) /\ First(t, i)
  /\ t[k].code => t[i].type.fun /\ ~ t[i].code /\ ~ Defined(t, i, k)

(* Two types are compared that agree up to an "array []" in one of them.   *)
Crashing(t) ==
  \E k \in DOMAIN t : \E i \in 1 .. k - 1 :
    Compared(t, i, k) /\ Stuck(t[i].type.sig, t[k].type.sig)

(***************************************************************************)
(* Name resolution and the program that it resolves, which the walk itself *)
(* does not keep.                                                          *)
(***************************************************************************)
VARIABLE program

ScopingInit ==
  /\ ResolveInit
  /\ program \in Sources
  /\ todo = <<Each("decl", program)>>

ScopingNext == Next /\ UNCHANGED program

ScopingSpec == ScopingInit /\ [][ScopingNext]_<<vars, program>>

(* Every use is bound to the declaration that static scoping gives it: the *)
(* innermost one, declared before the use, and not the variable whose own  *)
(* initial value contains the use.                                         *)
LookupSound ==
  LET text == ProgramText(program) IN
  Done => /\ Len(resolved) = Count(text, Len(text), "use")
          /\ \A i \in DOMAIN text : text[i].ev = "use" =>
               resolved[Count(text, i, "use")] = Meaning(text, text[i].name, i)

(* Whenever resolution returns, it has reported an error exactly if the    *)
(* program breaks the rules of declaration or uses an undeclared name,     *)
(* whichever declaration comes first (resolve_err).                        *)
ErrorsExact ==
  LET text == ProgramText(program) IN
  Done => (resolve_err <=> Undeclared(text) \/ Conflicting(text))

(* Resolution returns for every program but those that make type_equals    *)
(* compare an "array []" (decl_resolve does so for a repeated prototype    *)
(* and for the definition of one): there, and only there, the process      *)
(* ends with a NULL pointer, whatever else is wrong in the program.        *)
CrashExact ==
  LET text == ProgramText(program) IN
  /\ status = "crashed" => Crashing(text)
  /\ Done => ~ Crashing(text)
=============================================================================
