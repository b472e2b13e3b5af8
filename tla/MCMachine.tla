------------------------------ MODULE MCMachine ------------------------------
(***************************************************************************)
(* Source programs for Machine, and what they mean: a reference evaluation *)
(* of the tree.  Mode "written" is the language as one would read it, with *)
(* short circuits, operands evaluated once, storage for every array and    *)
(* strings compared by their text; mode "compiled" is what this compiler   *)
(* makes of it in these four cases.                                        *)
(***************************************************************************)
EXTENDS Machine, Trees

(***************************************************************************)
(* The reference.  A state of the evaluation:                              *)
(*   local   slot -> value          heap    array -> its elements          *)
(*   global  name -> value          out     what was printed               *)
(*   v       the last value         done    a return statement was met     *)
(*   fault   the program stops      fresh   how many string literals were  *)
(*   mode    see above                      evaluated                      *)
(* The value of an array is its name, that of a string its text and an     *)
(* identity.                                                               *)
(***************************************************************************)
Tree == stack[1].node
Declared(kind) == {d \in {Tree.sub[i] : i \in DOMAIN Tree.sub} : d.kind = kind}
Definition(kind, name) == CHOOSE d \in Declared(kind) : d.val.name = name

Start(mode) ==
  LET names == {d.val.name : d \in Declared("DATA")}
      of(name) == Definition("DATA", name).val
      value(d) ==
        CASE d.type = "ARRAY"  -> d.name
          [] d.type = "STRING" -> [text |-> d.init[1], id |-> <<0, d.name>>]
          [] OTHER -> IF d.init = <<>> THEN 0 ELSE d.init[1]
      elements(d) ==
        IF d.type = "ARRAY" /\ d.init = <<>> /\ mode = "written" THEN <<0, 0>>
        ELSE d.init
  IN  [ local |-> <<>>, global |-> [n \in names |-> value(of(n))],
        heap |-> [n \in names \cup {"brace"} |->
                    IF n = "brace" THEN <<>> ELSE elements(of(n))],
        out |-> <<>>, v |-> 0, done |-> FALSE, fault |-> FALSE, fresh |-> 0,
        mode |-> mode ]

Then(s, t) == IF s.fault THEN s ELSE t
With(s, v) == [s EXCEPT !.v = v]
Fails(s) == [s EXCEPT !.fault = TRUE]
Flow(b) == IF b THEN 1 ELSE 0

Fetch(x, s) == With(s, IF x.kind = "GLOBAL" THEN s.global[x.name] ELSE s.local[x.which])
Store(x, s) == IF x.kind = "GLOBAL" THEN [s EXCEPT !.global[x.name] = s.v]
               ELSE [s EXCEPT !.local[x.which] = s.v]

(* Element i of array a; programs keep to the elements there are.          *)
FetchElement(a, i, s) ==
  IF s.heap[a] = <<>> THEN Fails(s) ELSE With(s, s.heap[a][i + 1])
StoreElement(a, i, s) ==
  IF s.heap[a] = <<>> THEN Fails(s) ELSE [s EXCEPT !.heap[a][i + 1] = s.v]

Divisible(a, b) == b # 0 /\ Quotient(a, b) \in Word

Apply(kind, a, b, s) ==
  CASE kind = "ADD" -> With(s, Wrap(a + b))
    [] kind = "SUB" -> With(s, Wrap(a - b))
    [] kind = "MUL" -> With(s, Wrap(a * b))
    [] kind = "DIV" -> IF Divisible(a, b) THEN With(s, Quotient(a, b)) ELSE Fails(s)
    [] kind = "MOD" -> IF Divisible(a, b) THEN With(s, a - b * Quotient(a, b))
                                          ELSE Fails(s)
    [] kind = "EXPONENT" -> With(s, integer_power(a, b))
    [] kind = "GT"  -> With(s, Flow(a > b))
    [] kind = "GTE" -> With(s, Flow(a >= b))
    [] kind = "LT"  -> With(s, Flow(a < b))
    [] kind = "LTE" -> With(s, Flow(a <= b))
    [] kind = "EQ"  -> With(s, Flow(a = b))
    [] kind = "NOT_EQ" -> With(s, Flow(a # b))
    [] kind = "AND" -> With(s, IF a = 0 THEN 0 ELSE b)
    [] kind = "OR"  -> With(s, IF a = 0 THEN b ELSE 1)

IsText(n) == n.kind = "STR_LIT" \/ (n.kind = "ID" /\ n.val.name = "s")

RECURSIVE Eval(_, _), EvalAll(_, _, _), Exec(_, _), ExecAll(_, _), Loop(_, _),
          PrintAll(_, _, _)

(* Two operands from left to right, then Op of their values. *)
Both(n, s, Op_(_, _, _)) ==
  LET one == Eval(n.sub[1], s)
      two == Eval(n.sub[2], one)
  IN  Then(one, Then(two, Op_(one.v, two.v, two)))

(* x++ and a[i]++ have the value from before the step.                     *)
Stepped(n, s) ==
  LET place == n.sub[1]
      change(t) == With(t, Wrap(IF n.kind = "INCREMENT" THEN t.v + 1 ELSE t.v - 1))
      old == Eval(place, s)
      element(a, i, t) == StoreElement(a, i, change(FetchElement(a, i, t)))
      new == IF place.kind = "ID" THEN Store(place.val, change(old))
             ELSE Both(place, IF s.mode = "written" THEN s ELSE old, element)
  IN  Then(old, Then(new, With(new, old.v)))

Assigned(n, s) ==
  LET place == n.sub[1]
      value == Eval(n.sub[2], s)
      index == Eval(place.sub[2], value)
      array == Eval(place.sub[1], index)
  IN  Then(value,
        IF place.kind = "ID" THEN Store(place.val, value)
        ELSE Then(index, Then(array,
               StoreElement(array.v, index.v, With(array, value.v)))))

Called(n, s) ==
  LET args == EvalAll(n.sub, <<>>, s)
      f == Definition("FUNCTION", n.val)
      frame == [i \in 0 .. f.val.total - 1 |->
                  IF i < f.val.params THEN args.v[i + 1] ELSE 0]
      end == Exec(f.sub[1], [args EXCEPT !.local = frame])
  IN  Then(args, [end EXCEPT !.local = args.local, !.done = FALSE])

(* A local array has its values, or is the address that its first value is.*)
Eval(n, s) ==
  LET one == Eval(n.sub[1], s)
      decided == one.v = Flow(n.kind = "OR")
      text(a, b, t) ==
        IF s.mode = "written" THEN Apply(n.kind, a.text, b.text, t)
                              ELSE Apply(n.kind, a.id, b.id, t)
      apply(a, b, t) == Apply(n.kind, a, b, t)
  IN
  CASE n.kind \in {"INT_LIT", "BOOL_LIT", "CHAR_LIT"} -> With(s, n.val)
    [] n.kind = "STR_LIT" -> With([s EXCEPT !.fresh = @ + 1],
                                  [text |-> n.val, id |-> <<s.fresh + 1, "">>])
    [] n.kind = "ID" -> Fetch(n.val, s)
    [] n.kind = "NEGATION" -> Then(one, With(one, Wrap(-one.v)))
    [] n.kind = "NOT" -> Then(one, With(one, 1 - one.v))
    [] n.kind \in Logical -> Then(one, IF s.mode = "written" /\ decided THEN one
                                       ELSE Both(n, s, apply))
    [] n.kind \in {"EQ", "NOT_EQ"} /\ IsText(n.sub[1]) -> Both(n, s, text)
    [] n.kind \in Arithmetic \cup Comparison -> Both(n, s, apply)
    [] n.kind = "TERNARY1" -> Then(one, Eval(n.sub[IF one.v # 0 THEN 2 ELSE 3], one))
    [] n.kind = "INDEX" -> Both(n, s, FetchElement)
    [] n.kind \in Step -> Stepped(n, s)
    [] n.kind = "ASSIGN" -> Assigned(n, s)
    [] n.kind = "FCALL" -> Called(n, s)
    [] n.kind = "BRACE" ->
         LET value == Eval(n.sub[1].sub[1], s) IN
         With([s EXCEPT !.heap["brace"] = IF s.mode = "written" THEN <<value.v>>
                                          ELSE <<>>], "brace")

(* The values of the expressions ns, after the values vs, as a sequence.   *)
EvalAll(ns, vs, s) ==
  LET one == Eval(ns[Len(vs) + 1], s) IN
  IF Len(vs) = Len(ns) THEN With(s, vs)
  ELSE Then(one, EvalAll(ns, Append(vs, one.v), one))

PrintAll(n, i, s) ==
  LET one == Eval(n.sub[i], s)
      type == n.val[i]
      shown == <<type, CASE type = "STRING" -> one.v.text
                         [] type = "BOOLEAN" -> one.v = 1
                         [] OTHER -> one.v>>
  IN  IF i > Len(n.sub) THEN s
      ELSE Then(one, PrintAll(n, i + 1, [one EXCEPT !.out = Append(@, shown)]))

Loop(n, s) ==
  LET test == IF n.sub[2] = None THEN With(s, 1) ELSE Eval(n.sub[2], s)
      body == Exec(n.sub[4], test)
      next == IF n.sub[3] = None THEN body ELSE Eval(n.sub[3], body)
  IN  Then(test, IF test.v = 0 THEN test
                 ELSE IF body.done \/ body.fault THEN body
                 ELSE Then(next, Loop(n, next)))

ExecAll(ns, s) ==
  LET one == Exec(Head(ns), s) IN
  IF ns = <<>> \/ s.fault \/ s.done THEN s ELSE ExecAll(Tail(ns), one)

Exec(n, s) ==
  LET one == Eval(n.sub[1], s) IN
  CASE n.kind = "BLOCK" -> ExecAll(n.sub, s)
    [] n.kind = "EXPR" -> one
    [] n.kind = "RETURN" ->
         IF n.sub = <<>> THEN [s EXCEPT !.done = TRUE] ELSE [one EXCEPT !.done = TRUE]
    [] n.kind = "DECL" -> IF n.sub = <<>> THEN s ELSE Then(one, Store(n.val, one))
    [] n.kind = "PRINT" -> PrintAll(n, 1, s)
    [] n.kind = "IF_ELSE" ->
         Then(one, IF one.v # 0 THEN Exec(n.sub[2], one)
                   ELSE IF n.sub[3] = None THEN one ELSE Exec(n.sub[3], one))
    [] n.kind = "FOR" -> IF n.sub[1] = None THEN Loop(n, s) ELSE Then(one, Loop(n, one))

Meaning(mode) == Called(FCall("main", <<>>), Start(mode))

Produces(s) ==
  IF s.fault THEN machine = "fault"
  ELSE machine = "returned" /\ output = s.out /\ regs[Rax] = s.v

(***************************************************************************)
(* Where the two modes may differ.                                         *)
(***************************************************************************)
RECURSIVE Within(_)
Within(n) == {n} \cup UNION {Within(n.sub[i]) : i \in DOMAIN n.sub}

Effect(n) == \E k \in Within(n) : k.kind \in {"ASSIGN", "FCALL"} \cup Step
Traps(n) == \E k \in Within(n) : k.kind \in {"DIV", "MOD", "INDEX"}

Departure(n) ==
  \/ n.kind \in Logical /\ (Effect(n.sub[2]) \/ Traps(n.sub[2]))
  \/ n.kind \in Step /\ n.sub[1].kind = "INDEX" /\ Effect(n.sub[1].sub[2])
  \/ n.kind \in {"EQ", "NOT_EQ"} /\ IsText(n.sub[1])
  \/ n.kind = "DATA" /\ n.val.type = "ARRAY" /\ n.val.init = <<>>
  \/ n.kind = "BRACE"

(***************************************************************************)
(* Programs.  Every one has the globals g, b, a, s and z and functions     *)
(* that change what others read; main has two local variables.             *)
(***************************************************************************)
X == Local(0)
Y == Local(1)
P == Param(0)
G == Global("g")
B == Global("b")
A == Global("a")
Step1(e) == Unary_("INCREMENT", e)
Add(e, f) == Binary_("ADD", e, f)
Less(e, f) == Binary_("LT", e, f)
PrintInts(es) == PrintStmt(es, [i \in DOMAIN es |-> "INTEGER"])
Shown(e, type) == PrintStmt(<<e>>, <<type>>)

Prelude ==
  << Data("g", "INTEGER", "NONE", <<5>>), Data("b", "BOOLEAN", "NONE", <<1>>),
     Data("a", "ARRAY", "INTEGER", <<3, 4>>), Data("s", "STRING", "NONE", <<"text">>) >>

(* f prints, changes g and returns it; h is a test with an effect; i is 0  *)
(* and 1 in turn; k has six parameters and a local variable.               *)
Functions ==
  << Function("f", 1, 0, Block(<< PrintInts(<<P>>), ExprStmt(Assign(G, Add(G, P))),
                                  Return_(<<G>>) >>)),
     Function("h", 1, 0, Block(<< PrintInts(<<P>>), Return_(<<Less(Num(2), P)>>) >>)),
     Function("i", 0, 0, Return_(<<Binary_("MOD", Step1(G), Num(2))>>)),
     Function("k", 6, 1, Block(<<
       Decl(Local(6), <<Binary_("SUB", Binary_("MUL", Param(0), Param(1)), Param(2))>>),
       PrintInts([j \in 1 .. 6 |-> Param(j - 1)]), Return_(<<Local(6)>>) >>)) >>

Source(extra, stmts) ==
  Program(Prelude \o extra \o
    <<Function("main", 0, 2, Block(<<Decl(X, <<Num(3)>>)>> \o stmts \o
       << PrintInts(<<X, G, Element(A, Num(0)), Element(A, Num(1))>>),
          Shown(B, "BOOLEAN"), Return_(<<X>>) >>))>>)

OfInt(e) == Source(Functions, << PrintInts(<<e>>) >>)
OfBool(e) == Source(Functions, << Shown(e, "BOOLEAN") >>)

(* Operators on words at both ends of the range; a negative literal is a   *)
(* negation.                                                               *)
Edge == {Num(2), Unary_("NEGATION", Num(3)), Num(0), Num(Half - 1),
         Unary_("NEGATION", Num(Half))}
Small == {Num(2), Unary_("NEGATION", Num(3)), Num(0)}
Arith == {OfInt(e) : e \in Binary(Arithmetic \ {"EXPONENT"}, Edge) \cup Binary({"EXPONENT"}, Small)}
         \cup {OfBool(e) : e \in Binary(Comparison, Small)}

Calm == {X, Element(A, Num(1))}
Lively ==
  { Step1(X), Assign(X, Num(7)), FCall("f", <<X>>), Step1(Element(A, Num(0))),
    Step1(Element(A, FCall("i", <<>>))), Assign(Element(A, FCall("i", <<>>)), Step1(X)),
    FCall("f", <<FCall("f", <<Num(1)>>)>>) }
Tests == {B, FCall("h", <<X>>), Less(Num(5), X), Assign(B, Truth(0)),
          Unary_("NOT", B)}

Effects ==
  {OfInt(e) : e \in Binary({"SUB"}, Calm \cup Lively) \cup Unaries({"NEGATION"}, Lively)
               \cup {Node("TERNARY1", <<c, e, f>>, 0) : c \in Tests, e \in Lively, f \in {X}}
               \cup {FCall("k", <<e, X, f, Num(4), e, FCall("f", <<G>>)>>) :
                       e \in Lively, f \in Calm}
               \cup {Binary_("MUL", X, Add(FCall("f", <<X>>), Binary_("EXPONENT", e, Num(2)))) :
                       e \in Lively}}
  \cup {OfBool(e) : e \in Binary(Logical, Tests) \cup
           {Binary_("AND", Less(X, Num(3)), Less(Binary_("DIV", X, Num(0)), X)),
            Binary_("EQ", Text("text"), Global("s")),
            Binary_("NOT_EQ", Global("s"), Global("s"))}}

(* Statements. *)
Sum == Assign(X, Add(X, Y))
Count(body) == For(Assign(Y, Num(0)), Less(Y, Num(3)), Step1(Y), body)
Even(e) == Binary_("EQ", Binary_("MOD", e, Num(2)), Num(0))
Fact ==
  Function("fact", 1, 0,
    If(Less(P, Num(2)), Return_(<<Num(1)>>),
       Return_(<<Binary_("MUL", P, FCall("fact", <<Binary_("SUB", P, Num(1))>>))>>)))
Total ==   \* of the elements of an array that is a parameter
  Function("total", 2, 2, Block(<<
    Decl(Local(2), <<Num(0)>>),
    For(Assign(Local(3), Num(0)), Less(Local(3), Param(1)), Step1(Local(3)),
        ExprStmt(Assign(Local(2), Add(Local(2), Element(P, Local(3)))))),
    Return_(<<Local(2)>>)>>))
Grow == Assign(Element(P, Num(0)), Num(9))

Statements ==
  {Source(Functions, <<s>>) :
     s \in { Count(ExprStmt(Sum)),
             Count(If(Even(Y), ExprStmt(Sum), ExprStmt(FCall("f", <<Y>>)))),
             Count(Count(ExprStmt(Sum))),
             Count(If(Binary_("EQ", Y, Num(1)), Return_(<<Y>>), None)),
             For(None, Less(X, Num(5)), None, ExprStmt(Step1(X))),
             If(B, Block(<<Decl(Y, <<Num(8)>>), ExprStmt(Sum)>>), Return_(<<Y>>)),
             PrintStmt(<<Text("one"), Global("s"), Node("CHAR_LIT", <<>>, 65), B>>,
                       <<"STRING", "STRING", "CHARACTER", "BOOLEAN">>) }}
  \cup { Source(<<Fact>>, <<PrintInts(<<FCall("fact", <<Num(4)>>)>>)>>),
         Source(<<Total>>, <<PrintInts(<<FCall("total", <<A, Num(2)>>)>>)>>),
         Source(<<Function("grow", 1, 0, ExprStmt(Grow))>>, <<ExprStmt(FCall("grow", <<A>>))>>),
         Source(<<Data("z", "ARRAY", "INTEGER", <<>>)>>,
                <<ExprStmt(Assign(Element(Global("z"), Num(0)), X))>>),
         Source(<<Data("z", "ARRAY", "INTEGER", <<>>)>>,
                <<ExprStmt(Assign(Global("z"), A)), PrintInts(<<Element(Global("z"), Num(1))>>)>>),
         Source(<<>>, <<Decl(Y, <<Unary_("BRACE", Unary_("ARG", Num(7)))>>),
                        PrintInts(<<Element(Y, Num(0))>>)>>) }

MCPrograms == Arith \cup Effects \cup Statements
MCNodes == UNION {UNION {{n} \cup {Operands(n)[i] : i \in DOMAIN Operands(n)} :
                          n \in Within(p)} : p \in MCPrograms}
NoGarbage == {}
MCTrash == {-20000, 77}

Ended == machine \in {"returned", "fault"}

(* What the program prints, returns, or stops at is what its source says,  *)
(* read the way this compiler reads it: operands from left to right, each  *)
(* register, slot, label and saved value in its place, in every operator,  *)
(* statement and call, on words that wrap.                                 *)
MeansWhatIsCompiled == Ended => Produces(Meaning("compiled"))

(* And it is what the source says as written, unless an effect or a trap   *)
(* is on the right of AND and OR or in the index of a stepped element,     *)
(* strings are compared, or an array has no storage.                       *)
MeansWhatIsWritten ==
  Ended => Produces(Meaning("written")) \/ \E n \in Within(Tree) : Departure(n)
=============================================================================
