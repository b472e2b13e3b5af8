--------------------------- MODULE ResolveProofs ---------------------------
(***************************************************************************)
(* Name resolution, for every set of programs: no two variables of a       *)
(* function share a slot, and the frame of a function fits its code.       *)
(* EnterPreserves and its like have what each action does to the state;    *)
(* ScopingProofs uses them as well.                                        *)
(***************************************************************************)
EXTENDS Scoping, SequenceTheorems, FiniteSetTheorems, Induction, TLAPS

(***************************************************************************)
(* The calls that wait in todo.                                            *)
(***************************************************************************)
Binding == [decl : Decls, symbol : Nat]
Total == [decl : Decls, own : Nat, symbol : Nat]

Flat ==
  [do : {"decl"}, arg : Decls] \cup [do : {"stmt"}, arg : Stmts]
  \cup [do : {"use", "param"}, arg : Names]
  \cup [do : {"bind"}, arg : Binding] \cup [do : {"total"}, arg : Total]

AnyCall == Flat \cup [do : {"scope"}, arg : Seq(Flat)]

(***************************************************************************)
(* The state.                                                              *)
(***************************************************************************)
SymbolRecord ==
  [kind : {"GLOBAL", "LOCAL", "PARAM"}, name : Names,
   type : {d.type : d \in Decls} \cup {ParamType}, which : Nat \cup {Unset},
   total : Nat, prototype : BOOLEAN]

Scope == [table : [Names -> Nat], num_vars : Nat]

TypesInv ==
  /\ todo \in Seq(Seq(AnyCall))
  /\ scopes \in Seq(Scope) /\ Len(todo) = Len(scopes) /\ scopes # <<>>
  /\ symbols \in Seq(SymbolRecord)
  /\ resolve_err \in BOOLEAN
  /\ resolved \in Seq(Nat)
  /\ \A i \in DOMAIN resolved : resolved[i] \in DOMAIN symbols \cup {NULL}

(* The symbol of a global declaration, of anything else, and one that no   *)
(* global declaration follows: it is in the frame being laid out.          *)
Global(s) == s \in DOMAIN symbols /\ IsGlobal(s)
Deep(s) == s \in DOMAIN symbols /\ ~ IsGlobal(s)
Local(s) == s \in DOMAIN symbols /\ symbols[s].kind = "LOCAL"
Current(s) == \A g \in DOMAIN symbols : IsGlobal(g) => g <= s

(* A call made in the body of a function binds and fills symbols of the    *)
(* function's own frame.                                                   *)
FlatInBody(c) ==
  /\ c.do = "bind" => Local(c.arg.symbol) /\ Current(c.arg.symbol)
  /\ c.do = "total" => Deep(c.arg.own) /\ Deep(c.arg.symbol)

InBody(c) ==
  /\ FlatInBody(c)
  /\ c.do = "scope" => \A k \in DOMAIN c.arg : FlatInBody(c.arg[k])

(* The calls that resolve a global function end with its total.            *)
LastOf(calls) == calls[Len(calls)]

FunctionBody(calls) ==
  /\ calls # <<>> /\ LastOf(calls).do = "total"
  /\ Global(LastOf(calls).arg.own) /\ Current(LastOf(calls).arg.own)
  /\ Global(LastOf(calls).arg.symbol)
  /\ LastOf(calls).arg.symbol <= LastOf(calls).arg.own
  /\ \A i \in 1 .. Len(calls) - 1 : calls[i].do # "total" /\ InBody(calls[i])

(* Outside of functions: declarations, and what is left of the one begun,  *)
(* whose symbol is the last created.                                       *)
AtTopLevel(c) ==
  \/ c.do = "decl"
  \/ /\ Len(scopes) = 1 /\ Global(Len(symbols))
     /\ \/ c.do = "use"
        \/ c.do = "bind" /\ c.arg.symbol = Len(symbols)
        \/ /\ c.do = "scope" /\ FunctionBody(c.arg)
           /\ LastOf(c.arg).arg.own = Len(symbols)

TopLevelInv ==
  /\ \A i \in DOMAIN todo[1] : AtTopLevel(todo[1][i])
  /\ \A i, k \in DOMAIN todo[1] :
       i < k /\ todo[1][i].do # "use" => todo[1][k].do = "decl"

BodyInv ==
  /\ Len(todo) >= 2 =>
       IF todo[2] = <<>> THEN Len(todo) = 2 ELSE FunctionBody(todo[2])
  /\ \A i \in 3 .. Len(todo) : \A k \in DOMAIN todo[i] : InBody(todo[i][k])

CallsInv == TopLevelInv /\ BodyInv

ScopesInv ==
  \A i \in DOMAIN scopes : \A n \in Names : scopes[i].table[n] # NULL =>
    IF i = 1 THEN Global(scopes[i].table[n]) ELSE Deep(scopes[i].table[n])

(* No slot of the frame being laid out has been given away twice: the next *)
(* one is above all.                                                       *)
SlotsInv ==
  Len(scopes) >= 2 =>
    \A s \in DOMAIN symbols :
      InFrame(s) /\ Current(s) => symbols[s].which < Top.num_vars

(***************************************************************************)
(* What holds of the functions, while no error has been found.             *)
(***************************************************************************)

(* The parameters' symbols follow the function's, in order, and are bound  *)
(* in the scope of its parameters before anything else is.                 *)
Made(c) == Len(symbols) - c.own

ParamsInv(calls) ==
  LET c == LastOf(calls).arg IN
  /\ \A k \in DOMAIN c.decl.params : k <= Made(c) =>
       symbols[c.own + k].kind = "PARAM" /\ symbols[c.own + k].which = k - 1
  /\ \A i \in DOMAIN calls :
       calls[i].do = "param" <=> i <= Len(c.decl.params) - Made(c)

(* A function being resolved fills a symbol that no finished one filled.   *)
PendingInv(calls) ==
  LET c == LastOf(calls).arg IN
  /\ \A i \in DOMAIN functions : IsDefinition(functions[i]) =>
       functions[i].own < c.own
  /\ ~ resolve_err =>
       /\ ParamsInv(calls)
       /\ c.decl.code # <<>> => ~ symbols[c.symbol].prototype
       /\ \A i \in DOMAIN functions : IsDefinition(functions[i]) =>
            functions[i].symbol # c.symbol

FrameOf(f) ==
  /\ ~ symbols[f.symbol].prototype
  /\ \A k \in DOMAIN f.decl.params :
       /\ f.own + k \in DOMAIN symbols /\ symbols[f.own + k].kind = "PARAM"
       /\ symbols[f.own + k].which = k - 1
  /\ \A s \in DOMAIN symbols : InFrame(s) /\ SameFrame(s, f.own) =>
       symbols[s].which < symbols[f.symbol].total

FinishedTyped ==
  /\ functions \in Seq(Total)
  /\ \A i \in DOMAIN functions :
       /\ functions[i].own \in DOMAIN symbols
       /\ IsDefinition(functions[i]) =>
            Global(functions[i].symbol) /\ functions[i].symbol <= functions[i].own

FramesInv ==
  ~ resolve_err =>
    \A i \in DOMAIN functions : IsDefinition(functions[i]) => FrameOf(functions[i])

(* While a declaration is being resolved, its symbol is the newest. *)
OlderInv ==
  (\E k \in DOMAIN todo[1] : todo[1][k].do # "decl") =>
    \A i \in DOMAIN functions : IsDefinition(functions[i]) =>
      functions[i].own < Len(symbols)

FinishedInv == FinishedTyped /\ FramesInv /\ OlderInv

ResolvingInv ==
  /\ \A k \in DOMAIN todo[1] : todo[1][k].do = "scope" =>
       PendingInv(todo[1][k].arg)
  /\ Len(todo) >= 2 /\ todo[2] # <<>> =>
       /\ PendingInv(todo[2])
       /\ ~ resolve_err /\ Made(LastOf(todo[2]).arg)
              < Len(LastOf(todo[2]).arg.decl.params) =>
            Len(scopes) = 2 /\ Top.num_vars = Made(LastOf(todo[2]).arg)

SInv == TypesInv /\ CallsInv /\ ScopesInv /\ SlotsInv /\ SlotsDisjoint
FInv == SInv /\ FinishedInv /\ ResolvingInv

(***************************************************************************)
(* The state from which every action starts.                               *)
(***************************************************************************)
LEMMA LevelFacts ==
  ASSUME TypesInv
  PROVE  /\ Len(scopes) \in Nat \ {0} /\ Len(todo) = Len(scopes)
         /\ DOMAIN todo = 1 .. Len(todo) /\ DOMAIN scopes = 1 .. Len(scopes)
         /\ DOMAIN symbols = 1 .. Len(symbols) /\ Len(symbols) \in Nat
         /\ Top \in Scope /\ Top = scopes[Len(scopes)] /\ Top.num_vars \in Nat
         /\ Calls \in Seq(AnyCall) /\ Calls = todo[Len(todo)]
         /\ \A i \in 1 .. Len(scopes) : scopes[i] \in Scope
         /\ \A i \in 1 .. Len(todo) : todo[i] \in Seq(AnyCall)
<1>1. /\ Len(scopes) \in Nat \ {0} /\ Len(todo) = Len(scopes)
      /\ DOMAIN todo = 1 .. Len(todo) /\ DOMAIN scopes = 1 .. Len(scopes)
      /\ DOMAIN symbols = 1 .. Len(symbols) /\ Len(symbols) \in Nat
  BY EmptySeq DEF TypesInv
<1>2. Top \in Scope /\ Top = scopes[Len(scopes)]
  BY <1>1 DEF TypesInv, Top
<1>3. Top.num_vars \in Nat
  BY <1>2 DEF Scope
<1>4. Calls \in Seq(AnyCall) /\ Calls = todo[Len(todo)]
  BY <1>1 DEF TypesInv, Calls
<1>5. /\ \A i \in 1 .. Len(scopes) : scopes[i] \in Scope
      /\ \A i \in 1 .. Len(todo) : todo[i] \in Seq(AnyCall)
  BY <1>1 DEF TypesInv
<1> QED
  BY <1>1, <1>2, <1>3, <1>4, <1>5

(* Every symbol that symbol_create made is a record of the right fields,   *)
(* and NULL is none of them.                                               *)
LEMMA SymbolFacts ==
  ASSUME TypesInv, NEW s \in DOMAIN symbols
  PROVE  /\ symbols[s] \in SymbolRecord
         /\ symbols[s].kind \in {"GLOBAL", "LOCAL", "PARAM"}
         /\ symbols[s].which \in Nat \cup {Unset} /\ symbols[s].total \in Nat
         /\ symbols[s].prototype \in BOOLEAN
         /\ s \in Nat /\ s # NULL /\ s <= Len(symbols)
<1>1. symbols[s] \in SymbolRecord
  BY DEF TypesInv
<1>2. s \in 1 .. Len(symbols) /\ Len(symbols) \in Nat
  BY DEF TypesInv
<1> QED
  BY <1>1, <1>2 DEF SymbolRecord, NULL

(* The call at hand is the first of those that wait in the innermost       *)
(* scope.                                                                  *)
LEMMA CallFacts ==
  ASSUME TypesInv, Calls # <<>>
  PROVE  /\ Len(Calls) \in Nat \ {0} /\ DOMAIN Calls = 1 .. Len(Calls)
         /\ Call \in AnyCall /\ Call = Calls[1]
         /\ Tail(Calls) \in Seq(AnyCall) /\ Len(Tail(Calls)) = Len(Calls) - 1
         /\ \A i \in 1 .. Len(Calls) - 1 : Tail(Calls)[i] = Calls[i + 1]
<1>1. Calls \in Seq(AnyCall)
  BY LevelFacts
<1>2. Len(Calls) \in Nat \ {0} /\ DOMAIN Calls = 1 .. Len(Calls)
  BY <1>1, EmptySeq
<1>3. Call = Calls[1]
  BY <1>1 DEF Call
<1>4. /\ Tail(Calls) \in Seq(AnyCall) /\ Len(Tail(Calls)) = Len(Calls) - 1
      /\ \A i \in 1 .. Len(Calls) - 1 : Tail(Calls)[i] = Calls[i + 1]
  BY <1>1, HeadTailProperties
<1> QED
  BY <1>1, <1>2, <1>3, <1>4

(* What each kind of call carries. *)
LEMMA CallArgument ==
  ASSUME NEW c \in AnyCall
  PROVE  /\ c.do = "decl" => c.arg \in Decls
         /\ c.do = "stmt" => c.arg \in Stmts
         /\ c.do \in {"use", "param"} => c.arg \in Names
         /\ c.do = "bind" => c.arg \in Binding
         /\ c.do = "total" => c.arg \in Total
         /\ c.do = "scope" => c.arg \in Seq(Flat)
BY DEF AnyCall, Flat

(* A call that opens no scope is a call.                                   *)
LEMMA FlatIsCall ==
  ASSUME NEW c \in Flat
  PROVE  c \in AnyCall /\ c.do # "scope"
BY DEF AnyCall, Flat

(* So is each of a list of them.                                           *)
LEMMA FlatSeqIsCalls ==
  ASSUME NEW s \in Seq(Flat)
  PROVE  s \in Seq(AnyCall) /\ \A i \in DOMAIN s : s[i] \in Flat /\ s[i].do # "scope"
<1>1. \A i \in DOMAIN s : s[i] \in Flat
  BY ElementOfSeq
<1> QED
  BY <1>1, FlatIsCall, SeqMonotonic DEF AnyCall

(* Replacing the call at hand by others. *)
LEMMA ReplaceFacts ==
  ASSUME TypesInv, Calls # <<>>, NEW new \in Seq(AnyCall), Replace(new)
  PROVE  /\ todo' \in Seq(Seq(AnyCall)) /\ Len(todo') = Len(todo)
         /\ \A i \in 1 .. Len(todo) - 1 : todo'[i] = todo[i]
         /\ \E t \in Seq(AnyCall) :
              /\ t = Calls' /\ t = todo'[Len(todo)]
              /\ Len(t) = Len(new) + Len(Calls) - 1
              /\ \A i \in 1 .. Len(new) : t[i] = new[i]
              /\ \A i \in 1 .. Len(Calls) - 1 : t[Len(new) + i] = Calls[i + 1]
<1> DEFINE t == new \o Tail(Calls)
           n == Len(todo)
<1>1. n \in Nat \ {0} /\ todo \in Seq(Seq(AnyCall)) /\ Calls = todo[n]
  BY LevelFacts DEF TypesInv
<1>2. Len(new) \in Nat
  OBVIOUS
<1>3. /\ Tail(Calls) \in Seq(AnyCall) /\ Len(Calls) \in Nat \ {0}
      /\ Len(Tail(Calls)) = Len(Calls) - 1
      /\ \A i \in 1 .. Len(Calls) - 1 : Tail(Calls)[i] = Calls[i + 1]
  BY CallFacts
<1>4. /\ t \in Seq(AnyCall) /\ Len(t) = Len(new) + Len(Calls) - 1
      /\ \A i \in 1 .. Len(new) + (Len(Calls) - 1) :
           t[i] = IF i <= Len(new) THEN new[i] ELSE Tail(Calls)[i - Len(new)]
  BY <1>3, ConcatProperties
<1>5. /\ \A i \in 1 .. Len(new) : t[i] = new[i]
      /\ \A i \in 1 .. Len(Calls) - 1 : t[Len(new) + i] = Calls[i + 1]
  BY <1>2, <1>3, <1>4
<1>6. todo' = [todo EXCEPT ![n] = t]
  BY <1>1 DEF Replace, Calls
<1> HIDE DEF t, n
<1>7. /\ todo' \in Seq(Seq(AnyCall)) /\ Len(todo') = n
      /\ \A i \in 1 .. n : todo'[i] = IF i = n THEN t ELSE todo[i]
  BY <1>1, <1>4, <1>6, ExceptSeq DEF n
<1>8. Calls' = t
  BY <1>1, <1>7 DEF Calls
<1>9. /\ \A i \in 1 .. n - 1 : todo'[i] = todo[i]
      /\ todo'[n] = t
  <2>1. n \in 1 .. n /\ \A i \in 1 .. n - 1 : i \in 1 .. n /\ i # n
    BY <1>1
  <2> QED
    BY <1>7, <2>1
<1> QED
  BY <1>1, <1>4, <1>5, <1>7, <1>8, <1>9 DEF n

(***************************************************************************)
(* Symbols are only added, and their kinds never change.                   *)
(***************************************************************************)
KindsKept ==
  \A s \in DOMAIN symbols :
    s \in DOMAIN symbols' /\ symbols'[s].kind = symbols[s].kind

(* The symbols added belong to the frame being laid out. *)
OnlyDeepAdded ==
  \A s \in DOMAIN symbols' : s \notin DOMAIN symbols => symbols'[s].kind # "GLOBAL"

(* While symbols keep their kinds, global ones stay global, and the frame  *)
(* being laid out stays the same until a global symbol is made.            *)
LEMMA SymbolsKept ==
  ASSUME KindsKept
  PROVE  /\ \A s : Global(s) => Global(s)'
         /\ \A s : Deep(s) => Deep(s)'
         /\ \A s : Local(s) => Local(s)'
         /\ OnlyDeepAdded => \A s : Current(s) => Current(s)'
BY DEF KindsKept, OnlyDeepAdded, Global, Deep, Local, Current, IsGlobal

(* A call that fits a function's body goes on fitting it.                  *)
LEMMA FlatInBodyKept ==
  ASSUME KindsKept, OnlyDeepAdded, NEW c, FlatInBody(c)
  PROVE  FlatInBody(c)'
BY SymbolsKept DEF FlatInBody

(* The same of a call that opens a scope in the body.                      *)
LEMMA InBodyKept ==
  ASSUME KindsKept, OnlyDeepAdded, NEW c, InBody(c)
  PROVE  InBody(c)'
BY FlatInBodyKept DEF InBody

(* The calls that are left of a global function stay such a list.          *)
LEMMA FunctionBodyKept ==
  ASSUME KindsKept, OnlyDeepAdded, NEW calls, FunctionBody(calls)
  PROVE  FunctionBody(calls)'
BY SymbolsKept, InBodyKept DEF FunctionBody, LastOf

(* At the top level nothing but a declaration makes a symbol. *)
LEMMA AtTopLevelKept ==
  ASSUME KindsKept, OnlyDeepAdded, Len(symbols') = Len(symbols),
         Len(scopes') = Len(scopes), NEW c, AtTopLevel(c)
  PROVE  AtTopLevel(c)'
BY SymbolsKept, FunctionBodyKept DEF AtTopLevel, LastOf

(* The tables go on naming what they named. *)
LEMMA ScopesKept ==
  ASSUME TypesInv, ScopesInv, KindsKept, UNCHANGED scopes
  PROVE  ScopesInv'
BY SymbolsKept DEF ScopesInv

(***************************************************************************)
(* What the calls of a function do to the calls that wait: each is         *)
(* replaced by calls of the same body.                                     *)
(***************************************************************************)
LEMMA BodyReplace ==
  ASSUME SInv, KindsKept, OnlyDeepAdded, Len(todo) >= 2, Calls # <<>>,
         NEW new \in Seq(AnyCall), Replace(new), Len(scopes') = Len(scopes),
         \A k \in 1 .. Len(new) : new[k].do # "total" /\ InBody(new[k])',
         Call.do = "total" => new = <<>>
  PROVE  CallsInv'
<1> DEFINE n == Len(todo)
<1>0. /\ n \in Nat /\ n >= 2 /\ Len(scopes) = n /\ Calls = todo[n]
      /\ DOMAIN todo = 1 .. n
  BY LevelFacts DEF SInv
<1>1. PICK old \in Seq(AnyCall) : old = Calls /\ old = todo[n]
  BY <1>0, LevelFacts DEF SInv
<1>21. Len(todo') = n /\ \A i \in 1 .. n - 1 : todo'[i] = todo[i]
  BY ReplaceFacts DEF SInv
<1>22. PICK t \in Seq(AnyCall) :
        /\ t = Calls' /\ t = todo'[n]
        /\ Len(t) = Len(new) + Len(old) - 1
        /\ \A i \in 1 .. Len(new) : t[i] = new[i]
        /\ \A i \in 1 .. Len(old) - 1 : t[Len(new) + i] = old[i + 1]
  BY ReplaceFacts, <1>1 DEF SInv
<1>2. /\ t = Calls' /\ t = todo'[n] /\ Len(todo') = n
      /\ \A i \in 1 .. n - 1 : todo'[i] = todo[i]
      /\ Len(t) = Len(new) + Len(old) - 1
      /\ \A i \in 1 .. Len(new) : t[i] = new[i]
      /\ \A i \in 1 .. Len(old) - 1 : t[Len(new) + i] = old[i + 1]
  BY <1>21, <1>22
<1>3. /\ Len(new) \in Nat /\ Len(old) \in Nat \ {0} /\ Len(t) \in Nat
      /\ Call = old[1] /\ DOMAIN old = 1 .. Len(old) /\ DOMAIN t = 1 .. Len(t)
  BY CallFacts, <1>1 DEF SInv
<1> HIDE DEF n
<1>4. todo'[1] = todo[1] /\ Len(scopes) # 1
  BY <1>0, <1>2
<1>5. TopLevelInv'
  <2>1. \A i \in DOMAIN todo[1] : todo[1][i].do = "decl"
    BY <1>4 DEF SInv, CallsInv, TopLevelInv, AtTopLevel
  <2> QED
    BY <1>4, <2>1 DEF TopLevelInv, AtTopLevel
\* The calls that follow those put in keep their order.
<1>6. ASSUME NEW i \in 1 .. Len(t), i > Len(new)
      PROVE  /\ i - Len(new) + 1 \in 2 .. Len(old)
             /\ t[i] = old[i - Len(new) + 1]
  <2>1. i - Len(new) \in 1 .. Len(old) - 1
    BY <1>2, <1>3, <1>6
  <2>2. t[Len(new) + (i - Len(new))] = old[(i - Len(new)) + 1]
    BY <2>1, <1>2
  <2>3. Len(new) + (i - Len(new)) = i
    BY <1>3
  <2> QED
    BY <2>1, <2>2, <2>3, <1>3
<1>7. ASSUME n = 2
      PROVE  BodyInv'
  <2>1. old = todo[2] /\ t = todo'[2] /\ Len(todo') = 2
    BY <1>1, <1>2, <1>7
  <2>2. FunctionBody(old)
    BY <1>0, <1>3, <2>1 DEF SInv, CallsInv, BodyInv
  <2>3. CASE Call.do = "total"
    \* It is the last.
    <3>1. Len(old) = 1
      BY <1>3, <2>2, <2>3 DEF FunctionBody
    <3>2. Len(new) = 0
      BY <2>3
    <3>3. Len(t) = 0
      BY <3>1, <3>2, <1>2, <1>3
    <3>4. todo'[2] = <<>>
      BY <2>1, <3>3, EmptySeq
    <3> QED
      BY <2>1, <3>4 DEF BodyInv
  <2>4. CASE Call.do # "total"
    <3>1. Len(old) >= 2
      BY <1>3, <2>2, <2>4 DEF FunctionBody, LastOf
    <3>2. Len(t) \in Nat \ {0} /\ Len(t) > Len(new)
      BY <1>2, <1>3, <3>1
    <3>3. LastOf(t) = LastOf(old)
      <4>1. t[Len(t)] = old[Len(t) - Len(new) + 1]
        BY <3>2, <1>6
      <4>2. Len(t) - Len(new) + 1 = Len(old)
        BY <1>2, <1>3
      <4> QED
        BY <4>1, <4>2 DEF LastOf
    <3>4. ASSUME NEW i \in 1 .. Len(t) - 1
          PROVE  t[i].do # "total" /\ InBody(t[i])'
      <4>1. i \in 1 .. Len(t)
        BY <1>3, <3>2
      <4>2. CASE i <= Len(new)
        <5>1. i \in 1 .. Len(new) /\ t[i] = new[i]
          BY <4>2, <1>2, <1>3
        <5> QED
          BY <5>1
      <4>3. CASE i > Len(new)
        <5>1. PICK k \in 1 .. Len(old) - 1 : t[i] = old[k]
          <6>1. /\ i - Len(new) + 1 \in 2 .. Len(old)
                /\ t[i] = old[i - Len(new) + 1]
            BY <4>1, <4>3, <1>6
          <6>2. i - Len(new) + 1 \in 1 .. Len(old) - 1
            BY <1>2, <1>3, <4>3
          <6> QED
            BY <6>1, <6>2
        <5>2. old[k].do # "total" /\ InBody(old[k])
          BY <2>2 DEF FunctionBody
        <5>3. PICK c : c = old[k]
          OBVIOUS
        <5>4. InBody(c)'
          BY <5>2, <5>3, InBodyKept
        <5> QED
          BY <5>1, <5>2, <5>3, <5>4
      <4> QED
        BY <1>3, <4>2, <4>3
    <3>5. t # <<>>
      BY <3>2, EmptySeq
    <3>6. FunctionBody(t)'
      BY <2>2, <3>3, <3>4, <3>5, SymbolsKept DEF FunctionBody
    <3> QED
      BY <2>1, <3>5, <3>6 DEF BodyInv
  <2> QED
    BY <2>3, <2>4
<1>8. ASSUME n > 2
      PROVE  BodyInv'
  <2>1. PICK b : b = todo'[2] /\ b = todo[2] /\ b # <<>> /\ FunctionBody(b)
    BY <1>0, <1>2, <1>8 DEF SInv, CallsInv, BodyInv, n
  <2>2. FunctionBody(b)'
    BY <2>1, FunctionBodyKept
  <2>3. \A k \in 1 .. Len(old) : InBody(old[k])
    BY <1>0, <1>1, <1>3, <1>8 DEF SInv, CallsInv, BodyInv, n
  <2>4. ASSUME NEW i \in 1 .. Len(t)
        PROVE  InBody(t[i])'
    <3>1. CASE i <= Len(new)
      <4>1. i \in 1 .. Len(new) /\ t[i] = new[i]
        BY <3>1, <1>2, <1>3
      <4> QED
        BY <4>1
    <3>2. CASE i > Len(new)
      <4>1. PICK k \in 1 .. Len(old) : t[i] = old[k]
        <5>1. /\ i - Len(new) + 1 \in 2 .. Len(old)
              /\ t[i] = old[i - Len(new) + 1]
          BY <3>2, <1>6
        <5>2. i - Len(new) + 1 \in 1 .. Len(old)
          BY <5>1, <1>3
        <5> QED
          BY <5>1, <5>2
      <4> QED
        BY <4>1, <2>3, InBodyKept
    <3> QED
      BY <1>3, <3>1, <3>2
  <2>5. ASSUME NEW i \in 3 .. n, NEW k \in (DOMAIN todo[i])'
        PROVE  InBody(todo[i][k])'
    <3>1. CASE i = n
      BY <3>1, <2>4, <1>2, <1>3
    <3>2. CASE i # n
      <4>1. todo'[i] = todo[i] /\ i \in 3 .. Len(todo)
        BY <3>2, <1>0, <1>2 DEF n
      <4>2. PICK c : c = todo[i][k] /\ c = todo'[i][k]
        BY <4>1
      <4>3. InBody(c)
        BY <4>1, <4>2 DEF SInv, CallsInv, BodyInv
      <4>4. InBody(c)'
        BY <4>3, InBodyKept
      <4> QED
        BY <4>2, <4>4
    <3> QED
      BY <3>1, <3>2
  <2> QED
    BY <1>2, <1>8, <2>1, <2>2, <2>5 DEF BodyInv
<1> QED
  BY <1>0, <1>5, <1>7, <1>8 DEF CallsInv, n

(* The same outside of functions. *)
LEMMA TopReplace ==
  ASSUME SInv, Len(todo) = 1, Calls # <<>>,
         NEW new \in Seq(AnyCall), Replace(new), Len(scopes') = Len(scopes),
         \/ Call.do = "use" /\ new = <<>> /\ UNCHANGED symbols
         \/ /\ Call.do # "use"
            /\ \A k \in 1 .. Len(new) : AtTopLevel(new[k])'
            /\ \A i, k \in 1 .. Len(new) :
                 i < k /\ new[i].do # "use" => new[k].do = "decl"
  PROVE  CallsInv'
<1>1. PICK old \in Seq(AnyCall) : old = Calls /\ old = todo[1]
  BY LevelFacts DEF SInv
<1>2. PICK t \in Seq(AnyCall) :
        /\ t = Calls' /\ t = todo'[1]
        /\ Len(t) = Len(new) + Len(old) - 1
        /\ \A i \in 1 .. Len(new) : t[i] = new[i]
        /\ \A i \in 1 .. Len(old) - 1 : t[Len(new) + i] = old[i + 1]
  BY ReplaceFacts, <1>1 DEF SInv
<1>3. Len(todo') = 1 /\ DOMAIN t = DOMAIN todo'[1]
  BY ReplaceFacts, <1>2 DEF SInv
<1>8. Len(t) = Len(new) + Len(old) - 1
  BY <1>2
<1>4. /\ Len(new) \in Nat /\ Len(old) \in Nat \ {0} /\ Len(t) \in Nat
      /\ Call = old[1] /\ DOMAIN old = 1 .. Len(old) /\ DOMAIN t = 1 .. Len(t)
  BY CallFacts, <1>1 DEF SInv
<1>5. /\ \A i \in 1 .. Len(old) : AtTopLevel(old[i])
      /\ \A i, k \in 1 .. Len(old) :
           i < k /\ old[i].do # "use" => old[k].do = "decl"
  BY <1>1, <1>4 DEF SInv, CallsInv, TopLevelInv
<1>6. CASE Call.do = "use" /\ new = <<>> /\ UNCHANGED symbols
  <2>1. Len(new) = 0
    BY <1>6
  <2>2. Len(t) = Len(old) - 1 /\ \A i \in 1 .. Len(t) : t[i] = old[i + 1]
    <3>1. Len(t) = Len(old) - 1
      BY <2>1, <1>4, <1>8
    <3>2. ASSUME NEW i \in 1 .. Len(t)
          PROVE  t[i] = old[i + 1]
      <4>1. i \in 1 .. Len(old) - 1 /\ Len(new) + i = i
        BY <2>1, <3>1
      <4> QED
        BY <4>1, <1>2
    <3> QED
      BY <3>1, <3>2
  <2>3. \A i \in 1 .. Len(t) : i + 1 \in 1 .. Len(old)
    BY <2>2, <1>4
  <2>4. KindsKept /\ OnlyDeepAdded /\ Len(symbols') = Len(symbols)
    BY <1>6 DEF KindsKept, OnlyDeepAdded
  <2>5. \A i \in 1 .. Len(t) : AtTopLevel(t[i])'
    <3>1. \A c : AtTopLevel(c) => AtTopLevel(c)'
      BY <2>4, AtTopLevelKept
    <3> QED
      BY <1>5, <2>2, <2>3, <3>1
  <2>6. \A i, k \in 1 .. Len(t) : i < k /\ t[i].do # "use" => t[k].do = "decl"
    <3>1. SUFFICES ASSUME NEW i \in 1 .. Len(t), NEW k \in 1 .. Len(t),
                          i < k, t[i].do # "use"
                   PROVE  t[k].do = "decl"
      OBVIOUS
    <3>2. i + 1 < k + 1 /\ i + 1 \in 1 .. Len(old) /\ k + 1 \in 1 .. Len(old)
      BY <2>3, <3>1
    <3>3. t[i] = old[i + 1] /\ t[k] = old[k + 1]
      BY <2>2
    <3> QED
      BY <1>5, <3>1, <3>2, <3>3
  <2>7. TopLevelInv'
    BY <1>2, <1>3, <1>4, <2>5, <2>6 DEF TopLevelInv
  <2>8. BodyInv'
    BY <1>3 DEF BodyInv
  <2> QED
    BY <2>7, <2>8 DEF CallsInv
<1>7. CASE /\ Call.do # "use"
           /\ \A k \in 1 .. Len(new) : AtTopLevel(new[k])'
           /\ \A i, k \in 1 .. Len(new) :
                i < k /\ new[i].do # "use" => new[k].do = "decl"
  <2>1. \A i \in 1 .. Len(old) - 1 : old[i + 1].do = "decl"
    <3>1. \A i \in 1 .. Len(old) - 1 : i + 1 \in 1 .. Len(old) /\ 1 < i + 1
      BY <1>4
    <3>2. 1 \in 1 .. Len(old)
      BY <1>4
    <3> QED
      BY <1>4, <1>5, <1>7, <3>1, <3>2
  <2>2. \A i \in 1 .. Len(t) :
          \/ i \in 1 .. Len(new) /\ t[i] = new[i]
          \/ i > Len(new) /\ t[i].do = "decl"
    <3>1. TAKE i \in 1 .. Len(t)
    <3>2. CASE i > Len(new)
      <4>1. i - Len(new) \in 1 .. Len(old) - 1 /\ Len(new) + (i - Len(new)) = i
        BY <3>2, <1>2, <1>4
      <4> QED
        BY <3>2, <4>1, <2>1, <1>2
    <3>3. CASE i <= Len(new)
      BY <3>3, <1>2, <1>4
    <3> QED
      BY <3>2, <3>3, <1>4
  <2>3. \A i \in 1 .. Len(t) : AtTopLevel(t[i])'
    BY <2>2, <1>7 DEF AtTopLevel
  <2>4. \A i, k \in 1 .. Len(t) : i < k /\ t[i].do # "use" => t[k].do = "decl"
    <3>1. SUFFICES ASSUME NEW i \in 1 .. Len(t), NEW k \in 1 .. Len(t),
                          i < k, t[i].do # "use"
                   PROVE  t[k].do = "decl"
      OBVIOUS
    <3>2. CASE k > Len(new)
      BY <2>2, <3>2, <1>4
    <3>3. CASE k <= Len(new)
      <4>1. i \in 1 .. Len(new) /\ k \in 1 .. Len(new)
        BY <3>1, <3>3, <1>4
      <4>2. t[i] = new[i] /\ t[k] = new[k]
        BY <4>1, <1>2
      <4> QED
        BY <4>1, <4>2, <3>1, <1>7
    <3> QED
      BY <3>2, <3>3, <1>4
  <2>7. TopLevelInv'
    BY <1>2, <1>3, <1>4, <2>3, <2>4 DEF TopLevelInv
  <2>8. BodyInv'
    BY <1>3 DEF BodyInv
  <2> QED
    BY <2>7, <2>8 DEF CallsInv
<1> QED
  BY <1>6, <1>7

(* Entering a scope takes the call at hand and starts its calls. *)
LEMMA EnterFacts ==
  ASSUME SInv, scope_enter
  PROVE  \E old, t \in Seq(AnyCall), arg \in Seq(Flat) :
           /\ old = Calls /\ old = todo[Len(todo)] /\ old # <<>>
           /\ arg = Call.arg /\ Call.do = "scope" /\ Call = old[1]
           /\ Len(t) = Len(old) - 1 /\ Len(old) \in Nat \ {0}
           /\ \A i \in 1 .. Len(t) : t[i] = old[i + 1]
           /\ todo' \in Seq(Seq(AnyCall)) /\ Len(todo') = Len(todo) + 1
           /\ \A i \in 1 .. Len(todo) - 1 : todo'[i] = todo[i]
           /\ todo'[Len(todo)] = t /\ todo'[Len(todo) + 1] = arg
<1> DEFINE n == Len(todo)
           s == [todo EXCEPT ![n] = Tail(Calls)]
<1>1. n \in Nat \ {0} /\ todo \in Seq(Seq(AnyCall)) /\ Calls = todo[n]
  BY LevelFacts DEF SInv, TypesInv
<1>2. Calls # <<>> /\ Call.do = "scope"
  BY DEF scope_enter, Ready
<1>3. /\ Calls \in Seq(AnyCall) /\ Call \in AnyCall /\ Call = Calls[1]
      /\ Tail(Calls) \in Seq(AnyCall) /\ Len(Tail(Calls)) = Len(Calls) - 1
      /\ Len(Calls) \in Nat \ {0}
      /\ \A i \in 1 .. Len(Calls) - 1 : Tail(Calls)[i] = Calls[i + 1]
  BY <1>2, CallFacts, LevelFacts DEF SInv
<1>4. Call.arg \in Seq(Flat) /\ Call.arg \in Seq(AnyCall)
  BY <1>2, <1>3, CallArgument, FlatSeqIsCalls
<1>5. todo' = Append(s, Call.arg)
  BY <1>1 DEF scope_enter, Calls
<1>6. /\ s \in Seq(Seq(AnyCall)) /\ Len(s) = n
      /\ \A i \in 1 .. n : s[i] = IF i = n THEN Tail(Calls) ELSE todo[i]
  BY <1>1, <1>3, ExceptSeq
<1> HIDE DEF s, n
<1>7. /\ todo' \in Seq(Seq(AnyCall)) /\ Len(todo') = n + 1
      /\ \A i \in 1 .. n : todo'[i] = s[i]
      /\ todo'[n + 1] = Call.arg
  BY <1>4, <1>5, <1>6, AppendProperties
<1>8. \A i \in 1 .. n - 1 : todo'[i] = todo[i]
  <2>1. \A i \in 1 .. n - 1 : i \in 1 .. n /\ i # n
    BY <1>1
  <2> QED
    BY <1>6, <1>7, <2>1
<1>9. todo'[n] = Tail(Calls)
  <2>1. n \in 1 .. n
    BY <1>1
  <2> QED
    BY <1>6, <1>7, <2>1
<1> QED
  <2>1. PICK old \in Seq(AnyCall) : old = Calls
    BY <1>3
  <2>2. PICK t \in Seq(AnyCall) : t = Tail(Calls)
    BY <1>3
  <2>3. PICK arg \in Seq(Flat) : arg = Call.arg
    BY <1>4
  <2>4. /\ old = Calls /\ old = todo[Len(todo)] /\ old # <<>>
        /\ arg = Call.arg /\ Call.do = "scope" /\ Call = old[1]
        /\ Len(t) = Len(old) - 1 /\ Len(old) \in Nat \ {0}
        /\ \A i \in 1 .. Len(t) : t[i] = old[i + 1]
    BY <1>1, <1>2, <1>3, <2>1, <2>2, <2>3 DEF n
  <2>5. /\ todo' \in Seq(Seq(AnyCall)) /\ Len(todo') = Len(todo) + 1
        /\ \A i \in 1 .. Len(todo) - 1 : todo'[i] = todo[i]
        /\ todo'[Len(todo)] = t /\ todo'[Len(todo) + 1] = arg
    BY <1>7, <1>8, <1>9, <2>2, <2>3 DEF n
  <2> QED
    BY <2>4, <2>5

(* scope_enter: the calls of the scope entered become a list of their      *)
(* own.                                                                    *)
LEMMA EnterCalls ==
  ASSUME SInv, scope_enter, Len(scopes') = Len(scopes) + 1
  PROVE  CallsInv'
<1> DEFINE n == Len(todo)
<1>1. PICK old \in Seq(AnyCall), t \in Seq(AnyCall), arg \in Seq(Flat) :
        /\ old = Calls /\ old = todo[n] /\ old # <<>>
        /\ arg = Call.arg /\ Call.do = "scope" /\ Call = old[1]
        /\ Len(t) = Len(old) - 1 /\ Len(old) \in Nat \ {0}
        /\ \A i \in 1 .. Len(t) : t[i] = old[i + 1]
        /\ todo' \in Seq(Seq(AnyCall)) /\ Len(todo') = n + 1
        /\ \A i \in 1 .. n - 1 : todo'[i] = todo[i]
        /\ todo'[n] = t /\ todo'[n + 1] = arg
  BY EnterFacts
<1>2. n \in Nat \ {0} /\ Len(scopes) = n /\ DOMAIN todo = 1 .. n
  BY LevelFacts DEF SInv
<1> HIDE DEF n
<1>3. KindsKept /\ OnlyDeepAdded /\ symbols' = symbols
  BY DEF scope_enter, KindsKept, OnlyDeepAdded
<1>4. /\ DOMAIN old = 1 .. Len(old) /\ DOMAIN t = 1 .. Len(t)
      /\ DOMAIN arg = 1 .. Len(arg) /\ Len(t) \in Nat /\ Len(arg) \in Nat
      /\ \A i \in DOMAIN arg : arg[i].do # "scope"
  BY FlatSeqIsCalls
<1>5. \A i \in 1 .. Len(t) : i + 1 \in 1 .. Len(old) /\ t[i] = old[i + 1]
  BY <1>1, <1>4
<1>6. ASSUME n = 1
      PROVE  CallsInv'
  <2>1. todo'[1] = t /\ todo'[2] = arg /\ Len(todo') = 2 /\ old = todo[1]
    BY <1>1, <1>6
  <2>2. 1 \in 1 .. Len(old) /\ old[1].do = "scope" /\ old[1].arg = arg
    BY <1>1
  <2>3. FunctionBody(arg)
    BY <1>4, <2>1, <2>2 DEF SInv, CallsInv, TopLevelInv, AtTopLevel
  <2>4. \A i \in 1 .. Len(t) : t[i].do = "decl"
    <3>1. \A i \in 1 .. Len(t) : 1 < i + 1
      BY <1>4
    <3>2. \A k \in 1 .. Len(old) : 1 < k => old[k].do = "decl"
      BY <1>4, <2>1, <2>2 DEF SInv, CallsInv, TopLevelInv
    <3> QED
      BY <1>5, <3>1, <3>2
  <2>5. TopLevelInv'
    BY <1>4, <2>1, <2>4 DEF TopLevelInv, AtTopLevel
  <2>6. FunctionBody(arg)' /\ arg # <<>>
    BY <1>3, <2>3, FunctionBodyKept DEF FunctionBody
  <2> QED
    BY <2>1, <2>5, <2>6 DEF CallsInv, BodyInv
<1>7. ASSUME n >= 2
      PROVE  CallsInv'
  <2>1. todo'[1] = todo[1] /\ Len(scopes) # 1
    BY <1>1, <1>2, <1>7
  <2>2. TopLevelInv'
    <3>1. \A i \in DOMAIN todo[1] : todo[1][i].do = "decl"
      BY <2>1 DEF SInv, CallsInv, TopLevelInv, AtTopLevel
    <3> QED
      BY <2>1, <3>1 DEF TopLevelInv, AtTopLevel
  <2>3. PICK b : b = todo'[2] /\ b # <<>> /\ FunctionBody(b)'
    <3>1. CASE n = 2
      <4>1. FunctionBody(old)
        BY <1>1, <1>2, <3>1 DEF SInv, CallsInv, BodyInv, n
      <4>2. Len(old) >= 2
        BY <1>1, <4>1 DEF FunctionBody, LastOf
      <4>3. Len(t) \in 1 .. Len(t) /\ Len(t) + 1 = Len(old)
        BY <1>1, <1>4, <4>2
      <4>4. LastOf(t) = LastOf(old) /\ t # <<>>
        BY <1>5, <4>3 DEF LastOf
      <4>5. ASSUME NEW i \in 1 .. Len(t) - 1
            PROVE  t[i].do # "total" /\ InBody(t[i])'
        <5>1. i \in 1 .. Len(t) /\ i + 1 \in 1 .. Len(old) - 1
          BY <1>4, <4>3
        <5>2. PICK c : c = t[i] /\ c = old[i + 1]
          BY <5>1, <1>5
        <5>3. c.do # "total" /\ InBody(c)
          BY <4>1, <5>1, <5>2 DEF FunctionBody
        <5> QED
          BY <5>2, <5>3, <1>3, InBodyKept
      <4>6. FunctionBody(t)'
        BY <4>1, <4>4, <4>5, <1>3, SymbolsKept DEF FunctionBody
      <4> QED
        BY <1>1, <3>1, <4>4, <4>6
    <3>2. CASE n # 2
      <4>1. n >= 2 /\ n > 2 /\ todo'[2] = todo[2]
        BY <1>1, <1>2, <1>7, <3>2
      <4>2. todo[2] # <<>> /\ FunctionBody(todo[2])
        BY <1>2, <4>1 DEF SInv, CallsInv, BodyInv, n
      <4> QED
        BY <4>1, <4>2, <1>3, FunctionBodyKept
    <3> QED
      BY <3>1, <3>2
  \* The calls of a nested scope are calls of the same body.
  <2>4. ASSUME NEW k \in 1 .. Len(arg)
        PROVE  InBody(arg[k])'
    <3>1. 1 \in 1 .. Len(old) /\ old[1].do = "scope" /\ old[1].arg = arg
      BY <1>1
    <3>2. InBody(old[1])
      <4>1. CASE n = 2
        <5>1. FunctionBody(old)
          BY <1>1, <1>2, <4>1 DEF SInv, CallsInv, BodyInv, n
        <5>2. 1 \in 1 .. Len(old) - 1
          BY <1>1, <3>1, <5>1 DEF FunctionBody, LastOf
        <5> QED
          BY <5>1, <5>2 DEF FunctionBody
      <4>2. CASE n # 2
        BY SMTT(30), <1>1, <1>2, <1>4, <1>7, <3>1, <4>2 DEF SInv, CallsInv, BodyInv, n
      <4> QED
        BY <4>1, <4>2
    <3>3. PICK c : c = arg[k] /\ FlatInBody(c) /\ c.do # "scope"
      BY <1>4, <3>1, <3>2 DEF InBody
    <3>4. InBody(c)
      BY <3>3 DEF InBody
    <3> QED
      BY <3>3, <3>4, <1>3, InBodyKept
  <2>5. ASSUME NEW i \in 3 .. n + 1, NEW k \in (DOMAIN todo[i])'
        PROVE  InBody(todo[i][k])'
    <3>1. CASE i = n + 1
      BY <3>1, <1>1, <1>4, <2>4
    <3>2. CASE i = n
      <4>1. k \in 1 .. Len(t) /\ todo'[i] = t
        BY <3>2, <1>1, <1>4
      <4>2. PICK c : c = t[k] /\ c = old[k + 1] /\ k + 1 \in 1 .. Len(old)
        BY <4>1, <1>5
      <4>3. InBody(c)
        BY <3>2, <4>2, <1>1, <1>2, <1>4 DEF SInv, CallsInv, BodyInv, n
      <4>4. InBody(c)'
        BY <4>3, <1>3, InBodyKept
      <4> QED
        BY <4>1, <4>2, <4>4
    <3>3. CASE i < n
      <4>1. todo'[i] = todo[i] /\ i \in 3 .. Len(todo)
        BY SMTT(30), <3>3, <1>1, <1>2 DEF n
      <4>2. PICK c : c = todo[i][k] /\ c = todo'[i][k]
        BY <4>1
      <4>3. InBody(c)
        BY <4>1, <4>2 DEF SInv, CallsInv, BodyInv
      <4> QED
        BY <4>2, <4>3, <1>3, InBodyKept
    <3> QED
      BY <1>2, <3>1, <3>2, <3>3
  <2>6. BodyInv'
    BY <1>1, <2>3, <2>5 DEF BodyInv
  <2> QED
    BY <2>2, <2>6 DEF CallsInv
<1> QED
  BY <1>2, <1>6, <1>7

(* Leaving a scope drops its calls, which are all made. *)
LEMMA ExitFacts ==
  ASSUME SInv, scope_exit
  PROVE  /\ Len(todo) >= 2 /\ todo[Len(todo)] = <<>>
         /\ todo' \in Seq(Seq(AnyCall)) /\ Len(todo') = Len(todo) - 1
         /\ \A i \in 1 .. Len(todo) - 1 : todo'[i] = todo[i]
<1>1. /\ Len(todo) \in Nat \ {0} /\ todo \in Seq(Seq(AnyCall))
      /\ Calls = todo[Len(todo)] /\ Len(scopes) = Len(todo)
  BY LevelFacts DEF SInv, TypesInv
<1>2. Len(todo) >= 2 /\ todo[Len(todo)] = <<>>
  BY <1>1 DEF scope_exit, scope_level
<1>3. \A i \in 1 .. Len(todo) - 1 : todo[i] \in Seq(AnyCall)
  BY <1>1
<1>4. todo' = SubSeq(todo, 1, Len(todo) - 1)
  BY DEF scope_exit
<1>5. /\ todo' \in Seq(Seq(AnyCall)) /\ Len(todo') = Len(todo) - 1
      /\ \A i \in 1 .. Len(todo) - 1 : todo'[i] = todo[i]
  BY <1>1, <1>2, <1>3, <1>4, SubSeqProperties
<1> QED
  BY <1>2, <1>5

(* scope_exit: the list of a scope left is empty, and is dropped.          *)
LEMMA ExitCalls ==
  ASSUME SInv, scope_exit
  PROVE  CallsInv'
<1> DEFINE n == Len(todo)
<1>1. /\ n \in Nat /\ n >= 2 /\ todo[n] = <<>> /\ Len(scopes) = n
      /\ Len(todo') = n - 1
      /\ \A i \in 1 .. n - 1 : todo'[i] = todo[i]
  BY ExitFacts, LevelFacts DEF SInv
<1>2. KindsKept /\ OnlyDeepAdded
  BY DEF scope_exit, KindsKept, OnlyDeepAdded
<1>3. todo'[1] = todo[1] /\ Len(scopes) # 1
  BY <1>1
<1>4. TopLevelInv'
  <2>1. \A i \in DOMAIN todo[1] : todo[1][i].do = "decl"
    BY <1>3 DEF SInv, CallsInv, TopLevelInv, AtTopLevel
  <2> QED
    BY <1>3, <2>1 DEF TopLevelInv, AtTopLevel
<1>5. ASSUME n > 2
      PROVE  BodyInv'
  <2>1. PICK b : b = todo'[2] /\ b = todo[2] /\ b # <<>> /\ FunctionBody(b)
    BY <1>1, <1>5 DEF SInv, CallsInv, BodyInv
  <2>2. FunctionBody(b)'
    BY <1>2, <2>1, FunctionBodyKept
  <2>3. ASSUME NEW i \in 3 .. n - 1, NEW k \in (DOMAIN todo[i])'
        PROVE  InBody(todo[i][k])'
    <3>1. PICK c : c = todo[i][k] /\ c = todo'[i][k] /\ InBody(c)
      BY <1>1 DEF SInv, CallsInv, BodyInv
    <3> QED
      BY <3>1, <1>2, InBodyKept
  <2> QED
    BY <1>1, <2>1, <2>2, <2>3 DEF BodyInv
<1>6. ASSUME n = 2
      PROVE  BodyInv'
  BY <1>1, <1>6 DEF BodyInv
<1> QED
  BY <1>1, <1>4, <1>5, <1>6 DEF CallsInv

(***************************************************************************)
(* The calls that a handler makes.                                         *)
(***************************************************************************)
LEMMA EachElements ==
  ASSUME NEW S, NEW call, NEW args \in Seq(S)
  PROVE  /\ Len(Each(call, args)) = Len(args) /\ Len(args) \in Nat
         /\ DOMAIN Each(call, args) = 1 .. Len(args)
         /\ \A i \in 1 .. Len(args) : Each(call, args)[i] = Do(call, args[i])
BY DEF Each

(* A list of arguments gives a list of calls.                              *)
LEMMA EachTyped ==
  ASSUME NEW S, NEW T, NEW call, NEW args \in Seq(S),
         \A a \in S : Do(call, a) \in T
  PROVE  Each(call, args) \in Seq(T)
<1>1. Each(call, args) = [i \in 1 .. Len(args) |-> Do(call, args[i])]
  BY DEF Each
<1>2. \A i \in 1 .. Len(args) : Do(call, args[i]) \in T
  BY ElementOfSeq
<1> QED
  BY <1>1, <1>2

(* What the calls put in front keep, and a last call put behind. *)
LEMMA DoFields ==
  ASSUME NEW call, NEW arg
  PROVE  Do(call, arg).do = call /\ Do(call, arg).arg = arg
BY DEF Do

(* A list with one entry more at its end.                                  *)
LEMMA ThenOne ==
  ASSUME NEW S, NEW s \in Seq(S), NEW e \in S
  PROVE  /\ s \o <<e>> \in Seq(S) /\ Len(s \o <<e>>) = Len(s) + 1
         /\ \A i \in 1 .. Len(s) : (s \o <<e>>)[i] = s[i]
         /\ (s \o <<e>>)[Len(s) + 1] = e
<1>1. Append(s, e) = s \o <<e>>
  BY AppendIsConcat
<1>2. /\ Append(s, e) \in Seq(S) /\ Len(Append(s, e)) = Len(s) + 1
      /\ \A i \in 1 .. Len(s) : Append(s, e)[i] = s[i]
      /\ Append(s, e)[Len(s) + 1] = e
  BY AppendProperties
<1> QED
  BY <1>1, <1>2

(* decl_resolve resolves the uses of a declaration's value and length      *)
(* first, and then binds its name.                                         *)
LEMMA DeclCallsFacts ==
  ASSUME NEW d \in Decls, NEW s \in Nat
  PROVE  LET calls == DeclCalls(d, s) IN
         /\ calls \in Seq(AnyCall) /\ Len(calls) = Len(d.uses) + 1
         /\ Len(d.uses) \in Nat
         /\ \A i \in 1 .. Len(d.uses) : calls[i].do = "use"
         /\ calls[Len(d.uses) + 1] = Do("bind", [decl |-> d, symbol |-> s])
<1>1. d.uses \in Seq(Names) /\ Len(d.uses) \in Nat
  BY SourcesAssumption
<1>2. \A a \in Names : Do("use", a) \in AnyCall
  BY DEF Do, AnyCall, Flat
<1>3. Each("use", d.uses) \in Seq(AnyCall)
  BY <1>1, <1>2, EachTyped
<1>4. PICK uses \in Seq(AnyCall) : uses = Each("use", d.uses)
  BY <1>3
<1>5. Len(uses) = Len(d.uses)
  BY <1>1, <1>4, EachElements
<1>6. \A i \in 1 .. Len(d.uses) : uses[i] = Do("use", d.uses[i])
  BY <1>1, <1>4, EachElements
<1>7. \A i \in 1 .. Len(d.uses) : uses[i].do = "use"
  BY <1>6, DoFields
<1>8. PICK b \in AnyCall : b = Do("bind", [decl |-> d, symbol |-> s])
  BY DEF Do, AnyCall, Flat, Binding
<1>9. DeclCalls(d, s) = uses \o <<b>>
  BY <1>4, <1>8 DEF DeclCalls
<1>10. /\ uses \o <<b>> \in Seq(AnyCall) /\ Len(uses \o <<b>>) = Len(uses) + 1
       /\ \A i \in 1 .. Len(uses) : (uses \o <<b>>)[i] = uses[i]
       /\ (uses \o <<b>>)[Len(uses) + 1] = b
  BY ThenOne
<1> QED
  BY <1>1, <1>5, <1>7, <1>8, <1>9, <1>10

(* The symbol that is to hold a function's total. *)
Target(d, s, tmp) == IF tmp # NULL /\ ~ IsPrototype(d) THEN tmp ELSE s

(* The calls of a function in its scope: its parameters, its code, and at  *)
(* the end its total.                                                      *)
FunctionScope(body, d, s, target) ==
  /\ Len(d.params) \in Nat /\ Len(body) \in Nat /\ Len(d.params) < Len(body)
  /\ \A i \in 1 .. Len(body) - 1 : body[i].do \in {"param", "stmt"}
  /\ \A i \in 1 .. Len(body) : body[i].do = "param" <=> i <= Len(d.params)
  /\ body[Len(body)].do = "total"
  /\ body[Len(body)].arg = [decl |-> d, own |-> s, symbol |-> target]

(* Only a function has calls after it is bound: one scope, that of its     *)
(* parameters, which ends with the total of its frame.                     *)
LEMMA FunctionCallsFacts ==
  ASSUME NEW d \in Decls, NEW s \in Nat, NEW tmp \in Nat
  PROVE  \/ ~ d.type.fun /\ FunctionCalls(d, s, tmp) = <<>>
         \/ /\ d.type.fun
            /\ \E body \in Seq(Flat) :
                 /\ FunctionCalls(d, s, tmp) = <<Inside(body)>>
                 /\ FunctionScope(body, d, s, Target(d, s, tmp))
<1> DEFINE params == Each("param", d.params)
           stmts == Each("stmt", d.code)
           c == [decl |-> d, own |-> s, symbol |-> Target(d, s, tmp)]
           total == <<Do("total", c)>>
           p == Len(d.params)
           k == Len(d.code)
<1>1. /\ d.params \in Seq(Names) /\ p \in Nat
      /\ d.code \in Seq(Stmts) /\ k \in Nat /\ d.type.fun \in BOOLEAN
  BY SourcesAssumption
<1>2. \A a \in Names : Do("param", a) \in Flat
  BY DEF Do, Flat
<1>3. \A a \in Stmts : Do("stmt", a) \in Flat
  BY DEF Do, Flat
<1>4. /\ params \in Seq(Flat) /\ Len(params) = p
      /\ \A i \in 1 .. p : params[i] = Do("param", d.params[i])
  BY <1>1, <1>2, EachElements, EachTyped
<1>5. /\ stmts \in Seq(Flat) /\ Len(stmts) = k
      /\ \A i \in 1 .. k : stmts[i] = Do("stmt", d.code[i])
  BY <1>1, <1>3, EachElements, EachTyped
<1>6. c \in Total
  BY DEF Total, Target
<1>7. total \in Seq(Flat) /\ Len(total) = 1 /\ total[1] = Do("total", c)
  <2>1. Do("total", c) \in Flat
    BY <1>6 DEF Do, Flat
  <2> QED
    BY <2>1
<1>8. FunctionCalls(d, s, tmp) =
        IF ~ d.type.fun THEN <<>> ELSE <<Inside(params \o stmts \o total)>>
  BY DEF FunctionCalls, Target
<1> HIDE DEF params, stmts, total, c, p, k
<1>9. /\ params \o stmts \in Seq(Flat) /\ Len(params \o stmts) = p + k
      /\ \A i \in 1 .. p + k : (params \o stmts)[i] = IF i <= p THEN params[i] ELSE stmts[i - p]
  BY <1>4, <1>5, ConcatProperties
<1>10. PICK body \in Seq(Flat) :
         /\ body = (params \o stmts) \o total /\ Len(body) = p + k + 1
         /\ \A i \in 1 .. p + k + 1 :
              body[i] = IF i <= p + k THEN (params \o stmts)[i] ELSE total[i - (p + k)]
  <2>1. PICK code \in Seq(Flat) : code = params \o stmts /\ Len(code) = p + k
    BY <1>9
  <2>2. /\ code \o total \in Seq(Flat) /\ Len(code \o total) = Len(code) + Len(total)
        /\ \A i \in 1 .. Len(code) + Len(total) :
             (code \o total)[i] = IF i <= Len(code) THEN code[i] ELSE total[i - Len(code)]
    BY <1>7, ConcatProperties
  <2> QED
    BY <1>7, <2>1, <2>2
<1>11. ASSUME NEW i \in 1 .. p
       PROVE  body[i].do = "param"
  <2>1. i \in 1 .. p + k + 1 /\ i \in 1 .. p + k /\ i <= p + k
    BY <1>1
  <2>2. body[i] = params[i]
    BY <2>1, <1>9, <1>10
  <2> QED
    BY <2>2, <1>4 DEF Do
<1>12. ASSUME NEW i \in p + 1 .. p + k
       PROVE  body[i].do = "stmt"
  <2>1. i \in 1 .. p + k + 1 /\ i \in 1 .. p + k /\ i <= p + k /\ ~ i <= p /\ i - p \in 1 .. k
    BY <1>1
  <2>2. body[i] = stmts[i - p]
    BY <2>1, <1>9, <1>10
  <2> QED
    BY <2>1, <2>2, <1>5 DEF Do
<1>13. body[Len(body)] = Do("total", c)
  <2>1. p + k + 1 \in 1 .. p + k + 1 /\ ~ p + k + 1 <= p + k /\ (p + k + 1) - (p + k) = 1
    BY <1>1
  <2> QED
    BY <2>1, <1>7, <1>10
<1>14. \A i \in 1 .. Len(body) - 1 :
         /\ i \in 1 .. p \/ i \in p + 1 .. p + k
         /\ body[i].do \in {"param", "stmt"}
  <2>1. \A i \in 1 .. Len(body) - 1 : i \in 1 .. p \/ i \in p + 1 .. p + k
    BY <1>1, <1>10
  <2> QED
    BY <2>1, <1>11, <1>12
<1>15. \A i \in 1 .. Len(body) : body[i].do = "param" <=> i <= p
  <2>1. TAKE i \in 1 .. Len(body)
  <2>2. CASE i <= p
    BY <2>2, <1>11
  <2>3. CASE ~ i <= p
    <3>1. i \in p + 1 .. p + k \/ i = Len(body)
      BY <2>3, <1>1, <1>10
    <3> QED
      BY <2>3, <3>1, <1>12, <1>13, DoFields
  <2> QED
    BY <2>2, <2>3
<1>16. FunctionScope(body, d, s, Target(d, s, tmp))
  <2>1. Len(body) \in Nat /\ p < Len(body)
    BY <1>1, <1>10
  <2>2. body[Len(body)].do = "total" /\ body[Len(body)].arg = c
    BY <1>13, DoFields
  <2> QED
    BY <1>1, <2>1, <2>2, <1>14, <1>15 DEF FunctionScope, c, p
<1> QED
  BY <1>1, <1>8, <1>10, <1>16

(* A statement resolves names and declarations, and opens scopes. *)
Ordinary(c) ==
  /\ c.do \in {"use", "decl", "stmt", "scope"}
  /\ c.do = "scope" => \A k \in DOMAIN c.arg : c.arg[k].do = "stmt"

(* A block of statements is one ordinary call that opens a scope.          *)
LEMMA InsideFacts ==
  ASSUME NEW body \in Seq(Stmts)
  PROVE  Inside(Each("stmt", body)) \in AnyCall /\ Ordinary(Inside(Each("stmt", body)))
<1>1. \A a \in Stmts : Do("stmt", a) \in Flat
  BY DEF Do, Flat
<1>2. /\ Each("stmt", body) \in Seq(Flat) /\ Len(Each("stmt", body)) = Len(body)
      /\ \A i \in 1 .. Len(body) : Each("stmt", body)[i] = Do("stmt", body[i])
  BY <1>1, EachElements, EachTyped
<1>3. PICK calls \in Seq(Flat) :
        /\ calls = Each("stmt", body)
        /\ \A i \in DOMAIN calls : calls[i].do = "stmt"
  <2>1. \A i \in DOMAIN Each("stmt", body) : Each("stmt", body)[i].do = "stmt"
    <3>1. DOMAIN Each("stmt", body) = 1 .. Len(body)
      BY EachElements
    <3> QED
      BY <1>2, <3>1, DoFields
  <2> QED
    BY <1>2, <2>1
<1>4. Inside(calls) \in AnyCall /\ Ordinary(Inside(calls))
  BY <1>3 DEF Inside, Do, AnyCall, Ordinary
<1> QED
  BY <1>3, <1>4

(* Uses of names are ordinary calls.                                       *)
LEMMA UsesFacts ==
  ASSUME NEW uses \in Seq(Names)
  PROVE  /\ Each("use", uses) \in Seq(AnyCall)
         /\ \A i \in DOMAIN Each("use", uses) : Ordinary(Each("use", uses)[i])
<1>1. \A a \in Names : Do("use", a) \in AnyCall
  BY DEF Do, AnyCall, Flat
<1>2. /\ Each("use", uses) \in Seq(AnyCall) /\ Len(Each("use", uses)) = Len(uses)
      /\ \A i \in 1 .. Len(uses) : Each("use", uses)[i] = Do("use", uses[i])
  BY <1>1, EachElements, EachTyped
<1>3. DOMAIN Each("use", uses) = 1 .. Len(uses)
  BY EachElements
<1>4. \A i \in 1 .. Len(uses) : Each("use", uses)[i].do = "use"
  BY <1>2, DoFields
<1> QED
  BY <1>2, <1>3, <1>4 DEF Ordinary

(* One list of ordinary calls after another.                               *)
LEMMA OrdinaryConcat ==
  ASSUME NEW s \in Seq(AnyCall), NEW t \in Seq(AnyCall),
         \A i \in DOMAIN s : Ordinary(s[i]), \A i \in DOMAIN t : Ordinary(t[i])
  PROVE  s \o t \in Seq(AnyCall) /\ \A i \in DOMAIN (s \o t) : Ordinary((s \o t)[i])
<1>1. /\ s \o t \in Seq(AnyCall) /\ Len(s \o t) = Len(s) + Len(t)
      /\ \A i \in 1 .. Len(s) + Len(t) : (s \o t)[i] =
                     IF i <= Len(s) THEN s[i] ELSE t[i - Len(s)]
  BY ConcatProperties
<1>2. ASSUME NEW i \in 1 .. Len(s) + Len(t)
      PROVE  Ordinary((s \o t)[i])
  <2>1. CASE i <= Len(s)
    BY <2>1, <1>1
  <2>2. CASE ~ i <= Len(s)
    <3>1. i - Len(s) \in 1 .. Len(t)
      BY <2>2
    <3> QED
      BY <2>2, <3>1, <1>1
  <2> QED
    BY <2>1, <2>2
<1> QED
  BY <1>1, <1>2

(* stmt_resolve makes ordinary calls for a statement of any kind.          *)
LEMMA StmtCallsFacts ==
  ASSUME NEW s \in Stmts
  PROVE  /\ StmtCalls(s) \in Seq(AnyCall)
         /\ \A i \in DOMAIN StmtCalls(s) : Ordinary(StmtCalls(s)[i])
<1>1. CASE s.kind = "DECL" /\ s.decl \in Decls
  <2>1. StmtCalls(s) = <<Do("decl", s.decl)>>
    BY <1>1 DEF StmtCalls
  <2>2. Do("decl", s.decl) \in AnyCall /\ Ordinary(Do("decl", s.decl))
    BY <1>1 DEF Do, AnyCall, Flat, Ordinary
  <2> QED
    BY <2>1, <2>2
<1>2. CASE s.kind \in {"EXPR", "PRINT", "RETURN"} /\ s.uses \in Seq(Names)
  <2>1. StmtCalls(s) = Each("use", s.uses)
    BY <1>2 DEF StmtCalls
  <2> QED
    BY <1>2, <2>1, UsesFacts
<1>3. CASE s.kind = "BLOCK" /\ s.body \in Seq(Stmts)
  <2>1. StmtCalls(s) = <<Inside(Each("stmt", s.body))>>
    BY <1>3 DEF StmtCalls
  <2>2. PICK c : c = Inside(Each("stmt", s.body)) /\ c \in AnyCall /\ Ordinary(c)
    BY <1>3, InsideFacts
  <2> QED
    BY <2>1, <2>2
<1>4. CASE s.kind = "FOR" /\ s.uses \in Seq(Names) /\ s.body \in Seq(Stmts)
  <2>1. StmtCalls(s) = Each("use", s.uses) \o <<Inside(Each("stmt", s.body))>>
    BY <1>4 DEF StmtCalls
  <2>2. PICK c : c = Inside(Each("stmt", s.body)) /\ c \in AnyCall /\ Ordinary(c)
    BY <1>4, InsideFacts
  <2>3. <<c>> \in Seq(AnyCall) /\ \A i \in DOMAIN <<c>> : Ordinary(<<c>>[i])
    BY <2>2
  <2> QED
    BY <1>4, <2>1, <2>2, <2>3, UsesFacts, OrdinaryConcat
<1>5. CASE /\ s.kind = "IF_ELSE" /\ s.uses \in Seq(Names) /\ s.body \in Seq(Stmts)
           /\ s.else_body \in Seq(Stmts)
  <2>1. StmtCalls(s) = Each("use", s.uses) \o <<Inside(Each("stmt", s.body)),
                                                Inside(Each("stmt", s.else_body))>>
    BY <1>5 DEF StmtCalls
  <2>2. PICK c : c = Inside(Each("stmt", s.body)) /\ c \in AnyCall /\ Ordinary(c)
    BY <1>5, InsideFacts
  <2>3. PICK e : e = Inside(Each("stmt", s.else_body)) /\ e \in AnyCall /\ Ordinary(e)
    BY <1>5, InsideFacts
  <2>4. <<c, e>> \in Seq(AnyCall) /\ \A i \in DOMAIN <<c, e>> : Ordinary(<<c, e>>[i])
    BY <2>2, <2>3
  <2> QED
    BY <1>5, <2>1, <2>2, <2>3, <2>4, UsesFacts, OrdinaryConcat
<1> QED
  BY <1>1, <1>2, <1>3, <1>4, <1>5, SourcesAssumption

(* An ordinary call fits the body of any function, before and after a      *)
(* step.                                                                   *)
LEMMA OrdinaryInBody ==
  ASSUME NEW c, Ordinary(c)
  PROVE  InBody(c) /\ InBody(c)' /\ c.do # "total" /\ c.do # "param"
BY DEF Ordinary, InBody, FlatInBody

(***************************************************************************)
(* The two ways in which symbols come about and are changed.               *)
(***************************************************************************)
LEMMA CreatedTyped ==
  ASSUME NEW kind \in {"GLOBAL", "LOCAL", "PARAM"}, NEW name \in Names,
         NEW type \in {d.type : d \in Decls} \cup {ParamType}
  PROVE  /\ symbol_create(kind, name, type) \in SymbolRecord
         /\ symbol_create(kind, name, type).kind = kind
         /\ symbol_create(kind, name, type).which = Unset
BY DEF symbol_create, SymbolRecord

(* symbol_create: the symbols there were are kept, and only a global       *)
(* declaration starts a new frame.                                         *)
LEMMA AddSymbol ==
  ASSUME TypesInv, NEW r \in SymbolRecord, symbols' = Append(symbols, r)
  PROVE  /\ symbols' \in Seq(SymbolRecord) /\ Len(symbols') = Len(symbols) + 1
         /\ DOMAIN symbols' = 1 .. Len(symbols) + 1
         /\ \A s \in DOMAIN symbols : symbols'[s] = symbols[s]
         /\ symbols'[Len(symbols) + 1] = r
         /\ \A s \in DOMAIN symbols' : s \in DOMAIN symbols \/ s = Len(symbols) + 1
         /\ KindsKept
         /\ r.kind # "GLOBAL" => OnlyDeepAdded
<1>1. symbols \in Seq(SymbolRecord) /\ DOMAIN symbols = 1 .. Len(symbols)
      /\ Len(symbols) \in Nat
  BY LevelFacts DEF TypesInv
<1>2. /\ symbols' \in Seq(SymbolRecord) /\ Len(symbols') = Len(symbols) + 1
      /\ \A s \in 1 .. Len(symbols) : symbols'[s] = symbols[s]
      /\ symbols'[Len(symbols) + 1] = r
  BY <1>1, AppendProperties
<1>3. DOMAIN symbols' = 1 .. Len(symbols) + 1
  BY <1>1, <1>2
<1>4. /\ \A s \in DOMAIN symbols : s \in DOMAIN symbols'
      /\ \A s \in DOMAIN symbols' : s \in DOMAIN symbols \/ s = Len(symbols) + 1
  BY <1>1, <1>3
<1> QED
  BY <1>1, <1>2, <1>3, <1>4 DEF KindsKept, OnlyDeepAdded

(* A change of symbols that keeps their kinds leaves the frames as they    *)
(* are.                                                                    *)
LEMMA SameSymbols ==
  ASSUME TypesInv, symbols' \in Seq(SymbolRecord), Len(symbols') = Len(symbols),
         \A s \in DOMAIN symbols : symbols'[s].kind = symbols[s].kind
  PROVE  /\ DOMAIN symbols' = DOMAIN symbols /\ KindsKept /\ OnlyDeepAdded
BY LevelFacts DEF KindsKept, OnlyDeepAdded

(***************************************************************************)
(* The scopes.                                                             *)
(***************************************************************************)
LEMMA BoundFacts ==
  ASSUME TypesInv, NEW name \in Names, NEW s \in Nat, scopes' = Bound(name, s)
  PROVE  /\ scopes' \in Seq(Scope) /\ Len(scopes') = Len(scopes)
         /\ \A i \in 1 .. Len(scopes) - 1 : scopes'[i] = scopes[i]
         /\ Top' = scopes'[Len(scopes)] /\ Top'.num_vars = Top.num_vars + 1
         /\ \A n \in Names :
              Top'.table[n] = IF n = name THEN s ELSE Top.table[n]
<1> DEFINE n == Len(scopes)
           r == [table |-> [Top.table EXCEPT ![name] = s],
                 num_vars |-> Top.num_vars + 1]
<1>1. /\ scopes \in Seq(Scope) /\ n \in Nat \ {0} /\ Top = scopes[n]
      /\ Top \in Scope /\ Top.num_vars \in Nat
  BY LevelFacts DEF TypesInv
<1>2. scopes' = [scopes EXCEPT ![n] = r]
  BY <1>1 DEF Bound
<1>3. r \in Scope
  BY <1>1 DEF Scope
<1>4. /\ r.num_vars = Top.num_vars + 1
      /\ \A m \in Names : r.table[m] = IF m = name THEN s ELSE Top.table[m]
  BY <1>1 DEF Scope
<1> HIDE DEF r, n
<1>5. /\ scopes' \in Seq(Scope) /\ Len(scopes') = n
      /\ \A i \in 1 .. n : scopes'[i] = IF i = n THEN r ELSE scopes[i]
  BY <1>1, <1>2, <1>3, ExceptSeq DEF n
<1>6. Top' = scopes'[n] /\ scopes'[n] = r
  BY <1>1, <1>5 DEF Top
<1>7. \A i \in 1 .. n - 1 : i \in 1 .. n /\ i # n
  BY <1>1
<1> QED
  BY <1>4, <1>5, <1>6, <1>7 DEF n

(* A name is bound to a symbol of the scope's own kind. *)
LEMMA ScopesBound ==
  ASSUME SInv, KindsKept, NEW name \in Names, NEW s \in Nat,
         scopes' = Bound(name, s),
         IF Len(scopes) = 1 THEN Global(s)' ELSE Deep(s)'
  PROVE  ScopesInv'
<1>1. /\ Len(scopes) \in Nat \ {0} /\ Top = scopes[Len(scopes)]
      /\ DOMAIN scopes = 1 .. Len(scopes)
  BY LevelFacts DEF SInv
<1>2. /\ scopes' \in Seq(Scope) /\ Len(scopes') = Len(scopes)
      /\ \A i \in 1 .. Len(scopes) - 1 : scopes'[i] = scopes[i]
      /\ Top' = scopes'[Len(scopes)]
      /\ \A n \in Names :
           Top'.table[n] = IF n = name THEN s ELSE Top.table[n]
  BY BoundFacts DEF SInv
<1>3. DOMAIN scopes' = 1 .. Len(scopes)
  BY <1>2
<1>4. ASSUME NEW i \in 1 .. Len(scopes), NEW n \in Names,
             scopes'[i].table[n] # NULL
      PROVE  IF i = 1 THEN Global(scopes[i].table[n])'
                      ELSE Deep(scopes[i].table[n])'
  <2>1. CASE i = Len(scopes) /\ n = name
    BY <1>2, <2>1
  <2>2. CASE ~ (i = Len(scopes) /\ n = name)
    <3>1. PICK v : v = scopes'[i].table[n] /\ v = scopes[i].table[n] /\ v # NULL
      <4>1. CASE i = Len(scopes)
        BY <1>1, <1>2, <1>4, <2>2, <4>1
      <4>2. CASE i # Len(scopes)
        <5>1. scopes'[i] = scopes[i]
          BY <1>1, <1>2, <4>2
        <5> QED
          BY <5>1, <1>4
      <4> QED
        BY <4>1, <4>2
    <3>2. IF i = 1 THEN Global(v) ELSE Deep(v)
      BY <1>1, <3>1 DEF SInv, ScopesInv
    <3> QED
      BY <3>1, <3>2, SymbolsKept
  <2> QED
    BY <2>1, <2>2
<1> QED
  BY <1>3, <1>4 DEF ScopesInv

(* What a name means in a scope is a symbol of it, or nothing. *)
LEMMA LookupCurrent ==
  ASSUME SInv, NEW name \in Names
  PROVE  /\ scope_lookup_current(name) \in Nat
         /\ scope_lookup_current(name) # NULL =>
              IF Len(scopes) = 1 THEN Global(scope_lookup_current(name))
              ELSE Deep(scope_lookup_current(name))
<1>1. /\ Len(scopes) \in Nat \ {0} /\ Top = scopes[Len(scopes)] /\ Top \in Scope
      /\ DOMAIN scopes = 1 .. Len(scopes)
  BY LevelFacts DEF SInv
<1>2. Top.table[name] \in Nat
  BY <1>1 DEF Scope
<1> QED
  BY <1>1, <1>2 DEF SInv, ScopesInv, scope_lookup_current

(* scope_lookup gives a symbol that exists, or NULL.                       *)
LEMMA Lookup ==
  ASSUME SInv, NEW name \in Names
  PROVE  scope_lookup(name) \in Nat /\ scope_lookup(name) \in DOMAIN symbols \cup {NULL}
<1>1. CASE Declaring(name) = {}
  BY <1>1 DEF scope_lookup, NULL
<1>2. CASE Declaring(name) # {}
  <2>1. Len(scopes) \in Nat /\ DOMAIN scopes = 1 .. Len(scopes)
        /\ DOMAIN symbols = 1 .. Len(symbols) /\ Len(symbols) \in Nat
    BY LevelFacts DEF SInv
  <2>2. Declaring(name) \in SUBSET (1 .. Len(scopes))
    BY <2>1 DEF Declaring
  <2>3. \E i \in Declaring(name) : \A k \in Declaring(name) : k <= i
    BY <1>2, <2>1, <2>2, GreatestBelow
  <2>4. PICK i \in Declaring(name) :
          i = CHOOSE m \in Declaring(name) : \A k \in Declaring(name) : k <= m
    BY <2>3
  <2>5. scope_lookup(name) = scopes[i].table[name]
    BY <1>2, <2>4 DEF scope_lookup
  <2>6. i \in DOMAIN scopes /\ scopes[i].table[name] # NULL
    BY <2>4 DEF Declaring
  <2>7. scopes[i].table[name] \in DOMAIN symbols
    BY <2>6 DEF SInv, ScopesInv, Global, Deep
  <2> QED
    BY <2>1, <2>5, <2>7
<1> QED
  BY <1>1, <1>2

(***************************************************************************)
(* Slots: most steps give none to a variable of a function, and the others *)
(* give the next one.                                                      *)
(***************************************************************************)
SlotsSameBut(t) ==
  \A s \in DOMAIN symbols' :
    s # t /\ symbols'[s].kind # "GLOBAL" /\ symbols'[s].which # Unset =>
      s \in DOMAIN symbols /\ symbols[s].which = symbols'[s].which

(* A step that gives no slot keeps the slots distinct.                     *)
LEMMA NoSlotGiven ==
  ASSUME SInv, KindsKept, SlotsSameBut(NULL), TypesInv'
  PROVE  /\ SlotsDisjoint'
         /\ \A s \in DOMAIN symbols' : (InFrame(s) /\ Current(s))' =>
              /\ s \in DOMAIN symbols /\ InFrame(s) /\ Current(s)
              /\ symbols'[s].which = symbols[s].which
<1>1. NULL \notin DOMAIN symbols'
  BY DEF TypesInv, NULL
<1>2. ASSUME NEW s \in DOMAIN symbols', InFrame(s)'
      PROVE  s \in DOMAIN symbols /\ InFrame(s) /\ symbols'[s].which = symbols[s].which
  BY <1>1, <1>2 DEF SlotsSameBut, InFrame, IsGlobal, KindsKept
<1>3. ASSUME NEW s, Current(s)'
      PROVE  Current(s)
  BY <1>3 DEF Current, KindsKept, IsGlobal
<1>4. ASSUME NEW s, NEW t, SameFrame(s, t)'
      PROVE  SameFrame(s, t)
  BY <1>4 DEF SameFrame, KindsKept, IsGlobal
<1>5. SlotsDisjoint'
  BY <1>2, <1>4 DEF SInv, SlotsDisjoint
<1> QED
  BY <1>2, <1>3, <1>5

(* It also keeps the next slot above those given, if the count of the      *)
(* innermost scope does not shrink.                                        *)
LEMMA NoSlotGivenHere ==
  ASSUME SInv, KindsKept, SlotsSameBut(NULL), TypesInv',
         Len(scopes') = Len(scopes), Top'.num_vars \in Nat,
         Top'.num_vars >= Top.num_vars
  PROVE  SlotsDisjoint' /\ SlotsInv'
<1>1. Top.num_vars \in Nat
  BY LevelFacts DEF SInv
<1>2. \A s \in DOMAIN symbols : symbols[s].which \in Nat \cup {Unset}
  BY SymbolFacts DEF SInv
<1>3. ASSUME NEW s \in DOMAIN symbols', (InFrame(s) /\ Current(s))', Len(scopes) >= 2
      PROVE  symbols'[s].which < Top'.num_vars
  <2>1. /\ s \in DOMAIN symbols /\ InFrame(s) /\ Current(s)
        /\ symbols'[s].which = symbols[s].which
    BY <1>3, NoSlotGiven
  <2>2. symbols[s].which < Top.num_vars
    BY <1>3, <2>1 DEF SInv, SlotsInv
  <2>3. symbols[s].which \in Nat
    BY <1>2, <2>1 DEF InFrame
  <2> QED
    BY <1>1, <2>1, <2>2, <2>3
<1> QED
  BY <1>3, NoSlotGiven DEF SlotsInv

(* The next slot given in a frame is above every slot of it, and so is     *)
(* shared with none.                                                       *)
LEMMA NextSlotGiven ==
  ASSUME SInv, KindsKept, OnlyDeepAdded, Len(scopes) >= 2, TypesInv',
         NEW t \in DOMAIN symbols', symbols'[t].which = Top.num_vars,
         symbols'[t].kind # "GLOBAL", Current(t)', SlotsSameBut(t),
         Len(scopes') = Len(scopes), Top'.num_vars = Top.num_vars + 1
  PROVE  SlotsDisjoint' /\ SlotsInv'
<1>1. Top.num_vars \in Nat
  BY LevelFacts DEF SInv
<1>2. \A s \in DOMAIN symbols : symbols[s].which \in Nat \cup {Unset}
  BY SymbolFacts DEF SInv
<1>3. ASSUME NEW s \in DOMAIN symbols', InFrame(s)', s # t
      PROVE  s \in DOMAIN symbols /\ InFrame(s) /\ symbols'[s].which = symbols[s].which
  BY <1>3 DEF SlotsSameBut, InFrame, IsGlobal, KindsKept
<1>4. \A s : Current(s)' => Current(s)
  BY DEF Current, KindsKept, IsGlobal
<1>5. \A s, u : SameFrame(s, u)' => SameFrame(s, u)
  BY DEF SameFrame, KindsKept, IsGlobal
<1>6. ASSUME NEW s \in DOMAIN symbols', InFrame(s)', s # t, Current(s)'
      PROVE  symbols'[s].which < Top.num_vars
  <2>1. /\ s \in DOMAIN symbols /\ InFrame(s) /\ Current(s)
        /\ symbols'[s].which = symbols[s].which
    BY <1>3, <1>4, <1>6
  <2> QED
    BY <2>1 DEF SInv, SlotsInv
<1>7. SlotsInv'
  <2>1. ASSUME NEW s \in DOMAIN symbols', (InFrame(s) /\ Current(s))'
        PROVE  symbols'[s].which < Top.num_vars + 1
    <3>1. CASE s = t
      BY <1>1, <3>1
    <3>2. CASE s # t
      <4>1. symbols'[s].which < Top.num_vars
        BY <1>6, <2>1, <3>2
      <4>2. symbols'[s].which \in Nat
        BY <1>2, <1>3, <2>1, <3>2 DEF InFrame
      <4> QED
        BY <1>1, <4>1, <4>2
    <3> QED
      BY <3>1, <3>2
  <2> QED
    BY <2>1 DEF SlotsInv
\* What shares a frame with a current symbol is current.
<1>8. \A s : (SameFrame(s, t) \/ SameFrame(t, s))' => Current(s)'
  BY DEF SameFrame, Current
<1>9. ASSUME NEW s \in DOMAIN symbols', InFrame(s)',
             (SameFrame(s, t) \/ SameFrame(t, s))',
             symbols'[s].which = symbols'[t].which
      PROVE  s = t
  <2>1. SUFFICES ASSUME s # t PROVE FALSE
    OBVIOUS
  <2>2. symbols'[s].which < Top.num_vars
    BY <1>6, <1>8, <1>9, <2>1
  <2> QED
    BY <1>1, <1>9, <2>2
<1>10. SlotsDisjoint'
  <2>1. ASSUME NEW s \in DOMAIN symbols', NEW u \in DOMAIN symbols',
               InFrame(s)', InFrame(u)', SameFrame(s, u)',
               symbols'[s].which = symbols'[u].which
        PROVE  s = u
    <3>1. CASE s = t \/ u = t
      BY <1>9, <2>1, <3>1
    <3>2. CASE s # t /\ u # t
      BY <1>3, <1>5, <2>1, <3>2 DEF SInv, SlotsDisjoint
    <3> QED
      BY <3>1, <3>2
  <2> QED
    BY <2>1 DEF SlotsDisjoint
<1> QED
  BY <1>7, <1>10

(***************************************************************************)
(* Each action preserves the invariant.                                    *)
(***************************************************************************)
LEMMA TypesReplace ==
  ASSUME TypesInv, Calls # <<>>, NEW new \in Seq(AnyCall), Replace(new),
         scopes' \in Seq(Scope), Len(scopes') = Len(scopes),
         symbols' \in Seq(SymbolRecord), KindsKept, resolve_err' \in BOOLEAN,
         UNCHANGED resolved
  PROVE  TypesInv'
<1>1. todo' \in Seq(Seq(AnyCall)) /\ Len(todo') = Len(todo)
  BY ReplaceFacts
<1>2. Len(scopes') # 0 /\ scopes' # <<>>
  BY LevelFacts, EmptySeq
<1>3. \A i \in DOMAIN resolved : resolved[i] \in DOMAIN symbols' \cup {NULL}
  BY DEF TypesInv, KindsKept
<1> QED
  BY <1>1, <1>2, <1>3 DEF TypesInv

(* Where the call at hand stands. *)
LEMMA HeadFacts ==
  ASSUME SInv, Calls # <<>>
  PROVE  /\ Len(todo) = 1 \/ Len(todo) >= 2
         /\ Len(todo) = 1 => AtTopLevel(Call)
         /\ Len(todo) >= 2 /\ Call.do # "total" => InBody(Call)
         /\ Len(todo) = 2 => FunctionBody(Calls)
         /\ Len(todo) > 2 => InBody(Call)
<1>1. /\ Len(todo) \in Nat \ {0} /\ DOMAIN todo = 1 .. Len(todo)
      /\ Calls = todo[Len(todo)]
  BY LevelFacts DEF SInv
<1>2. Call = Calls[1] /\ 1 \in DOMAIN Calls /\ Len(Calls) \in Nat \ {0}
  BY CallFacts DEF SInv
<1>3. Len(todo) = 1 => AtTopLevel(Call)
  BY <1>1, <1>2 DEF SInv, CallsInv, TopLevelInv
<1>4. Len(todo) = 2 => FunctionBody(Calls)
  BY <1>1, <1>2 DEF SInv, CallsInv, BodyInv
<1>5. Len(todo) > 2 => InBody(Call)
  BY <1>1, <1>2 DEF SInv, CallsInv, BodyInv
<1>6. Len(todo) = 2 /\ Call.do # "total" => InBody(Call)
  <2>1. ASSUME FunctionBody(Calls), Call.do # "total"
        PROVE  InBody(Call)
    <3>1. 1 \in 1 .. Len(Calls) - 1
      BY <1>2, <2>1 DEF FunctionBody, LastOf
    <3> QED
      BY <1>2, <2>1, <3>1 DEF FunctionBody
  <2> QED
    BY <1>4, <2>1
<1> QED
  BY <1>1, <1>3, <1>4, <1>5, <1>6

(* scope_enter: the count goes on from the enclosing scope's.              *)
LEMMA EnterPreserves ==
  ASSUME SInv, scope_enter
  PROVE  SInv' /\ Len(scopes') = Len(scopes) + 1
         /\ \A i \in 1 .. Len(scopes) : scopes'[i] = scopes[i]
         /\ Top'.num_vars = Inherited
<1> DEFINE n == Len(scopes)
           e == EmptyScope(Inherited)
<1>1. /\ n \in Nat \ {0} /\ scopes \in Seq(Scope) /\ Top \in Scope
      /\ Top.num_vars \in Nat /\ Len(todo) = n /\ DOMAIN scopes = 1 .. n
  BY LevelFacts DEF SInv, TypesInv
<1>2. e \in Scope /\ e.num_vars = Inherited /\ \A m \in Names : e.table[m] = NULL
  BY <1>1 DEF EmptyScope, Scope, Inherited, NULL
<1>3. /\ scopes' \in Seq(Scope) /\ Len(scopes') = n + 1
      /\ \A i \in 1 .. n : scopes'[i] = scopes[i]
      /\ scopes'[n + 1] = e
  <2>1. scopes' = Append(scopes, e)
    BY DEF scope_enter
  <2> QED
    BY <1>1, <1>2, <2>1, AppendProperties
<1> HIDE DEF e
<1>4. Top' = e
  BY <1>3 DEF Top
<1>5. UNCHANGED <<symbols, resolve_err, resolved>>
  BY DEF scope_enter
<1>6. TypesInv'
  <2>1. todo' \in Seq(Seq(AnyCall)) /\ Len(todo') = n + 1
    BY <1>1, EnterFacts
  <2>2. scopes' # <<>>
    BY <1>1, <1>3
  <2> QED
    BY <1>3, <1>5, <2>1, <2>2 DEF TypesInv, SInv
<1>7. CallsInv'
  BY <1>3, EnterCalls
<1>8. ScopesInv'
  <2>1. DOMAIN scopes' = 1 .. n + 1
    BY <1>3
  <2>2. ASSUME NEW i \in 1 .. n + 1, NEW m \in Names, scopes'[i].table[m] # NULL
        PROVE  IF i = 1 THEN Global(scopes[i].table[m])' ELSE Deep(scopes[i].table[m])'
    <3>1. i \in 1 .. n /\ scopes'[i] = scopes[i]
      BY <1>1, <1>2, <1>3, <2>2
    <3>2. IF i = 1 THEN Global(scopes[i].table[m]) ELSE Deep(scopes[i].table[m])
      BY <1>1, <2>2, <3>1 DEF SInv, ScopesInv
    <3> QED
      BY <1>5, <3>1, <3>2 DEF Global, Deep, IsGlobal
  <2> QED
    BY <2>1, <2>2 DEF ScopesInv
<1>9. SlotsDisjoint'
  BY <1>5 DEF SInv, SlotsDisjoint, InFrame, SameFrame, IsGlobal
<1>10. SlotsInv'
  <2>1. CASE n = 1
    \* The function's own symbol is the last: its frame is still empty.
    <3>1. Global(Len(symbols))
      <4>1. Calls # <<>> /\ Call.do = "scope"
        BY DEF scope_enter, Ready
      <4> QED
        BY <1>1, <2>1, <4>1, HeadFacts DEF AtTopLevel
    <3>2. \A s \in DOMAIN symbols : Current(s) => s = Len(symbols)
      BY <3>1, SymbolFacts DEF Current, Global, SInv
    <3>3. \A s \in DOMAIN symbols : ~ (InFrame(s) /\ Current(s))
      BY <3>1, <3>2 DEF InFrame, Global
    <3> QED
      BY <1>5, <3>3 DEF SlotsInv, InFrame, Current, IsGlobal
  <2>2. CASE n # 1
    <3>1. Inherited = Top.num_vars /\ n >= 2
      BY <1>1, <2>2 DEF Inherited, scope_level
    <3>2. Top'.num_vars = Top.num_vars
      BY <1>2, <1>4, <3>1
    <3> QED
      BY <1>5, <3>1, <3>2 DEF SInv, SlotsInv, InFrame, Current, IsGlobal
  <2> QED
    BY <2>1, <2>2
<1> QED
  BY <1>2, <1>3, <1>4, <1>6, <1>7, <1>8, <1>9, <1>10 DEF SInv

(* scope_exit: inside a function the enclosing scope takes over the        *)
(* count.                                                                  *)
LEMMA ExitScopes ==
  ASSUME SInv, scope_exit
  PROVE  /\ scopes' \in Seq(Scope) /\ Len(scopes') = Len(scopes) - 1
         /\ \A i \in 1 .. Len(scopes) - 1 : scopes'[i].table = scopes[i].table
         /\ Len(scopes) > 2 => Top'.num_vars = Top.num_vars
<1> DEFINE n == Len(scopes)
           rest == SubSeq(scopes, 1, n - 1)
           r == [rest[n - 1] EXCEPT !.num_vars = Top.num_vars]
<1>1. /\ n \in Nat /\ n >= 2 /\ scopes \in Seq(Scope) /\ Top.num_vars \in Nat
      /\ \A i \in 1 .. n - 1 : scopes[i] \in Scope
  BY LevelFacts, ExitFacts DEF SInv, TypesInv
<1>2. /\ rest \in Seq(Scope) /\ Len(rest) = n - 1
      /\ \A i \in 1 .. n - 1 : rest[i] = scopes[i]
  BY <1>1, SubSeqProperties
<1>3. scopes' = IF n > 2 THEN [rest EXCEPT ![n - 1] = r] ELSE rest
  BY DEF scope_exit, Closed, scope_level
<1>4. rest[n - 1] \in Scope /\ n - 1 \in 1 .. n - 1
  BY <1>1, <1>2
<1>5. r \in Scope /\ r.table = rest[n - 1].table /\ r.num_vars = Top.num_vars
  BY <1>1, <1>4 DEF Scope
<1> HIDE DEF rest, r, n
<1>6. CASE n > 2
  <2>1. /\ scopes' \in Seq(Scope) /\ Len(scopes') = n - 1
        /\ \A i \in 1 .. n - 1 : scopes'[i] = IF i = n - 1 THEN r ELSE rest[i]
    BY <1>2, <1>3, <1>4, <1>5, <1>6, ExceptSeq
  <2>2. Top' = r
    BY <1>4, <2>1 DEF Top
  <2> QED
    BY <1>1, <1>2, <1>5, <2>1, <2>2 DEF n
<1>7. CASE ~ n > 2
  BY <1>1, <1>2, <1>3, <1>7 DEF n
<1> QED
  BY <1>6, <1>7

(* scope_exit preserves the invariant.                                     *)
LEMMA ExitPreserves ==
  ASSUME SInv, scope_exit
  PROVE  SInv'
<1> DEFINE n == Len(scopes)
<1>1. /\ n \in Nat /\ n >= 2 /\ Len(todo) = n /\ DOMAIN scopes = 1 .. n
      /\ todo' \in Seq(Seq(AnyCall)) /\ Len(todo') = n - 1
  BY LevelFacts, ExitFacts DEF SInv
<1>2. /\ scopes' \in Seq(Scope) /\ Len(scopes') = n - 1
      /\ \A i \in 1 .. n - 1 : scopes'[i].table = scopes[i].table
      /\ n > 2 => Top'.num_vars = Top.num_vars
  BY ExitScopes
<1>3. UNCHANGED <<symbols, resolve_err, resolved>>
  BY DEF scope_exit
<1>4. TypesInv'
  <2>1. scopes' # <<>>
    BY <1>1, <1>2, EmptySeq
  <2> QED
    BY <1>1, <1>2, <1>3, <2>1 DEF TypesInv, SInv
<1>5. CallsInv'
  BY ExitCalls
<1>6. ScopesInv'
  <2>1. DOMAIN scopes' = 1 .. n - 1
    BY <1>2
  <2>2. ASSUME NEW i \in 1 .. n - 1, NEW m \in Names, scopes'[i].table[m] # NULL
        PROVE  IF i = 1 THEN Global(scopes[i].table[m])' ELSE Deep(scopes[i].table[m])'
    <3>1. i \in 1 .. n /\ scopes'[i].table = scopes[i].table
      BY <1>1, <1>2
    <3>2. IF i = 1 THEN Global(scopes[i].table[m]) ELSE Deep(scopes[i].table[m])
      BY <1>1, <2>2, <3>1 DEF SInv, ScopesInv
    <3> QED
      BY <1>3, <3>1, <3>2 DEF Global, Deep, IsGlobal
  <2> QED
    BY <2>1, <2>2 DEF ScopesInv
<1>7. SlotsDisjoint'
  BY <1>3 DEF SInv, SlotsDisjoint, InFrame, SameFrame, IsGlobal
<1>8. SlotsInv'
  <2>1. Len(scopes') >= 2 => n > 2
    BY <1>1, <1>2
  <2> QED
    BY <1>1, <1>2, <1>3, <2>1 DEF SInv, SlotsInv, InFrame, Current, IsGlobal
<1> QED
  BY <1>4, <1>5, <1>6, <1>7, <1>8 DEF SInv

(* The empty list of calls.                                                *)
LEMMA EmptyCalls == <<>> \in Seq(AnyCall) /\ Len(<<>>) = 0
OBVIOUS

(* The call at hand is done, and makes no others. *)
LEMMA BodyDrop ==
  ASSUME SInv, KindsKept, OnlyDeepAdded, Len(todo) >= 2, Calls # <<>>,
         Replace(<<>>), Len(scopes') = Len(scopes)
  PROVE  CallsInv'
<1>1. PICK new \in Seq(AnyCall) : new = <<>> /\ Len(new) = 0
  BY EmptyCalls
<1>2. \A k \in 1 .. Len(new) : new[k].do # "total" /\ InBody(new[k])'
  BY <1>1
<1>3. Replace(new)
  BY <1>1
<1> QED
  BY <1>1, <1>2, <1>3, BodyReplace

(* expr_resolve preserves the invariant.                                   *)
LEMMA UsePreserves ==
  ASSUME SInv, expr_resolve
  PROVE  SInv'
<1>1. Calls # <<>> /\ Call.do = "use" /\ Replace(<<>>)
      /\ UNCHANGED <<scopes, symbols>>
  BY DEF expr_resolve, Ready
<1>2. KindsKept /\ OnlyDeepAdded
  BY <1>1 DEF KindsKept, OnlyDeepAdded
<1>3. Call.arg \in Names
  BY <1>1, CallFacts, CallArgument DEF SInv
<1>4. PICK v : v = scope_lookup(Call.arg) /\ v \in Nat /\ v \in DOMAIN symbols \cup {NULL}
               /\ resolved' = Append(resolved, v)
               /\ resolve_err' = (resolve_err \/ v = NULL)
  BY <1>3, Lookup DEF expr_resolve, Fail
<1>5. TypesInv'
  <2>1. /\ todo' \in Seq(Seq(AnyCall)) /\ Len(todo') = Len(todo)
    BY <1>1, EmptyCalls, ReplaceFacts DEF SInv
  <2>2. resolve_err' \in BOOLEAN
    BY <1>4 DEF SInv, TypesInv
  <2>3. /\ resolved' \in Seq(Nat)
        /\ \A i \in DOMAIN resolved' : resolved'[i] \in DOMAIN symbols \cup {NULL}
    <3>1. resolved \in Seq(Nat)
      BY DEF SInv, TypesInv
    <3>2. /\ resolved' \in Seq(Nat) /\ Len(resolved') = Len(resolved) + 1
          /\ \A i \in 1 .. Len(resolved) : resolved'[i] = resolved[i]
          /\ resolved'[Len(resolved) + 1] = v
      BY <1>4, <3>1, AppendProperties
    <3>3. DOMAIN resolved' = 1 .. Len(resolved) + 1
      BY <3>2
    <3>4. \A i \in 1 .. Len(resolved) + 1 : i \in 1 .. Len(resolved) \/ i = Len(resolved) + 1
      BY <3>1
    <3> QED
      BY <1>4, <3>1, <3>2, <3>3, <3>4 DEF SInv, TypesInv
  <2> QED
    BY <1>1, <2>1, <2>2, <2>3 DEF SInv, TypesInv
<1>6. CallsInv'
  <2>1. CASE Len(todo) = 1
    BY <1>1, <2>1, EmptyCalls, TopReplace
  <2>2. CASE Len(todo) # 1
    <3>1. Len(todo) >= 2
      BY <1>1, <2>2, HeadFacts
    <3> QED
      BY <1>1, <1>2, <3>1, BodyDrop
  <2> QED
    BY <2>1, <2>2
<1> QED
  BY <1>1, <1>5, <1>6
     DEF SInv, ScopesInv, SlotsInv, SlotsDisjoint, Global, Deep, InFrame, Current,
         IsGlobal, SameFrame, Top

(* stmt_resolve preserves the invariant.                                   *)
LEMMA StmtPreserves ==
  ASSUME SInv, stmt_resolve
  PROVE  SInv'
<1>1. Calls # <<>> /\ Call.do = "stmt" /\ Replace(StmtCalls(Call.arg))
      /\ UNCHANGED <<scopes, symbols, resolve_err, resolved>>
  BY DEF stmt_resolve, Ready
<1>2. KindsKept /\ OnlyDeepAdded
  BY <1>1 DEF KindsKept, OnlyDeepAdded
<1>3. Call.arg \in Stmts
  BY <1>1, CallFacts, CallArgument DEF SInv
<1>4. PICK new \in Seq(AnyCall) :
        new = StmtCalls(Call.arg) /\ \A i \in DOMAIN new : Ordinary(new[i])
  BY <1>3, StmtCallsFacts
<1>5. Len(todo) >= 2
  BY <1>1, HeadFacts DEF AtTopLevel
<1>6. \A k \in 1 .. Len(new) : new[k].do # "total" /\ InBody(new[k])'
  BY <1>4, OrdinaryInBody
<1>7. CallsInv'
  BY <1>1, <1>2, <1>4, <1>5, <1>6, BodyReplace
<1>8. TypesInv'
  BY <1>1, <1>2, <1>4, TypesReplace DEF SInv, TypesInv
<1> QED
  BY <1>1, <1>7, <1>8
     DEF SInv, ScopesInv, SlotsInv, SlotsDisjoint, Global, Deep, InFrame, Current,
         IsGlobal, SameFrame, Top

(* What a parameter does to the symbols and the scopes. *)
LEMMA ParamEffect ==
  ASSUME SInv, param_list_resolve
  PROVE  /\ Calls # <<>> /\ Call.do = "param" /\ Call.arg \in Names /\ Replace(<<>>)
         /\ Len(todo) >= 2 /\ Len(scopes) = Len(todo)
         /\ UNCHANGED <<resolved, functions>>
         /\ \E r \in SymbolRecord :
              /\ symbols' = Append(symbols, r) /\ r.kind = "PARAM"
              /\ \/ /\ r.which = Top.num_vars
                    /\ scopes' = Bound(Call.arg, Len(symbols) + 1)
                    /\ UNCHANGED resolve_err
                 \/ r.which = Unset /\ resolve_err' = TRUE /\ UNCHANGED scopes
<1>1. Calls # <<>> /\ Call.do = "param" /\ Replace(<<>>)
      /\ UNCHANGED <<resolved, functions>>
  BY DEF param_list_resolve, Ready
<1>2. Call.arg \in Names
  BY <1>1, CallFacts, CallArgument DEF SInv
<1>3. Len(todo) >= 2 /\ Len(scopes) = Len(todo)
  BY <1>1, HeadFacts, LevelFacts DEF AtTopLevel, SInv
<1>4. PICK p \in SymbolRecord :
        p = symbol_create("PARAM", Call.arg, ParamType) /\ p.kind = "PARAM" /\ p.which = Unset
  BY <1>2, CreatedTyped
<1>5. PICK r \in SymbolRecord :
        r = [p EXCEPT !.which = Top.num_vars] /\ r.kind = "PARAM" /\ r.which = Top.num_vars
  <2>1. Top.num_vars \in Nat
    BY LevelFacts DEF SInv
  <2>2. [p EXCEPT !.which = Top.num_vars] \in SymbolRecord
    BY <2>1 DEF SymbolRecord
  <2>3. /\ [p EXCEPT !.which = Top.num_vars].kind = p.kind
        /\ [p EXCEPT !.which = Top.num_vars].which = Top.num_vars
    BY DEF SymbolRecord
  <2> QED
    BY <1>4, <2>2, <2>3
<1>6. \/ /\ symbols' = Append(symbols, r)
         /\ scopes' = Bound(Call.arg, Len(symbols) + 1)
         /\ UNCHANGED resolve_err
      \/ symbols' = Append(symbols, p) /\ resolve_err' = TRUE /\ UNCHANGED scopes
  BY <1>4, <1>5 DEF param_list_resolve
<1> QED
  BY <1>1, <1>2, <1>3, <1>4, <1>5, <1>6

(* param_list_resolve preserves the invariant.                             *)
LEMMA ParamPreserves ==
  ASSUME SInv, param_list_resolve
  PROVE  SInv'
<1>0. PICK t \in Nat : t = Len(symbols) + 1
  BY LevelFacts DEF SInv
<1>1. /\ Calls # <<>> /\ Call.do = "param" /\ Call.arg \in Names /\ Replace(<<>>)
      /\ Len(todo) >= 2 /\ Len(scopes) = Len(todo) /\ UNCHANGED resolved
  BY ParamEffect
<1>2. PICK r \in SymbolRecord :
              /\ symbols' = Append(symbols, r) /\ r.kind = "PARAM"
              /\ \/ /\ r.which = Top.num_vars
                    /\ scopes' = Bound(Call.arg, t)
                    /\ UNCHANGED resolve_err
                 \/ r.which = Unset /\ resolve_err' = TRUE /\ UNCHANGED scopes
  BY <1>0, ParamEffect
<1>3. /\ symbols' \in Seq(SymbolRecord) /\ DOMAIN symbols' = 1 .. t
      /\ \A s \in DOMAIN symbols : symbols'[s] = symbols[s]
      /\ symbols'[t] = r
      /\ \A s \in DOMAIN symbols' : s \in DOMAIN symbols \/ s = t
      /\ KindsKept /\ OnlyDeepAdded
  BY <1>0, <1>2, AddSymbol DEF SInv
<1>4. t \in Nat /\ t \in DOMAIN symbols'
  BY <1>0, <1>3, LevelFacts DEF SInv
<1>5. Deep(t)' /\ Current(t)'
  <2>1. \A s \in DOMAIN symbols' : s <= t
    BY <1>3, <1>4
  <2> QED
    BY <1>2, <1>3, <1>4, <2>1 DEF Deep, Current, IsGlobal
<1>6. scopes' \in Seq(Scope) /\ Len(scopes') = Len(scopes)
  <2>1. CASE scopes' = Bound(Call.arg, t)
    BY <1>1, <1>4, <2>1, BoundFacts DEF SInv
  <2>2. CASE UNCHANGED scopes
    BY <2>2 DEF SInv, TypesInv
  <2> QED
    BY <1>2, <2>1, <2>2
<1>7. resolve_err' \in BOOLEAN
  BY <1>2 DEF SInv, TypesInv
<1>8. TypesInv'
  BY <1>1, <1>3, <1>6, <1>7, EmptyCalls, TypesReplace DEF SInv
<1>9. CallsInv'
  BY <1>1, <1>3, <1>6, BodyDrop
<1>10. ScopesInv' /\ SlotsDisjoint' /\ SlotsInv'
  <2>1. CASE r.which = Top.num_vars /\ scopes' = Bound(Call.arg, t)
    <3>1. ScopesInv'
      BY <1>1, <1>3, <1>4, <1>5, <2>1, ScopesBound
    <3>2. Top'.num_vars = Top.num_vars + 1
      BY <1>1, <1>4, <2>1, BoundFacts DEF SInv
    <3>3. SlotsSameBut(t)
      BY <1>3 DEF SlotsSameBut
    <3>4. SlotsDisjoint' /\ SlotsInv'
      BY <1>1, <1>2, <1>3, <1>4, <1>5, <1>6, <1>8, <2>1, <3>2, <3>3, NextSlotGiven
    <3> QED
      BY <3>1, <3>4
  <2>2. CASE r.which = Unset /\ UNCHANGED scopes
    <3>1. ScopesInv'
      BY <1>3, <2>2, ScopesKept DEF SInv
    <3>2. SlotsSameBut(NULL)
      BY <1>3, <2>2 DEF SlotsSameBut
    <3>3. Top' = Top /\ Top.num_vars \in Nat
      BY <2>2, LevelFacts DEF Top, SInv
    <3>4. SlotsDisjoint' /\ SlotsInv'
      BY <1>3, <1>6, <1>8, <3>2, <3>3, NoSlotGivenHere
    <3> QED
      BY <3>1, <3>4
  <2> QED
    BY <1>2, <2>1, <2>2
<1> QED
  BY <1>8, <1>9, <1>10 DEF SInv

(* What decl_resolve does first. *)
LEMMA CreateEffect ==
  ASSUME SInv, CreateSymbol
  PROVE  /\ Calls # <<>> /\ Call.do = "decl" /\ Call.arg \in Decls
         /\ Len(scopes) = Len(todo) /\ (Len(todo) = 1 \/ Len(todo) >= 2)
         /\ UNCHANGED <<scopes, resolve_err, resolved, functions>>
         /\ \E r \in SymbolRecord :
              /\ symbols' = Append(symbols, r) /\ r.which = Unset
              /\ r.kind = IF Len(todo) = 1 THEN "GLOBAL" ELSE "LOCAL"
         /\ \E new \in Seq(AnyCall), u \in Nat :
              /\ Replace(new) /\ Len(new) = u + 1 /\ u = Len(Call.arg.uses)
              /\ \A i \in 1 .. u : new[i].do = "use"
              /\ new[u + 1] = Do("bind", [decl |-> Call.arg,
                                          symbol |-> Len(symbols) + 1])
<1>1. Calls # <<>> /\ Call.do = "decl"
      /\ UNCHANGED <<scopes, resolve_err, resolved, functions>>
  BY DEF CreateSymbol, Ready
<1>2. Call.arg \in Decls
  BY <1>1, CallFacts, CallArgument DEF SInv
<1>3. Len(scopes) = Len(todo) /\ Len(todo) \in Nat \ {0} /\ Len(symbols) \in Nat
  BY LevelFacts DEF SInv
<1>4. PICK d \in Decls : d = Call.arg
  BY <1>2
<1>5. d.name \in Names /\ d.uses \in Seq(Names) /\ Len(d.uses) \in Nat
  BY SourcesAssumption
<1>6. PICK kind \in {"GLOBAL", "LOCAL"} : kind = IF scope_level > 1 THEN "LOCAL" ELSE "GLOBAL"
  OBVIOUS
<1>7. PICK r \in SymbolRecord :
        r = symbol_create(kind, d.name, d.type) /\ r.kind = kind /\ r.which = Unset
  BY <1>5, CreatedTyped
<1>8. symbols' = Append(symbols, r) /\ Replace(DeclCalls(d, Len(symbols) + 1))
  BY <1>4, <1>6, <1>7 DEF CreateSymbol
<1>9. kind = IF Len(todo) = 1 THEN "GLOBAL" ELSE "LOCAL"
  BY <1>3, <1>6 DEF scope_level
<1>10. PICK s \in Nat : s = Len(symbols) + 1
  BY <1>3
<1>11. PICK new \in Seq(AnyCall), u \in Nat :
         /\ new = DeclCalls(d, s) /\ Len(new) = u + 1 /\ u = Len(d.uses)
         /\ \A i \in 1 .. u : new[i].do = "use"
         /\ new[u + 1] = Do("bind", [decl |-> d, symbol |-> s])
  BY <1>5, DeclCallsFacts
<1>12. \E b \in Seq(AnyCall), u1 \in Nat :
              /\ Replace(b) /\ Len(b) = u1 + 1 /\ u1 = Len(Call.arg.uses)
              /\ \A i \in 1 .. u1 : b[i].do = "use"
              /\ b[u1 + 1] = Do("bind", [decl |-> Call.arg,
                                          symbol |-> Len(symbols) + 1])
  BY <1>4, <1>8, <1>10, <1>11
<1>13. \E b \in SymbolRecord :
              /\ symbols' = Append(symbols, b) /\ b.which = Unset
              /\ b.kind = IF Len(todo) = 1 THEN "GLOBAL" ELSE "LOCAL"
  BY <1>7, <1>8, <1>9
<1> QED
  BY SMTT(30), <1>1, <1>2, <1>3, <1>12, <1>13

(* The first half of decl_resolve preserves the invariant: it makes the    *)
(* symbol, and binds nothing yet.                                          *)
LEMMA CreatePreserves ==
  ASSUME SInv, CreateSymbol
  PROVE  SInv'
<1>1. /\ Calls # <<>> /\ Call.do = "decl" /\ Len(scopes) = Len(todo)
      /\ (Len(todo) = 1 \/ Len(todo) >= 2)
      /\ UNCHANGED <<scopes, resolve_err, resolved>>
  BY CreateEffect
<1>2. PICK t \in Nat : t = Len(symbols) + 1
  BY LevelFacts DEF SInv
<1>3. PICK r \in SymbolRecord :
              /\ symbols' = Append(symbols, r) /\ r.which = Unset
              /\ r.kind = IF Len(todo) = 1 THEN "GLOBAL" ELSE "LOCAL"
  BY CreateEffect
<1>4. PICK new \in Seq(AnyCall), u \in Nat :
              /\ Replace(new) /\ Len(new) = u + 1
              /\ \A i \in 1 .. u : new[i].do = "use"
              /\ new[u + 1] = Do("bind", [decl |-> Call.arg, symbol |-> t])
  BY <1>2, CreateEffect
<1>5. /\ symbols' \in Seq(SymbolRecord) /\ DOMAIN symbols' = 1 .. t
      /\ Len(symbols') = t
      /\ \A s \in DOMAIN symbols : symbols'[s] = symbols[s]
      /\ symbols'[t] = r
      /\ \A s \in DOMAIN symbols' : s \in DOMAIN symbols \/ s = t
      /\ KindsKept /\ (r.kind # "GLOBAL" => OnlyDeepAdded)
  BY <1>2, <1>3, AddSymbol DEF SInv
<1>6. t \in DOMAIN symbols' /\ Current(t)'
  <2>1. t \in DOMAIN symbols' /\ \A s \in DOMAIN symbols' : s <= t
    BY <1>2, <1>5, LevelFacts DEF SInv
  <2> QED
    BY <2>1 DEF Current
<1>7. TypesInv'
  BY <1>1, <1>4, <1>5, TypesReplace DEF SInv, TypesInv
<1>8. new[u + 1].do = "bind" /\ new[u + 1].arg.symbol = t
  BY <1>4, DoFields
<1>9. \A k \in 1 .. Len(new) : k \in 1 .. u \/ k = u + 1
  BY <1>4
<1>10. CallsInv'
  <2>1. CASE Len(todo) = 1
    <3>1. Len(scopes') = 1 /\ Global(Len(symbols))' /\ Len(symbols)' = t
      BY <1>1, <1>3, <1>5, <1>6, <2>1 DEF Global, IsGlobal
    <3>2. \A k \in 1 .. Len(new) : AtTopLevel(new[k])'
      BY <1>4, <1>8, <1>9, <3>1 DEF AtTopLevel
    <3>3. \A i, k \in 1 .. Len(new) : ~ (i < k /\ new[i].do # "use")
      BY <1>4
    <3> QED
      BY <1>1, <1>4, <2>1, <3>1, <3>2, <3>3, TopReplace
  <2>2. CASE Len(todo) >= 2
    <3>1. OnlyDeepAdded /\ Local(t)'
      <4>1. r.kind = "LOCAL"
        <5>1. Len(todo) # 1
          BY <2>2
        <5> QED
          BY <1>3, <5>1
      <4> QED
        BY <1>5, <1>6, <4>1 DEF Local
    <3>2. \A k \in 1 .. Len(new) : new[k].do # "total" /\ InBody(new[k])'
      BY <1>4, <1>6, <1>8, <1>9, <3>1 DEF InBody, FlatInBody
    <3> QED
      BY <1>1, <1>4, <1>5, <2>2, <3>1, <3>2, BodyReplace
  <2> QED
    BY <1>1, <2>1, <2>2
<1>11. ScopesInv'
  BY <1>1, <1>5, ScopesKept DEF SInv
<1>12. SlotsSameBut(NULL)
  BY <1>3, <1>5 DEF SlotsSameBut
<1>13. Top' = Top /\ Top.num_vars \in Nat
  BY <1>1, LevelFacts DEF Top, SInv
<1>14. SlotsDisjoint' /\ SlotsInv'
  BY <1>1, <1>5, <1>7, <1>12, <1>13, NoSlotGivenHere
<1> QED
  BY <1>7, <1>10, <1>11, <1>14 DEF SInv

(***************************************************************************)
(* The calls of a function, once it is bound.                              *)
(***************************************************************************)
LEMMA InsideCall ==
  ASSUME NEW body \in Seq(Flat)
  PROVE  /\ Inside(body) \in AnyCall
         /\ Inside(body).do = "scope" /\ Inside(body).arg = body
BY DEF Inside, Do, AnyCall

(* What a global function resolves after it is bound fits the top level:   *)
(* the symbol its frame is kept with is global.                            *)
LEMMA FunctionCallsAtTop ==
  ASSUME NEW d \in Decls, NEW s \in Nat, NEW tmp \in Nat, NEW target,
         target = Target(d, s, tmp), Len(scopes') = 1, s = Len(symbols'),
         Global(s)', Current(s)', Global(target)', target <= s
  PROVE  \E new \in Seq(AnyCall) :
           /\ new = FunctionCalls(d, s, tmp)
           /\ \A k \in 1 .. Len(new) : AtTopLevel(new[k])'
           /\ \A i, k \in 1 .. Len(new) : ~ i < k
<1>1. CASE ~ d.type.fun /\ FunctionCalls(d, s, tmp) = <<>>
  <2>1. PICK new \in Seq(AnyCall) : new = <<>> /\ Len(new) = 0
    BY EmptyCalls
  <2>2. new = FunctionCalls(d, s, tmp) /\ \A k : ~ k \in 1 .. Len(new)
    BY <1>1, <2>1
  <2> QED
    BY <2>2
<1>2. ASSUME NEW body \in Seq(Flat),
             FunctionCalls(d, s, tmp) = <<Inside(body)>>,
             FunctionScope(body, d, s, target)
      PROVE  \E new \in Seq(AnyCall) :
               /\ new = FunctionCalls(d, s, tmp)
               /\ \A k \in 1 .. Len(new) : AtTopLevel(new[k])'
               /\ \A i, k \in 1 .. Len(new) : ~ i < k
  <2>1. PICK c : /\ c = LastOf(body) /\ c.do = "total" /\ c.arg.own = s
                 /\ c.arg.symbol = target
    BY <1>2 DEF FunctionScope, LastOf
  <2>2. ASSUME NEW i \in 1 .. Len(body) - 1
        PROVE  body[i].do # "total" /\ InBody(body[i])'
    <3>1. body[i].do \in {"param", "stmt"}
      BY <1>2 DEF FunctionScope
    <3> QED
      BY <3>1 DEF InBody, FlatInBody
  <2>3. body # <<>>
    BY <1>2 DEF FunctionScope
  <2>4. FunctionBody(body)'
    <3>1. /\ Global(LastOf(body).arg.own)' /\ Current(LastOf(body).arg.own)'
          /\ Global(LastOf(body).arg.symbol)'
      BY <2>1
    <3>2. LastOf(body).do = "total" /\ LastOf(body).arg.symbol <= LastOf(body).arg.own
      BY <2>1
    <3> QED
      BY <2>2, <2>3, <3>1, <3>2 DEF FunctionBody
  <2>5. PICK e \in AnyCall : e = Inside(body) /\ e.do = "scope" /\ e.arg = body
    BY InsideCall
  <2>6. AtTopLevel(e)'
    BY <2>1, <2>4, <2>5 DEF AtTopLevel
  <2>7. <<e>> \in Seq(AnyCall) /\ Len(<<e>>) = 1 /\ <<e>>[1] = e
    OBVIOUS
  <2>8. PICK new \in Seq(AnyCall) : new = <<e>> /\ Len(new) = 1 /\ new[1] = e
    BY <2>7
  <2>9. /\ new = FunctionCalls(d, s, tmp)
        /\ \A k \in 1 .. Len(new) : AtTopLevel(new[k])'
        /\ \A i, k \in 1 .. Len(new) : ~ i < k
    BY <1>2, <2>5, <2>6, <2>8
  <2> QED
    BY <2>9
<1> QED
  BY <1>1, <1>2, FunctionCallsFacts

(* What a function declared inside another one resolves fits the body of   *)
(* that one.                                                               *)
LEMMA FunctionCallsInBody ==
  ASSUME NEW d \in Decls, NEW s \in Nat, NEW tmp \in Nat, NEW target,
         target = Target(d, s, tmp), Deep(s)', Deep(target)'
  PROVE  \E new \in Seq(AnyCall) :
           /\ new = FunctionCalls(d, s, tmp)
           /\ \A k \in 1 .. Len(new) : new[k].do = "scope" /\ InBody(new[k])'
<1>1. CASE ~ d.type.fun /\ FunctionCalls(d, s, tmp) = <<>>
  <2>1. PICK new \in Seq(AnyCall) : new = <<>> /\ Len(new) = 0
    BY EmptyCalls
  <2>2. new = FunctionCalls(d, s, tmp) /\ \A k : ~ k \in 1 .. Len(new)
    BY <1>1, <2>1
  <2> QED
    BY <2>2
<1>2. ASSUME NEW body \in Seq(Flat),
             FunctionCalls(d, s, tmp) = <<Inside(body)>>,
             FunctionScope(body, d, s, target)
      PROVE  \E new \in Seq(AnyCall) :
               /\ new = FunctionCalls(d, s, tmp)
               /\ \A k \in 1 .. Len(new) : new[k].do = "scope" /\ InBody(new[k])'
  <2>1. PICK c : /\ c = body[Len(body)] /\ c.do = "total" /\ c.arg.own = s
                 /\ c.arg.symbol = target
    BY <1>2 DEF FunctionScope
  <2>2. ASSUME NEW i \in 1 .. Len(body)
        PROVE  FlatInBody(body[i])'
    <3>1. i \in 1 .. Len(body) - 1 \/ i = Len(body)
      OBVIOUS
    <3>2. CASE i = Len(body)
      BY <2>1, <3>2 DEF FlatInBody
    <3>3. CASE i \in 1 .. Len(body) - 1
      <4>1. body[i].do \in {"param", "stmt"}
        BY <1>2, <3>3 DEF FunctionScope
      <4> QED
        BY <4>1 DEF FlatInBody
    <3> QED
      BY <3>1, <3>2, <3>3
  <2>3. PICK e \in AnyCall : e = Inside(body) /\ e.do = "scope" /\ e.arg = body
    BY InsideCall
  <2>4. InBody(e)'
    BY <2>2, <2>3 DEF InBody, FlatInBody
  <2>5. PICK new \in Seq(AnyCall) : new = <<e>> /\ Len(new) = 1 /\ new[1] = e
    <3>1. <<e>> \in Seq(AnyCall) /\ Len(<<e>>) = 1 /\ <<e>>[1] = e
      OBVIOUS
    <3> QED
      BY <3>1
  <2>6. /\ new = FunctionCalls(d, s, tmp)
        /\ \A k \in 1 .. Len(new) : new[k].do = "scope" /\ InBody(new[k])'
    BY <1>2, <2>3, <2>4, <2>5
  <2> QED
    BY <2>6
<1> QED
  BY <1>1, <1>2, FunctionCallsFacts

(***************************************************************************)
(* A name is bound.                                                        *)
(***************************************************************************)
LEMMA FlagSet ==
  ASSUME NEW d \in Decls
  PROVE  IsPrototype(d) \in BOOLEAN
BY DEF IsPrototype

(* The records that differ in one field. *)
LEMMA OtherSlot ==
  ASSUME NEW r \in SymbolRecord, NEW w \in Nat, NEW q, q = [r EXCEPT !.which = w]
  PROVE  /\ q \in SymbolRecord /\ q.which = w /\ q.kind = r.kind
         /\ q.total = r.total /\ q.prototype = r.prototype
BY DEF SymbolRecord

(* A symbol with another total.                                            *)
LEMMA OtherTotal ==
  ASSUME NEW r \in SymbolRecord, NEW w \in Nat, NEW q, q = [r EXCEPT !.total = w]
  PROVE  /\ q \in SymbolRecord /\ q.which = r.which /\ q.kind = r.kind
         /\ q.total = w /\ q.prototype = r.prototype
BY DEF SymbolRecord

(* A symbol with another prototype flag.                                   *)
LEMMA OtherFlag ==
  ASSUME NEW r \in SymbolRecord, NEW f \in BOOLEAN, NEW q, q = [r EXCEPT !.prototype = f]
  PROVE  /\ q \in SymbolRecord /\ q.which = r.which /\ q.kind = r.kind
         /\ q.total = r.total /\ q.prototype = f
BY DEF SymbolRecord

(* A table of symbols with one of them changed.                            *)
LEMMA ChangeEntry ==
  ASSUME NEW old \in Seq(SymbolRecord), NEW s \in DOMAIN old,
         NEW r \in SymbolRecord, NEW new, new = [old EXCEPT ![s] = r]
  PROVE  /\ new \in Seq(SymbolRecord) /\ Len(new) = Len(old)
         /\ DOMAIN new = DOMAIN old /\ new[s] = r
         /\ \A i \in DOMAIN old : i # s => new[i] = old[i]
<1>1. DOMAIN old = 1 .. Len(old) /\ Len(old) \in Nat
  OBVIOUS
<1>2. /\ new \in Seq(SymbolRecord) /\ Len(new) = Len(old)
      /\ \A i \in 1 .. Len(old) : new[i] = IF i = s THEN r ELSE old[i]
  BY <1>1, ExceptSeq
<1> QED
  BY <1>1, <1>2

(* scope_bind gives one symbol its slot and its flag, and no other one     *)
(* changes.                                                                *)
LEMMA GiveSlot ==
  ASSUME TypesInv, NEW s \in DOMAIN symbols, NEW w \in Nat, NEW f \in BOOLEAN,
         symbols' = [symbols EXCEPT ![s].which = w, ![s].prototype = f]
  PROVE  /\ symbols' \in Seq(SymbolRecord) /\ Len(symbols') = Len(symbols)
         /\ DOMAIN symbols' = DOMAIN symbols
         /\ \A i \in DOMAIN symbols : i # s => symbols'[i] = symbols[i]
         /\ symbols'[s].kind = symbols[s].kind /\ symbols'[s].which = w
         /\ symbols'[s].prototype = f /\ symbols'[s].total = symbols[s].total
<1>1. symbols \in Seq(SymbolRecord) /\ symbols[s] \in SymbolRecord
  BY SymbolFacts DEF TypesInv
<1>2. PICK r : r = [symbols[s] EXCEPT !.which = w]
  OBVIOUS
<1>3. /\ r \in SymbolRecord /\ r.kind = symbols[s].kind /\ r.which = w
      /\ r.total = symbols[s].total
  BY <1>1, <1>2, OtherSlot
<1>4. PICK q : q = [symbols EXCEPT ![s] = r]
  OBVIOUS
<1>5. /\ q \in Seq(SymbolRecord) /\ Len(q) = Len(symbols)
      /\ DOMAIN q = DOMAIN symbols /\ q[s] = r
      /\ \A i \in DOMAIN symbols : i # s => q[i] = symbols[i]
  BY <1>1, <1>3, <1>4, ChangeEntry
<1>6. PICK p : p = [r EXCEPT !.prototype = f]
  OBVIOUS
<1>7. /\ p \in SymbolRecord /\ p.kind = r.kind /\ p.which = r.which
      /\ p.prototype = f /\ p.total = r.total
  BY <1>3, <1>6, OtherFlag
<1>8. symbols' = [q EXCEPT ![s].prototype = f]
  BY <1>2, <1>4
<1>9. symbols' = [q EXCEPT ![s] = p]
  BY <1>5, <1>6, <1>8
<1>10. /\ symbols' \in Seq(SymbolRecord) /\ Len(symbols') = Len(q)
       /\ DOMAIN symbols' = DOMAIN q /\ symbols'[s] = p
       /\ \A i \in DOMAIN q : i # s => symbols'[i] = q[i]
  <2>1. s \in DOMAIN q
    BY <1>5
  <2>2. PICK z : z = [q EXCEPT ![s] = p]
    OBVIOUS
  <2>3. /\ z \in Seq(SymbolRecord) /\ Len(z) = Len(q)
        /\ DOMAIN z = DOMAIN q /\ z[s] = p
        /\ \A i \in DOMAIN q : i # s => z[i] = q[i]
    BY <1>5, <1>7, <2>1, <2>2, ChangeEntry
  <2> QED
    BY <1>9, <2>2, <2>3
<1> QED
  BY <1>3, <1>5, <1>7, <1>10

(* A redeclaration changes two flags at most: its own, and the earlier     *)
(* symbol's, which is never set by it.                                     *)
LEMMA SetFlags ==
  ASSUME TypesInv, NEW s \in DOMAIN symbols, NEW t \in DOMAIN symbols,
         NEW f \in BOOLEAN, NEW h \in BOOLEAN, h => symbols[t].prototype,
         symbols' = [symbols EXCEPT ![s].prototype = f, ![t].prototype = h]
  PROVE  /\ symbols' \in Seq(SymbolRecord) /\ Len(symbols') = Len(symbols)
         /\ DOMAIN symbols' = DOMAIN symbols
         /\ \A i \in DOMAIN symbols :
              /\ symbols'[i].kind = symbols[i].kind
              /\ symbols'[i].which = symbols[i].which
              /\ symbols'[i].total = symbols[i].total
              /\ i # s /\ symbols'[i].prototype => symbols[i].prototype
         /\ symbols'[t].prototype => h
<1>1. symbols \in Seq(SymbolRecord) /\ symbols[s] \in SymbolRecord
  BY SymbolFacts DEF TypesInv
<1>2. PICK r : r = [symbols[s] EXCEPT !.prototype = f]
  OBVIOUS
<1>3. /\ r \in SymbolRecord /\ r.kind = symbols[s].kind /\ r.prototype = f
      /\ r.which = symbols[s].which /\ r.total = symbols[s].total
  BY <1>1, <1>2, OtherFlag
<1>4. PICK q : q = [symbols EXCEPT ![s] = r]
  OBVIOUS
<1>5. /\ q \in Seq(SymbolRecord) /\ Len(q) = Len(symbols)
      /\ DOMAIN q = DOMAIN symbols /\ q[s] = r
      /\ \A i \in DOMAIN symbols : i # s => q[i] = symbols[i]
  BY <1>1, <1>3, <1>4, ChangeEntry
<1>6. q[t] \in SymbolRecord
  BY <1>3, <1>5, SymbolFacts
<1>8. PICK p : p = [q[t] EXCEPT !.prototype = h]
  OBVIOUS
<1>9. /\ p \in SymbolRecord /\ p.kind = q[t].kind /\ p.which = q[t].which
      /\ p.total = q[t].total /\ p.prototype = h
  BY <1>6, <1>8, OtherFlag
<1>10. symbols' = [q EXCEPT ![t].prototype = h]
  BY <1>2, <1>4
<1>11. symbols' = [q EXCEPT ![t] = p]
  BY <1>5, <1>8, <1>10
<1>12. /\ symbols' \in Seq(SymbolRecord) /\ Len(symbols') = Len(q)
       /\ DOMAIN symbols' = DOMAIN q /\ symbols'[t] = p
       /\ \A i \in DOMAIN q : i # t => symbols'[i] = q[i]
  <2>1. t \in DOMAIN q
    BY <1>5
  <2>2. PICK z : z = [q EXCEPT ![t] = p]
    OBVIOUS
  <2>3. /\ z \in Seq(SymbolRecord) /\ Len(z) = Len(q)
        /\ DOMAIN z = DOMAIN q /\ z[t] = p
        /\ \A i \in DOMAIN q : i # t => z[i] = q[i]
    BY <1>5, <1>9, <2>1, <2>2, ChangeEntry
  <2> QED
    BY <1>11, <2>2, <2>3
<1>13. ASSUME NEW i \in DOMAIN symbols
       PROVE  /\ q[i].kind = symbols[i].kind /\ q[i].which = symbols[i].which
              /\ q[i].total = symbols[i].total
              /\ i # s => q[i].prototype = symbols[i].prototype
  BY <1>3, <1>5
<1>14. ASSUME NEW i \in DOMAIN symbols
       PROVE  /\ symbols'[i].kind = q[i].kind /\ symbols'[i].which = q[i].which
              /\ symbols'[i].total = q[i].total
              /\ i # t => symbols'[i].prototype = q[i].prototype
  BY <1>5, <1>9, <1>12
<1>15. symbols'[t].prototype => h
  BY <1>9, <1>12
<1>16. ASSUME NEW i \in DOMAIN symbols
       PROVE  /\ symbols'[i].kind = symbols[i].kind
              /\ symbols'[i].which = symbols[i].which
              /\ symbols'[i].total = symbols[i].total
              /\ i # s /\ symbols'[i].prototype => symbols[i].prototype
  BY <1>13, <1>14, <1>15
<1> QED
  BY <1>5, <1>12, <1>15, <1>16

(* The end of a function's resolution sets one total.                      *)
LEMMA PutTotal ==
  ASSUME TypesInv, NEW s \in DOMAIN symbols, NEW w \in Nat,
         symbols' = [symbols EXCEPT ![s].total = w]
  PROVE  /\ symbols' \in Seq(SymbolRecord) /\ Len(symbols') = Len(symbols)
         /\ DOMAIN symbols' = DOMAIN symbols
         /\ \A i \in DOMAIN symbols :
              /\ symbols'[i].kind = symbols[i].kind
              /\ symbols'[i].which = symbols[i].which
              /\ symbols'[i].prototype = symbols[i].prototype
              /\ i # s => symbols'[i].total = symbols[i].total
         /\ symbols'[s].total = w
<1>1. symbols \in Seq(SymbolRecord) /\ symbols[s] \in SymbolRecord
  BY SymbolFacts DEF TypesInv
<1>2. PICK r : r = [symbols[s] EXCEPT !.total = w]
  OBVIOUS
<1>3. /\ r \in SymbolRecord /\ r.kind = symbols[s].kind /\ r.total = w
      /\ r.which = symbols[s].which /\ r.prototype = symbols[s].prototype
  BY <1>1, <1>2, OtherTotal
<1>4. symbols' = [symbols EXCEPT ![s] = r]
  BY <1>2
<1>5. /\ symbols' \in Seq(SymbolRecord) /\ Len(symbols') = Len(symbols)
      /\ DOMAIN symbols' = DOMAIN symbols /\ symbols'[s] = r
      /\ \A i \in DOMAIN symbols : i # s => symbols'[i] = symbols[i]
  BY <1>1, <1>3, <1>4, ChangeEntry
<1> QED
  BY <1>3, <1>5

(* The symbol about to be bound. *)
LEMMA BindFacts ==
  ASSUME SInv, Calls # <<>>, Call.do = "bind"
  PROVE  \E d \in Decls, s \in Nat :
           /\ d = Call.arg.decl /\ s = Call.arg.symbol /\ d.name \in Names
           /\ s \in DOMAIN symbols /\ Current(s)
           /\ Len(todo) = 1 \/ Len(todo) >= 2
           /\ Len(todo) = 1 => Global(s) /\ s = Len(symbols)
           /\ Len(todo) >= 2 => Local(s) /\ Deep(s)
<1>1. Call.arg \in Binding
  BY CallFacts, CallArgument DEF SInv
<1>2. PICK d \in Decls, s \in Nat : d = Call.arg.decl /\ s = Call.arg.symbol
  BY <1>1 DEF Binding
<1>3. d.name \in Names
  BY SourcesAssumption
<1>4. CASE Len(todo) = 1
  <2>1. Global(s) /\ s = Len(symbols)
    BY <1>2, <1>4, HeadFacts DEF AtTopLevel
  <2>2. Current(s) /\ s \in DOMAIN symbols
    BY <2>1, SymbolFacts DEF Current, Global, SInv
  <2> QED
    BY <1>2, <1>3, <1>4, <2>1, <2>2
<1>5. CASE Len(todo) >= 2
  <2>1. Local(s) /\ Current(s)
    <3>1. InBody(Call)
      BY <1>5, HeadFacts
    <3>2. FlatInBody(Call)
      BY <3>1 DEF InBody
    <3>3. Local(Call.arg.symbol) /\ Current(Call.arg.symbol)
      BY <3>2 DEF FlatInBody
    <3> QED
      BY <1>2, <3>3 DEF Local, Current, IsGlobal
  <2>2. Len(todo) # 1
    BY <1>5, LevelFacts DEF SInv
  <2> QED
    BY <1>2, <1>3, <1>5, <2>1, <2>2 DEF Local, Deep, IsGlobal
<1> QED
  BY <1>4, <1>5, HeadFacts

(* The calls that follow a binding, new or not: tmp is the symbol found.   *)
LEMMA BindCalls ==
  ASSUME SInv, Calls # <<>>, Call.do = "bind", NEW d \in Decls, NEW s \in Nat,
         s = Call.arg.symbol, NEW tmp \in Nat,
         tmp # NULL => IF Len(scopes) = 1 THEN Global(tmp) ELSE Deep(tmp),
         KindsKept, OnlyDeepAdded, Len(symbols') = Len(symbols),
         Replace(FunctionCalls(d, s, tmp)), Len(scopes') = Len(scopes)
  PROVE  CallsInv' /\ FunctionCalls(d, s, tmp) \in Seq(AnyCall)
<1>1. PICK target : target = Target(d, s, tmp)
  OBVIOUS
<1>2. target = s \/ (tmp # NULL /\ target = tmp)
  BY <1>1 DEF Target
<1>3. /\ s \in DOMAIN symbols /\ Current(s)
      /\ Len(todo) = 1 \/ Len(todo) >= 2
      /\ Len(todo) = 1 => Global(s) /\ s = Len(symbols)
      /\ Len(todo) >= 2 => Deep(s)
  BY BindFacts
<1>4. Len(scopes) = Len(todo) /\ Len(todo) \in Nat
  BY LevelFacts DEF SInv
<1>5. Current(s)'
  BY <1>3, SymbolsKept
<1>6. CASE Len(todo) = 1
  <2>1. Global(s) /\ Global(target) /\ s = Len(symbols')
    BY <1>2, <1>3, <1>4, <1>6
  <2>2. Global(s)' /\ Global(target)'
    BY <2>1, SymbolsKept
  <2>3. target <= s
    BY <1>3, <2>1, SymbolFacts DEF Global, SInv
  <2>4. Len(scopes') = 1
    BY <1>4, <1>6
  <2>5. PICK new \in Seq(AnyCall) :
           /\ new = FunctionCalls(d, s, tmp)
           /\ \A k \in 1 .. Len(new) : AtTopLevel(new[k])'
           /\ \A i, k \in 1 .. Len(new) : ~ i < k
    BY <1>1, <1>5, <2>1, <2>2, <2>3, <2>4, FunctionCallsAtTop
  <2>6. \A i, k \in 1 .. Len(new) : i < k /\ new[i].do # "use" => new[k].do = "decl"
    BY <2>5
  <2>7. Replace(new) /\ Call.do # "use"
    BY <2>5
  <2>8. CallsInv'
    BY <1>6, <2>5, <2>6, <2>7, TopReplace
  <2> QED
    BY <2>5, <2>8
<1>7. CASE Len(todo) >= 2
  <2>1. Deep(s) /\ Deep(target)
    BY <1>2, <1>3, <1>4, <1>7
  <2>2. Deep(s)' /\ Deep(target)'
    BY <2>1, SymbolsKept
  <2>3. PICK new \in Seq(AnyCall) :
           /\ new = FunctionCalls(d, s, tmp)
           /\ \A k \in 1 .. Len(new) : new[k].do = "scope" /\ InBody(new[k])'
    BY <1>1, <2>2, FunctionCallsInBody
  <2>4. \A k \in 1 .. Len(new) : new[k].do # "total" /\ InBody(new[k])'
    BY <2>3
  <2>5. Replace(new)
    BY <2>3
  <2>6. CallsInv'
    BY <1>7, <2>4, <2>5, BodyReplace
  <2> QED
    BY <2>3, <2>6
<1> QED
  BY <1>3, <1>6, <1>7

(* What decl_resolve does when the name is new in its scope: the symbol    *)
(* gets the next slot, and is bound.                                       *)
LEMMA BindNewEffect ==
  ASSUME SInv, BindNew
  PROVE  /\ Calls # <<>> /\ Call.do = "bind"
         /\ UNCHANGED <<resolve_err, resolved, functions>>
         /\ \E d \in Decls, s \in Nat, t \in Nat :
              /\ d = Call.arg.decl /\ s = Call.arg.symbol
              /\ d.name \in Names /\ s \in DOMAIN symbols
              /\ t = NULL /\ Replace(FunctionCalls(d, s, t))
              /\ scopes' = Bound(d.name, s)
              /\ symbols' \in Seq(SymbolRecord) /\ Len(symbols') = Len(symbols)
              /\ DOMAIN symbols' = DOMAIN symbols /\ KindsKept /\ OnlyDeepAdded
              /\ \A i \in DOMAIN symbols : i # s => symbols'[i] = symbols[i]
              /\ symbols'[s].kind = symbols[s].kind
              /\ symbols'[s].which = Top.num_vars
              /\ symbols'[s].prototype = IsPrototype(d)
              /\ symbols'[s].total = symbols[s].total
<1>1. Calls # <<>> /\ Call.do = "bind"
      /\ UNCHANGED <<resolve_err, resolved, functions>>
  BY DEF BindNew, Ready
<1>2. PICK d \in Decls, s \in Nat :
           /\ d = Call.arg.decl /\ s = Call.arg.symbol /\ d.name \in Names
           /\ s \in DOMAIN symbols
  BY <1>1, BindFacts
<1>3. PICK f \in BOOLEAN : f = IsPrototype(d)
  BY FlagSet
<1>4. PICK w \in Nat : w = Top.num_vars
  BY LevelFacts DEF SInv
<1>5. /\ symbols' = [symbols EXCEPT ![s].which = w, ![s].prototype = f]
      /\ scopes' = Bound(d.name, s) /\ Replace(FunctionCalls(d, s, NULL))
  BY <1>2, <1>3, <1>4 DEF BindNew
<1>6. /\ symbols' \in Seq(SymbolRecord) /\ Len(symbols') = Len(symbols)
      /\ DOMAIN symbols' = DOMAIN symbols
      /\ \A i \in DOMAIN symbols : i # s => symbols'[i] = symbols[i]
      /\ symbols'[s].kind = symbols[s].kind /\ symbols'[s].which = w
      /\ symbols'[s].prototype = f /\ symbols'[s].total = symbols[s].total
  BY ZenonT(30), <1>2, <1>5, GiveSlot DEF SInv
<1>7. \A i \in DOMAIN symbols : symbols'[i].kind = symbols[i].kind
  BY <1>6
<1>8. KindsKept /\ OnlyDeepAdded
  BY <1>6, <1>7, SameSymbols DEF SInv
<1>9. PICK t \in Nat : t = NULL
  BY DEF NULL
<1>10. Replace(FunctionCalls(d, s, t))
  BY <1>5, <1>9
<1>11. /\ symbols'[s].which = Top.num_vars /\ symbols'[s].prototype = IsPrototype(d)
  BY <1>3, <1>4, <1>6
<1> QED
  BY <1>1, <1>2, <1>5, <1>6, <1>8, <1>9, <1>10, <1>11

(* Binding a new name preserves the invariant.                             *)
LEMMA BindNewPreserves ==
  ASSUME SInv, BindNew
  PROVE  SInv'
<1>1. Calls # <<>> /\ Call.do = "bind" /\ UNCHANGED <<resolve_err, resolved>>
  BY BindNewEffect
<1>2. PICK d \in Decls, s \in Nat, t \in Nat :
              /\ d = Call.arg.decl /\ s = Call.arg.symbol
              /\ d.name \in Names /\ s \in DOMAIN symbols
              /\ t = NULL /\ Replace(FunctionCalls(d, s, t))
              /\ scopes' = Bound(d.name, s)
              /\ symbols' \in Seq(SymbolRecord) /\ Len(symbols') = Len(symbols)
              /\ DOMAIN symbols' = DOMAIN symbols /\ KindsKept /\ OnlyDeepAdded
              /\ \A i \in DOMAIN symbols : i # s => symbols'[i] = symbols[i]
              /\ symbols'[s].kind = symbols[s].kind
              /\ symbols'[s].which = Top.num_vars
  BY BindNewEffect
<1>3. /\ Current(s)
      /\ Len(todo) = 1 \/ Len(todo) >= 2
      /\ Len(todo) = 1 => Global(s)
      /\ Len(todo) >= 2 => Deep(s)
  BY <1>1, <1>2, BindFacts
<1>4. Len(scopes) = Len(todo) /\ Len(todo) \in Nat
  BY LevelFacts DEF SInv
<1>5. /\ scopes' \in Seq(Scope) /\ Len(scopes') = Len(scopes)
      /\ Top'.num_vars = Top.num_vars + 1
  BY <1>2, BoundFacts DEF SInv
<1>6. CallsInv' /\ FunctionCalls(d, s, t) \in Seq(AnyCall)
  BY <1>1, <1>2, <1>5, BindCalls
<1>7. TypesInv'
  <2>1. resolve_err' \in BOOLEAN /\ UNCHANGED resolved
    BY <1>1 DEF SInv, TypesInv
  <2> QED
    BY <1>1, <1>2, <1>5, <1>6, <2>1, TypesReplace DEF SInv
<1>8. Current(s)' /\ (Global(s) => Global(s)') /\ (Deep(s) => Deep(s)')
  BY <1>2, <1>3, SymbolsKept
<1>9. ScopesInv'
  <2>1. IF Len(scopes) = 1 THEN Global(s)' ELSE Deep(s)'
    BY <1>3, <1>4, <1>8
  <2> QED
    BY <1>2, <2>1, ScopesBound
<1>10. SlotsDisjoint' /\ SlotsInv'
  <2>1. CASE Len(todo) = 1
    \* A global variable has no slot.
    <3>1. SlotsSameBut(NULL)
      BY <1>2, <1>3, <2>1 DEF SlotsSameBut, Global, IsGlobal
    <3>2. Top'.num_vars \in Nat /\ Top'.num_vars >= Top.num_vars
      BY <1>5, LevelFacts DEF SInv
    <3> QED
      BY <1>2, <1>5, <1>7, <3>1, <3>2, NoSlotGivenHere
  <2>2. CASE Len(todo) >= 2
    <3>1. SlotsSameBut(s)
      BY <1>2 DEF SlotsSameBut
    <3>2. symbols'[s].kind # "GLOBAL" /\ s \in DOMAIN symbols'
      BY <1>2, <1>3, <2>2 DEF Deep, IsGlobal
    <3>3. Len(scopes) >= 2
      BY <1>4, <2>2
    <3> QED
      BY <1>2, <1>5, <1>7, <1>8, <3>1, <3>2, <3>3, NextSlotGiven
  <2> QED
    BY <1>3, <2>1, <2>2
<1> QED
  BY <1>6, <1>7, <1>9, <1>10 DEF SInv

(* What decl_resolve does when the scope has the name: no slot is given    *)
(* and no name bound, whatever error is found.                             *)
LEMMA RedeclareEffect ==
  ASSUME SInv, Redeclare
  PROVE  /\ Calls # <<>> /\ Call.do = "bind"
         /\ UNCHANGED <<scopes, resolved, functions>> /\ resolve_err' \in BOOLEAN
         /\ \E d \in Decls, s \in Nat, t \in Nat :
              /\ d = Call.arg.decl /\ s = Call.arg.symbol
              /\ s \in DOMAIN symbols /\ t \in DOMAIN symbols
              /\ t = scope_lookup_current(d.name)
              /\ IF Len(scopes) = 1 THEN Global(t) ELSE Deep(t)
              /\ Replace(FunctionCalls(d, s, t))
              /\ symbols' \in Seq(SymbolRecord) /\ Len(symbols') = Len(symbols)
              /\ DOMAIN symbols' = DOMAIN symbols /\ KindsKept /\ OnlyDeepAdded
              /\ \A i \in DOMAIN symbols :
                   /\ symbols'[i].which = symbols[i].which
                   /\ symbols'[i].total = symbols[i].total
                   /\ i # s /\ symbols'[i].prototype => symbols[i].prototype
              /\ d.type.fun /\ ~ IsPrototype(d) => ~ symbols'[t].prototype
              /\ ~ resolve_err' =>
                   /\ ~ resolve_err /\ d.type.fun
                   /\ ~ IsPrototype(d) => symbols[t].prototype
<1>1. Calls # <<>> /\ Call.do = "bind" /\ UNCHANGED <<scopes, resolved, functions>>
  BY DEF Redeclare, Ready
<1>2. PICK d \in Decls, s \in Nat :
           /\ d = Call.arg.decl /\ s = Call.arg.symbol /\ d.name \in Names
           /\ s \in DOMAIN symbols
  BY <1>1, BindFacts
<1>3. PICK t \in Nat : t = scope_lookup_current(d.name)
  BY <1>2, LookupCurrent
<1>4. t # NULL
  BY <1>2, <1>3 DEF Redeclare
<1>5. IF Len(scopes) = 1 THEN Global(t) ELSE Deep(t)
  BY <1>2, <1>3, <1>4, LookupCurrent
<1>6. t \in DOMAIN symbols
  BY <1>5 DEF Global, Deep
<1>7. PICK f \in BOOLEAN : f = IsPrototype(d)
  BY FlagSet
<1>8. PICK h \in BOOLEAN :
        h = (symbols[t].prototype /\ ~ (d.type.fun /\ ~ IsPrototype(d)))
  OBVIOUS
<1>9. symbols[t].prototype \in BOOLEAN
  BY <1>6, SymbolFacts DEF SInv
<1>10. /\ symbols' = [symbols EXCEPT ![s].prototype = f, ![t].prototype = h]
       /\ Replace(FunctionCalls(d, s, t))
       /\ Fail(\/ ~ d.type.fun
               \/ symbols[t].type # d.type
               \/ (d.type.fun /\ ~ IsPrototype(d)) /\ ~ symbols[t].prototype)
  BY <1>2, <1>3, <1>7, <1>8 DEF Redeclare
<1>11. h => symbols[t].prototype
  BY <1>8
<1>12. /\ symbols' \in Seq(SymbolRecord) /\ Len(symbols') = Len(symbols)
       /\ DOMAIN symbols' = DOMAIN symbols
       /\ \A i \in DOMAIN symbols :
              /\ symbols'[i].kind = symbols[i].kind
              /\ symbols'[i].which = symbols[i].which
              /\ symbols'[i].total = symbols[i].total
              /\ i # s /\ symbols'[i].prototype => symbols[i].prototype
       /\ symbols'[t].prototype => h
  BY <1>2, <1>6, <1>10, <1>11, SetFlags DEF SInv
<1>13. KindsKept /\ OnlyDeepAdded
  BY <1>12, SameSymbols DEF SInv
<1>14. d.type.fun /\ ~ IsPrototype(d) => ~ symbols'[t].prototype
  BY <1>8, <1>12
<1>15. resolve_err' \in BOOLEAN
  BY <1>10 DEF Fail, SInv, TypesInv
<1>16. ~ resolve_err' =>
         /\ ~ resolve_err /\ d.type.fun
         /\ ~ IsPrototype(d) => symbols[t].prototype
  BY <1>10, Zenon DEF Fail
<1>17. \A i \in DOMAIN symbols :
              /\ symbols'[i].which = symbols[i].which
              /\ symbols'[i].total = symbols[i].total
              /\ i # s /\ symbols'[i].prototype => symbols[i].prototype
  BY <1>12
<1>18. /\ d = Call.arg.decl /\ s = Call.arg.symbol
       /\ s \in DOMAIN symbols /\ t \in DOMAIN symbols
       /\ t = scope_lookup_current(d.name)
       /\ IF Len(scopes) = 1 THEN Global(t) ELSE Deep(t)
       /\ Replace(FunctionCalls(d, s, t))
       /\ symbols' \in Seq(SymbolRecord) /\ Len(symbols') = Len(symbols)
       /\ DOMAIN symbols' = DOMAIN symbols /\ KindsKept /\ OnlyDeepAdded
       /\ \A i \in DOMAIN symbols :
            /\ symbols'[i].which = symbols[i].which
            /\ symbols'[i].total = symbols[i].total
            /\ i # s /\ symbols'[i].prototype => symbols[i].prototype
       /\ d.type.fun /\ ~ IsPrototype(d) => ~ symbols'[t].prototype
       /\ ~ resolve_err' =>
            /\ ~ resolve_err /\ d.type.fun
            /\ ~ IsPrototype(d) => symbols[t].prototype
  BY <1>2, <1>3, <1>5, <1>6, <1>10, <1>12, <1>13, <1>14, <1>16, <1>17
<1> QED
  BY <1>1, <1>15, <1>18

(* Redeclaring a name preserves the invariant.                             *)
LEMMA RedeclarePreserves ==
  ASSUME SInv, Redeclare
  PROVE  SInv'
<1>1. Calls # <<>> /\ Call.do = "bind" /\ UNCHANGED <<scopes, resolved>>
      /\ resolve_err' \in BOOLEAN
  BY RedeclareEffect
<1>2. PICK d \in Decls, s \in Nat, t \in Nat :
              /\ s = Call.arg.symbol /\ s \in DOMAIN symbols
              /\ IF Len(scopes) = 1 THEN Global(t) ELSE Deep(t)
              /\ Replace(FunctionCalls(d, s, t))
              /\ symbols' \in Seq(SymbolRecord) /\ Len(symbols') = Len(symbols)
              /\ DOMAIN symbols' = DOMAIN symbols /\ KindsKept /\ OnlyDeepAdded
              /\ \A i \in DOMAIN symbols : symbols'[i].which = symbols[i].which
  BY RedeclareEffect
<1>3. Len(scopes') = Len(scopes) /\ scopes' \in Seq(Scope)
  BY <1>1 DEF SInv, TypesInv
<1>4. CallsInv' /\ FunctionCalls(d, s, t) \in Seq(AnyCall)
  BY <1>1, <1>2, <1>3, BindCalls
<1>5. TypesInv'
  BY <1>1, <1>2, <1>3, <1>4, TypesReplace DEF SInv
<1>6. ScopesInv'
  BY <1>1, <1>2, ScopesKept DEF SInv
<1>7. SlotsSameBut(NULL)
  BY <1>2 DEF SlotsSameBut
<1>8. Top' = Top /\ Top.num_vars \in Nat
  BY <1>1, LevelFacts DEF Top, SInv
<1>9. SlotsDisjoint' /\ SlotsInv'
  BY <1>2, <1>3, <1>5, <1>7, <1>8, NoSlotGivenHere
<1> QED
  BY <1>4, <1>5, <1>6, <1>9 DEF SInv

(* The total of a function, at the end of its code. *)
LEMMA TotalEffect ==
  ASSUME SInv, SetTotal
  PROVE  /\ Calls # <<>> /\ Call.do = "total" /\ Len(todo) >= 2
         /\ UNCHANGED <<scopes, resolve_err, resolved>> /\ Replace(<<>>)
         /\ \E c \in Total :
              /\ c = Call.arg /\ functions' = Append(functions, c)
              /\ c.symbol \in DOMAIN symbols /\ c.own \in DOMAIN symbols
              /\ Len(todo) = 2 =>
                   Global(c.own) /\ Global(c.symbol) /\ c.symbol <= c.own
              /\ Len(todo) > 2 => Deep(c.own) /\ Deep(c.symbol)
              /\ symbols' \in Seq(SymbolRecord) /\ Len(symbols') = Len(symbols)
              /\ DOMAIN symbols' = DOMAIN symbols /\ KindsKept /\ OnlyDeepAdded
              /\ \A i \in DOMAIN symbols :
                   /\ symbols'[i].kind = symbols[i].kind
                   /\ symbols'[i].which = symbols[i].which
                   /\ symbols'[i].prototype = symbols[i].prototype
                   /\ i # c.symbol => symbols'[i].total = symbols[i].total
              /\ symbols'[c.symbol].total = Top.num_vars
<1>1. Calls # <<>> /\ Call.do = "total" /\ UNCHANGED <<scopes, resolve_err, resolved>>
      /\ Replace(<<>>)
  BY DEF SetTotal, Ready
<1>2. PICK c \in Total : c = Call.arg
  BY <1>1, CallFacts, CallArgument DEF SInv
<1>3. Len(todo) >= 2
  BY <1>1, HeadFacts DEF AtTopLevel
<1>4. Len(todo) = 2 => Global(c.own) /\ Global(c.symbol) /\ c.symbol <= c.own
  <2>1. ASSUME FunctionBody(Calls)
        PROVE  Call = LastOf(Calls)
    <3>1. /\ Len(Calls) \in Nat \ {0} /\ Call = Calls[1]
          /\ 1 \in 1 .. Len(Calls) - 1 \/ 1 = Len(Calls)
      BY <1>1, CallFacts DEF SInv
    <3> QED
      BY <1>1, <2>1, <3>1 DEF FunctionBody, LastOf
  <2>2. ASSUME FunctionBody(Calls)
        PROVE  Global(c.own) /\ Global(c.symbol) /\ c.symbol <= c.own
    BY <1>2, <2>1, <2>2 DEF FunctionBody
  <2> QED
    BY <1>1, <2>2, HeadFacts
<1>5. Len(todo) > 2 => Deep(c.own) /\ Deep(c.symbol)
  <2>1. ASSUME InBody(Call)
        PROVE  Deep(c.own) /\ Deep(c.symbol)
    BY <1>1, <1>2, <2>1 DEF InBody, FlatInBody
  <2> QED
    BY <1>1, <2>1, HeadFacts
<1>6. c.symbol \in DOMAIN symbols /\ c.own \in DOMAIN symbols
  <2>1. Len(todo) = 2 \/ Len(todo) > 2
    BY <1>3, LevelFacts DEF SInv
  <2> QED
    BY <1>4, <1>5, <2>1 DEF Global, Deep
<1>7. PICK w \in Nat : w = Top.num_vars
  BY LevelFacts DEF SInv
<1>8. PICK s \in DOMAIN symbols : s = c.symbol
  BY <1>6
<1>9. symbols' = [symbols EXCEPT ![s].total = w] /\ functions' = Append(functions, c)
  BY <1>2, <1>7, <1>8 DEF SetTotal
<1>10. /\ symbols' \in Seq(SymbolRecord) /\ Len(symbols') = Len(symbols)
       /\ DOMAIN symbols' = DOMAIN symbols
       /\ \A i \in DOMAIN symbols :
              /\ symbols'[i].kind = symbols[i].kind
              /\ symbols'[i].which = symbols[i].which
              /\ symbols'[i].prototype = symbols[i].prototype
              /\ i # s => symbols'[i].total = symbols[i].total
       /\ symbols'[s].total = w
  BY <1>9, PutTotal DEF SInv
<1>11. KindsKept /\ OnlyDeepAdded
  BY <1>10, SameSymbols DEF SInv
<1>12. /\ \A i \in DOMAIN symbols :
              /\ symbols'[i].kind = symbols[i].kind
              /\ symbols'[i].which = symbols[i].which
              /\ symbols'[i].prototype = symbols[i].prototype
              /\ i # c.symbol => symbols'[i].total = symbols[i].total
       /\ symbols'[c.symbol].total = Top.num_vars
  BY <1>7, <1>8, <1>10
<1> QED
  BY <1>1, <1>2, <1>3, <1>4, <1>5, <1>6, <1>9, <1>10, <1>11, <1>12

(* The total of a function's frame changes no slot.                        *)
LEMMA TotalPreserves ==
  ASSUME SInv, SetTotal
  PROVE  SInv'
<1>1. Calls # <<>> /\ Len(todo) >= 2
      /\ UNCHANGED <<scopes, resolve_err, resolved>> /\ Replace(<<>>)
  BY TotalEffect
<1>2. /\ symbols' \in Seq(SymbolRecord) /\ Len(symbols') = Len(symbols)
      /\ DOMAIN symbols' = DOMAIN symbols /\ KindsKept /\ OnlyDeepAdded
      /\ \A i \in DOMAIN symbols : symbols'[i].which = symbols[i].which
  BY TotalEffect
<1>3. Len(scopes') = Len(scopes) /\ scopes' \in Seq(Scope) /\ resolve_err' \in BOOLEAN
  BY <1>1 DEF SInv, TypesInv
<1>4. CallsInv'
  BY <1>1, <1>2, <1>3, BodyDrop
<1>5. TypesInv'
  BY <1>1, <1>2, <1>3, EmptyCalls, TypesReplace DEF SInv
<1>6. ScopesInv'
  BY <1>1, <1>2, ScopesKept DEF SInv
<1>7. SlotsSameBut(NULL)
  BY <1>2 DEF SlotsSameBut
<1>8. Top' = Top /\ Top.num_vars \in Nat
  BY <1>1, LevelFacts DEF Top, SInv
<1>9. SlotsDisjoint' /\ SlotsInv'
  BY <1>2, <1>3, <1>5, <1>7, <1>8, NoSlotGivenHere
<1> QED
  BY <1>4, <1>5, <1>6, <1>9 DEF SInv

(***************************************************************************)
(* The initial states, and the two theorems that rest on SInv.             *)
(***************************************************************************)
LEMMA InitTypes ==
  ASSUME ResolveInit
  PROVE  /\ TypesInv /\ Len(todo) = 1 /\ symbols = <<>> /\ functions = <<>>
         /\ \A i \in DOMAIN todo[1] : todo[1][i].do = "decl"
<1>1. PICK p \in Sources : todo = <<Each("decl", p)>>
  BY DEF ResolveInit
<1>2. p \in Seq(Decls)
  BY SourcesAssumption
<1>3. \A a \in Decls : Do("decl", a) \in AnyCall
  BY DEF Do, AnyCall, Flat
<1>4. PICK calls \in Seq(AnyCall) : calls = Each("decl", p)
  BY <1>2, <1>3, EachTyped
<1>5. \A i \in DOMAIN calls : calls[i].do = "decl"
  BY <1>2, <1>4, EachElements, DoFields
<1>6. /\ todo \in Seq(Seq(AnyCall)) /\ Len(todo) = 1 /\ todo[1] = calls
  BY <1>1, <1>4
<1>7. /\ scopes = <<EmptyScope(0)>> /\ symbols = <<>> /\ resolve_err = FALSE
      /\ resolved = <<>> /\ functions = <<>>
  BY DEF ResolveInit
<1>8. EmptyScope(0) \in Scope
  BY DEF EmptyScope, Scope, NULL
<1>9. scopes \in Seq(Scope) /\ Len(scopes) = 1 /\ scopes # <<>>
  BY <1>7, <1>8
<1>10. /\ symbols \in Seq(SymbolRecord) /\ resolved \in Seq(Nat)
       /\ \A i \in DOMAIN resolved : FALSE
  BY <1>7
<1>11. TypesInv
  BY <1>6, <1>7, <1>9, <1>10 DEF TypesInv
<1> QED
  BY <1>5, <1>6, <1>7, <1>11

(* Resolution starts in the invariant.                                     *)
LEMMA InitSInv ==
  ASSUME ResolveInit
  PROVE  SInv
<1>1. /\ TypesInv /\ Len(todo) = 1 /\ symbols = <<>>
      /\ \A i \in DOMAIN todo[1] : todo[1][i].do = "decl"
  BY InitTypes
<1>2. CallsInv
  BY <1>1, LevelFacts DEF CallsInv, TopLevelInv, BodyInv, AtTopLevel
<1>3. ScopesInv
  <2>1. scopes = <<EmptyScope(0)>>
    BY DEF ResolveInit
  <2>2. \A n \in Names : EmptyScope(0).table[n] = NULL
    BY DEF EmptyScope
  <2>3. \A i \in DOMAIN scopes : scopes[i] = EmptyScope(0)
    BY <2>1
  <2> QED
    BY <2>2, <2>3 DEF ScopesInv
<1>4. DOMAIN symbols = {}
  BY <1>1
<1>5. SlotsInv /\ SlotsDisjoint
  BY <1>4 DEF SlotsInv, SlotsDisjoint
<1> QED
  BY <1>1, <1>2, <1>3, <1>5 DEF SInv

(* A step goes on with resolution, or leaves all but status as it is: the  *)
(* step that crashes does not get to change anything.                      *)
Standing == UNCHANGED <<todo, scopes, symbols, resolve_err, resolved, functions>>

LEMMA StepOrStanding ==
  ASSUME [Next]_vars
  PROVE  Step \/ Standing
BY DEF Next, RedeclareCrash, Returned, vars, Standing

(* Every step preserves the invariant.                                     *)
LEMMA StepSInv ==
  ASSUME SInv, [Next]_vars
  PROVE  SInv'
<1>1. CASE Standing
  <2>1. TypesInv'
    BY <1>1 DEF Standing, SInv, TypesInv
  <2>2. CallsInv'
    <3>1. \A c : FunctionBody(c) => FunctionBody(c)'
      BY SMTT(30), <1>1 DEF Standing, FunctionBody, InBody, FlatInBody, LastOf, Global, Deep,
         Local, Current, IsGlobal
    <3>2. \A c : InBody(c) => InBody(c)'
      BY <1>1 DEF Standing, InBody, FlatInBody, Global, Deep, Local, Current, IsGlobal
    <3>3. \A c : AtTopLevel(c) => AtTopLevel(c)'
      BY <1>1, <3>1 DEF Standing, AtTopLevel, Global, IsGlobal, LastOf
    <3>4. todo' = todo
      BY <1>1 DEF Standing
    <3>5. TopLevelInv'
      BY <3>3, <3>4 DEF SInv, CallsInv, TopLevelInv
    <3>6. BodyInv'
      BY <3>1, <3>2, <3>4 DEF SInv, CallsInv, BodyInv
    <3> QED
      BY <3>5, <3>6 DEF CallsInv
  <2>3. ScopesInv'
    BY <1>1 DEF Standing, SInv, ScopesInv, Global, Deep, IsGlobal
  <2>4. SlotsInv' /\ SlotsDisjoint'
    BY <1>1 DEF Standing, SInv, SlotsInv, SlotsDisjoint, Current, InFrame, SameFrame,
       IsGlobal, Top
  <2> QED
    BY <2>1, <2>2, <2>3, <2>4 DEF SInv
<1> QED
  BY <1>1, StepOrStanding, EnterPreserves, ExitPreserves, UsePreserves, StmtPreserves,
     ParamPreserves, CreatePreserves, BindNewPreserves, RedeclarePreserves,
     TotalPreserves DEF Step

(* In every state of resolution the scopes name symbols that exist, the    *)
(* calls that wait fit the place they are made in, and the next slot of a  *)
(* frame is above all that were given (scope.c, decl_resolve).             *)
THEOREM SInvHolds == Spec => []SInv
<1>1. ResolveInit => SInv
  BY InitSInv
<1>2. SInv /\ [Next]_vars => SInv'
  BY StepSInv
<1> QED
  BY <1>1, <1>2, PTL DEF Spec

(* Resolution goes on until it returns or crashes. *)
StatusInv == status \in {"running", "crashed"}

LEMMA StatusInvHolds == Spec => []StatusInv
<1>1. ResolveInit => StatusInv
  BY DEF ResolveInit, StatusInv
<1>2. StatusInv /\ [Next]_vars => StatusInv'
  BY DEF StatusInv, Next, RedeclareCrash, Returned, vars
<1> QED
  BY <1>1, <1>2, PTL DEF Spec

(* The invariant has the types that the runs check.                        *)
LEMMA TypesOK ==
  ASSUME SInv, StatusInv
  PROVE  TypeOK
<1>1. Len(todo) = Len(scopes) /\ scopes # <<>>
  BY DEF SInv, TypesInv
<1>2. ASSUME NEW i \in DOMAIN scopes
      PROVE  /\ scopes[i].num_vars \in Nat
             /\ \A n \in Names : scopes[i].table[n] \in DOMAIN symbols \cup {NULL}
  <2>1. scopes[i] \in Scope
    BY <1>2 DEF SInv, TypesInv
  <2>2. scopes[i].num_vars \in Nat
    BY <2>1 DEF Scope
  <2>3. ASSUME NEW n \in Names
        PROVE  scopes[i].table[n] \in DOMAIN symbols \cup {NULL}
    BY <1>2 DEF SInv, ScopesInv, Global, Deep
  <2> QED
    BY <2>2, <2>3
<1>3. \A s \in DOMAIN symbols :
       /\ symbols[s].kind \in {"GLOBAL", "LOCAL", "PARAM"}
       /\ symbols[s].which \in Nat \cup {Unset}
       /\ symbols[s].total \in Nat
       /\ symbols[s].prototype \in BOOLEAN
  BY SymbolFacts DEF SInv
<1>4. /\ resolve_err \in BOOLEAN
      /\ \A i \in DOMAIN resolved : resolved[i] \in DOMAIN symbols \cup {NULL}
  BY DEF SInv, TypesInv
<1> QED
  BY <1>1, <1>2, <1>3, <1>4 DEF TypeOK, StatusInv

(* The tables of the open scopes, and every identifier resolved, point to  *)
(* symbols that exist; a scope is open for every list of calls to make.    *)
THEOREM ResolveTyped == Spec => []TypeOK
<1>1. SInv /\ StatusInv => TypeOK
  BY TypesOK
<1> QED
  BY <1>1, SInvHolds, StatusInvHolds, PTL

(* Two variables of one function never share a slot of its stack frame,    *)
(* in whatever blocks, branches, loops and prototypes they are declared.   *)
THEOREM SlotsNeverShared == Spec => []SlotsDisjoint
<1>1. SInv => SlotsDisjoint
  BY DEF SInv
<1> QED
  BY <1>1, SInvHolds, PTL

(***************************************************************************)
(* What a step may change without touching a frame that is laid out: a     *)
(* slot is given to t, and u is the only global symbol it writes.          *)
(***************************************************************************)
ParamsKept ==
  \A s \in DOMAIN symbols :
    symbols[s].kind = "PARAM" => symbols'[s].which = symbols[s].which

GlobalsKeptBut(u) ==
  \A s \in DOMAIN symbols : IsGlobal(s) /\ s # u =>
    /\ symbols'[s].total = symbols[s].total
    /\ symbols'[s].prototype => symbols[s].prototype

(* A global declaration stands between the frame of f and t. *)
Separated(t, f) == \E g \in DOMAIN symbols : IsGlobal(g) /\ g <= t /\ f.own < g

(* A frame that fits goes on fitting, when slots are given in another      *)
(* frame or below its total and only other symbols get a total.            *)
LEMMA FrameKept ==
  ASSUME TypesInv, TypesInv', KindsKept, ParamsKept, NEW t, SlotsSameBut(t),
         NEW u, GlobalsKeptBut(u), NEW f \in Total, f.own \in DOMAIN symbols,
         Global(f.symbol), f.symbol # u, FrameOf(f),
         t \in DOMAIN symbols' /\ symbols'[t].kind # "GLOBAL" => Separated(t, f)
  PROVE  FrameOf(f)'
<1>1. /\ symbols'[f.symbol].total = symbols[f.symbol].total
      /\ ~ symbols'[f.symbol].prototype
  BY DEF GlobalsKeptBut, Global, FrameOf
<1>2. ASSUME NEW k \in DOMAIN f.decl.params
      PROVE  /\ f.own + k \in DOMAIN symbols' /\ symbols'[f.own + k].kind = "PARAM"
             /\ symbols'[f.own + k].which = k - 1
  <2>1. /\ f.own + k \in DOMAIN symbols /\ symbols[f.own + k].kind = "PARAM"
        /\ symbols[f.own + k].which = k - 1
    BY <1>2 DEF FrameOf
  <2> QED
    BY <2>1 DEF KindsKept, ParamsKept
<1>3. ASSUME NEW s \in DOMAIN symbols', InFrame(s)', SameFrame(s, f.own)'
      PROVE  symbols'[s].which < symbols'[f.symbol].total
  <2>1. s # t
    <3>1. SUFFICES ASSUME s = t PROVE FALSE
      OBVIOUS
    <3>2. symbols'[t].kind # "GLOBAL"
      BY <1>3, <3>1 DEF InFrame, IsGlobal
    <3>3. PICK g \in DOMAIN symbols : IsGlobal(g) /\ g <= t /\ f.own < g
      BY <1>3, <3>1, <3>2 DEF Separated
    <3>4. g \in DOMAIN symbols' /\ IsGlobal(g)'
      BY <3>3 DEF KindsKept, IsGlobal
    <3>5. g <= t <=> g <= f.own
      BY <1>3, <3>1, <3>4 DEF SameFrame
    <3>6. g \in Nat /\ f.own \in Nat
      BY SymbolFacts
    <3> QED
      BY <3>3, <3>5, <3>6
  <2>2. s \in DOMAIN symbols /\ InFrame(s) /\ symbols'[s].which = symbols[s].which
    BY <1>3, <2>1 DEF SlotsSameBut, InFrame, IsGlobal, KindsKept
  <2>3. SameFrame(s, f.own)
    BY <1>3 DEF SameFrame, KindsKept, IsGlobal
  <2>4. symbols[s].which < symbols[f.symbol].total
    BY <2>2, <2>3 DEF FrameOf
  <2> QED
    BY <1>1, <2>2, <2>4
<1> QED
  BY <1>1, <1>2, <1>3 DEF FrameOf

(* The finished functions, in a step that finishes none. *)
LEMMA FinishedKept ==
  ASSUME SInv, FinishedInv, TypesInv', KindsKept, ParamsKept,
         NEW t, SlotsSameBut(t), NEW u, GlobalsKeptBut(u),
         UNCHANGED functions, resolve_err => resolve_err',
         \A i \in DOMAIN functions : IsDefinition(functions[i]) =>
           /\ functions[i].symbol # u
           /\ t \in DOMAIN symbols' /\ symbols'[t].kind # "GLOBAL" =>
                Separated(t, functions[i])
  PROVE  FinishedTyped' /\ FramesInv'
<1>1. ASSUME NEW i \in DOMAIN functions
      PROVE  /\ functions[i] \in Total /\ functions[i].own \in DOMAIN symbols
             /\ IsDefinition(functions[i]) =>
                  /\ Global(functions[i].symbol)
                  /\ functions[i].symbol <= functions[i].own
                  /\ ~ resolve_err => FrameOf(functions[i])
  BY DEF FinishedInv, FinishedTyped, FramesInv
<1>2. ASSUME NEW i \in DOMAIN functions
      PROVE  /\ functions'[i].own \in DOMAIN symbols'
             /\ IsDefinition(functions[i])' =>
                  /\ IsDefinition(functions[i])
                  /\ Global(functions[i].symbol)'
                  /\ functions'[i].symbol <= functions'[i].own
                  /\ ~ resolve_err' => FrameOf(functions[i])'
  <2>1. PICK f \in Total : f = functions[i] /\ f = functions'[i]
    BY <1>1
  <2>2. f.own \in DOMAIN symbols /\ f.own \in DOMAIN symbols'
    BY <1>1, <2>1 DEF KindsKept
  <2>3. IsDefinition(f)' => IsDefinition(f)
    BY <2>2 DEF IsDefinition, IsGlobal, KindsKept
  <2>4. ASSUME IsDefinition(f)
        PROVE  /\ Global(f.symbol) /\ Global(f.symbol)' /\ f.symbol <= f.own
               /\ ~ resolve_err' => FrameOf(f)'
    <3>1. /\ Global(f.symbol) /\ f.symbol <= f.own /\ f.symbol # u
          /\ ~ resolve_err => FrameOf(f)
          /\ t \in DOMAIN symbols' /\ symbols'[t].kind # "GLOBAL" => Separated(t, f)
      BY <1>1, <2>1, <2>4
    <3>2. FrameOf(f) => FrameOf(f)'
      BY <2>2, <3>1, FrameKept DEF SInv
    <3> QED
      BY <3>1, <3>2, SymbolsKept
  <2>5. IsDefinition(functions[i])' <=> IsDefinition(f)'
    BY <2>1 DEF IsDefinition, IsGlobal
  <2>6. Global(functions[i].symbol)' <=> Global(f.symbol)'
    BY <2>1 DEF Global, IsGlobal
  <2>7. FrameOf(functions[i])' <=> FrameOf(f)'
    BY <2>1 DEF FrameOf, SameFrame
  <2> QED
    BY <2>1, <2>2, <2>3, <2>4, <2>5, <2>6, <2>7
<1>3. FinishedTyped'
  BY <1>2 DEF FinishedTyped, FinishedInv
<1>4. FramesInv'
  BY <1>2 DEF FramesInv
<1> QED
  BY <1>3, <1>4

(* A function's calls and what they say of it. *)
LEMMA PendingFacts ==
  ASSUME TypesInv, NEW calls \in Seq(AnyCall), FunctionBody(calls)
  PROVE  \E c \in Total :
           /\ c = LastOf(calls).arg
           /\ Global(c.own) /\ Current(c.own) /\ Global(c.symbol)
           /\ c.symbol <= c.own /\ c.own \in Nat /\ c.own <= Len(symbols)
           /\ c.own \in DOMAIN symbols /\ c.symbol \in DOMAIN symbols
           /\ Made(c) \in Nat /\ Len(symbols) = c.own + Made(c)
           /\ Len(c.decl.params) \in Nat
           /\ DOMAIN c.decl.params = 1 .. Len(c.decl.params)
<1>1. Len(calls) \in 1 .. Len(calls) /\ DOMAIN calls = 1 .. Len(calls)
  BY EmptySeq DEF FunctionBody
<1>2. LastOf(calls) \in AnyCall /\ LastOf(calls).do = "total"
  BY <1>1 DEF LastOf, FunctionBody
<1>3. PICK c \in Total : c = LastOf(calls).arg
  BY <1>2, CallArgument
<1>4. Global(c.own) /\ Current(c.own) /\ Global(c.symbol) /\ c.symbol <= c.own
  BY <1>3 DEF FunctionBody
<1>5. /\ c.own \in DOMAIN symbols /\ c.symbol \in DOMAIN symbols
      /\ c.own \in Nat /\ c.own <= Len(symbols) /\ Len(symbols) \in Nat
  BY <1>4, SymbolFacts, LevelFacts DEF Global
<1>6. Made(c) \in Nat /\ Len(symbols) = c.own + Made(c)
  <2>1. PICK n \in Nat, o \in Nat : n = Len(symbols) /\ o = c.own /\ o <= n
    BY <1>5
  <2>2. Made(c) = n - o
    BY <2>1 DEF Made
  <2> QED
    BY <2>1, <2>2
<1>7. c.decl \in Decls
  BY DEF Total
<1>8. c.decl.params \in Seq(Names)
  BY <1>7, SourcesAssumption
<1>9. Len(c.decl.params) \in Nat /\ DOMAIN c.decl.params = 1 .. Len(c.decl.params)
  BY <1>8
<1> QED
  BY <1>3, <1>4, <1>5, <1>6, <1>9

(* No parameter of the function remains to be made. *)
ParamsDone(calls) ==
  ~ resolve_err => Made(LastOf(calls).arg) >= Len(LastOf(calls).arg.decl.params)

(* When a function's next call is no parameter's, its parameters are       *)
(* done.                                                                   *)
LEMMA DoneWhenNoParam ==
  ASSUME TypesInv, NEW calls \in Seq(AnyCall), FunctionBody(calls),
         PendingInv(calls), calls[1].do # "param"
  PROVE  ParamsDone(calls)
<1>1. PICK c \in Total :
           /\ c = LastOf(calls).arg /\ Made(c) \in Nat /\ Len(c.decl.params) \in Nat
  BY PendingFacts
<1>2. 1 \in DOMAIN calls
  BY EmptySeq DEF FunctionBody
<1>3. ASSUME ~ resolve_err
      PROVE  ~ 1 <= Len(c.decl.params) - Made(c)
  BY <1>1, <1>2, <1>3 DEF PendingInv, ParamsInv
<1> QED
  BY <1>1, <1>3 DEF ParamsDone

(* The function being resolved, in a step that makes no parameter of it.   *)
LEMMA PendingKept ==
  ASSUME SInv, FinishedTyped, KindsKept, ParamsKept, GlobalsKeptBut(NULL),
         Len(symbols') \in Nat, Len(symbols') >= Len(symbols),
         UNCHANGED functions, resolve_err => resolve_err',
         NEW calls \in Seq(AnyCall), FunctionBody(calls), PendingInv(calls),
         NEW new \in Seq(AnyCall), LastOf(new) = LastOf(calls),
         \/ new = calls /\ Len(symbols') = Len(symbols)
         \/ /\ ParamsDone(calls)
            /\ ~ resolve_err => \A i \in DOMAIN new : new[i].do # "param"
  PROVE  /\ PendingInv(new)'
         /\ ParamsDone(calls) => ParamsDone(new)'
<1>1. PICK c \in Total :
           /\ c = LastOf(calls).arg
           /\ Global(c.own) /\ Global(c.symbol)
           /\ c.own \in Nat /\ c.own <= Len(symbols)
           /\ c.own \in DOMAIN symbols /\ c.symbol \in DOMAIN symbols
           /\ Made(c) \in Nat /\ Len(symbols) = c.own + Made(c)
           /\ Len(c.decl.params) \in Nat
           /\ DOMAIN c.decl.params = 1 .. Len(c.decl.params)
  BY PendingFacts DEF SInv
<1>2. PICK m \in Nat : m = Made(c)
  BY <1>1
<1>3. PICK n \in Nat : n = Made(c)' /\ n >= m /\ (Len(symbols') = Len(symbols) => n = m)
  <2>1. Made(c)' = Len(symbols') - c.own
    BY DEF Made
  <2> QED
    BY <1>1, <1>2, <2>1
<1>4. PICK p \in Nat : p = Len(c.decl.params)
  BY <1>1
<1>5. \A i \in DOMAIN functions : IsDefinition(functions[i])' => IsDefinition(functions[i])
  BY DEF FinishedTyped, IsDefinition, IsGlobal, KindsKept
<1>6. \A i \in DOMAIN functions : IsDefinition(functions[i]) => functions[i].own < c.own
  BY <1>1 DEF PendingInv
<1>7. ASSUME ~ resolve_err'
      PROVE  /\ ParamsInv(new)'
             /\ c.decl.code # <<>> => ~ symbols'[c.symbol].prototype
             /\ \A i \in DOMAIN functions : IsDefinition(functions[i]) =>
                   functions[i].symbol # c.symbol
  <2>1. /\ \A k \in DOMAIN c.decl.params : k <= m =>
            symbols[c.own + k].kind = "PARAM" /\ symbols[c.own + k].which = k - 1
        /\ \A i \in DOMAIN calls : calls[i].do = "param" <=> i <= p - m
        /\ c.decl.code # <<>> => ~ symbols[c.symbol].prototype
        /\ \A i \in DOMAIN functions : IsDefinition(functions[i]) =>
              functions[i].symbol # c.symbol
    BY <1>1, <1>2, <1>4, <1>7 DEF PendingInv, ParamsInv
  <2>2. ParamsDone(calls) => m >= p
    BY <1>1, <1>2, <1>4, <1>7 DEF ParamsDone
  <2>3. ASSUME NEW k \in 1 .. p, k <= n
        PROVE  symbols'[c.own + k].kind = "PARAM" /\ symbols'[c.own + k].which = k - 1
    <3>1. k <= m
      BY <1>3, <2>2, <2>3
    <3>2. symbols[c.own + k].kind = "PARAM" /\ symbols[c.own + k].which = k - 1
      BY <1>1, <1>4, <2>1, <3>1
    <3>3. c.own + k \in DOMAIN symbols
      BY SMTT(30), <1>1, <1>2, <3>1, LevelFacts DEF SInv
    <3> QED
      BY <3>2, <3>3 DEF KindsKept, ParamsKept
  <2>4. ASSUME NEW i \in DOMAIN new
        PROVE  new[i].do = "param" <=> i <= p - n
    <3>1. i \in Nat /\ i >= 1
      OBVIOUS
    <3>2. CASE new = calls /\ Len(symbols') = Len(symbols)
      BY <1>3, <2>1, <3>2
    <3>3. CASE /\ ParamsDone(calls)
               /\ ~ resolve_err => \A k \in DOMAIN new : new[k].do # "param"
      BY <1>3, <1>7, <2>2, <3>1, <3>3
    <3> QED
      BY <3>2, <3>3
  <2>5. ParamsInv(new)'
    BY <1>1, <1>3, <1>4, <2>3, <2>4 DEF ParamsInv
  <2>6. c.decl.code # <<>> => ~ symbols'[c.symbol].prototype
    <3>1. c.symbol # NULL
      BY <1>1, SymbolFacts DEF SInv
    <3> QED
      BY <1>1, <2>1, <3>1 DEF GlobalsKeptBut, Global
  <2> QED
    BY <2>1, <2>5, <2>6
<1>8. PendingInv(new)'
  <2>1. LastOf(new).arg = c
    BY <1>1
  <2> QED
    BY <1>5, <1>6, <1>7, <2>1 DEF PendingInv, LastOf
<1>9. ParamsDone(calls) => ParamsDone(new)'
  <2>1. ASSUME ParamsDone(calls), ~ resolve_err'
        PROVE  n >= p
    BY <1>1, <1>2, <1>3, <1>4, <2>1 DEF ParamsDone
  <2>2. ParamsDone(new)' <=> (~ resolve_err' => n >= p)
    BY <1>1, <1>3, <1>4 DEF ParamsDone, LastOf
  <2> QED
    BY <2>1, <2>2
<1> QED
  BY <1>8, <1>9

(* Inside of functions there is one whose calls wait in todo[2]. *)
LEMMA PendingFunction ==
  ASSUME SInv, ResolvingInv, Len(todo) >= 2, Calls # <<>> \/ Len(todo) > 2
  PROVE  /\ FunctionBody(todo[2]) /\ PendingInv(todo[2])
         /\ todo[2] \in Seq(AnyCall) /\ todo[1] \in Seq(AnyCall)
         /\ \A k \in DOMAIN todo[1] : todo[1][k].do = "decl"
         /\ Calls # <<>> /\ Call.do # "param" => ParamsDone(todo[2])
         /\ Len(todo) > 2 => ParamsDone(todo[2])
         /\ Len(todo) = 2 \/ Len(todo) > 2
<1>1. /\ Len(todo) \in Nat /\ Len(scopes) = Len(todo) /\ Calls = todo[Len(todo)]
      /\ DOMAIN todo = 1 .. Len(todo) /\ \A i \in 1 .. Len(todo) : todo[i] \in Seq(AnyCall)
  BY LevelFacts DEF SInv
<1>2. Len(todo) = 2 \/ Len(todo) > 2
  BY <1>1
<1>3. todo[2] # <<>> /\ FunctionBody(todo[2])
  BY <1>1, <1>2 DEF SInv, CallsInv, BodyInv
<1>4. PendingInv(todo[2])
  BY <1>3 DEF ResolvingInv
<1>5. 1 \in 1 .. Len(todo) /\ 2 \in 1 .. Len(todo)
  BY <1>1
<1>6. todo[2] \in Seq(AnyCall) /\ todo[1] \in Seq(AnyCall)
  BY <1>1, <1>5
<1>7. \A k \in DOMAIN todo[1] : todo[1][k].do = "decl"
  <2>1. Len(scopes) # 1
    BY <1>1, <1>2
  <2> QED
    BY <2>1 DEF SInv, CallsInv, TopLevelInv, AtTopLevel
<1>8. CASE Len(todo) = 2
  <2>1. Calls = todo[2] /\ Call = todo[2][1]
    <3>1. Calls # <<>>
      BY <1>8
    <3> QED
      BY <1>1, <1>8, <3>1, CallFacts DEF SInv
  <2>2. Call.do # "param" => ParamsDone(todo[2])
    BY <1>3, <1>4, <1>6, <2>1, DoneWhenNoParam DEF SInv
  <2>3. ~ Len(todo) > 2
    BY <1>8
  <2> QED
    BY <1>2, <1>3, <1>4, <1>6, <1>7, <2>2, <2>3
<1>9. CASE Len(todo) > 2
  <2>1. Len(scopes) # 2
    BY <1>1, <1>9
  <2>2. ~ resolve_err => ~ Made(LastOf(todo[2]).arg) < Len(LastOf(todo[2]).arg.decl.params)
    BY <1>3, <2>1, <1>9 DEF ResolvingInv
  <2>3. PICK c \in Total :
          c = LastOf(todo[2]).arg /\ Made(c) \in Nat /\ Len(c.decl.params) \in Nat
    BY <1>3, <1>6, PendingFacts DEF SInv
  <2>4. ParamsDone(todo[2])
    BY <2>2, <2>3 DEF ParamsDone
  <2> QED
    BY <1>2, <1>3, <1>4, <1>6, <1>7, <2>4
<1> QED
  BY <1>2, <1>8, <1>9

(* What is current is in none of the finished frames. *)
LEMMA CurrentSeparated ==
  ASSUME SInv, FinishedTyped, ResolvingInv, Calls # <<>>, Len(todo) >= 2,
         NEW t \in Nat, t > Len(symbols) \/ (t \in DOMAIN symbols /\ Current(t))
  PROVE  \A i \in DOMAIN functions : IsDefinition(functions[i]) =>
           Separated(t, functions[i])
<1>1. /\ FunctionBody(todo[2]) /\ PendingInv(todo[2]) /\ todo[2] \in Seq(AnyCall)
  BY PendingFunction
<1>2. PICK c \in Total :
           /\ c = LastOf(todo[2]).arg /\ Global(c.own)
           /\ c.own \in Nat /\ c.own <= Len(symbols) /\ c.own \in DOMAIN symbols
  BY <1>1, PendingFacts DEF SInv
<1>3. c.own <= t
  BY <1>2, LevelFacts DEF Current, Global, SInv
<1>4. \A i \in DOMAIN functions : IsDefinition(functions[i]) => functions[i].own < c.own
  BY <1>1, <1>2 DEF PendingInv
<1> QED
  BY <1>2, <1>3, <1>4 DEF Separated, Global

(* When they are done, none is among its calls.                            *)
LEMMA NoParamsLeft ==
  ASSUME TypesInv, NEW calls \in Seq(AnyCall), FunctionBody(calls),
         PendingInv(calls), ParamsDone(calls), ~ resolve_err
  PROVE  \A i \in DOMAIN calls : calls[i].do # "param"
<1>1. PICK c \in Total : c = LastOf(calls).arg /\ Made(c) \in Nat
                         /\ Len(c.decl.params) \in Nat
  BY PendingFacts
<1>2. PICK m \in Nat, p \in Nat : m = Made(c) /\ p = Len(c.decl.params) /\ m >= p
  BY <1>1 DEF ParamsDone
<1>3. ASSUME NEW i \in DOMAIN calls
      PROVE  calls[i].do # "param"
  <2>1. calls[i].do = "param" <=> i <= p - m
    BY <1>1, <1>2 DEF PendingInv, ParamsInv
  <2>2. i \in Nat /\ i >= 1
    OBVIOUS
  <2> QED
    BY <1>2, <2>1, <2>2
<1> QED
  BY <1>3

(* A step inside of a function that makes none of its parameters. *)
LEMMA ResolvingInside ==
  ASSUME SInv, FinishedTyped, ResolvingInv, Len(todo) >= 2,
         Calls # <<>> \/ Len(todo) > 2,
         Call.do # "param" \/ Len(todo) > 2,
         todo'[1] = todo[1], NEW body \in Seq(AnyCall), body = todo'[2],
         LastOf(body) = LastOf(todo[2]),
         body = todo[2] \/ (~ resolve_err => \A i \in DOMAIN body : body[i].do # "param"),
         KindsKept, ParamsKept, GlobalsKeptBut(NULL),
         Len(symbols') \in Nat, Len(symbols') >= Len(symbols),
         UNCHANGED functions, resolve_err => resolve_err'
  PROVE  ResolvingInv' /\ OlderInv'
<1>1. /\ FunctionBody(todo[2]) /\ PendingInv(todo[2])
      /\ todo[2] \in Seq(AnyCall) /\ todo[1] \in Seq(AnyCall)
      /\ \A k \in DOMAIN todo[1] : todo[1][k].do = "decl"
      /\ ParamsDone(todo[2])
  BY PendingFunction
<1>2. PICK calls \in Seq(AnyCall) : calls = todo[2]
  BY <1>1
<1>3. ~ resolve_err => \A i \in DOMAIN body : body[i].do # "param"
  BY <1>1, <1>2, NoParamsLeft DEF SInv
<1>4. PendingInv(body)' /\ ParamsDone(body)'
  <2>1. /\ FunctionBody(calls) /\ PendingInv(calls) /\ ParamsDone(calls)
        /\ LastOf(body) = LastOf(calls)
    BY <1>1, <1>2
  <2>2. ParamsDone(calls) => ParamsDone(body)'
    BY <1>3, <2>1, PendingKept
  <2>3. PendingInv(body)'
    BY <1>3, <2>1, PendingKept
  <2> QED
    BY <2>1, <2>2, <2>3
<1>5. OlderInv'
  BY <1>1 DEF OlderInv
<1>6. ResolvingInv'
  <2>1. \A k \in DOMAIN todo'[1] : todo'[1][k].do # "scope"
    BY <1>1
  <2>2. PendingInv(todo[2])'
    BY <1>4
  <2>3. ~ (~ resolve_err /\ Made(LastOf(todo[2]).arg)
                             < Len(LastOf(todo[2]).arg.decl.params))'
    <3>1. PICK c \in Total : /\ c = LastOf(todo[2]).arg /\ c.own \in Nat
                             /\ Len(c.decl.params) \in Nat
      BY <1>1, PendingFacts DEF SInv
    <3>2. PICK n \in Int : n = Len(symbols') - c.own /\ n = Made(c)'
      BY <3>1 DEF Made
    <3>3. LastOf(body).arg = c /\ LastOf(todo'[2]).arg = c
      BY <3>1
    <3>4. ~ resolve_err' => n >= Len(c.decl.params)
      BY <1>4, <3>2, <3>3 DEF ParamsDone, LastOf
    <3>5. ~ (~ resolve_err' /\ n < Len(c.decl.params))
      BY <3>1, <3>4
    <3> QED
      BY <3>2, <3>3, <3>5 DEF LastOf, Made
  <2> QED
    BY <2>1, <2>2, <2>3 DEF ResolvingInv
<1> QED
  BY <1>5, <1>6

(* A call of a function's body that is replaced by the calls it makes      *)
(* leaves the function being resolved, and those finished, as they were.   *)
LEMMA ResolvingReplace ==
  ASSUME SInv, FinishedTyped, ResolvingInv, Calls # <<>>, Len(todo) >= 2,
         Call.do \notin {"param", "total"} \/ Len(todo) > 2,
         NEW new \in Seq(AnyCall), Replace(new),
         \A k \in 1 .. Len(new) : new[k].do # "param",
         KindsKept, ParamsKept, GlobalsKeptBut(NULL),
         Len(symbols') \in Nat, Len(symbols') >= Len(symbols),
         UNCHANGED functions, resolve_err => resolve_err'
  PROVE  ResolvingInv' /\ OlderInv'
<1>1. /\ FunctionBody(todo[2]) /\ PendingInv(todo[2])
      /\ todo[2] \in Seq(AnyCall) /\ todo[1] \in Seq(AnyCall)
      /\ \A k \in DOMAIN todo[1] : todo[1][k].do = "decl"
      /\ ParamsDone(todo[2])
      /\ Len(todo) = 2 \/ Len(todo) > 2
  BY PendingFunction
<1>2. /\ Len(todo') = Len(todo) /\ Len(todo) \in Nat
      /\ \A i \in 1 .. Len(todo) - 1 : todo'[i] = todo[i]
  BY ReplaceFacts, LevelFacts DEF SInv
<1>3. todo'[1] = todo[1]
  BY <1>1, <1>2
<1>4. \E body \in Seq(AnyCall) :
        /\ body = todo'[2] /\ LastOf(body) = LastOf(todo[2])
        /\ \/ body = todo[2]
           \/ ~ resolve_err => \A i \in DOMAIN body : body[i].do # "param"
  <2>1. CASE Len(todo) > 2
    <3>1. 2 \in 1 .. Len(todo) - 1
      BY <1>2, <2>1
    <3>2. todo'[2] = todo[2]
      BY <1>2, <3>1
    <3> QED
      BY <1>1, <3>2
  <2>2. CASE Len(todo) = 2
    <3>1. Calls = todo[2] /\ ~ Len(todo) > 2
      BY <2>2, LevelFacts DEF SInv
    <3>2. /\ Len(Calls) \in Nat \ {0} /\ DOMAIN Calls = 1 .. Len(Calls) /\ Call = Calls[1]
      BY CallFacts DEF SInv
    <3>3. Len(Calls) >= 2
      <4>1. Len(Calls) # 1
        BY <1>1, <3>1, <3>2 DEF FunctionBody, LastOf
      <4> QED
        BY <3>2, <4>1
    <3>4. PICK t \in Seq(AnyCall) :
              /\ t = todo'[2]
              /\ Len(t) = Len(new) + Len(Calls) - 1
              /\ \A i \in 1 .. Len(new) : t[i] = new[i]
              /\ \A i \in 1 .. Len(Calls) - 1 : t[Len(new) + i] = Calls[i + 1]
      BY <2>2, ReplaceFacts DEF SInv
    <3>5. Len(new) \in Nat /\ Len(t) \in Nat
      OBVIOUS
    <3>6. LastOf(t) = LastOf(Calls)
      <4>1. Len(Calls) - 1 \in 1 .. Len(Calls) - 1
        BY <3>2, <3>3
      <4>2. t[Len(new) + (Len(Calls) - 1)] = Calls[(Len(Calls) - 1) + 1]
        BY <3>4, <4>1
      <4>3. Len(t) = Len(new) + (Len(Calls) - 1) /\ (Len(Calls) - 1) + 1 = Len(Calls)
        BY <3>2, <3>4, <3>5
      <4> QED
        BY <4>2, <4>3 DEF LastOf
    <3>7. ~ resolve_err => \A i \in DOMAIN t : t[i].do # "param"
      <4>1. SUFFICES ASSUME ~ resolve_err, NEW i \in 1 .. Len(t)
                     PROVE  t[i].do # "param"
        <5>1. DOMAIN t = 1 .. Len(t)
          OBVIOUS
        <5> QED
          BY <5>1
      <4>2. CASE i <= Len(new)
        BY <3>4, <3>5, <4>2
      <4>3. CASE ~ i <= Len(new)
        <5>1. PICK k \in 1 .. Len(Calls) - 1 : i = Len(new) + k
          <6>1. i - Len(new) \in 1 .. Len(Calls) - 1
            BY <3>2, <3>4, <3>5, <4>3
          <6>2. i = Len(new) + (i - Len(new))
            BY <3>5
          <6> QED
            BY <6>1, <6>2
        <5>2. t[i] = Calls[k + 1] /\ k + 1 \in DOMAIN Calls /\ k + 1 > 1
          BY <3>2, <3>4, <5>1
        <5> QED
          BY <1>1, <3>1, <4>1, <5>2, NoParamsLeft DEF SInv
      <4> QED
        BY <4>2, <4>3
    <3> QED
      BY <3>1, <3>4, <3>6, <3>7
  <2> QED
    BY <1>1, <2>1, <2>2
<1>5. PICK body \in Seq(AnyCall) :
        /\ body = todo'[2] /\ LastOf(body) = LastOf(todo[2])
        /\ \/ body = todo[2]
           \/ ~ resolve_err => \A i \in DOMAIN body : body[i].do # "param"
  BY <1>4
<1> QED
  BY <1>3, <1>5, ResolvingInside

(***************************************************************************)
(* Each action preserves FInv.                                             *)
(***************************************************************************)
LEMMA KeptWhenSame ==
  ASSUME TypesInv, UNCHANGED symbols
  PROVE  /\ KindsKept /\ OnlyDeepAdded /\ ParamsKept /\ GlobalsKeptBut(NULL)
         /\ SlotsSameBut(NULL) /\ Len(symbols') \in Nat /\ Len(symbols') = Len(symbols)
         /\ Len(symbols') >= Len(symbols) /\ DOMAIN symbols' = DOMAIN symbols
BY LevelFacts DEF KindsKept, OnlyDeepAdded, ParamsKept, GlobalsKeptBut, SlotsSameBut

(* The symbol that a finished definition keeps its total with is not       *)
(* newer than its own.                                                     *)
LEMMA DefinitionSymbol ==
  ASSUME TypesInv, FinishedTyped, NEW i \in DOMAIN functions, IsDefinition(functions[i])
  PROVE  /\ functions[i].symbol # NULL /\ functions[i].symbol \in Nat
         /\ functions[i].own \in Nat /\ functions[i].own <= Len(symbols)
         /\ functions[i].symbol <= functions[i].own
BY SymbolFacts DEF FinishedTyped, Global

(* NULL is no symbol.                                                      *)
LEMMA NullNoSymbol ==
  ASSUME TypesInv'
  PROVE  NULL \notin DOMAIN symbols'
BY DEF TypesInv, NULL

(* No slot is given, and no global symbol changes but one too new. *)
LEMMA FinishedSame ==
  ASSUME SInv, FinishedInv, TypesInv', KindsKept, ParamsKept, SlotsSameBut(NULL),
         NEW u, GlobalsKeptBut(u), UNCHANGED functions, resolve_err => resolve_err',
         \A i \in DOMAIN functions : IsDefinition(functions[i]) =>
           functions[i].symbol # u
  PROVE  FinishedTyped' /\ FramesInv'
BY NullNoSymbol, FinishedKept

(* The finished functions stay older than what is resolved now.            *)
LEMMA OlderKept ==
  ASSUME FinishedTyped, KindsKept, UNCHANGED functions,
         \A i \in DOMAIN functions : IsDefinition(functions[i]) =>
           functions[i].own < Len(symbols')
  PROVE  OlderInv'
<1>1. \A i \in DOMAIN functions : IsDefinition(functions[i])' => IsDefinition(functions[i])
  BY DEF FinishedTyped, IsDefinition, IsGlobal, KindsKept
<1> QED
  BY <1>1 DEF OlderInv

(* scope_enter preserves the invariant of the frames.                      *)
LEMMA EnterFInv ==
  ASSUME FInv, SInv', scope_enter
  PROVE  FInv'
<1>1. PICK old, t \in Seq(AnyCall), arg \in Seq(Flat) :
           /\ old = Calls /\ old = todo[Len(todo)] /\ old # <<>>
           /\ arg = Call.arg /\ Call.do = "scope" /\ Call = old[1]
           /\ Len(t) = Len(old) - 1 /\ Len(old) \in Nat \ {0}
           /\ \A i \in 1 .. Len(t) : t[i] = old[i + 1]
           /\ Len(todo') = Len(todo) + 1
           /\ \A i \in 1 .. Len(todo) - 1 : todo'[i] = todo[i]
           /\ todo'[Len(todo)] = t /\ todo'[Len(todo) + 1] = arg
  BY EnterFacts DEF FInv
<1>2. UNCHANGED <<symbols, resolve_err, resolved, functions>>
  BY DEF scope_enter
<1>3. /\ KindsKept /\ OnlyDeepAdded /\ ParamsKept /\ GlobalsKeptBut(NULL)
      /\ SlotsSameBut(NULL) /\ Len(symbols') \in Nat /\ Len(symbols') = Len(symbols)
      /\ Len(symbols') >= Len(symbols)
  BY <1>2, KeptWhenSame DEF FInv, SInv
<1>4. FinishedTyped' /\ FramesInv'
  BY <1>2, <1>3, DefinitionSymbol, FinishedSame DEF FInv, SInv, FinishedInv
<1>5. Len(todo) \in Nat \ {0} /\ Len(scopes) = Len(todo) /\ DOMAIN todo[1] = 1 .. Len(todo[1])
  BY LevelFacts DEF FInv, SInv
<1>6. CASE Len(todo) = 1
  <2>1. todo[1] = old /\ todo'[1] = t /\ todo'[2] = arg /\ Len(todo') = 2
    BY <1>1, <1>6
  <2>2. AtTopLevel(Call)
    BY <1>1, <1>6, HeadFacts DEF FInv
  <2>3. FunctionBody(arg) /\ LastOf(arg).arg.own = Len(symbols)
    BY <1>1, <2>2 DEF AtTopLevel
  <2>4. 1 \in DOMAIN todo[1] /\ todo[1][1].do = "scope" /\ todo[1][1].arg = arg
    BY <1>1, <1>5, <2>1
  <2>5. PendingInv(arg)
    BY <2>4 DEF FInv, ResolvingInv
  <2>6. PICK calls \in Seq(AnyCall) : calls = arg
    BY FlatSeqIsCalls
  <2>7. PendingInv(calls)'
    BY <1>2, <1>3, <2>3, <2>5, <2>6, PendingKept DEF FInv, FinishedInv
  <2>8. ASSUME NEW k \in DOMAIN todo'[1]
        PROVE  todo'[1][k].do = "decl"
    <3>1. k \in 1 .. Len(t) /\ k + 1 \in 1 .. Len(old) /\ 1 < k + 1
      BY <1>1, <2>1
    <3>2. todo'[1][k] = todo[1][k + 1] /\ k + 1 \in DOMAIN todo[1]
      BY <1>1, <1>5, <2>1, <3>1
    <3> QED
      BY <2>4, <3>1, <3>2 DEF FInv, SInv, CallsInv, TopLevelInv
  <2>9. PICK c \in Total : c = LastOf(calls).arg /\ c.own = Len(symbols)
    BY <2>3, <2>6, PendingFacts DEF FInv, SInv
  <2>10. Made(c)' = 0
    BY <1>3, <2>9 DEF Made
  <2>11. Len(scopes') = 2 /\ Top'.num_vars = 0
    <3>1. Len(scopes') = 2 /\ Top'.num_vars = Inherited
      BY <1>5, <1>6, EnterPreserves DEF FInv
    <3>2. ~ scope_level + 1 > 2
      BY <1>5, <1>6 DEF scope_level
    <3> QED
      BY <3>1, <3>2 DEF Inherited
  <2>12. OlderInv'
    BY <2>8 DEF OlderInv
  <2>13. ResolvingInv'
    <3>1. PendingInv(todo[2])'
      BY <2>1, <2>6, <2>7
    <3>2. LastOf(todo'[2]).arg = c
      BY <2>1, <2>6, <2>9
    <3>3. (Len(scopes) = 2 /\ Top.num_vars = Made(LastOf(todo[2]).arg))'
      BY <2>10, <2>11, <3>2 DEF LastOf, Made
    <3> QED
      BY <2>8, <3>1, <3>3 DEF ResolvingInv
  <2> QED
    BY <1>4, <2>12, <2>13 DEF FInv, FinishedInv
<1>7. CASE Len(todo) # 1
  <2>1. Len(todo) >= 2 /\ todo'[1] = todo[1] /\ Calls # <<>>
    BY <1>1, <1>5, <1>7
  <2>2. /\ FunctionBody(todo[2]) /\ PendingInv(todo[2]) /\ todo[2] \in Seq(AnyCall)
        /\ ParamsDone(todo[2]) /\ (Len(todo) = 2 \/ Len(todo) > 2)
    <3>1. Call.do # "param"
      BY <1>1
    <3> QED
      BY <2>1, <3>1, PendingFunction DEF FInv
  <2>3. \E body \in Seq(AnyCall) :
          /\ body = todo'[2] /\ LastOf(body) = LastOf(todo[2])
          /\ \/ body = todo[2]
             \/ ~ resolve_err => \A i \in DOMAIN body : body[i].do # "param"
    <3>1. CASE Len(todo) > 2
      <4>1. 2 \in 1 .. Len(todo) - 1
        BY <1>5, <3>1
      <4>2. todo'[2] = todo[2]
        BY <1>1, <4>1
      <4> QED
        BY <2>2, <4>2
    <3>2. CASE Len(todo) = 2
      <4>1. todo[2] = old /\ todo'[2] = t
        BY <1>1, <3>2
      <4>2. Len(old) # 1
        <5>1. LastOf(old).do = "total"
          BY <2>2, <4>1 DEF FunctionBody
        <5>2. old[1].do = "scope"
          BY <1>1
        <5> QED
          BY <5>1, <5>2 DEF LastOf
      <4>3. Len(t) \in 1 .. Len(t) /\ Len(t) + 1 = Len(old)
        <5>1. PICK n \in Nat : n = Len(old) /\ n # 0 /\ n # 1
          BY <1>1, <4>2
        <5>2. Len(t) = n - 1
          BY <1>1, <5>1
        <5> QED
          BY <5>1, <5>2
      <4>4. LastOf(t) = LastOf(old)
        BY <1>1, <4>3 DEF LastOf
      <4>5. ASSUME ~ resolve_err, NEW i \in DOMAIN t
            PROVE  t[i].do # "param"
        <5>1. t[i] = old[i + 1] /\ i + 1 \in DOMAIN old
          BY <1>1
        <5> QED
          BY <2>2, <4>1, <4>5, <5>1, NoParamsLeft DEF FInv, SInv
      <4> QED
        BY <4>1, <4>4, <4>5
    <3> QED
      BY <2>2, <3>1, <3>2
  <2>4. PICK body \in Seq(AnyCall) :
          /\ body = todo'[2] /\ LastOf(body) = LastOf(todo[2])
          /\ \/ body = todo[2]
             \/ ~ resolve_err => \A i \in DOMAIN body : body[i].do # "param"
    BY <2>3
  <2>5. Call.do # "param"
    BY <1>1
  <2>6. ResolvingInv' /\ OlderInv'
    BY <1>2, <1>3, <2>1, <2>4, <2>5, ResolvingInside DEF FInv, FinishedInv
  <2> QED
    BY <1>4, <2>6 DEF FInv, FinishedInv
<1> QED
  BY <1>6, <1>7

(* scope_exit preserves it.                                                *)
LEMMA ExitFInv ==
  ASSUME FInv, SInv', scope_exit
  PROVE  FInv'
<1>1. /\ Len(todo) >= 2 /\ todo[Len(todo)] = <<>> /\ Len(todo') = Len(todo) - 1
      /\ \A i \in 1 .. Len(todo) - 1 : todo'[i] = todo[i]
  BY ExitFacts DEF FInv
<1>2. UNCHANGED <<symbols, resolve_err, resolved, functions>>
  BY DEF scope_exit
<1>3. /\ KindsKept /\ OnlyDeepAdded /\ ParamsKept /\ GlobalsKeptBut(NULL)
      /\ SlotsSameBut(NULL) /\ Len(symbols') \in Nat /\ Len(symbols') >= Len(symbols)
  BY <1>2, KeptWhenSame DEF FInv, SInv
<1>4. FinishedTyped' /\ FramesInv'
  BY <1>2, <1>3, DefinitionSymbol, FinishedSame DEF FInv, SInv, FinishedInv
<1>5. Len(todo) \in Nat /\ Len(scopes) = Len(todo) /\ todo'[1] = todo[1]
  <2>1. Len(todo) \in Nat /\ Len(scopes) = Len(todo)
    BY LevelFacts DEF FInv, SInv
  <2>2. 1 \in 1 .. Len(todo) - 1
    BY <1>1, <2>1
  <2> QED
    BY <1>1, <2>1, <2>2
<1>6. CASE Len(todo) = 2
  <2>1. Len(scopes) # 1 /\ ~ Len(todo') >= 2
    BY <1>1, <1>5, <1>6
  <2>2. \A k \in DOMAIN todo'[1] : todo'[1][k].do = "decl"
    BY <1>5, <2>1 DEF FInv, SInv, CallsInv, TopLevelInv, AtTopLevel
  <2>3. ResolvingInv' /\ OlderInv'
    BY <2>1, <2>2 DEF ResolvingInv, OlderInv
  <2> QED
    BY <1>4, <2>3 DEF FInv, FinishedInv
<1>7. CASE Len(todo) # 2
  <2>1. Len(todo) > 2 /\ 2 \in 1 .. Len(todo) - 1
    BY <1>1, <1>5, <1>7
  <2>2. todo'[2] = todo[2]
    BY <1>1, <2>1
  <2>3. PICK body \in Seq(AnyCall) : body = todo[2]
    BY <1>1, <2>1, PendingFunction DEF FInv
  <2>4. body = todo'[2] /\ LastOf(body) = LastOf(todo[2])
    BY <2>2, <2>3
  <2>5. ResolvingInv' /\ OlderInv'
    BY <1>1, <1>2, <1>3, <1>5, <2>1, <2>3, <2>4, ResolvingInside DEF FInv, FinishedInv
  <2> QED
    BY <1>4, <2>5 DEF FInv, FinishedInv
<1> QED
  BY <1>6, <1>7

(* expr_resolve preserves it.                                              *)
LEMMA UseFInv ==
  ASSUME FInv, SInv', expr_resolve
  PROVE  FInv'
<1>1. Calls # <<>> /\ Call.do = "use" /\ Replace(<<>>)
      /\ UNCHANGED <<scopes, symbols, functions>> /\ (resolve_err => resolve_err')
  BY DEF expr_resolve, Ready, Fail
<1>2. /\ KindsKept /\ OnlyDeepAdded /\ ParamsKept /\ GlobalsKeptBut(NULL)
      /\ SlotsSameBut(NULL) /\ Len(symbols') \in Nat /\ Len(symbols') >= Len(symbols)
      /\ Len(symbols') = Len(symbols)
  BY <1>1, KeptWhenSame DEF FInv, SInv
<1>3. FinishedTyped' /\ FramesInv'
  BY <1>1, <1>2, DefinitionSymbol, FinishedSame DEF FInv, SInv, FinishedInv
<1>4. PICK new \in Seq(AnyCall) : new = <<>> /\ Len(new) = 0
  BY EmptyCalls
<1>5. Replace(new) /\ \A k \in 1 .. Len(new) : new[k].do # "param"
  BY <1>1, <1>4
<1>6. CASE Len(todo) = 1
  <2>1. PICK t \in Seq(AnyCall) :
              /\ t = todo'[1] /\ Len(t) = Len(Calls) - 1
              /\ \A i \in 1 .. Len(Calls) - 1 : t[0 + i] = Calls[i + 1]
    <3>1. PICK t \in Seq(AnyCall) :
              /\ t = todo'[Len(todo)] /\ Len(t) = Len(new) + Len(Calls) - 1
              /\ \A i \in 1 .. Len(Calls) - 1 : t[Len(new) + i] = Calls[i + 1]
      BY <1>1, <1>5, ReplaceFacts DEF FInv, SInv
    <3>2. Len(Calls) \in Nat
      BY <1>1, CallFacts DEF FInv, SInv
    <3>3. t = todo'[1] /\ Len(t) = Len(Calls) - 1
      BY <1>4, <1>6, <3>1, <3>2
    <3> QED
      BY <1>4, <3>1, <3>3
  <2>2. ASSUME NEW k \in DOMAIN t
        PROVE  k + 1 \in DOMAIN todo[1] /\ todo[1][k + 1] = t[k]
    <3>1. /\ Len(Calls) \in Nat \ {0} /\ DOMAIN Calls = 1 .. Len(Calls)
          /\ Calls = todo[1]
      BY <1>1, <1>6, CallFacts, LevelFacts DEF FInv, SInv
    <3>2. k \in 1 .. Len(Calls) - 1 /\ k + 1 \in 1 .. Len(Calls) /\ 0 + k = k
      BY <2>1, <3>1
    <3> QED
      BY <2>1, <3>1, <3>2
  <2>3. OlderInv'
    <3>1. ASSUME NEW k \in DOMAIN t, t[k].do # "decl"
          PROVE  OlderInv'
      <4>1. \A i \in DOMAIN functions : IsDefinition(functions[i]) =>
              functions[i].own < Len(symbols')
        BY <1>2, <2>2, <3>1 DEF FInv, FinishedInv, OlderInv
      <4> QED
        BY <1>1, <1>2, <4>1, OlderKept DEF FInv, FinishedInv
    <3> QED
      BY <2>1, <3>1 DEF OlderInv
  <2>4. ASSUME NEW k \in DOMAIN t, t[k].do = "scope"
        PROVE  PendingInv(t[k].arg)'
    <3>1. /\ k + 1 \in DOMAIN todo[1] /\ todo[1][k + 1].do = "scope"
          /\ todo[1][k + 1].arg = t[k].arg
      BY <2>2, <2>4
    <3>2. PendingInv(t[k].arg)
      BY <3>1 DEF FInv, ResolvingInv
    <3>3. FunctionBody(t[k].arg)
      BY <3>1 DEF FInv, SInv, CallsInv, TopLevelInv, AtTopLevel
    <3>4. t[k].arg \in Seq(Flat)
      BY <2>4, CallArgument
    <3>5. PICK calls \in Seq(AnyCall) : calls = t[k].arg
      BY <3>4, FlatSeqIsCalls
    <3>6. PendingInv(calls)'
      BY <1>1, <1>2, <3>2, <3>3, <3>5, PendingKept DEF FInv, FinishedInv
    <3> QED
      BY <3>5, <3>6
  <2>5. Len(todo') = 1
    BY <1>1, <1>5, <1>6, ReplaceFacts DEF FInv, SInv
  <2>6. ResolvingInv'
    <3>1. \A k \in DOMAIN todo'[1] : todo'[1][k].do = "scope" =>
            PendingInv(todo[1][k].arg)'
      BY <2>1, <2>4
    <3> QED
      BY <2>5, <3>1 DEF ResolvingInv
  <2> QED
    BY <1>3, <2>3, <2>6 DEF FInv, FinishedInv
<1>7. CASE Len(todo) >= 2
  <2>1. Call.do \notin {"param", "total"}
    BY <1>1
  <2>2. ResolvingInv' /\ OlderInv'
    BY <1>1, <1>2, <1>5, <1>7, <2>1, ResolvingReplace DEF FInv, FinishedInv
  <2> QED
    BY <1>3, <2>2 DEF FInv, FinishedInv
<1> QED
  BY <1>1, <1>6, <1>7, HeadFacts DEF FInv

(* stmt_resolve preserves it.                                              *)
LEMMA StmtFInv ==
  ASSUME FInv, SInv', stmt_resolve
  PROVE  FInv'
<1>1. Calls # <<>> /\ Call.do = "stmt" /\ Replace(StmtCalls(Call.arg))
      /\ UNCHANGED <<scopes, symbols, resolve_err, functions>>
  BY DEF stmt_resolve, Ready
<1>2. /\ KindsKept /\ OnlyDeepAdded /\ ParamsKept /\ GlobalsKeptBut(NULL)
      /\ SlotsSameBut(NULL) /\ Len(symbols') \in Nat /\ Len(symbols') >= Len(symbols)
  BY <1>1, KeptWhenSame DEF FInv, SInv
<1>3. FinishedTyped' /\ FramesInv'
  BY <1>1, <1>2, DefinitionSymbol, FinishedSame DEF FInv, SInv, FinishedInv
<1>4. Call.arg \in Stmts
  BY <1>1, CallFacts, CallArgument DEF FInv, SInv
<1>5. PICK new \in Seq(AnyCall) :
        new = StmtCalls(Call.arg) /\ \A i \in DOMAIN new : Ordinary(new[i])
  BY <1>4, StmtCallsFacts
<1>6. Replace(new) /\ \A k \in 1 .. Len(new) : new[k].do # "param"
  BY <1>1, <1>5, OrdinaryInBody
<1>7. Len(todo) >= 2
  BY <1>1, HeadFacts DEF AtTopLevel, FInv
<1>8. Call.do \notin {"param", "total"}
  BY <1>1
<1>9. ResolvingInv' /\ OlderInv'
  BY <1>1, <1>2, <1>6, <1>7, <1>8, ResolvingReplace DEF FInv, FinishedInv
<1> QED
  BY <1>3, <1>9 DEF FInv, FinishedInv

(* param_list_resolve preserves it: the parameter gets the slot of its     *)
(* place.                                                                  *)
LEMMA ParamFInv ==
  ASSUME FInv, SInv', param_list_resolve
  PROVE  FInv'
<1>1. /\ Calls # <<>> /\ Call.do = "param" /\ Call.arg \in Names /\ Replace(<<>>)
      /\ Len(todo) >= 2 /\ Len(scopes) = Len(todo) /\ UNCHANGED functions
  BY ParamEffect DEF FInv
<1>2. PICK t \in Nat : t = Len(symbols) + 1
  BY LevelFacts DEF FInv, SInv
<1>3. PICK r \in SymbolRecord :
              /\ symbols' = Append(symbols, r) /\ r.kind = "PARAM"
              /\ \/ /\ r.which = Top.num_vars
                    /\ scopes' = Bound(Call.arg, t)
                    /\ UNCHANGED resolve_err
                 \/ r.which = Unset /\ resolve_err' = TRUE /\ UNCHANGED scopes
  BY <1>2, ParamEffect DEF FInv
<1>4. /\ symbols' \in Seq(SymbolRecord) /\ DOMAIN symbols' = 1 .. t
      /\ Len(symbols') = t
      /\ \A s \in DOMAIN symbols : symbols'[s] = symbols[s]
      /\ symbols'[t] = r
      /\ \A s \in DOMAIN symbols' : s \in DOMAIN symbols \/ s = t
      /\ KindsKept /\ OnlyDeepAdded
  BY <1>2, <1>3, AddSymbol DEF FInv, SInv
<1>5. /\ ParamsKept /\ GlobalsKeptBut(NULL) /\ SlotsSameBut(t)
      /\ Len(symbols') \in Nat /\ Len(symbols') >= Len(symbols)
      /\ resolve_err => resolve_err'
  BY <1>2, <1>3, <1>4, LevelFacts DEF ParamsKept, GlobalsKeptBut, SlotsSameBut, FInv, SInv
<1>6. t > Len(symbols)
  BY <1>2, LevelFacts DEF FInv, SInv
<1>7. \A i \in DOMAIN functions : IsDefinition(functions[i]) =>
        functions[i].symbol # NULL /\ Separated(t, functions[i])
  BY <1>1, <1>6, DefinitionSymbol, CurrentSeparated DEF FInv, SInv, FinishedInv
<1>8. FinishedTyped' /\ FramesInv'
  BY <1>1, <1>4, <1>5, <1>7, FinishedKept DEF FInv, SInv
<1>9. PICK new \in Seq(AnyCall) : new = <<>> /\ Len(new) = 0
  BY EmptyCalls
<1>10. Replace(new) /\ \A k \in 1 .. Len(new) : new[k].do # "param"
  BY <1>1, <1>9
<1>11. CASE Len(todo) > 2
  <2>1. ResolvingInv' /\ OlderInv'
    BY <1>1, <1>4, <1>5, <1>10, <1>11, ResolvingReplace DEF FInv, FinishedInv
  <2> QED
    BY <1>8, <2>1 DEF FInv, FinishedInv
<1>12. CASE Len(todo) = 2
  <2>1. /\ FunctionBody(todo[2]) /\ PendingInv(todo[2])
        /\ todo[2] \in Seq(AnyCall) /\ \A k \in DOMAIN todo[1] : todo[1][k].do = "decl"
    BY <1>1, PendingFunction DEF FInv
  <2>2. PICK calls \in Seq(AnyCall) : calls = todo[2] /\ calls = Calls /\ Call = calls[1]
    BY <1>1, <1>12, <2>1, LevelFacts, CallFacts DEF FInv, SInv
  <2>3. /\ Len(todo') = 2 /\ todo'[1] = todo[1]
    <3>1. Len(todo') = Len(todo) /\ \A i \in 1 .. Len(todo) - 1 : todo'[i] = todo[i]
      BY <1>1, <1>10, ReplaceFacts DEF FInv, SInv
    <3> QED
      BY <1>12, <3>1
  <2>4. PICK body \in Seq(AnyCall) :
              /\ body = todo'[2] /\ Len(body) = Len(calls) - 1
              /\ \A i \in 1 .. Len(calls) - 1 : body[0 + i] = calls[i + 1]
    <3>1. PICK b \in Seq(AnyCall) :
              /\ b = todo'[Len(todo)] /\ Len(b) = Len(new) + Len(Calls) - 1
              /\ \A i \in 1 .. Len(Calls) - 1 : b[Len(new) + i] = Calls[i + 1]
      BY <1>1, <1>10, ReplaceFacts DEF FInv, SInv
    <3>2. Len(Calls) \in Nat
      BY <1>1, CallFacts DEF FInv, SInv
    <3>3. b = todo'[2] /\ Len(b) = Len(Calls) - 1
      BY <1>9, <1>12, <3>1, <3>2
    <3> QED
      BY <1>9, <2>2, <3>1, <3>3
  <2>5. Len(calls) \in Nat \ {0} /\ DOMAIN calls = 1 .. Len(calls)
    BY <1>1, <2>2, CallFacts DEF FInv, SInv
  <2>6. \A i \in DOMAIN body : /\ i \in Nat /\ i + 1 \in DOMAIN calls
                               /\ body[i] = calls[i + 1]
    <3>1. TAKE i \in DOMAIN body
    <3>2. i \in 1 .. Len(calls) - 1
      BY <2>4
    <3>3. i + 1 \in 1 .. Len(calls) /\ 0 + i = i /\ i \in Nat
      BY <2>5, <3>2
    <3>4. body[0 + i] = calls[i + 1]
      BY <2>4, <3>2
    <3> QED
      BY <2>5, <3>3, <3>4
  <2>7. LastOf(body) = LastOf(calls)
    <3>1. Len(calls) # 1
      <4>1. LastOf(calls).do = "total"
        BY <2>1, <2>2 DEF FunctionBody
      <4> QED
        BY <1>1, <2>2, <4>1 DEF LastOf
    <3>2. Len(calls) - 1 \in 1 .. Len(calls) - 1 /\ (Len(calls) - 1) + 1 = Len(calls)
          /\ 0 + (Len(calls) - 1) = Len(calls) - 1
      BY <2>5, <3>1
    <3> QED
      BY <2>4, <3>2 DEF LastOf
  <2>8. PICK c \in Total :
           /\ c = LastOf(calls).arg
           /\ c.own \in Nat /\ c.own <= Len(symbols)
           /\ c.own \in DOMAIN symbols /\ c.symbol \in DOMAIN symbols /\ Global(c.symbol)
           /\ Made(c) \in Nat /\ Len(symbols) = c.own + Made(c)
           /\ Len(c.decl.params) \in Nat
           /\ DOMAIN c.decl.params = 1 .. Len(c.decl.params)
    BY <2>1, <2>2, PendingFacts DEF FInv, SInv
  <2>9. PICK m \in Nat, p \in Nat : m = Made(c) /\ p = Len(c.decl.params)
    BY <2>8
  <2>10. t = c.own + (m + 1) /\ Made(c)' = m + 1
    <3>1. PICK o \in Nat : o = c.own
      BY <2>8
    <3>2. Made(c)' = t - c.own
      BY <1>4 DEF Made
    <3>3. t = o + (m + 1)
      <4>1. Len(symbols) = o + m
        BY <2>8, <2>9, <3>1
      <4> QED
        BY <1>2, <4>1
    <3>4. t - o = m + 1
      BY <3>3
    <3> QED
      BY <3>1, <3>2, <3>3, <3>4
  <2>11. \A i \in DOMAIN functions : IsDefinition(functions[i])' => IsDefinition(functions[i])
    BY <1>1, <1>4 DEF FInv, FinishedInv, FinishedTyped, IsDefinition, IsGlobal, KindsKept
  <2>12. \A i \in DOMAIN functions : IsDefinition(functions[i]) => functions[i].own < c.own
    BY <2>1, <2>2, <2>8 DEF PendingInv
  <2>13. ASSUME ~ resolve_err'
         PROVE  /\ ParamsInv(body)'
                /\ c.decl.code # <<>> => ~ symbols'[c.symbol].prototype
                /\ \A i \in DOMAIN functions : IsDefinition(functions[i]) =>
                     functions[i].symbol # c.symbol
                /\ Len(scopes') = 2 /\ Top'.num_vars = m + 1
    <3>1. /\ \A k \in DOMAIN c.decl.params : k <= m =>
               symbols[c.own + k].kind = "PARAM" /\ symbols[c.own + k].which = k - 1
          /\ \A i \in DOMAIN calls : calls[i].do = "param" <=> i <= p - m
          /\ c.decl.code # <<>> => ~ symbols[c.symbol].prototype
          /\ \A i \in DOMAIN functions : IsDefinition(functions[i]) =>
               functions[i].symbol # c.symbol
      BY <1>5, <2>1, <2>2, <2>8, <2>9, <2>13 DEF PendingInv, ParamsInv
    <3>2. m < p
      <4>1. 1 \in DOMAIN calls /\ calls[1].do = "param"
        BY <1>1, <2>2, <2>5
      <4>2. 1 <= p - m
        BY <3>1, <4>1
      <4> QED
        BY <4>2
    <3>3. Top.num_vars = m
      <4>1. todo[2] # <<>> /\ ~ resolve_err /\ Made(c) < Len(c.decl.params)
            /\ c = LastOf(todo[2]).arg
        BY <1>1, <1>5, <2>2, <2>8, <2>9, <2>13, <3>2
      <4> QED
        BY <1>12, <2>9, <4>1 DEF FInv, ResolvingInv
    <3>4. r.which = m /\ scopes' = Bound(Call.arg, t)
      BY <1>3, <2>13, <3>3
    <3>5. Len(scopes') = 2 /\ Top'.num_vars = m + 1
      BY <1>1, <1>12, <3>3, <3>4, BoundFacts DEF FInv, SInv
    <3>6. ASSUME NEW k \in 1 .. p, k <= m + 1
          PROVE  symbols'[c.own + k].kind = "PARAM" /\ symbols'[c.own + k].which = k - 1
      <4>1. CASE k = m + 1
        <5>1. c.own + k = t /\ k - 1 = m
          BY <2>10, <4>1
        <5> QED
          BY <1>3, <1>4, <3>4, <5>1
      <4>2. CASE k <= m
        <5>1. c.own + k \in DOMAIN symbols
          BY SMTT(30), <2>8, <2>9, <4>2, LevelFacts DEF FInv, SInv
        <5>2. symbols[c.own + k].kind = "PARAM" /\ symbols[c.own + k].which = k - 1
          BY <2>8, <2>9, <3>1, <4>2
        <5> QED
          BY <1>4, <5>1, <5>2
      <4>3. k = m + 1 \/ k <= m
        BY <3>6
      <4> QED
        BY <4>1, <4>2, <4>3
    <3>7. ASSUME NEW i \in DOMAIN body
          PROVE  body[i].do = "param" <=> i <= p - (m + 1)
      <4>1. body[i].do = "param" <=> i + 1 <= p - m
        BY <2>6, <3>1
      <4>2. i \in Nat
        BY <2>6
      <4> QED
        BY <4>1, <4>2
    <3>8. ParamsInv(body)'
      BY <2>7, <2>8, <2>9, <2>10, <3>6, <3>7 DEF ParamsInv
    <3>9. c.decl.code # <<>> => ~ symbols'[c.symbol].prototype
      BY <1>4, <2>8, <3>1
    <3> QED
      BY <3>1, <3>5, <3>8, <3>9
  <2>14. PendingInv(body)'
    <3>1. LastOf(body).arg = c
      BY <2>7, <2>8
    <3> QED
      BY <1>1, <2>11, <2>12, <2>13, <3>1 DEF PendingInv, LastOf
  <2>15. OlderInv'
    BY <2>1, <2>3 DEF OlderInv
  <2>16. ResolvingInv'
    <3>1. \A k \in DOMAIN todo'[1] : todo'[1][k].do # "scope"
      BY <2>1, <2>3
    <3>2. PendingInv(todo[2])'
      BY <2>4, <2>14
    <3>3. LastOf(todo'[2]).arg = c
      BY <2>4, <2>7, <2>8
    <3>4. (~ resolve_err => Len(scopes) = 2 /\ Top.num_vars = Made(LastOf(todo[2]).arg))'
      BY <2>10, <2>13, <3>3 DEF LastOf, Made
    <3> QED
      BY <3>1, <3>2, <3>4 DEF ResolvingInv
  <2> QED
    BY <1>8, <2>15, <2>16 DEF FInv, FinishedInv
<1> QED
  BY <1>1, <1>11, <1>12, PendingFunction DEF FInv

(* At the top level: the calls of a declaration, before other declarations. *)
LEMMA ResolvingTop ==
  ASSUME FInv, Len(todo) = 1, Calls # <<>>, Call.do # "use",
         NEW new \in Seq(AnyCall), Replace(new),
         \A k \in 1 .. Len(new) : new[k].do = "scope" => PendingInv(new[k].arg)'
  PROVE  ResolvingInv'
<1>1. /\ Len(Calls) \in Nat \ {0} /\ DOMAIN Calls = 1 .. Len(Calls)
      /\ Calls = todo[1] /\ Call = Calls[1]
  BY CallFacts, LevelFacts DEF FInv, SInv
<1>2. PICK t \in Seq(AnyCall) :
              /\ t = todo'[Len(todo)]
              /\ Len(t) = Len(new) + Len(Calls) - 1
              /\ \A i \in 1 .. Len(new) : t[i] = new[i]
              /\ \A i \in 1 .. Len(Calls) - 1 : t[Len(new) + i] = Calls[i + 1]
  BY ReplaceFacts DEF FInv, SInv
<1>3. Len(todo') = 1 /\ t = todo'[1]
  BY <1>2, ReplaceFacts DEF FInv, SInv
<1>4. ASSUME NEW k \in DOMAIN t, t[k].do = "scope"
      PROVE  PendingInv(t[k].arg)'
  <2>1. Len(new) \in Nat /\ k \in 1 .. Len(t)
    OBVIOUS
  <2>2. CASE k <= Len(new)
    <3>1. k \in 1 .. Len(new)
      BY <2>1, <2>2
    <3>2. t[k] = new[k]
      BY <1>2, <3>1
    <3>3. PICK a : a = new[k].arg /\ a = t[k].arg
      BY <3>2
    <3>4. PendingInv(a)'
      BY <1>4, <3>1, <3>2, <3>3
    <3> QED
      BY <3>3, <3>4
  <2>3. CASE ~ k <= Len(new)
    <3>1. k - Len(new) \in 1 .. Len(Calls) - 1 /\ k = Len(new) + (k - Len(new))
      BY <1>1, <1>2, <2>1, <2>3
    <3>2. PICK i \in 1 .. Len(Calls) - 1 : k = Len(new) + i
      BY <3>1
    <3>3. t[k] = Calls[i + 1] /\ i + 1 \in DOMAIN Calls /\ 1 < i + 1 /\ 1 \in DOMAIN Calls
      BY <1>1, <1>2, <3>2
    <3>4. Calls[i + 1].do = "decl"
      BY <1>1, <3>3 DEF FInv, SInv, CallsInv, TopLevelInv
    <3> QED
      BY <1>4, <3>3, <3>4
  <2> QED
    BY <2>2, <2>3
<1> QED
  BY <1>3, <1>4 DEF ResolvingInv

(* The first half of decl_resolve preserves it.                            *)
LEMMA CreateFInv ==
  ASSUME FInv, SInv', CreateSymbol
  PROVE  FInv'
<1>1. /\ Calls # <<>> /\ Call.do = "decl" /\ UNCHANGED <<scopes, resolve_err, functions>>
      /\ (Len(todo) = 1 \/ Len(todo) >= 2)
  BY CreateEffect DEF FInv
<1>2. PICK t \in Nat : t = Len(symbols) + 1
  BY LevelFacts DEF FInv, SInv
<1>3. PICK r \in SymbolRecord : symbols' = Append(symbols, r) /\ r.which = Unset
  BY CreateEffect DEF FInv
<1>4. PICK new \in Seq(AnyCall), u \in Nat :
              /\ Replace(new) /\ Len(new) = u + 1
              /\ \A i \in 1 .. u : new[i].do = "use"
              /\ new[u + 1] = Do("bind", [decl |-> Call.arg, symbol |-> t])
  BY <1>2, CreateEffect DEF FInv
<1>5. /\ Len(symbols') = t /\ DOMAIN symbols' = 1 .. t
      /\ \A s \in DOMAIN symbols : symbols'[s] = symbols[s]
      /\ symbols'[t] = r /\ \A s \in DOMAIN symbols' : s \in DOMAIN symbols \/ s = t
      /\ KindsKept
  BY <1>2, <1>3, AddSymbol DEF FInv, SInv
<1>6. /\ ParamsKept /\ GlobalsKeptBut(NULL) /\ SlotsSameBut(NULL)
      /\ Len(symbols') \in Nat /\ Len(symbols') >= Len(symbols)
  BY <1>2, <1>3, <1>5, LevelFacts DEF ParamsKept, GlobalsKeptBut, SlotsSameBut, FInv, SInv
<1>7. FinishedTyped' /\ FramesInv'
  BY <1>1, <1>5, <1>6, DefinitionSymbol, FinishedSame DEF FInv, SInv, FinishedInv
<1>8. \A k \in 1 .. Len(new) : new[k].do \in {"use", "bind"}
  <2>1. new[u + 1].do = "bind"
    BY <1>4, DoFields
  <2>2. \A k \in 1 .. Len(new) : k \in 1 .. u \/ k = u + 1
    BY <1>4
  <2> QED
    BY <1>4, <2>1, <2>2
<1>9. CASE Len(todo) = 1
  <2>1. OlderInv'
    <3>1. \A i \in DOMAIN functions : IsDefinition(functions[i]) =>
            functions[i].own < Len(symbols')
      BY <1>2, <1>5, DefinitionSymbol, LevelFacts DEF FInv, SInv, FinishedInv
    <3> QED
      BY <1>1, <1>5, <3>1, OlderKept DEF FInv, FinishedInv
  <2>2. ResolvingInv'
    BY <1>1, <1>4, <1>8, <1>9, ResolvingTop
  <2> QED
    BY <1>7, <2>1, <2>2 DEF FInv, FinishedInv
<1>10. CASE Len(todo) >= 2
  <2>1. Call.do \notin {"param", "total"} /\ \A k \in 1 .. Len(new) : new[k].do # "param"
    BY <1>1, <1>8
  <2>2. ResolvingInv' /\ OlderInv'
    BY <1>1, <1>4, <1>5, <1>6, <1>10, <2>1, ResolvingReplace DEF FInv, FinishedInv
  <2> QED
    BY <1>7, <2>2 DEF FInv, FinishedInv
<1> QED
  BY <1>1, <1>9, <1>10

(* The calls of a function wait inside of one call. *)
LEMMA FunctionCallsWait ==
  ASSUME NEW d \in Decls, NEW s \in Nat, NEW tmp \in Nat
  PROVE  /\ FunctionCalls(d, s, tmp) \in Seq(AnyCall)
         /\ \A k \in 1 .. Len(FunctionCalls(d, s, tmp)) :
              /\ FunctionCalls(d, s, tmp)[k].do = "scope"
              /\ \E body \in Seq(Flat) :
                   /\ body = FunctionCalls(d, s, tmp)[k].arg
                   /\ FunctionScope(body, d, s, Target(d, s, tmp))
<1>1. CASE FunctionCalls(d, s, tmp) = <<>>
  BY <1>1, EmptyCalls
<1>2. CASE \E body \in Seq(Flat) :
             /\ FunctionCalls(d, s, tmp) = <<Inside(body)>>
             /\ FunctionScope(body, d, s, Target(d, s, tmp))
  <2>1. PICK body \in Seq(Flat) :
             /\ FunctionCalls(d, s, tmp) = <<Inside(body)>>
             /\ FunctionScope(body, d, s, Target(d, s, tmp))
    BY <1>2
  <2>2. Inside(body).do = "scope" /\ Inside(body).arg = body
    BY DoFields DEF Inside
  <2>3. Inside(body) \in AnyCall
    BY DEF Inside, Do, AnyCall
  <2>4. /\ <<Inside(body)>> \in Seq(AnyCall) /\ Len(<<Inside(body)>>) = 1
        /\ <<Inside(body)>>[1] = Inside(body)
    BY <2>3
  <2>5. \A k \in 1 .. Len(FunctionCalls(d, s, tmp)) :
          FunctionCalls(d, s, tmp)[k] = Inside(body)
    BY <2>1, <2>4
  <2> QED
    BY <2>1, <2>2, <2>4, <2>5
<1> QED
  BY <1>1, <1>2, FunctionCallsFacts

(* A function whose symbol is the newest begins with none of its parameters. *)
LEMMA PendingBegins ==
  ASSUME FInv, KindsKept, UNCHANGED functions, Len(symbols') = Len(symbols),
         NEW d \in Decls, NEW s \in Nat, NEW target \in Nat, NEW body \in Seq(Flat),
         FunctionScope(body, d, s, target), s = Len(symbols),
         \A i \in DOMAIN functions : IsDefinition(functions[i]) =>
           functions[i].own < s,
         ~ resolve_err' =>
           /\ d.code # <<>> => ~ symbols'[target].prototype
           /\ \A i \in DOMAIN functions : IsDefinition(functions[i]) =>
                functions[i].symbol # target
  PROVE  PendingInv(body)'
<1>1. PICK c : c = [decl |-> d, own |-> s, symbol |-> target]
  OBVIOUS
<1>2. LastOf(body).arg = c /\ c.decl = d /\ c.own = s /\ c.symbol = target
  BY <1>1 DEF FunctionScope, LastOf
<1>3. \A i \in DOMAIN functions : IsDefinition(functions[i])' => IsDefinition(functions[i])
  BY DEF FInv, FinishedInv, FinishedTyped, IsDefinition, IsGlobal, KindsKept
<1>4. Made(c)' = 0
  BY <1>2 DEF Made
<1>5. PICK p \in Nat : p = Len(d.params) /\ DOMAIN d.params = 1 .. p
  BY SourcesAssumption
<1>6. DOMAIN body = 1 .. Len(body)
  OBVIOUS
<1>7. ParamsInv(body)'
  <2>1. \A k \in 1 .. p : ~ k <= 0
    OBVIOUS
  <2>2. \A i \in DOMAIN body : body[i].do = "param" <=> i <= p
    BY <1>5, <1>6 DEF FunctionScope
  <2>3. p - 0 = p
    OBVIOUS
  <2>4. \A i \in DOMAIN body : body[i].do = "param" <=> i <= p - 0
    BY <2>2, <2>3
  <2> QED
    BY <1>2, <1>4, <1>5, <2>1, <2>4 DEF ParamsInv, LastOf
<1> QED
  BY <1>2, <1>3, <1>7 DEF PendingInv, LastOf

(* At the top level nothing but a "decl" waits for anything finished. *)
LEMMA TopOlder ==
  ASSUME FInv, Len(todo) = 1, Calls # <<>>, Call.do # "decl"
  PROVE  \A i \in DOMAIN functions : IsDefinition(functions[i]) =>
           functions[i].own < Len(symbols) /\ functions[i].symbol < Len(symbols)
<1>1. Calls = todo[1] /\ Call = Calls[1] /\ 1 \in DOMAIN Calls
  BY LevelFacts, CallFacts DEF FInv, SInv
<1>2. \A i \in DOMAIN functions : IsDefinition(functions[i]) =>
           functions[i].own < Len(symbols)
  BY <1>1 DEF FInv, FinishedInv, OlderInv
<1> QED
  BY <1>2, DefinitionSymbol, LevelFacts DEF FInv, SInv, FinishedInv

(* The binding of a declaration outside of functions. *)
LEMMA BindTop ==
  ASSUME FInv, SInv', Len(todo) = 1, Calls # <<>>, Call.do = "bind",
         KindsKept, ParamsKept, SlotsSameBut(NULL), Len(symbols') = Len(symbols),
         UNCHANGED functions, resolve_err => resolve_err',
         NEW d \in Decls, NEW s \in Nat, NEW tmp \in Nat,
         GlobalsKeptBut(s), s = Len(symbols),
         Replace(FunctionCalls(d, s, tmp)),
         ~ resolve_err' =>
           /\ d.type.fun /\ d.code # <<>> => ~ symbols'[Target(d, s, tmp)].prototype
           /\ \A i \in DOMAIN functions : IsDefinition(functions[i]) =>
                functions[i].symbol # Target(d, s, tmp)
  PROVE  FInv'
<1>1. \A i \in DOMAIN functions : IsDefinition(functions[i]) =>
           functions[i].own < s /\ functions[i].symbol # s
  BY TopOlder, DefinitionSymbol DEF FInv, SInv, FinishedInv
<1>2. FinishedTyped' /\ FramesInv'
  BY <1>1, FinishedSame DEF FInv, SInv
<1>3. OlderInv'
  BY <1>1, OlderKept DEF FInv, FinishedInv
<1>4. PICK target \in Nat : target = Target(d, s, tmp)
  BY DEF Target
<1>5. PICK new \in Seq(AnyCall) : new = FunctionCalls(d, s, tmp)
  BY FunctionCallsWait
<1>6. ASSUME NEW k \in 1 .. Len(new)
      PROVE  PendingInv(new[k].arg)'
  <2>1. PICK body \in Seq(Flat) :
          body = new[k].arg /\ FunctionScope(body, d, s, target)
    BY <1>4, <1>5, FunctionCallsWait
  <2>2. d.type.fun
    BY <1>5, FunctionCallsFacts, EmptyCalls
  <2>3. PendingInv(body)'
    BY <1>1, <1>4, <2>1, <2>2, PendingBegins
  <2> QED
    BY <2>1, <2>3
<1>7. ResolvingInv'
  BY <1>5, <1>6, ResolvingTop
<1> QED
  BY <1>2, <1>3, <1>7 DEF FInv, FinishedInv

(* A binding inside of a function. *)
LEMMA BindInside ==
  ASSUME FInv, SInv', Len(todo) >= 2, Calls # <<>>, Call.do = "bind",
         KindsKept, ParamsKept, GlobalsKeptBut(NULL), Len(symbols') = Len(symbols),
         UNCHANGED functions, resolve_err => resolve_err',
         NEW d \in Decls, NEW s \in Nat, NEW tmp \in Nat,
         s \in DOMAIN symbols, Current(s), SlotsSameBut(s) \/ SlotsSameBut(NULL),
         Replace(FunctionCalls(d, s, tmp))
  PROVE  FInv'
<1>1. PICK new \in Seq(AnyCall) :
        new = FunctionCalls(d, s, tmp) /\ \A k \in 1 .. Len(new) : new[k].do = "scope"
  BY FunctionCallsWait
<1>2. Call.do \notin {"param", "total"} /\ \A k \in 1 .. Len(new) : new[k].do # "param"
  BY <1>1
<1>3. Len(symbols') \in Nat /\ Len(symbols') >= Len(symbols)
  BY LevelFacts DEF FInv, SInv
<1>4. ResolvingInv' /\ OlderInv'
  BY <1>1, <1>2, <1>3, ResolvingReplace DEF FInv, FinishedInv
<1>5. \A i \in DOMAIN functions : IsDefinition(functions[i]) =>
           functions[i].symbol # NULL /\ Separated(s, functions[i])
  BY CurrentSeparated, DefinitionSymbol DEF FInv, SInv, FinishedInv
<1>6. FinishedTyped' /\ FramesInv'
  <2>1. CASE SlotsSameBut(s)
    BY <1>5, <2>1, FinishedKept DEF FInv, SInv
  <2>2. CASE SlotsSameBut(NULL)
    BY <1>5, <2>2, FinishedSame DEF FInv, SInv
  <2> QED
    BY <2>1, <2>2
<1> QED
  BY <1>4, <1>6 DEF FInv, FinishedInv

(* Binding a new name preserves it.                                        *)
LEMMA BindNewFInv ==
  ASSUME FInv, SInv', BindNew
  PROVE  FInv'
<1>1. Calls # <<>> /\ Call.do = "bind" /\ UNCHANGED <<resolve_err, resolved, functions>>
  BY BindNewEffect DEF FInv
<1>2. PICK d \in Decls, s \in Nat, t \in Nat :
              /\ d = Call.arg.decl /\ s = Call.arg.symbol /\ s \in DOMAIN symbols
              /\ t = NULL /\ Replace(FunctionCalls(d, s, t))
              /\ symbols' \in Seq(SymbolRecord) /\ Len(symbols') = Len(symbols)
              /\ DOMAIN symbols' = DOMAIN symbols /\ KindsKept
              /\ \A i \in DOMAIN symbols : i # s => symbols'[i] = symbols[i]
              /\ symbols'[s].kind = symbols[s].kind
              /\ symbols'[s].prototype = IsPrototype(d)
              /\ symbols'[s].total = symbols[s].total
  BY BindNewEffect DEF FInv
<1>3. /\ Current(s)
      /\ Len(todo) = 1 \/ Len(todo) >= 2
      /\ Len(todo) = 1 => Global(s) /\ s = Len(symbols)
      /\ Len(todo) >= 2 => Local(s) /\ Deep(s)
  BY <1>1, <1>2, BindFacts DEF FInv
<1>4. ParamsKept
  <2>1. symbols[s].kind # "PARAM"
    BY <1>3 DEF Global, Local, IsGlobal
  <2> QED
    BY <1>2, <2>1 DEF ParamsKept
<1>5. CASE Len(todo) = 1
  <2>1. GlobalsKeptBut(s) /\ SlotsSameBut(NULL)
    BY <1>2, <1>3, <1>5 DEF GlobalsKeptBut, SlotsSameBut, Global, IsGlobal
  <2>2. Target(d, s, t) = s
    BY <1>2 DEF Target
  <2>3. d.type.fun /\ d.code # <<>> => ~ symbols'[s].prototype
    BY <1>2 DEF IsPrototype
  <2>4. \A i \in DOMAIN functions : IsDefinition(functions[i]) =>
          functions[i].symbol # s
    BY <1>1, <1>3, <1>5, TopOlder, DefinitionSymbol DEF FInv, SInv, FinishedInv
  <2> QED
    BY <1>1, <1>2, <1>3, <1>4, <1>5, <2>1, <2>2, <2>3, <2>4, BindTop
<1>6. CASE Len(todo) >= 2
  <2>1. GlobalsKeptBut(NULL) /\ SlotsSameBut(s)
    BY <1>2, <1>3, <1>6 DEF GlobalsKeptBut, SlotsSameBut, Deep, IsGlobal
  <2> QED
    BY <1>1, <1>2, <1>3, <1>4, <1>6, <2>1, BindInside
<1> QED
  BY <1>3, <1>5, <1>6

(* Redeclaring a name preserves it: an earlier symbol that has been        *)
(* filled is filled again only with an error.                              *)
LEMMA RedeclareFInv ==
  ASSUME FInv, SInv', Redeclare
  PROVE  FInv'
<1>1. Calls # <<>> /\ Call.do = "bind" /\ UNCHANGED <<scopes, resolved, functions>>
  BY RedeclareEffect DEF FInv
<1>2. PICK d \in Decls, s \in Nat, t \in Nat :
              /\ d = Call.arg.decl /\ s = Call.arg.symbol
              /\ s \in DOMAIN symbols /\ t \in DOMAIN symbols
              /\ Replace(FunctionCalls(d, s, t))
              /\ symbols' \in Seq(SymbolRecord) /\ Len(symbols') = Len(symbols)
              /\ DOMAIN symbols' = DOMAIN symbols /\ KindsKept
              /\ \A i \in DOMAIN symbols :
                   /\ symbols'[i].which = symbols[i].which
                   /\ symbols'[i].total = symbols[i].total
                   /\ i # s /\ symbols'[i].prototype => symbols[i].prototype
              /\ d.type.fun /\ ~ IsPrototype(d) => ~ symbols'[t].prototype
              /\ ~ resolve_err' =>
                   /\ ~ resolve_err /\ d.type.fun
                   /\ ~ IsPrototype(d) => symbols[t].prototype
  BY RedeclareEffect DEF FInv
<1>3. /\ Current(s)
      /\ Len(todo) = 1 \/ Len(todo) >= 2
      /\ Len(todo) = 1 => Global(s) /\ s = Len(symbols)
      /\ Len(todo) >= 2 => Local(s) /\ Deep(s)
  BY <1>1, <1>2, BindFacts DEF FInv
<1>4. /\ ParamsKept /\ SlotsSameBut(NULL) /\ GlobalsKeptBut(s)
      /\ resolve_err => resolve_err'
  BY <1>2 DEF ParamsKept, SlotsSameBut, GlobalsKeptBut
<1>5. CASE Len(todo) = 1
  <2>1. t # NULL
    BY <1>2, SymbolFacts DEF FInv, SInv
  <2>2. ASSUME ~ resolve_err'
        PROVE  /\ d.type.fun /\ d.code # <<>> => ~ symbols'[Target(d, s, t)].prototype
               /\ \A i \in DOMAIN functions : IsDefinition(functions[i]) =>
                    functions[i].symbol # Target(d, s, t)
    <3>1. CASE IsPrototype(d)
      <4>1. Target(d, s, t) = s /\ d.code = <<>>
        BY <3>1 DEF Target, IsPrototype
      <4>2. \A i \in DOMAIN functions : IsDefinition(functions[i]) =>
              functions[i].symbol # s
        BY <1>1, <1>3, <1>5, TopOlder, DefinitionSymbol DEF FInv, SInv, FinishedInv
      <4> QED
        BY <4>1, <4>2
    <3>2. CASE ~ IsPrototype(d)
      <4>1. Target(d, s, t) = t /\ symbols[t].prototype /\ ~ symbols'[t].prototype
            /\ ~ resolve_err
        BY <1>2, <2>1, <2>2, <3>2 DEF Target
      <4>2. \A i \in DOMAIN functions : IsDefinition(functions[i]) =>
              ~ symbols[functions[i].symbol].prototype
        BY <4>1 DEF FInv, FinishedInv, FramesInv, FrameOf
      <4> QED
        BY <4>1, <4>2
    <3> QED
      BY <3>1, <3>2
  <2> QED
    BY <1>1, <1>2, <1>3, <1>4, <1>5, <2>2, BindTop
<1>6. CASE Len(todo) >= 2
  <2>1. GlobalsKeptBut(NULL)
    BY <1>3, <1>4, <1>6 DEF GlobalsKeptBut, Deep, IsGlobal
  <2> QED
    BY <1>1, <1>2, <1>3, <1>4, <1>6, <2>1, BindInside
<1> QED
  BY <1>3, <1>5, <1>6

(* The total of a function is set and its declaration is finished. *)
TotalSet(c) ==
  /\ c.symbol \in DOMAIN symbols /\ c.own \in DOMAIN symbols
  /\ functions' = Append(functions, c) /\ UNCHANGED resolve_err
  /\ Len(symbols') = Len(symbols) /\ DOMAIN symbols' = DOMAIN symbols
  /\ KindsKept
  /\ \A i \in DOMAIN symbols :
       /\ symbols'[i].which = symbols[i].which
       /\ symbols'[i].prototype = symbols[i].prototype
       /\ i # c.symbol => symbols'[i].total = symbols[i].total

(* The total set at the end of a function changes that of one symbol, and  *)
(* no slot.                                                                *)
LEMMA TotalSame ==
  ASSUME TypesInv, NEW c \in Total, TotalSet(c)
  PROVE  /\ ParamsKept /\ SlotsSameBut(NULL) /\ GlobalsKeptBut(c.symbol)
         /\ \A s : InFrame(s)' /\ s \in DOMAIN symbols => InFrame(s)
         /\ \A s, t : SameFrame(s, t)' => SameFrame(s, t)
         /\ \A f : f.own \in DOMAIN symbols => IsDefinition(f)' = IsDefinition(f)
         /\ \A s : Global(s) => Global(s)'
         /\ Deep(c.symbol) => GlobalsKeptBut(NULL)
<1>1. /\ ParamsKept /\ SlotsSameBut(NULL) /\ GlobalsKeptBut(c.symbol)
  BY DEF TotalSet, ParamsKept, SlotsSameBut, GlobalsKeptBut
<1>2. \A s \in DOMAIN symbols : IsGlobal(s)' = IsGlobal(s)
  BY DEF TotalSet, KindsKept, IsGlobal
<1>3. \A s : InFrame(s)' /\ s \in DOMAIN symbols => InFrame(s)
  BY <1>2 DEF TotalSet, InFrame
<1>4. \A s, t : SameFrame(s, t)' => SameFrame(s, t)
  BY <1>2 DEF TotalSet, SameFrame
<1>5. \A f : f.own \in DOMAIN symbols => IsDefinition(f)' = IsDefinition(f)
  BY <1>2 DEF IsDefinition
<1>6. \A s : Global(s) => Global(s)'
  BY <1>2 DEF TotalSet, Global
<1>7. Deep(c.symbol) => GlobalsKeptBut(NULL)
  BY DEF TotalSet, GlobalsKeptBut, Deep, IsGlobal
<1> QED
  BY <1>1, <1>3, <1>4, <1>5, <1>6, <1>7

(* The function finished is the last of the list.                          *)
LEMMA TotalAppended ==
  ASSUME FinishedTyped, NEW c \in Total, functions' = Append(functions, c)
  PROVE  /\ functions' \in Seq(Total)
         /\ \A i \in DOMAIN functions : i \in DOMAIN functions' /\ functions'[i] = functions[i]
         /\ \A i \in DOMAIN functions' :
              i \in DOMAIN functions \/ functions'[i] = c
<1>1. functions \in Seq(Total) /\ Len(functions) \in Nat
  BY DEF FinishedTyped
<1>2. PICK n \in Nat : n = Len(functions)
  BY <1>1
<1>3. /\ DOMAIN functions = 1 .. n /\ DOMAIN functions' = 1 .. n + 1
      /\ \A i \in 1 .. n : functions'[i] = functions[i]
      /\ functions'[n + 1] = c
  BY <1>1, <1>2
<1>4. \A i \in 1 .. n + 1 : i \in 1 .. n \/ i = n + 1
  OBVIOUS
<1> QED
  BY <1>1, <1>3, <1>4

(* What is said of the functions, when the new one's frame fits. *)
LEMMA FinishedTotal ==
  ASSUME SInv, FinishedInv, TypesInv', NEW c \in Total, TotalSet(c),
         IsDefinition(c) =>
           /\ Global(c.symbol) /\ c.symbol <= c.own
           /\ ~ resolve_err => FrameOf(c)',
         ~ resolve_err => \A i \in DOMAIN functions : IsDefinition(functions[i]) =>
           functions[i].symbol # c.symbol
  PROVE  FinishedTyped' /\ FramesInv'
<1>1. /\ ParamsKept /\ SlotsSameBut(NULL) /\ GlobalsKeptBut(c.symbol) /\ KindsKept
      /\ DOMAIN symbols' = DOMAIN symbols /\ c.own \in DOMAIN symbols
      /\ functions' = Append(functions, c) /\ UNCHANGED resolve_err
      /\ \A f : f.own \in DOMAIN symbols => IsDefinition(f)' = IsDefinition(f)
      /\ \A s : Global(s) => Global(s)'
  BY TotalSame DEF TotalSet, SInv
<1>2. /\ functions' \in Seq(Total)
      /\ \A i \in DOMAIN functions' :
           \/ i \in DOMAIN functions /\ functions'[i] = functions[i]
           \/ functions'[i] = c
  BY <1>1, TotalAppended DEF FinishedInv
<1>3. ASSUME NEW i \in DOMAIN functions'
      PROVE  /\ functions'[i].own \in DOMAIN symbols'
             /\ IsDefinition(functions[i])' =>
                  /\ Global(functions[i].symbol)'
                  /\ functions'[i].symbol <= functions'[i].own
                  /\ ~ resolve_err' => FrameOf(functions[i])'
  <2>1. PICK f \in Total : f = functions'[i]
    BY <1>2
  <2>2. /\ f.own \in DOMAIN symbols
        /\ IsDefinition(f) => Global(f.symbol) /\ f.symbol <= f.own
        /\ IsDefinition(f) /\ ~ resolve_err => FrameOf(f)'
    <3>1. CASE f = c
      BY <1>1, <3>1
    <3>2. CASE i \in DOMAIN functions /\ f = functions[i]
      <4>1. /\ f.own \in DOMAIN symbols
            /\ IsDefinition(f) => Global(f.symbol) /\ f.symbol <= f.own
        BY <3>2 DEF FinishedInv, FinishedTyped
      <4>2. ASSUME IsDefinition(f), ~ resolve_err
            PROVE  FrameOf(f)'
        <5>1. FrameOf(f) /\ f.symbol # c.symbol
          BY <3>2, <4>2 DEF FinishedInv, FramesInv
        <5> QED
          BY <1>1, <4>1, <4>2, <5>1, NullNoSymbol, FrameKept DEF SInv
      <4> QED
        BY <4>1, <4>2
    <3> QED
      BY <1>2, <2>1, <3>1, <3>2
  <2>3. /\ f.own \in DOMAIN symbols'
        /\ IsDefinition(f)' => /\ Global(f.symbol)' /\ f.symbol <= f.own
                               /\ ~ resolve_err' => FrameOf(f)'
    BY <1>1, <2>2
  <2>4. IsDefinition(functions[i])' <=> IsDefinition(f)'
    BY <2>1 DEF IsDefinition, IsGlobal
  <2>5. Global(functions[i].symbol)' <=> Global(f.symbol)'
    BY <2>1 DEF Global, IsGlobal
  <2>6. FrameOf(functions[i])' <=> FrameOf(f)'
    BY <2>1 DEF FrameOf, SameFrame
  <2> QED
    BY <2>1, <2>3, <2>4, <2>5, <2>6
<1>4. FinishedTyped'
  BY <1>2, <1>3 DEF FinishedTyped
<1>5. FramesInv'
  BY <1>3 DEF FramesInv
<1> QED
  BY <1>4, <1>5

(* The frame of the function that ends. *)
LEMMA FrameOfTotal ==
  ASSUME SInv, NEW calls \in Seq(AnyCall), FunctionBody(calls), PendingInv(calls),
         ParamsDone(calls), NEW c \in Total, c = LastOf(calls).arg, TotalSet(c),
         symbols'[c.symbol].total = Top.num_vars, Len(scopes) >= 2,
         ~ resolve_err, c.decl.code # <<>>
  PROVE  FrameOf(c)'
<1>1. /\ Global(c.own) /\ Current(c.own) /\ c.own \in Nat /\ c.own <= Len(symbols)
      /\ Made(c) \in Nat /\ Len(symbols) = c.own + Made(c)
      /\ Len(c.decl.params) \in Nat
      /\ DOMAIN c.decl.params = 1 .. Len(c.decl.params)
  BY PendingFacts DEF SInv
<1>2. PICK o \in Nat, m \in Nat, p \in Nat :
        /\ o = c.own /\ m = Made(c) /\ p = Len(c.decl.params) /\ m >= p
        /\ Len(symbols) = o + m
  BY <1>1 DEF ParamsDone
<1>3. ~ symbols'[c.symbol].prototype
  BY DEF PendingInv, TotalSet
<1>4. ASSUME NEW k \in 1 .. p
      PROVE  /\ c.own + k \in DOMAIN symbols' /\ symbols'[c.own + k].kind = "PARAM"
             /\ symbols'[c.own + k].which = k - 1
  <2>1. k <= m /\ o + k \in 1 .. Len(symbols)
    BY SMTT(30), <1>2
  <2>2. o + k \in DOMAIN symbols
    BY <2>1, LevelFacts DEF SInv
  <2>3. symbols[o + k].kind = "PARAM" /\ symbols[o + k].which = k - 1
    BY <1>1, <1>2, <2>1 DEF PendingInv, ParamsInv
  <2> QED
    BY <1>2, <2>2, <2>3 DEF TotalSet, KindsKept
<1>5. ASSUME NEW s \in DOMAIN symbols', InFrame(s)', SameFrame(s, c.own)'
      PROVE  symbols'[s].which < symbols'[c.symbol].total
  <2>1. s \in DOMAIN symbols /\ InFrame(s) /\ SameFrame(s, c.own)
    BY <1>5, TotalSame DEF TotalSet, SInv
  <2>2. Current(s)
    BY <1>1, <2>1 DEF Current, SameFrame
  <2>3. symbols[s].which < Top.num_vars
    BY <2>1, <2>2 DEF SInv, SlotsInv
  <2> QED
    BY <2>1, <2>3 DEF TotalSet
<1> QED
  BY <1>1, <1>2, <1>3, <1>4, <1>5 DEF FrameOf

(* The function in whose body another one ends. *)
LEMMA PendingTotal ==
  ASSUME SInv, FinishedTyped, NEW c \in Total, TotalSet(c), Deep(c.own), Deep(c.symbol),
         NEW calls \in Seq(AnyCall), FunctionBody(calls), PendingInv(calls)
  PROVE  PendingInv(calls)'
<1>1. PICK f \in Total :
           /\ f = LastOf(calls).arg
           /\ f.own \in Nat /\ f.symbol \in DOMAIN symbols
           /\ Made(f) \in Nat /\ Len(symbols) = f.own + Made(f)
  BY PendingFacts DEF SInv
<1>2. Made(f)' = Made(f)
  BY DEF Made, TotalSet
<1>3. ASSUME NEW i \in DOMAIN functions', IsDefinition(functions[i])'
      PROVE  i \in DOMAIN functions /\ functions'[i] = functions[i] /\ IsDefinition(functions[i])
  <2>1. PICK g \in Total : g = functions'[i]
    BY TotalAppended DEF TotalSet
  <2>2. IsDefinition(g)'
    BY <1>3, <2>1 DEF IsDefinition, IsGlobal
  <2>3. g # c
    BY <2>2, TotalSame DEF IsDefinition, Deep, TotalSet, SInv
  <2>4. i \in DOMAIN functions /\ g = functions[i]
    BY <2>1, <2>3, TotalAppended DEF TotalSet
  <2>5. g.own \in DOMAIN symbols
    BY <2>4 DEF FinishedTyped
  <2>6. IsDefinition(g)
    BY <2>2, <2>5, TotalSame DEF SInv
  <2> QED
    BY <2>1, <2>4, <2>6
<1>4. ParamsInv(calls) => ParamsInv(calls)'
  <2>1. SUFFICES ASSUME ParamsInv(calls) PROVE ParamsInv(calls)'
    OBVIOUS
  <2>2. \A i \in DOMAIN calls :
          calls[i].do = "param" <=> i <= Len(f.decl.params) - Made(f)'
    BY <1>1, <1>2, <2>1 DEF ParamsInv
  <2>3. ASSUME NEW k \in DOMAIN f.decl.params, k <= Made(f)
        PROVE  symbols'[f.own + k].kind = "PARAM" /\ symbols'[f.own + k].which = k - 1
    <3>1. symbols[f.own + k].kind = "PARAM" /\ symbols[f.own + k].which = k - 1
      BY <1>1, <2>1, <2>3 DEF ParamsInv
    <3>2. k \in Nat /\ k >= 1
      <4>1. f.decl.params \in Seq(Names)
        BY SourcesAssumption DEF Total
      <4> QED
        BY <4>1
    <3>3. PICK o \in Nat, m \in Nat : o = f.own /\ m = Made(f) /\ Len(symbols) = o + m
      BY <1>1
    <3>4. o + k \in 1 .. Len(symbols)
      BY <2>3, <3>2, <3>3
    <3>5. f.own + k \in DOMAIN symbols
      BY <3>3, <3>4, LevelFacts DEF SInv
    <3> QED
      BY <3>1, <3>5 DEF TotalSet, KindsKept
  <2> QED
    BY <1>1, <1>2, <2>2, <2>3 DEF ParamsInv, LastOf
<1> QED
  BY <1>1, <1>3, <1>4 DEF PendingInv, TotalSet, LastOf

(* The total preserves the invariant: the frame it finishes fits.          *)
LEMMA TotalFInv ==
  ASSUME FInv, SInv', SetTotal
  PROVE  FInv'
<1>1. /\ Calls # <<>> /\ Call.do = "total" /\ Len(todo) >= 2
      /\ UNCHANGED <<scopes, resolve_err>> /\ Replace(<<>>)
  BY TotalEffect DEF FInv
<1>2. PICK c \in Total :
              /\ c = Call.arg /\ TotalSet(c) /\ symbols'[c.symbol].total = Top.num_vars
              /\ Len(todo) = 2 =>
                   Global(c.own) /\ Global(c.symbol) /\ c.symbol <= c.own
              /\ Len(todo) > 2 => Deep(c.own) /\ Deep(c.symbol)
  BY <1>1, TotalEffect DEF TotalSet, FInv
<1>3. /\ FunctionBody(todo[2]) /\ PendingInv(todo[2])
      /\ todo[2] \in Seq(AnyCall) /\ \A k \in DOMAIN todo[1] : todo[1][k].do = "decl"
      /\ ParamsDone(todo[2]) /\ (Len(todo) = 2 \/ Len(todo) > 2)
  BY <1>1, PendingFunction DEF FInv
<1>4. PICK new \in Seq(AnyCall) : new = <<>> /\ Len(new) = 0
  BY EmptyCalls
<1>5. /\ Len(todo') = Len(todo) /\ Len(todo) \in Nat
      /\ \A i \in 1 .. Len(todo) - 1 : todo'[i] = todo[i]
      /\ \E t \in Seq(AnyCall) : t = todo'[Len(todo)] /\ Len(t) = Len(new) + Len(Calls) - 1
  BY <1>1, <1>4, ReplaceFacts, LevelFacts DEF FInv, SInv
<1>6. todo'[1] = todo[1]
  BY <1>1, <1>5
<1>7. \A k \in DOMAIN todo'[1] : todo'[1][k].do = "decl"
  BY <1>3, <1>6
<1>8. OlderInv'
  BY <1>7 DEF OlderInv
<1>9. PICK calls \in Seq(AnyCall) : calls = todo[2]
  BY <1>3
<1>10. CASE Len(todo) = 2
  <2>1. Calls = calls /\ Call = calls[1] /\ Len(calls) \in Nat \ {0}
    BY <1>1, <1>9, <1>10, LevelFacts, CallFacts DEF FInv, SInv
  <2>2. Len(calls) = 1
    <3>1. \A i \in 1 .. Len(calls) - 1 : calls[i].do # "total"
      BY <1>3, <1>9 DEF FunctionBody
    <3>2. calls[1].do = "total"
      BY <1>1, <2>1
    <3>3. ~ 1 \in 1 .. Len(calls) - 1
      BY <3>1, <3>2
    <3>4. PICK n \in Nat : n = Len(calls) /\ n # 0
      BY <2>1
    <3>5. ~ 1 <= n - 1
      BY <3>3, <3>4
    <3> QED
      BY <3>4, <3>5
  <2>3. c = LastOf(calls).arg
    BY <1>2, <2>1, <2>2 DEF LastOf
  <2>4. todo'[2] = <<>>
    <3>1. PICK t \in Seq(AnyCall) : t = todo'[2] /\ Len(t) = 0
      BY <1>4, <1>5, <1>10, <2>1, <2>2
    <3>2. t = <<>>
      BY <3>1
    <3> QED
      BY <3>1, <3>2
  <2>5. ResolvingInv'
    BY <1>7, <2>4 DEF ResolvingInv
  <2>6. Len(scopes) >= 2
    BY <1>1, LevelFacts DEF FInv, SInv
  <2>7. IsDefinition(c) /\ ~ resolve_err => FrameOf(c)'
    BY <1>2, <1>3, <1>9, <2>3, <2>6, FrameOfTotal DEF FInv, IsDefinition
  <2>8. \A i \in DOMAIN functions : IsDefinition(functions[i]) /\ ~ resolve_err =>
                 functions[i].symbol # c.symbol
    BY <1>3, <1>9, <2>3 DEF PendingInv
  <2>9. FinishedTyped' /\ FramesInv'
    BY <1>2, <1>10, <2>7, <2>8, FinishedTotal DEF FInv, SInv
  <2> QED
    BY <1>8, <2>5, <2>9 DEF FInv, FinishedInv
<1>11. CASE Len(todo) > 2
  <2>1. Deep(c.own) /\ Deep(c.symbol)
    BY <1>2, <1>11
  <2>2. ~ IsDefinition(c)
    BY <2>1 DEF IsDefinition, Deep
  <2>3. \A i \in DOMAIN functions : IsDefinition(functions[i]) =>
          functions[i].symbol # c.symbol
    BY <2>1 DEF FInv, FinishedInv, FinishedTyped, Global, Deep
  <2>4. FinishedTyped' /\ FramesInv'
    BY <1>2, <2>2, <2>3, FinishedTotal DEF FInv, SInv
  <2>5. todo'[2] = calls
    <3>1. 2 \in 1 .. Len(todo) - 1
      BY <1>5, <1>11
    <3> QED
      BY <1>5, <1>9, <3>1
  <2>6. PendingInv(calls)'
    BY <1>2, <1>3, <1>9, <2>1, PendingTotal DEF FInv, FinishedInv
  <2>7. ~ resolve_err => ~ Made(LastOf(calls).arg)' < Len(LastOf(calls).arg.decl.params)
    <3>1. PICK f \in Total : f = LastOf(calls).arg /\ Made(f) \in Nat
                             /\ Len(f.decl.params) \in Nat
      BY <1>3, <1>9, PendingFacts DEF FInv, SInv
    <3>2. Made(f)' = Made(f)
      BY <1>2 DEF Made, TotalSet
    <3>3. ~ resolve_err => Made(f) >= Len(f.decl.params)
      BY <1>3, <1>9, <3>1 DEF ParamsDone
    <3>4. ~ resolve_err => ~ Made(f) < Len(f.decl.params)
      BY <3>1, <3>3
    <3> QED
      BY <3>1, <3>2, <3>4 DEF Made
  <2>8. ResolvingInv'
    <3>1. PendingInv(todo[2])'
      BY <2>5, <2>6
    <3>2. ~ (~ resolve_err /\ Made(LastOf(todo[2]).arg)
                               < Len(LastOf(todo[2]).arg.decl.params))'
      BY <1>1, <2>5, <2>7 DEF LastOf, Made
    <3> QED
      BY <1>7, <3>1, <3>2 DEF ResolvingInv
  <2> QED
    BY <1>8, <2>4, <2>8 DEF FInv, FinishedInv
<1> QED
  BY <1>3, <1>10, <1>11

(* Resolution starts in the invariant of the frames.                       *)
LEMMA InitFInv ==
  ASSUME ResolveInit
  PROVE  FInv
<1>1. /\ Len(todo) = 1 /\ functions = <<>>
      /\ \A i \in DOMAIN todo[1] : todo[1][i].do = "decl"
  BY InitTypes
<1>2. functions \in Seq(Total) /\ DOMAIN functions = {}
  BY <1>1
<1>3. FinishedInv
  BY <1>2 DEF FinishedInv, FinishedTyped, FramesInv, OlderInv
<1>4. ResolvingInv
  BY <1>1 DEF ResolvingInv
<1> QED
  BY <1>3, <1>4, InitSInv DEF FInv

(* A step that leaves it all as it is preserves it.                        *)
LEMMA SameFInv ==
  ASSUME FInv, SInv', Standing
  PROVE  FInv'
<1>1. UNCHANGED <<todo, scopes, symbols, resolve_err, resolved, functions>>
  BY DEF Standing
<1>2. SInv'
  OBVIOUS
<1>3. FinishedInv'
  BY <1>1 DEF FInv, FinishedInv, FinishedTyped, FramesInv, OlderInv, IsDefinition,
              IsGlobal, Global, FrameOf, InFrame, SameFrame
<1>4. ResolvingInv'
  BY ZenonT(30), <1>1
     DEF FInv, ResolvingInv, PendingInv, ParamsInv, IsDefinition, IsGlobal,
         Made, LastOf, Top
<1> QED
  BY <1>2, <1>3, <1>4 DEF FInv

(* Every step preserves it.                                                *)
LEMMA StepFInv ==
  ASSUME FInv, [Next]_vars
  PROVE  FInv'
<1>1. SInv'
  BY StepSInv DEF FInv
<1>2. CASE scope_enter
  BY <1>1, <1>2, EnterFInv
<1>3. CASE scope_exit
  BY <1>1, <1>3, ExitFInv
<1>4. CASE expr_resolve
  BY <1>1, <1>4, UseFInv
<1>5. CASE stmt_resolve
  BY <1>1, <1>5, StmtFInv
<1>6. CASE param_list_resolve
  BY <1>1, <1>6, ParamFInv
<1>7. CASE CreateSymbol
  BY <1>1, <1>7, CreateFInv
<1>8. CASE BindNew
  BY <1>1, <1>8, BindNewFInv
<1>9. CASE Redeclare
  BY <1>1, <1>9, RedeclareFInv
<1>10. CASE SetTotal
  BY <1>1, <1>10, TotalFInv
<1>11. CASE Standing
  BY <1>1, <1>11, SameFInv
<1> QED
  BY <1>2, <1>3, <1>4, <1>5, <1>6, <1>7, <1>8, <1>9, <1>10, <1>11, StepOrStanding
     DEF Step

(* While resolution has found no error, the parameters of the function     *)
(* being resolved have the slots they are pushed to, and every function    *)
(* finished has a total above all its slots (decl_resolve,                 *)
(* param_list_resolve).                                                    *)
THEOREM FInvHolds == Spec => []FInv
<1>1. ResolveInit => FInv
  BY InitFInv
<1>2. FInv /\ [Next]_vars => FInv'
  BY StepFInv
<1> QED
  BY <1>1, <1>2, PTL DEF Spec

(* When resolution finds no error, the prologue's frame fits the function: *)
(* parameter i is where it is pushed, and every slot is below the total,   *)
(* whichever of its prototypes' symbols keeps that.                        *)
THEOREM FramesAlwaysFit == Spec => []FrameFits
<1>1. FInv => FrameFits
  BY DEF FInv, FinishedInv, FramesInv, FrameOf, FrameFits
<1> QED
  BY <1>1, FInvHolds, PTL
=============================================================================
