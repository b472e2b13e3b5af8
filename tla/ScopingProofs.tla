--------------------------- MODULE ScopingProofs ---------------------------
(***************************************************************************)
(* Name resolution is static scoping, for every set of programs: every use *)
(* is bound to the declaration that it means, and an error is reported     *)
(* exactly for the programs that break the rules.                          *)
(*                                                                         *)
(* The proof follows the text of the program.  What todo has yet to make   *)
(* is a text, so that in every state the program's text is the part that   *)
(* has been gone through and that one; and the tables of the scopes, the   *)
(* flags of the symbols, the uses resolved and the error flag are those    *)
(* that the declarations visible in the first part call for.               *)
(***************************************************************************)
EXTENDS ResolveProofs

(***************************************************************************)
(* Static scoping.  Texts are sequences, put behind each other.            *)
(***************************************************************************)

(* The first k sequences of b behind each other, as f runs through them. *)
UpTo(f, k) == IF k = 0 THEN <<>> ELSE f[k]

(* FlattenSeq goes through its sequences one by one. *)
LEMMA FlattenRuns ==
  ASSUME NEW S, NEW b \in Seq(Seq(S))
  PROVE  \E f : /\ FlattenSeq(b) = UpTo(f, Len(b))
                /\ \A k \in 1 .. Len(b) : UpTo(f, k) = UpTo(f, k - 1) \o b[k]
                /\ \A k \in 0 .. Len(b) : UpTo(f, k) \in Seq(S)
<1>1. Len(b) \in Nat /\ \A k \in 1 .. Len(b) : b[k] \in Seq(S)
  BY ElementOfSeq
<1>2. PICK f : Flattens(f, b) /\ (Len(b) # 0 => FlattenSeq(b) = f[Len(b)])
  <2>1. CASE Len(b) = 0
    BY <1>1, <2>1, FlatteningExists
  <2>2. CASE Len(b) # 0
    <3>1. PICK g : Flattens(g, b)
      BY <1>1, FlatteningExists
    <3> QED
      BY <2>2, <3>1 DEF Flattens, FlattenSeq
  <2> QED
    BY <2>1, <2>2
<1>3. FlattenSeq(b) = UpTo(f, Len(b))
  <2>1. Len(b) = 0 => FlattenSeq(b) = b /\ b = <<>>
    BY <1>1 DEF FlattenSeq
  <2> QED
    BY <1>2, <2>1 DEF UpTo
<1>4. \A k \in 1 .. Len(b) : UpTo(f, k) = UpTo(f, k - 1) \o b[k]
  <2>1. TAKE k \in 1 .. Len(b)
  <2>2. k # 0 /\ k \in Nat /\ UpTo(f, k) = f[k]
    BY <1>1 DEF UpTo
  <2>3. f[k] = IF k = 1 THEN b[k] ELSE f[k - 1] \o b[k]
    BY <1>2 DEF Flattens
  <2>4. CASE k = 1
    <3>1. UpTo(f, k - 1) = <<>>
      BY <2>4 DEF UpTo
    <3>2. <<>> \o b[k] = b[k]
      BY <1>1, ConcatEmptySeq
    <3> QED
      BY <2>2, <2>3, <2>4, <3>1, <3>2
  <2>5. CASE k # 1
    <3>1. UpTo(f, k - 1) = f[k - 1]
      BY <2>2, <2>5 DEF UpTo
    <3> QED
      BY <2>2, <2>3, <2>5, <3>1
  <2> QED
    BY <2>4, <2>5
<1>5. \A k \in 0 .. Len(b) : UpTo(f, k) \in Seq(S)
  <2> DEFINE T == {k \in Nat : k \in 0 .. Len(b) => UpTo(f, k) \in Seq(S)}
  <2>1. 0 \in T
    BY DEF UpTo
  <2>2. ASSUME NEW k \in Nat, k \in T
        PROVE  k + 1 \in T
    <3>1. SUFFICES ASSUME k + 1 \in 0 .. Len(b)
                   PROVE  UpTo(f, k + 1) \in Seq(S)
      OBVIOUS
    <3>2. k \in 0 .. Len(b) /\ k + 1 \in 1 .. Len(b) /\ (k + 1) - 1 = k
      BY <1>1, <3>1
    <3>3. UpTo(f, k + 1) = UpTo(f, k) \o b[k + 1]
      BY <1>4, <3>2
    <3>4. UpTo(f, k) \in Seq(S) /\ b[k + 1] \in Seq(S)
      BY <1>1, <2>2, <3>2
    <3> QED
      BY <3>3, <3>4, ConcatProperties
  <2> HIDE DEF T
  <2>3. \A k \in Nat : k \in T
    BY <2>1, <2>2, NaturalInduction
  <2> QED
    BY <1>1, <2>3 DEF T
<1> QED
  BY <1>3, <1>4, <1>5

(* A sequence of sequences put behind each other is one sequence. *)
LEMMA FlattenTyped ==
  ASSUME NEW S, NEW b \in Seq(Seq(S))
  PROVE  FlattenSeq(b) \in Seq(S)
<1>1. Len(b) \in 0 .. Len(b)
  OBVIOUS
<1> QED
  BY <1>1, FlattenRuns

(* None and one of them. *)
LEMMA FlattenNone == FlattenSeq(<<>>) = <<>>
BY DEF FlattenSeq

(* One sequence alone is flattened to itself. *)
LEMMA FlattenOne ==
  ASSUME NEW S, NEW s \in Seq(S)
  PROVE  FlattenSeq(<<s>>) = s
<1>1. PICK b \in Seq(Seq(S)) : b = <<s>> /\ Len(b) = 1 /\ b[1] = s
  <2>1. s \in Seq(S)
    OBVIOUS
  <2>2. PICK T : T = Seq(S)
    OBVIOUS
  <2>3. <<s>> \in Seq(T)
    BY <2>1, <2>2
  <2> QED
    BY <2>2, <2>3
<1>2. PICK f : /\ FlattenSeq(b) = UpTo(f, Len(b))
               /\ \A k \in 1 .. Len(b) : UpTo(f, k) = UpTo(f, k - 1) \o b[k]
  BY FlattenRuns
<1>3. UpTo(f, 1) = UpTo(f, 1 - 1) \o s
  <2>1. 1 \in 1 .. Len(b)
    BY <1>1
  <2>2. UpTo(f, 1) = UpTo(f, 1 - 1) \o b[1]
    BY <1>2, <2>1
  <2> QED
    BY <1>1, <2>2
<1>4. UpTo(f, 1 - 1) = <<>>
  BY DEF UpTo
<1> QED
  BY <1>1, <1>2, <1>3, <1>4, ConcatEmptySeq

(* Those of one list and then those of another. *)
LEMMA FlattenConcat ==
  ASSUME NEW S, NEW a \in Seq(Seq(S)), NEW b \in Seq(Seq(S))
  PROVE  FlattenSeq(a \o b) = FlattenSeq(a) \o FlattenSeq(b)
<1>1. PICK n \in Nat, m \in Nat : n = Len(a) /\ m = Len(b)
  OBVIOUS
<1>2. PICK c \in Seq(Seq(S)) :
        /\ c = a \o b /\ Len(c) = n + m
        /\ \A k \in 1 .. n : c[k] = a[k]
        /\ \A k \in 1 .. m : c[n + k] = b[k]
  <2>1. /\ a \o b \in Seq(Seq(S)) /\ Len(a \o b) = n + m
        /\ \A i \in 1 .. n + m : (a \o b)[i] = IF i <= n THEN a[i] ELSE b[i - n]
    BY <1>1, ConcatProperties
  <2>2. \A k \in 1 .. n : (a \o b)[k] = a[k]
    <3>1. \A k \in 1 .. n : k \in 1 .. n + m /\ k <= n
      OBVIOUS
    <3> QED
      BY <2>1, <3>1
  <2>3. \A k \in 1 .. m : (a \o b)[n + k] = b[k]
    <3>1. \A k \in 1 .. m : n + k \in 1 .. n + m /\ ~ n + k <= n /\ (n + k) - n = k
      OBVIOUS
    <3> QED
      BY <2>1, <3>1
  <2> QED
    BY <2>1, <2>2, <2>3
<1>3. PICK f : /\ FlattenSeq(a) = UpTo(f, n)
               /\ \A k \in 1 .. n : UpTo(f, k) = UpTo(f, k - 1) \o a[k]
               /\ \A k \in 0 .. n : UpTo(f, k) \in Seq(S)
  BY <1>1, FlattenRuns
<1>4. PICK g : /\ FlattenSeq(b) = UpTo(g, m)
               /\ \A k \in 1 .. m : UpTo(g, k) = UpTo(g, k - 1) \o b[k]
               /\ \A k \in 0 .. m : UpTo(g, k) \in Seq(S)
  BY <1>1, FlattenRuns
<1>5. PICK h : /\ FlattenSeq(c) = UpTo(h, n + m)
               /\ \A k \in 1 .. n + m : UpTo(h, k) = UpTo(h, k - 1) \o c[k]
  <2>1. PICK h : /\ FlattenSeq(c) = UpTo(h, Len(c))
                 /\ \A k \in 1 .. Len(c) : UpTo(h, k) = UpTo(h, k - 1) \o c[k]
    BY FlattenRuns
  <2>2. Len(c) = n + m
    BY <1>2
  <2> QED
    BY <2>1, <2>2
<1>6. \A k \in 0 .. n : UpTo(h, k) = UpTo(f, k)
  <2> DEFINE T == {k \in Nat : k \in 0 .. n => UpTo(h, k) = UpTo(f, k)}
  <2>1. 0 \in T
    BY DEF UpTo
  <2>2. ASSUME NEW k \in Nat, k \in T
        PROVE  k + 1 \in T
    <3>1. SUFFICES ASSUME k + 1 \in 0 .. n
                   PROVE  UpTo(h, k + 1) = UpTo(f, k + 1)
      OBVIOUS
    <3>2. /\ k \in 0 .. n /\ k + 1 \in 1 .. n /\ k + 1 \in 1 .. n + m
          /\ (k + 1) - 1 = k
      BY <3>1
    <3>3. UpTo(h, k + 1) = UpTo(h, k) \o a[k + 1]
      BY <1>2, <1>5, <3>2
    <3>4. UpTo(f, k + 1) = UpTo(f, k) \o a[k + 1]
      BY <1>3, <3>2
    <3> QED
      BY <2>2, <3>2, <3>3, <3>4
  <2> HIDE DEF T
  <2>3. \A k \in Nat : k \in T
    BY <2>1, <2>2, NaturalInduction
  <2> QED
    BY <2>3 DEF T
<1>7. \A k \in 0 .. m : UpTo(h, n + k) = UpTo(f, n) \o UpTo(g, k)
  <2> DEFINE T == {k \in Nat : k \in 0 .. m =>
                                 UpTo(h, n + k) = UpTo(f, n) \o UpTo(g, k)}
  <2>0. UpTo(f, n) \in Seq(S)
    BY <1>3
  <2>1. 0 \in T
    <3>1. UpTo(h, n + 0) = UpTo(f, n)
      BY <1>6
    <3>2. UpTo(g, 0) = <<>>
      BY DEF UpTo
    <3> QED
      BY <2>0, <3>1, <3>2, ConcatEmptySeq
  <2>2. ASSUME NEW k \in Nat, k \in T
        PROVE  k + 1 \in T
    <3>1. SUFFICES ASSUME k + 1 \in 0 .. m
                   PROVE  UpTo(h, n + (k + 1)) = UpTo(f, n) \o UpTo(g, k + 1)
      OBVIOUS
    <3>2. /\ k \in 0 .. m /\ k + 1 \in 1 .. m /\ n + (k + 1) \in 1 .. n + m
          /\ (k + 1) - 1 = k /\ (n + (k + 1)) - 1 = n + k
      BY <3>1
    <3>3. UpTo(h, n + (k + 1)) = UpTo(h, n + k) \o b[k + 1]
      BY <1>2, <1>5, <3>2
    <3>4. UpTo(g, k + 1) = UpTo(g, k) \o b[k + 1]
      BY <1>4, <3>2
    <3>5. UpTo(h, n + k) = UpTo(f, n) \o UpTo(g, k)
      BY <2>2, <3>2
    <3>6. UpTo(g, k) \in Seq(S) /\ b[k + 1] \in Seq(S)
      BY <1>1, <1>4, <3>2, ElementOfSeq
    <3>7. (UpTo(f, n) \o UpTo(g, k)) \o b[k + 1] = UpTo(f, n) \o (UpTo(g, k) \o b[k + 1])
      <4>1. PICK x \in Seq(S), y \in Seq(S), z \in Seq(S) :
                x = UpTo(f, n) /\ y = UpTo(g, k) /\ z = b[k + 1]
        BY <2>0, <3>6
      <4>2. (x \o y) \o z = x \o (y \o z)
        BY ConcatAssociative
      <4> QED
        BY <4>1, <4>2
    <3> QED
      BY <3>3, <3>4, <3>5, <3>7
  <2> HIDE DEF T
  <2>3. \A k \in Nat : k \in T
    BY <2>1, <2>2, NaturalInduction
  <2> QED
    BY <2>3 DEF T
<1>8. UpTo(h, n + m) = UpTo(f, n) \o UpTo(g, m)
  BY <1>7
<1> QED
  BY <1>2, <1>3, <1>4, <1>5, <1>8

(* Sequences of one element each. *)
LEMMA FlattenSingletons ==
  ASSUME NEW S, NEW s \in Seq(S), NEW b \in Seq(Seq(S)), Len(b) = Len(s),
         \A i \in 1 .. Len(s) : b[i] = <<s[i]>>
  PROVE  FlattenSeq(b) = s
<1>1. PICK n \in Nat : n = Len(s)
  OBVIOUS
<1>2. PICK f : /\ FlattenSeq(b) = UpTo(f, n)
               /\ \A k \in 1 .. n : UpTo(f, k) = UpTo(f, k - 1) \o b[k]
  <2>1. PICK f : /\ FlattenSeq(b) = UpTo(f, Len(b))
                 /\ \A k \in 1 .. Len(b) : UpTo(f, k) = UpTo(f, k - 1) \o b[k]
                 /\ \A k \in 0 .. Len(b) : UpTo(f, k) \in Seq(S)
    BY FlattenRuns
  <2>2. Len(b) = n
    BY <1>1
  <2> QED
    BY <2>1, <2>2
<1> DEFINE T == {k \in Nat : k \in 0 .. n =>
                   /\ UpTo(f, k) \in Seq(S) /\ Len(UpTo(f, k)) = k
                   /\ \A i \in 1 .. k : UpTo(f, k)[i] = s[i]}
<1>3. 0 \in T
  BY DEF UpTo
<1>4. ASSUME NEW k \in Nat, k \in T
      PROVE  k + 1 \in T
  <2>1. SUFFICES ASSUME k + 1 \in 0 .. n
                 PROVE  /\ UpTo(f, k + 1) \in Seq(S) /\ Len(UpTo(f, k + 1)) = k + 1
                        /\ \A i \in 1 .. k + 1 : UpTo(f, k + 1)[i] = s[i]
    OBVIOUS
  <2>2. k \in 0 .. n /\ k + 1 \in 1 .. n /\ (k + 1) - 1 = k
    BY <2>1
  <2>3. PICK u \in Seq(S) : /\ u = UpTo(f, k) /\ Len(u) = k
                            /\ \A i \in 1 .. k : u[i] = s[i]
    BY <1>4, <2>2
  <2>4. s[k + 1] \in S
    BY <1>1, <2>2, ElementOfSeq
  <2>5. UpTo(f, k + 1) = u \o <<s[k + 1]>>
    BY <1>1, <1>2, <2>2, <2>3
  <2>6. /\ u \o <<s[k + 1]>> \in Seq(S) /\ Len(u \o <<s[k + 1]>>) = Len(u) + 1
        /\ \A i \in 1 .. Len(u) : (u \o <<s[k + 1]>>)[i] = u[i]
        /\ (u \o <<s[k + 1]>>)[Len(u) + 1] = s[k + 1]
    BY <2>4, ThenOne
  <2>7. \A i \in 1 .. k + 1 : i \in 1 .. k \/ i = k + 1
    OBVIOUS
  <2> QED
    BY <2>3, <2>5, <2>6, <2>7
<1> HIDE DEF T
<1>5. \A k \in Nat : k \in T
  BY <1>3, <1>4, NaturalInduction
<1>6. PICK u \in Seq(S) : u = UpTo(f, n) /\ Len(u) = n /\ \A i \in 1 .. n : u[i] = s[i]
  <2>1. n \in T /\ n \in 0 .. n
    BY <1>5
  <2> QED
    BY <2>1 DEF T
<1>7. u = s
  <2>1. Len(u) = Len(s) /\ \A i \in 1 .. Len(s) : u[i] = s[i]
    BY <1>1, <1>6
  <2> QED
    BY <2>1, SeqEqual
<1> QED
  BY <1>2, <1>6, <1>7

(***************************************************************************)
(* The text that the calls in todo will still go through.                  *)
(***************************************************************************)
PlainText(c) ==
  CASE c.do = "decl" -> DeclText[c.arg]
    [] c.do = "stmt" -> StmtText[c.arg]
    [] c.do = "use" -> <<Mention(c.arg)>>
    [] c.do = "param" -> <<Parameter(c.arg)>>
    [] c.do = "bind" -> <<Declare(c.arg.decl)>> \o FunctionText(c.arg.decl)
    [] c.do = "total" -> <<>>

PlainTexts(calls) == FlattenSeq([i \in DOMAIN calls |-> PlainText(calls[i])])

CallText(c) == IF c.do = "scope" THEN Scoped(PlainTexts(c.arg)) ELSE PlainText(c)

TextOf(calls) == FlattenSeq([i \in DOMAIN calls |-> CallText(calls[i])])

(* The events are events, and texts made of them are texts. *)
LEMMA EventsTyped ==
  /\ Enter \in Event /\ Exit \in Event
  /\ \A n \in Names : Mention(n) \in Event /\ Parameter(n) \in Event
  /\ \A d \in Decls : Declare(d) \in Event
BY DEF Event

(* So are lists of uses and of parameters. *)
LEMMA MentionsTyped ==
  ASSUME NEW names \in Seq(Names)
  PROVE  Mentions(names) \in Seq(Event) /\ Parameters(names) \in Seq(Event)
<1>1. Len(names) \in Nat /\ \A i \in 1 .. Len(names) : names[i] \in Names
  BY ElementOfSeq
<1>2. /\ Mentions(names) = [i \in 1 .. Len(names) |-> Mention(names[i])]
      /\ Parameters(names) = [i \in 1 .. Len(names) |-> Parameter(names[i])]
  BY DEF Mentions, Parameters
<1>3. \A i \in 1 .. Len(names) :
        Mention(names[i]) \in Event /\ Parameter(names[i]) \in Event
  BY <1>1, EventsTyped
<1> QED
  BY <1>1, <1>2, <1>3

(* A scope around a text. *)
LEMMA ScopedTyped ==
  ASSUME NEW t \in Seq(Event)
  PROVE  /\ Scoped(t) \in Seq(Event)
         /\ <<Enter>> \in Seq(Event) /\ <<Exit>> \in Seq(Event)
         /\ t \o <<Exit>> \in Seq(Event)
         /\ Scoped(t) = <<Enter>> \o (t \o <<Exit>>)
<1>1. PICK a \in Seq(Event), b \in Seq(Event) : a = <<Enter>> /\ b = <<Exit>>
  <2>1. <<Enter>> \in Seq(Event) /\ <<Exit>> \in Seq(Event)
    BY EventsTyped
  <2> QED
    BY <2>1
<1>2. t \o b \in Seq(Event) /\ a \o t \in Seq(Event)
  BY ConcatProperties
<1>3. a \o (t \o b) \in Seq(Event)
  BY <1>2, ConcatProperties
<1>4. (a \o t) \o b = a \o (t \o b)
  BY ConcatAssociative
<1> QED
  BY <1>1, <1>2, <1>3, <1>4 DEF Scoped

(* The statements of a body, one after the other. *)
LEMMA BodyTyped ==
  ASSUME NEW body \in Seq(Stmts)
  PROVE  /\ [i \in DOMAIN body |-> StmtText[body[i]]] \in Seq(Seq(Event))
         /\ BodyText(body) \in Seq(Event)
<1>1. Len(body) \in Nat /\ \A i \in 1 .. Len(body) : body[i] \in Stmts
  BY ElementOfSeq
<1>2. PICK T : T = Seq(Event)
  OBVIOUS
<1>3. \A i \in 1 .. Len(body) : StmtText[body[i]] \in T
  BY <1>1, <1>2, StmtTextAssumption
<1>4. [i \in 1 .. Len(body) |-> StmtText[body[i]]] \in Seq(T)
  BY <1>1, <1>3
<1>5. [i \in DOMAIN body |-> StmtText[body[i]]] \in Seq(Seq(Event))
  BY <1>2, <1>4
<1> QED
  BY <1>5, FlattenTyped DEF BodyText

(* A function's text, with its scope. *)
LEMMA FunctionTyped ==
  ASSUME NEW d \in Decls
  PROVE  /\ FunctionText(d) \in Seq(Event) /\ <<Declare(d)>> \in Seq(Event)
         /\ <<Declare(d)>> \o FunctionText(d) \in Seq(Event)
<1>1. d.params \in Seq(Names) /\ d.code \in Seq(Stmts)
  BY SourcesAssumption
<1>2. Parameters(d.params) \in Seq(Event) /\ BodyText(d.code) \in Seq(Event)
  BY <1>1, MentionsTyped, BodyTyped
<1>3. Parameters(d.params) \o BodyText(d.code) \in Seq(Event)
  BY <1>2, ConcatProperties
<1>4. Scoped(Parameters(d.params) \o BodyText(d.code)) \in Seq(Event)
  BY <1>3, ScopedTyped
<1>5. FunctionText(d) \in Seq(Event)
  BY <1>4 DEF FunctionText
<1>6. <<Declare(d)>> \in Seq(Event)
  BY EventsTyped
<1> QED
  BY <1>5, <1>6, ConcatProperties

(* A call that opens no scope itself. *)
LEMMA PlainTyped ==
  ASSUME NEW c \in Flat
  PROVE  PlainText(c) \in Seq(Event) /\ CallText(c) = PlainText(c)
<1>1. c \in AnyCall /\ c.do # "scope"
  BY FlatIsCall
<1>2. CallText(c) = PlainText(c)
  BY <1>1 DEF CallText
<1>3. CASE c.do = "decl"
  <2>1. DeclText[c.arg] \in Seq(Event)
    BY <1>1, <1>3, CallArgument, DeclTextAssumption
  <2> QED
    BY <1>2, <1>3, <2>1 DEF PlainText
<1>4. CASE c.do = "stmt"
  <2>1. StmtText[c.arg] \in Seq(Event)
    BY <1>1, <1>4, CallArgument, StmtTextAssumption
  <2> QED
    BY <1>2, <1>4, <2>1 DEF PlainText
<1>5. CASE c.do = "use"
  <2>1. <<Mention(c.arg)>> \in Seq(Event)
    BY <1>1, <1>5, CallArgument, EventsTyped
  <2> QED
    BY <1>2, <1>5, <2>1 DEF PlainText
<1>6. CASE c.do = "param"
  <2>1. <<Parameter(c.arg)>> \in Seq(Event)
    BY <1>1, <1>6, CallArgument, EventsTyped
  <2> QED
    BY <1>2, <1>6, <2>1 DEF PlainText
<1>7. CASE c.do = "bind"
  <2>1. c.arg \in Binding
    BY <1>1, <1>7, CallArgument
  <2>2. c.arg.decl \in Decls
    BY <2>1 DEF Binding
  <2>3. <<Declare(c.arg.decl)>> \o FunctionText(c.arg.decl) \in Seq(Event)
    BY <2>2, FunctionTyped
  <2> QED
    BY <1>2, <1>7, <2>3 DEF PlainText
<1>8. CASE c.do = "total"
  BY <1>2, <1>8 DEF PlainText
<1> QED
  BY <1>3, <1>4, <1>5, <1>6, <1>7, <1>8 DEF Flat

(* The calls of a scope. *)
LEMMA PlainTextsTyped ==
  ASSUME NEW calls \in Seq(Flat)
  PROVE  PlainTexts(calls) \in Seq(Event) /\ TextOf(calls) = PlainTexts(calls)
<1>1. Len(calls) \in Nat /\ \A i \in 1 .. Len(calls) : calls[i] \in Flat
  BY ElementOfSeq
<1>2. PICK T : T = Seq(Event)
  OBVIOUS
<1>3. \A i \in 1 .. Len(calls) :
        PlainText(calls[i]) \in T /\ CallText(calls[i]) = PlainText(calls[i])
  BY <1>1, <1>2, PlainTyped
<1>4. [i \in 1 .. Len(calls) |-> PlainText(calls[i])] \in Seq(T)
  BY <1>1, <1>3
<1>5. [i \in DOMAIN calls |-> PlainText(calls[i])] \in Seq(Seq(Event))
  BY <1>2, <1>4
<1>6. [i \in DOMAIN calls |-> CallText(calls[i])] = [i \in DOMAIN calls |-> PlainText(calls[i])]
  BY <1>3
<1> QED
  BY <1>5, <1>6, FlattenTyped DEF PlainTexts, TextOf

(* Any call. *)
LEMMA CallTextTyped ==
  ASSUME NEW c \in AnyCall
  PROVE  CallText(c) \in Seq(Event)
<1>1. CASE c \in Flat
  BY <1>1, PlainTyped
<1>2. CASE c \notin Flat
  <2>1. c.do = "scope" /\ c.arg \in Seq(Flat)
    BY <1>2 DEF AnyCall
  <2> QED
    BY <2>1, PlainTextsTyped, ScopedTyped DEF CallText
<1> QED
  BY <1>1, <1>2

(* The texts of the calls of a list, and the list's. *)
LEMMA TextTyped ==
  ASSUME NEW calls \in Seq(AnyCall)
  PROVE  /\ [i \in DOMAIN calls |-> CallText(calls[i])] \in Seq(Seq(Event))
         /\ TextOf(calls) \in Seq(Event)
<1>1. Len(calls) \in Nat /\ \A i \in 1 .. Len(calls) : calls[i] \in AnyCall
  BY ElementOfSeq
<1>2. PICK T : T = Seq(Event)
  OBVIOUS
<1>3. \A i \in 1 .. Len(calls) : CallText(calls[i]) \in T
  BY <1>1, <1>2, CallTextTyped
<1>4. [i \in 1 .. Len(calls) |-> CallText(calls[i])] \in Seq(T)
  BY <1>1, <1>3
<1>5. [i \in DOMAIN calls |-> CallText(calls[i])] \in Seq(Seq(Event))
  BY <1>2, <1>4
<1> QED
  BY <1>5, FlattenTyped DEF TextOf

(* Two lists of calls behind each other. *)
LEMMA TextConcat ==
  ASSUME NEW a \in Seq(AnyCall), NEW b \in Seq(AnyCall)
  PROVE  TextOf(a \o b) = TextOf(a) \o TextOf(b)
<1> DEFINE x == [i \in DOMAIN a |-> CallText(a[i])]
           y == [i \in DOMAIN b |-> CallText(b[i])]
           z == [i \in DOMAIN (a \o b) |-> CallText((a \o b)[i])]
<1>1. PICK n \in Nat, m \in Nat : n = Len(a) /\ m = Len(b)
  OBVIOUS
<1>2. a \o b \in Seq(AnyCall) /\ Len(a \o b) = n + m
      /\ \A i \in 1 .. n + m : (a \o b)[i] = IF i <= n THEN a[i] ELSE b[i - n]
  BY <1>1, ConcatProperties
<1>3. x \in Seq(Seq(Event)) /\ y \in Seq(Seq(Event)) /\ z \in Seq(Seq(Event))
  BY <1>2, TextTyped
<1>4. /\ Len(x) = n /\ Len(y) = m /\ Len(z) = n + m
      /\ \A i \in 1 .. n : x[i] = CallText(a[i])
      /\ \A i \in 1 .. m : y[i] = CallText(b[i])
      /\ \A i \in 1 .. n + m : z[i] = CallText((a \o b)[i])
  BY <1>1, <1>2
<1> HIDE DEF x, y, z
<1>5. /\ x \o y \in Seq(Seq(Event)) /\ Len(x \o y) = n + m
      /\ \A i \in 1 .. n + m : (x \o y)[i] = IF i <= n THEN x[i] ELSE y[i - n]
  BY <1>3, <1>4, ConcatProperties
<1>6. \A i \in 1 .. n + m : z[i] = (x \o y)[i]
  <2>1. TAKE i \in 1 .. n + m
  <2>2. CASE i <= n
    <3>1. i \in 1 .. n
      BY <2>2
    <3> QED
      BY <1>2, <1>4, <1>5, <2>2, <3>1
  <2>3. CASE ~ i <= n
    <3>1. i - n \in 1 .. m
      BY <2>3
    <3> QED
      BY <1>2, <1>4, <1>5, <2>3, <3>1
  <2> QED
    BY <2>2, <2>3
<1>7. z = x \o y
  <2>1. PICK u \in Seq(Seq(Event)) : u = x \o y
    BY <1>5
  <2>2. Len(z) = Len(u) /\ \A i \in 1 .. Len(z) : z[i] = u[i]
    BY <1>4, <1>5, <1>6, <2>1
  <2>3. z = u
    BY <1>3, <2>2, SeqEqual
  <2> QED
    BY <2>1, <2>3
<1>8. FlattenSeq(x \o y) = FlattenSeq(x) \o FlattenSeq(y)
  BY <1>3, FlattenConcat
<1> QED
  BY <1>7, <1>8 DEF TextOf, x, y, z

(* One call, and none. *)
LEMMA TextOne ==
  ASSUME NEW c \in AnyCall
  PROVE  <<c>> \in Seq(AnyCall) /\ TextOf(<<c>>) = CallText(c)
<1>1. CallText(c) \in Seq(Event)
  BY CallTextTyped
<1>2. [i \in DOMAIN <<c>> |-> CallText(<<c>>[i])] = <<CallText(c)>>
  OBVIOUS
<1> QED
  BY <1>1, <1>2, FlattenOne DEF TextOf

(* No calls go through nothing. *)
LEMMA TextNone == TextOf(<<>>) = <<>>
<1>1. [i \in DOMAIN <<>> |-> CallText(<<>>[i])] = <<>>
  OBVIOUS
<1> QED
  BY <1>1, FlattenNone DEF TextOf

(* The call at hand, and those that wait behind it. *)
LEMMA TextSplit ==
  ASSUME NEW calls \in Seq(AnyCall), calls # <<>>
  PROVE  TextOf(calls) = CallText(Head(calls)) \o TextOf(Tail(calls))
<1>1. PICK c \in AnyCall, rest \in Seq(AnyCall) : c = Head(calls) /\ rest = Tail(calls)
  BY HeadTailProperties
<1>2. calls = <<c>> \o rest
  <2>1. PICK n \in Nat : n = Len(calls) /\ n # 0
    BY EmptySeq
  <2>2. /\ Len(rest) = n - 1 /\ c = calls[1]
        /\ \A i \in 1 .. n - 1 : rest[i] = calls[i + 1]
    BY <1>1, <2>1, HeadTailProperties
  <2>3. PICK one \in Seq(AnyCall) : one = <<c>> /\ Len(one) = 1 /\ one[1] = c
    BY TextOne
  <2>4. /\ one \o rest \in Seq(AnyCall) /\ Len(one \o rest) = n
        /\ \A i \in 1 .. n : (one \o rest)[i] = IF i <= 1 THEN one[i] ELSE rest[i - 1]
    BY <2>1, <2>2, <2>3, ConcatProperties
  <2>5. PICK u \in Seq(AnyCall) : u = one \o rest
    BY <2>4
  <2>6. \A i \in 1 .. n : u[i] = calls[i]
    <3>1. TAKE i \in 1 .. n
    <3>2. i = 1 \/ (~ i <= 1 /\ i - 1 \in 1 .. n - 1 /\ (i - 1) + 1 = i)
      OBVIOUS
    <3> QED
      BY <2>2, <2>3, <2>4, <2>5, <3>2
  <2>7. u = calls
    BY <2>1, <2>4, <2>5, <2>6, SeqEqual
  <2> QED
    BY <2>3, <2>5, <2>7
<1>3. <<c>> \in Seq(AnyCall)
  BY TextOne
<1> QED
  BY <1>1, <1>2, <1>3, TextOne, TextConcat

(* What a call of each kind goes through. *)
LEMMA CallTexts ==
  /\ \A a : CallText(Do("use", a)) = <<Mention(a)>>
  /\ \A a : CallText(Do("param", a)) = <<Parameter(a)>>
  /\ \A a : CallText(Do("stmt", a)) = StmtText[a]
  /\ \A a : CallText(Do("decl", a)) = DeclText[a]
  /\ \A a : CallText(Do("bind", a)) = <<Declare(a.decl)>> \o FunctionText(a.decl)
  /\ \A a : CallText(Do("total", a)) = <<>>
<1>1. ASSUME NEW a
      PROVE  CallText(Do("use", a)) = <<Mention(a)>>
  <2>1. Do("use", a).do = "use" /\ Do("use", a).arg = a
    BY DEF Do
  <2> QED
    BY <2>1 DEF CallText, PlainText
<1>2. ASSUME NEW a
      PROVE  CallText(Do("param", a)) = <<Parameter(a)>>
  <2>1. Do("param", a).do = "param" /\ Do("param", a).arg = a
    BY DEF Do
  <2> QED
    BY <2>1 DEF CallText, PlainText
<1>3. ASSUME NEW a
      PROVE  CallText(Do("stmt", a)) = StmtText[a]
  <2>1. Do("stmt", a).do = "stmt" /\ Do("stmt", a).arg = a
    BY DEF Do
  <2> QED
    BY <2>1 DEF CallText, PlainText
<1>4. ASSUME NEW a
      PROVE  CallText(Do("decl", a)) = DeclText[a]
  <2>1. Do("decl", a).do = "decl" /\ Do("decl", a).arg = a
    BY DEF Do
  <2> QED
    BY <2>1 DEF CallText, PlainText
<1>5. ASSUME NEW a
      PROVE  CallText(Do("bind", a)) = <<Declare(a.decl)>> \o FunctionText(a.decl)
  <2>1. Do("bind", a).do = "bind" /\ Do("bind", a).arg = a
    BY DEF Do
  <2> QED
    BY <2>1 DEF CallText, PlainText
<1>6. ASSUME NEW a
      PROVE  CallText(Do("total", a)) = <<>>
  <2>1. Do("total", a).do = "total"
    BY DEF Do
  <2> QED
    BY <2>1 DEF CallText, PlainText
<1> QED
  BY <1>1, <1>2, <1>3, <1>4, <1>5, <1>6

(* The texts of a list of calls, one by one. *)
LEMMA TextsOf ==
  ASSUME NEW calls \in Seq(AnyCall)
  PROVE  \E b \in Seq(Seq(Event)) :
           /\ b = [i \in DOMAIN calls |-> CallText(calls[i])] /\ Len(b) = Len(calls)
           /\ \A i \in 1 .. Len(calls) : b[i] = CallText(calls[i])
<1>1. Len(calls) \in Nat /\ DOMAIN calls = 1 .. Len(calls)
  OBVIOUS
<1>2. PICK T : T = Seq(Seq(Event))
  OBVIOUS
<1>3. PICK b \in T : b = [i \in DOMAIN calls |-> CallText(calls[i])]
  BY <1>2, TextTyped
<1>4. b = [i \in 1 .. Len(calls) |-> CallText(calls[i])]
  BY <1>1, <1>3
<1>5. Len(b) = Len(calls) /\ \A i \in 1 .. Len(calls) : b[i] = CallText(calls[i])
  <2>1. DOMAIN b = 1 .. Len(calls) /\ \A i \in 1 .. Len(calls) : b[i] = CallText(calls[i])
    BY <1>4
  <2> QED
    BY <1>1, <1>2, <1>3, <2>1
<1> QED
  BY <1>2, <1>3, <1>5

(* What the text of a list of like calls is. *)
LEMMA TextUses ==
  ASSUME NEW names \in Seq(Names)
  PROVE  Each("use", names) \in Seq(AnyCall) /\ TextOf(Each("use", names)) = Mentions(names)
<1>1. \A a \in Names : Do("use", a) \in AnyCall
  BY DEF Do, AnyCall, Flat
<1>2. PICK calls \in Seq(AnyCall) : calls = Each("use", names)
  BY <1>1, EachTyped
<1>3. /\ Len(calls) = Len(names) /\ Len(names) \in Nat
      /\ \A i \in 1 .. Len(names) : calls[i] = Do("use", names[i])
  BY <1>2, EachElements
<1>4. PICK m \in Seq(Event) :
        /\ m = Mentions(names) /\ Len(m) = Len(names)
        /\ \A i \in 1 .. Len(names) : m[i] = Mention(names[i])
  <2>1. Mentions(names) = [i \in 1 .. Len(names) |-> Mention(names[i])]
    BY DEF Mentions
  <2>2. PICK m \in Seq(Event) : m = Mentions(names)
    BY MentionsTyped
  <2>3. m = [i \in 1 .. Len(names) |-> Mention(names[i])]
    BY <2>1, <2>2
  <2>4. Len(m) = Len(names) /\ \A i \in 1 .. Len(names) : m[i] = Mention(names[i])
    BY <1>3, <2>3
  <2> QED
    BY <2>2, <2>4
<1>5. PICK b \in Seq(Seq(Event)) :
        /\ b = [i \in DOMAIN calls |-> CallText(calls[i])] /\ Len(b) = Len(names)
        /\ \A i \in 1 .. Len(names) : b[i] = CallText(calls[i])
  BY <1>3, TextsOf
<1>6. \A i \in 1 .. Len(names) : b[i] = <<m[i]>>
  BY <1>3, <1>4, <1>5, CallTexts
<1>7. FlattenSeq(b) = m
  BY <1>4, <1>5, <1>6, FlattenSingletons
<1> QED
  BY <1>2, <1>4, <1>5, <1>7 DEF TextOf

(* The parameters of a function are declared in order. *)
LEMMA TextParameters ==
  ASSUME NEW names \in Seq(Names)
  PROVE  /\ Each("param", names) \in Seq(Flat)
         /\ TextOf(Each("param", names)) = Parameters(names)
<1>1. \A a \in Names : Do("param", a) \in Flat
  BY DEF Do, Flat
<1>2. Each("param", names) \in Seq(Flat)
  BY <1>1, EachTyped
<1>3. PICK calls \in Seq(AnyCall) : calls = Each("param", names)
  BY <1>2, FlatSeqIsCalls
<1>4. /\ Len(calls) = Len(names) /\ Len(names) \in Nat
      /\ \A i \in 1 .. Len(names) : calls[i] = Do("param", names[i])
  BY <1>3, EachElements
<1>5. PICK m \in Seq(Event) :
        /\ m = Parameters(names) /\ Len(m) = Len(names)
        /\ \A i \in 1 .. Len(names) : m[i] = Parameter(names[i])
  <2>1. Parameters(names) = [i \in 1 .. Len(names) |-> Parameter(names[i])]
    BY DEF Parameters
  <2>2. PICK m \in Seq(Event) : m = Parameters(names)
    BY MentionsTyped
  <2>3. m = [i \in 1 .. Len(names) |-> Parameter(names[i])]
    BY <2>1, <2>2
  <2>4. Len(m) = Len(names) /\ \A i \in 1 .. Len(names) : m[i] = Parameter(names[i])
    BY <1>4, <2>3
  <2> QED
    BY <2>2, <2>4
<1>6. PICK b \in Seq(Seq(Event)) :
        /\ b = [i \in DOMAIN calls |-> CallText(calls[i])] /\ Len(b) = Len(names)
        /\ \A i \in 1 .. Len(names) : b[i] = CallText(calls[i])
  BY <1>4, TextsOf
<1>7. \A i \in 1 .. Len(names) : b[i] = <<m[i]>>
  BY <1>4, <1>5, <1>6, CallTexts
<1>8. FlattenSeq(b) = m
  BY <1>5, <1>6, <1>7, FlattenSingletons
<1> QED
  BY <1>2, <1>3, <1>5, <1>6, <1>8 DEF TextOf

(* Statements in order go through their texts. *)
LEMMA TextBody ==
  ASSUME NEW body \in Seq(Stmts)
  PROVE  /\ Each("stmt", body) \in Seq(Flat)
         /\ TextOf(Each("stmt", body)) = BodyText(body)
<1>1. \A a \in Stmts : Do("stmt", a) \in Flat
  BY DEF Do, Flat
<1>2. Each("stmt", body) \in Seq(Flat)
  BY <1>1, EachTyped
<1>3. /\ DOMAIN Each("stmt", body) = DOMAIN body
      /\ \A i \in DOMAIN body : Each("stmt", body)[i] = Do("stmt", body[i])
  BY DEF Each
<1>4. \A i \in DOMAIN body : CallText(Each("stmt", body)[i]) = StmtText[body[i]]
  BY <1>3, CallTexts
<1>5. [i \in DOMAIN Each("stmt", body) |-> CallText(Each("stmt", body)[i])]
        = [i \in DOMAIN body |-> StmtText[body[i]]]
  BY <1>3, <1>4
<1> QED
  BY <1>2, <1>5 DEF TextOf, BodyText

(* The global declarations go through the text of the program. *)
LEMMA TextProgram ==
  ASSUME NEW p \in Seq(Decls)
  PROVE  TextOf(Each("decl", p)) = ProgramText(p)
<1>1. /\ DOMAIN Each("decl", p) = DOMAIN p
      /\ \A i \in DOMAIN p : Each("decl", p)[i] = Do("decl", p[i])
  BY DEF Each
<1>2. \A i \in DOMAIN p : CallText(Each("decl", p)[i]) = DeclText[p[i]]
  BY <1>1, CallTexts
<1>3. [i \in DOMAIN Each("decl", p) |-> CallText(Each("decl", p)[i])]
        = [i \in DOMAIN p |-> DeclText[p[i]]]
  BY <1>1, <1>2
<1> QED
  BY <1>3 DEF TextOf, ProgramText

(* The call that opens a scope. *)
LEMMA TextInside ==
  ASSUME NEW calls \in Seq(Flat)
  PROVE  Inside(calls) \in AnyCall /\ CallText(Inside(calls)) = Scoped(TextOf(calls))
<1>1. Inside(calls) \in AnyCall /\ Inside(calls).do = "scope" /\ Inside(calls).arg = calls
  BY InsideCall
<1> QED
  BY <1>1, PlainTextsTyped DEF CallText

(* The calls that a call makes have its text. *)
LEMMA TextStmtCalls ==
  ASSUME NEW s \in Stmts
  PROVE  StmtCalls(s) \in Seq(AnyCall) /\ TextOf(StmtCalls(s)) = StmtText[s]
<1>1. StmtCalls(s) \in Seq(AnyCall)
  BY StmtCallsFacts
<1>2. CASE s.kind = "DECL" /\ s.decl \in Decls
  <2>1. Do("decl", s.decl) \in AnyCall
    BY <1>2 DEF Do, AnyCall, Flat
  <2>2. CallText(Do("decl", s.decl)) = DeclText[s.decl]
    BY CallTexts
  <2>3. StmtCalls(s) = <<Do("decl", s.decl)>>
    BY <1>2 DEF StmtCalls
  <2>4. StmtText[s] = DeclText[s.decl]
    BY <1>2, StmtTextAssumption
  <2> QED
    BY <1>1, <2>1, <2>2, <2>3, <2>4, TextOne
<1>3. CASE s.kind \in {"EXPR", "PRINT", "RETURN"} /\ s.uses \in Seq(Names)
  <2>1. StmtCalls(s) = Each("use", s.uses)
    BY <1>3 DEF StmtCalls
  <2>2. StmtText[s] = Mentions(s.uses)
    BY <1>3, StmtTextAssumption
  <2> QED
    BY <1>1, <1>3, <2>1, <2>2, TextUses
<1>4. CASE s.kind = "BLOCK" /\ s.body \in Seq(Stmts)
  <2>1. StmtCalls(s) = <<Inside(Each("stmt", s.body))>>
    BY <1>4 DEF StmtCalls
  <2>2. StmtText[s] = Scoped(BodyText(s.body))
    BY <1>4, StmtTextAssumption
  <2> QED
    BY <1>1, <1>4, <2>1, <2>2, TextBody, TextInside, TextOne
<1>5. CASE s.kind = "FOR" /\ s.uses \in Seq(Names) /\ s.body \in Seq(Stmts)
  <2>1. StmtCalls(s) = Each("use", s.uses) \o <<Inside(Each("stmt", s.body))>>
    BY <1>5 DEF StmtCalls
  <2>2. StmtText[s] = Mentions(s.uses) \o Scoped(BodyText(s.body))
    BY <1>5, StmtTextAssumption
  <2>3. PICK u \in Seq(AnyCall), b \in AnyCall, w \in Seq(AnyCall) :
          /\ u = Each("use", s.uses) /\ TextOf(u) = Mentions(s.uses)
          /\ b = Inside(Each("stmt", s.body)) /\ w = <<b>>
          /\ TextOf(w) = Scoped(BodyText(s.body))
    BY <1>5, TextUses, TextBody, TextInside, TextOne
  <2>4. TextOf(u \o w) = TextOf(u) \o TextOf(w)
    BY TextConcat
  <2> QED
    BY <1>1, <2>1, <2>2, <2>3, <2>4
<1>6. CASE s.kind = "IF_ELSE" /\ s.uses \in Seq(Names) /\ s.body \in Seq(Stmts)
           /\ s.else_body \in Seq(Stmts)
  <2>1. StmtCalls(s) = Each("use", s.uses) \o <<Inside(Each("stmt", s.body)),
                                                Inside(Each("stmt", s.else_body))>>
    BY <1>6 DEF StmtCalls
  <2>2. StmtText[s] = (Mentions(s.uses) \o Scoped(BodyText(s.body)))
                        \o Scoped(BodyText(s.else_body))
    BY <1>6, StmtTextAssumption
  <2>3. PICK u \in Seq(AnyCall), b \in AnyCall, w \in Seq(AnyCall),
             e \in AnyCall, x \in Seq(AnyCall) :
          /\ u = Each("use", s.uses) /\ TextOf(u) = Mentions(s.uses)
          /\ b = Inside(Each("stmt", s.body)) /\ w = <<b>>
          /\ TextOf(w) = Scoped(BodyText(s.body))
          /\ e = Inside(Each("stmt", s.else_body)) /\ x = <<e>>
          /\ TextOf(x) = Scoped(BodyText(s.else_body))
    BY <1>6, TextUses, TextBody, TextInside, TextOne
  <2>4. <<b, e>> = w \o x
    BY <2>3
  <2>5. w \o x \in Seq(AnyCall) /\ TextOf(w \o x) = TextOf(w) \o TextOf(x)
    BY ConcatProperties, TextConcat
  <2>6. TextOf(u \o (w \o x)) = TextOf(u) \o (TextOf(w) \o TextOf(x))
    BY <2>5, TextConcat
  <2>7. PICK p \in Seq(Event), q \in Seq(Event), r \in Seq(Event) :
          p = TextOf(u) /\ q = TextOf(w) /\ r = TextOf(x)
    BY TextTyped
  <2>8. p \o (q \o r) = (p \o q) \o r
    BY ConcatAssociative
  <2>9. StmtCalls(s) = u \o (w \o x)
    BY <2>1, <2>3, <2>4
  <2> QED
    BY <1>1, <2>2, <2>3, <2>6, <2>7, <2>8, <2>9
<1> QED
  BY <1>2, <1>3, <1>4, <1>5, <1>6, SourcesAssumption

(* decl_resolve goes through the text of its declaration: the value, the   *)
(* name and the function that it is.                                       *)
LEMMA TextDeclCalls ==
  ASSUME NEW d \in Decls, NEW s \in Nat
  PROVE  TextOf(DeclCalls(d, s)) = DeclText[d]
<1>1. d.uses \in Seq(Names)
  BY SourcesAssumption
<1>2. PICK b \in AnyCall, w \in Seq(AnyCall) :
        b = Do("bind", [decl |-> d, symbol |-> s]) /\ w = <<b>>
  <2>1. Do("bind", [decl |-> d, symbol |-> s]) \in AnyCall
    BY DEF Do, AnyCall, Flat, Binding
  <2> QED
    BY <2>1, TextOne
<1>3. PICK u \in Seq(AnyCall) : u = Each("use", d.uses) /\ TextOf(u) = Mentions(d.uses)
  BY <1>1, TextUses
<1>4. TextOf(w) = <<Declare(d)>> \o FunctionText(d)
  <2>1. CallText(b) = <<Declare(d)>> \o FunctionText(d)
    BY <1>2, CallTexts
  <2> QED
    BY <1>2, <2>1, TextOne
<1>5. DeclCalls(d, s) = u \o w
  BY <1>2, <1>3 DEF DeclCalls
<1>6. TextOf(u \o w) = TextOf(u) \o TextOf(w)
  BY TextConcat
<1>7. DeclText[d] = (Mentions(d.uses) \o <<Declare(d)>>) \o FunctionText(d)
  BY DeclTextAssumption
<1>8. PICK p \in Seq(Event), q \in Seq(Event), r \in Seq(Event) :
        p = Mentions(d.uses) /\ q = <<Declare(d)>> /\ r = FunctionText(d)
  BY <1>1, MentionsTyped, FunctionTyped
<1>9. p \o (q \o r) = (p \o q) \o r
  BY ConcatAssociative
<1> QED
  BY <1>3, <1>4, <1>5, <1>6, <1>7, <1>8, <1>9

(* What follows the binding of a name goes through the function, in a      *)
(* scope of its own.                                                       *)
LEMMA TextFunctionCalls ==
  ASSUME NEW d \in Decls, NEW s \in Nat, NEW tmp \in Nat
  PROVE  /\ FunctionCalls(d, s, tmp) \in Seq(AnyCall)
         /\ TextOf(FunctionCalls(d, s, tmp)) = FunctionText(d)
<1>1. CASE ~ d.type.fun
  BY <1>1, TextNone DEF FunctionCalls, FunctionText
<1>2. CASE d.type.fun
  <2>1. d.params \in Seq(Names) /\ d.code \in Seq(Stmts)
    BY SourcesAssumption
  <2>2. PICK f \in Seq(Flat), g \in Seq(Flat), x \in Seq(Flat), c \in Flat :
          /\ f = Each("param", d.params) /\ TextOf(f) = Parameters(d.params)
          /\ g = Each("stmt", d.code) /\ TextOf(g) = BodyText(d.code)
          /\ c = Do("total", [decl |-> d, own |-> s, symbol |-> Target(d, s, tmp)])
          /\ x = <<c>>
    <3>1. Do("total", [decl |-> d, own |-> s, symbol |-> Target(d, s, tmp)]) \in Flat
      BY DEF Do, Flat, Total, Target
    <3>2. PICK c \in Flat :
            c = Do("total", [decl |-> d, own |-> s, symbol |-> Target(d, s, tmp)])
      BY <3>1
    <3>3. <<c>> \in Seq(Flat)
      OBVIOUS
    <3>4. PICK f \in Seq(Flat), g \in Seq(Flat) :
            /\ f = Each("param", d.params) /\ TextOf(f) = Parameters(d.params)
            /\ g = Each("stmt", d.code) /\ TextOf(g) = BodyText(d.code)
      BY <2>1, TextParameters, TextBody
    <3> QED
      BY <3>2, <3>3, <3>4
  <2>3. FunctionCalls(d, s, tmp) = <<Inside((f \o g) \o x)>>
    BY <1>2, <2>2 DEF FunctionCalls, Target
  <2>4. TextOf(x) = <<>>
    <3>1. CallText(c) = <<>> /\ c \in AnyCall
      BY <2>2, FlatIsCall, CallTexts
    <3> QED
      BY <2>2, <3>1, TextOne
  <2>5. f \in Seq(AnyCall) /\ g \in Seq(AnyCall) /\ x \in Seq(AnyCall)
    BY FlatSeqIsCalls
  <2>6. f \o g \in Seq(Flat) /\ (f \o g) \o x \in Seq(Flat) /\ f \o g \in Seq(AnyCall)
    BY <2>5, ConcatProperties
  <2>7. TextOf((f \o g) \o x) = (TextOf(f) \o TextOf(g)) \o TextOf(x)
    BY <2>5, <2>6, TextConcat
  <2>8. (TextOf(f) \o TextOf(g)) \o TextOf(x) = TextOf(f) \o TextOf(g)
    <3>1. PICK p \in Seq(Event) : p = TextOf(f) \o TextOf(g)
      BY <2>5, TextTyped, ConcatProperties
    <3> QED
      BY <2>4, <3>1, ConcatEmptySeq
  <2>9. PICK b \in AnyCall : b = Inside((f \o g) \o x)
          /\ CallText(b) = Scoped(Parameters(d.params) \o BodyText(d.code))
    BY <2>2, <2>6, <2>7, <2>8, TextInside
  <2> QED
    BY <1>2, <2>3, <2>9, TextOne DEF FunctionText
<1> QED
  BY <1>1, <1>2

(***************************************************************************)
(* Positions in a text.                                                    *)
(***************************************************************************)

(* Events are counted in natural numbers, one by one. *)
LEMMA CountTyped ==
  ASSUME NEW t, NEW ev, NEW k \in Nat
  PROVE  /\ Count(t, k, ev) \in Nat /\ IsFiniteSet({i \in 1 .. k : t[i].ev = ev})
         /\ Count(t, 0, ev) = 0
<1>1. IsFiniteSet(1 .. k)
  BY FS_Interval
<1>2. IsFiniteSet({i \in 1 .. k : t[i].ev = ev})
  BY <1>1, FS_Subset
<1>3. Count(t, k, ev) \in Nat
  BY <1>2, FS_CardinalityType DEF Count
<1>4. {i \in 1 .. 0 : t[i].ev = ev} = {}
  OBVIOUS
<1> QED
  BY <1>2, <1>3, <1>4, FS_EmptySet DEF Count

(* One position further a count grows by at most that position. *)
LEMMA CountNext ==
  ASSUME NEW t, NEW ev, NEW k \in Nat
  PROVE  Count(t, k + 1, ev) = Count(t, k, ev) + IF t[k + 1].ev = ev THEN 1 ELSE 0
<1> DEFINE A == {i \in 1 .. k : t[i].ev = ev}
           B == {i \in 1 .. k + 1 : t[i].ev = ev}
<1>1. IsFiniteSet(A) /\ Cardinality(A) = Count(t, k, ev) /\ Cardinality(B) = Count(t, k + 1, ev)
  BY CountTyped DEF Count
<1>2. Count(t, k, ev) \in Nat
  BY CountTyped
<1>3. CASE t[k + 1].ev = ev
  <2>1. B = A \cup {k + 1} /\ k + 1 \notin A
    BY <1>3
  <2> HIDE DEF A, B
  <2>2. Cardinality(A \cup {k + 1}) = Cardinality(A) + 1
    BY <1>1, <2>1, FS_AddElement
  <2> QED
    BY <1>1, <1>3, <2>1, <2>2
<1>4. CASE t[k + 1].ev # ev
  <2>1. B = A
    BY <1>4
  <2> HIDE DEF A, B
  <2> QED
    BY <1>1, <1>2, <1>4, <2>1
<1> QED
  BY <1>3, <1>4

(* Later counts are no lower, and higher behind an event of the kind. *)
LEMMA CountGrows ==
  ASSUME NEW t, NEW ev, NEW i \in Nat, NEW k \in Nat, i <= k
  PROVE  /\ Count(t, i, ev) <= Count(t, k, ev)
         /\ i # k /\ t[k].ev = ev => Count(t, i, ev) < Count(t, k, ev)
<1>1. ASSUME NEW a \in Nat, NEW b \in Nat, a <= b
      PROVE  Count(t, a, ev) <= Count(t, b, ev)
  <2> DEFINE A == {n \in 1 .. a : t[n].ev = ev}
             B == {n \in 1 .. b : t[n].ev = ev}
  <2>1. A \subseteq B
    BY <1>1
  <2>2. IsFiniteSet(B) /\ Cardinality(A) = Count(t, a, ev) /\ Cardinality(B) = Count(t, b, ev)
    BY CountTyped DEF Count
  <2> HIDE DEF A, B
  <2>3. Cardinality(A) <= Cardinality(B)
    BY <2>1, <2>2, FS_Subset
  <2> QED
    BY <2>2, <2>3
<1>2. ASSUME i # k, t[k].ev = ev
      PROVE  Count(t, i, ev) < Count(t, k, ev)
  <2>1. PICK m \in Nat : m + 1 = k /\ i <= m
    <3>1. k - 1 \in Nat /\ (k - 1) + 1 = k /\ i <= k - 1
      BY <1>2
    <3> QED
      BY <3>1
  <2>2. Count(t, m + 1, ev) = Count(t, m, ev) + 1
    BY <1>2, <2>1, CountNext
  <2>3. Count(t, i, ev) <= Count(t, m, ev)
    BY <1>1, <2>1
  <2>4. Count(t, i, ev) \in Nat /\ Count(t, m, ev) \in Nat
    BY CountTyped
  <2> QED
    BY <2>1, <2>2, <2>3, <2>4
<1> QED
  BY <1>1, <1>2

(* So no two events of a kind have the same number. *)
LEMMA CountDistinct ==
  ASSUME NEW t, NEW ev, NEW i \in Nat, NEW k \in Nat, t[i].ev = ev, t[k].ev = ev,
         Count(t, i, ev) = Count(t, k, ev)
  PROVE  i = k
<1>1. Count(t, i, ev) \in Nat /\ Count(t, k, ev) \in Nat
  BY CountTyped
<1>2. ~ i < k
  BY <1>1, CountGrows
<1>3. ~ k < i
  BY <1>1, CountGrows
<1> QED
  BY <1>2, <1>3

(* Depths are integers, and no scope is open before a text. *)
LEMMA DepthTyped ==
  ASSUME NEW t, NEW k \in Nat
  PROVE  Depth(t, k) \in Int /\ Depth(t, 0) = 0
<1>1. Count(t, k, "enter") \in Nat /\ Count(t, k, "exit") \in Nat
  BY CountTyped
<1>2. Count(t, 0, "enter") = 0 /\ Count(t, 0, "exit") = 0
  BY CountTyped
<1> QED
  BY <1>1, <1>2 DEF Depth

(* One position further a scope is entered, left or neither. *)
LEMMA DepthNext ==
  ASSUME NEW t, NEW k \in Nat
  PROVE  Depth(t, k + 1) =
           CASE t[k + 1].ev = "enter" -> Depth(t, k) + 1
             [] t[k + 1].ev = "exit" -> Depth(t, k) - 1
             [] OTHER -> Depth(t, k)
<1>1. /\ Count(t, k, "enter") \in Nat /\ Count(t, k, "exit") \in Nat
  BY CountTyped
<1>2. /\ Count(t, k + 1, "enter") =
           Count(t, k, "enter") + IF t[k + 1].ev = "enter" THEN 1 ELSE 0
      /\ Count(t, k + 1, "exit") =
           Count(t, k, "exit") + IF t[k + 1].ev = "exit" THEN 1 ELSE 0
  BY CountNext
<1> QED
  BY <1>1, <1>2 DEF Depth

(***************************************************************************)
(* Scopes that are still open.                                             *)
(***************************************************************************)

(* From one position to the next and the next. *)
LEMMA OpenParts ==
  ASSUME NEW t, NEW j \in Nat, NEW m \in Nat, NEW i \in Nat, j <= m, m <= i
  PROVE  /\ Open(t, j, i) => Open(t, j, m) /\ Depth(t, j) <= Depth(t, m)
         /\ Open(t, j, m) /\ Open(t, m, i) => Open(t, j, i)
         /\ Together(t, j, m) /\ Together(t, m, i) => Together(t, j, i)
         /\ Together(t, j, i) /\ Together(t, m, i) => Together(t, j, m)
         /\ Together(t, j, i) /\ Together(t, j, m) => Together(t, m, i)
<1>1. \A k \in Nat : Depth(t, k) \in Int
  BY DepthTyped
<1>2. \A k \in j .. i : k \in Nat
  OBVIOUS
<1>3. \A k \in j .. i : k \in j .. m \/ k \in m .. i
  OBVIOUS
<1>4. \A k \in j .. m : k \in j .. i
  OBVIOUS
<1>5. \A k \in m .. i : k \in j .. i
  OBVIOUS
<1>6. m \in j .. i /\ m \in j .. m /\ i \in j .. i
  OBVIOUS
<1>7. Open(t, j, i) => Open(t, j, m) /\ Depth(t, j) <= Depth(t, m)
  BY <1>1, <1>4, <1>6 DEF Open
<1>8. ASSUME Open(t, j, m), Open(t, m, i)
      PROVE  Open(t, j, i)
  <2>1. SUFFICES ASSUME NEW k \in j .. i
                 PROVE  Depth(t, k) >= Depth(t, j)
    BY DEF Open
  <2>2. Depth(t, m) >= Depth(t, j)
    BY <1>6, <1>8 DEF Open
  <2>3. CASE k \in j .. m
    BY <1>8, <2>3 DEF Open
  <2>4. CASE k \in m .. i
    <3>1. Depth(t, k) >= Depth(t, m)
      BY <1>8, <2>4 DEF Open
    <3>2. Depth(t, k) \in Int /\ Depth(t, m) \in Int /\ Depth(t, j) \in Int
      BY <1>1, <1>2
    <3> QED
      BY <2>2, <3>1, <3>2
  <2> QED
    BY <1>3, <2>3, <2>4
<1>9. ASSUME Together(t, j, i), Together(t, j, m)
      PROVE  Together(t, m, i)
  <2>1. /\ Depth(t, m) = Depth(t, i) /\ Depth(t, m) = Depth(t, j)
    BY <1>9 DEF Together
  <2>2. Open(t, m, i)
    BY <1>5, <1>9, <2>1 DEF Together, Open
  <2> QED
    BY <2>1, <2>2 DEF Together
<1> QED
  BY <1>7, <1>8, <1>9 DEF Together

(* Two declarations of a name that are both visible are in two scopes.     *)
LEMMA VisibleUnique ==
  ASSUME NEW t, NEW name, NEW i \in Nat,
         NEW j \in Visible(t, name, i), NEW k \in Visible(t, name, i),
         Depth(t, j) = Depth(t, k)
  PROVE  j = k
<1>1. ASSUME NEW a \in Visible(t, name, i), NEW b \in Visible(t, name, i),
             Depth(t, a) = Depth(t, b), a < b
      PROVE  FALSE
  <2>1. /\ a \in 1 .. i /\ b \in 1 .. i /\ Open(t, a, i)
        /\ Declares(t, a, name) /\ Declares(t, b, name) /\ First(t, b)
    BY DEF Visible
  <2>2. a \in Nat /\ b \in Nat /\ a <= b /\ b <= i /\ a \in 1 .. b - 1
    BY <1>1, <2>1
  <2>3. Open(t, a, b)
    BY <2>1, <2>2, OpenParts
  <2>4. Together(t, a, b)
    BY <1>1, <2>3 DEF Together
  <2>5. t[b].name = name
    BY <2>1 DEF Declares
  <2> QED
    BY <2>1, <2>2, <2>4, <2>5 DEF First
<1>2. j \in Nat /\ k \in Nat
  BY DEF Visible
<1>3. ~ j < k /\ ~ k < j
  BY <1>1
<1> QED
  BY <1>2, <1>3

(* One of them is the deepest. *)
LEMMA DeepestExists ==
  ASSUME NEW t, NEW name, NEW i \in Nat, Visible(t, name, i) # {}
  PROVE  \E j \in Visible(t, name, i) :
           \A k \in Visible(t, name, i) : Depth(t, k) <= Depth(t, j)
<1> DEFINE V == Visible(t, name, i)
           T == {m \in Nat : \E j \in V : Depth(t, i) - Depth(t, j) = m}
<1>1. \A j \in V : /\ Depth(t, j) \in Int /\ Depth(t, i) \in Int
                   /\ Depth(t, i) - Depth(t, j) \in Nat
  <2>1. TAKE j \in V
  <2>2. j \in 1 .. i /\ Open(t, j, i)
    BY DEF Visible
  <2>3. j \in Nat /\ j <= i /\ i \in j .. i
    BY <2>2
  <2>4. Depth(t, i) >= Depth(t, j)
    BY <2>2, <2>3 DEF Open
  <2>5. Depth(t, j) \in Int /\ Depth(t, i) \in Int
    BY <2>3, DepthTyped
  <2> QED
    BY <2>4, <2>5
<1>2. T # {}
  <2>1. PICK j : j \in V
    OBVIOUS
  <2>2. Depth(t, i) - Depth(t, j) \in T
    BY <1>1, <2>1
  <2> QED
    BY <2>2
<1>3. PICK m \in T : \A n \in T : m <= n
  BY <1>2, LeastNatural
<1>4. PICK j \in V : Depth(t, i) - Depth(t, j) = m
  OBVIOUS
<1>5. \A k \in V : Depth(t, k) <= Depth(t, j)
  <2>1. TAKE k \in V
  <2>2. Depth(t, i) - Depth(t, k) \in T
    BY <1>1
  <2>3. m <= Depth(t, i) - Depth(t, k)
    BY <1>3, <2>2
  <2> QED
    BY <1>1, <1>4, <2>3
<1> QED
  BY <1>4, <1>5

(* And the deepest one is what the name means. *)
LEMMA MeaningIs ==
  ASSUME NEW t, NEW name, NEW i \in Nat, NEW j \in Visible(t, name, i),
         \A k \in Visible(t, name, i) : Depth(t, k) <= Depth(t, j)
  PROVE  Meaning(t, name, i) = Count(t, j, "declare")
<1>1. \A k \in Visible(t, name, i) : Depth(t, k) \in Int
  <2>1. \A k \in Visible(t, name, i) : k \in Nat
    BY DEF Visible
  <2> QED
    BY <2>1, DepthTyped
<1>2. PICK k : k = Innermost(t, name, i)
  OBVIOUS
<1>3. /\ k \in Visible(t, name, i)
      /\ \A m \in Visible(t, name, i) : Depth(t, m) <= Depth(t, k)
  BY <1>2 DEF Innermost
<1>4. Depth(t, k) = Depth(t, j)
  <2>1. Depth(t, k) <= Depth(t, j) /\ Depth(t, j) <= Depth(t, k)
    BY <1>3
  <2> QED
    BY <1>1, <1>3, <2>1
<1>5. k = j
  BY <1>3, <1>4, VisibleUnique
<1> QED
  BY <1>2, <1>5 DEF Meaning

(* Of the declarations of a name in one scope, one is the first. *)
LEMMA FirstExists ==
  ASSUME NEW t, NEW name, NEW i \in Nat, NEW k \in 1 .. i,
         Declares(t, k, name), Together(t, k, i)
  PROVE  \E j \in Visible(t, name, i) : j <= k /\ Together(t, j, i)
<1> DEFINE T == {j \in Nat : j \in 1 .. i /\ Declares(t, j, name) /\ Together(t, j, i)}
<1>1. k \in T
  OBVIOUS
<1>2. PICK j \in T : \A m \in T : j <= m
  BY <1>1, LeastNatural
<1>3. /\ j \in Nat /\ j \in 1 .. i /\ Declares(t, j, name) /\ Together(t, j, i) /\ j <= k
  BY <1>1, <1>2
<1>4. First(t, j)
  <2>1. SUFFICES ASSUME NEW m \in 1 .. j - 1, Declares(t, m, t[j].name), Together(t, m, j)
                 PROVE  FALSE
    BY DEF First
  <2>2. m \in Nat /\ m <= j /\ j <= i /\ m \in 1 .. i /\ ~ j <= m
    BY <1>3
  <2>3. Together(t, m, i)
    BY <1>3, <2>1, <2>2, OpenParts
  <2>4. t[j].name = name
    BY <1>3 DEF Declares
  <2>5. m \in T
    BY <2>1, <2>2, <2>3, <2>4
  <2> QED
    BY <1>2, <2>2, <2>5
<1>5. j \in Visible(t, name, i)
  BY <1>3, <1>4 DEF Visible, Together
<1> QED
  BY <1>3, <1>5

(***************************************************************************)
(* A text with one event more.                                             *)
(***************************************************************************)
Longer(t, c, e) ==
  /\ c \in Seq(Event) /\ t \in Seq(Event) /\ e \in Event /\ Len(t) = Len(c) + 1
  /\ \A i \in 1 .. Len(c) : t[i] = c[i]
  /\ t[Len(c) + 1] = e

(* Event by event. *)
LEMMA LongerExists ==
  ASSUME NEW c \in Seq(Event), NEW e \in Event
  PROVE  c \o <<e>> \in Seq(Event) /\ Longer(c \o <<e>>, c, e)
<1>1. PICK t \in Seq(Event) : t = c \o <<e>>
  <2>1. c \o <<e>> \in Seq(Event)
    BY ThenOne
  <2> QED
    BY <2>1
<1>2. Len(t) = Len(c) + 1 /\ (\A i \in 1 .. Len(c) : t[i] = c[i]) /\ t[Len(c) + 1] = e
  BY <1>1, ThenOne
<1> QED
  BY <1>1, <1>2 DEF Longer

(* A text that goes on behind another. *)
Extends(t, c) ==
  /\ c \in Seq(Event) /\ t \in Seq(Event) /\ Len(c) <= Len(t)
  /\ \A i \in 1 .. Len(c) : t[i] = c[i]

LEMMA LongerExtends ==
  ASSUME NEW t, NEW c, NEW e, Longer(t, c, e)
  PROVE  Extends(t, c)
<1>1. c \in Seq(Event) /\ Len(c) \in Nat /\ Len(t) = Len(c) + 1
  BY DEF Longer
<1>2. Len(c) <= Len(t)
  BY <1>1
<1> QED
  BY <1>2 DEF Longer, Extends

LEMMA ConcatExtends ==
  ASSUME NEW c \in Seq(Event), NEW w \in Seq(Event)
  PROVE  Extends(c \o w, c)
<1>1. PICK t \in Seq(Event) :
        /\ t = c \o w /\ Len(t) = Len(c) + Len(w)
        /\ \A i \in 1 .. Len(c) + Len(w) :
             t[i] = IF i <= Len(c) THEN c[i] ELSE w[i - Len(c)]
  <2>1. /\ c \o w \in Seq(Event) /\ Len(c \o w) = Len(c) + Len(w)
        /\ \A i \in 1 .. Len(c) + Len(w) :
             (c \o w)[i] = IF i <= Len(c) THEN c[i] ELSE w[i - Len(c)]
    BY ConcatProperties
  <2> QED
    BY <2>1
<1>2. Len(c) \in Nat /\ Len(w) \in Nat
  OBVIOUS
<1>3. Len(c) <= Len(t)
  BY <1>1, <1>2
<1>4. \A i \in 1 .. Len(c) : i \in 1 .. Len(c) + Len(w) /\ i <= Len(c)
  BY <1>2
<1>5. \A i \in 1 .. Len(c) : t[i] = c[i]
  BY <1>1, <1>4
<1> QED
  BY <1>1, <1>3, <1>5 DEF Extends

(* Nothing that is said about the old positions changes. *)
LEMMA CountsKept ==
  ASSUME NEW t, NEW c, Extends(t, c)
  PROVE  /\ Len(c) \in Nat
         /\ \A k \in 0 .. Len(c) : \A ev : Count(t, k, ev) = Count(c, k, ev)
         /\ \A k \in 0 .. Len(c) : Depth(t, k) = Depth(c, k)
<1>1. Len(c) \in Nat
  BY DEF Extends
<1>2. ASSUME NEW k \in 0 .. Len(c), NEW ev
      PROVE  Count(t, k, ev) = Count(c, k, ev)
  <2>1. \A i \in 1 .. k : t[i] = c[i]
    BY <1>1 DEF Extends
  <2>2. {i \in 1 .. k : t[i].ev = ev} = {i \in 1 .. k : c[i].ev = ev}
    BY <2>1
  <2> QED
    BY <2>2 DEF Count
<1> QED
  BY <1>1, <1>2 DEF Depth

(* A text that grows keeps the scopes of its positions. *)
LEMMA PlacesKept ==
  ASSUME NEW t, NEW c, Extends(t, c)
  PROVE  /\ \A j \in 1 .. Len(c) : \A name : Declares(t, j, name) <=> Declares(c, j, name)
         /\ \A j \in 1 .. Len(c) : \A i \in 0 .. Len(c) :
              (Open(t, j, i) <=> Open(c, j, i)) /\ (Together(t, j, i) <=> Together(c, j, i))
         /\ \A j \in 1 .. Len(c) : First(t, j) <=> First(c, j)
<1>1. /\ Len(c) \in Nat
      /\ \A k \in 0 .. Len(c) : Depth(t, k) = Depth(c, k)
  BY CountsKept
<1>2. \A j \in 1 .. Len(c) : t[j] = c[j]
  BY DEF Extends
<1>3. ASSUME NEW j \in 1 .. Len(c), NEW i \in 0 .. Len(c)
      PROVE  (Open(t, j, i) <=> Open(c, j, i)) /\ (Together(t, j, i) <=> Together(c, j, i))
  <2>1. \A k \in j .. i : k \in 0 .. Len(c)
    BY <1>1
  <2>2. j \in 0 .. Len(c)
    BY <1>1
  <2>3. Depth(t, j) = Depth(c, j) /\ \A k \in j .. i : Depth(t, k) = Depth(c, k)
    BY <1>1, <2>1, <2>2
  <2>4. Open(t, j, i) <=> Open(c, j, i)
    BY <2>3 DEF Open
  <2> QED
    BY <1>1, <2>3, <2>4 DEF Together
<1>4. ASSUME NEW j \in 1 .. Len(c)
      PROVE  First(t, j) <=> First(c, j)
  <2>1. t[j].name = c[j].name
    BY <1>2
  <2>2. \A k \in 1 .. j - 1 : k \in 1 .. Len(c) /\ j \in 0 .. Len(c)
    BY <1>1
  <2>3. \A k \in 1 .. j - 1 : t[k] = c[k] /\ (Together(t, k, j) <=> Together(c, k, j))
    BY <1>2, <1>3, <2>2
  <2>4. \A k \in 1 .. j - 1 :
          Declares(t, k, t[j].name) /\ Together(t, k, j) <=>
          Declares(c, k, c[j].name) /\ Together(c, k, j)
    BY <2>1, <2>3 DEF Declares
  <2> QED
    BY <2>4 DEF First
<1> QED
  BY <1>2, <1>3, <1>4 DEF Declares

(* One event is enough. *)
LEMMA CountsSame ==
  ASSUME NEW t, NEW c, NEW e, Longer(t, c, e)
  PROVE  /\ Len(c) \in Nat
         /\ \A k \in 0 .. Len(c) : \A ev : Count(t, k, ev) = Count(c, k, ev)
         /\ \A k \in 0 .. Len(c) : Depth(t, k) = Depth(c, k)
BY LongerExtends, CountsKept

LEMMA ScopesSame ==
  ASSUME NEW t, NEW c, NEW e, Longer(t, c, e)
  PROVE  /\ \A j \in 1 .. Len(c) : \A name : Declares(t, j, name) <=> Declares(c, j, name)
         /\ \A j \in 1 .. Len(c) : \A i \in 0 .. Len(c) :
              (Open(t, j, i) <=> Open(c, j, i)) /\ (Together(t, j, i) <=> Together(c, j, i))
         /\ \A j \in 1 .. Len(c) : First(t, j) <=> First(c, j)
BY LongerExtends, PlacesKept

(* Nor does it matter to the declarations that are there how a text goes   *)
(* on: not to what is defined between them and not to what is compared.    *)
LEMMA DefinedKept ==
  ASSUME NEW t, NEW c, Extends(t, c), NEW i \in 1 .. Len(c), NEW k \in 1 .. Len(c) + 1
  PROVE  Defined(t, i, k) <=> Defined(c, i, k)
<1>1. Len(c) \in Nat /\ t[i] = c[i]
  BY CountsKept DEF Extends
<1>2. \A m \in i + 1 .. k - 1 : m \in 1 .. Len(c) /\ m \in 0 .. Len(c)
  BY <1>1
<1>3. ASSUME NEW m \in i + 1 .. k - 1
      PROVE  /\ Declares(t, m, t[i].name) <=> Declares(c, m, c[i].name)
             /\ Together(t, i, m) <=> Together(c, i, m)
             /\ t[m] = c[m]
  BY <1>1, <1>2, PlacesKept DEF Extends
<1> QED
  BY <1>3 DEF Defined

LEMMA ComparedKept ==
  ASSUME NEW t, NEW c, Extends(t, c), NEW k \in 1 .. Len(c), NEW i \in 1 .. k - 1
  PROVE  Compared(t, i, k) <=> Compared(c, i, k)
<1>1. /\ Len(c) \in Nat /\ i \in 1 .. Len(c) /\ k \in 0 .. Len(c)
      /\ k \in 1 .. Len(c) + 1
  BY CountsKept
<1>2. t[i] = c[i] /\ t[k] = c[k]
  BY <1>1 DEF Extends
<1>3. /\ Declares(t, i, t[k].name) <=> Declares(c, i, c[k].name)
      /\ Together(t, i, k) <=> Together(c, i, k)
      /\ First(t, i) <=> First(c, i)
  BY <1>1, <1>2, PlacesKept
<1>4. Defined(t, i, k) <=> Defined(c, i, k)
  BY <1>1, DefinedKept
<1> QED
  BY <1>2, <1>3, <1>4 DEF Compared

(* A program crashes if a beginning of it does. *)
LEMMA CrashingKept ==
  ASSUME NEW t, NEW c, Extends(t, c), Crashing(c)
  PROVE  Crashing(t)
<1>1. PICK k \in DOMAIN c : \E i \in 1 .. k - 1 :
        Compared(c, i, k) /\ Stuck(c[i].type.sig, c[k].type.sig)
  BY DEF Crashing
<1>2. PICK i \in 1 .. k - 1 : Compared(c, i, k) /\ Stuck(c[i].type.sig, c[k].type.sig)
  BY <1>1
<1>3. /\ Len(c) \in Nat /\ Len(t) \in Nat /\ Len(c) <= Len(t)
      /\ DOMAIN c = 1 .. Len(c) /\ DOMAIN t = 1 .. Len(t)
  BY DEF Extends
<1>4. k \in 1 .. Len(c) /\ k \in DOMAIN t /\ i \in 1 .. Len(c)
  BY <1>3
<1>5. t[i] = c[i] /\ t[k] = c[k]
  BY <1>4 DEF Extends
<1>6. Compared(t, i, k)
  BY <1>2, <1>4, ComparedKept
<1> QED
  BY <1>2, <1>4, <1>5, <1>6 DEF Crashing

(* A text that grows keeps what its names mean at its positions. *)
LEMMA MeaningSame ==
  ASSUME NEW t, NEW c, NEW e, Longer(t, c, e), NEW i \in 0 .. Len(c), NEW name
  PROVE  /\ Visible(t, name, i) = Visible(c, name, i)
         /\ Meaning(t, name, i) = Meaning(c, name, i)
<1>1. /\ Len(c) \in Nat
      /\ \A k \in 0 .. Len(c) : \A ev : Count(t, k, ev) = Count(c, k, ev)
      /\ \A k \in 0 .. Len(c) : Depth(t, k) = Depth(c, k)
  BY CountsSame
<1>2. \A j \in 1 .. i : j \in 1 .. Len(c) /\ j \in 0 .. Len(c)
  BY <1>1
<1>3. Visible(t, name, i) = Visible(c, name, i)
  <2>1. \A j \in 1 .. i : Declares(t, j, name) <=> Declares(c, j, name)
    BY <1>2, ScopesSame
  <2>2. \A j \in 1 .. i : Open(t, j, i) <=> Open(c, j, i)
    BY <1>2, ScopesSame
  <2>3. \A j \in 1 .. i : First(t, j) <=> First(c, j)
    BY <1>2, ScopesSame
  <2> QED
    BY <2>1, <2>2, <2>3 DEF Visible
<1>4. CASE Visible(t, name, i) = {}
  BY <1>3, <1>4 DEF Meaning
<1>5. CASE Visible(t, name, i) # {}
  <2>1. i \in Nat
    BY <1>1
  <2>2. PICK j \in Visible(c, name, i) :
          \A k \in Visible(c, name, i) : Depth(c, k) <= Depth(c, j)
    BY <1>3, <1>5, <2>1, DeepestExists
  <2>3. \A k \in Visible(c, name, i) : k \in 0 .. Len(c)
    BY <1>2 DEF Visible
  <2>4. /\ j \in Visible(t, name, i)
        /\ \A k \in Visible(t, name, i) : Depth(t, k) <= Depth(t, j)
    BY <1>1, <1>3, <2>2, <2>3
  <2>5. Meaning(c, name, i) = Count(c, j, "declare")
    BY <2>1, <2>2, MeaningIs
  <2>6. Meaning(t, name, i) = Count(t, j, "declare")
    BY <2>1, <2>4, MeaningIs
  <2> QED
    BY <1>1, <1>3, <2>2, <2>3, <2>5, <2>6
<1> QED
  BY <1>3, <1>4, <1>5

(* What is open behind the new event. *)
LEMMA OpenNext ==
  ASSUME NEW t, NEW c, NEW e, Longer(t, c, e), NEW j \in 1 .. Len(c)
  PROVE  Open(t, j, Len(c) + 1) <=>
           Open(c, j, Len(c)) /\ Depth(t, Len(c) + 1) >= Depth(c, j)
<1>1. Len(c) \in Nat /\ j \in 0 .. Len(c) /\ Len(c) \in 0 .. Len(c)
  BY CountsSame
<1>2. Depth(t, j) = Depth(c, j)
  BY <1>1, CountsSame
<1>3. \A k \in j .. Len(c) + 1 : k \in j .. Len(c) \/ k = Len(c) + 1
  BY <1>1
<1>4. Len(c) + 1 \in j .. Len(c) + 1 /\ \A k \in j .. Len(c) : k \in j .. Len(c) + 1
  BY <1>1
<1>5. Open(t, j, Len(c)) <=> Open(c, j, Len(c))
  BY <1>1, ScopesSame
<1>6. Open(t, j, Len(c) + 1) <=>
        Open(t, j, Len(c)) /\ Depth(t, Len(c) + 1) >= Depth(t, j)
  BY <1>3, <1>4 DEF Open
<1> QED
  BY <1>2, <1>5, <1>6

(* What is visible behind an event that declares nothing. *)
LEMMA VisibleNext ==
  ASSUME NEW t, NEW c, NEW e, Longer(t, c, e), e.ev # "declare", NEW name
  PROVE  Visible(t, name, Len(c) + 1) =
           {j \in Visible(c, name, Len(c)) : Depth(t, Len(c) + 1) >= Depth(c, j)}
<1>1. Len(c) \in Nat
  BY CountsSame
<1>2. \A j \in 1 .. Len(c) + 1 : j \in 1 .. Len(c) \/ j = Len(c) + 1
  BY <1>1
<1>3. ~ Declares(t, Len(c) + 1, name)
  BY DEF Longer, Declares
<1>4. ASSUME NEW j \in 1 .. Len(c)
      PROVE  j \in Visible(t, name, Len(c) + 1) <=>
               j \in Visible(c, name, Len(c)) /\ Depth(t, Len(c) + 1) >= Depth(c, j)
  <2>1. j \in 1 .. Len(c) + 1
    BY <1>1
  <2>2. /\ Declares(t, j, name) <=> Declares(c, j, name)
        /\ First(t, j) <=> First(c, j)
    BY ScopesSame
  <2> QED
    BY <2>1, <2>2, OpenNext DEF Visible
<1>5. \A j \in Visible(t, name, Len(c) + 1) : j \in 1 .. Len(c)
  BY <1>2, <1>3 DEF Visible
<1>6. \A j \in Visible(c, name, Len(c)) : j \in 1 .. Len(c)
  BY DEF Visible
<1> QED
  BY <1>4, <1>5, <1>6

(* What is together with a new declaration. *)
LEMMA TogetherNext ==
  ASSUME NEW t, NEW c, NEW e, Longer(t, c, e), e.ev = "declare", NEW j \in 1 .. Len(c)
  PROVE  /\ Depth(t, Len(c) + 1) = Depth(c, Len(c))
         /\ Together(t, j, Len(c) + 1) <=> Together(c, j, Len(c))
         /\ Open(t, j, Len(c) + 1) <=> Open(c, j, Len(c))
<1>1. Len(c) \in Nat /\ j \in 0 .. Len(c) /\ Len(c) \in 0 .. Len(c)
  BY CountsSame
<1>2. Depth(t, Len(c) + 1) = Depth(t, Len(c))
  <2>1. t[Len(c) + 1].ev = "declare"
    BY DEF Longer
  <2> QED
    BY <1>1, <2>1, DepthNext
<1>3. Depth(t, Len(c)) = Depth(c, Len(c)) /\ Depth(t, j) = Depth(c, j)
  BY <1>1, CountsSame
<1>4. Open(c, j, Len(c)) => Depth(c, Len(c)) >= Depth(c, j)
  <2>1. Len(c) \in j .. Len(c)
    BY <1>1
  <2> QED
    BY <2>1 DEF Open
<1>5. Open(t, j, Len(c) + 1) <=> Open(c, j, Len(c))
  BY <1>2, <1>3, <1>4, OpenNext
<1> QED
  BY <1>2, <1>3, <1>5 DEF Together

(* A declaration is the first of its scope when none is visible there, and *)
(* then it is what becomes visible.                                        *)
LEMMA DeclaredNext ==
  ASSUME NEW t, NEW c, NEW e, Longer(t, c, e), e.ev = "declare", NEW name
  PROVE  /\ Depth(t, Len(c) + 1) = Depth(c, Len(c))
         /\ \A j \in 1 .. Len(c) :
              j \in Visible(t, name, Len(c) + 1) <=> j \in Visible(c, name, Len(c))
         /\ Len(c) + 1 \in Visible(t, name, Len(c) + 1) <=>
              /\ name = e.name
              /\ \A j \in Visible(c, name, Len(c)) : Depth(c, j) # Depth(c, Len(c))
<1> DEFINE L == Len(c)
<1>1. L \in Nat /\ L + 1 \in Nat /\ L \in 0 .. L /\ L + 1 \in 1 .. L + 1
  BY CountsSame
<1>2. Depth(t, L + 1) = Depth(c, L)
  <2>1. t[L + 1].ev = "declare"
    BY DEF Longer
  <2>2. Depth(t, L + 1) = Depth(t, L)
    BY <1>1, <2>1, DepthNext
  <2> QED
    BY <1>1, <2>2, CountsSame
<1>3. t[L + 1] = e
  BY DEF Longer
<1>4. ASSUME NEW j \in 1 .. L
      PROVE  j \in Visible(t, name, L + 1) <=> j \in Visible(c, name, L)
  <2>1. j \in 1 .. L + 1
    BY <1>1
  <2>2. /\ Declares(t, j, name) <=> Declares(c, j, name)
        /\ First(t, j) <=> First(c, j)
    BY ScopesSame
  <2>3. Open(t, j, L + 1) <=> Open(c, j, L)
    BY TogetherNext
  <2> QED
    BY <2>1, <2>2, <2>3 DEF Visible
<1>5. Open(t, L + 1, L + 1)
  <2>1. \A k \in L + 1 .. L + 1 : k = L + 1
    BY <1>1
  <2>2. Depth(t, L + 1) \in Int
    BY <1>1, DepthTyped
  <2> QED
    BY <2>1, <2>2 DEF Open
<1>6. ASSUME name = e.name
      PROVE  First(t, L + 1) <=>
               \A j \in Visible(c, name, L) : Depth(c, j) # Depth(c, L)
  <2>1. First(t, L + 1) <=>
          ~ \E k \in 1 .. L : Declares(t, k, name) /\ Together(t, k, L + 1)
    <3>1. (L + 1) - 1 = L
      BY <1>1
    <3> QED
      BY <1>3, <1>6, <3>1 DEF First
  <2>2. \A k \in 1 .. L : Declares(t, k, name) /\ Together(t, k, L + 1) <=>
                          Declares(c, k, name) /\ Together(c, k, L)
    BY ScopesSame, TogetherNext
  <2>3. ASSUME NEW k \in 1 .. L, Declares(c, k, name), Together(c, k, L)
        PROVE  \E j \in Visible(c, name, L) : Depth(c, j) = Depth(c, L)
    <3>1. PICK j \in Visible(c, name, L) : Together(c, j, L)
      BY <1>1, <2>3, FirstExists
    <3> QED
      BY <3>1 DEF Together
  <2>4. ASSUME NEW j \in Visible(c, name, L), Depth(c, j) = Depth(c, L)
        PROVE  j \in 1 .. L /\ Declares(c, j, name) /\ Together(c, j, L)
    BY <2>4 DEF Visible, Together
  <2> QED
    BY <2>1, <2>2, <2>3, <2>4
<1>7. Declares(t, L + 1, name) <=> name = e.name
  BY <1>3 DEF Declares
<1>8. L + 1 \in Visible(t, name, L + 1) <=>
        name = e.name /\ First(t, L + 1)
  BY <1>1, <1>5, <1>7 DEF Visible
<1> QED
  BY <1>2, <1>4, <1>6, <1>8

(***************************************************************************)
(* What the walk has gone through of a text, and what is left of it.       *)
(***************************************************************************)

(* r[i] is the text left from the i-th list of calls outwards: each scope  *)
(* ends, and what is left of the one around it follows.                    *)
Behind(r, i) == IF i = 1 THEN <<>> ELSE <<Exit>> \o r[i - 1]

Rests(r, lists) ==
  /\ r \in [1 .. Len(lists) -> Seq(Event)]
  /\ \A i \in 1 .. Len(lists) : r[i] = TextOf(lists[i]) \o Behind(r, i)

LeftIs(lists, n, w) == \E r : Rests(r, lists) /\ r[n] = w

Reaches(c, lists) ==
  /\ c \in Seq(Event)
  /\ \E r : Rests(r, lists) /\ ProgramText(program) = c \o r[Len(lists)]

(* Texts behind each other, grouped from the left and from the right. *)
Grouped3(a, b, c) == (a \o b) \o c = a \o (b \o c)

(* Of three texts. *)
LEMMA Regroup3 ==
  ASSUME NEW a \in Seq(Event), NEW b \in Seq(Event), NEW c \in Seq(Event)
  PROVE  Grouped3(a, b, c)
BY ConcatAssociative DEF Grouped3

Grouped4(a, b, c, d) == ((a \o b) \o c) \o d = a \o ((b \o c) \o d)

(* Of four texts. *)
LEMMA Regroup4 ==
  ASSUME NEW a \in Seq(Event), NEW b \in Seq(Event), NEW c \in Seq(Event),
         NEW d \in Seq(Event)
  PROVE  Grouped4(a, b, c, d)
<1>1. PICK x \in Seq(Event) : x = b \o c
  BY ConcatProperties
<1>2. (a \o b) \o c = a \o (b \o c)
  <2>1. Grouped3(a, b, c)
    BY Regroup3
  <2> QED
    BY <2>1 DEF Grouped3
<1>3. (a \o x) \o d = a \o (x \o d)
  <2>1. Grouped3(a, x, d)
    BY Regroup3
  <2> QED
    BY <2>1 DEF Grouped3
<1> QED
  BY <1>1, <1>2, <1>3 DEF Grouped4

Grouped5(a, b, c, d, e) ==
  (((a \o b) \o c) \o d) \o e = a \o (b \o (c \o (d \o e)))

(* Of five texts. *)
LEMMA Regroup5 ==
  ASSUME NEW a \in Seq(Event), NEW b \in Seq(Event), NEW c \in Seq(Event),
         NEW d \in Seq(Event), NEW e \in Seq(Event)
  PROVE  Grouped5(a, b, c, d, e)
<1>1. PICK x \in Seq(Event), w \in Seq(Event) : x = a \o b /\ w = d \o e
  BY ConcatProperties
<1>2. PICK y \in Seq(Event), z \in Seq(Event) : y = x \o c /\ z = c \o w
  BY ConcatProperties
<1>3. (y \o d) \o e = y \o (d \o e)
  <2>1. Grouped3(y, d, e)
    BY Regroup3
  <2> QED
    BY <2>1 DEF Grouped3
<1>4. (x \o c) \o w = x \o (c \o w)
  <2>1. Grouped3(x, c, w)
    BY Regroup3
  <2> QED
    BY <2>1 DEF Grouped3
<1>5. (a \o b) \o z = a \o (b \o z)
  <2>1. Grouped3(a, b, z)
    BY Regroup3
  <2> QED
    BY <2>1 DEF Grouped3
<1> QED
  BY <1>1, <1>2, <1>3, <1>4, <1>5 DEF Grouped5

(* No text. *)
LEMMA EmptyText == <<>> \in Seq(Event) /\ <<>> \o <<>> = <<>>
<1>1. <<>> \in Seq(Event)
  OBVIOUS
<1> QED
  BY <1>1, ConcatEmptySeq

(* The lists up to the m-th are the same. *)
SameBelow(other, lists, m) == \A i \in 1 .. m : other[i] = lists[i]

(* And the list a is on top of them. *)
Tops(other, lists, m, a) ==
  Len(other) = m + 1 /\ other[m + 1] = a /\ SameBelow(other, lists, m)

(* What follows a list of calls is text. *)
LEMMA BehindTyped ==
  ASSUME NEW lists, NEW n \in Nat, n = Len(lists), n # 0, NEW r, Rests(r, lists)
  PROVE  Behind(r, n) \in Seq(Event)
<1>1. r \in [1 .. n -> Seq(Event)]
  BY DEF Rests
<1>2. CASE n = 1
  BY <1>2 DEF Behind
<1>3. CASE n # 1
  <2>1. r[n - 1] \in Seq(Event)
    <3>1. n - 1 \in 1 .. n
      BY <1>3
    <3> QED
      BY <1>1, <3>1
  <2>2. <<Exit>> \o r[n - 1] \in Seq(Event)
    BY <2>1, EventsTyped, ScopedTyped, ConcatProperties
  <2> QED
    BY <1>3, <2>2 DEF Behind
<1> QED
  BY <1>2, <1>3

(* The innermost list of calls becomes another. *)
LEMMA RestsReplace ==
  ASSUME NEW lists \in Seq(Seq(AnyCall)), NEW n \in Nat, n = Len(lists), n # 0,
         NEW r, Rests(r, lists), NEW a \in Seq(AnyCall),
         NEW other \in Seq(Seq(AnyCall)), Tops(other, lists, n - 1, a)
  PROVE  LeftIs(other, n, TextOf(a) \o Behind(r, n))
<1>0. Len(other) = n /\ other[n] = a /\ SameBelow(other, lists, n - 1)
  BY DEF Tops
<1>1. r \in [1 .. n -> Seq(Event)] /\ \A i \in 1 .. n : r[i] = TextOf(lists[i]) \o Behind(r, i)
  BY DEF Rests
<1>2. Behind(r, n) \in Seq(Event)
  BY BehindTyped
<1>3. PICK x \in Seq(Event) : x = TextOf(a) \o Behind(r, n)
  <2>1. TextOf(a) \in Seq(Event)
    BY TextTyped
  <2> QED
    BY <1>2, <2>1, ConcatProperties
<1>4. PICK q : q = [i \in 1 .. n |-> IF i = n THEN x ELSE r[i]]
  OBVIOUS
<1>5. q \in [1 .. n -> Seq(Event)]
  BY <1>1, <1>4
<1>6. q[n] = x /\ \A i \in 1 .. n - 1 : q[i] = r[i]
  BY <1>4
<1>7. ASSUME NEW i \in 1 .. n
      PROVE  Behind(q, i) = Behind(r, i)
  <2>1. i = 1 \/ i - 1 \in 1 .. n - 1
    OBVIOUS
  <2> QED
    BY <1>6, <2>1 DEF Behind
<1>8. ASSUME NEW i \in 1 .. n
      PROVE  q[i] = TextOf(other[i]) \o Behind(q, i)
  <2>1. CASE i = n
    BY <1>0, <1>3, <1>6, <1>7, <2>1
  <2>2. CASE i # n
    <3>1. i \in 1 .. n - 1
      BY <2>2
    <3>2. q[i] = r[i] /\ other[i] = lists[i] /\ r[i] = TextOf(lists[i]) \o Behind(r, i)
      BY <1>0, <1>1, <1>6, <3>1 DEF SameBelow
    <3> QED
      BY <1>7, <3>2
  <2> QED
    BY <2>1, <2>2
<1>9. Rests(q, other)
  BY <1>0, <1>5, <1>8 DEF Rests
<1> QED
  BY <1>3, <1>6, <1>9 DEF LeftIs

(* A list of calls is put on top. *)
LEMMA RestsPush ==
  ASSUME NEW lists \in Seq(Seq(AnyCall)), NEW n \in Nat, n = Len(lists), n # 0,
         NEW r, Rests(r, lists), NEW a \in Seq(AnyCall),
         NEW other \in Seq(Seq(AnyCall)), Tops(other, lists, n, a)
  PROVE  /\ r[n] \in Seq(Event)
         /\ LeftIs(other, n + 1, TextOf(a) \o (<<Exit>> \o r[n]))
<1>0. Len(other) = n + 1 /\ other[n + 1] = a /\ SameBelow(other, lists, n)
  BY DEF Tops
<1>1. r \in [1 .. n -> Seq(Event)] /\ \A i \in 1 .. n : r[i] = TextOf(lists[i]) \o Behind(r, i)
  BY DEF Rests
<1>2. n \in 1 .. n /\ r[n] \in Seq(Event)
  <2>1. n \in 1 .. n
    OBVIOUS
  <2> QED
    BY <1>1, <2>1
<1>3. PICK x \in Seq(Event) : x = TextOf(a) \o (<<Exit>> \o r[n])
  <2>1. TextOf(a) \in Seq(Event)
    BY TextTyped
  <2>2. <<Exit>> \o r[n] \in Seq(Event)
    BY <1>2, ScopedTyped, ConcatProperties
  <2> QED
    BY <2>1, <2>2, ConcatProperties
<1>4. PICK q : q = [i \in 1 .. n + 1 |-> IF i = n + 1 THEN x ELSE r[i]]
  OBVIOUS
<1>5. q \in [1 .. n + 1 -> Seq(Event)]
  BY <1>1, <1>4
<1>6. q[n + 1] = x /\ \A i \in 1 .. n : q[i] = r[i]
  BY <1>4
<1>7. ASSUME NEW i \in 1 .. n
      PROVE  q[i] = TextOf(other[i]) \o Behind(q, i)
  <2>1. i = 1 \/ i - 1 \in 1 .. n
    OBVIOUS
  <2>2. Behind(q, i) = Behind(r, i)
    BY <1>6, <2>1 DEF Behind
  <2> QED
    BY <1>0, <1>1, <1>6, <2>2 DEF SameBelow
<1>8. Behind(q, n + 1) = <<Exit>> \o r[n]
  <2>1. (n + 1) - 1 = n /\ n + 1 # 1
    OBVIOUS
  <2> QED
    BY <1>2, <1>6, <2>1 DEF Behind
<1>9. \A i \in 1 .. n + 1 : q[i] = TextOf(other[i]) \o Behind(q, i)
  <2>1. \A i \in 1 .. n + 1 : i \in 1 .. n \/ i = n + 1
    OBVIOUS
  <2> QED
    BY <1>0, <1>3, <1>6, <1>7, <1>8, <2>1
<1>10. Rests(q, other)
  BY <1>0, <1>5, <1>9 DEF Rests
<1> QED
  BY <1>2, <1>3, <1>6, <1>10 DEF LeftIs

(* The list on top goes away. *)
LEMMA RestsPop ==
  ASSUME NEW lists \in Seq(Seq(AnyCall)), NEW n \in Nat, n + 1 = Len(lists), n # 0,
         NEW r, Rests(r, lists),
         NEW other \in Seq(Seq(AnyCall)), Len(other) = n,
         SameBelow(other, lists, n)
  PROVE  r[n] \in Seq(Event) /\ \E q : Rests(q, other) /\ q[n] = r[n]
<1>1. /\ r \in [1 .. n + 1 -> Seq(Event)]
      /\ \A i \in 1 .. n + 1 : r[i] = TextOf(lists[i]) \o Behind(r, i)
  BY DEF Rests
<1>2. PICK q : q = [i \in 1 .. n |-> r[i]]
  OBVIOUS
<1>3. q \in [1 .. n -> Seq(Event)] /\ \A i \in 1 .. n : q[i] = r[i]
  BY <1>1, <1>2
<1>4. ASSUME NEW i \in 1 .. n
      PROVE  q[i] = TextOf(other[i]) \o Behind(q, i)
  <2>1. i = 1 \/ i - 1 \in 1 .. n
    OBVIOUS
  <2>2. Behind(q, i) = Behind(r, i)
    BY <1>3, <2>1 DEF Behind
  <2>3. r[i] = TextOf(lists[i]) \o Behind(r, i)
    <3>1. i \in 1 .. n + 1
      OBVIOUS
    <3> QED
      BY <1>1, <3>1
  <2> QED
    BY <1>3, <2>2, <2>3 DEF SameBelow
<1>5. Rests(q, other)
  BY <1>3, <1>4 DEF Rests
<1>6. n \in 1 .. n /\ n \in 1 .. n + 1
  OBVIOUS
<1> QED
  BY <1>1, <1>3, <1>5, <1>6

(* Any list of calls may be put in the innermost one's place. *)
LEMMA RestsDrop ==
  ASSUME NEW lists \in Seq(Seq(AnyCall)), NEW n \in Nat, n = Len(lists), n # 0,
         NEW r, Rests(r, lists), NEW rest \in Seq(AnyCall)
  PROVE  \E mid \in Seq(Seq(AnyCall)) :
           /\ Len(mid) = n /\ mid[n] = rest /\ SameBelow(mid, lists, n - 1)
           /\ LeftIs(mid, n, TextOf(rest) \o Behind(r, n))
<1>1. PICK mid \in Seq(Seq(AnyCall)) :
        /\ Len(mid) = n /\ mid[n] = rest /\ SameBelow(mid, lists, n - 1)
        /\ Tops(mid, lists, n - 1, rest)
  <2>1. PICK T : T = Seq(AnyCall)
    OBVIOUS
  <2>2. PICK mid : mid = [i \in 1 .. n |-> IF i = n THEN rest ELSE lists[i]]
    OBVIOUS
  <2>3. mid \in Seq(T) /\ Len(mid) = n
    <3>1. \A i \in 1 .. n : (IF i = n THEN rest ELSE lists[i]) \in T
      BY <2>1
    <3>2. [i \in 1 .. n |-> IF i = n THEN rest ELSE lists[i]] \in Seq(T)
      BY <3>1
    <3> QED
      BY <2>2, <3>2
  <2>4. mid[n] = rest /\ SameBelow(mid, lists, n - 1)
    BY <2>2 DEF SameBelow
  <2>5. (n - 1) + 1 = n
    OBVIOUS
  <2> QED
    BY <2>1, <2>3, <2>4, <2>5 DEF Tops
<1>2. LeftIs(mid, n, TextOf(rest) \o Behind(r, n))
  BY <1>1, RestsReplace
<1> QED
  BY <1>1, <1>2

(* The call at hand goes through x and makes the calls new. *)
LEMMA ReachesReplace ==
  ASSUME NEW lists \in Seq(Seq(AnyCall)), NEW n \in Nat, n = Len(lists), n # 0,
         NEW calls \in Seq(AnyCall), calls = lists[n], calls # <<>>,
         NEW x \in Seq(Event), NEW new \in Seq(AnyCall),
         CallText(Head(calls)) = x \o TextOf(new),
         NEW other \in Seq(Seq(AnyCall)), Len(other) = n,
         other[n] = new \o Tail(calls), SameBelow(other, lists, n - 1),
         NEW c, Reaches(c, lists)
  PROVE  Reaches(c \o x, other)
<1>1. PICK r : Rests(r, lists) /\ ProgramText(program) = c \o r[n]
  BY DEF Reaches
<1>2. c \in Seq(Event)
  BY DEF Reaches
<1>3. PICK rest \in Seq(AnyCall) : rest = Tail(calls)
  BY HeadTailProperties
<1>4. PICK a \in Seq(AnyCall) : a = new \o rest /\ Tops(other, lists, n - 1, a)
  <2>1. new \o rest \in Seq(AnyCall)
    BY ConcatProperties
  <2>2. (n - 1) + 1 = n
    OBVIOUS
  <2> QED
    BY <1>3, <2>1, <2>2 DEF Tops
<1>5. Behind(r, n) \in Seq(Event) /\ LeftIs(other, n, TextOf(a) \o Behind(r, n))
  BY <1>1, <1>4, BehindTyped, RestsReplace
<1>6. PICK q : Rests(q, other) /\ q[n] = TextOf(a) \o Behind(r, n)
  BY <1>5 DEF LeftIs
<1>7. PICK b \in Seq(Event), u \in Seq(Event), v \in Seq(Event) :
        b = Behind(r, n) /\ u = TextOf(new) /\ v = TextOf(rest)
  BY <1>5, TextTyped
<1>8. TextOf(a) = u \o v
  BY <1>4, <1>7, TextConcat
<1>9. r[n] = ((x \o u) \o v) \o b
  <2>1. TextOf(calls) = (x \o u) \o v
    BY <1>3, <1>7, TextSplit
  <2>2. n \in 1 .. n
    OBVIOUS
  <2>3. r[n] = TextOf(lists[n]) \o Behind(r, n)
    BY <1>1, <2>2 DEF Rests
  <2> QED
    BY <1>7, <2>1, <2>3
<1>10. ((x \o u) \o v) \o b = x \o ((u \o v) \o b)
  <2>1. Grouped4(x, u, v, b)
    BY Regroup4
  <2> QED
    BY <2>1 DEF Grouped4
<1>11. PICK w \in Seq(Event) : w = (u \o v) \o b
  BY ConcatProperties
<1>12. c \o (x \o w) = (c \o x) \o w
  <2>1. Grouped3(c, x, w)
    BY <1>2, Regroup3
  <2> QED
    BY <2>1 DEF Grouped3
<1>13. ProgramText(program) = (c \o x) \o q[n]
  BY <1>1, <1>6, <1>7, <1>8, <1>9, <1>10, <1>11, <1>12
<1>14. c \o x \in Seq(Event)
  BY <1>2, ConcatProperties
<1> QED
  BY <1>6, <1>13, <1>14 DEF Reaches

(* The call at hand enters a scope, in which arg is called. *)
LEMMA ReachesEnter ==
  ASSUME NEW lists \in Seq(Seq(AnyCall)), NEW n \in Nat, n = Len(lists), n # 0,
         NEW calls \in Seq(AnyCall), calls = lists[n], calls # <<>>,
         NEW arg \in Seq(AnyCall), CallText(Head(calls)) = Scoped(TextOf(arg)),
         NEW other \in Seq(Seq(AnyCall)), Len(other) = n + 1,
         other[n] = Tail(calls), other[n + 1] = arg,
         SameBelow(other, lists, n - 1),
         NEW c, Reaches(c, lists)
  PROVE  Reaches(c \o <<Enter>>, other)
<1>1. PICK r : Rests(r, lists) /\ ProgramText(program) = c \o r[n]
  BY DEF Reaches
<1>2. c \in Seq(Event)
  BY DEF Reaches
<1>3. PICK rest \in Seq(AnyCall) : rest = Tail(calls)
  BY HeadTailProperties
<1>4. Behind(r, n) \in Seq(Event)
  BY <1>1, BehindTyped
<1>5. PICK mid \in Seq(Seq(AnyCall)) :
        /\ Len(mid) = n /\ mid[n] = rest /\ SameBelow(mid, lists, n - 1)
        /\ LeftIs(mid, n, TextOf(rest) \o Behind(r, n))
  BY <1>1, RestsDrop
<1>6. PICK q : Rests(q, mid) /\ q[n] = TextOf(rest) \o Behind(r, n)
  BY <1>5 DEF LeftIs
<1>7. Tops(other, mid, n, arg)
  <2>1. \A i \in 1 .. n : i \in 1 .. n - 1 \/ i = n
    OBVIOUS
  <2> QED
    BY <1>3, <1>5, <2>1 DEF SameBelow, Tops
<1>8. /\ q[n] \in Seq(Event)
      /\ LeftIs(other, n + 1, TextOf(arg) \o (<<Exit>> \o q[n]))
  <2>1. Rests(q, mid) /\ Len(mid) = n
    BY <1>5, <1>6
  <2> QED
    BY <1>7, <2>1, RestsPush
<1>9. PICK p : Rests(p, other) /\ p[n + 1] = TextOf(arg) \o (<<Exit>> \o q[n])
  BY <1>8 DEF LeftIs
<1>10. PICK b \in Seq(Event), a \in Seq(Event), v \in Seq(Event), w \in Seq(Event),
            e \in Seq(Event), o \in Seq(Event) :
         /\ b = Behind(r, n) /\ a = TextOf(arg) /\ v = TextOf(rest) /\ w = q[n]
         /\ e = <<Enter>> /\ o = <<Exit>>
  <2>1. /\ TextOf(arg) \in Seq(Event) /\ TextOf(rest) \in Seq(Event)
        /\ <<Enter>> \in Seq(Event) /\ <<Exit>> \in Seq(Event)
    BY TextTyped, ScopedTyped
  <2> QED
    BY <1>4, <1>8, <2>1
<1>11. r[n] = (((e \o a) \o o) \o v) \o b
  <2>1. TextOf(calls) = ((e \o a) \o o) \o v
    BY <1>3, <1>10, TextSplit DEF Scoped
  <2>2. n \in 1 .. n
    OBVIOUS
  <2>3. r[n] = TextOf(lists[n]) \o Behind(r, n)
    BY <1>1, <2>2 DEF Rests
  <2> QED
    BY <1>10, <2>1, <2>3
<1>12. (((e \o a) \o o) \o v) \o b = e \o (a \o (o \o w))
  <2>1. w = v \o b
    BY <1>6, <1>10
  <2>2. Grouped5(e, a, o, v, b)
    BY Regroup5
  <2> QED
    BY <2>1, <2>2 DEF Grouped5
<1>13. PICK z \in Seq(Event) : z = a \o (o \o w)
  <2>1. o \o w \in Seq(Event)
    BY ConcatProperties
  <2> QED
    BY <2>1, ConcatProperties
<1>14. c \o (e \o z) = (c \o e) \o z
  <2>1. Grouped3(c, e, z)
    BY <1>2, Regroup3
  <2> QED
    BY <2>1 DEF Grouped3
<1>15. ProgramText(program) = (c \o <<Enter>>) \o p[n + 1]
  BY <1>1, <1>9, <1>10, <1>11, <1>12, <1>13, <1>14
<1>16. c \o <<Enter>> \in Seq(Event)
  BY <1>2, <1>10, ConcatProperties
<1> QED
  BY <1>9, <1>15, <1>16 DEF Reaches

(* The innermost scope is left. *)
LEMMA ReachesExit ==
  ASSUME NEW lists \in Seq(Seq(AnyCall)), NEW n \in Nat, n + 1 = Len(lists), n # 0,
         lists[n + 1] = <<>>,
         NEW other \in Seq(Seq(AnyCall)), Len(other) = n,
         SameBelow(other, lists, n),
         NEW c, Reaches(c, lists)
  PROVE  Reaches(c \o <<Exit>>, other)
<1>1. PICK r : Rests(r, lists) /\ ProgramText(program) = c \o r[n + 1]
  BY DEF Reaches
<1>2. c \in Seq(Event)
  BY DEF Reaches
<1>3. r[n] \in Seq(Event) /\ \E q : Rests(q, other) /\ q[n] = r[n]
  BY <1>1, RestsPop
<1>4. PICK q : Rests(q, other) /\ q[n] = r[n]
  BY <1>3
<1>5. PICK o \in Seq(Event), w \in Seq(Event) : o = <<Exit>> /\ w = r[n]
  <2>1. <<Exit>> \in Seq(Event)
    BY EventsTyped
  <2> QED
    BY <1>3, <2>1
<1>6. r[n + 1] = o \o w
  <2>1. n + 1 \in 1 .. n + 1 /\ n + 1 # 1 /\ (n + 1) - 1 = n
    OBVIOUS
  <2>2. r[n + 1] = TextOf(lists[n + 1]) \o Behind(r, n + 1)
    BY <1>1, <2>1 DEF Rests
  <2>3. Behind(r, n + 1) = o \o w
    BY <1>5, <2>1 DEF Behind
  <2>4. TextOf(lists[n + 1]) = <<>>
    BY TextNone
  <2>5. o \o w \in Seq(Event)
    BY ConcatProperties
  <2> QED
    BY <2>2, <2>3, <2>4, <2>5, ConcatEmptySeq
<1>7. c \o (o \o w) = (c \o o) \o w
  <2>1. Grouped3(c, o, w)
    BY <1>2, Regroup3
  <2> QED
    BY <2>1 DEF Grouped3
<1>8. c \o <<Exit>> \in Seq(Event)
  BY <1>2, <1>5, ConcatProperties
<1> QED
  BY <1>1, <1>4, <1>5, <1>6, <1>7, <1>8 DEF Reaches

(* At the start the whole text is left, and at the end nothing of it. *)
LEMMA ReachesFirst ==
  ASSUME program \in Seq(Decls)
  PROVE  Reaches(<<>>, <<Each("decl", program)>>)
<1>1. PICK a \in Seq(AnyCall) : a = Each("decl", program)
  <2>1. \A d \in Decls : Do("decl", d) \in AnyCall
    BY DEF Do, AnyCall, Flat
  <2>2. Each("decl", program) \in Seq(AnyCall)
    BY <2>1, EachTyped
  <2> QED
    BY <2>2
<1>2. PICK x \in Seq(Event) : x = TextOf(a) /\ x = ProgramText(program)
  BY <1>1, TextTyped, TextProgram
<1>3. PICK lists : lists = <<a>> /\ Len(lists) = 1 /\ lists[1] = a
  <2>1. Len(<<a>>) = 1
    OBVIOUS
  <2>2. <<a>>[1] = a
    OBVIOUS
  <2> QED
    BY <2>1, <2>2
<1>4. PICK r : r = [i \in 1 .. 1 |-> x]
  OBVIOUS
<1>5. r \in [1 .. Len(lists) -> Seq(Event)] /\ r[1] = x
  BY <1>3, <1>4
<1>6. \A i \in 1 .. Len(lists) : r[i] = TextOf(lists[i]) \o Behind(r, i)
  <2>1. \A i \in 1 .. Len(lists) : i = 1
    BY <1>3
  <2>2. Behind(r, 1) = <<>>
    BY DEF Behind
  <2>3. x \o <<>> = x
    BY ConcatEmptySeq
  <2> QED
    BY <1>2, <1>3, <1>5, <2>1, <2>2, <2>3
<1>7. <<>> \o x = x /\ <<>> \in Seq(Event)
  BY ConcatEmptySeq
<1>8. Rests(r, lists) /\ ProgramText(program) = <<>> \o r[Len(lists)]
  BY <1>2, <1>3, <1>5, <1>6, <1>7 DEF Rests
<1>9. Reaches(<<>>, lists)
  BY <1>7, <1>8 DEF Reaches
<1> QED
  BY <1>1, <1>3, <1>9

(* Nothing waits any more: the text gone through is the program. *)
LEMMA ReachesLast ==
  ASSUME NEW lists, Len(lists) = 1, lists[1] = <<>>, NEW c, Reaches(c, lists)
  PROVE  c = ProgramText(program)
<1>1. PICK r : Rests(r, lists) /\ ProgramText(program) = c \o r[1]
  BY DEF Reaches
<1>2. r[1] = <<>> \o <<>>
  <2>1. 1 \in 1 .. Len(lists)
    OBVIOUS
  <2>2. r[1] = TextOf(lists[1]) \o Behind(r, 1)
    BY <1>1, <2>1 DEF Rests
  <2> QED
    BY <2>2, TextNone DEF Behind
<1>3. <<>> \o <<>> = <<>>
  BY EmptyText
<1>4. c \in Seq(Event)
  BY DEF Reaches
<1> QED
  BY <1>1, <1>2, <1>3, <1>4, ConcatEmptySeq

(***************************************************************************)
(* Errors and meanings, event by event.                                    *)
(***************************************************************************)

(* What an event is. *)
LEMMA EventFacts ==
  ASSUME NEW e \in Event
  PROVE  /\ e.ev \in {"enter", "exit", "use", "declare"}
         /\ e.ev \in {"use", "declare"} => e.name \in Names
         /\ e.ev = "declare" => e.type.fun \in BOOLEAN /\ e.code \in BOOLEAN
<1>1. CASE e \in {Enter, Exit}
  BY <1>1 DEF Enter, Exit
<1>2. CASE e \in {Mention(n) : n \in Names}
  BY <1>2 DEF Mention
<1>3. CASE e \in {Parameter(n) : n \in Names}
  <2>1. PICK n \in Names : e = Parameter(n)
    BY <1>3
  <2>2. e.ev = "declare" /\ e.name = n /\ e.type = ParamType /\ e.code = FALSE
    BY <2>1 DEF Parameter
  <2>3. ParamType.fun = FALSE
    BY DEF ParamType
  <2> QED
    BY <2>2, <2>3
<1>4. CASE e \in {Declare(d) : d \in Decls}
  <2>1. PICK d \in Decls : e = Declare(d)
    BY <1>4
  <2>2. d.name \in Names /\ d.type.fun \in BOOLEAN
    BY SourcesAssumption
  <2> QED
    BY <2>1, <2>2 DEF Declare
<1> QED
  BY <1>1, <1>2, <1>3, <1>4 DEF Event

(* A visible declaration has a number, and is no deeper than its position. *)
LEMMA VisibleFacts ==
  ASSUME NEW t, NEW name, NEW i \in Nat, NEW j \in Visible(t, name, i)
  PROVE  /\ j \in 1 .. i /\ j \in Nat /\ t[j].ev = "declare" /\ t[j].name = name
         /\ Declares(t, j, name) /\ Open(t, j, i) /\ First(t, j)
         /\ Depth(t, j) \in Int /\ Depth(t, i) \in Int /\ Depth(t, j) <= Depth(t, i)
         /\ Count(t, j, "declare") \in 1 .. Count(t, i, "declare")
<1>1. j \in 1 .. i /\ Declares(t, j, name) /\ Open(t, j, i) /\ First(t, j)
  BY DEF Visible
<1>2. j \in Nat /\ j <= i /\ j # 0 /\ i \in j .. i
  BY <1>1
<1>3. t[j].ev = "declare" /\ t[j].name = name
  BY <1>1 DEF Declares
<1>4. Depth(t, j) \in Int /\ Depth(t, i) \in Int
  BY <1>2, DepthTyped
<1>5. Depth(t, j) <= Depth(t, i)
  <2>1. Depth(t, i) >= Depth(t, j)
    BY <1>1, <1>2 DEF Open
  <2> QED
    BY <1>4, <2>1
<1>6. /\ Count(t, 0, "declare") = 0 /\ Count(t, j, "declare") \in Nat
      /\ Count(t, i, "declare") \in Nat
  BY <1>2, CountTyped
<1>7. Count(t, 0, "declare") < Count(t, j, "declare")
  BY <1>2, <1>3, CountGrows
<1>8. Count(t, j, "declare") <= Count(t, i, "declare")
  BY <1>2, CountGrows
<1> QED
  BY <1>1, <1>2, <1>3, <1>4, <1>5, <1>6, <1>7, <1>8

(* A use changes neither what is visible nor what a name means. *)
LEMMA MeaningUse ==
  ASSUME NEW t, NEW c, NEW e, Longer(t, c, e), e.ev = "use", NEW name
  PROVE  Meaning(t, name, Len(c) + 1) = Meaning(c, name, Len(c))
<1>1. Len(c) \in Nat /\ Len(c) + 1 \in Nat
  BY CountsSame
<1>2. Depth(t, Len(c) + 1) = Depth(c, Len(c))
  <2>1. t[Len(c) + 1].ev = "use" /\ Len(c) \in 0 .. Len(c)
    BY <1>1 DEF Longer
  <2>2. Depth(t, Len(c) + 1) = Depth(t, Len(c))
    BY <1>1, <2>1, DepthNext
  <2> QED
    BY <2>1, <2>2, CountsSame
<1>3. Visible(t, name, Len(c) + 1) = Visible(c, name, Len(c))
  <2>1. \A j \in Visible(c, name, Len(c)) : Depth(t, Len(c) + 1) >= Depth(c, j)
    <3>1. TAKE j \in Visible(c, name, Len(c))
    <3>2. /\ Depth(c, j) \in Int /\ Depth(c, Len(c)) \in Int
          /\ Depth(c, j) <= Depth(c, Len(c))
      BY <1>1, VisibleFacts
    <3> QED
      BY <1>2, <3>2
  <2> QED
    BY <2>1, VisibleNext
<1>4. CASE Visible(c, name, Len(c)) = {}
  BY <1>3, <1>4 DEF Meaning
<1>5. CASE Visible(c, name, Len(c)) # {}
  <2>1. PICK j \in Visible(c, name, Len(c)) :
          \A k \in Visible(c, name, Len(c)) : Depth(c, k) <= Depth(c, j)
    BY <1>1, <1>5, DeepestExists
  <2>2. \A k \in Visible(c, name, Len(c)) : k \in 0 .. Len(c)
    <3>1. \A k \in Visible(c, name, Len(c)) : k \in 1 .. Len(c)
      BY DEF Visible
    <3> QED
      BY <1>1, <3>1
  <2>3. \A k \in Visible(c, name, Len(c)) : Depth(t, k) = Depth(c, k)
    BY <2>2, CountsSame
  <2>4. /\ j \in Visible(t, name, Len(c) + 1)
        /\ \A k \in Visible(t, name, Len(c) + 1) : Depth(t, k) <= Depth(t, j)
    BY <1>3, <2>1, <2>3
  <2>5. Meaning(c, name, Len(c)) = Count(c, j, "declare")
    BY <1>1, <2>1, MeaningIs
  <2>6. Meaning(t, name, Len(c) + 1) = Count(t, j, "declare")
    BY <1>1, <2>4, MeaningIs
  <2>7. Count(t, j, "declare") = Count(c, j, "declare")
    BY <2>1, <2>2, CountsSame
  <2> QED
    BY <2>5, <2>6, <2>7
<1> QED
  BY <1>4, <1>5

(* The uses of undeclared names are those before and perhaps the new one. *)
LEMMA UndeclaredNext ==
  ASSUME NEW t, NEW c, NEW e, Longer(t, c, e)
  PROVE  Undeclared(t) <=>
           Undeclared(c) \/ (e.ev = "use" /\ Meaning(t, e.name, Len(c) + 1) = NULL)
<1>1. Len(c) \in Nat /\ DOMAIN c = 1 .. Len(c) /\ DOMAIN t = 1 .. Len(c) + 1
  BY DEF Longer
<1>2. \A i \in 1 .. Len(c) + 1 : i \in 1 .. Len(c) \/ i = Len(c) + 1
  BY <1>1
<1>3. Len(c) + 1 \in 1 .. Len(c) + 1 /\ \A i \in 1 .. Len(c) : i \in 1 .. Len(c) + 1
  BY <1>1
<1>4. ASSUME NEW i \in 1 .. Len(c)
      PROVE  t[i] = c[i] /\ Meaning(t, t[i].name, i) = Meaning(c, c[i].name, i)
  <2>1. t[i] = c[i] /\ i \in 0 .. Len(c)
    BY <1>1 DEF Longer
  <2> QED
    BY <2>1, MeaningSame
<1>5. t[Len(c) + 1] = e
  BY DEF Longer
<1> QED
  BY <1>1, <1>2, <1>3, <1>4, <1>5 DEF Undeclared

(* So are the conflicts of declarations. *)
ConflictsWith(c, e, i) ==
  Declares(c, i, e.name) /\ Together(c, i, Len(c)) /\ ~ Agree(c[i], e)

(* One event further there is a conflict if there was one, or if the event *)
(* declares a name that an earlier declaration of its scope disagrees on.  *)
LEMMA ConflictingNext ==
  ASSUME NEW t, NEW c, NEW e, Longer(t, c, e)
  PROVE  Conflicting(t) <=>
           \/ Conflicting(c)
           \/ e.ev = "declare" /\ \E i \in 1 .. Len(c) : ConflictsWith(c, e, i)
<1>1. Len(c) \in Nat /\ DOMAIN c = 1 .. Len(c) /\ DOMAIN t = 1 .. Len(c) + 1
  BY DEF Longer
<1>2. \A i \in 1 .. Len(c) + 1 : i \in 1 .. Len(c) \/ i = Len(c) + 1
  BY <1>1
<1>3. Len(c) + 1 \in 1 .. Len(c) + 1 /\ \A i \in 1 .. Len(c) : i \in 1 .. Len(c) + 1
  BY <1>1
<1> DEFINE Clash(x, i, k) ==
             /\ x[k].ev = "declare" /\ Declares(x, i, x[k].name)
             /\ Together(x, i, k) /\ ~ Agree(x[i], x[k])
<1>4. ASSUME NEW k \in 1 .. Len(c), NEW i \in 1 .. k - 1
      PROVE  Clash(t, i, k) <=> Clash(c, i, k)
  <2>1. i \in 1 .. Len(c) /\ k \in 0 .. Len(c)
    BY <1>1
  <2>2. t[i] = c[i] /\ t[k] = c[k]
    BY <2>1 DEF Longer
  <2>3. Together(t, i, k) <=> Together(c, i, k)
    BY <2>1, ScopesSame
  <2> QED
    BY <2>2, <2>3 DEF Declares
<1>5. ASSUME NEW i \in 1 .. Len(c)
      PROVE  Clash(t, i, Len(c) + 1) <=> e.ev = "declare" /\ ConflictsWith(c, e, i)
  <2>1. t[Len(c) + 1] = e /\ t[i] = c[i]
    BY DEF Longer
  <2>2. e.ev = "declare" => (Together(t, i, Len(c) + 1) <=> Together(c, i, Len(c)))
    BY TogetherNext
  <2> QED
    BY <2>1, <2>2 DEF ConflictsWith, Declares
<1>6. Conflicting(t) <=> \E k \in DOMAIN t : \E i \in 1 .. k - 1 : Clash(t, i, k)
  BY DEF Conflicting
<1>7. Conflicting(c) <=> \E k \in DOMAIN c : \E i \in 1 .. k - 1 : Clash(c, i, k)
  BY DEF Conflicting
<1>8. (Len(c) + 1) - 1 = Len(c)
  BY <1>1
<1> HIDE DEF Clash
<1> QED
  BY <1>1, <1>2, <1>3, <1>4, <1>5, <1>6, <1>7, <1>8

(* A definition of the name behind j has used a prototype up. *)
UsedUp(c, n, j) ==
  \E k \in j + 1 .. Len(c) : Declares(c, k, n) /\ Together(c, j, k) /\ Defines(c[k])

(* The next event is a function that is compared with declaration i, with  *)
(* a NULL pointer in the way.                                              *)
CrashesWith(c, e, i) ==
  /\ e.type.fun /\ Declares(c, i, e.name) /\ Together(c, i, Len(c)) /\ First(c, i)
  /\ e.code => c[i].type.fun /\ ~ c[i].code /\ ~ UsedUp(c, e.name, i)
  /\ Stuck(c[i].type.sig, e.type.sig)

(* One event further resolution crashes if it did, or if the event is a    *)
(* function whose comparison does.                                         *)
LEMMA CrashingNext ==
  ASSUME NEW t, NEW c, NEW e, Longer(t, c, e)
  PROVE  Crashing(t) <=>
           \/ Crashing(c)
           \/ e.ev = "declare" /\ \E i \in 1 .. Len(c) : CrashesWith(c, e, i)
<1>1. Len(c) \in Nat /\ DOMAIN c = 1 .. Len(c) /\ DOMAIN t = 1 .. Len(c) + 1
  BY DEF Longer
<1>2. \A i \in 1 .. Len(c) + 1 : i \in 1 .. Len(c) \/ i = Len(c) + 1
  BY <1>1
<1>3. Len(c) + 1 \in 1 .. Len(c) + 1 /\ \A i \in 1 .. Len(c) : i \in 1 .. Len(c) + 1
  BY <1>1
<1> DEFINE Crash(x, i, k) == Compared(x, i, k) /\ Stuck(x[i].type.sig, x[k].type.sig)
<1>4. ASSUME NEW k \in 1 .. Len(c), NEW i \in 1 .. k - 1
      PROVE  Crash(t, i, k) <=> Crash(c, i, k)
  <2>1. i \in 1 .. Len(c)
    BY <1>1
  <2>2. t[i] = c[i] /\ t[k] = c[k]
    BY <2>1 DEF Longer
  <2>3. Compared(t, i, k) <=> Compared(c, i, k)
    BY LongerExtends, ComparedKept
  <2> QED
    BY <2>2, <2>3
<1>5. ASSUME NEW i \in 1 .. Len(c)
      PROVE  Crash(t, i, Len(c) + 1) <=> e.ev = "declare" /\ CrashesWith(c, e, i)
  <2>1. t[Len(c) + 1] = e /\ t[i] = c[i] /\ (First(t, i) <=> First(c, i))
    BY ScopesSame DEF Longer
  <2>2. e.ev = "declare" => (Together(t, i, Len(c) + 1) <=> Together(c, i, Len(c)))
    BY TogetherNext
  <2>3. Declares(t, i, e.name) <=> Declares(c, i, e.name)
    BY <2>1 DEF Declares
  <2>4. Defined(t, i, Len(c) + 1) <=> Defined(c, i, Len(c) + 1)
    BY <1>1, <1>3, LongerExtends, DefinedKept
  <2>5. Declares(c, i, e.name) =>
          (Defined(c, i, Len(c) + 1) <=> UsedUp(c, e.name, i))
    <3>1. (Len(c) + 1) - 1 = Len(c)
      BY <1>1
    <3>2. Declares(c, i, e.name) => c[i].name = e.name
      BY DEF Declares
    <3> QED
      BY <3>1, <3>2 DEF Defined, UsedUp
  <2> QED
    BY <2>1, <2>2, <2>3, <2>4, <2>5 DEF CrashesWith, Compared
<1>6. Crashing(t) <=> \E k \in DOMAIN t : \E i \in 1 .. k - 1 : Crash(t, i, k)
  BY DEF Crashing
<1>7. Crashing(c) <=> \E k \in DOMAIN c : \E i \in 1 .. k - 1 : Crash(c, i, k)
  BY DEF Crashing
<1>8. (Len(c) + 1) - 1 = Len(c)
  BY <1>1
<1> HIDE DEF Crash
<1> QED
  BY <1>1, <1>2, <1>3, <1>4, <1>5, <1>6, <1>7, <1>8

(***************************************************************************)
(* What the state owes to the text that the walk has gone through.         *)
(***************************************************************************)

(* A declaration is bound before any other is begun, with the newest       *)
(* symbol; only the uses in its value come first.                          *)
Unbinding(calls) == \A k \in DOMAIN calls : calls[k].do # "bind"
InnerUnbinding(calls) ==
  \A k \in DOMAIN calls : calls[k].do = "scope" => Unbinding(calls[k].arg)

BoundNext(calls) ==
  \A k \in DOMAIN calls : calls[k].do = "bind" =>
    /\ calls[k].arg.symbol = Len(symbols)
    /\ symbols[Len(symbols)].type = calls[k].arg.decl.type
    /\ \A m \in 1 .. k - 1 : calls[m].do = "use"

BindsInv ==
  /\ \A i \in 1 .. Len(todo) : InnerUnbinding(todo[i])
  /\ \A i \in 1 .. Len(todo) - 1 : Unbinding(todo[i])
  /\ BoundNext(Calls)

Pending == ~ Unbinding(Calls)

(* A declaration's number is its symbol, and the one that is not bound yet *)
(* has the newest symbol.                                                  *)
SymbolsInv(c) ==
  /\ Len(symbols) = Count(c, Len(c), "declare") + (IF Pending THEN 1 ELSE 0)
  /\ \A j \in 1 .. Len(c) : c[j].ev = "declare" =>
       symbols[Count(c, j, "declare")].type = c[j].type

DepthInv(c) ==
  /\ Depth(c, Len(c)) = Len(scopes) - 1
  /\ \A k \in 0 .. Len(c) : Depth(c, k) >= 0

(* The tables hold what is visible, scope by scope. *)
TablesInv(c) ==
  \A i \in 1 .. Len(scopes) : \A n \in Names :
    /\ \A j \in Visible(c, n, Len(c)) : Depth(c, j) = i - 1 =>
         scopes[i].table[n] = Count(c, j, "declare")
    /\ scopes[i].table[n] # NULL =>
         \E j \in Visible(c, n, Len(c)) : Depth(c, j) = i - 1

(* The flag of a symbol: a prototype that no definition has used up.       *)
FlagsInv(c) ==
  \A n \in Names : \A j \in Visible(c, n, Len(c)) :
    symbols[Count(c, j, "declare")].prototype <=>
      c[j].type.fun /\ ~ c[j].code /\ ~ UsedUp(c, n, j)

ResolvedInv(c) ==
  /\ Len(resolved) = Count(c, Len(c), "use")
  /\ \A i \in 1 .. Len(c) : c[i].ev = "use" =>
       resolved[Count(c, i, "use")] = Meaning(c, c[i].name, i)

ErrorsInv(c) == resolve_err <=> Undeclared(c) \/ Conflicting(c)

(* Resolution never gets past a comparison that crashes. *)
CrashInv(c) == ~ Crashing(c)

Agreed(c) ==
  /\ SymbolsInv(c) /\ DepthInv(c) /\ TablesInv(c) /\ FlagsInv(c)
  /\ ResolvedInv(c) /\ ErrorsInv(c) /\ CrashInv(c)

(***************************************************************************)
(* The calls that bind.                                                    *)
(***************************************************************************)

(* Behind a call that is no use, nothing waits to be bound. *)
LEMMA NothingPends ==
  ASSUME TypesInv, BindsInv, Calls # <<>>, Call.do # "use"
  PROVE  /\ \A k \in 1 .. Len(Calls) - 1 : Calls[k + 1].do # "bind"
         /\ Pending <=> Call.do = "bind"
<1>1. /\ Len(Calls) \in Nat \ {0} /\ DOMAIN Calls = 1 .. Len(Calls)
      /\ Call = Calls[1]
  BY CallFacts
<1>2. ASSUME NEW k \in 1 .. Len(Calls) - 1
      PROVE  Calls[k + 1].do # "bind"
  <2>1. k + 1 \in DOMAIN Calls /\ 1 \in 1 .. (k + 1) - 1
    BY <1>1
  <2>2. Calls[k + 1].do = "bind" => Calls[1].do = "use"
    BY <2>1 DEF BindsInv, BoundNext
  <2> QED
    BY <1>1, <2>2
<1>3. Pending <=> Call.do = "bind"
  <2>1. 1 \in DOMAIN Calls /\ \A k \in DOMAIN Calls :
          k = 1 \/ (k - 1 \in 1 .. Len(Calls) - 1 /\ (k - 1) + 1 = k)
    BY <1>1
  <2>2. \A k \in DOMAIN Calls : k = 1 \/ Calls[k].do # "bind"
    BY <1>2, <2>1
  <2> QED
    BY <1>1, <2>1, <2>2 DEF Pending, Unbinding
<1> QED
  BY <1>2, <1>3

(* The call at hand, which is no use, makes new ones, of which at most the *)
(* last binds the newest symbol.                                           *)
LEMMA BindsReplace ==
  ASSUME TypesInv, BindsInv, Calls # <<>>, Call.do # "use",
         NEW new \in Seq(AnyCall), Replace(new), InnerUnbinding(new),
         BoundNext(new)'
  PROVE  BindsInv' /\ (Pending' <=> ~ Unbinding(new))
<1>1. /\ todo' \in Seq(Seq(AnyCall)) /\ Len(todo') = Len(todo)
      /\ \A i \in 1 .. Len(todo) - 1 : todo'[i] = todo[i]
  BY ReplaceFacts
<1>2. PICK t \in Seq(AnyCall) :
        /\ t = Calls' /\ t = todo'[Len(todo)]
        /\ Len(t) = Len(new) + Len(Calls) - 1
        /\ \A i \in 1 .. Len(new) : t[i] = new[i]
        /\ \A i \in 1 .. Len(Calls) - 1 : t[Len(new) + i] = Calls[i + 1]
  BY ReplaceFacts
<1>3. /\ Len(Calls) \in Nat \ {0} /\ DOMAIN Calls = 1 .. Len(Calls)
      /\ Len(new) \in Nat /\ DOMAIN new = 1 .. Len(new)
      /\ DOMAIN t = 1 .. Len(new) + Len(Calls) - 1
      /\ Len(todo) \in Nat \ {0} /\ Calls = todo[Len(todo)]
  BY <1>2, CallFacts, LevelFacts
<1>4. \A k \in DOMAIN t :
        \/ k \in 1 .. Len(new) /\ t[k] = new[k]
        \/ \E i \in 1 .. Len(Calls) - 1 : t[k] = Calls[i + 1] /\ k = Len(new) + i
  <2>1. TAKE k \in DOMAIN t
  <2>2. k \in 1 .. Len(new) \/ (k - Len(new) \in 1 .. Len(Calls) - 1
                                 /\ k = Len(new) + (k - Len(new)))
    BY <1>3
  <2> QED
    BY <1>2, <2>2
<1>5. \A i \in 1 .. Len(Calls) - 1 : Calls[i + 1].do # "bind"
  BY NothingPends
<1>6. InnerUnbinding(t)
  <2>1. SUFFICES ASSUME NEW k \in DOMAIN t, t[k].do = "scope"
                 PROVE  Unbinding(t[k].arg)
    BY DEF InnerUnbinding
  <2>2. CASE k \in 1 .. Len(new) /\ t[k] = new[k]
    BY <1>3, <2>1, <2>2 DEF InnerUnbinding
  <2>3. ASSUME NEW i \in 1 .. Len(Calls) - 1, t[k] = Calls[i + 1]
        PROVE  Unbinding(t[k].arg)
    <3>1. InnerUnbinding(Calls)
      BY <1>3 DEF BindsInv
    <3>2. i + 1 \in DOMAIN Calls
      BY <1>3
    <3> QED
      BY <2>1, <2>3, <3>1, <3>2 DEF InnerUnbinding
  <2> QED
    BY <1>4, <2>2, <2>3
<1>7. BoundNext(t)'
  <2>1. SUFFICES ASSUME NEW k \in DOMAIN t, t[k].do = "bind"
                 PROVE  /\ t[k].arg.symbol = Len(symbols')
                        /\ symbols'[Len(symbols')].type = t[k].arg.decl.type
                        /\ \A m \in 1 .. k - 1 : t[m].do = "use"
    BY DEF BoundNext
  <2>2. k \in 1 .. Len(new) /\ t[k] = new[k]
    BY <1>4, <1>5, <2>1
  <2>3. /\ new[k].arg.symbol = Len(symbols')
        /\ symbols'[Len(symbols')].type = new[k].arg.decl.type
        /\ \A m \in 1 .. k - 1 : new[m].do = "use"
    BY <1>3, <2>1, <2>2 DEF BoundNext
  <2>4. \A m \in 1 .. k - 1 : m \in 1 .. Len(new)
    BY <1>3, <2>2
  <2> QED
    BY <1>2, <2>2, <2>3, <2>4
<1>8. Pending' <=> ~ Unbinding(new)
  <2>1. Pending' <=> ~ Unbinding(t)
    BY <1>2 DEF Pending, Unbinding
  <2>2. ASSUME NEW k \in DOMAIN t, t[k].do = "bind"
        PROVE  k \in DOMAIN new /\ new[k].do = "bind"
    BY <1>3, <1>4, <1>5, <2>2
  <2>3. ASSUME NEW k \in DOMAIN new, new[k].do = "bind"
        PROVE  k \in DOMAIN t /\ t[k].do = "bind"
    BY <1>2, <1>3, <2>3
  <2> QED
    BY <2>1, <2>2, <2>3 DEF Unbinding
<1>9. /\ \A i \in 1 .. Len(todo') : InnerUnbinding(todo'[i])
      /\ \A i \in 1 .. Len(todo') - 1 : Unbinding(todo'[i])
  <2>1. \A i \in 1 .. Len(todo) : i \in 1 .. Len(todo) - 1 \/ i = Len(todo)
    BY <1>3
  <2>2. /\ \A i \in 1 .. Len(todo) : InnerUnbinding(todo[i])
        /\ \A i \in 1 .. Len(todo) - 1 : Unbinding(todo[i])
    BY DEF BindsInv
  <2>3. \A i \in 1 .. Len(todo) - 1 : i \in 1 .. Len(todo)
    BY <1>3
  <2> QED
    BY <1>1, <1>2, <1>6, <2>1, <2>2, <2>3
<1>10. BoundNext(Calls)'
  BY <1>2, <1>7 DEF BoundNext
<1> QED
  BY <1>8, <1>9, <1>10 DEF BindsInv, InnerUnbinding, Unbinding

(* A use is followed by what waits behind it. *)
LEMMA BindsUse ==
  ASSUME TypesInv, BindsInv, Calls # <<>>, Call.do = "use",
         Replace(<<>>), UNCHANGED symbols
  PROVE  BindsInv' /\ (Pending' <=> Pending)
<1>0. <<>> \in Seq(AnyCall) /\ Len(<<>>) = 0
  BY EmptyCalls
<1>1. /\ todo' \in Seq(Seq(AnyCall)) /\ Len(todo') = Len(todo)
      /\ \A i \in 1 .. Len(todo) - 1 : todo'[i] = todo[i]
  BY <1>0, ReplaceFacts
<1>2. PICK t \in Seq(AnyCall) :
        /\ t = Calls' /\ t = todo'[Len(todo)]
        /\ Len(t) = Len(Calls) - 1
        /\ \A i \in 1 .. Len(Calls) - 1 : t[i] = Calls[i + 1]
  <2>1. PICK t \in Seq(AnyCall) :
          /\ t = Calls' /\ t = todo'[Len(todo)]
          /\ Len(t) = Len(<<>>) + Len(Calls) - 1
          /\ \A i \in 1 .. Len(<<>>) : t[i] = <<>>[i]
          /\ \A i \in 1 .. Len(Calls) - 1 : t[Len(<<>>) + i] = Calls[i + 1]
    BY <1>0, ReplaceFacts
  <2>2. Len(Calls) \in Nat
    BY CallFacts
  <2> QED
    BY <1>0, <2>1, <2>2
<1>3. /\ Len(Calls) \in Nat \ {0} /\ DOMAIN Calls = 1 .. Len(Calls)
      /\ DOMAIN t = 1 .. Len(Calls) - 1 /\ Call = Calls[1]
      /\ Len(todo) \in Nat \ {0} /\ Calls = todo[Len(todo)]
  <2>1. /\ Len(Calls) \in Nat \ {0} /\ DOMAIN Calls = 1 .. Len(Calls)
        /\ Call = Calls[1]
    BY CallFacts
  <2>2. Len(todo) \in Nat \ {0} /\ Calls = todo[Len(todo)]
    BY LevelFacts
  <2>3. DOMAIN t = 1 .. Len(t) /\ Len(t) = Len(Calls) - 1
    BY <1>2
  <2>4. DOMAIN t = 1 .. Len(Calls) - 1
    BY <2>3
  <2> QED
    BY <2>1, <2>2, <2>4
<1>4. \A k \in DOMAIN t : k + 1 \in DOMAIN Calls /\ t[k] = Calls[k + 1]
  BY <1>2, <1>3
<1>5. InnerUnbinding(t)
  <2>1. InnerUnbinding(Calls)
    BY <1>3 DEF BindsInv
  <2> QED
    BY <1>4, <2>1 DEF InnerUnbinding
<1>6. BoundNext(t)
  <2>1. SUFFICES ASSUME NEW k \in DOMAIN t, t[k].do = "bind"
                 PROVE  /\ t[k].arg.symbol = Len(symbols)
                        /\ symbols[Len(symbols)].type = t[k].arg.decl.type
                        /\ \A m \in 1 .. k - 1 : t[m].do = "use"
    BY DEF BoundNext
  <2>2. k + 1 \in DOMAIN Calls /\ t[k] = Calls[k + 1]
    BY <1>4
  <2>3. /\ t[k].arg.symbol = Len(symbols)
        /\ symbols[Len(symbols)].type = t[k].arg.decl.type
        /\ \A m \in 1 .. (k + 1) - 1 : Calls[m].do = "use"
    BY <2>1, <2>2 DEF BindsInv, BoundNext
  <2>4. \A m \in 1 .. k - 1 : m \in DOMAIN t /\ m + 1 \in 1 .. (k + 1) - 1
    BY <1>3
  <2>5. \A m \in 1 .. k - 1 : t[m].do = "use"
    BY <1>4, <2>3, <2>4
  <2> QED
    BY <2>3, <2>5
<1>7. Pending' <=> Pending
  <2>1. Pending' <=> ~ Unbinding(t)
    BY <1>2 DEF Pending, Unbinding
  <2>2. \A k \in DOMAIN Calls : k = 1 \/ (k - 1 \in DOMAIN t /\ t[k - 1] = Calls[k])
    <3>1. \A k \in DOMAIN Calls : k = 1 \/ (k - 1 \in DOMAIN t /\ (k - 1) + 1 = k)
      BY <1>3
    <3> QED
      BY <1>4, <3>1
  <2>3. Unbinding(t) <=> Unbinding(Calls)
    BY <1>3, <1>4, <2>2 DEF Unbinding
  <2> QED
    BY <2>1, <2>3 DEF Pending
<1>8. /\ \A i \in 1 .. Len(todo') : InnerUnbinding(todo'[i])
      /\ \A i \in 1 .. Len(todo') - 1 : Unbinding(todo'[i])
  <2>1. \A i \in 1 .. Len(todo) : i \in 1 .. Len(todo) - 1 \/ i = Len(todo)
    BY <1>3
  <2>2. /\ \A i \in 1 .. Len(todo) : InnerUnbinding(todo[i])
        /\ \A i \in 1 .. Len(todo) - 1 : Unbinding(todo[i])
    BY DEF BindsInv
  <2>3. \A i \in 1 .. Len(todo) - 1 : i \in 1 .. Len(todo)
    BY <1>3
  <2> QED
    BY <1>1, <1>2, <1>5, <2>1, <2>2, <2>3
<1>9. BoundNext(Calls)'
  BY <1>2, <1>6 DEF BoundNext
<1> QED
  BY <1>7, <1>8, <1>9 DEF BindsInv, InnerUnbinding, Unbinding

(* Entering and leaving scopes. *)
LEMMA BindsEnter ==
  ASSUME SInv, BindsInv, scope_enter
  PROVE  BindsInv' /\ ~ Pending /\ ~ Pending'
<1>0. TypesInv
  BY DEF SInv
<1>1. PICK old \in Seq(AnyCall), t \in Seq(AnyCall), arg \in Seq(Flat) :
        /\ old = Calls /\ old = todo[Len(todo)] /\ old # <<>>
        /\ arg = Call.arg /\ Call.do = "scope" /\ Call = old[1]
        /\ Len(t) = Len(old) - 1 /\ Len(old) \in Nat \ {0}
        /\ \A i \in 1 .. Len(t) : t[i] = old[i + 1]
        /\ todo' \in Seq(Seq(AnyCall)) /\ Len(todo') = Len(todo) + 1
        /\ \A i \in 1 .. Len(todo) - 1 : todo'[i] = todo[i]
        /\ todo'[Len(todo)] = t /\ todo'[Len(todo) + 1] = arg
  BY EnterFacts
<1>2. /\ \A k \in 1 .. Len(Calls) - 1 : Calls[k + 1].do # "bind"
      /\ ~ Pending
  <2>1. Calls # <<>> /\ Call.do # "use" /\ Call.do # "bind"
    BY <1>1
  <2> QED
    BY <1>0, <2>1, NothingPends
<1>3. /\ DOMAIN t = 1 .. Len(old) - 1 /\ DOMAIN old = 1 .. Len(old)
      /\ Len(todo) \in Nat \ {0}
  BY <1>0, <1>1, LevelFacts
<1>4. \A k \in DOMAIN t : k + 1 \in DOMAIN old /\ t[k] = old[k + 1] /\ t[k].do # "bind"
  <2>1. \A k \in DOMAIN t : k + 1 \in DOMAIN old /\ k \in 1 .. Len(t) /\ k \in 1 .. Len(Calls) - 1
    BY <1>1, <1>3
  <2> QED
    BY <1>1, <1>2, <2>1
<1>5. InnerUnbinding(old) /\ Unbinding(arg)
  <2>1. Len(todo) \in 1 .. Len(todo)
    BY <1>3
  <2>2. InnerUnbinding(old)
    BY <1>1, <2>1 DEF BindsInv
  <2>3. 1 \in DOMAIN old
    BY <1>1, <1>3
  <2> QED
    BY <1>1, <2>2, <2>3 DEF InnerUnbinding
<1>6. InnerUnbinding(t) /\ Unbinding(t)
  BY <1>4, <1>5 DEF InnerUnbinding, Unbinding
<1>7. InnerUnbinding(arg)
  <2>1. \A k \in DOMAIN arg : arg[k].do # "scope"
    BY FlatSeqIsCalls
  <2> QED
    BY <2>1 DEF InnerUnbinding
<1>8. Calls' = arg
  BY <1>1, <1>3 DEF Calls
<1>9. /\ \A i \in 1 .. Len(todo') : InnerUnbinding(todo'[i])
      /\ \A i \in 1 .. Len(todo') - 1 : Unbinding(todo'[i])
  <2>1. /\ \A i \in 1 .. Len(todo') : i \in 1 .. Len(todo) - 1 \/ i = Len(todo) \/ i = Len(todo) + 1
        /\ \A i \in 1 .. Len(todo') - 1 : i \in 1 .. Len(todo) - 1 \/ i = Len(todo)
        /\ \A i \in 1 .. Len(todo) - 1 : i \in 1 .. Len(todo)
    BY <1>1, <1>3
  <2>2. /\ \A i \in 1 .. Len(todo) : InnerUnbinding(todo[i])
        /\ \A i \in 1 .. Len(todo) - 1 : Unbinding(todo[i])
    BY DEF BindsInv
  <2> QED
    BY <1>1, <1>5, <1>6, <1>7, <2>1, <2>2
<1>10. BoundNext(Calls)' /\ ~ Pending'
  BY <1>5, <1>8 DEF BoundNext, Pending, Unbinding
<1> QED
  BY <1>2, <1>9, <1>10 DEF BindsInv, InnerUnbinding, Unbinding

(* A scope is left only when nothing waits in it, and so no binding. *)
LEMMA BindsExit ==
  ASSUME SInv, BindsInv, scope_exit
  PROVE  BindsInv' /\ ~ Pending /\ ~ Pending'
<1>0. TypesInv
  BY DEF SInv
<1>1. /\ Len(todo) >= 2 /\ todo[Len(todo)] = <<>>
      /\ todo' \in Seq(Seq(AnyCall)) /\ Len(todo') = Len(todo) - 1
      /\ \A i \in 1 .. Len(todo) - 1 : todo'[i] = todo[i]
  BY ExitFacts
<1>2. Len(todo) \in Nat /\ Calls = <<>>
  BY <1>0, <1>1, LevelFacts
<1>3. ~ Pending
  BY <1>2 DEF Pending, Unbinding
<1>4. Calls' = todo[Len(todo) - 1]
  <2>1. Len(todo) - 1 \in 1 .. Len(todo) - 1
    BY <1>1, <1>2
  <2> QED
    BY <1>1, <2>1 DEF Calls
<1>5. /\ \A i \in 1 .. Len(todo) : InnerUnbinding(todo[i])
      /\ \A i \in 1 .. Len(todo) - 1 : Unbinding(todo[i])
  BY DEF BindsInv
<1>6. Unbinding(Calls)'
  <2>1. Len(todo) - 1 \in 1 .. Len(todo) - 1
    BY <1>1, <1>2
  <2> QED
    BY <1>4, <1>5, <2>1 DEF Unbinding
<1>7. BoundNext(Calls)' /\ ~ Pending'
  BY <1>6 DEF BoundNext, Pending, Unbinding
<1>8. /\ \A i \in 1 .. Len(todo') : InnerUnbinding(todo'[i])
      /\ \A i \in 1 .. Len(todo') - 1 : Unbinding(todo'[i])
  <2>1. /\ \A i \in 1 .. Len(todo') : i \in 1 .. Len(todo) - 1 /\ i \in 1 .. Len(todo)
        /\ \A i \in 1 .. Len(todo') - 1 : i \in 1 .. Len(todo) - 1
    BY <1>1, <1>2
  <2> QED
    BY <1>1, <1>5, <2>1
<1> QED
  BY <1>3, <1>7, <1>8 DEF BindsInv, InnerUnbinding, Unbinding

(***************************************************************************)
(* What an event leaves in agreement, part by part.                        *)
(***************************************************************************)
(* The symbols created, one for every declaration gone through. *)
LEMMA SymbolsNext ==
  ASSUME NEW t, NEW c, NEW e, Longer(t, c, e), SymbolsInv(c),
         \A s \in 1 .. Count(c, Len(c), "declare") : symbols'[s].type = symbols[s].type,
         Len(symbols') = Count(t, Len(c) + 1, "declare") + (IF Pending' THEN 1 ELSE 0),
         e.ev = "declare" =>
           symbols'[Count(t, Len(c) + 1, "declare")].type = e.type
  PROVE  SymbolsInv(t)'
<1>1. Len(c) \in Nat /\ Len(t) = Len(c) + 1 /\ t[Len(c) + 1] = e
  BY CountsSame DEF Longer
<1>2. ASSUME NEW j \in 1 .. Len(c), t[j].ev = "declare"
      PROVE  symbols'[Count(t, j, "declare")].type = t[j].type
  <2>1. t[j] = c[j] /\ j \in Nat /\ j \in 0 .. Len(c)
    BY <1>1 DEF Longer
  <2>2. Count(t, j, "declare") = Count(c, j, "declare")
    BY <2>1, CountsSame
  <2>3. symbols[Count(c, j, "declare")].type = c[j].type
    BY <1>2, <2>1 DEF SymbolsInv
  <2>4. Count(c, j, "declare") \in 1 .. Count(c, Len(c), "declare")
    <3>1. /\ Count(c, 0, "declare") = 0 /\ Count(c, j, "declare") \in Nat
          /\ Count(c, Len(c), "declare") \in Nat
      BY <1>1, <2>1, CountTyped
    <3>2. Count(c, 0, "declare") < Count(c, j, "declare")
      BY <1>2, <2>1, CountGrows
    <3>3. Count(c, j, "declare") <= Count(c, Len(c), "declare")
      BY <1>1, <2>1, CountGrows
    <3> QED
      BY <3>1, <3>2, <3>3
  <2> QED
    BY <2>1, <2>2, <2>3, <2>4
<1>3. \A j \in 1 .. Len(t) : j \in 1 .. Len(c) \/ j = Len(c) + 1
  BY <1>1
<1>4. \A j \in 1 .. Len(t) : t[j].ev = "declare" =>
        symbols'[Count(t, j, "declare")].type = t[j].type
  BY <1>1, <1>2, <1>3
<1> QED
  BY <1>1, <1>4 DEF SymbolsInv

(* The depth goes on following the number of open scopes. *)
LEMMA DepthInvNext ==
  ASSUME NEW t, NEW c, NEW e, Longer(t, c, e), DepthInv(c),
         Len(scopes') \in Nat \ {0}, Depth(t, Len(c) + 1) = Len(scopes') - 1
  PROVE  DepthInv(t)'
<1>1. Len(c) \in Nat /\ Len(t) = Len(c) + 1
  BY CountsSame DEF Longer
<1>2. \A k \in 0 .. Len(t) : k \in 0 .. Len(c) \/ k = Len(c) + 1
  BY <1>1
<1>3. \A k \in 0 .. Len(c) : Depth(t, k) = Depth(c, k) /\ Depth(c, k) >= 0
  BY CountsSame DEF DepthInv
<1>4. Depth(t, Len(c) + 1) >= 0
  OBVIOUS
<1> QED
  BY <1>1, <1>2, <1>3, <1>4 DEF DepthInv

(* Scopes are entered empty and left, and the tables of the others stay.   *)
LEMMA TablesNext ==
  ASSUME NEW t, NEW c, NEW e, Longer(t, c, e), e.ev # "declare",
         DepthInv(c), TablesInv(c), Len(scopes) \in Nat, Len(scopes') \in Nat,
         Depth(t, Len(c) + 1) = Len(scopes') - 1,
         \A i \in 1 .. Len(scopes') : \A n \in Names :
           scopes'[i].table[n] = IF i <= Len(scopes) THEN scopes[i].table[n] ELSE NULL
  PROVE  TablesInv(t)'
<1>1. Len(c) \in Nat /\ Len(t) = Len(c) + 1 /\ Depth(c, Len(c)) = Len(scopes) - 1
  BY CountsSame DEF Longer, DepthInv
<1>2. ASSUME NEW i \in 1 .. Len(scopes'), NEW n \in Names,
             NEW j \in Visible(t, n, Len(t)), Depth(t, j) = i - 1
      PROVE  scopes'[i].table[n] = Count(t, j, "declare")
  <2>1. j \in Visible(c, n, Len(c))
    BY <1>1, VisibleNext
  <2>2. /\ j \in 1 .. Len(c) /\ Depth(c, j) \in Int
        /\ Depth(c, j) <= Depth(c, Len(c))
    BY <1>1, <2>1, VisibleFacts
  <2>3. j \in 0 .. Len(c)
    BY <1>1, <2>2
  <2>4. Depth(t, j) = Depth(c, j) /\ Count(t, j, "declare") = Count(c, j, "declare")
    BY <2>3, CountsSame
  <2>5. i \in 1 .. Len(scopes) /\ i <= Len(scopes)
    BY <1>1, <1>2, <2>2, <2>4
  <2>6. scopes[i].table[n] = Count(c, j, "declare")
    BY <1>2, <2>1, <2>4, <2>5 DEF TablesInv
  <2> QED
    BY <2>4, <2>5, <2>6
<1>3. ASSUME NEW i \in 1 .. Len(scopes'), NEW n \in Names, scopes'[i].table[n] # NULL
      PROVE  \E j \in Visible(t, n, Len(t)) : Depth(t, j) = i - 1
  <2>1. i <= Len(scopes) /\ i \in 1 .. Len(scopes) /\ scopes[i].table[n] # NULL
    BY <1>3
  <2>2. PICK j \in Visible(c, n, Len(c)) : Depth(c, j) = i - 1
    BY <2>1 DEF TablesInv
  <2>3. Depth(t, Len(c) + 1) >= Depth(c, j)
    BY <2>2
  <2>4. j \in Visible(t, n, Len(t))
    BY <1>1, <2>2, <2>3, VisibleNext
  <2>5. Depth(t, j) = Depth(c, j)
    <3>1. j \in 1 .. Len(c)
      BY <1>1, <2>2, VisibleFacts
    <3>2. j \in 0 .. Len(c)
      BY <1>1, <3>1
    <3> QED
      BY <3>2, CountsSame
  <2> QED
    BY <2>2, <2>4, <2>5
<1> QED
  BY <1>2, <1>3 DEF TablesInv

(* No declaration, no change of a flag. *)
LEMMA UsedUpSame ==
  ASSUME NEW t, NEW c, NEW e, Longer(t, c, e), NEW n, NEW j \in 1 .. Len(c),
         ~ (/\ e.ev = "declare" /\ n = e.name
            /\ Together(t, j, Len(c) + 1) /\ Defines(e))
  PROVE  UsedUp(t, n, j) <=> UsedUp(c, n, j)
<1>1. Len(c) \in Nat /\ Len(t) = Len(c) + 1 /\ t[Len(c) + 1] = e
  BY CountsSame DEF Longer
<1>2. \A k \in j + 1 .. Len(t) : k \in j + 1 .. Len(c) \/ k = Len(c) + 1
  BY <1>1
<1>3. \A k \in j + 1 .. Len(c) : k \in j + 1 .. Len(t)
  BY <1>1
<1>4. ASSUME NEW k \in j + 1 .. Len(c)
      PROVE  /\ Declares(t, k, n) <=> Declares(c, k, n)
             /\ Together(t, j, k) <=> Together(c, j, k)
             /\ t[k] = c[k]
  <2>1. k \in 1 .. Len(c) /\ k \in 0 .. Len(c)
    BY <1>1
  <2> QED
    BY <2>1, ScopesSame DEF Longer
<1>5. ~ (Declares(t, Len(c) + 1, n) /\ Together(t, j, Len(c) + 1)
         /\ Defines(t[Len(c) + 1]))
  BY <1>1 DEF Declares
<1> QED
  BY <1>2, <1>3, <1>4, <1>5 DEF UsedUp

(* An event that declares nothing leaves the flags right. *)
LEMMA FlagsNext ==
  ASSUME NEW t, NEW c, NEW e, Longer(t, c, e), e.ev # "declare", FlagsInv(c),
         \A s \in 1 .. Count(c, Len(c), "declare") :
           symbols'[s].prototype = symbols[s].prototype
  PROVE  FlagsInv(t)'
<1>1. Len(c) \in Nat /\ Len(t) = Len(c) + 1
  BY CountsSame DEF Longer
<1>2. ASSUME NEW n \in Names, NEW j \in Visible(t, n, Len(t))
      PROVE  symbols'[Count(t, j, "declare")].prototype <=>
               t[j].type.fun /\ ~ t[j].code /\ ~ UsedUp(t, n, j)
  <2>1. j \in Visible(c, n, Len(c))
    BY <1>1, VisibleNext
  <2>2. /\ j \in 1 .. Len(c)
        /\ Count(c, j, "declare") \in 1 .. Count(c, Len(c), "declare")
    BY <1>1, <2>1, VisibleFacts
  <2>3. j \in 0 .. Len(c) /\ t[j] = c[j]
    BY <1>1, <2>2 DEF Longer
  <2>4. Count(t, j, "declare") = Count(c, j, "declare")
    BY <2>3, CountsSame
  <2>5. UsedUp(t, n, j) <=> UsedUp(c, n, j)
    BY <2>2, UsedUpSame
  <2>6. symbols[Count(c, j, "declare")].prototype <=>
          c[j].type.fun /\ ~ c[j].code /\ ~ UsedUp(c, n, j)
    BY <2>1 DEF FlagsInv
  <2>7. symbols'[Count(c, j, "declare")].prototype
          = symbols[Count(c, j, "declare")].prototype
    BY <2>2
  <2> QED
    BY <2>3, <2>4, <2>5, <2>6, <2>7
<1> QED
  BY <1>2 DEF FlagsInv, UsedUp

(***************************************************************************)
(* Looking names up.                                                       *)
(***************************************************************************)

(* A visible declaration is in the table of the scope it was made in. *)
LEMMA VisibleTabled ==
  ASSUME TypesInv, NEW c \in Seq(Event), DepthInv(c), TablesInv(c),
         NEW name \in Names, NEW j \in Visible(c, name, Len(c))
  PROVE  /\ Depth(c, j) + 1 \in 1 .. Len(scopes)
         /\ scopes[Depth(c, j) + 1].table[name] = Count(c, j, "declare")
         /\ Count(c, j, "declare") \in Nat /\ Count(c, j, "declare") # NULL
<1>1. Len(c) \in Nat /\ Len(scopes) \in Nat
  BY LevelFacts
<1>2. /\ j \in 1 .. Len(c) /\ Depth(c, j) \in Int /\ Depth(c, j) <= Depth(c, Len(c))
      /\ Count(c, j, "declare") \in 1 .. Count(c, Len(c), "declare")
  BY <1>1, VisibleFacts
<1>3. Count(c, Len(c), "declare") \in Nat
  BY <1>1, CountTyped
<1>4. Depth(c, Len(c)) = Len(scopes) - 1 /\ Depth(c, j) >= 0
  <2>1. j \in 0 .. Len(c)
    BY <1>1, <1>2
  <2> QED
    BY <2>1 DEF DepthInv
<1>5. Depth(c, j) + 1 \in 1 .. Len(scopes) /\ Depth(c, j) = (Depth(c, j) + 1) - 1
  BY <1>1, <1>2, <1>4
<1>6. scopes[Depth(c, j) + 1].table[name] = Count(c, j, "declare")
  BY <1>5 DEF TablesInv
<1>7. Count(c, j, "declare") \in Nat /\ Count(c, j, "declare") # 0
  BY <1>2, <1>3
<1> QED
  BY <1>5, <1>6, <1>7 DEF NULL

(* scope_lookup_current finds the declaration of the innermost scope. *)
LEMMA CurrentIs ==
  ASSUME TypesInv, NEW c \in Seq(Event), DepthInv(c), TablesInv(c), NEW name \in Names
  PROVE  /\ scope_lookup_current(name) = NULL =>
              \A j \in Visible(c, name, Len(c)) : Depth(c, j) # Depth(c, Len(c))
         /\ scope_lookup_current(name) # NULL =>
              \E j \in Visible(c, name, Len(c)) :
                /\ Depth(c, j) = Depth(c, Len(c))
                /\ scope_lookup_current(name) = Count(c, j, "declare")
<1>1. /\ Len(scopes) \in Nat \ {0} /\ Len(scopes) \in 1 .. Len(scopes)
      /\ scope_lookup_current(name) = scopes[Len(scopes)].table[name]
      /\ Depth(c, Len(c)) = Len(scopes) - 1
      /\ (Len(scopes) - 1) + 1 = Len(scopes)
  BY LevelFacts DEF scope_lookup_current, DepthInv
<1>2. ASSUME NEW j \in Visible(c, name, Len(c)), Depth(c, j) = Depth(c, Len(c))
      PROVE  /\ scope_lookup_current(name) = Count(c, j, "declare")
             /\ scope_lookup_current(name) # NULL
  BY <1>1, <1>2, VisibleTabled
<1>3. ASSUME scope_lookup_current(name) # NULL
      PROVE  \E j \in Visible(c, name, Len(c)) : Depth(c, j) = Depth(c, Len(c))
  BY <1>1, <1>3 DEF TablesInv
<1> QED
  BY <1>2, <1>3

(* scope_lookup finds what the name means. *)
LEMMA LookupIs ==
  ASSUME TypesInv, NEW c \in Seq(Event), DepthInv(c), TablesInv(c), NEW name \in Names
  PROVE  scope_lookup(name) = Meaning(c, name, Len(c))
<1>1. /\ Len(scopes) \in Nat /\ DOMAIN scopes = 1 .. Len(scopes) /\ Len(c) \in Nat
  BY LevelFacts
<1>2. \A j \in Visible(c, name, Len(c)) : Depth(c, j) + 1 \in Declaring(name)
  BY <1>1, VisibleTabled DEF Declaring
<1>3. \A i \in Declaring(name) :
        /\ i \in 1 .. Len(scopes)
        /\ \E j \in Visible(c, name, Len(c)) : Depth(c, j) = i - 1
  BY <1>1 DEF Declaring, TablesInv
<1>4. CASE Declaring(name) = {}
  <2>1. Visible(c, name, Len(c)) = {}
    BY <1>2, <1>4
  <2> QED
    BY <1>4, <2>1 DEF scope_lookup, Meaning
<1>5. CASE Declaring(name) # {}
  <2>1. Declaring(name) \in SUBSET (1 .. Len(scopes))
    BY <1>3
  <2>2. \E i \in Declaring(name) : \A k \in Declaring(name) : k <= i
    BY <1>1, <1>5, <2>1, GreatestBelow
  <2>3. PICK i \in Declaring(name) :
          /\ i = CHOOSE m \in Declaring(name) : \A k \in Declaring(name) : k <= m
          /\ \A k \in Declaring(name) : k <= i
    BY <2>2
  <2>4. scope_lookup(name) = scopes[i].table[name]
    BY <1>5, <2>3 DEF scope_lookup
  <2>5. PICK j \in Visible(c, name, Len(c)) : Depth(c, j) = i - 1
    BY <1>3
  <2>6. i \in 1 .. Len(scopes) /\ (i - 1) + 1 = i
    BY <1>1, <1>3
  <2>7. scopes[i].table[name] = Count(c, j, "declare")
    BY <2>5, <2>6, VisibleTabled
  <2>8. ASSUME NEW k \in Visible(c, name, Len(c))
        PROVE  Depth(c, k) <= Depth(c, j)
    <3>1. Depth(c, k) + 1 <= i /\ Depth(c, k) \in Int
      BY <1>1, <1>2, <2>3, VisibleFacts
    <3> QED
      BY <1>1, <2>5, <2>6, <3>1
  <2>9. Meaning(c, name, Len(c)) = Count(c, j, "declare")
    BY <1>1, <2>8, MeaningIs
  <2> QED
    BY <2>4, <2>7, <2>9
<1> QED
  BY <1>4, <1>5

(***************************************************************************)
(* The identifiers that have been looked up.                               *)
(***************************************************************************)
(* An event that is not a use leaves them alone. *)
LEMMA ResolvedNext ==
  ASSUME NEW t, NEW c, NEW e, Longer(t, c, e), e.ev # "use", ResolvedInv(c),
         UNCHANGED resolved
  PROVE  ResolvedInv(t)'
<1>1. Len(c) \in Nat /\ Len(t) = Len(c) + 1 /\ t[Len(c) + 1] = e /\ Len(c) \in 0 .. Len(c)
  BY CountsSame DEF Longer
<1>2. Count(t, Len(c) + 1, "use") = Count(c, Len(c), "use")
  <2>1. Count(t, Len(c) + 1, "use") = Count(t, Len(c), "use") + 0
    BY <1>1, CountNext
  <2>2. Count(t, Len(c), "use") = Count(c, Len(c), "use")
    BY <1>1, CountsSame
  <2>3. Count(c, Len(c), "use") \in Nat
    BY <1>1, CountTyped
  <2> QED
    BY <2>1, <2>2, <2>3
<1>3. ASSUME NEW i \in 1 .. Len(t), t[i].ev = "use"
      PROVE  resolved[Count(t, i, "use")] = Meaning(t, t[i].name, i)
  <2>1. i \in 1 .. Len(c) \/ i = Len(c) + 1
    BY <1>1
  <2>2. i \in 1 .. Len(c) /\ i \in 0 .. Len(c)
    BY <1>1, <1>3, <2>1
  <2>3. t[i] = c[i]
    BY <2>2 DEF Longer
  <2>4. Count(t, i, "use") = Count(c, i, "use")
    BY <2>2, CountsSame
  <2>5. Meaning(t, t[i].name, i) = Meaning(c, t[i].name, i)
    BY <2>2, MeaningSame
  <2> QED
    BY <1>3, <2>2, <2>3, <2>4, <2>5 DEF ResolvedInv
<1> QED
  BY <1>1, <1>2, <1>3 DEF ResolvedInv

(* A use adds what the name means at it. *)
LEMMA ResolvedUse ==
  ASSUME NEW t, NEW c, NEW e, Longer(t, c, e), e.ev = "use", ResolvedInv(c),
         resolved \in Seq(Nat), NEW m \in Nat, m = Meaning(c, e.name, Len(c)),
         resolved' = Append(resolved, m)
  PROVE  ResolvedInv(t)'
<1>1. Len(c) \in Nat /\ Len(t) = Len(c) + 1 /\ t[Len(c) + 1] = e /\ Len(c) \in 0 .. Len(c)
  BY CountsSame DEF Longer
<1>2. /\ Count(t, Len(c) + 1, "use") = Len(resolved) + 1
      /\ Len(resolved) = Count(c, Len(c), "use") /\ Len(resolved) \in Nat
  <2>1. Count(t, Len(c) + 1, "use") = Count(t, Len(c), "use") + 1
    BY <1>1, CountNext
  <2>2. Count(t, Len(c), "use") = Count(c, Len(c), "use")
    BY <1>1, CountsSame
  <2> QED
    BY <2>1, <2>2 DEF ResolvedInv
<1>3. /\ Len(resolved') = Len(resolved) + 1 /\ resolved'[Len(resolved) + 1] = m
      /\ \A k \in 1 .. Len(resolved) : resolved'[k] = resolved[k]
  BY AppendProperties
<1>4. ASSUME NEW i \in 1 .. Len(t), t[i].ev = "use"
      PROVE  resolved'[Count(t, i, "use")] = Meaning(t, t[i].name, i)
  <2>1. i \in 1 .. Len(c) \/ i = Len(c) + 1
    BY <1>1
  <2>2. CASE i = Len(c) + 1
    <3>1. Meaning(t, e.name, Len(c) + 1) = m
      BY MeaningUse
    <3> QED
      BY <1>1, <1>2, <1>3, <2>2, <3>1
  <2>3. CASE i \in 1 .. Len(c)
    <3>1. i \in 0 .. Len(c) /\ i \in Nat /\ i <= Len(c) /\ 0 # i /\ 0 <= i
      BY <1>1, <2>3
    <3>2. t[i] = c[i]
      BY <2>3 DEF Longer
    <3>3. Count(t, i, "use") = Count(c, i, "use")
      BY <3>1, CountsSame
    <3>4. Meaning(t, t[i].name, i) = Meaning(c, t[i].name, i)
      BY <3>1, MeaningSame
    <3>5. resolved[Count(c, i, "use")] = Meaning(c, c[i].name, i)
      BY <1>4, <2>3, <3>2 DEF ResolvedInv
    <3>6. Count(c, i, "use") \in 1 .. Len(resolved)
      <4>1. Count(c, 0, "use") = 0 /\ Count(c, i, "use") \in Nat
        BY <3>1, CountTyped
      <4>2. Count(c, 0, "use") < Count(c, i, "use")
        BY <1>4, <3>1, <3>2, CountGrows
      <4>3. Count(c, i, "use") <= Count(c, Len(c), "use")
        BY <1>1, <3>1, CountGrows
      <4> QED
        BY <1>2, <4>1, <4>2, <4>3
    <3> QED
      BY <1>3, <3>2, <3>3, <3>4, <3>5, <3>6
  <2> QED
    BY <2>1, <2>2, <2>3
<1> QED
  BY <1>1, <1>2, <1>3, <1>4 DEF ResolvedInv

(***************************************************************************)
(* Declarations.                                                           *)
(***************************************************************************)

(* A name that is new in its scope is bound there. *)
LEMMA TablesDeclared ==
  ASSUME TypesInv, NEW t, NEW c, NEW e, Longer(t, c, e), e.ev = "declare",
         DepthInv(c), TablesInv(c), e.name \in Names,
         scope_lookup_current(e.name) = NULL, NEW s \in Nat,
         s = Count(t, Len(c) + 1, "declare"), scopes' = Bound(e.name, s)
  PROVE  TablesInv(t)' /\ Len(scopes') = Len(scopes)
<1>1. /\ Len(c) \in Nat /\ Len(t) = Len(c) + 1 /\ c \in Seq(Event)
      /\ Len(scopes) \in Nat \ {0} /\ Top = scopes[Len(scopes)]
      /\ Depth(c, Len(c)) = Len(scopes) - 1
  BY CountsSame, LevelFacts DEF Longer, DepthInv
<1>2. /\ Len(scopes') = Len(scopes)
      /\ \A i \in 1 .. Len(scopes) - 1 : scopes'[i] = scopes[i]
      /\ \A n \in Names :
           scopes'[Len(scopes)].table[n] =
             IF n = e.name THEN s ELSE scopes[Len(scopes)].table[n]
  <2>1. /\ Len(scopes') = Len(scopes)
        /\ \A i \in 1 .. Len(scopes) - 1 : scopes'[i] = scopes[i]
        /\ Top' = scopes'[Len(scopes)]
        /\ \A n \in Names : Top'.table[n] = IF n = e.name THEN s ELSE Top.table[n]
    BY BoundFacts
  <2> QED
    BY <1>1, <2>1
<1>3. \A j \in Visible(c, e.name, Len(c)) : Depth(c, j) # Depth(c, Len(c))
  BY <1>1, CurrentIs
<1>4. \A i \in 1 .. Len(scopes) : i \in 1 .. Len(scopes) - 1 \/ i = Len(scopes)
  BY <1>1
<1>5. ASSUME NEW i \in 1 .. Len(scopes), NEW n \in Names, i # Len(scopes) \/ n # e.name
      PROVE  scopes'[i].table[n] = scopes[i].table[n]
  BY <1>2, <1>4, <1>5
<1>6. ASSUME NEW n \in Names, NEW j \in Visible(t, n, Len(t))
      PROVE  \/ /\ j \in Visible(c, n, Len(c)) /\ Depth(t, j) = Depth(c, j)
                /\ Count(t, j, "declare") = Count(c, j, "declare")
             \/ /\ n = e.name /\ j = Len(c) + 1
                /\ Depth(t, j) = Len(scopes) - 1 /\ Count(t, j, "declare") = s
  <2>1. j \in 1 .. Len(t)
    BY <1>1, VisibleFacts
  <2>2. j \in 1 .. Len(c) \/ j = Len(c) + 1
    BY <1>1, <2>1
  <2>3. CASE j = Len(c) + 1
    <3>1. n = e.name /\ Depth(t, Len(c) + 1) = Depth(c, Len(c))
      BY <1>1, <2>3, DeclaredNext
    <3> QED
      BY <1>1, <2>3, <3>1
  <2>4. CASE j \in 1 .. Len(c)
    <3>1. j \in Visible(c, n, Len(c))
      BY <1>1, <2>4, DeclaredNext
    <3>2. j \in 0 .. Len(c)
      BY <1>1, <2>4
    <3> QED
      BY <3>1, <3>2, CountsSame
  <2> QED
    BY <2>2, <2>3, <2>4
<1>7. ASSUME NEW i \in 1 .. Len(scopes), NEW n \in Names,
             NEW j \in Visible(t, n, Len(t)), Depth(t, j) = i - 1
      PROVE  scopes'[i].table[n] = Count(t, j, "declare")
  <2>1. CASE /\ j \in Visible(c, n, Len(c)) /\ Depth(t, j) = Depth(c, j)
             /\ Count(t, j, "declare") = Count(c, j, "declare")
    <3>1. scopes[i].table[n] = Count(c, j, "declare")
      BY <1>7, <2>1 DEF TablesInv
    <3>2. i # Len(scopes) \/ n # e.name
      BY <1>1, <1>3, <1>7, <2>1
    <3> QED
      BY <1>5, <2>1, <3>1, <3>2
  <2>2. CASE /\ n = e.name /\ j = Len(c) + 1
             /\ Depth(t, j) = Len(scopes) - 1 /\ Count(t, j, "declare") = s
    <3>1. i = Len(scopes)
      BY <1>1, <1>7, <2>2
    <3> QED
      BY <1>2, <2>2, <3>1
  <2> QED
    BY <1>6, <2>1, <2>2
<1>8. ASSUME NEW i \in 1 .. Len(scopes), NEW n \in Names, scopes'[i].table[n] # NULL
      PROVE  \E j \in Visible(t, n, Len(t)) : Depth(t, j) = i - 1
  <2>1. CASE i = Len(scopes) /\ n = e.name
    <3>1. Len(c) + 1 \in Visible(t, n, Len(t)) /\ Depth(t, Len(c) + 1) = Depth(c, Len(c))
      BY <1>1, <1>3, <2>1, DeclaredNext
    <3> QED
      BY <1>1, <2>1, <3>1
  <2>2. CASE i # Len(scopes) \/ n # e.name
    <3>1. scopes[i].table[n] # NULL
      BY <1>5, <1>8, <2>2
    <3>2. PICK j \in Visible(c, n, Len(c)) : Depth(c, j) = i - 1
      BY <3>1 DEF TablesInv
    <3>3. j \in 1 .. Len(c)
      BY <1>1, VisibleFacts
    <3>4. j \in Visible(t, n, Len(t))
      BY <1>1, <3>3, DeclaredNext
    <3>5. j \in 0 .. Len(c)
      BY <1>1, <3>3
    <3>6. Depth(t, j) = Depth(c, j)
      BY <3>5, CountsSame
    <3> QED
      BY <3>2, <3>4, <3>6
  <2> QED
    BY <2>1, <2>2
<1>9. \A i \in 1 .. Len(scopes') : \A n \in Names :
        /\ \A j \in Visible(t, n, Len(t)) : Depth(t, j) = i - 1 =>
             scopes'[i].table[n] = Count(t, j, "declare")
        /\ scopes'[i].table[n] # NULL =>
             \E j \in Visible(t, n, Len(t)) : Depth(t, j) = i - 1
  BY <1>2, <1>7, <1>8
<1> QED
  BY <1>2, <1>9 DEF TablesInv

(* A redeclaration makes nothing visible. *)
LEMMA RedeclaredVisible ==
  ASSUME NEW t, NEW c, NEW e, Longer(t, c, e), e.ev = "declare",
         NEW j \in Visible(c, e.name, Len(c)), Depth(c, j) = Depth(c, Len(c)), NEW n
  PROVE  /\ Visible(t, n, Len(c) + 1) = Visible(c, n, Len(c))
         /\ \A k \in Visible(c, n, Len(c)) :
              /\ k \in 1 .. Len(c) /\ t[k] = c[k] /\ Depth(t, k) = Depth(c, k)
              /\ Count(t, k, "declare") = Count(c, k, "declare")
<1>1. Len(c) \in Nat
  BY CountsSame
<1>2. Len(c) + 1 \notin Visible(t, n, Len(c) + 1)
  BY DeclaredNext
<1>3. \A k \in Visible(t, n, Len(c) + 1) : k \in 1 .. Len(c) + 1
  BY <1>1, VisibleFacts
<1>4. \A k \in Visible(c, n, Len(c)) : k \in 1 .. Len(c)
  BY <1>1, VisibleFacts
<1>5. \A k \in 1 .. Len(c) + 1 : k \in 1 .. Len(c) \/ k = Len(c) + 1
  BY <1>1
<1>6. \A k \in 1 .. Len(c) :
        k \in Visible(t, n, Len(c) + 1) <=> k \in Visible(c, n, Len(c))
  BY DeclaredNext
<1>7. \A k \in 1 .. Len(c) : k \in 0 .. Len(c)
  BY <1>1
<1>8. \A k \in 1 .. Len(c) :
        /\ t[k] = c[k] /\ Depth(t, k) = Depth(c, k)
        /\ Count(t, k, "declare") = Count(c, k, "declare")
  BY <1>7, CountsSame DEF Longer
<1> QED
  BY <1>2, <1>3, <1>4, <1>5, <1>6, <1>8

(* So the tables stay as they are. *)
LEMMA TablesRedeclared ==
  ASSUME NEW t, NEW c, NEW e, Longer(t, c, e), e.ev = "declare",
         NEW j \in Visible(c, e.name, Len(c)), Depth(c, j) = Depth(c, Len(c)),
         TablesInv(c), UNCHANGED scopes
  PROVE  TablesInv(t)'
<1>1. Len(t) = Len(c) + 1
  BY DEF Longer
<1>2. ASSUME NEW n \in Names
      PROVE  /\ Visible(t, n, Len(t)) = Visible(c, n, Len(c))
             /\ \A k \in Visible(c, n, Len(c)) :
                  /\ Depth(t, k) = Depth(c, k)
                  /\ Count(t, k, "declare") = Count(c, k, "declare")
  BY <1>1, RedeclaredVisible
<1>3. \A i \in 1 .. Len(scopes) : \A n \in Names :
        /\ \A k \in Visible(t, n, Len(t)) : Depth(t, k) = i - 1 =>
             scopes[i].table[n] = Count(t, k, "declare")
        /\ scopes[i].table[n] # NULL =>
             \E k \in Visible(t, n, Len(t)) : Depth(t, k) = i - 1
  BY <1>2 DEF TablesInv
<1> QED
  BY <1>3 DEF TablesInv

(* The flag of a new symbol. *)
LEMMA FlagsDeclared ==
  ASSUME NEW t, NEW c, NEW e, Longer(t, c, e), e.ev = "declare", FlagsInv(c),
         \A j \in Visible(c, e.name, Len(c)) : Depth(c, j) # Depth(c, Len(c)),
         \A s \in 1 .. Count(c, Len(c), "declare") :
           symbols'[s].prototype = symbols[s].prototype,
         symbols'[Count(t, Len(c) + 1, "declare")].prototype <=> e.type.fun /\ ~ e.code
  PROVE  FlagsInv(t)'
<1>1. Len(c) \in Nat /\ Len(t) = Len(c) + 1 /\ t[Len(c) + 1] = e
  BY CountsSame DEF Longer
<1>2. ASSUME NEW n \in Names, NEW j \in Visible(t, n, Len(t))
      PROVE  symbols'[Count(t, j, "declare")].prototype <=>
               t[j].type.fun /\ ~ t[j].code /\ ~ UsedUp(t, n, j)
  <2>1. j \in 1 .. Len(t)
    BY <1>1, VisibleFacts
  <2>2. j \in 1 .. Len(c) \/ j = Len(c) + 1
    BY <1>1, <2>1
  <2>3. CASE j = Len(c) + 1
    <3>1. ~ UsedUp(t, n, j)
      <4>1. \A k : ~ k \in j + 1 .. Len(t)
        BY <1>1, <2>3
      <4> QED
        BY <4>1 DEF UsedUp
    <3> QED
      BY <1>1, <2>3, <3>1
  <2>4. CASE j \in 1 .. Len(c)
    <3>1. j \in Visible(c, n, Len(c))
      BY <1>1, <2>4, DeclaredNext
    <3>2. Count(c, j, "declare") \in 1 .. Count(c, Len(c), "declare")
      BY <1>1, <3>1, VisibleFacts
    <3>3. j \in 0 .. Len(c) /\ Len(c) \in 0 .. Len(c) /\ t[j] = c[j]
      BY <1>1, <2>4 DEF Longer
    <3>4. Count(t, j, "declare") = Count(c, j, "declare") /\ Depth(t, j) = Depth(c, j)
      BY <3>3, CountsSame
    <3>5. ~ (n = e.name /\ Together(t, j, Len(c) + 1))
      <4>1. Together(t, j, Len(c) + 1) => Depth(t, j) = Depth(t, Len(c) + 1)
        BY DEF Together
      <4>2. Depth(t, Len(c) + 1) = Depth(c, Len(c))
        BY DeclaredNext
      <4> QED
        BY <3>1, <3>4, <4>1, <4>2
    <3>6. UsedUp(t, n, j) <=> UsedUp(c, n, j)
      BY <2>4, <3>5, UsedUpSame
    <3>7. symbols[Count(c, j, "declare")].prototype <=>
            c[j].type.fun /\ ~ c[j].code /\ ~ UsedUp(c, n, j)
      BY <3>1 DEF FlagsInv
    <3>8. symbols'[Count(c, j, "declare")].prototype
            = symbols[Count(c, j, "declare")].prototype
      BY <3>2
    <3> QED
      BY <3>3, <3>4, <3>6, <3>7, <3>8
  <2> QED
    BY <2>2, <2>3, <2>4
<1> QED
  BY <1>2 DEF FlagsInv, UsedUp

(* A definition uses up the prototype of the symbol it redeclares. *)
LEMMA FlagsRedeclared ==
  ASSUME NEW t, NEW c, NEW e, Longer(t, c, e), e.ev = "declare", FlagsInv(c),
         NEW j0 \in Visible(c, e.name, Len(c)), Depth(c, j0) = Depth(c, Len(c)),
         \A s \in 1 .. Count(c, Len(c), "declare") : s # Count(c, j0, "declare") =>
           symbols'[s].prototype = symbols[s].prototype,
         symbols'[Count(c, j0, "declare")].prototype <=>
           symbols[Count(c, j0, "declare")].prototype /\ ~ Defines(e)
  PROVE  FlagsInv(t)'
<1>1. /\ Len(c) \in Nat /\ Len(t) = Len(c) + 1 /\ t[Len(c) + 1] = e
      /\ Len(c) \in 0 .. Len(c)
  BY CountsSame DEF Longer
<1>2. Depth(t, Len(c) + 1) = Depth(c, Len(c))
  BY DeclaredNext
<1>3. /\ j0 \in 1 .. Len(c) /\ j0 \in Nat /\ c[j0].ev = "declare" /\ c[j0].name = e.name
      /\ Open(c, j0, Len(c))
  BY <1>1, VisibleFacts
<1>4. ASSUME NEW n \in Names, NEW j \in Visible(c, n, Len(c))
      PROVE  symbols'[Count(t, j, "declare")].prototype <=>
               t[j].type.fun /\ ~ t[j].code /\ ~ UsedUp(t, n, j)
  <2>1. /\ j \in 1 .. Len(c) /\ j \in Nat /\ c[j].ev = "declare" /\ c[j].name = n
        /\ Count(c, j, "declare") \in 1 .. Count(c, Len(c), "declare")
    BY <1>1, VisibleFacts
  <2>2. /\ t[j] = c[j] /\ Depth(t, j) = Depth(c, j)
        /\ Count(t, j, "declare") = Count(c, j, "declare")
    BY RedeclaredVisible
  <2>3. symbols[Count(c, j, "declare")].prototype <=>
          c[j].type.fun /\ ~ c[j].code /\ ~ UsedUp(c, n, j)
    BY DEF FlagsInv
  <2>4. CASE j = j0
    <3>1. n = e.name
      BY <1>3, <2>1, <2>4
    <3>2. Declares(t, Len(c) + 1, n) /\ Len(c) + 1 \in j + 1 .. Len(t)
      BY <1>1, <2>1, <3>1 DEF Declares
    <3>3. Together(t, j, Len(c) + 1)
      <4>1. Together(c, j, Len(c))
        BY <1>3, <2>4 DEF Together
      <4> QED
        BY <2>1, <4>1, TogetherNext
    <3>4. Defines(e) => UsedUp(t, n, j)
      BY <1>1, <3>2, <3>3 DEF UsedUp
    <3>5. ~ Defines(e) => (UsedUp(t, n, j) <=> UsedUp(c, n, j))
      BY <2>1, UsedUpSame
    <3> QED
      BY <2>2, <2>3, <2>4, <3>4, <3>5
  <2>5. CASE j # j0
    <3>1. Count(c, j, "declare") # Count(c, j0, "declare")
      BY <1>3, <2>1, <2>5, CountDistinct
    <3>2. ~ (n = e.name /\ Together(t, j, Len(c) + 1))
      <4>1. Together(t, j, Len(c) + 1) => Depth(c, j) = Depth(c, Len(c))
        BY <1>2, <2>2 DEF Together
      <4>2. n = e.name => Depth(c, j) # Depth(c, Len(c))
        BY <1>1, <2>5, VisibleUnique
      <4> QED
        BY <4>1, <4>2
    <3>3. UsedUp(t, n, j) <=> UsedUp(c, n, j)
      BY <2>1, <3>2, UsedUpSame
    <3>4. symbols'[Count(c, j, "declare")].prototype
            = symbols[Count(c, j, "declare")].prototype
      BY <2>1, <3>1
    <3> QED
      BY <2>2, <2>3, <3>3, <3>4
  <2> QED
    BY <2>4, <2>5
<1>5. \A n : Visible(t, n, Len(t)) = Visible(c, n, Len(c))
  BY <1>1, RedeclaredVisible
<1> QED
  BY <1>4, <1>5 DEF FlagsInv, UsedUp

(***************************************************************************)
(* Errors.                                                                 *)
(***************************************************************************)

(* Entering and leaving scopes is no error. *)
LEMMA ErrorsNext ==
  ASSUME NEW t, NEW c, NEW e, Longer(t, c, e), e.ev \in {"enter", "exit"},
         ErrorsInv(c), UNCHANGED resolve_err
  PROVE  ErrorsInv(t)'
<1>1. Undeclared(t) <=> Undeclared(c)
  BY UndeclaredNext
<1>2. Conflicting(t) <=> Conflicting(c)
  BY ConflictingNext
<1>3. ErrorsInv(t)
  BY <1>1, <1>2 DEF ErrorsInv
<1> QED
  BY <1>3 DEF ErrorsInv

(* A use is one when the name means nothing. *)
LEMMA ErrorsUse ==
  ASSUME NEW t, NEW c, NEW e, Longer(t, c, e), e.ev = "use", ErrorsInv(c),
         resolve_err' <=> resolve_err \/ Meaning(c, e.name, Len(c)) = NULL
  PROVE  ErrorsInv(t)'
<1>1. Undeclared(t) <=> Undeclared(c) \/ Meaning(c, e.name, Len(c)) = NULL
  BY UndeclaredNext, MeaningUse
<1>2. Conflicting(t) <=> Conflicting(c)
  BY ConflictingNext
<1>3. resolve_err' <=> Undeclared(t) \/ Conflicting(t)
  BY <1>1, <1>2 DEF ErrorsInv
<1> QED
  BY <1>3 DEF ErrorsInv

(* Nor is a name that is new in its scope. *)
LEMMA ErrorsDeclared ==
  ASSUME NEW t, NEW c, NEW e, Longer(t, c, e), e.ev = "declare", ErrorsInv(c),
         \A j \in Visible(c, e.name, Len(c)) : Depth(c, j) # Depth(c, Len(c)),
         UNCHANGED resolve_err
  PROVE  ErrorsInv(t)'
<1>1. Undeclared(t) <=> Undeclared(c)
  BY UndeclaredNext
<1>2. ASSUME NEW i \in 1 .. Len(c), ConflictsWith(c, e, i)
      PROVE  FALSE
  <2>1. Declares(c, i, e.name) /\ Together(c, i, Len(c)) /\ Len(c) \in Nat
    BY <1>2, CountsSame DEF ConflictsWith
  <2>2. PICK j \in Visible(c, e.name, Len(c)) : j <= i /\ Together(c, j, Len(c))
    BY <2>1, FirstExists
  <2> QED
    BY <2>2 DEF Together
<1>3. Conflicting(t) <=> Conflicting(c)
  BY <1>2, ConflictingNext
<1>4. resolve_err' <=> Undeclared(t) \/ Conflicting(t)
  BY <1>1, <1>3 DEF ErrorsInv
<1> QED
  BY <1>4 DEF ErrorsInv

(* Redeclaring a name is an error when its type is another or it is        *)
(* defined again: the first declaration of the scope tells.                *)
LEMMA ConflictFound ==
  ASSUME NEW c \in Seq(Event), NEW e \in Event, e.ev = "declare", FlagsInv(c),
         NEW p, NEW j \in Visible(c, e.name, Len(c)), Depth(c, j) = Depth(c, Len(c)),
         p <=> c[j].type.fun /\ ~ c[j].code /\ ~ UsedUp(c, e.name, j),
         ~ e.type.fun \/ c[j].type # e.type \/ (Defines(e) /\ ~ p)
  PROVE  \E i \in 1 .. Len(c) : ConflictsWith(c, e, i)
<1>1. Len(c) \in Nat
  OBVIOUS
<1>2. /\ j \in 1 .. Len(c) /\ j \in Nat /\ j <= Len(c)
      /\ Declares(c, j, e.name) /\ Open(c, j, Len(c))
  BY <1>1, VisibleFacts
<1>3. Together(c, j, Len(c))
  BY <1>2 DEF Together
<1>4. CASE ~ Agree(c[j], e)
  BY <1>2, <1>3, <1>4 DEF ConflictsWith
<1>5. CASE Agree(c[j], e)
  <2>1. c[j].type.fun /\ e.type.fun /\ c[j].type = e.type /\ ~ (c[j].code /\ e.code)
    BY <1>5 DEF Agree
  <2>2. Defines(e) /\ UsedUp(c, e.name, j) /\ e.code
    BY <2>1 DEF Defines
  <2>3. PICK k \in j + 1 .. Len(c) :
          Declares(c, k, e.name) /\ Together(c, j, k) /\ Defines(c[k])
    BY <2>2 DEF UsedUp
  <2>4. k \in 1 .. Len(c) /\ k \in Nat /\ j <= k /\ k <= Len(c)
    BY <1>1, <1>2
  <2>5. Together(c, k, Len(c))
    BY <1>1, <1>2, <1>3, <2>3, <2>4, OpenParts
  <2>6. ~ Agree(c[k], e)
    BY <2>2, <2>3 DEF Agree, Defines
  <2> QED
    BY <2>3, <2>4, <2>5, <2>6 DEF ConflictsWith
<1> QED
  BY <1>4, <1>5

(* And only then, unless the scope's declarations disagree already. *)
LEMMA ConflictMissed ==
  ASSUME NEW c \in Seq(Event), NEW e \in Event, e.ev = "declare",
         ~ Conflicting(c),
         NEW p, NEW j \in Visible(c, e.name, Len(c)), Depth(c, j) = Depth(c, Len(c)),
         p <=> c[j].type.fun /\ ~ c[j].code /\ ~ UsedUp(c, e.name, j),
         e.type.fun, c[j].type = e.type, Defines(e) => p,
         NEW i \in 1 .. Len(c)
  PROVE  ~ ConflictsWith(c, e, i)
<1> SUFFICES ASSUME ConflictsWith(c, e, i)
             PROVE  FALSE
  OBVIOUS
<1>1. /\ Len(c) \in Nat /\ DOMAIN c = 1 .. Len(c) /\ i \in Nat /\ i <= Len(c)
      /\ Declares(c, i, e.name) /\ Together(c, i, Len(c)) /\ ~ Agree(c[i], e)
      /\ c[i].ev = "declare" /\ c[i].name = e.name
  BY DEF ConflictsWith, Declares
<1>2. /\ j \in 1 .. Len(c) /\ j \in Nat /\ j <= Len(c)
      /\ Declares(c, j, e.name) /\ Open(c, j, Len(c))
  BY <1>1, VisibleFacts
<1>3. Together(c, j, Len(c))
  BY <1>2 DEF Together
<1>4. j <= i
  <2>1. PICK k \in Visible(c, e.name, Len(c)) : k <= i /\ Together(c, k, Len(c))
    BY <1>1, FirstExists
  <2>2. Depth(c, k) = Depth(c, j)
    BY <2>1 DEF Together
  <2>3. k = j
    BY <1>1, <2>2, VisibleUnique
  <2> QED
    BY <2>1, <2>3
<1>5. CASE i = j
  <2>1. c[i].type.fun /\ c[i].type = e.type
    BY <1>5
  <2>2. ~ (c[i].code /\ e.code)
    BY <1>5 DEF Defines
  <2> QED
    BY <1>1, <2>1, <2>2 DEF Agree
<1>6. CASE i # j
  <2>1. j \in 1 .. i - 1 /\ i \in j + 1 .. Len(c)
    BY <1>1, <1>2, <1>4, <1>6
  <2>2. Together(c, j, i)
    BY <1>1, <1>2, <1>3, <1>4, OpenParts
  <2>3. Agree(c[j], c[i])
    <3>1. Declares(c, j, c[i].name) /\ i \in DOMAIN c
      BY <1>1, <1>2
    <3> QED
      BY <1>1, <2>1, <2>2, <3>1 DEF Conflicting
  <2>4. c[i].type.fun /\ c[i].type = e.type
    BY <2>3 DEF Agree
  <2>5. ~ (c[i].code /\ e.code)
    <3>1. SUFFICES ASSUME c[i].code, e.code
                   PROVE  FALSE
      OBVIOUS
    <3>2. UsedUp(c, e.name, j)
      BY <1>1, <2>1, <2>2, <2>4, <3>1 DEF UsedUp, Defines
    <3>3. Defines(e)
      BY <3>1 DEF Defines
    <3> QED
      BY <3>2, <3>3
  <2> QED
    BY <1>1, <2>4, <2>5 DEF Agree
<1> QED
  BY <1>5, <1>6

(* So the flag is raised exactly for a conflict. *)
LEMMA ErrorsRedeclared ==
  ASSUME NEW t, NEW c, NEW e, Longer(t, c, e), e.ev = "declare",
         ErrorsInv(c), FlagsInv(c), e.name \in Names,
         NEW j \in Visible(c, e.name, Len(c)), Depth(c, j) = Depth(c, Len(c)),
         resolve_err' <=>
           \/ resolve_err \/ ~ e.type.fun \/ c[j].type # e.type
           \/ Defines(e) /\ ~ symbols[Count(c, j, "declare")].prototype
  PROVE  ErrorsInv(t)'
<1> DEFINE p == symbols[Count(c, j, "declare")].prototype
           bad == ~ e.type.fun \/ c[j].type # e.type \/ (Defines(e) /\ ~ p)
<1>1. Undeclared(t) <=> Undeclared(c)
  BY UndeclaredNext
<1>2. Conflicting(t) <=> Conflicting(c) \/ \E i \in 1 .. Len(c) : ConflictsWith(c, e, i)
  BY ConflictingNext
<1>3. p <=> c[j].type.fun /\ ~ c[j].code /\ ~ UsedUp(c, e.name, j)
  BY DEF FlagsInv
<1>4. c \in Seq(Event) /\ e \in Event
  BY DEF Longer
<1>5. bad => \E i \in 1 .. Len(c) : ConflictsWith(c, e, i)
  <2> HIDE DEF p
  <2> QED
    BY <1>3, <1>4, ConflictFound
<1>6. ~ bad /\ ~ Conflicting(c) => ~ \E i \in 1 .. Len(c) : ConflictsWith(c, e, i)
  <2> HIDE DEF p
  <2> QED
    BY <1>3, <1>4, ConflictMissed
<1>7. resolve_err' <=> Undeclared(t) \/ Conflicting(t)
  <2>1. resolve_err' <=> resolve_err \/ bad
    OBVIOUS
  <2> HIDE DEF bad
  <2> QED
    BY <1>1, <1>2, <1>5, <1>6, <2>1 DEF ErrorsInv
<1> QED
  BY <1>7 DEF ErrorsInv

(* A declaration that a new one is compared with is the visible one. *)
LEMMA CrashesVisible ==
  ASSUME NEW c \in Seq(Event), NEW e, NEW i \in 1 .. Len(c), CrashesWith(c, e, i)
  PROVE  i \in Visible(c, e.name, Len(c)) /\ Depth(c, i) = Depth(c, Len(c))
BY DEF CrashesWith, Together, Visible

(* Nothing crashes without a declaration, or with none in the same scope. *)
LEMMA CrashNext ==
  ASSUME NEW t, NEW c, NEW e, Longer(t, c, e), CrashInv(c),
         \/ e.ev # "declare"
         \/ \A j \in Visible(c, e.name, Len(c)) : Depth(c, j) # Depth(c, Len(c))
  PROVE  CrashInv(t)
<1>1. c \in Seq(Event)
  BY DEF Longer
<1> QED
  BY <1>1, CrashingNext, CrashesVisible DEF CrashInv

(* Whether it does with the one in the same scope is seen from its symbol. *)
LEMMA CrashesAgain ==
  ASSUME NEW c \in Seq(Event), NEW e \in Event, e.name \in Names, FlagsInv(c),
         NEW j \in Visible(c, e.name, Len(c)), Depth(c, j) = Depth(c, Len(c))
  PROVE  (\E i \in 1 .. Len(c) : CrashesWith(c, e, i)) <=>
           /\ e.type.fun
           /\ ~ e.code \/ symbols[Count(c, j, "declare")].prototype
           /\ Stuck(c[j].type.sig, e.type.sig)
<1>1. Len(c) \in Nat
  OBVIOUS
<1>2. \A i \in 1 .. Len(c) : CrashesWith(c, e, i) => i = j
  BY <1>1, CrashesVisible, VisibleUnique
<1>3. /\ j \in 1 .. Len(c) /\ Declares(c, j, e.name) /\ First(c, j)
      /\ Together(c, j, Len(c))
  BY <1>1, VisibleFacts DEF Together
<1>4. symbols[Count(c, j, "declare")].prototype <=>
        c[j].type.fun /\ ~ c[j].code /\ ~ UsedUp(c, e.name, j)
  BY DEF FlagsInv
<1>5. CrashesWith(c, e, j) <=>
        /\ e.type.fun
        /\ ~ e.code \/ symbols[Count(c, j, "declare")].prototype
        /\ Stuck(c[j].type.sig, e.type.sig)
  <2>1. CrashesWith(c, e, j) <=>
          /\ e.type.fun
          /\ e.code => c[j].type.fun /\ ~ c[j].code /\ ~ UsedUp(c, e.name, j)
          /\ Stuck(c[j].type.sig, e.type.sig)
    BY <1>3 DEF CrashesWith
  <2> QED
    BY Zenon, <1>4, <2>1
<1> QED
  BY <1>2, <1>3, <1>5

(***************************************************************************)
(* Every kind of event keeps the state and the text in agreement.          *)
(***************************************************************************)

(* Declarations are numbered as they come. *)
LEMMA NumberNext ==
  ASSUME NEW t, NEW c, NEW e, Longer(t, c, e)
  PROVE  /\ Count(c, Len(c), "declare") \in Nat
         /\ e.ev # "declare" =>
              Count(t, Len(c) + 1, "declare") = Count(c, Len(c), "declare")
         /\ e.ev = "declare" =>
              Count(t, Len(c) + 1, "declare") = Count(c, Len(c), "declare") + 1
<1>1. Len(c) \in Nat /\ Len(c) \in 0 .. Len(c) /\ t[Len(c) + 1] = e
  BY CountsSame DEF Longer
<1>2. Count(t, Len(c), "declare") = Count(c, Len(c), "declare")
  BY <1>1, CountsSame
<1>3. Count(c, Len(c), "declare") \in Nat
  BY <1>1, CountTyped
<1>4. Count(t, Len(c) + 1, "declare")
        = Count(c, Len(c), "declare") + IF e.ev = "declare" THEN 1 ELSE 0
  BY <1>1, <1>2, CountNext
<1> QED
  BY <1>3, <1>4

(* An event that declares nothing. *)
LEMMA QuietNext ==
  ASSUME TypesInv, NEW t, NEW c, NEW e, Longer(t, c, e), e.ev # "declare",
         Agreed(c), UNCHANGED symbols, Pending' <=> Pending,
         Len(scopes') \in Nat \ {0}, Depth(t, Len(c) + 1) = Len(scopes') - 1,
         \A i \in 1 .. Len(scopes') : \A n \in Names :
           scopes'[i].table[n] = IF i <= Len(scopes) THEN scopes[i].table[n] ELSE NULL
  PROVE  /\ SymbolsInv(t)' /\ DepthInv(t)' /\ TablesInv(t)' /\ FlagsInv(t)'
         /\ CrashInv(t)
<1>1. SymbolsInv(c) /\ DepthInv(c) /\ TablesInv(c) /\ FlagsInv(c) /\ CrashInv(c)
  BY DEF Agreed
<1>2. SymbolsInv(t)'
  <2>1. Len(symbols') = Count(t, Len(c) + 1, "declare") + (IF Pending' THEN 1 ELSE 0)
    <3>1. Count(t, Len(c) + 1, "declare") = Count(c, Len(c), "declare")
      BY NumberNext
    <3>2. Len(symbols) = Count(c, Len(c), "declare") + (IF Pending THEN 1 ELSE 0)
      BY <1>1 DEF SymbolsInv
    <3> QED
      BY <3>1, <3>2
  <2> QED
    BY <1>1, <2>1, SymbolsNext
<1>3. DepthInv(t)'
  BY <1>1, DepthInvNext
<1>4. TablesInv(t)'
  <2>1. Len(scopes) \in Nat /\ Len(scopes') \in Nat
    BY LevelFacts
  <2> QED
    BY <1>1, <2>1, TablesNext
<1>5. FlagsInv(t)'
  BY <1>1, FlagsNext
<1>6. CrashInv(t)
  BY <1>1, CrashNext
<1> QED
  BY <1>2, <1>3, <1>4, <1>5, <1>6

(* A declaration of a name that is new in its scope. *)
LEMMA DeclareNew ==
  ASSUME TypesInv, NEW t, NEW c, NEW e, Longer(t, c, e), e.ev = "declare",
         Agreed(c), e.name \in Names, scope_lookup_current(e.name) = NULL,
         NEW s \in Nat, s = Count(t, Len(c) + 1, "declare"),
         scopes' = Bound(e.name, s), Len(symbols') = s, ~ Pending',
         \A i \in 1 .. Count(c, Len(c), "declare") :
           /\ symbols'[i].type = symbols[i].type
           /\ symbols'[i].prototype = symbols[i].prototype,
         symbols'[s].type = e.type,
         symbols'[s].prototype <=> e.type.fun /\ ~ e.code,
         UNCHANGED <<resolve_err, resolved>>
  PROVE  Agreed(t)'
<1>1. /\ SymbolsInv(c) /\ DepthInv(c) /\ TablesInv(c) /\ FlagsInv(c)
      /\ ResolvedInv(c) /\ ErrorsInv(c) /\ c \in Seq(Event)
  BY DEF Agreed, Longer
<1>2. \A j \in Visible(c, e.name, Len(c)) : Depth(c, j) # Depth(c, Len(c))
  BY <1>1, CurrentIs
<1>3. SymbolsInv(t)'
  <2>1. Len(symbols') = Count(t, Len(c) + 1, "declare") + (IF Pending' THEN 1 ELSE 0)
    OBVIOUS
  <2> QED
    BY <1>1, <2>1, SymbolsNext
<1>4. TablesInv(t)' /\ Len(scopes') = Len(scopes)
  BY <1>1, TablesDeclared
<1>5. DepthInv(t)'
  <2>1. Len(scopes') \in Nat \ {0} /\ Depth(c, Len(c)) = Len(scopes) - 1
    BY <1>1, <1>4, LevelFacts DEF DepthInv
  <2>2. Depth(t, Len(c) + 1) = Len(scopes') - 1
    BY <1>4, <2>1, DeclaredNext
  <2> QED
    BY <1>1, <2>1, <2>2, DepthInvNext
<1>6. FlagsInv(t)'
  BY <1>1, <1>2, FlagsDeclared
<1>7. ResolvedInv(t)'
  <2>1. e.ev # "use"
    OBVIOUS
  <2> QED
    BY <1>1, <2>1, ResolvedNext
<1>8. ErrorsInv(t)'
  BY <1>1, <1>2, ErrorsDeclared
<1>9. CrashInv(t)
  BY <1>2, CrashNext DEF Agreed
<1> QED
  BY <1>3, <1>4, <1>5, <1>6, <1>7, <1>8, <1>9 DEF Agreed, CrashInv

(* A declaration of a name that its scope has already. *)
LEMMA DeclareAgain ==
  ASSUME TypesInv, NEW t, NEW c, NEW e, Longer(t, c, e), e.ev = "declare",
         Agreed(c), e.name \in Names, NEW tmp, tmp = scope_lookup_current(e.name),
         tmp # NULL, UNCHANGED scopes,
         Len(symbols') = Count(t, Len(c) + 1, "declare"), ~ Pending',
         \A i \in 1 .. Count(c, Len(c), "declare") :
           /\ symbols'[i].type = symbols[i].type
           /\ i # tmp => symbols'[i].prototype = symbols[i].prototype,
         symbols'[tmp].prototype <=> symbols[tmp].prototype /\ ~ Defines(e),
         symbols'[Count(t, Len(c) + 1, "declare")].type = e.type,
         UNCHANGED resolved,
         resolve_err' <=>
           \/ resolve_err \/ ~ e.type.fun \/ symbols[tmp].type # e.type
           \/ Defines(e) /\ ~ symbols[tmp].prototype,
         e.type.fun /\ (~ e.code \/ symbols[tmp].prototype) =>
           ~ Stuck(symbols[tmp].type.sig, e.type.sig)
  PROVE  Agreed(t)'
<1>1. /\ SymbolsInv(c) /\ DepthInv(c) /\ TablesInv(c) /\ FlagsInv(c)
      /\ ResolvedInv(c) /\ ErrorsInv(c) /\ c \in Seq(Event) /\ Len(c) \in Nat
  BY DEF Agreed, Longer
<1>2. PICK j \in Visible(c, e.name, Len(c)) :
        Depth(c, j) = Depth(c, Len(c)) /\ tmp = Count(c, j, "declare")
  BY <1>1, CurrentIs
<1>3. symbols[tmp].type = c[j].type
  <2>1. j \in 1 .. Len(c) /\ c[j].ev = "declare"
    BY <1>1, VisibleFacts
  <2> QED
    BY <1>1, <1>2, <2>1 DEF SymbolsInv
<1>4. SymbolsInv(t)'
  <2>1. Len(symbols') = Count(t, Len(c) + 1, "declare") + (IF Pending' THEN 1 ELSE 0)
    BY NumberNext
  <2> QED
    BY <1>1, <2>1, SymbolsNext
<1>5. TablesInv(t)'
  BY <1>1, <1>2, TablesRedeclared
<1>6. DepthInv(t)'
  <2>1. Len(scopes') \in Nat \ {0} /\ Depth(c, Len(c)) = Len(scopes') - 1
    BY <1>1, LevelFacts DEF DepthInv
  <2>2. Depth(t, Len(c) + 1) = Len(scopes') - 1
    BY <2>1, DeclaredNext
  <2> QED
    BY <1>1, <2>1, <2>2, DepthInvNext
<1>7. FlagsInv(t)'
  <2>1. \A i \in 1 .. Count(c, Len(c), "declare") : i # Count(c, j, "declare") =>
          symbols'[i].prototype = symbols[i].prototype
    BY <1>2
  <2>2. symbols'[Count(c, j, "declare")].prototype <=>
          symbols[Count(c, j, "declare")].prototype /\ ~ Defines(e)
    BY <1>2
  <2> QED
    BY <1>1, <1>2, <2>1, <2>2, FlagsRedeclared
<1>8. ResolvedInv(t)'
  <2>1. e.ev # "use"
    OBVIOUS
  <2> QED
    BY <1>1, <2>1, ResolvedNext
<1>9. ErrorsInv(t)'
  <2>1. resolve_err' <=>
           \/ resolve_err \/ ~ e.type.fun \/ c[j].type # e.type
           \/ Defines(e) /\ ~ symbols[Count(c, j, "declare")].prototype
    BY <1>2, <1>3
  <2> QED
    BY <1>1, <1>2, <2>1, ErrorsRedeclared
<1>10. CrashInv(t)
  <2>1. e \in Event
    BY DEF Longer
  <2>2. ~ \E i \in 1 .. Len(c) : CrashesWith(c, e, i)
    BY <1>1, <1>2, <1>3, <2>1, CrashesAgain
  <2> QED
    BY <2>2, CrashingNext DEF CrashInv, Agreed
<1> QED
  BY <1>4, <1>5, <1>6, <1>7, <1>8, <1>9, <1>10 DEF Agreed, CrashInv

(* No event: a symbol may wait for its declaration. *)
LEMMA AgreedSame ==
  ASSUME NEW c, c \in Seq(Event), Agreed(c), UNCHANGED <<scopes, resolve_err, resolved>>,
         Len(symbols') = Count(c, Len(c), "declare") + (IF Pending' THEN 1 ELSE 0),
         \A i \in 1 .. Count(c, Len(c), "declare") :
           /\ symbols'[i].type = symbols[i].type
           /\ symbols'[i].prototype = symbols[i].prototype
  PROVE  Agreed(c)'
<1>1. /\ SymbolsInv(c) /\ DepthInv(c) /\ TablesInv(c) /\ FlagsInv(c)
      /\ ResolvedInv(c) /\ ErrorsInv(c) /\ Len(c) \in Nat
  BY DEF Agreed
<1>2. SymbolsInv(c)'
  <2>1. ASSUME NEW j \in 1 .. Len(c), c[j].ev = "declare"
        PROVE  symbols'[Count(c, j, "declare")].type = c[j].type
    <3>1. j \in Nat /\ 0 <= j /\ 0 # j /\ j <= Len(c)
      BY <1>1
    <3>2. /\ Count(c, 0, "declare") = 0 /\ Count(c, j, "declare") \in Nat
          /\ Count(c, Len(c), "declare") \in Nat
      BY <1>1, <3>1, CountTyped
    <3>3. Count(c, 0, "declare") < Count(c, j, "declare")
      BY <2>1, <3>1, CountGrows
    <3>4. Count(c, j, "declare") <= Count(c, Len(c), "declare")
      BY <1>1, <3>1, CountGrows
    <3>5. Count(c, j, "declare") \in 1 .. Count(c, Len(c), "declare")
      BY <3>2, <3>3, <3>4
    <3> QED
      BY <1>1, <2>1, <3>5 DEF SymbolsInv
  <2> QED
    BY <2>1 DEF SymbolsInv
<1>3. FlagsInv(c)'
  <2>1. ASSUME NEW n \in Names, NEW j \in Visible(c, n, Len(c))
        PROVE  symbols'[Count(c, j, "declare")].prototype <=>
                 c[j].type.fun /\ ~ c[j].code /\ ~ UsedUp(c, n, j)
    <3>1. Count(c, j, "declare") \in 1 .. Count(c, Len(c), "declare")
      BY <1>1, VisibleFacts
    <3> QED
      BY <1>1, <3>1 DEF FlagsInv
  <2> QED
    BY <2>1 DEF FlagsInv, UsedUp
<1>4. DepthInv(c)' /\ TablesInv(c)'
  BY <1>1 DEF DepthInv, TablesInv
<1>5. ResolvedInv(c)' /\ ErrorsInv(c)'
  BY <1>1 DEF ResolvedInv, ErrorsInv
<1> QED
  BY <1>2, <1>3, <1>4, <1>5 DEF Agreed, CrashInv

(***************************************************************************)
(* Every action goes through its part of the text.                         *)
(***************************************************************************)
WalkInv == BindsInv /\ \E c : Reaches(c, todo) /\ Agreed(c)

(* The program stays what it is. *)
LEMMA ReachesPrimed ==
  ASSUME NEW c, UNCHANGED program, Reaches(c, todo')
  PROVE  Reaches(c, todo)'
BY DEF Reaches, Rests, Behind, TextOf, CallText, PlainText, PlainTexts

(* The call at hand goes through x and makes the calls new. *)
LEMMA WalkReplace ==
  ASSUME TypesInv, Calls # <<>>, NEW new \in Seq(AnyCall), Replace(new),
         NEW x \in Seq(Event), CallText(Call) = x \o TextOf(new),
         NEW c, Reaches(c, todo), UNCHANGED program
  PROVE  Reaches(c \o x, todo)'
<1>1. PICK n \in Nat : n = Len(todo) /\ n # 0 /\ Calls = todo[n]
  BY LevelFacts
<1>2. PICK lists \in Seq(Seq(AnyCall)) : lists = todo
  BY DEF TypesInv
<1>3. PICK calls \in Seq(AnyCall) : calls = Calls
  BY LevelFacts
<1>4. PICK other \in Seq(Seq(AnyCall)) :
        /\ other = todo' /\ Len(other) = n
        /\ \A i \in 1 .. n - 1 : other[i] = todo[i]
  BY <1>1, ReplaceFacts
<1>5. other[n] = new \o Tail(calls)
  <2>1. n \in DOMAIN todo
    BY <1>1, LevelFacts
  <2>2. todo' = [todo EXCEPT ![n] = new \o Tail(todo[n])]
    BY <1>1 DEF Replace
  <2>3. todo'[n] = new \o Tail(todo[n])
    BY <2>1, <2>2
  <2> QED
    BY <1>1, <1>3, <1>4, <2>3
<1>6. SameBelow(other, lists, n - 1)
  BY <1>2, <1>4 DEF SameBelow
<1>7. Reaches(c, lists) /\ n = Len(lists) /\ calls = lists[n] /\ calls # <<>>
  BY <1>1, <1>2, <1>3
<1>8. CallText(Head(calls)) = x \o TextOf(new)
  BY <1>3 DEF Call
<1>9. Reaches(c \o x, other)
  BY <1>1, <1>2, <1>3, <1>4, <1>5, <1>6, <1>7, <1>8, ReachesReplace
<1> QED
  BY <1>4, <1>9, ReachesPrimed

(* What has been gone through is text. *)
LEMMA ReachedText ==
  ASSUME NEW c, NEW lists, Reaches(c, lists)
  PROVE  c \in Seq(Event) /\ Len(c) \in Nat /\ c \o <<>> = c
<1>1. c \in Seq(Event)
  BY DEF Reaches
<1> QED
  BY <1>1, ConcatEmptySeq

(* One event is gone through by the call at hand. *)
LEMMA WalkEvent ==
  ASSUME TypesInv, Calls # <<>>, NEW new \in Seq(AnyCall), Replace(new),
         NEW e \in Event, CallText(Call) = <<e>> \o TextOf(new),
         NEW c, Reaches(c, todo), UNCHANGED program
  PROVE  \E t : Reaches(t, todo)' /\ Longer(t, c, e)
<1>1. <<e>> \in Seq(Event)
  OBVIOUS
<1>2. Reaches(c \o <<e>>, todo)'
  BY <1>1, WalkReplace
<1>3. Longer(c \o <<e>>, c, e)
  BY ReachedText, LongerExists
<1> QED
  BY <1>2, <1>3

(* Nothing is gone through by the call at hand. *)
LEMMA WalkSilent ==
  ASSUME TypesInv, Calls # <<>>, NEW new \in Seq(AnyCall), Replace(new),
         CallText(Call) = TextOf(new),
         NEW c, Reaches(c, todo), UNCHANGED program
  PROVE  Reaches(c, todo)'
<1>1. <<>> \in Seq(Event)
  BY EmptyText
<1>2. <<>> \o TextOf(new) = TextOf(new)
  <2>1. TextOf(new) \in Seq(Event)
    BY TextTyped
  <2> QED
    BY <2>1, ConcatEmptySeq
<1>3. CallText(Call) = <<>> \o TextOf(new)
  BY <1>2
<1>4. Reaches(c \o <<>>, todo)'
  BY <1>1, <1>3, WalkReplace
<1>5. c \o <<>> = c
  BY ReachedText
<1> QED
  BY <1>4, <1>5

(* What the call at hand goes through, by its kind. *)
LEMMA HeadText ==
  ASSUME TypesInv, Calls # <<>>
  PROVE  /\ Call.do = "use" => CallText(Call) = <<Mention(Call.arg)>>
         /\ Call.do = "param" => CallText(Call) = <<Parameter(Call.arg)>>
         /\ Call.do = "stmt" => CallText(Call) = StmtText[Call.arg]
         /\ Call.do = "decl" => CallText(Call) = DeclText[Call.arg]
         /\ Call.do = "bind" =>
              CallText(Call) = <<Declare(Call.arg.decl)>> \o FunctionText(Call.arg.decl)
         /\ Call.do = "total" => CallText(Call) = <<>>
<1>1. Call \in AnyCall
  BY CallFacts
<1>2. Call = Do(Call.do, Call.arg)
  BY <1>1 DEF AnyCall, Flat, Do
<1> QED
  BY <1>2, CallTexts

(* How deep the new event is. *)
LEMMA NextDepth ==
  ASSUME NEW t, NEW c, NEW e, Longer(t, c, e)
  PROVE  /\ e.ev = "enter" => Depth(t, Len(c) + 1) = Depth(c, Len(c)) + 1
         /\ e.ev = "exit" => Depth(t, Len(c) + 1) = Depth(c, Len(c)) - 1
         /\ e.ev = "use" => Depth(t, Len(c) + 1) = Depth(c, Len(c))
<1>1. Len(c) \in Nat /\ Len(c) \in 0 .. Len(c) /\ t[Len(c) + 1] = e
  BY CountsSame DEF Longer
<1>2. Depth(t, Len(c)) = Depth(c, Len(c))
  BY <1>1, CountsSame
<1>3. /\ e.ev = "enter" => Depth(t, Len(c) + 1) = Depth(t, Len(c)) + 1
      /\ e.ev = "exit" => Depth(t, Len(c) + 1) = Depth(t, Len(c)) - 1
      /\ e.ev = "use" => Depth(t, Len(c) + 1) = Depth(t, Len(c))
  BY <1>1, DepthNext
<1> QED
  BY <1>2, <1>3

(* expr_resolve goes through a use. *)
LEMMA UseWalk ==
  ASSUME SInv, BindsInv, expr_resolve, UNCHANGED program,
         NEW c, Reaches(c, todo), Agreed(c)
  PROVE  WalkInv'
<1>0. TypesInv
  BY DEF SInv
<1>1. Calls # <<>> /\ Call.do = "use" /\ Replace(<<>>) /\ UNCHANGED <<scopes, symbols>>
  BY DEF expr_resolve, Ready
<1>2. PICK name \in Names : name = Call.arg
  BY <1>0, <1>1, CallFacts, CallArgument
<1>3. PICK e \in Event : e = Mention(name) /\ e.ev = "use" /\ e.name = name
  BY EventsTyped DEF Mention
<1>4. PICK new \in Seq(AnyCall) : new = <<>>
  BY EmptyCalls
<1>5. CallText(Call) = <<e>> \o TextOf(new)
  <2>1. CallText(Call) = <<e>>
    BY <1>0, <1>1, <1>2, <1>3, HeadText
  <2>2. TextOf(new) = <<>>
    BY <1>4, TextNone
  <2>3. <<e>> \in Seq(Event)
    OBVIOUS
  <2>4. <<e>> \o <<>> = <<e>>
    BY <2>3, ConcatEmptySeq
  <2> QED
    BY <2>1, <2>2, <2>4
<1>6. PICK t : Reaches(t, todo)' /\ Longer(t, c, e)
  BY <1>0, <1>1, <1>4, <1>5, WalkEvent
<1>7. BindsInv' /\ (Pending' <=> Pending)
  BY <1>0, <1>1, BindsUse
<1>8. /\ DepthInv(c) /\ TablesInv(c) /\ ResolvedInv(c) /\ ErrorsInv(c)
      /\ c \in Seq(Event) /\ Len(scopes) \in Nat \ {0}
  BY <1>0, LevelFacts DEF Agreed, Reaches
<1>9. SymbolsInv(t)' /\ DepthInv(t)' /\ TablesInv(t)' /\ FlagsInv(t)' /\ CrashInv(t)
  <2>1. Len(scopes') \in Nat \ {0} /\ Depth(t, Len(c) + 1) = Len(scopes') - 1
    <3>1. Depth(t, Len(c) + 1) = Depth(c, Len(c))
      BY <1>3, <1>6, NextDepth
    <3> QED
      BY <1>1, <1>8, <3>1 DEF DepthInv
  <2>2. \A i \in 1 .. Len(scopes') : \A n \in Names :
          scopes'[i].table[n] = IF i <= Len(scopes) THEN scopes[i].table[n] ELSE NULL
    BY <1>1, <1>8
  <2>3. e.ev # "declare" /\ UNCHANGED symbols
    BY <1>1, <1>3
  <2> QED
    BY <1>0, <1>6, <1>7, <2>1, <2>2, <2>3, QuietNext
<1>10. PICK m \in Nat : m = scope_lookup(name)
  BY Lookup
<1>11. m = Meaning(c, e.name, Len(c))
  BY <1>0, <1>3, <1>8, <1>10, LookupIs
<1>12. resolved' = Append(resolved, m) /\ (resolve_err' <=> resolve_err \/ m = NULL)
  BY <1>0, <1>2, <1>10 DEF expr_resolve, Fail, TypesInv
<1>13. ResolvedInv(t)'
  <2>1. resolved \in Seq(Nat)
    BY <1>0 DEF TypesInv
  <2> QED
    BY <1>3, <1>6, <1>8, <1>11, <1>12, <2>1, ResolvedUse
<1>14. ErrorsInv(t)'
  <2>1. resolve_err' <=> resolve_err \/ Meaning(c, e.name, Len(c)) = NULL
    BY <1>11, <1>12
  <2> QED
    BY <1>3, <1>6, <1>8, <2>1, ErrorsUse
<1>15. Agreed(t)'
  BY <1>9, <1>13, <1>14 DEF Agreed, CrashInv
<1> QED
  BY <1>6, <1>7, <1>15 DEF WalkInv

(* Entering a scope. *)
LEMMA EnterWalk ==
  ASSUME SInv, BindsInv, scope_enter, UNCHANGED program,
         NEW c, Reaches(c, todo), Agreed(c)
  PROVE  WalkInv'
<1>0. TypesInv
  BY DEF SInv
<1>1. PICK old \in Seq(AnyCall), rest \in Seq(AnyCall), arg \in Seq(Flat) :
        /\ old = Calls /\ old = todo[Len(todo)] /\ old # <<>>
        /\ arg = Call.arg /\ Call.do = "scope" /\ Call = old[1]
        /\ Len(rest) = Len(old) - 1 /\ Len(old) \in Nat \ {0}
        /\ \A i \in 1 .. Len(rest) : rest[i] = old[i + 1]
        /\ todo' \in Seq(Seq(AnyCall)) /\ Len(todo') = Len(todo) + 1
        /\ \A i \in 1 .. Len(todo) - 1 : todo'[i] = todo[i]
        /\ todo'[Len(todo)] = rest /\ todo'[Len(todo) + 1] = arg
  BY EnterFacts
<1>2. PICK e \in Event : e = Enter /\ e.ev = "enter"
  BY EventsTyped DEF Enter
<1>3. PICK n \in Nat : n = Len(todo) /\ n # 0 /\ Len(scopes) = n
  BY <1>0, LevelFacts
<1>4. Reaches(c \o <<e>>, todo)'
  <2>1. PICK lists \in Seq(Seq(AnyCall)) : lists = todo
    BY <1>0 DEF TypesInv
  <2>2. PICK other \in Seq(Seq(AnyCall)) : other = todo'
    BY <1>1
  <2>3. arg \in Seq(AnyCall)
    BY FlatSeqIsCalls
  <2>4. CallText(Head(old)) = Scoped(TextOf(arg))
    <3>1. Head(old) = Call
      BY <1>1 DEF Call
    <3>2. Call = Inside(arg)
      <4>1. Call \in AnyCall
        BY <1>0, <1>1, CallFacts
      <4> QED
        BY <1>1, <4>1 DEF AnyCall, Flat, Inside, Do
    <3> QED
      BY <3>1, <3>2, TextInside
  <2>5. other[n] = Tail(old)
    <3>1. /\ Tail(Calls) \in Seq(AnyCall) /\ Len(Tail(Calls)) = Len(Calls) - 1
          /\ \A i \in 1 .. Len(Calls) - 1 : Tail(Calls)[i] = Calls[i + 1]
      BY <1>0, <1>1, CallFacts
    <3>2. PICK tail \in Seq(AnyCall) :
            /\ tail = Tail(old) /\ Len(tail) = Len(rest)
            /\ \A i \in 1 .. Len(rest) : tail[i] = rest[i]
      <4>1. old = Calls /\ Len(rest) = Len(old) - 1
            /\ \A i \in 1 .. Len(rest) : rest[i] = old[i + 1]
        BY <1>1
      <4>2. PICK tail \in Seq(AnyCall) :
              /\ tail = Tail(old) /\ Len(tail) = Len(old) - 1
              /\ \A i \in 1 .. Len(old) - 1 : tail[i] = old[i + 1]
        BY <3>1, <4>1
      <4>3. Len(tail) = Len(rest) /\ \A i \in 1 .. Len(rest) : tail[i] = rest[i]
        BY <4>1, <4>2
      <4> QED
        BY <4>2, <4>3
    <3>3. rest = tail
      BY <3>2, SeqEqual
    <3> QED
      BY <1>1, <1>3, <2>2, <3>2, <3>3
  <2>6. /\ n = Len(lists) /\ old = lists[n] /\ Len(other) = n + 1
        /\ other[n + 1] = arg /\ Reaches(c, lists)
    BY <1>1, <1>3, <2>1, <2>2
  <2>7. SameBelow(other, lists, n - 1)
    BY <1>1, <1>3, <2>1, <2>2 DEF SameBelow
  <2>8. Reaches(c \o <<Enter>>, other)
    BY <1>1, <1>3, <2>3, <2>4, <2>5, <2>6, <2>7, ReachesEnter
  <2> QED
    BY <1>2, <2>2, <2>8, ReachesPrimed
<1>5. PICK t : t = c \o <<e>>
  OBVIOUS
<1>6. Longer(t, c, e)
  BY <1>5, ReachedText, LongerExists
<1>7. BindsInv' /\ (Pending' <=> Pending)
  BY BindsEnter
<1>8. UNCHANGED <<symbols, resolve_err, resolved>>
  BY DEF scope_enter
<1>9. DepthInv(c) /\ ResolvedInv(c) /\ ErrorsInv(c)
  BY DEF Agreed
<1>10. SymbolsInv(t)' /\ DepthInv(t)' /\ TablesInv(t)' /\ FlagsInv(t)' /\ CrashInv(t)
  <2>1. /\ Len(scopes') = n + 1 /\ \A i \in 1 .. n : scopes'[i] = scopes[i]
    BY <1>3, EnterPreserves
  <2>2. \A name \in Names : scopes'[n + 1].table[name] = NULL
    <3>1. PICK s \in Scope : s = EmptyScope(Inherited) /\ \A m \in Names : s.table[m] = NULL
      <4>1. PICK w \in Nat : w = Inherited
        BY <1>0, LevelFacts DEF Inherited
      <4>2. EmptyScope(w) \in Scope /\ \A m \in Names : EmptyScope(w).table[m] = NULL
        BY DEF EmptyScope, Scope, NULL
      <4> QED
        BY <4>1, <4>2
    <3>2. scopes \in Seq(Scope) /\ scopes' = Append(scopes, s)
      BY <1>0, <3>1 DEF TypesInv, scope_enter
    <3>3. scopes'[n + 1] = s
      BY <1>3, <3>2, AppendProperties
    <3> QED
      BY <3>1, <3>3
  <2>3. Len(scopes') \in Nat \ {0} /\ Depth(t, Len(c) + 1) = Len(scopes') - 1
    <3>1. Depth(t, Len(c) + 1) = Depth(c, Len(c)) + 1
      BY <1>2, <1>6, NextDepth
    <3> QED
      BY <1>3, <1>9, <2>1, <3>1 DEF DepthInv
  <2>4. \A i \in 1 .. Len(scopes') : \A name \in Names :
          scopes'[i].table[name]
            = IF i <= Len(scopes) THEN scopes[i].table[name] ELSE NULL
    <3>1. \A i \in 1 .. Len(scopes') : (i \in 1 .. n /\ i <= Len(scopes))
                                        \/ (i = n + 1 /\ ~ i <= Len(scopes))
      BY <1>3, <2>1
    <3> QED
      BY <2>1, <2>2, <3>1
  <2>5. e.ev # "declare"
    BY <1>2
  <2> QED
    BY <1>0, <1>6, <1>7, <1>8, <2>3, <2>4, <2>5, QuietNext
<1>11. ResolvedInv(t)'
  <2>1. e.ev # "use"
    BY <1>2
  <2> QED
    BY <1>6, <1>8, <1>9, <2>1, ResolvedNext
<1>12. ErrorsInv(t)'
  BY <1>2, <1>6, <1>8, <1>9, ErrorsNext
<1>13. Agreed(t)'
  BY <1>10, <1>11, <1>12 DEF Agreed, CrashInv
<1> QED
  BY <1>4, <1>5, <1>7, <1>13 DEF WalkInv

(* Leaving one. *)
LEMMA ExitWalk ==
  ASSUME SInv, BindsInv, scope_exit, UNCHANGED program,
         NEW c, Reaches(c, todo), Agreed(c)
  PROVE  WalkInv'
<1>0. TypesInv
  BY DEF SInv
<1>1. /\ Len(todo) >= 2 /\ todo[Len(todo)] = <<>>
      /\ todo' \in Seq(Seq(AnyCall)) /\ Len(todo') = Len(todo) - 1
      /\ \A i \in 1 .. Len(todo) - 1 : todo'[i] = todo[i]
  BY ExitFacts
<1>2. PICK e \in Event : e = Exit /\ e.ev = "exit"
  BY EventsTyped DEF Exit
<1>3. PICK n \in Nat : n # 0 /\ n + 1 = Len(todo) /\ n = Len(todo) - 1
  <2>1. Len(todo) \in Nat
    BY <1>0, LevelFacts
  <2>2. Len(todo) - 1 \in Nat /\ Len(todo) - 1 # 0 /\ (Len(todo) - 1) + 1 = Len(todo)
    BY <1>1, <2>1
  <2> QED
    BY <2>2
<1>4. Reaches(c \o <<e>>, todo)'
  <2>1. PICK lists \in Seq(Seq(AnyCall)) : lists = todo
    BY <1>0 DEF TypesInv
  <2>2. PICK other \in Seq(Seq(AnyCall)) : other = todo'
    BY <1>1
  <2>3. SameBelow(other, lists, n)
    BY <1>1, <1>3, <2>1, <2>2 DEF SameBelow
  <2>4. /\ n + 1 = Len(lists) /\ lists[n + 1] = <<>> /\ Len(other) = n
        /\ Reaches(c, lists)
    BY <1>1, <1>3, <2>1, <2>2
  <2>5. Reaches(c \o <<Exit>>, other)
    BY <1>3, <2>3, <2>4, ReachesExit
  <2> QED
    BY <1>2, <2>2, <2>5, ReachesPrimed
<1>5. PICK t : t = c \o <<e>>
  OBVIOUS
<1>6. Longer(t, c, e)
  BY <1>5, ReachedText, LongerExists
<1>7. BindsInv' /\ (Pending' <=> Pending)
  BY BindsExit
<1>8. UNCHANGED <<symbols, resolve_err, resolved>>
  BY DEF scope_exit
<1>9. DepthInv(c) /\ ResolvedInv(c) /\ ErrorsInv(c) /\ Len(scopes) = n + 1
  BY <1>0, <1>3, LevelFacts DEF Agreed
<1>10. SymbolsInv(t)' /\ DepthInv(t)' /\ TablesInv(t)' /\ FlagsInv(t)' /\ CrashInv(t)
  <2>1. /\ Len(scopes') = n
        /\ \A i \in 1 .. n : scopes'[i].table = scopes[i].table
    <3>1. /\ Len(scopes') = Len(scopes) - 1
          /\ \A i \in 1 .. Len(scopes) - 1 : scopes'[i].table = scopes[i].table
      BY ExitScopes
    <3> QED
      BY <1>9, <3>1
  <2>2. Len(scopes') \in Nat \ {0} /\ Depth(t, Len(c) + 1) = Len(scopes') - 1
    <3>1. Depth(t, Len(c) + 1) = Depth(c, Len(c)) - 1
      BY <1>2, <1>6, NextDepth
    <3> QED
      BY <1>3, <1>9, <2>1, <3>1 DEF DepthInv
  <2>3. \A i \in 1 .. Len(scopes') : \A name \in Names :
          scopes'[i].table[name]
            = IF i <= Len(scopes) THEN scopes[i].table[name] ELSE NULL
    <3>1. \A i \in 1 .. Len(scopes') : i \in 1 .. n /\ i <= Len(scopes)
      BY <1>9, <2>1
    <3> QED
      BY <2>1, <3>1
  <2>4. e.ev # "declare"
    BY <1>2
  <2> QED
    BY <1>0, <1>6, <1>7, <1>8, <2>2, <2>3, <2>4, QuietNext
<1>11. ResolvedInv(t)'
  <2>1. e.ev # "use"
    BY <1>2
  <2> QED
    BY <1>6, <1>8, <1>9, <2>1, ResolvedNext
<1>12. ErrorsInv(t)'
  BY <1>2, <1>6, <1>8, <1>9, ErrorsNext
<1>13. Agreed(t)'
  BY <1>10, <1>11, <1>12 DEF Agreed, CrashInv
<1> QED
  BY <1>4, <1>5, <1>7, <1>13 DEF WalkInv

(* A symbol's entry is replaced by one of the same type. *)
LEMMA EntryPut ==
  ASSUME NEW old \in Seq(SymbolRecord), NEW s \in DOMAIN old,
         NEW r \in SymbolRecord, r.type = old[s].type,
         NEW new, new = [old EXCEPT ![s] = r]
  PROVE  /\ new \in Seq(SymbolRecord) /\ Len(new) = Len(old) /\ DOMAIN new = DOMAIN old
         /\ new[s] = r /\ \A i \in DOMAIN old : new[i].type = old[i].type
         /\ \A i \in DOMAIN old : i # s => new[i].prototype = old[i].prototype
<1>1. /\ new \in Seq(SymbolRecord) /\ Len(new) = Len(old)
      /\ DOMAIN new = DOMAIN old /\ new[s] = r
      /\ \A i \in DOMAIN old : i # s => new[i] = old[i]
  BY ChangeEntry
<1> QED
  BY <1>1

(* The slot, the total and the flag of an entry are set. *)
LEMMA SlotPut ==
  ASSUME NEW old \in Seq(SymbolRecord), NEW s \in DOMAIN old, NEW w \in Nat,
         NEW new, new = [old EXCEPT ![s].which = w]
  PROVE  /\ new \in Seq(SymbolRecord) /\ Len(new) = Len(old) /\ DOMAIN new = DOMAIN old
         /\ \A i \in DOMAIN old : new[i].type = old[i].type
         /\ \A i \in DOMAIN old : new[i].prototype = old[i].prototype
<1>1. old[s] \in SymbolRecord
  OBVIOUS
<1>2. PICK r : r = [old[s] EXCEPT !.which = w]
  OBVIOUS
<1>3. r \in SymbolRecord /\ r.type = old[s].type /\ r.prototype = old[s].prototype
  BY <1>1, <1>2 DEF SymbolRecord
<1>4. new = [old EXCEPT ![s] = r]
  BY <1>2
<1>5. /\ new \in Seq(SymbolRecord) /\ Len(new) = Len(old) /\ DOMAIN new = DOMAIN old
      /\ new[s] = r /\ \A i \in DOMAIN old : new[i].type = old[i].type
      /\ \A i \in DOMAIN old : i # s => new[i].prototype = old[i].prototype
  BY <1>3, <1>4, EntryPut
<1> QED
  BY <1>3, <1>5

(* The total of an entry is set: its type and its flag stay. *)
LEMMA TotalPut ==
  ASSUME NEW old \in Seq(SymbolRecord), NEW s \in DOMAIN old, NEW w \in Nat,
         NEW new, new = [old EXCEPT ![s].total = w]
  PROVE  /\ Len(new) = Len(old)
         /\ \A i \in DOMAIN old : new[i].type = old[i].type
         /\ \A i \in DOMAIN old : new[i].prototype = old[i].prototype
<1>1. old[s] \in SymbolRecord
  OBVIOUS
<1>2. PICK r : r = [old[s] EXCEPT !.total = w]
  OBVIOUS
<1>3. r \in SymbolRecord /\ r.type = old[s].type /\ r.prototype = old[s].prototype
  BY <1>1, <1>2 DEF SymbolRecord
<1>4. new = [old EXCEPT ![s] = r]
  BY <1>2
<1>5. /\ new \in Seq(SymbolRecord) /\ Len(new) = Len(old) /\ DOMAIN new = DOMAIN old
      /\ new[s] = r /\ \A i \in DOMAIN old : new[i].type = old[i].type
      /\ \A i \in DOMAIN old : i # s => new[i].prototype = old[i].prototype
  BY <1>3, <1>4, EntryPut
<1> QED
  BY <1>3, <1>5

(* The flag of an entry is set: its type and all other entries' flags      *)
(* stay.                                                                   *)
LEMMA FlagPut ==
  ASSUME NEW old \in Seq(SymbolRecord), NEW s \in DOMAIN old, NEW f \in BOOLEAN,
         NEW new, new = [old EXCEPT ![s].prototype = f]
  PROVE  /\ new \in Seq(SymbolRecord) /\ Len(new) = Len(old) /\ DOMAIN new = DOMAIN old
         /\ new[s].prototype = f /\ \A i \in DOMAIN old : new[i].type = old[i].type
         /\ \A i \in DOMAIN old : i # s => new[i].prototype = old[i].prototype
<1>1. old[s] \in SymbolRecord
  OBVIOUS
<1>2. PICK r : r = [old[s] EXCEPT !.prototype = f]
  OBVIOUS
<1>3. r \in SymbolRecord
  BY <1>1, <1>2 DEF SymbolRecord
<1>4. r.type = old[s].type /\ r.prototype = f
  BY <1>1, <1>2 DEF SymbolRecord
<1>5. PICK z : z = [old EXCEPT ![s] = r]
  OBVIOUS
<1>6. new = z
  BY <1>2, <1>5
<1>7. r.type = old[s].type
  BY <1>4
<1>8. /\ z \in Seq(SymbolRecord) /\ Len(z) = Len(old) /\ DOMAIN z = DOMAIN old
      /\ z[s] = r /\ \A i \in DOMAIN old : z[i].type = old[i].type
      /\ \A i \in DOMAIN old : i # s => z[i].prototype = old[i].prototype
  BY <1>3, <1>5, <1>7, EntryPut
<1> QED
  BY <1>4, <1>6, <1>8

(* Calls of which none binds anything. *)
LEMMA Binding0 ==
  ASSUME TypesInv, BindsInv, Calls # <<>>, Call.do # "use",
         NEW new \in Seq(AnyCall), Replace(new), InnerUnbinding(new), Unbinding(new)
  PROVE  BindsInv' /\ ~ Pending'
<1>1. BoundNext(new)'
  BY DEF BoundNext, Unbinding
<1> QED
  BY <1>1, BindsReplace

(* None at all. *)
LEMMA BindsDrop ==
  ASSUME TypesInv, BindsInv, Calls # <<>>, Call.do # "use", Replace(<<>>)
  PROVE  BindsInv' /\ ~ Pending'
<1>1. PICK new \in Seq(AnyCall) : new = <<>>
  BY EmptyCalls
<1>2. InnerUnbinding(new) /\ Unbinding(new) /\ Replace(new)
  BY <1>1 DEF InnerUnbinding, Unbinding
<1> QED
  BY <1>2, Binding0

(* stmt_resolve goes through nothing itself. *)
LEMMA StmtWalk ==
  ASSUME SInv, BindsInv, stmt_resolve, UNCHANGED program,
         NEW c, Reaches(c, todo), Agreed(c)
  PROVE  WalkInv'
<1>0. TypesInv
  BY DEF SInv
<1>1. /\ Calls # <<>> /\ Call.do = "stmt" /\ Replace(StmtCalls(Call.arg))
      /\ UNCHANGED <<scopes, symbols, resolve_err, resolved>>
  BY DEF stmt_resolve, Ready
<1>2. PICK s \in Stmts : s = Call.arg
  BY <1>0, <1>1, CallFacts, CallArgument
<1>3. PICK new \in Seq(AnyCall) :
        new = StmtCalls(s) /\ \A i \in DOMAIN new : Ordinary(new[i])
  BY StmtCallsFacts
<1>4. InnerUnbinding(new) /\ Unbinding(new) /\ Replace(new)
  BY <1>1, <1>2, <1>3 DEF InnerUnbinding, Unbinding, Ordinary
<1>5. BindsInv' /\ ~ Pending'
  BY <1>0, <1>1, <1>4, Binding0
<1>6. ~ Pending
  BY <1>0, <1>1, NothingPends
<1>7. CallText(Call) = TextOf(new)
  BY <1>0, <1>1, <1>2, <1>3, HeadText, TextStmtCalls
<1>8. Reaches(c, todo)'
  BY <1>0, <1>1, <1>4, <1>7, WalkSilent
<1>9. Agreed(c)'
  <2>1. Len(symbols) = Count(c, Len(c), "declare") + 0
    BY <1>6 DEF Agreed, SymbolsInv
  <2>2. Len(symbols') = Count(c, Len(c), "declare") + (IF Pending' THEN 1 ELSE 0)
    BY <1>1, <1>5, <2>1
  <2>3. c \in Seq(Event)
    BY DEF Reaches
  <2> QED
    BY <1>1, <2>2, <2>3, AgreedSame
<1> QED
  BY <1>5, <1>8, <1>9 DEF WalkInv

(* Nor does the total of a function. *)
LEMMA TotalWalk ==
  ASSUME SInv, BindsInv, SetTotal, UNCHANGED program,
         NEW c, Reaches(c, todo), Agreed(c)
  PROVE  WalkInv'
<1>0. TypesInv
  BY DEF SInv
<1>1. /\ Calls # <<>> /\ Call.do = "total" /\ Replace(<<>>)
      /\ UNCHANGED <<scopes, resolve_err, resolved>>
  BY DEF SetTotal, Ready
<1>2. PICK new \in Seq(AnyCall) : new = <<>>
  BY EmptyCalls
<1>3. Replace(new) /\ CallText(Call) = TextOf(new)
  BY <1>0, <1>1, <1>2, HeadText, TextNone
<1>4. BindsInv' /\ ~ Pending'
  BY <1>0, <1>1, BindsDrop
<1>5. ~ Pending
  BY <1>0, <1>1, NothingPends
<1>6. Reaches(c, todo)'
  BY <1>0, <1>1, <1>3, WalkSilent
<1>7. PICK s \in DOMAIN symbols : s = Call.arg.symbol
  BY TotalEffect
<1>8. PICK w \in Nat : w = Top.num_vars
  BY <1>0, LevelFacts
<1>9. /\ Len(symbols') = Len(symbols)
      /\ \A i \in DOMAIN symbols : symbols'[i].type = symbols[i].type
      /\ \A i \in DOMAIN symbols : symbols'[i].prototype = symbols[i].prototype
  <2>1. symbols \in Seq(SymbolRecord)
    BY <1>0 DEF TypesInv
  <2>2. symbols' = [symbols EXCEPT ![s].total = w]
    BY <1>7, <1>8 DEF SetTotal
  <2>3. PICK q : q = [symbols EXCEPT ![s].total = w]
    OBVIOUS
  <2>4. /\ Len(q) = Len(symbols)
        /\ \A i \in DOMAIN symbols : q[i].type = symbols[i].type
        /\ \A i \in DOMAIN symbols : q[i].prototype = symbols[i].prototype
    BY <2>1, <2>3, TotalPut
  <2> QED
    BY <2>2, <2>3, <2>4
<1>10. Agreed(c)'
  <2>1. Len(symbols) = Count(c, Len(c), "declare") + 0
    BY <1>5 DEF Agreed, SymbolsInv
  <2>2. c \in Seq(Event) /\ Count(c, Len(c), "declare") \in Nat
    BY ReachedText, CountTyped
  <2>3. DOMAIN symbols = 1 .. Count(c, Len(c), "declare")
    BY <1>0, <2>1, <2>2, LevelFacts
  <2>4. Len(symbols') = Count(c, Len(c), "declare") + (IF Pending' THEN 1 ELSE 0)
    BY <1>4, <1>9, <2>1
  <2> QED
    BY <1>1, <1>9, <2>2, <2>3, <2>4, AgreedSame
<1> QED
  BY <1>4, <1>6, <1>10 DEF WalkInv

(* decl_resolve goes through nothing until it has made the symbol, which   *)
(* then waits to be bound.                                                 *)
LEMMA CreateWalk ==
  ASSUME SInv, BindsInv, CreateSymbol, UNCHANGED program,
         NEW c, Reaches(c, todo), Agreed(c)
  PROVE  WalkInv'
<1>0. TypesInv
  BY DEF SInv
<1>1. Calls # <<>> /\ Call.do = "decl" /\ UNCHANGED <<scopes, resolve_err, resolved>>
  BY DEF CreateSymbol, Ready
<1>2. PICK d \in Decls : d = Call.arg
  BY <1>0, <1>1, CallFacts, CallArgument
<1>3. PICK s \in Nat : s = Len(symbols) + 1
  BY <1>0, LevelFacts
<1>4. PICK new \in Seq(AnyCall), u \in Nat :
        /\ new = DeclCalls(d, s) /\ Len(new) = u + 1
        /\ \A i \in 1 .. u : new[i].do = "use"
        /\ new[u + 1] = Do("bind", [decl |-> d, symbol |-> s])
  BY DeclCallsFacts
<1>5. Replace(new)
  BY <1>2, <1>3, <1>4 DEF CreateSymbol
<1>6. /\ Len(symbols') = s /\ symbols'[s].type = d.type
      /\ \A i \in DOMAIN symbols : symbols'[i] = symbols[i]
  <2>1. PICK kind \in {"GLOBAL", "LOCAL"} : kind = IF scope_level > 1 THEN "LOCAL" ELSE "GLOBAL"
    OBVIOUS
  <2>2. d.name \in Names
    BY SourcesAssumption
  <2>3. PICK r \in SymbolRecord : r = symbol_create(kind, d.name, d.type)
    BY <2>1, <2>2, CreatedTyped
  <2>4. symbols' = Append(symbols, r)
    BY <1>2, <2>1, <2>3 DEF CreateSymbol
  <2>5. /\ Len(symbols') = Len(symbols) + 1 /\ symbols'[Len(symbols) + 1] = r
        /\ \A i \in DOMAIN symbols : symbols'[i] = symbols[i]
    BY <1>0, <2>4, AddSymbol
  <2>6. r.type = d.type
    BY <2>3 DEF symbol_create
  <2> QED
    BY <1>3, <2>5, <2>6
<1>7. DOMAIN new = 1 .. u + 1 /\ \A k \in 1 .. u + 1 : k \in 1 .. u \/ k = u + 1
  BY <1>4
<1>8. new[u + 1].do = "bind" /\ new[u + 1].arg = [decl |-> d, symbol |-> s]
  BY <1>4, DoFields
<1>9. InnerUnbinding(new)
  <2>1. \A k \in DOMAIN new : new[k].do # "scope"
    BY <1>4, <1>7, <1>8
  <2> QED
    BY <2>1 DEF InnerUnbinding
<1>10. ~ Unbinding(new)
  <2>1. u + 1 \in DOMAIN new
    BY <1>7
  <2> QED
    BY <1>8, <2>1 DEF Unbinding
<1>11. BoundNext(new)'
  <2>1. SUFFICES ASSUME NEW k \in DOMAIN new, new[k].do = "bind"
                 PROVE  /\ new[k].arg.symbol = Len(symbols')
                        /\ symbols'[Len(symbols')].type = new[k].arg.decl.type
                        /\ \A m \in 1 .. k - 1 : new[m].do = "use"
    BY DEF BoundNext
  <2>2. k = u + 1
    BY <1>4, <1>7, <2>1
  <2>3. \A m \in 1 .. k - 1 : m \in 1 .. u
    BY <2>2
  <2> QED
    BY <1>4, <1>6, <1>8, <2>2, <2>3
<1>12. BindsInv' /\ Pending'
  <2>1. Call.do # "use"
    BY <1>1
  <2> QED
    BY <1>0, <1>1, <1>5, <1>9, <1>10, <1>11, <2>1, BindsReplace
<1>13. ~ Pending
  BY <1>0, <1>1, NothingPends
<1>14. Reaches(c, todo)'
  <2>1. CallText(Call) = TextOf(new)
    BY <1>0, <1>1, <1>2, <1>4, HeadText, TextDeclCalls
  <2> QED
    BY <1>0, <1>1, <1>5, <2>1, WalkSilent
<1>15. Agreed(c)'
  <2>1. Len(symbols) = Count(c, Len(c), "declare") + 0
    BY <1>13 DEF Agreed, SymbolsInv
  <2>2. c \in Seq(Event) /\ Count(c, Len(c), "declare") \in Nat
    BY ReachedText, CountTyped
  <2>3. DOMAIN symbols = 1 .. Count(c, Len(c), "declare")
    BY <1>0, <2>1, <2>2, LevelFacts
  <2>4. Len(symbols') = Count(c, Len(c), "declare") + (IF Pending' THEN 1 ELSE 0)
    BY <1>3, <1>6, <1>12, <2>1, <2>2
  <2>5. \A i \in 1 .. Count(c, Len(c), "declare") :
          /\ symbols'[i].type = symbols[i].type
          /\ symbols'[i].prototype = symbols[i].prototype
    BY <1>6, <2>3
  <2> QED
    BY <1>1, <2>2, <2>4, <2>5, AgreedSame
<1> QED
  BY <1>12, <1>14, <1>15 DEF WalkInv

(* param_list_resolve goes through the declaration of a parameter. *)
LEMMA ParamWalk ==
  ASSUME SInv, BindsInv, param_list_resolve, UNCHANGED program,
         NEW c, Reaches(c, todo), Agreed(c)
  PROVE  WalkInv'
<1>0. TypesInv
  BY DEF SInv
<1>1. Calls # <<>> /\ Call.do = "param" /\ Replace(<<>>) /\ UNCHANGED resolved
  BY DEF param_list_resolve, Ready
<1>2. PICK name \in Names : name = Call.arg
  BY <1>0, <1>1, CallFacts, CallArgument
<1>3. PICK e \in Event :
        /\ e = Parameter(name) /\ e.ev = "declare" /\ e.name = name
        /\ e.type = ParamType /\ e.code = FALSE
  BY EventsTyped DEF Parameter
<1>4. ~ e.type.fun /\ ~ Defines(e)
  BY <1>3 DEF ParamType, Defines
<1>5. PICK new \in Seq(AnyCall) : new = <<>>
  BY EmptyCalls
<1>6. CallText(Call) = <<e>> \o TextOf(new)
  <2>1. CallText(Call) = <<e>>
    BY <1>0, <1>1, <1>2, <1>3, HeadText
  <2>2. TextOf(new) = <<>>
    BY <1>5, TextNone
  <2>3. <<e>> \in Seq(Event)
    OBVIOUS
  <2>4. <<e>> \o <<>> = <<e>>
    BY <2>3, ConcatEmptySeq
  <2> QED
    BY <2>1, <2>2, <2>4
<1>7. PICK t : Reaches(t, todo)' /\ Longer(t, c, e)
  BY <1>0, <1>1, <1>5, <1>6, WalkEvent
<1>8. BindsInv' /\ ~ Pending'
  BY <1>0, <1>1, BindsDrop
<1>9. ~ Pending
  BY <1>0, <1>1, NothingPends
<1>10. PICK s \in Nat : s = Len(symbols) + 1
  BY <1>0, LevelFacts
<1>11. PICK r \in SymbolRecord :
         /\ symbols' = Append(symbols, r) /\ r.type = ParamType /\ r.prototype = FALSE
         /\ \/ /\ scope_lookup_current(name) = NULL
               /\ scopes' = Bound(name, s) /\ UNCHANGED resolve_err
            \/ /\ scope_lookup_current(name) # NULL
               /\ resolve_err' = TRUE /\ UNCHANGED scopes
  <2>1. PICK p \in SymbolRecord : p = symbol_create("PARAM", name, ParamType)
    BY CreatedTyped
  <2>2. p.type = ParamType /\ p.prototype = FALSE
    BY <2>1 DEF symbol_create
  <2>3. PICK w \in Nat : w = Top.num_vars
    BY <1>0, LevelFacts
  <2>4. PICK r \in SymbolRecord :
          r = [p EXCEPT !.which = w] /\ r.type = p.type /\ r.prototype = p.prototype
    <3>1. [p EXCEPT !.which = w] \in SymbolRecord
      BY DEF SymbolRecord
    <3>2. /\ [p EXCEPT !.which = w].type = p.type
          /\ [p EXCEPT !.which = w].prototype = p.prototype
      BY DEF SymbolRecord
    <3> QED
      BY <3>1, <3>2
  <2>5. \/ /\ scope_lookup_current(name) = NULL /\ symbols' = Append(symbols, r)
           /\ scopes' = Bound(name, s) /\ UNCHANGED resolve_err
        \/ /\ scope_lookup_current(name) # NULL /\ symbols' = Append(symbols, p)
           /\ resolve_err' = TRUE /\ UNCHANGED scopes
    BY <1>2, <1>10, <2>1, <2>3, <2>4 DEF param_list_resolve
  <2> QED
    BY <2>2, <2>4, <2>5
<1>12. /\ Len(symbols') = s /\ symbols'[s] = r
       /\ \A i \in DOMAIN symbols : symbols'[i] = symbols[i]
  BY <1>0, <1>10, <1>11, AddSymbol
<1>13. /\ s = Count(t, Len(c) + 1, "declare")
       /\ DOMAIN symbols = 1 .. Count(c, Len(c), "declare")
  <2>1. Len(symbols) = Count(c, Len(c), "declare") + 0
    BY <1>9 DEF Agreed, SymbolsInv
  <2>2. /\ Count(c, Len(c), "declare") \in Nat
        /\ Count(t, Len(c) + 1, "declare") = Count(c, Len(c), "declare") + 1
    BY <1>3, <1>7, NumberNext
  <2> QED
    BY <1>0, <1>10, <2>1, <2>2, LevelFacts
<1>14. \A i \in 1 .. Count(c, Len(c), "declare") :
         /\ symbols'[i].type = symbols[i].type
         /\ symbols'[i].prototype = symbols[i].prototype
  BY <1>12, <1>13
<1>15. symbols'[s].type = e.type /\ (symbols'[s].prototype <=> e.type.fun /\ ~ e.code)
  BY <1>3, <1>4, <1>11, <1>12
<1>16. CASE /\ scope_lookup_current(name) = NULL
            /\ scopes' = Bound(name, s) /\ UNCHANGED resolve_err
  <2>1. Agreed(t)'
    BY <1>0, <1>1, <1>3, <1>7, <1>8, <1>12, <1>13, <1>14, <1>15, <1>16, DeclareNew
  <2> QED
    BY <1>7, <1>8, <2>1 DEF WalkInv
<1>17. CASE /\ scope_lookup_current(name) # NULL
            /\ resolve_err' = TRUE /\ UNCHANGED scopes
  <2>1. PICK tmp \in DOMAIN symbols : tmp = scope_lookup_current(name)
    BY <1>17, LookupCurrent DEF Global, Deep
  <2>2. tmp = scope_lookup_current(e.name) /\ tmp # NULL /\ e.name \in Names
    BY <1>3, <1>17, <2>1
  <2>3. \A i \in 1 .. Count(c, Len(c), "declare") :
          /\ symbols'[i].type = symbols[i].type
          /\ i # tmp => symbols'[i].prototype = symbols[i].prototype
    BY <1>14
  <2>4. symbols'[tmp].prototype <=> symbols[tmp].prototype /\ ~ Defines(e)
    BY <1>4, <1>12, <2>1
  <2>5. resolve_err' <=>
          \/ resolve_err \/ ~ e.type.fun \/ symbols[tmp].type # e.type
          \/ Defines(e) /\ ~ symbols[tmp].prototype
    BY <1>4, <1>17
  <2>6. /\ Len(symbols') = Count(t, Len(c) + 1, "declare")
        /\ symbols'[Count(t, Len(c) + 1, "declare")].type = e.type
    BY <1>12, <1>13, <1>15
  <2>7. UNCHANGED <<scopes, resolved>>
    BY <1>1, <1>17
  <2>8. Agreed(t)'
    BY <1>0, <1>3, <1>4, <1>7, <1>8, <2>2, <2>3, <2>4, <2>5, <2>6, <2>7, DeclareAgain
  <2> QED
    BY <1>7, <1>8, <2>8 DEF WalkInv
<1> QED
  BY <1>11, <1>16, <1>17

(***************************************************************************)
(* Binding, as new or again, goes through the declaration of the name.     *)
(***************************************************************************)

(* A function's calls are one scope, in which nothing is bound yet. *)
LEMMA FunctionUnbinding ==
  ASSUME NEW d \in Decls, NEW s \in Nat, NEW tmp \in Nat
  PROVE  /\ InnerUnbinding(FunctionCalls(d, s, tmp))
         /\ Unbinding(FunctionCalls(d, s, tmp))
<1>1. CASE FunctionCalls(d, s, tmp) = <<>>
  BY <1>1 DEF InnerUnbinding, Unbinding
<1>2. ASSUME NEW body \in Seq(Flat), FunctionCalls(d, s, tmp) = <<Inside(body)>>,
             FunctionScope(body, d, s, Target(d, s, tmp))
      PROVE  /\ InnerUnbinding(FunctionCalls(d, s, tmp))
             /\ Unbinding(FunctionCalls(d, s, tmp))
  <2>1. Unbinding(body)
    <3>1. DOMAIN body = 1 .. Len(body) /\ Len(body) \in Nat
      OBVIOUS
    <3>2. \A k \in 1 .. Len(body) : k \in 1 .. Len(body) - 1 \/ k = Len(body)
      <4>1. PICK n \in Nat : n = Len(body)
        BY <3>1
      <4>2. \A k \in 1 .. n : k \in 1 .. n - 1 \/ k = n
        OBVIOUS
      <4> QED
        BY <4>1, <4>2
    <3>3. \A k \in 1 .. Len(body) : body[k].do \in {"param", "stmt", "total"}
      BY <1>2, <3>2 DEF FunctionScope
    <3> QED
      BY <3>1, <3>3 DEF Unbinding
  <2>2. PICK call : call = Inside(body) /\ call.do = "scope" /\ call.arg = body
    BY InsideCall
  <2>3. \A k \in DOMAIN <<call>> : <<call>>[k] = call
    OBVIOUS
  <2>4. PICK new : new = <<call>> /\ \A k \in DOMAIN new : new[k] = call
    BY <2>3
  <2>5. InnerUnbinding(new) /\ Unbinding(new)
    BY <2>1, <2>2, <2>4 DEF InnerUnbinding, Unbinding
  <2> QED
    BY <1>2, <2>2, <2>4, <2>5
<1> QED
  BY <1>1, <1>2, FunctionCallsFacts

(* What decl_resolve has at hand when it binds a name. *)
BindAt(d, s, e) ==
  /\ d = Call.arg.decl /\ s = Call.arg.symbol /\ d.name \in Names
  /\ s \in DOMAIN symbols /\ s = Len(symbols) /\ symbols[s].type = d.type
  /\ e = Declare(d) /\ e.ev = "declare" /\ e.name = d.name /\ e.type = d.type
  /\ e.code \in BOOLEAN /\ e.type.fun \in BOOLEAN
  /\ IsPrototype(d) <=> e.type.fun /\ ~ e.code
  /\ Defines(e) <=> d.type.fun /\ ~ IsPrototype(d)

(* Whenever a declaration is bound, its symbol is the last one created. *)
LEMMA BindWalkFacts ==
  ASSUME SInv, BindsInv, Calls # <<>>, Call.do = "bind"
  PROVE  \E d \in Decls, s \in Nat, e \in Event : BindAt(d, s, e)
<1>0. TypesInv
  BY DEF SInv
<1>1. PICK d \in Decls, s \in Nat :
           /\ d = Call.arg.decl /\ s = Call.arg.symbol /\ d.name \in Names
           /\ s \in DOMAIN symbols
  BY BindFacts
<1>2. s = Len(symbols) /\ symbols[s].type = d.type
  <2>1. 1 \in DOMAIN Calls /\ Call = Calls[1]
    BY <1>0, CallFacts
  <2> QED
    BY <1>1, <2>1 DEF BindsInv, BoundNext
<1>3. PICK e \in Event :
        /\ e = Declare(d) /\ e.ev = "declare" /\ e.name = d.name /\ e.type = d.type
        /\ e.code <=> d.code # <<>>
  BY EventsTyped DEF Declare
<1>4. e.type.fun \in BOOLEAN /\ e.code \in BOOLEAN
  BY <1>3, EventFacts
<1>5. IsPrototype(d) <=> e.type.fun /\ ~ e.code
  BY <1>3 DEF IsPrototype
<1>6. Defines(e) <=> d.type.fun /\ ~ IsPrototype(d)
  BY <1>3, <1>5 DEF Defines
<1> QED
  BY <1>1, <1>2, <1>3, <1>4, <1>5, <1>6 DEF BindAt

(* What decl_resolve looks at before it calls type_equals is in the event. *)
LEMMA CrashesIs ==
  ASSUME NEW d, NEW s, NEW e, BindAt(d, s, e), NEW tmp
  PROVE  Crashes(d, tmp) <=>
           /\ e.type.fun /\ (~ e.code \/ symbols[tmp].prototype)
           /\ Stuck(symbols[tmp].type.sig, e.type.sig)
<1>1. e.type = d.type /\ (IsPrototype(d) <=> e.type.fun /\ ~ e.code)
  BY DEF BindAt
<1> QED
  BY Zenon, <1>1 DEF Crashes, Compares

(* The event of a binding, whatever the name meant before. *)
LEMMA BindWalk ==
  ASSUME SInv, BindsInv, Calls # <<>>, Call.do = "bind", UNCHANGED program,
         NEW c, Reaches(c, todo), Agreed(c),
         NEW d \in Decls, NEW s \in Nat, NEW e \in Event, BindAt(d, s, e),
         NEW tmp \in Nat, Replace(FunctionCalls(d, s, tmp))
  PROVE  /\ BindsInv' /\ ~ Pending'
         /\ \E t : /\ Reaches(t, todo)' /\ Longer(t, c, e)
                   /\ s = Count(t, Len(c) + 1, "declare")
         /\ \A i \in 1 .. Count(c, Len(c), "declare") : i \in DOMAIN symbols /\ i # s
<1>0. TypesInv
  BY DEF SInv
<1>1. PICK new \in Seq(AnyCall) :
        new = FunctionCalls(d, s, tmp) /\ TextOf(new) = FunctionText(d)
  BY TextFunctionCalls
<1>2. Replace(new) /\ InnerUnbinding(new) /\ Unbinding(new) /\ Call.do # "use"
  BY <1>1, FunctionUnbinding
<1>3. BindsInv' /\ ~ Pending'
  BY <1>0, <1>2, Binding0
<1>4. CallText(Call) = <<e>> \o TextOf(new)
  <2>1. d = Call.arg.decl /\ e = Declare(d)
    BY DEF BindAt
  <2> QED
    BY <1>0, <1>1, <2>1, HeadText
<1>5. PICK t : Reaches(t, todo)' /\ Longer(t, c, e)
  BY <1>0, <1>2, <1>4, WalkEvent
<1>6. Pending
  BY <1>0, <1>2, NothingPends
<1>7. s = Len(symbols) /\ e.ev = "declare"
  BY DEF BindAt
<1>8. Len(symbols) = Count(c, Len(c), "declare") + 1
  BY <1>6 DEF Agreed, SymbolsInv
<1>9. /\ Count(c, Len(c), "declare") \in Nat
      /\ Count(t, Len(c) + 1, "declare") = Count(c, Len(c), "declare") + 1
  BY <1>5, <1>7, NumberNext
<1>10. DOMAIN symbols = 1 .. Len(symbols)
  BY <1>0, LevelFacts
<1>11. \A i \in 1 .. Count(c, Len(c), "declare") : i \in DOMAIN symbols /\ i # s
  BY <1>7, <1>8, <1>9, <1>10
<1> QED
  BY <1>3, <1>5, <1>7, <1>8, <1>9, <1>11

(* A name that is new in its scope. *)
LEMMA BindNewWalk ==
  ASSUME SInv, BindsInv, BindNew, UNCHANGED program,
         NEW c, Reaches(c, todo), Agreed(c)
  PROVE  WalkInv'
<1>0. TypesInv
  BY DEF SInv
<1>1. Calls # <<>> /\ Call.do = "bind" /\ UNCHANGED <<resolve_err, resolved>>
  BY DEF BindNew, Ready
<1>2. PICK d \in Decls, s \in Nat, e \in Event : BindAt(d, s, e)
  BY <1>1, BindWalkFacts
<1>3. /\ d = Call.arg.decl /\ s = Call.arg.symbol
      /\ s \in DOMAIN symbols /\ s = Len(symbols) /\ symbols[s].type = d.type
      /\ e.ev = "declare" /\ e.name = d.name /\ e.type = d.type /\ e.name \in Names
      /\ IsPrototype(d) <=> e.type.fun /\ ~ e.code
  BY <1>2 DEF BindAt
<1>4. PICK tmp \in Nat : tmp = NULL
  BY DEF NULL
<1>5. /\ scope_lookup_current(e.name) = NULL /\ scopes' = Bound(e.name, s)
      /\ Replace(FunctionCalls(d, s, tmp))
  BY <1>3, <1>4 DEF BindNew
<1>6. /\ Len(symbols') = Len(symbols)
      /\ symbols'[s].prototype = IsPrototype(d)
      /\ \A i \in DOMAIN symbols : symbols'[i].type = symbols[i].type
      /\ \A i \in DOMAIN symbols : i # s => symbols'[i].prototype = symbols[i].prototype
  <2>1. symbols \in Seq(SymbolRecord)
    BY <1>0 DEF TypesInv
  <2>2. PICK w \in Nat : w = Top.num_vars
    BY <1>0, LevelFacts
  <2>3. PICK f \in BOOLEAN : f = IsPrototype(d)
    BY FlagSet
  <2>4. PICK q : q = [symbols EXCEPT ![s].which = w]
    OBVIOUS
  <2>5. /\ q \in Seq(SymbolRecord) /\ Len(q) = Len(symbols) /\ DOMAIN q = DOMAIN symbols
        /\ \A i \in DOMAIN symbols : q[i].type = symbols[i].type
        /\ \A i \in DOMAIN symbols : q[i].prototype = symbols[i].prototype
    <3>1. w \in Nat
      BY <2>2
    <3>2. PICK old \in Seq(SymbolRecord) : old = symbols
      BY <2>1
    <3>3. s \in DOMAIN old /\ q = [old EXCEPT ![s].which = w]
      BY <1>3, <2>4, <3>2
    <3>4. /\ q \in Seq(SymbolRecord) /\ Len(q) = Len(old) /\ DOMAIN q = DOMAIN old
          /\ \A i \in DOMAIN old : q[i].type = old[i].type
          /\ \A i \in DOMAIN old : q[i].prototype = old[i].prototype
      BY <3>1, <3>2, <3>3, SlotPut
    <3> QED
      BY <3>2, <3>4
  <2>6. PICK z : z = [q EXCEPT ![s].prototype = f]
    OBVIOUS
  <2>7. /\ Len(z) = Len(q) /\ z[s].prototype = f
        /\ \A i \in DOMAIN q : z[i].type = q[i].type
        /\ \A i \in DOMAIN q : i # s => z[i].prototype = q[i].prototype
    <3>1. s \in DOMAIN q /\ q \in Seq(SymbolRecord)
      BY <1>3, <2>5
    <3> QED
      BY <2>3, <2>6, <3>1, FlagPut
  <2>8. symbols' = [symbols EXCEPT ![s].which = w, ![s].prototype = f]
    BY <1>3, <2>2, <2>3 DEF BindNew
  <2>9. symbols' = z
    BY <2>4, <2>6, <2>8
  <2> QED
    BY <2>3, <2>5, <2>7, <2>9
<1>7. /\ BindsInv' /\ ~ Pending'
      /\ \A i \in 1 .. Count(c, Len(c), "declare") : i \in DOMAIN symbols /\ i # s
  BY <1>1, <1>2, <1>5, BindWalk
<1>8. PICK t : /\ Reaches(t, todo)' /\ Longer(t, c, e)
               /\ s = Count(t, Len(c) + 1, "declare")
  BY <1>1, <1>2, <1>5, BindWalk
<1>9. Agreed(t)'
  <2>1. \A i \in 1 .. Count(c, Len(c), "declare") :
          /\ symbols'[i].type = symbols[i].type
          /\ symbols'[i].prototype = symbols[i].prototype
    BY <1>6, <1>7
  <2>2. /\ Len(symbols') = s /\ symbols'[s].type = e.type
        /\ symbols'[s].prototype <=> e.type.fun /\ ~ e.code
    BY <1>3, <1>6
  <2> QED
    BY <1>0, <1>1, <1>3, <1>5, <1>7, <1>8, <2>1, <2>2, DeclareNew
<1> QED
  BY <1>7, <1>8, <1>9 DEF WalkInv

(* A name that its scope has already. *)
LEMMA RedeclareWalk ==
  ASSUME SInv, BindsInv, Redeclare, UNCHANGED program,
         NEW c, Reaches(c, todo), Agreed(c)
  PROVE  WalkInv'
<1>0. TypesInv
  BY DEF SInv
<1>1. Calls # <<>> /\ Call.do = "bind" /\ UNCHANGED <<scopes, resolved>>
  BY DEF Redeclare, Ready
<1>2. PICK d \in Decls, s \in Nat, e \in Event : BindAt(d, s, e)
  BY <1>1, BindWalkFacts
<1>3. /\ d = Call.arg.decl /\ s = Call.arg.symbol
      /\ s \in DOMAIN symbols /\ s = Len(symbols) /\ symbols[s].type = d.type
      /\ e.ev = "declare" /\ e.name = d.name /\ e.type = d.type /\ e.name \in Names
      /\ Defines(e) <=> d.type.fun /\ ~ IsPrototype(d)
  BY <1>2 DEF BindAt
<1>4. PICK tmp \in Nat : tmp = scope_lookup_current(e.name)
  BY <1>3, LookupCurrent
<1>5. tmp # NULL
  BY <1>3, <1>4 DEF Redeclare
<1>6. tmp \in DOMAIN symbols
  BY <1>3, <1>4, <1>5, LookupCurrent DEF Global, Deep
<1>7. PICK h \in BOOLEAN :
        h = (symbols[tmp].prototype /\ ~ (d.type.fun /\ ~ IsPrototype(d)))
  OBVIOUS
<1>8. PICK f \in BOOLEAN : f = IsPrototype(d)
  BY FlagSet
<1>9. /\ Replace(FunctionCalls(d, s, tmp))
      /\ symbols' = [symbols EXCEPT ![s].prototype = f, ![tmp].prototype = h]
      /\ Fail(\/ ~ d.type.fun
              \/ symbols[tmp].type # d.type
              \/ (d.type.fun /\ ~ IsPrototype(d)) /\ ~ symbols[tmp].prototype)
  BY <1>3, <1>4, <1>7, <1>8 DEF Redeclare
<1>10. /\ Len(symbols') = Len(symbols) /\ symbols'[tmp].prototype = h
       /\ \A i \in DOMAIN symbols : symbols'[i].type = symbols[i].type
       /\ \A i \in DOMAIN symbols : i # s /\ i # tmp =>
            symbols'[i].prototype = symbols[i].prototype
  <2>1. symbols \in Seq(SymbolRecord)
    BY <1>0 DEF TypesInv
  <2>2. PICK q : q = [symbols EXCEPT ![s].prototype = f]
    OBVIOUS
  <2>3. /\ q \in Seq(SymbolRecord) /\ Len(q) = Len(symbols) /\ DOMAIN q = DOMAIN symbols
        /\ \A i \in DOMAIN symbols : q[i].type = symbols[i].type
        /\ \A i \in DOMAIN symbols : i # s => q[i].prototype = symbols[i].prototype
    <3>1. s \in DOMAIN symbols
      BY <1>3
    <3> QED
      BY <1>8, <2>1, <2>2, <3>1, FlagPut
  <2>4. PICK z : z = [q EXCEPT ![tmp].prototype = h]
    OBVIOUS
  <2>5. /\ Len(z) = Len(q) /\ z[tmp].prototype = h
        /\ \A i \in DOMAIN q : z[i].type = q[i].type
        /\ \A i \in DOMAIN q : i # tmp => z[i].prototype = q[i].prototype
    <3>1. tmp \in DOMAIN q /\ q \in Seq(SymbolRecord)
      BY <1>6, <2>3
    <3>2. h \in BOOLEAN
      BY <1>7
    <3>3. /\ z \in Seq(SymbolRecord) /\ Len(z) = Len(q) /\ DOMAIN z = DOMAIN q
          /\ z[tmp].prototype = h /\ \A i \in DOMAIN q : z[i].type = q[i].type
          /\ \A i \in DOMAIN q : i # tmp => z[i].prototype = q[i].prototype
      BY <2>4, <3>1, <3>2, FlagPut
    <3> QED
      BY <3>3
  <2>6. symbols' = z
    BY <1>9, <2>2, <2>4
  <2> QED
    BY <2>3, <2>5, <2>6
<1>11. /\ BindsInv' /\ ~ Pending'
       /\ \A i \in 1 .. Count(c, Len(c), "declare") : i \in DOMAIN symbols /\ i # s
  BY <1>1, <1>2, <1>9, BindWalk
<1>12. PICK t : /\ Reaches(t, todo)' /\ Longer(t, c, e)
                /\ s = Count(t, Len(c) + 1, "declare")
  BY <1>1, <1>2, <1>9, BindWalk
<1>13. Agreed(t)'
  <2>1. \A i \in 1 .. Count(c, Len(c), "declare") :
          /\ symbols'[i].type = symbols[i].type
          /\ i # tmp => symbols'[i].prototype = symbols[i].prototype
    BY <1>10, <1>11
  <2>2. symbols'[tmp].prototype <=> symbols[tmp].prototype /\ ~ Defines(e)
    <3>1. symbols'[tmp].prototype <=> h
      BY <1>10
    <3>2. h <=> symbols[tmp].prototype /\ ~ (d.type.fun /\ ~ IsPrototype(d))
      BY <1>7
    <3> QED
      BY <1>3, <3>1, <3>2
  <2>3. /\ Len(symbols') = Count(t, Len(c) + 1, "declare")
        /\ symbols'[Count(t, Len(c) + 1, "declare")].type = e.type
    BY <1>3, <1>10, <1>12
  <2>4. resolve_err' <=>
          \/ resolve_err \/ ~ e.type.fun \/ symbols[tmp].type # e.type
          \/ Defines(e) /\ ~ symbols[tmp].prototype
    <3>1. PICK b : b = (\/ ~ d.type.fun
                        \/ symbols[tmp].type # d.type
                        \/ (d.type.fun /\ ~ IsPrototype(d)) /\ ~ symbols[tmp].prototype)
      OBVIOUS
    <3>2. Fail(b)
      BY <1>9, <3>1
    <3>3. resolve_err' = (resolve_err \/ b)
      BY <3>2 DEF Fail
    <3>4. b <=> \/ ~ e.type.fun \/ symbols[tmp].type # e.type
                \/ Defines(e) /\ ~ symbols[tmp].prototype
      <4>1. e.type = d.type /\ (Defines(e) <=> d.type.fun /\ ~ IsPrototype(d))
        BY <1>3
      <4> QED
        BY Zenon, <3>1, <4>1
    <3> QED
      BY Zenon, <3>3, <3>4
  <2>5. e.type.fun /\ (~ e.code \/ symbols[tmp].prototype) =>
          ~ Stuck(symbols[tmp].type.sig, e.type.sig)
    <3>1. ~ Crashes(d, tmp)
      BY <1>3, <1>4 DEF Redeclare
    <3> QED
      BY <1>2, <3>1, CrashesIs
  <2> QED
    BY <1>0, <1>1, <1>3, <1>4, <1>5, <1>11, <1>12, <2>1, <2>2, <2>3, <2>4, <2>5,
       DeclareAgain
<1> QED
  BY <1>11, <1>12, <1>13 DEF WalkInv

(* Before the first declaration nothing is declared, used or in error. *)
LEMMA AgreedFirst ==
  ASSUME SInv, symbols = <<>>, scopes = <<EmptyScope(0)>>, resolved = <<>>,
         resolve_err = FALSE, ~ Pending
  PROVE  Agreed(<<>>)
<1>1. PICK c \in Seq(Event) : c = <<>> /\ Len(c) = 0 /\ DOMAIN c = {}
  <2>1. <<>> \in Seq(Event) /\ Len(<<>>) = 0 /\ DOMAIN <<>> = {}
    OBVIOUS
  <2> QED
    BY <2>1
<1>2. Count(c, 0, "declare") = 0 /\ Count(c, 0, "use") = 0 /\ Depth(c, 0) = 0
  BY CountTyped, DepthTyped
<1>3. Len(symbols) = 0 /\ Len(resolved) = 0 /\ Len(scopes) = 1
  <2>1. Len(<<>>) = 0 /\ Len(<<EmptyScope(0)>>) = 1
    OBVIOUS
  <2> QED
    BY <2>1
<1>4. \A k : k \notin 1 .. Len(c)
  BY <1>1
<1>5. SymbolsInv(c)
  BY <1>1, <1>2, <1>3, <1>4 DEF SymbolsInv
<1>6. DepthInv(c)
  <2>1. \A k \in 0 .. 0 : k = 0
    OBVIOUS
  <2> QED
    BY <1>1, <1>2, <1>3, <2>1 DEF DepthInv
<1>7. \A n : Visible(c, n, Len(c)) = {}
  BY <1>4 DEF Visible
<1>8. TablesInv(c)
  <2>1. \A i \in 1 .. Len(scopes) : \A n \in Names : scopes[i].table[n] = NULL
    <3>1. \A i \in 1 .. 1 : i = 1
      OBVIOUS
    <3>2. scopes[1] = EmptyScope(0)
      OBVIOUS
    <3>3. \A n \in Names : scopes[1].table[n] = NULL
      BY <3>2 DEF EmptyScope
    <3> QED
      BY <1>3, <3>1, <3>3
  <2> QED
    BY <1>7, <2>1 DEF TablesInv
<1>9. FlagsInv(c)
  BY <1>7 DEF FlagsInv
<1>10. ResolvedInv(c)
  BY <1>1, <1>2, <1>3, <1>4 DEF ResolvedInv
<1>11. ErrorsInv(c)
  BY <1>1 DEF ErrorsInv, Undeclared, Conflicting
<1>12. CrashInv(c)
  BY <1>1 DEF CrashInv, Crashing
<1> QED
  BY <1>1, <1>5, <1>6, <1>8, <1>9, <1>10, <1>11, <1>12 DEF Agreed

(* Resolution starts at the beginning of the program. *)
LEMMA InitWalk ==
  ASSUME ScopingInit
  PROVE  SInv /\ WalkInv
<1>1. SInv
  BY InitSInv DEF ScopingInit
<1>2. /\ scopes = <<EmptyScope(0)>> /\ symbols = <<>> /\ resolve_err = FALSE
      /\ resolved = <<>> /\ todo = <<Each("decl", program)>>
  BY DEF ScopingInit, ResolveInit
<1>3. Len(todo) = 1 /\ \A k \in DOMAIN todo[1] : todo[1][k].do = "decl"
  BY InitTypes DEF ScopingInit
<1>4. Calls = todo[1] /\ Unbinding(todo[1]) /\ InnerUnbinding(todo[1])
  BY <1>3 DEF Calls, Unbinding, InnerUnbinding
<1>5. BindsInv
  <2>1. \A i \in 1 .. Len(todo) : i = 1
    BY <1>3
  <2>2. \A i \in 1 .. Len(todo) - 1 : FALSE
    BY <1>3
  <2>3. BoundNext(Calls)
    BY <1>4 DEF BoundNext, Unbinding
  <2> QED
    BY <1>4, <2>1, <2>2, <2>3 DEF BindsInv
<1>6. ~ Pending
  BY <1>4 DEF Pending
<1>7. program \in Seq(Decls)
  BY SourcesAssumption DEF ScopingInit
<1>8. Reaches(<<>>, todo)
  BY <1>2, <1>7, ReachesFirst
<1>9. Agreed(<<>>)
  BY <1>1, <1>2, <1>6, AgreedFirst
<1> QED
  BY <1>1, <1>5, <1>8, <1>9 DEF WalkInv

(* A step that changes nothing stays where it is in the text. *)
LEMMA SameWalk ==
  ASSUME BindsInv, Standing, UNCHANGED program, NEW c, Reaches(c, todo), Agreed(c)
  PROVE  WalkInv'
<1>1. UNCHANGED <<todo, scopes, symbols, resolve_err, resolved, functions>>
      /\ UNCHANGED program
  BY DEF Standing
<1>2. UNCHANGED Calls /\ UNCHANGED Pending
  BY <1>1 DEF Calls, Pending
<1>3. BindsInv'
  BY <1>1, <1>2 DEF BindsInv, BoundNext
<1>4. Reaches(c, todo)'
  BY <1>1, ReachesPrimed
<1>5. SymbolsInv(c)' /\ DepthInv(c)'
  BY <1>1, <1>2 DEF Agreed, SymbolsInv, DepthInv
<1>6. TablesInv(c)'
  BY <1>1 DEF Agreed, TablesInv
<1>7. FlagsInv(c)'
  BY <1>1 DEF Agreed, FlagsInv
<1>8. ResolvedInv(c)' /\ ErrorsInv(c)'
  BY <1>1 DEF Agreed, ResolvedInv, ErrorsInv
<1> QED
  BY <1>3, <1>4, <1>5, <1>6, <1>7, <1>8 DEF WalkInv, Agreed, CrashInv

(* Every step goes on through the text. *)
LEMMA StepWalk ==
  ASSUME SInv, WalkInv, [ScopingNext]_<<vars, program>>
  PROVE  SInv' /\ WalkInv'
<1>1. SInv'
  BY StepSInv DEF ScopingNext
<1>2. PICK c : Reaches(c, todo) /\ Agreed(c)
  BY DEF WalkInv
<1>3. BindsInv
  BY DEF WalkInv
<1>4. UNCHANGED program
  BY DEF ScopingNext
<1>5. CASE Standing
  BY <1>1, <1>2, <1>3, <1>4, <1>5, SameWalk
<1>6. CASE Step
  <2>1. UNCHANGED program
    BY <1>4
  <2>2. CASE scope_enter
    BY <1>1, <1>2, <1>3, <2>1, <2>2, EnterWalk
  <2>3. CASE scope_exit
    BY <1>1, <1>2, <1>3, <2>1, <2>3, ExitWalk
  <2>4. CASE expr_resolve
    BY <1>1, <1>2, <1>3, <2>1, <2>4, UseWalk
  <2>5. CASE stmt_resolve
    BY <1>1, <1>2, <1>3, <2>1, <2>5, StmtWalk
  <2>6. CASE param_list_resolve
    BY <1>1, <1>2, <1>3, <2>1, <2>6, ParamWalk
  <2>7. CASE CreateSymbol
    BY <1>1, <1>2, <1>3, <2>1, <2>7, CreateWalk
  <2>8. CASE BindNew
    BY <1>1, <1>2, <1>3, <2>1, <2>8, BindNewWalk
  <2>9. CASE Redeclare
    BY <1>1, <1>2, <1>3, <2>1, <2>9, RedeclareWalk
  <2>10. CASE SetTotal
    BY <1>1, <1>2, <1>3, <2>1, <2>10, TotalWalk
  <2> QED
    BY <1>6, <2>2, <2>3, <2>4, <2>5, <2>6, <2>7, <2>8, <2>9, <2>10 DEF Step
<1> QED
  BY <1>5, <1>6, StepOrStanding DEF ScopingNext

(* When resolution has returned, it has gone through the whole program. *)
LEMMA WalkDone ==
  ASSUME SInv, WalkInv, Done
  PROVE  /\ Agreed(ProgramText(program))
         /\ DOMAIN ProgramText(program) = 1 .. Len(ProgramText(program))
<1>1. PICK c : Reaches(c, todo) /\ Agreed(c)
  BY DEF WalkInv
<1>2. Len(todo) = 1 /\ todo[1] = <<>>
  <2>1. Len(todo) = Len(scopes)
    BY DEF SInv, TypesInv
  <2>2. Len(scopes) = 1 /\ Calls = <<>>
    BY DEF Done, scope_level
  <2> QED
    BY <2>1, <2>2 DEF Calls
<1>3. c = ProgramText(program)
  BY <1>1, <1>2, ReachesLast
<1>4. c \in Seq(Event)
  BY <1>1 DEF Reaches
<1>5. DOMAIN c = 1 .. Len(c)
  BY <1>4
<1> QED
  BY <1>1, <1>3, <1>5

(* In every state of resolution the program has been gone through up to some *)
(* point of its text, and the tables, flags, uses and errors are those that  *)
(* the text up to there gives.                                               *)
THEOREM WalkInvHolds == ScopingSpec => [](SInv /\ WalkInv)
<1>1. ScopingInit => SInv /\ WalkInv
  BY InitWalk
<1>2. (SInv /\ WalkInv) /\ [ScopingNext]_<<vars, program>> => (SInv /\ WalkInv)'
  BY StepWalk
<1> QED
  BY <1>1, <1>2, PTL DEF ScopingSpec

(* Whatever the program, expr_resolve binds every use of a name to the       *)
(* innermost declaration before it, and never to the variable whose initial  *)
(* value contains the use; a name without one is bound to none.              *)
THEOREM LookupsAreSound == ScopingSpec => []LookupSound
<1>1. SInv /\ WalkInv => LookupSound
  <2> SUFFICES ASSUME SInv, WalkInv, Done
               PROVE  LET text == ProgramText(program) IN
                      /\ Len(resolved) = Count(text, Len(text), "use")
                      /\ \A i \in DOMAIN text : text[i].ev = "use" =>
                           resolved[Count(text, i, "use")]
                             = Meaning(text, text[i].name, i)
    BY DEF LookupSound
  <2>1. PICK text : text = ProgramText(program)
    OBVIOUS
  <2>2. Agreed(text) /\ DOMAIN text = 1 .. Len(text)
    BY <2>1, WalkDone
  <2>3. /\ Len(resolved) = Count(text, Len(text), "use")
        /\ \A i \in DOMAIN text : text[i].ev = "use" =>
             resolved[Count(text, i, "use")] = Meaning(text, text[i].name, i)
    BY <2>2 DEF Agreed, ResolvedInv
  <2> QED
    BY <2>1, <2>3
<1> QED
  BY <1>1, WalkInvHolds, PTL

(* Whenever resolution returns, resolve_err is set exactly when a name is    *)
(* used without a declaration or declared again in its scope as anything but *)
(* a function of the same type that is defined once, in whatever order the   *)
(* declarations come (decl_resolve, param_list_resolve, expr_resolve).  For  *)
(* which programs it returns is CrashesAreExact's business.                  *)
THEOREM ErrorsAreExact == ScopingSpec => []ErrorsExact
<1>1. SInv /\ WalkInv => ErrorsExact
  <2> SUFFICES ASSUME SInv, WalkInv, Done
               PROVE  LET text == ProgramText(program) IN
                      resolve_err <=> Undeclared(text) \/ Conflicting(text)
    BY DEF ErrorsExact
  <2>1. Agreed(ProgramText(program))
    BY WalkDone
  <2> QED
    BY <2>1 DEF Agreed, ErrorsInv
<1> QED
  BY <1>1, WalkInvHolds, PTL

(***************************************************************************)
(* The programs for which resolution does not return.                      *)
(***************************************************************************)

(* The declaration that crashes is the next event of the program. *)
LEMMA CrashFound ==
  ASSUME SInv, WalkInv, RedeclareCrash
  PROVE  Crashing(ProgramText(program))
<1>0. TypesInv /\ BindsInv
  BY DEF SInv, WalkInv
<1>1. PICK c : Reaches(c, todo) /\ Agreed(c)
  BY DEF WalkInv
<1>2. Calls # <<>> /\ Call.do = "bind"
  BY DEF RedeclareCrash, Ready
<1>3. PICK d \in Decls, s \in Nat, e \in Event : BindAt(d, s, e)
  BY <1>0, <1>2, BindWalkFacts
<1>4. /\ d = Call.arg.decl /\ e = Declare(d)
      /\ e.ev = "declare" /\ e.name = d.name /\ e.name \in Names
  BY <1>3 DEF BindAt
<1>5. PICK tmp \in Nat : tmp = scope_lookup_current(e.name)
  BY <1>4, LookupCurrent
<1>6. tmp # NULL /\ Crashes(d, tmp)
  BY <1>4, <1>5 DEF RedeclareCrash
<1>7. /\ SymbolsInv(c) /\ DepthInv(c) /\ TablesInv(c) /\ FlagsInv(c)
      /\ c \in Seq(Event) /\ Len(c) \in Nat
  BY <1>1 DEF Agreed, Reaches
<1>8. PICK j \in Visible(c, e.name, Len(c)) :
        Depth(c, j) = Depth(c, Len(c)) /\ tmp = Count(c, j, "declare")
  BY <1>0, <1>4, <1>5, <1>6, <1>7, CurrentIs
<1>9. symbols[tmp].type = c[j].type
  <2>1. j \in 1 .. Len(c) /\ c[j].ev = "declare"
    BY <1>7, VisibleFacts
  <2> QED
    BY <1>7, <1>8, <2>1 DEF SymbolsInv
<1>10. \E i \in 1 .. Len(c) : CrashesWith(c, e, i)
  <2>1. /\ e.type.fun /\ (~ e.code \/ symbols[tmp].prototype)
        /\ Stuck(symbols[tmp].type.sig, e.type.sig)
    BY <1>3, <1>6, CrashesIs
  <2> QED
    BY <1>4, <1>7, <1>8, <1>9, <2>1, CrashesAgain
<1>11. PICK t \in Seq(Event) : t = c \o <<e>> /\ Longer(t, c, e)
  BY <1>7, LongerExists
<1>12. Crashing(t)
  BY <1>4, <1>10, <1>11, CrashingNext
<1>13. \E w \in Seq(Event) : ProgramText(program) = t \o w
  <2>1. PICK n \in Nat : n = Len(todo) /\ n # 0 /\ Calls = todo[n]
    BY <1>0, LevelFacts
  <2>2. PICK r : Rests(r, todo) /\ ProgramText(program) = c \o r[n]
    BY <1>1, <2>1 DEF Reaches
  <2>3. PICK calls \in Seq(AnyCall) : calls = Calls
    BY <1>0, LevelFacts
  <2>4. PICK a \in Seq(Event) : a = FunctionText(d)
    BY FunctionTyped
  <2>5. CallText(Call) = <<e>> \o a
    BY <1>0, <1>2, <1>4, <2>4, HeadText
  <2>6. PICK b \in Seq(Event) : b = TextOf(Tail(calls))
    <3>1. Tail(calls) \in Seq(AnyCall)
      BY <1>2, <2>3, HeadTailProperties
    <3> QED
      BY <3>1, TextTyped
  <2>7. TextOf(calls) = (<<e>> \o a) \o b
    BY <1>2, <2>3, <2>5, <2>6, TextSplit DEF Call
  <2>8. PICK z \in Seq(Event) : z = Behind(r, n)
    <3>1. Behind(r, n) \in Seq(Event)
      BY <1>0, <2>1, <2>2, BehindTyped DEF TypesInv
    <3> QED
      BY <3>1
  <2>9. r[n] = ((<<e>> \o a) \o b) \o z
    <3>1. n \in 1 .. Len(todo)
      BY <2>1
    <3> QED
      BY <2>1, <2>2, <2>3, <2>7, <2>8, <3>1 DEF Rests
  <2>10. c \o (((<<e>> \o a) \o b) \o z) = t \o ((a \o b) \o z)
         /\ (a \o b) \o z \in Seq(Event)
    <3>1. PICK one \in Seq(Event) : one = <<e>>
      <4>1. <<e>> \in Seq(Event)
        OBVIOUS
      <4> QED
        BY <4>1
    <3>2. PICK x \in Seq(Event), y \in Seq(Event) : x = a \o b /\ y = x \o z
      BY ConcatProperties
    <3>3. (one \o a) \o b = one \o x
      BY <3>2, Regroup3 DEF Grouped3
    <3>4. (one \o x) \o z = one \o y
      BY <3>2, Regroup3 DEF Grouped3
    <3>5. c \o (one \o y) = (c \o one) \o y
      <4>1. Grouped3(c, one, y)
        BY <1>7, Regroup3
      <4> QED
        BY <4>1 DEF Grouped3
    <3> QED
      BY <1>11, <3>1, <3>2, <3>3, <3>4, <3>5
  <2> QED
    BY <2>2, <2>9, <2>10
<1>14. PICK w \in Seq(Event) : ProgramText(program) = t \o w
  BY <1>13
<1> QED
  BY <1>12, <1>14, ConcatExtends, CrashingKept

CrashedInv == status = "crashed" => Crashing(ProgramText(program))

(* Resolution returns exactly for the programs in which no function is       *)
(* compared with an earlier declaration of its scope from which it differs,  *)
(* if at all, behind an "array []"; for all others type_equals follows a     *)
(* NULL pointer, and resolve_err is never looked at (decl_resolve, type.c).  *)
THEOREM CrashesAreExact == ScopingSpec => []CrashExact
<1>1. ScopingInit => CrashedInv
  BY DEF ScopingInit, ResolveInit, CrashedInv
<1>2. (SInv /\ WalkInv) /\ CrashedInv /\ [ScopingNext]_<<vars, program>> => CrashedInv'
  <2> SUFFICES ASSUME SInv, WalkInv, CrashedInv, [ScopingNext]_<<vars, program>>,
                      status' = "crashed"
               PROVE  Crashing(ProgramText(program))'
    BY DEF CrashedInv
  <2>1. UNCHANGED program
    BY DEF ScopingNext
  <2>2. status = "crashed" \/ RedeclareCrash
    BY DEF ScopingNext, Next, Returned, vars
  <2>3. Crashing(ProgramText(program))
    BY <2>2, CrashFound DEF CrashedInv
  <2> QED
    BY <2>1, <2>3
<1>3. (SInv /\ WalkInv) /\ CrashedInv => CrashExact
  <2> SUFFICES ASSUME SInv, WalkInv, CrashedInv, Done
               PROVE  ~ Crashing(ProgramText(program))
    BY DEF CrashExact, CrashedInv
  <2> QED
    BY WalkDone DEF Agreed, CrashInv
<1> QED
  BY <1>1, <1>2, <1>3, WalkInvHolds, PTL DEF ScopingSpec
=============================================================================
