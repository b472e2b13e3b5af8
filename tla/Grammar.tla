------------------------------- MODULE Grammar -------------------------------
(***************************************************************************)
(* The scanner and the parser: scanner.flex and parser.bison, from text as *)
(* Printing prints it back to a tree.  A parse takes a prefix of the       *)
(* tokens t and gives the tree and the tokens that are left.               *)
(***************************************************************************)
EXTENDS Printing
LOCAL INSTANCE SequencesExt

CONSTANT IntRange   \* how many values an int has
ASSUME IntRangeAssumption == IntRange \in Nat \ {0} /\ IntRange % 2 = 0

(***************************************************************************)
(* The scanner.                                                            *)
(***************************************************************************)
Quote == [STR_LIT |-> "\"", CHAR_LIT |-> "'"]

(* fixString: the characters that the text between two quotes stands for.  *)
RECURSIVE fixString(_)
fixString(s) ==
  IF s = <<>> THEN <<>>
  ELSE IF s[1] # Backslash THEN <<s[1]>> \o fixString(Tail(s))
  ELSE << CASE s[2] = "n" -> "LF" [] s[2] = "0" -> "NUL" [] OTHER -> s[2] >>
       \o fixString(SubSeq(s, 3, Len(s)))

(* strdup in expr_create_string_literal stops at the first NUL. *)
UpToNul(s) ==
  SubSeq(s, 1, CHOOSE n \in 0 .. Len(s) :
                 /\ \A i \in 1 .. n : s[i] # "NUL"
                 /\ n = Len(s) \/ s[n + 1] = "NUL")

(* The characters between two quotes are a literal: a backslash takes the  *)
(* next one with it, and neither a quote nor a new line stands alone.      *)
RECURSIVE Quotable(_, _)
Quotable(quote, s) ==
  IF s = <<>> THEN TRUE
  ELSE IF s[1] = Backslash
  THEN Len(s) > 1 /\ s[2] # "LF" /\ Quotable(quote, SubSeq(s, 3, Len(s)))
  ELSE s[1] \notin {quote, "LF"} /\ Quotable(quote, Tail(s))

IsLiteral(word) == word[1] \in {"STR_LIT", "CHAR_LIT"}

Scannable(word) ==
  /\ word # T("invalid")
  /\ IsLiteral(word) =>
       /\ Quotable(Quote[word[1]], word[2])
       /\ word[1] = "CHAR_LIT" => Len(fixString(word[2])) = 1

(* A literal outside the range of an int wraps around.                    *)
atoi(n) == ((n + IntRange \div 2) % IntRange) - (IntRange \div 2)

Scanned(word) ==
  CASE word[1] = "STR_LIT"  -> Word("STR_LIT", UpToNul(fixString(word[2])))
    [] word[1] = "CHAR_LIT" -> Word("CHAR_LIT", fixString(word[2])[1])
    [] word[1] = "INT_LIT" -> Word("INT_LIT", atoi(word[2]))
    [] OTHER -> word

(* The longest match: two minus signs in a row are one token. *)
Munched(text) ==
  LET signs == FlattenSeq([i \in DOMAIN text |->
                 IF text[i] = T("--") THEN <<T("-"), T("-")>> ELSE <<text[i]>>])
      add(read, word) ==
        IF word = T("-") /\ read # <<>> /\ Last(read) = T("-")
        THEN Append(Front(read), T("--")) ELSE Append(read, word)
  IN  FoldLeft(add, <<>>, signs)

(***************************************************************************)
(* The parser.                                                             *)
(***************************************************************************)
Parsed(tree, t) == [ok |-> TRUE, tree |-> tree, rest |-> t]
NoParse == [ok |-> FALSE, tree |-> None, rest |-> <<>>]

At(t, words) == t # <<>> /\ t[1] \in {T(w) : w \in words}
IsA(t, kinds) == t # <<>> /\ t[1][1] \in kinds

(* After the parse p comes the token w. *)
Close(p, w) == IF p.ok /\ At(p.rest, {w}) THEN Parsed(p.tree, Tail(p.rest)) ELSE NoParse

(* A parse of more, with the tree of p in front of the tree of q. *)
Into(p, q, kind) ==
  IF p.ok /\ q.ok THEN Parsed(Node(kind, <<p.tree, q.tree>>, 0), q.rest) ELSE NoParse

KindOf(symbol, kinds) == CHOOSE k \in kinds : Symbol[k] = symbol

(* What the rule r of the grammar makes of the tokens t.  The rules use    *)
(* each other by name.                                                     *)
RECURSIVE Rule(_, _), Postfix(_), Chain(_, _)

Atoms == Literal \cup {"ID"}

Arguments(t) ==
  IF At(t, {")", ";"}) THEN Parsed(Node("ARG", <<>>, 0), t) ELSE Rule("expr_list", t)

expr_0(t) ==
  IF At(t, {"("}) THEN Postfix(Close(Rule("expr_8", Tail(t)), ")"))
  ELSE IF ~ IsA(t, Atoms) THEN NoParse
  ELSE IF IsA(t, {"ID"}) /\ At(Tail(t), {"("})
  THEN LET args == Close(Arguments(Tail(Tail(t))), ")") IN
       IF args.ok THEN Postfix(Parsed(Node("FCALL", args.tree.sub, t[1][2]), args.rest))
                  ELSE NoParse
  ELSE Postfix(Parsed(Node(t[1][1], <<>>, t[1][2]), Tail(t)))

Postfix(p) ==
  IF ~ p.ok THEN p
  ELSE IF At(p.rest, {"++", "--"})
  THEN Postfix(Parsed(Node(KindOf(p.rest[1][1], Step), <<p.tree>>, 0), Tail(p.rest)))
  ELSE IF At(p.rest, {"["})
  THEN Postfix(Into(p, Close(Rule("expr_8", Tail(p.rest)), "]"), "INDEX"))
  ELSE p

expr_1(t) ==
  LET p == Rule("expr_0", Tail(t)) IN
  IF ~ At(t, {"-", "!"}) THEN Rule("expr_0", t)
  ELSE IF p.ok
  THEN Parsed(Node(KindOf(t[1][1], {"NEGATION", "NOT"}), <<p.tree>>, 0), p.rest)
  ELSE NoParse

expr_2(t) ==
  LET p == Rule("expr_1", t) IN
  IF p.ok /\ At(p.rest, {"^"}) THEN Into(p, Rule("expr_2", Tail(p.rest)), "EXPONENT") ELSE p

(* The rules whose operators group to the left, from expr_7 down. *)
LevelOf ==
  [expr_7 |-> {"OR"}, expr_6 |-> {"AND"}, expr_5 |-> Comparison,
   expr_4 |-> {"ADD", "SUB"}, expr_3 |-> {"MUL", "DIV", "MOD"}]
Operand ==
  [expr_7 |-> "expr_6", expr_6 |-> "expr_5", expr_5 |-> "expr_4",
   expr_4 |-> "expr_3", expr_3 |-> "expr_2"]

(* The operators of rule r and their right operands, after the parse p. *)
Chain(r, p) ==
  IF p.ok /\ At(p.rest, {Symbol[k] : k \in LevelOf[r]})
  THEN Chain(r, Into(p, Rule(Operand[r], Tail(p.rest)), KindOf(p.rest[1][1], LevelOf[r])))
  ELSE p

Level(r, t) == Chain(r, Rule(Operand[r], t))

expr_8(t) ==
  LET p == Rule("expr_7", t) IN
  IF p.ok /\ At(p.rest, {"="}) THEN Into(p, Rule("expr_8", Tail(p.rest)), "ASSIGN")
  ELSE IF p.ok /\ At(p.rest, {"?"})
  THEN LET arms == LET one == Close(Rule("expr_8", Tail(p.rest)), ":") IN
                   IF one.ok THEN Into(one, Rule("expr_8", one.rest), "TERNARY2") ELSE NoParse
       IN  IF arms.ok THEN Parsed(Node("TERNARY1", <<p.tree>> \o arms.tree.sub, 0), arms.rest)
                      ELSE NoParse
  ELSE p

(* One or more of what is parsed by expr_8, as one ARG. *)
expr_list(t) ==
  LET p == Rule("expr_8", t)
      q == Rule("expr_list", Tail(p.rest))
  IN  IF ~ p.ok THEN NoParse
      ELSE IF ~ At(p.rest, {","}) THEN Parsed(Node("ARG", <<p.tree>>, 0), p.rest)
      ELSE IF q.ok THEN Parsed(Node("ARG", <<p.tree>> \o q.tree.sub, 0), q.rest)
      ELSE NoParse

expr_braced(t) ==
  LET p == Close(Rule("expr_braced", Tail(t)), "}") IN
  IF ~ At(t, {"{"}) THEN Rule("expr_list", t)
  ELSE IF p.ok /\ At(p.rest, {","}) THEN Into(p, Rule("expr_braced", Tail(p.rest)), "BRACE")
  ELSE IF p.ok THEN Parsed(Node("BRACE", <<p.tree>>, 0), p.rest)
  ELSE NoParse

expr_main_eps(t) == IF At(t, {";", ")", "]"}) THEN Parsed(None, t) ELSE Rule("expr_8", t)

(***************************************************************************)
(* Types, statements and declarations.                                     *)
(***************************************************************************)
Simple == {"string", "boolean", "auto", "integer", "char", "void"}

type(t) ==
  IF At(t, Simple) THEN Parsed(Node("TYPE", <<>>, t[1][1]), Tail(t))
  ELSE IF At(t, {"array"}) /\ At(Tail(t), {"["})
  THEN LET size == Close(expr_main_eps(Tail(Tail(t))), "]") IN
       IF size.ok THEN Into(size, Rule("type", size.rest), "ARRAY") ELSE NoParse
  ELSE IF At(t, {"function"})
  THEN LET of == Close(Rule("type", Tail(t)), "(")
           params == Close(Rule("param_list", of.rest), ")")
       IN  IF of.ok /\ params.ok
           THEN Parsed(Node("FUNCTION", <<of.tree>>, params.tree), params.rest)
           ELSE NoParse
  ELSE NoParse

(* id : type, the beginning of a declaration and all of a parameter. *)
Typed(t) ==
  LET p == Rule("type", SubSeq(t, 3, Len(t))) IN
  IF IsA(t, {"ID"}) /\ At(Tail(t), {":"}) /\ p.ok
  THEN Parsed([name |-> t[1][2], type |-> p.tree], p.rest) ELSE NoParse

param_list(t) ==
  LET p == Typed(t)
      q == Rule("param_list", Tail(p.rest))
  IN  IF At(t, {")"}) THEN Parsed(<<>>, t)
      ELSE IF ~ p.ok THEN NoParse
      ELSE IF ~ At(p.rest, {","}) THEN Parsed(<<p.tree>>, p.rest)
      ELSE IF q.ok /\ q.tree # <<>> THEN Parsed(<<p.tree>> \o q.tree, q.rest)
      ELSE NoParse

Braced(t) == IF At(t, {"{"}) THEN Close(Rule("stmt_bunch", Tail(t)), "}") ELSE NoParse

decl(t) ==
  LET p == Typed(t)
      value == Close(Rule("expr_braced", Tail(p.rest)), ";")
      code == Braced(Tail(p.rest))
      made(sub, rest) == Parsed(Node("DECL", sub, p.tree), rest)
  IN  IF ~ p.ok THEN NoParse
      ELSE IF At(p.rest, {";"}) THEN made(<<>>, Tail(p.rest))
      ELSE IF ~ At(p.rest, {"="}) THEN NoParse
      ELSE IF value.ok THEN made(<<value.tree>>, value.rest)
      ELSE IF code.ok THEN made(<<code.tree>>, code.rest)
      ELSE NoParse

(* An else belongs to the nearest if. *)
If_(t) ==
  LET test == Close(Rule("expr_8", t), ")")
      one == Rule("stmt", test.rest)
      two == Rule("stmt", Tail(one.rest))
  IN  IF ~ test.ok \/ ~ one.ok THEN NoParse
      ELSE IF ~ At(one.rest, {"else"})
      THEN Parsed(Node("IF_ELSE", <<test.tree, one.tree, None>>, 0), one.rest)
      ELSE IF two.ok
      THEN Parsed(Node("IF_ELSE", <<test.tree, one.tree, two.tree>>, 0), two.rest)
      ELSE NoParse

For_(t) ==
  LET init == Close(expr_main_eps(t), ";")
      test == Close(expr_main_eps(init.rest), ";")
      next == Close(expr_main_eps(test.rest), ")")
      body == Rule("stmt", next.rest)
  IN  IF init.ok /\ test.ok /\ next.ok /\ body.ok
      THEN Parsed(Node("FOR", <<init.tree, test.tree, next.tree, body.tree>>, 0), body.rest)
      ELSE NoParse

(* A statement of the given kind around what was parsed. *)
As(kind, p) ==
  IF ~ p.ok THEN NoParse
  ELSE Parsed(Node(kind, IF p.tree = None THEN <<>>
                         ELSE IF kind = "PRINT" THEN p.tree.sub ELSE <<p.tree>>, 0), p.rest)

stmt(t) ==
  IF At(t, {"if"}) THEN (IF At(Tail(t), {"("}) THEN If_(Tail(Tail(t))) ELSE NoParse)
  ELSE IF At(t, {"for"}) THEN (IF At(Tail(t), {"("}) THEN For_(Tail(Tail(t))) ELSE NoParse)
  ELSE IF At(t, {"return"}) THEN As("RETURN", Close(expr_main_eps(Tail(t)), ";"))
  ELSE IF At(t, {"print"}) THEN As("PRINT", Close(Arguments(Tail(t)), ";"))
  ELSE IF At(t, {"{"}) THEN Braced(t)
  ELSE IF IsA(t, {"ID"}) /\ At(Tail(t), {":"}) THEN Rule("decl", t)
  ELSE As("EXPR", Close(Rule("expr_8", t), ";"))

(* The statements up to a closing brace, as a block. *)
stmt_bunch(t) ==
  LET p == Rule("stmt", t)
      q == Rule("stmt_bunch", p.rest)
  IN  IF t = <<>> THEN NoParse
      ELSE IF At(t, {"}"}) THEN Parsed(Node("BLOCK", <<>>, 0), t)
      ELSE IF p.ok /\ q.ok THEN Parsed(Node("BLOCK", <<p.tree>> \o q.tree.sub, 0), q.rest)
      ELSE NoParse

decl_list(t) ==
  LET p == Rule("decl", t)
      q == Rule("decl_list", p.rest)
  IN  IF t = <<>> THEN Parsed(<<>>, t)
      ELSE IF p.ok /\ q.ok THEN Parsed(<<p.tree>> \o q.tree, q.rest)
      ELSE NoParse

Rule(r, t) ==
  CASE r = "expr_0" -> expr_0(t)
    [] r = "expr_1" -> expr_1(t)
    [] r = "expr_2" -> expr_2(t)
    [] r = "expr_8" -> expr_8(t)
    [] r = "expr_list" -> expr_list(t)
    [] r = "expr_braced" -> expr_braced(t)
    [] r = "type" -> type(t)
    [] r = "param_list" -> param_list(t)
    [] r = "stmt" -> stmt(t)
    [] r = "stmt_bunch" -> stmt_bunch(t)
    [] r = "decl" -> decl(t)
    [] r = "decl_list" -> decl_list(t)
    [] r \in DOMAIN LevelOf -> Level(r, t)

(* yyparse of a file, which fails with the scanner. *)
yyparse(text) ==
  LET words == Munched(text)
      p == Rule("decl_list", [i \in DOMAIN words |-> Scanned(words[i])])
  IN  IF \A i \in DOMAIN words : Scannable(words[i])
      THEN IF p.ok THEN Parsed(Node("PROGRAM", p.tree, 0), <<>>) ELSE NoParse
      ELSE NoParse
=============================================================================
