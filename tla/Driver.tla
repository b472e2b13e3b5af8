------------------------------- MODULE Driver -------------------------------
(***************************************************************************)
(* The program bminor: main, which picks a mode, and the functions of      *)
(* bminor_helper.c, each of which runs the phases before it and stops at   *)
(* the first that fails.  What the later phases find out is Resolve's,     *)
(* TypeCheck's and Codegen's business: here it is any outcome they have,   *)
(* crashes included.                                                       *)
(*                                                                         *)
(* As tests/printer/run_all_tests.sh does, a file that was printed is      *)
(* printed again by a second process.                                      *)
(*                                                                         *)
(* The scanner, the parser and the printer are parameters, those of        *)
(* Grammar and Printing in every run: what is said of the driver holds     *)
(* whatever texts they accept.                                             *)
(***************************************************************************)
EXTENDS Ast

CONSTANTS
  Commands,         \* command lines with the text of the file they name
  Scanner(_),       \* a text, to the tokens that its longest matches are
  ScannerTakes(_),  \* whether a token is no lexical error
  Parser(_),        \* a text, to whether it is a program, and its tree
  Printer(_)        \* a tree, to its text

(* A parse that succeeds has a tree, also of the empty file.               *)
ASSUME DriverAssumption ==
  \A c \in Commands :
    /\ c.argv.count \in Nat
    /\ Parser(c.text).ok => Parser(c.text).tree # None

VARIABLES
  argv,         \* [count, mode, readable]: argc, argv[1], and fopen(argv[2])
  file,         \* history: the text of the file
  text,         \* what is left of it to be scanned
  at,           \* the function that runs, "exited" or "crashed"
  ast_head,     \* the tree, None before the parser has run
  resolve_err,
  type_err,
  outfile,      \* the output file: untouched, empty, partial or complete
  stdout,       \* what was printed: token names or the formatted file
  status,       \* the exit status, -1 before there is one
  first         \* history: what the first process parsed and printed

driverVars == <<argv, file, text, at, ast_head, resolve_err, type_err, outfile,
                stdout, status, first>>

None_ == [tree |-> None, stdout |-> <<>>]

DriverInit ==
  /\ \E c \in Commands : argv = c.argv /\ file = c.text /\ text = c.text
  /\ at = "main"
  /\ ast_head = None
  /\ resolve_err = 0 /\ type_err = 0
  /\ outfile = "untouched"
  /\ stdout = <<>>
  /\ status = -1
  /\ first = None_

Exits(code) ==
  /\ at' = "exited" /\ status' = code

Keep == UNCHANGED <<argv, file, first>>
KeepErrors == UNCHANGED <<resolve_err, type_err>>

(***************************************************************************)
(* main                                                                    *)
(***************************************************************************)
ParsingModes == {"-parse", "-print", "-resolve", "-typecheck", "-codegen"}

Refuse ==
  /\ at = "main"
  /\ \/ argv.count < 3
     \/ ~ argv.readable
     \/ argv.mode \notin ParsingModes \cup {"-scan"}
  /\ Exits(1)
  /\ Keep /\ KeepErrors /\ UNCHANGED <<text, ast_head, outfile, stdout>>

Accepted == at = "main" /\ argv.count >= 3 /\ argv.readable

StartScan ==
  /\ Accepted /\ argv.mode = "-scan"
  /\ at' = "scan"
  /\ text' = Scanner(text)
  /\ Keep /\ KeepErrors /\ UNCHANGED <<ast_head, outfile, stdout, status>>

(* The output file is emptied before the source is looked at; without a    *)
(* fourth argument none is opened.                                         *)
StartParse ==
  /\ Accepted /\ argv.mode \in ParsingModes
  /\ at' = "parse"
  /\ outfile' = IF argv.mode = "-codegen" /\ argv.count > 3 THEN "empty" ELSE outfile
  /\ Keep /\ KeepErrors /\ UNCHANGED <<text, ast_head, stdout, status>>

(***************************************************************************)
(* scan and tokToString                                                    *)
(***************************************************************************)
Keywords ==
  {"array", "auto", "boolean", "char", "else", "for", "function", "if",
   "integer", "print", "return", "string", "void", "while"}
Marks ==
  {"(", ")", "[", "]", "{", "}", "++", "--", "!", "^", "*", "/", "%", "+",
   "-", ">", "<", ">=", "<=", "==", "!=", "=", ",", ";", ":", "&&", "||"}

(* Mutant of HasName: one row of the table is missing. *)
HasNameNoMod(word) ==
  word[1] \in (Keywords \cup Marks \cup Literal \cup {"ID"}) \ {"%"}

(* The tokens for which tokToString has a case; true and false are here    *)
(* BOOL_LIT.                                                               *)
HasName(word) == word[1] \in Keywords \cup Marks \cup Literal \cup {"ID"}

ScanToken ==
  /\ at = "scan" /\ text # <<>>
  /\ text' = Tail(text)
  /\ stdout' = IF ScannerTakes(text[1]) THEN Append(stdout, text[1]) ELSE stdout
  /\ IF ScannerTakes(text[1]) /\ HasName(text[1]) THEN UNCHANGED <<at, status>>
                                                  ELSE Exits(1)
  /\ Keep /\ KeepErrors /\ UNCHANGED <<ast_head, outfile>>

ScanEnd ==
  /\ at = "scan" /\ text = <<>>
  /\ Exits(0)
  /\ Keep /\ KeepErrors /\ UNCHANGED <<text, ast_head, outfile, stdout>>

(***************************************************************************)
(* parse, pprint, resolve, typecheck, codegen                              *)
(***************************************************************************)
Parse ==
  LET p == Parser(text) IN
  /\ at = "parse"
  /\ ast_head' = p.tree
  /\ text' = <<>>
  /\ IF ~ p.ok THEN Exits(1)
     ELSE IF argv.mode = "-parse" THEN Exits(0)
     ELSE /\ at' = (IF argv.mode = "-print" THEN "print" ELSE "resolve")
          /\ UNCHANGED status
  /\ Keep /\ KeepErrors /\ UNCHANGED <<outfile, stdout>>

PrettyPrint ==
  /\ at = "print"
  /\ stdout' = Printer(ast_head)
  /\ Exits(0)
  /\ Keep /\ KeepErrors /\ UNCHANGED <<text, ast_head, outfile>>

(* A phase that leaves the error flag err is the last one of its mode, the *)
(* last one before an error, or goes on.                                   *)
PhaseEnds(err, last, next) ==
  IF argv.mode = last \/ err # 0 THEN Exits(err)
                                 ELSE at' = next /\ UNCHANGED status

Resolve(err) ==
  /\ at = "resolve"
  /\ resolve_err' = err
  /\ PhaseEnds(err, "-resolve", "typecheck")
  /\ Keep /\ UNCHANGED <<text, ast_head, type_err, outfile, stdout>>

(* Mutant of TypeCheck: the code is generated in any case. *)
TypeCheckOnly(err) ==
  /\ at = "typecheck"
  /\ type_err' = err
  /\ PhaseEnds(0, "-typecheck", "codegen")
  /\ Keep /\ UNCHANGED <<text, ast_head, resolve_err, outfile, stdout>>

TypeCheck(err) ==
  /\ at = "typecheck"
  /\ type_err' = err
  /\ PhaseEnds(err, "-typecheck", "codegen")
  /\ Keep /\ UNCHANGED <<text, ast_head, resolve_err, outfile, stdout>>

(* Name resolution and the type checker may follow a null pointer: both    *)
(* compare arrays of which one has no size (type_equals).                  *)
PhaseCrash ==
  /\ at \in {"resolve", "typecheck"}
  /\ at' = "crashed"
  /\ Keep /\ KeepErrors /\ UNCHANGED <<text, ast_head, outfile, stdout, status>>

(* An exit writes out what the buffer of the file holds, a crash loses it. *)
Codegen ==
  /\ at = "codegen" /\ argv.count > 3
  /\ \/ outfile' = "complete" /\ Exits(0)
     \/ outfile' = "partial" /\ Exits(1)
     \/ outfile' \in {"empty", "partial"} /\ at' = "crashed" /\ UNCHANGED status
  /\ Keep /\ KeepErrors /\ UNCHANGED <<text, ast_head, stdout>>

(* The first line is written through a null pointer, unless there is none  *)
(* or the code generator gives up before it.                               *)
CodegenNoFile ==
  /\ at = "codegen" /\ argv.count = 3
  /\ IF ast_head.sub = <<>> THEN Exits(0)
     ELSE \/ Exits(1)
          \/ at' = "crashed" /\ UNCHANGED status
  /\ Keep /\ KeepErrors /\ UNCHANGED <<text, ast_head, outfile, stdout>>

(* The second process of the test script. *)
PrintAgain ==
  /\ at = "exited" /\ argv.mode = "-print" /\ status = 0 /\ first = None_
  /\ first' = [tree |-> ast_head, stdout |-> stdout]
  /\ file' = stdout /\ text' = stdout
  /\ at' = "main" /\ ast_head' = None /\ stdout' = <<>> /\ status' = -1
  /\ UNCHANGED argv /\ KeepErrors /\ UNCHANGED outfile

Gone == at \in {"exited", "crashed"} /\ UNCHANGED driverVars

DriverNext ==
  \/ Refuse \/ StartScan \/ StartParse \/ ScanToken \/ ScanEnd \/ Parse \/ PrettyPrint
  \/ \E err \in {0, 1} : Resolve(err) \/ TypeCheck(err)
  \/ PhaseCrash \/ Codegen \/ CodegenNoFile \/ PrintAgain \/ Gone

DriverSpec == DriverInit /\ [][DriverNext]_driverVars

(***************************************************************************)
(* Properties.                                                             *)
(***************************************************************************)

(* What a caller such as make or gcc may rely on: an output file that was  *)
(* asked for is complete exactly when -codegen exits with 0, and then      *)
(* every phase has passed; no failure leaves an earlier output in it.      *)
StatusTellsOutput ==
  LET asked == argv.mode = "-codegen" /\ argv.count > 3 IN
  at = "exited" =>
    /\ (outfile = "complete") <=> (asked /\ status = 0)
    /\ outfile = "complete" => ast_head # None /\ resolve_err = 0 /\ type_err = 0
    /\ outfile = "untouched" => ~ asked \/ ~ argv.readable
=============================================================================
