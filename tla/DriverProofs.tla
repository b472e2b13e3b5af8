---------------------------- MODULE DriverProofs ----------------------------
(***************************************************************************)
(* Proof that the exit status of bminor tells what is in the output file,  *)
(* whatever the scanner, the parser and the phases after it find.          *)
(***************************************************************************)
EXTENDS Driver, TLAPS

Asked == argv.mode = "-codegen" /\ argv.count > 3

(* The output file from the moment it would be opened to the moment it     *)
(* would be written.                                                       *)
Opened == outfile = IF Asked THEN "empty" ELSE "untouched"

(* The phases run in order: each function of bminor_helper.c is reached    *)
(* only in the modes that need it, and only when the earlier ones have     *)
(* found no error.                                                         *)
Reached ==
  /\ at = "main" => outfile = "untouched" /\ resolve_err = 0 /\ type_err = 0
  /\ at = "scan" => argv.mode = "-scan" /\ outfile = "untouched"
  /\ at = "parse" => /\ argv.mode \in ParsingModes
                     /\ Opened /\ resolve_err = 0 /\ type_err = 0
  /\ at = "print" => argv.mode = "-print" /\ Opened /\ resolve_err = 0 /\ type_err = 0
  /\ at \in {"resolve", "typecheck", "codegen"} =>
       argv.mode \in ParsingModes \ {"-parse", "-print"} /\ Opened /\ ast_head # None
  /\ at \in {"typecheck", "codegen"} => argv.mode # "-resolve" /\ resolve_err = 0
  /\ at = "codegen" => argv.mode = "-codegen" /\ type_err = 0
  /\ at = "resolve" => resolve_err = 0

(* Only a file that -print wrote is parsed by a second process; any other  *)
(* text is that of the command line.                                       *)
FromCommands ==
  /\ argv.count \in Nat
  /\ first # None_ => argv.mode = "-print"
  /\ at \in {"main", "parse"} /\ argv.mode # "-print" =>
       \E c \in Commands : argv = c.argv /\ text = c.text

(* A process of -print leaves neither an error nor an output file.         *)
PrintLeavesNothing ==
  at = "exited" /\ argv.mode = "-print" =>
    outfile = "untouched" /\ resolve_err = 0 /\ type_err = 0

DriverInv == Reached /\ FromCommands /\ PrintLeavesNothing /\ StatusTellsOutput

-----------------------------------------------------------------------------
(* The first process starts with the file of its command line, and no      *)
(* phase has run.                                                          *)
LEMMA InvStarts == DriverInit => DriverInv
  BY DriverAssumption
     DEF DriverInit, DriverInv, Reached, FromCommands, PrintLeavesNothing,
         StatusTellsOutput, Opened, Asked

(* Every handler leaves the output file, the error flags and the status as *)
(* the function that it goes on to, or the caller of bminor, may expect.   *)
LEMMA InvStep == ASSUME DriverInv, DriverNext PROVE DriverInv'
<1> USE DEF DriverInv, Reached, FromCommands, PrintLeavesNothing,
            StatusTellsOutput, Opened, Asked, ParsingModes
<1>1. CASE Refuse
  BY <1>1 DEF Refuse, Exits, Keep, KeepErrors
<1>2. CASE StartScan
  BY <1>2 DEF StartScan, Accepted, Keep, KeepErrors
<1>3. CASE StartParse
  BY <1>3 DEF StartParse, Accepted, Keep, KeepErrors
<1>4. CASE ScanToken
  BY <1>4 DEF ScanToken, Exits, Keep, KeepErrors
<1>5. CASE ScanEnd
  BY <1>5 DEF ScanEnd, Exits, Keep, KeepErrors
<1>6. CASE Parse
  <2>1. argv.mode # "-print" /\ Parser(text).ok => Parser(text).tree # None
    BY <1>6, DriverAssumption DEF Parse
  <2>2. UNCHANGED <<argv, outfile, resolve_err, type_err, first>>
    BY <1>6 DEF Parse, Keep, KeepErrors
  <2>3. ast_head' = Parser(text).tree
    BY <1>6 DEF Parse
  <2>4. CASE ~ Parser(text).ok
    BY <1>6, <2>2, <2>4 DEF Parse, Exits
  <2>5. CASE Parser(text).ok /\ argv.mode = "-parse"
    BY <1>6, <2>1, <2>2, <2>3, <2>5 DEF Parse, Exits
  <2>6. CASE Parser(text).ok /\ argv.mode # "-parse"
    BY <1>6, <2>1, <2>2, <2>3, <2>6 DEF Parse
  <2> QED BY <2>4, <2>5, <2>6
<1>7. CASE PrettyPrint
  BY <1>7 DEF PrettyPrint, Exits, Keep, KeepErrors
<1>8. ASSUME NEW err \in {0, 1}, Resolve(err) PROVE DriverInv'
  BY <1>8 DEF Resolve, PhaseEnds, Exits, Keep
<1>9. ASSUME NEW err \in {0, 1}, TypeCheck(err) PROVE DriverInv'
  BY <1>9 DEF TypeCheck, PhaseEnds, Exits, Keep
<1>10. CASE PhaseCrash
  BY <1>10 DEF PhaseCrash, Keep, KeepErrors
<1>11. CASE Codegen
  BY <1>11 DEF Codegen, Exits, Keep, KeepErrors
<1>12. CASE CodegenNoFile
  BY <1>12 DEF CodegenNoFile, Exits, Keep, KeepErrors
<1>13. CASE PrintAgain
  BY <1>13 DEF PrintAgain, KeepErrors
<1>14. CASE Gone
  BY <1>14 DEF Gone, driverVars
<1> QED
  BY <1>1, <1>2, <1>3, <1>4, <1>5, <1>6, <1>7, <1>8, <1>9, <1>10, <1>11, <1>12, <1>13,
     <1>14 DEF DriverNext

(* For every scanner, parser and printer, every command line and every     *)
(* outcome of the phases: when bminor exits, the output file is complete   *)
(* if and only if -codegen was asked to write it and exits with 0, and     *)
(* then the file has been parsed and no phase has reported an error.       *)
THEOREM StatusAlwaysTells == DriverSpec => []StatusTellsOutput
<1>1. DriverInv /\ [DriverNext]_driverVars => DriverInv'
  <2>1. CASE UNCHANGED driverVars
    BY <2>1 DEF driverVars, DriverInv, Reached, FromCommands, PrintLeavesNothing,
                StatusTellsOutput, Opened, Asked
  <2> QED BY <2>1, InvStep
<1>2. DriverInv => StatusTellsOutput
  BY DEF DriverInv
<1> QED BY <1>1, <1>2, InvStarts, PTL DEF DriverSpec
=============================================================================
