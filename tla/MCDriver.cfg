SPECIFICATION DriverSpec
CONSTANTS
  IntRange = 8
  Commands <- MCCommands
  Scanner <- Munched
  ScannerTakes <- Scannable
  Parser <- yyparse
  Printer <- program_print
INVARIANT StatusTellsOutput
INVARIANT ReformatsExcept
INVARIANT ParsesImpliesScans
