SPECIFICATION MachineSpec
CONSTANTS
  NumRegs = 7
  MaxArgs = 6
  Bits = 16
  StackWords = 96
  Programs <- MCPrograms
  Nodes <- MCNodes
  Garbage <- NoGarbage
  Trash <- MCTrash
INVARIANT MachineTypeOK
INVARIANT CallersKept
INVARIANT MeansWhatIsCompiled
INVARIANT MeansWhatIsWritten
PROPERTY CalleeRestores
PROPERTY Halts
