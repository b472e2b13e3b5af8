SPECIFICATION Spec
CONSTANTS
  NumRegs = 3
  MaxArgs = 6
  Suite = "walk"
  Programs <- MCPrograms
  Nodes <- MCNodes
  Need <- MCNeed
  Tree <- MCTree
  Garbage <- NoGarbage
INVARIANT WalkInv
INVARIANT NoClobber
INVARIANT ExactOwnership
INVARIANT ExhaustionExact
INVARIANT LabelsSound
INVARIANT SectionsSound
INVARIANT RegistersKnown
PROPERTY SparesWaiting
PROPERTY Terminates
