SPECIFICATION Spec
CONSTANTS
  NumRegs = 7
  MaxArgs = 6
  Suite = "deep"
  Programs <- MCPrograms
  Nodes <- MCNodes
  Need <- MCNeed
  Tree <- MCTree
  Garbage <- NoGarbage
INVARIANT Generates
