SPECIFICATION Spec
CONSTANTS
  NumRegs = 7
  MaxArgs = 6
  Suite = "limits"
  Programs <- MCPrograms
  Nodes <- MCNodes
  Need <- MCNeed
  Tree <- MCTree
  Garbage <- SomeGarbage
INVARIANT TypeOK
INVARIANT ExitsJustified
