SPECIFICATION Spec
CONSTANTS
  Suite = "all"
  Programs <- MCPrograms
  Parts <- MCParts
  Height <- MCHeight
  Tallest <- MCTallest
INVARIANT TypeOK
INVARIANT Sound
INVARIANT TypeErrorsExact
INVARIANT CrashExplained
