SPECIFICATION Spec
CONSTANTS
  Suite = "loop"
  Programs <- MCPrograms
  Parts <- MCParts
  Height <- MCHeight
  Tallest <- MCTallest
INVARIANT LoopsTyped
