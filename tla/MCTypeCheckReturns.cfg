SPECIFICATION Spec
CONSTANTS
  Suite = "returns"
  Programs <- MCPrograms
  Parts <- MCParts
  Height <- MCHeight
  Tallest <- MCTallest
INVARIANT ReturnsMatch
