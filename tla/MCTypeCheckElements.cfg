SPECIFICATION Spec
CONSTANTS
  Suite = "elements"
  Programs <- MCPrograms
  Parts <- MCParts
  Height <- MCHeight
  Tallest <- MCTallest
INVARIANT ElementsAgree
