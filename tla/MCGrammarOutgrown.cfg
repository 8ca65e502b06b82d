SPECIFICATION Spec
CONSTANTS
  Axioms = {"S"}
  TerminalNames = {"a"}
  NonterminalNames = {"S", "A"}
  Empty = ""
  RightSides <- SmallRightSides
  Shares = {2}
  Full = 2
  MaxRules = 1
INVARIANT ClosuresFit
