SPECIFICATION Spec
CONSTANTS
  Axioms = {"S", ""}
  TerminalNames = {"a", "A"}
  NonterminalNames = {"S", "A", ""}
  Empty = ""
  RightSides <- MCRightSides
  Shares = {1, 2}
  Full = 2
  MaxRules = 2
INVARIANTS
  TypeOK
  DeclaredBeforeUse
  CheckedIsWellFormed
  ClosuresRight
PROPERTIES
  RecheckIsStable
  FailureChangesNothing
