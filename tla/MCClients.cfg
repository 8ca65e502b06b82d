SPECIFICATION ClientsSpec
CONSTANTS
  Axioms <- MCNames
  TerminalNames <- MCNames
  NonterminalNames <- MCNames
  Empty = ""
  RightSides = {}
  Shares <- MCShares
  Full = 1000
  MaxRules = 20
  Words <- MCWords
  Spelled <- MCSpelled
  Options = {"--debug", "--predict", "--cl"}
  Supported = {"--debug", "--predict"}
  Writable = {"grammar", "data", "out"}
  Prose = "Section"
  MaxPrinted = 30
  Invocations <- MCInvocations
  Heads <- MCHeads
  Printed <- MCPrinted
INVARIANTS
  ReaderTypeOK
  OnlyWhatIsWritten
  LoadersAgree
  RoundTrip
  LinesAreWhole
  ExitCodeTells
  LoadedIsAccepted
  DeclaredBeforeUse
PROPERTIES
  ProgramEnds
