SPECIFICATION Spec
CONSTANTS
  Rules <- LoopRules
  Terminals <- MCTerminals
  Axiom = "S"
  Empty = ""
  Skip = "SKIP"
  Rl <- LoopR
  Ru <- LoopR
  Zero <- RatZero
  One <- RatOne
  Plus <- RatPlus
  Times <- RatTimes
  Ratio <- RatRatio
  Less <- RatLess
  Observations <- Certain
  MaxParse = 2
INVARIANT NotItsOwnChild
