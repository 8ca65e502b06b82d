SPECIFICATION Spec
CONSTANTS
  Rules <- LateRules
  Terminals <- MCTerminals
  Axiom = "S"
  Empty = ""
  Skip = "SKIP"
  Rl <- LateR
  Ru <- LateR
  Zero <- RatZero
  One <- RatOne
  Plus <- RatPlus
  Times <- RatTimes
  Ratio <- RatRatio
  Less <- RatLess
  Observations <- Certain
  MaxParse = 2
INVARIANT ViterbiReturns
