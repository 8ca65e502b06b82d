SPECIFICATION Spec
CONSTANTS
  Rules <- DiamondRules
  Terminals <- MCTerminals
  Axiom = "S"
  Empty = ""
  Skip = "SKIP"
  Rl <- DiamondR
  Ru <- DiamondR
  Zero <- RatZero
  One <- RatOne
  Plus <- RatPlus
  Times <- RatTimes
  Ratio <- RatRatio
  Less <- RatLess
  Observations <- Certain
  MaxParse = 2
INVARIANT ViterbiIsBest
