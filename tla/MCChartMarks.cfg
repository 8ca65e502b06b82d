SPECIFICATION Spec
CONSTANTS
  Rules <- MarkRules
  Terminals <- MCTerminals
  Axiom = "S"
  Empty = ""
  Skip = "SKIP"
  Rl <- MarkRl
  Ru <- MarkRu
  Zero <- RatZero
  One <- RatOne
  Plus <- RatPlus
  Times <- RatTimes
  Ratio <- RatRatio
  Less <- RatLess
  Observations <- MarkObservations
  MaxParse = 3
INVARIANTS
  Saturated
  ApartInTime
