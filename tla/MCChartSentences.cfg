SPECIFICATION Spec
CONSTANTS
  Rules <- SentenceRules
  Terminals <- MCTerminals
  Axiom = "S"
  Empty = ""
  Skip = "SKIP"
  Rl <- SentenceRl
  Ru <- SentenceRu
  Zero <- RatZero
  One <- RatOne
  Plus <- RatPlus
  Times <- RatTimes
  Ratio <- RatRatio
  Less <- RatLess
  Observations <- SentenceObservations
  MaxParse = 4
INVARIANTS
  PrefixProbability
  PredictionIsConditional
  ViterbiIsBest
  ChildrenMatch
  ChildrenAreThere
