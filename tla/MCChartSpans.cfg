SPECIFICATION FairSpec
CONSTANTS
  Rules <- SpanRules
  Terminals <- MCTerminals
  Axiom = "S"
  Empty = ""
  Skip = "SKIP"
  Rl <- SpanRl
  Ru <- SpanRu
  Zero <- RatZero
  One <- RatOne
  Plus <- RatPlus
  Times <- RatTimes
  Ratio <- RatRatio
  Less <- RatLess
  Observations <- SpanObservations
  MaxParse = 3
INVARIANTS
  TypeOK
  NoDuplicates
  NeverLost
  CellOrder
  ChildrenSpan
  GammaIsInside
  VIsBest
  AlphaIsForward
  ItemsAreEarley
  ChildrenScoreV
PROPERTIES
  Settled
  ParsesEnd
