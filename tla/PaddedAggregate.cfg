SPECIFICATION PlannerSpec
CONSTANTS
  Idle = Idle
  Unread = Unread
  Parts = {"optimizer"}
  Statements <- MCTexts
  ParsesTo <- ParsedText
  Prints <- Canonical
  SameTree <- SameTrees
  DepthOf <- DepthOfTree
  WheresOf <- WheresOfText
  OrderOf <- OrderJoins
  Largest = 30
  Widest = 500
  BuildSideRatio = 200
  SearchRelations = 4
  LeastRestriction = 2
  LeastReduction = 3
  LeastKeptPercent = 90
  LeastNarrowing = 8
  Plans <- PaddedOrZero
  Unnested <- Unnest
  After <- RuleApplied
  Answers <- Answered
  ResolvesTo <- ResolvePositions
INVARIANT OptimizedAnswer
CHECK_DEADLOCK FALSE
