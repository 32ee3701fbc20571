SPECIFICATION PlannerSpec
CONSTANTS
  Idle = Idle
  Unread = Unread
  Parts = {"sql"}
  Statements <- PostfixTexts
  ParsesTo <- ParsedText
  Prints <- Canonical
  SameTree <- SameTrees
  DepthOf <- DepthOfTree
  WheresOf <- WheresOfText
  OrderOf <- OrderJoins
  Largest = 30
  Widest = 500
  BuildSideRatio = 200
  SearchRelations = 4
  LeastRestriction = 2
  LeastReduction = 3
  LeastKeptPercent = 90
  LeastNarrowing = 8
  Plans <- MCPlans
  Unnested <- Unnest
  After <- RuleApplied
  Answers <- Answered
  ResolvesTo <- ResolvePositions
INVARIANT CanonicalFormParses
CHECK_DEADLOCK FALSE
