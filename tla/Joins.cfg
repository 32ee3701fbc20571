SPECIFICATION JoinsSpec
\* The consumer may stop after Finish or Close, and a join or a sort ends.
CHECK_DEADLOCK FALSE
CONSTANTS
  Null = Null
  Idle = Idle
  NumParts = 2
  NumLanes = 2
  Window = 2
  Threads = 2
  RowCounts = {0, 1, 2}
  MaxRows = 3
  root = root
  outer = outer
  inner = inner
  nested = nested
  Root = root
  Builds = {outer, inner, nested}
  InputsOf <- TwoJoins
  PartCount = 2
  PoolThreads = 2
  BuildRowCount = 2
  MaxRuns = 2
  NoValue = NoValue
  MaxInt64 = 7
  MinSlack = 1
  NumBatches = 4
  MaxWindow = 3
  ComputeThreads = 2
INVARIANTS
  TableExact
  BuiltLikeSerial
  ErrorsSurface
  JoinExact
  TablesHeld
  RowsExact
  WindowCorrect
  TopNSameAsSerial
PROPERTIES
  ComputeRefines
