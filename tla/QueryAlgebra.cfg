CONSTANTS
  NoTable = NoTable
  NoFailing = NoFailing
  Idle = Idle
  Null = Null
  GroupingKeys = {k1, k2}
  NumParts = 2
  NumLanes = 2
  MergeWindow = 2
  Threads = 2
SPECIFICATION AlgebraSpec
INVARIANTS
  SetRowsExact
  PlanMeansCompound
  SharedAnswer
  GroupsExact
  AggregatesExact
  MergeSameAsSerial
