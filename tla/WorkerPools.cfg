CONSTANTS
  NumParts = 3
  MaxLanes = 2
  MaxPending = 2
  Threads = 2
  MaxTasks = 3
  LoopThreads = 2
  Idle = Idle
  root = root
  outer = outer
  inner = inner
  nested = nested
SPECIFICATION PoolsSpec
INVARIANTS
  LanesInOrder
  LoopDecides
PROPERTIES
  PoolsReturn
\* Nothing follows Finish(), Close() or the end of a merge; a call that hangs violates PoolsReturn.
CHECK_DEADLOCK FALSE
