SPECIFICATION SchedulingSpec
CONSTANTS
  NumParts = 4
  MaxWindow = 3
  Threads = 2
  Allocators = {t1, t2}
  MaxSize = 2
  Limits <- SmallLimits
INVARIANTS
  TypeOK
  AloneInRetry
  WindowBound
  NothingLeft
  Accounting
  WithinLimit
  PeakCovers
PROPERTIES
  CallsReturn
  Refinement
\* A closed scheduler takes no step; a hang anywhere else violates CallsReturn.
CHECK_DEADLOCK FALSE
