SPECIFICATION Spec
CHECK_DEADLOCK FALSE
CONSTANTS
  PartRows = 3
  BatchSize = 2
  Idle = Idle
  Null = Null
  Fails = Fails
INVARIANTS
  SupportedIsScanned
