CONSTANTS
  root = root
  a = a
  b = b
  c = c
  d = d
  Tasks <- FlatTasks
  Root = root
  Kids <- FlatKids
  LaneOrder <- FlatOrder
  Attempts = 2
  MaxMints = 2
  MaxPasses = 2
  MaxReopens = 1
  MaxCrashes = 1
  MaxFaults = 0
SPECIFICATION Spec
INVARIANTS AttemptedOnce
CHECK_DEADLOCK FALSE
