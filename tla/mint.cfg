CONSTANTS
  root = root
  a = a
  b = b
  c = c
  d = d
  Tasks <- DeepTasks
  Root = root
  Kids <- DeepKids
  LaneOrder <- DeepOrder
  Attempts = 2
  MaxMints = 3
  MaxPasses = 2
  MaxReopens = 1
  MaxCrashes = 1
  MaxFaults = 1
SPECIFICATION Spec
INVARIANTS ReplayAttemptsOnce MintIsSpent ContainerFollowsChildren Disclosed
PROPERTIES NothingIsTakenBack
CHECK_DEADLOCK FALSE
