CONSTANTS
  r1 = r1
  r2 = r2
  Runners <- TwoRunners
  FaultProne <- TwoRunners
  Priorities = {1, 5}
  MaxRetries = 2
  MaxTasks = 2
SPECIFICATION FairSpec
PROPERTIES NothingRunsForever
