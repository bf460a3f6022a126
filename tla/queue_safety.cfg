CONSTANTS
  r1 = r1
  r2 = r2
  Runners <- TwoRunners
  FaultProne <- TwoRunners
  Priorities = {5}
  MaxRetries = 2
  MaxTasks = 3
SPECIFICATION Spec
SYMMETRY RunnerSymmetry
INVARIANTS NoDoubleDispatch AttemptsBounded DependenciesFirst ChainIsSingle
PROPERTIES CancelSticks
