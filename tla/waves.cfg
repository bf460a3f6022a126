CONSTANTS
  t1 = t1
  t2 = t2
  t3 = t3
  t4 = t4
  a1 = a1
  a2 = a2
  Tasks <- FourTasks
  Deps <- FourDeps
  Paths = {"p", "q", "r"}
  Path <- FourPaths
  Agents <- TwoAgents
  Cap <- OneEach
  NoAgent = NoAgent
  PoolSize = 2
  GlobalCap = 2
  Ticketed <- FirstTask
  MaxUpsets = 1
SPECIFICATION FairSpec
INVARIANTS RunApart EverythingSettles GivenUpForCause
PROPERTIES CallEnds FreeSeatIsUsed
CHECK_DEADLOCK FALSE
