CONSTANTS
  daemon = daemon
  shell = shell
  j1 = j1
  j2 = j2
  Jobs = {j1}
  Sweepers = {daemon, shell}
  FaultProne = {shell}
  Kinds = {"once", "interval", "calendar"}
  Counts = {0, 1}
  Untils = {0, 2}
  Step = 2
  MaxTime = 3
  MaxRuns = 2
  MaxTorn = 1
SPECIFICATION FairSpec
INVARIANTS CountIsUpperLimit OnTheGrid
PROPERTIES FireIsCalledFor DueIsServed
