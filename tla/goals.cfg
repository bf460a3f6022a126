CONSTANTS
  a = a
  b = b
  NoUnit = NoUnit
  NGoals = 1
  Units <- TwoUnits
  Needs <- InLine
  MaxRetries = 1
  MaxDrain = 1
  Lanes = {"leader", "floor"}
  Leftovers <- Earlier
  MaxDecisions = 1
  MaxDeletions = 1
SPECIFICATION FairSpec
INVARIANTS NoGoalLeftLive CompletedOwesNothing VerdictsAreBounded StopClearsRun
PROPERTIES KickoffEnds
CHECK_DEADLOCK FALSE
