CONSTANTS
  a = a
  b = b
  NoUnit = NoUnit
  NGoals = 2
  Units <- OneUnit
  Needs <- Alone
  MaxRetries = 1
  MaxDrain = 1
  Lanes = {"leader", "floor"}
  Leftovers = {}
  MaxDecisions = 1
  MaxDeletions = 0
SPECIFICATION Spec
INVARIANTS DeniedIsRedone
CHECK_DEADLOCK FALSE
