SPECIFICATION FairSpec
CONSTANTS
  l1 = l1
  l2 = l2
  None = None
  Loops <- TwoLoops
  FaultProne <- FirstLoop
  Wedged <- FirstLoop
  Tasks = {"draft"}
  Keys = {"render", "search"}
  Lanes = {"producer", "converse"}
  Caps = {1, 2}
  TaskCap = 1
  QCCap = 2
  Legacy = 1
  MaxDay = 1
  MaxCalls = 0
INVARIANTS DailyCapHolds TaskCapHolds ChargedOnce NothingUncharged
PROPERTIES ImplementsAuthority EveryCallIsAnswered
