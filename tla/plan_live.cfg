SPECIFICATION FairSpec
CONSTANTS
  e1 = e1
  e2 = e2
  d1 = d1
  d2 = d2
  NoOne = NoOne
  Executors <- TwoDaemons
  Deciders <- OneOperator
  FaultProne <- Nobody
  BodySizes = {0, 2}
  MaxSubObjectives = 32
  TokenCap = 2
  Outcomes <- OutcomeClasses
  TicketBound = 3
PROPERTIES
  RunsEnd
  ApprovedIsPickedUp
CHECK_DEADLOCK FALSE
