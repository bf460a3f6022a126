SPECIFICATION Spec
CONSTANTS
  e1 = e1
  e2 = e2
  d1 = d1
  d2 = d2
  NoOne = NoOne
  Executors <- TwoDaemons
  Deciders <- OneOperator
  FaultProne <- Everyone
  BodySizes = {2}
  MaxSubObjectives = 32
  TokenCap = 2
  Outcomes <- OutcomeClasses
  TicketBound = 4
INVARIANTS
  SingleRunner
  ExecutionFollowsApproval
  ResumePoint
  NothingSkipped
  SpendIsBacked
PROPERTIES
  SpendNeverResets
  ImplementsGrant
CHECK_DEADLOCK FALSE
