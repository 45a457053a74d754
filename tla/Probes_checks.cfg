SPECIFICATION Spec
CONSTANTS
  MaxOps = 2
  Attempts = 2
  Limits <- MCLimits
INVARIANTS
  CoreHasOwner
  AnswerIsOwn
  HealthIsCurrent
  ExitLeavesNothing
PROPERTIES
  AnswerFresh
CHECK_DEADLOCK FALSE
