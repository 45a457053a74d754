SPECIFICATION Spec
CONSTANTS
  Reqs = {r1, r2}
  Rec = Rec
  Free = Free
  Kinds = {"ready", "direct", "stop", "reset", "select"}
  ProxyModes = {"none", "checked"}
  MaxRecoveries = 1
  MaxWakes = 1
  MaxToggles = 2
  MaxMutations = 1
  ClearMayFail = TRUE
SYMMETRY Symmetry
INVARIANTS
  EngineOwned
  StopWins
  RunningWasAccepted
  FailureLeavesNoEngine
  ProxyFollowsEngine
PROPERTIES
  OwnershipKept
  NewestAccepts
  RecoveryStopsItsOwn
CHECK_DEADLOCK FALSE
