SPECIFICATION FairSpec
CONSTANTS
  Reqs = {r1, r2}
  Rec = Rec
  Free = Free
  Kinds = {"ready", "select", "stop"}
  ProxyModes = {"clear"}
  MaxRecoveries = 1
  MaxWakes = 0
  MaxToggles = 1
  MaxMutations = 0
  ClearMayFail = FALSE
PROPERTIES
  RequestsEnd
  CrashIsNoticed
CHECK_DEADLOCK FALSE
