SPECIFICATION Spec
CONSTANTS
  Procs = {p1, p2}
  Channels = {c1, c2}
  Free = Free
  MaxCrashes = 2
  MaxFailures = 1
  MaxEdits = 1
  Servers = {2, 3}
  MaxLeases = 2
  Services <- MCServices
  Kinds <- MCKinds
  Ports = {e1, e2}
  Foreign = Foreign
  MaxApplies = 2
SYMMETRY Symmetry
INVARIANTS
  AlwaysRecoverable
  EnabledIsComplete
  ForeignProxyKept
  OwnedIsJournaled
CHECK_DEADLOCK FALSE
