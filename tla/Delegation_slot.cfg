SPECIFICATION Spec
CONSTANTS
  u1 = u1
  u2 = u2
  u3 = u3
  c1 = c1
  c2 = c2
  Monitor = Monitor
  Unit = {u1, u2, u3}
  Call = {c1, c2}
  Plan <- SplitAndSingle
  Monitored = {u1, u2, u3}
  MaxAsync = 1
  MaxRetained = 2
  MaxTerminal = 2
  Drained = {}
  MaxFailures = 0
  MaxCrashes = 0
INVARIANT LaterUnitsAdmitted
CHECK_DEADLOCK FALSE
