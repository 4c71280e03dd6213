SPECIFICATION Spec
CONSTANTS
  s1 = s1
  s2 = s2
  t1 = t1
  t2 = t2
  Session = {s1, s2}
  Tool = {t1}
  Kind <- AllLocal
  ClosesOutput = {}
  Orphans = {}
  Queries = {"id"}
  Calls = {"poll"}
  MaxProcesses = 3
  MaxOld = 1
  MaxCrashes = 0
INVARIANT RoutingPersisted
CHECK_DEADLOCK FALSE
