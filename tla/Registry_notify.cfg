SPECIFICATION Spec
CONSTANTS
  s1 = s1
  s2 = s2
  t1 = t1
  t2 = t2
  Session = {s1}
  Tool = {t1}
  Kind <- AllLocal
  ClosesOutput = {}
  Orphans = {}
  Queries = {"id"}
  Calls = {"poll"}
  MaxProcesses = 2
  MaxOld = 0
  MaxCrashes = 0
INVARIANT NotifiesOnExit
CHECK_DEADLOCK FALSE
