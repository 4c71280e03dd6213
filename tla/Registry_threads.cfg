SPECIFICATION Spec
CONSTANTS
  s1 = s1
  s2 = s2
  t1 = t1
  t2 = t2
  Session = {s1}
  Tool = {t1, t2}
  Kind <- AllLocal
  ClosesOutput = {}
  Orphans = {s1}
  Queries = {"id"}
  Calls = {"poll", "wait", "log", "kill", "reap"}
  MaxProcesses = 2
  MaxOld = 0
  MaxCrashes = 1
INVARIANTS TypeOK CompletionOnce LiveIsTracked RunningAttended
PROPERTIES KillSticks NoDuplicate Announced
CHECK_DEADLOCK FALSE
