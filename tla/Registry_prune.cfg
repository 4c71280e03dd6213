SPECIFICATION Spec
CONSTANTS
  s1 = s1
  s2 = s2
  t1 = t1
  t2 = t2
  Session = {s1, s2}
  Tool = {t1}
  Kind <- SandboxThenAdopted
  ClosesOutput = {s2}
  Orphans = {}
  Queries = {"id"}
  Calls = {"wait"}
  MaxProcesses = 1
  MaxOld = 1
  MaxCrashes = 0
PROPERTIES EvictBeforeGrow
CHECK_DEADLOCK FALSE
