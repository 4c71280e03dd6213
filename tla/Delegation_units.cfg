SPECIFICATION ExecutionSpec
CONSTANTS
  u1 = u1
  u2 = u2
  u3 = u3
  c1 = c1
  c2 = c2
  Monitor = Monitor
  Unit = {u1, u2, u3}
  Call = {c1, c2}
  Plan <- SplitAndSingle
  Monitored = {u3}
  MaxAsync = 1
  MaxRetained = 1
  MaxTerminal = 1
  Drained = {}
  MaxFailures = 0
  MaxCrashes = 0
  x1 = x1
  x2 = x2
  b1 = b1
  b2 = b2
  Cell = {x1, x2}
  KernelKey = {b1, b2}
  OwnerOf <- OneOwnerEach
  MaxKernels = 1
  NoKernel = NoKernel
  y1 = y1
  y2 = y2
  SyncFile = {y1, y2}
  Credential = {y2}
  MaxAttempt = 2
  MaxWrites = 4
  d1 = d1
  p1 = p1
  p2 = p2
  Item = {d1}
  Consumer = {p1, p2}
  Home <- RanByOne
  Lease = 1
  MaxAttempts = 3
  MaxAge = 3
  MaxNow = 4
  MaxStarts = 3
  s1 = s1
  s2 = s2
  Watched = {s1, s2}
  AsksNotice = {s2}
  Interval = 1
  StrikeLimit = 2
  MaxHits = 3
  Cap = 1
  Window = 2
  Cooldown = 2
  MaxClock = 4
INVARIANTS LeaseHeld InjectedOnce SilenceExplained PromiseKept FloodAccounted
INVARIANTS KernelsOwned OwnReply SavesKept
INVARIANTS TypeOK PublishedOnce SlotsBounded PoolServes
CHECK_DEADLOCK FALSE
