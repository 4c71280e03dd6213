SPECIFICATION ServicesSpec
CONSTANTS
  a1 = a1
  a2 = a2
  kp = kp
  kt = kt
  Check = {a1, a2}
  Command = {"m"}
  Key = {kp, kt}
  Text <- SameCommand
  Findings <- TwoFindings
  Tirith = {kt}
  Smart = TRUE
  Hand = {h1}
  q1 = q1
  q2 = q2
  k1 = k1
  Prompt = {q1, q2}
  Chat = {k1}
  ChatOf <- InOneChat
  OpenEnded = {q2}
  Unlimited = {q1}
  c1 = c1
  c2 = c2
  r1 = r1
  u1 = u1
  u2 = u2
  Confirm = {c1, c2}
  Room = {r1}
  RoomOf <- InOneRoom
  Click = {u1, u2}
  StaleAfter = 1
  MaxSeconds = 3
  g1 = g1
  g2 = g2
  f1 = f1
  f2 = f2
  outside = outside
  Agent = {g1, g2}
  File = {f1, f2}
  Rank <- TwoFiles
  Outside = outside
  Region <- WindowsOfOne
  Edits <- OneOrBoth
  Exposed = {f1}
  MaxCalls = 3
  m1 = m1
  Caller = {m1}
  Kinds = {"http", "stdio"}
  MaxRetries = 1
  MaxInitial = 1
INVARIANTS ServicesTypeOK Consented OnceForOne KeysEarned Answerable
INVARIANTS AcceptedIsReturned PromptFindable HandlerOnce
INVARIANTS PathExclusive ClobberWarned SomeoneMoves StubIsCurrent
INVARIANTS FlapperParks RequestsKept
PROPERTIES AnswersArrive
CHECK_DEADLOCK FALSE
