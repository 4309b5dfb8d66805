CONSTANTS
  t1 = t1
  t2 = t2
  Threads = {t1, t2}
  NoThread = NoThread
  Client <- TwoI2c
  Commands <- NoCommands
  LateReplies = TRUE
  MaxCalls = 2
  MaxCommands = 0
  MaxFaults = 0
SPECIFICATION Spec
INVARIANTS
  MatchedReply
