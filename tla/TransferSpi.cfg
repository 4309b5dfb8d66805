CONSTANTS
  t1 = t1
  t2 = t2
  Threads = {t1}
  NoThread = NoThread
  Client <- OneSpi
  Commands <- QuietCommands
  LateReplies = FALSE
  MaxCalls = 3
  MaxCommands = 1
  MaxFaults = 2
SPECIFICATION Spec
INVARIANTS
  MatchedReply
