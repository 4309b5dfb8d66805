CONSTANTS
  t1 = t1
  t2 = t2
  Threads = {t1, t2}
  NoThread = NoThread
  Client <- AdcAndSetup
  Commands <- NoCommands
  LateReplies = TRUE
  MaxCalls = 3
  MaxCommands = 0
  MaxFaults = 1
SPECIFICATION FairSpec
INVARIANTS
  ArmedByHolder
  RealAnswer
  AtMostOnce
PROPERTIES
  EveryCallReturns
