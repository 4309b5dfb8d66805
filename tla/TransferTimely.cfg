CONSTANTS
  t1 = t1
  t2 = t2
  Threads = {t1, t2}
  NoThread = NoThread
  Client <- GpioAndI2c
  Commands <- QuietCommands
  LateReplies = FALSE
  MaxCalls = 3
  MaxCommands = 1
  MaxFaults = 2
SPECIFICATION Spec
INVARIANTS
  MatchedReply
  ErrorsHaveCause
  RxBufExclusive
  OwnPacketSent
PROPERTIES
  ImplementsLink
