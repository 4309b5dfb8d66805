CONSTANTS
  Insts = {"uart0", "uart1"}
  FifoBytes = 2
  PacketBytes = 2
  MaxBytes = 4
  MaxCommands = 3
SPECIFICATION FairSpec
INVARIANTS
  IrqOnLiveFifo
  SoleSource
  EnabledIsReady
  BytesInOrder
PROPERTIES
  CommandsEnd
  BytesFlow
CHECK_DEADLOCK FALSE
