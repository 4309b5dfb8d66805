CONSTANTS
  QueueSlots = 1
  RxSlots = 1
  TxSlots = 1
  Kinds = {"gpio data", "spi data", "spi refused"}
  MaxPackets = 3
  MaxUart = 2
SPECIFICATION FairSpec
INVARIANTS
  CommandsInOrder
  OutputInOrder
  ChunksAnswered
PROPERTIES
  EveryCommandRuns
