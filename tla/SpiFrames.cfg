CONSTANTS
  Devices = {d0, d1}
  CsPins = {p5, p9}
  NoPin = NoPin
  MaxChunks = 2
  MaxTransfers = 2
  MaxConfigs = 3
  MaxOthers = 1
  MaxWaiting = 1
SPECIFICATION Spec
SYMMETRY Symmetry
INVARIANTS
  ChunksInOrder
  OnlyAddressed
  Framed
  DoneIsServed
  FailureHasCause
CHECK_DEADLOCK FALSE
