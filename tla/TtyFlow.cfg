CONSTANTS
  MaxActive = 2
  Opost = TRUE
  MaxPieces = 4
  MaxSettings = 2
  MaxFaults = 2
SPECIFICATION FairSpec
INVARIANTS
  TypeOK
  WritesInOrder
  CountCoversUrbs
  UrbsBounded
PROPERTIES
  AllWritten
CHECK_DEADLOCK FALSE
