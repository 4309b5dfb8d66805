CONSTANTS
  Writers = {w1, w2}
  Handlers = {h1}
  Hub = hub
  NoThread = none
  Pins = {3}
  Values = {90, 180}
  Mixes <- OneKind
  MaxCommands = 3
  MaxUses = 1
SPECIFICATION FairSpec


CHECK_DEADLOCK FALSE
PROPERTIES
  HandlersEnd
