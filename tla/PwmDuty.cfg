CONSTANTS
  I2cPins = {}
  UartPins = {}
  SpiPins = {}
  CsPins = {}
  LedPins = {}
  PwmPins = {0, 2}
  ServoPins = {}
  GpioPins = {}
  Brightness = {}
  Duties = {0, 25, 50, 100}
  Period = 100
  Ranges = {}
  Angles = {}
  MaxCommands = 4
SPECIFICATION Spec
INVARIANTS
  DutyKept
CHECK_DEADLOCK FALSE
