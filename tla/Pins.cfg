CONSTANTS
  I2cPins <- SomeI2cPins
  UartPins <- SomeUartPins
  SpiPins <- SomeSpiPins
  CsPins = {5, 13}
  LedPins = {6, 25}
  PwmPins = {8}
  ServoPins = {6, 22}
  GpioPins = {0, 10}
  Brightness = {1, 255}
  Duties = {0, 25, 100}
  Period = 100
  Ranges = {0, 270}
  Angles = {0, 91, 300}
  MaxCommands = 5
SPECIFICATION Spec
INVARIANTS
  ViewHolds
  OneBus
CHECK_DEADLOCK FALSE
