--------------------------- MODULE MCPicoTransfer ---------------------------
(* Small instances of PicoTransfer.                                        *)
EXTENDS PicoTransfer, TLC

CONSTANTS t1, t2

GpioAndI2c == t1 :> "GPIO" @@ t2 :> "I2C"
AdcAndSetup == t1 :> "ADC" @@ t2 :> "SPISETUP"
TwoI2c == t1 :> "I2C" @@ t2 :> "I2C"
OneSpi == t1 :> "SPI"

(* Commands that no completing packet answers.                             *)
QuietCommands == {Packet("GPIO", "CONFIG", 0), Packet("PWM", "DATA", 0)}
NoCommands == {}

=============================================================================
