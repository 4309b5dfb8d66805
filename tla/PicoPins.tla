------------------------------ MODULE PicoPins ------------------------------
(***************************************************************************)
(* What core 1 does with the pins of the RP2040: the handlers of I2C, SPI, *)
(* UART, PWM, servo and GPIO commands, against what the host made of each  *)
(* pin.  Core 1 executes one command at a time, so that a command is one   *)
(* action; what goes wrong here takes several of them.                     *)
(*                                                                         *)
(* Pins are in range (the handlers of SPI and UART do not check).  An      *)
(* action also has the host's part in it: the conversion of a brightness,  *)
(* a duty cycle or an angle, and the host's view of the pin.               *)
(***************************************************************************)
EXTENDS Integers

CONSTANTS
  I2cPins, UartPins,  \* pairs of pins the host asks for
  SpiPins,            \* triples
  CsPins, LedPins, PwmPins, ServoPins, GpioPins,
  Brightness,         \* 0 .. 255
  Duties,             \* duty cycles of a period of Period
  Period,
  Ranges, Angles,     \* of servos
  MaxCommands         \* bound: commands

Pins == 0 .. 29

(* RP2040_PIN_MAP.  None is 0xFF.                                          *)
None == 255
Unconnected == {23, 24, 25, 29}
UartId(p) == IF p \in Unconnected THEN None
             ELSE IF p \in {2, 3, 4, 5, 8, 9, 10, 11, 18, 19, 20, 21, 26, 27} THEN 1 ELSE 0
I2cId(p) == IF p \in Unconnected THEN None ELSE (p \div 2) % 2
SpiId(p) == IF p \in Unconnected THEN None ELSE IF p \in 8 .. 15 \cup {26, 27, 28} THEN 1 ELSE 0

(* uint16_t.                                                               *)
Top == 65535
Words == 0 .. Top

ASSUME PinsAssumption ==
  /\ I2cPins \subseteq Pins \X Pins /\ UartPins \subseteq Pins \X Pins
  /\ SpiPins \subseteq Pins \X Pins \X Pins
  /\ CsPins \cup LedPins \cup PwmPins \cup ServoPins \cup GpioPins \subseteq Pins
ASSUME ValuesAssumption ==
  /\ Brightness \subseteq 0 .. 255
  /\ Period \in Nat \ {0} /\ Duties \subseteq 0 .. Period
  /\ Ranges \subseteq Words /\ Angles \subseteq Words
ASSUME BoundAssumption == MaxCommands \in Nat

VARIABLES
  func,   \* the function each pin is routed to
  drive,  \* a pin of function "sio": an input, or driven low or high
  i2c,    \* pins of the configured I2C bus, {} if there is none
  spi,    \* pins of the SPI bus
  cs,     \* its chip selects
  uart,   \* pins of the UART
  wrap,   \* the wrap value of each PWM slice, 0 before the first
  level,  \* the compare level of each PWM channel
  servo,  \* the range of each servo, 0 if it was never configured
  leds,   \* the host's list of LEDs
  servos, \* its list of servos
  view,   \* what the host made of each pin: of which kind, with which value
  causes, \* what happened that makes the view wrong
  count   \* commands so far

busVars == <<i2c, spi, cs, uart>>
pwmVars == <<wrap, level, servo>>
lists == <<leds, servos>>
vars == <<func, drive, busVars, pwmVars, lists, view, causes, count>>

Kinds == {"free", "i2c", "spi", "cs", "uart", "led", "pwm", "servo", "out", "in"}

TypeOK ==
  /\ func \in [Pins -> {"null", "sio", "i2c", "spi", "uart", "pwm"}]
  /\ drive \in [Pins -> {"in", "low", "high"}]
  /\ i2c \subseteq Pins /\ spi \subseteq Pins /\ cs \subseteq Pins /\ uart \subseteq Pins
  /\ wrap \in [0 .. 7 -> {0, 62499, 65535}]
  /\ level \in [0 .. 15 -> Words]
  /\ servo \in [Pins -> Ranges \cup {0, 180}]
  /\ leds \subseteq Pins /\ servos \subseteq Pins
  /\ view \in [Pins -> [kind : Kinds, val : Nat]]
  /\ causes \subseteq {"clash", "refused", "slice", "left", "incapable"}
  /\ count \in 0 .. MaxCommands

Free == [kind |-> "free", val |-> 0]

Init ==
  /\ func = [p \in Pins |-> "null"] /\ drive = [p \in Pins |-> "in"]
  /\ i2c = {} /\ spi = {} /\ cs = {} /\ uart = {}
  /\ wrap = [s \in 0 .. 7 |-> 0] /\ level = [c \in 0 .. 15 |-> 0]
  /\ servo = [p \in Pins |-> 0]
  /\ leds = {} /\ servos = {}
  /\ view = [p \in Pins |-> Free]
  /\ causes = {} /\ count = 0

-----------------------------------------------------------------------------
(* Conversions.                                                            *)

(* picolink_led_set_brightness.                                            *)
LedLevel(b) == (b * 65535) \div 255

(* picolink_pwm_apply: the level is scaled to 16 bits and cast to 8.       *)
PwmLevel(d) == ((d * 65535) \div Period) % 256

(* 500us .. 2500us, in ticks of 0.32us.                                    *)
ServoLevel(angle, range) == (((500 + (angle * 2000) \div range) * 25) \div 8) % 65536

-----------------------------------------------------------------------------
(* Pins.                                                                   *)

Pair(pins) == {pins[i] : i \in DOMAIN pins}

Route(pins, f) == [p \in Pins |-> IF p \in pins THEN f ELSE func[p]]

(* Released pins are inputs of function "sio".                             *)
Rerouted(old, pins, f) ==
  [p \in Pins |-> IF p \in pins THEN f ELSE IF p \in old THEN "sio" ELSE func[p]]

Inputs(pins) == [p \in Pins |-> IF p \in pins THEN "in" ELSE drive[p]]

Viewed(old, pins, v) == [p \in Pins |-> IF p \in pins THEN v ELSE IF p \in old THEN Free ELSE view[p]]

(* The host names a pin that it uses for something else.                   *)
Clash(pins, kinds) ==
  IF \E p \in pins : view[p].kind \notin kinds \cup {"free"} THEN {"clash"} ELSE {}

Step == count < MaxCommands /\ count' = count + 1

-----------------------------------------------------------------------------
(* I2C.                                                                    *)

(* Both pins belong to one controller.                                     *)
I2cFits(pins) == I2cId(pins[1]) # None /\ I2cId(pins[2]) = I2cId(pins[1])

(* Mutant of ConfigI2c: the previous bus keeps its pins.                   *)
ConfigI2cOver(pins) ==
  LET new == Pair(pins)
      ok == I2cFits(pins)
  IN  /\ Step
      /\ func' = IF ok THEN Route(new, "i2c") ELSE func
      /\ i2c' = IF ok THEN new ELSE i2c
      /\ view' = Viewed({p \in Pins : view[p].kind = "i2c"}, new, [kind |-> "i2c", val |-> 0])
      /\ causes' = causes \cup Clash(new, {"i2c"}) \cup IF ok THEN {} ELSE {"refused"}
      /\ UNCHANGED <<drive, spi, cs, uart, pwmVars, lists>>

(* "i2c 0 1": refused unless the pins belong to one controller; otherwise  *)
(* the old bus is released first.  The host is not told.                   *)
ConfigI2c(pins) ==
  LET new == Pair(pins)
      ok == I2cFits(pins)
  IN  /\ Step
      /\ func' = IF ok THEN Rerouted(i2c, new, "i2c") ELSE func
      /\ drive' = IF ok THEN Inputs(i2c) ELSE drive
      /\ i2c' = IF ok THEN new ELSE i2c
      /\ view' = Viewed({p \in Pins : view[p].kind = "i2c"}, new, [kind |-> "i2c", val |-> 0])
      /\ causes' = causes \cup Clash(new, {"i2c"}) \cup IF ok THEN {} ELSE {"refused"}
      /\ UNCHANGED <<spi, cs, uart, pwmVars, lists>>

(* "i2c disable".                                                          *)
DisableI2c ==
  /\ Step
  /\ func' = Route(i2c, "sio") /\ drive' = Inputs(i2c)
  /\ i2c' = {}
  /\ view' = Viewed({p \in Pins : view[p].kind = "i2c"}, {}, Free)
  /\ UNCHANGED <<spi, cs, uart, pwmVars, lists, causes>>

-----------------------------------------------------------------------------
(* SPI.  DISABLE never gets to picolink_spi_disable.                       *)

SpiFits(pins) == SpiId(pins[1]) # None /\ \A i \in 2 .. 3 : SpiId(pins[i]) = SpiId(pins[1])

(* "spi 2 3 4": as I2C; the chip selects of the old bus are released, too, *)
(* unless there is no bus, and the new one has none.                       *)
ConfigSpi(pins) ==
  LET new == Pair(pins)
      ok == SpiFits(pins)
      selects == IF spi = {} THEN {} ELSE cs
  IN  /\ Step
      /\ func' = IF ok THEN Rerouted(spi \cup selects, new, "spi") ELSE func
      /\ drive' = IF ok THEN Inputs(selects) ELSE drive
      /\ spi' = IF ok THEN new ELSE spi
      /\ cs' = IF ok THEN {} ELSE cs
      /\ view' = Viewed({p \in Pins : view[p].kind \in {"spi", "cs"}}, new, [kind |-> "spi", val |-> 0])
      /\ causes' = causes \cup Clash(new, {"spi", "cs"}) \cup IF ok THEN {} ELSE {"refused"}
      /\ UNCHANGED <<i2c, uart, pwmVars, lists>>

(* "spi cs 0 5", when there is an SPI child: the one chip select of this   *)
(* module.  A pin it had before stays as it is.                            *)
ConfigCs(p) ==
  /\ Step
  /\ \E q \in Pins : view[q].kind = "spi"
  /\ func' = Route({p}, "sio")
  /\ drive' = [drive EXCEPT ![p] = "high"]
  /\ cs' = {p}
  /\ view' = Viewed({q \in Pins : view[q].kind = "cs"}, {p}, [kind |-> "cs", val |-> 0])
  /\ causes' = causes \cup Clash({p}, {"cs"})
  /\ UNCHANGED <<i2c, spi, uart, pwmVars, lists>>

-----------------------------------------------------------------------------
(* UART.                                                                   *)

(* "uart 0 1": 0xFF is not recognised as no UART but taken for uart1, and  *)
(* the receive pin is not looked at.  The old pins are not released.       *)
ConfigUart(pins) ==
  LET new == Pair(pins)
  IN  /\ Step
      /\ func' = Route(new, "uart")
      /\ uart' = new
      /\ view' = Viewed({p \in Pins : view[p].kind = "uart"}, new, [kind |-> "uart", val |-> 0])
      /\ causes' = causes \cup Clash(new, {"uart"})
                          \cup IF UartId(pins[1]) = None \/ UartId(pins[2]) # UartId(pins[1])
                                 THEN {"incapable"} ELSE {}
      /\ UNCHANGED <<drive, i2c, spi, cs, pwmVars, lists>>

DisableUart ==
  /\ Step
  /\ uart' = {}
  /\ view' = Viewed({p \in Pins : view[p].kind = "uart"}, {}, Free)
  /\ UNCHANGED <<func, drive, i2c, spi, cs, pwmVars, lists, causes>>

-----------------------------------------------------------------------------
(* PWM: slice s serves pins 2s, 2s+1, 2s+16 and 2s+17, with a channel for  *)
(* even and one for odd pins.                                              *)

Slice(p) == (p \div 2) % 8
Channel(p) == p % 16

(* pwm_init: both levels are 0 again.                                      *)
InitSlice(p, w, l) ==
  /\ wrap' = [wrap EXCEPT ![Slice(p)] = w]
  /\ level' = [c \in 0 .. 15 |-> IF c = Channel(p) THEN l ELSE IF c \div 2 = Slice(p) THEN 0 ELSE level[c]]

(* The slice is in use for another pin.                                    *)
Shared(p) ==
  IF \E q \in Pins \ {p} : Slice(q) = Slice(p) /\ view[q].kind \in {"led", "pwm", "servo"}
    THEN {"slice"} ELSE {}

(* A servo was disabled on that slice, which the firmware ignores: the pin *)
(* is a PWM pin still, with the period of servos.                          *)
Left(p) ==
  IF view[p].kind = "free" /\ func[p] = "pwm" /\ wrap[Slice(p)] # 65535 THEN {"left"} ELSE {}

(* The LED or the servo of a pin that was used for something else since.   *)
Lost(p, kind) == IF view[p].kind # kind THEN {"clash"} ELSE {}

(* DATA: the first initialises the slice, unless the pin is a PWM pin.     *)
SetPwm(p, l) ==
  /\ func' = Route({p}, "pwm")
  /\ IF func[p] # "pwm" THEN InitSlice(p, 65535, l)
     ELSE wrap' = wrap /\ level' = [level EXCEPT ![Channel(p)] = l]
  /\ UNCHANGED <<drive, busVars, servo>>

(* "led 5": the LED is registered.  The CONFIG sent is one byte too short  *)
(* for the firmware, which ignores it.  The view is 0 before the first     *)
(* brightness.                                                             *)
EnableLed(p) ==
  /\ Step
  /\ p \notin leds
  /\ leds' = leds \cup {p}
  /\ view' = Viewed({}, {p}, [kind |-> "led", val |-> 0])
  /\ causes' = causes \cup Clash({p}, {"led"}) \cup Shared(p) \cup Left(p)
  /\ UNCHANGED <<func, drive, busVars, pwmVars, servos>>

(* The brightness of an LED is set.                                        *)
SetLed(p, b) ==
  /\ Step
  /\ p \in leds
  /\ SetPwm(p, LedLevel(b))
  /\ view' = Viewed({}, {p}, [kind |-> "led", val |-> 1 + b])
  /\ causes' = causes \cup Lost(p, "led")
  /\ UNCHANGED lists

(* "led 5 disable": led_classdev_unregister turns the LED off, which makes *)
(* the pin a PWM pin if it is none.                                        *)
DisableLed(p) ==
  /\ Step
  /\ p \in leds
  /\ leds' = leds \ {p}
  /\ SetPwm(p, LedLevel(0))
  /\ view' = Viewed({}, {p}, Free)
  /\ causes' = causes \cup Lost(p, "led")
  /\ UNCHANGED servos

(* A PWM channel of the host is applied: one that is not enabled as one of *)
(* duty cycle 0.                                                           *)
ApplyPwm(p, d) ==
  /\ Step
  /\ SetPwm(p, PwmLevel(d))
  /\ view' = Viewed({}, {p}, [kind |-> "pwm", val |-> d])
  /\ causes' = causes \cup Clash({p}, {"pwm"}) \cup Shared(p) \cup Left(p)
  /\ UNCHANGED lists

(* Mutant of ConfigServo: the PWM slice of the pin is not set up again     *)
(* when it is a PWM pin.                                                   *)
ConfigServoOnce(p, r) ==
  /\ Step
  /\ servos' = servos \cup {p}
  /\ servo' = [servo EXCEPT ![p] = IF r = 0 THEN 180 ELSE r]
  /\ func' = Route({p}, "pwm")
  /\ IF func[p] # "pwm" THEN InitSlice(p, 62499, 0) ELSE UNCHANGED <<wrap, level>>
  /\ view' = Viewed({}, {p}, [kind |-> "servo", val |-> 0])
  /\ causes' = causes \cup Clash({p}, {"servo"}) \cup Shared(p)
  /\ UNCHANGED <<drive, busVars, leds>>

(* "servo3 180": no pulse before the first angle.                          *)
ConfigServo(p, r) ==
  /\ Step
  /\ servos' = servos \cup {p}
  /\ servo' = [servo EXCEPT ![p] = IF r = 0 THEN 180 ELSE r]
  /\ func' = Route({p}, "pwm")
  /\ InitSlice(p, 62499, 0)
  /\ view' = Viewed({}, {p}, [kind |-> "servo", val |-> 0])
  /\ causes' = causes \cup Clash({p}, {"servo"}) \cup Shared(p)
  /\ UNCHANGED <<drive, busVars, leds>>

(* "servo3 90", or a write of its attribute "angle".  The view is 0 before *)
(* the first angle.                                                        *)
SetServo(p, a) ==
  LET angle == IF a > servo[p] THEN servo[p] ELSE a
  IN  /\ Step
      /\ p \in servos
      /\ level' = [level EXCEPT ![Channel(p)] = ServoLevel(angle, servo[p])]
      /\ view' = Viewed({}, {p}, [kind |-> "servo", val |-> 1 + angle])
      /\ causes' = causes \cup Lost(p, "servo")
      /\ UNCHANGED <<func, drive, busVars, wrap, servo, lists>>

(* "servo3 disable": the firmware ignores the DISABLE.                     *)
DisableServo(p) ==
  /\ Step
  /\ p \in servos
  /\ servos' = servos \ {p}
  /\ view' = Viewed({}, {p}, Free)
  /\ causes' = causes \cup Lost(p, "servo")
  /\ UNCHANGED <<func, drive, busVars, pwmVars, leds>>

-----------------------------------------------------------------------------
(* GPIO.                                                                   *)

(* CONFIG as an input or an output, which is low at first.                 *)
ConfigGpio(p, kind) ==
  /\ Step
  /\ func' = Route({p}, "sio")
  /\ drive' = [drive EXCEPT ![p] = IF kind = "out" THEN "low" ELSE "in"]
  /\ view' = Viewed({}, {p}, [kind |-> kind, val |-> 0])
  /\ causes' = causes \cup Clash({p}, {"in", "out"})
  /\ UNCHANGED <<busVars, pwmVars, lists>>

(* DATA for an output.                                                     *)
SetGpio(p, v) ==
  /\ Step
  /\ view[p].kind = "out"
  /\ drive' = [drive EXCEPT ![p] = IF @ = "in" THEN "in" ELSE IF v = 1 THEN "high" ELSE "low"]
  /\ view' = [view EXCEPT ![p].val = v]
  /\ UNCHANGED <<func, busVars, pwmVars, lists, causes>>

-----------------------------------------------------------------------------

Next ==
  \/ \E pins \in I2cPins : ConfigI2c(pins)
  \/ DisableI2c
  \/ \E pins \in SpiPins : ConfigSpi(pins)
  \/ \E p \in CsPins : ConfigCs(p)
  \/ \E pins \in UartPins : ConfigUart(pins)
  \/ DisableUart
  \/ \E p \in LedPins : \/ EnableLed(p)
                        \/ \E b \in Brightness : SetLed(p, b)
                        \/ DisableLed(p)
  \/ \E p \in PwmPins, d \in Duties : ApplyPwm(p, d)
  \/ \E p \in ServoPins : \/ \E r \in Ranges : ConfigServo(p, r)
                          \/ \E a \in Angles : SetServo(p, a)
                          \/ DisableServo(p)
  \/ \E p \in GpioPins : \/ \E kind \in {"in", "out"} : ConfigGpio(p, kind)
                         \/ \E v \in {0, 1} : SetGpio(p, v)

Spec == Init /\ [][Next]_vars

-----------------------------------------------------------------------------
(* Properties.                                                             *)

(* The pulse of a servo whose angle was set differs from the exact one by  *)
(* less than 4us (12 ticks), and there is no pulse before: 500us at 0 and  *)
(* 2500us at the end of the range.                                         *)
PulseRight(p) ==
  LET v == view[p].val
      exact == 25 * (500 * servo[p] + 2000 * (v - 1))  \* in ticks, times 8 * range
      is == 8 * servo[p] * level[Channel(p)]
  IN  /\ wrap[Slice(p)] = 62499
      /\ IF v = 0 THEN level[Channel(p)] = 0
         ELSE exact - is \in 0 .. 12 * 8 * servo[p]

(* The pin is what the host made of it, with the value the host gave it;   *)
(* for a PWM pin, the value that picolink_pwm_apply makes of its duty      *)
(* cycle (it does not keep the duty cycle, DutyKept).                      *)
Agrees(p) ==
  CASE view[p].kind \in {"i2c", "spi", "uart"} -> func[p] = view[p].kind
    [] view[p].kind = "cs" -> func[p] = "sio" /\ drive[p] = "high"
    [] view[p].kind = "in" -> func[p] = "sio" /\ drive[p] = "in"
    [] view[p].kind = "out" ->
         func[p] = "sio" /\ drive[p] = IF view[p].val = 1 THEN "high" ELSE "low"
    [] view[p].kind = "led" ->
         IF view[p].val = 0 THEN func[p] = "pwm" => wrap[Slice(p)] = 65535
         ELSE /\ func[p] = "pwm" /\ wrap[Slice(p)] = 65535
              /\ level[Channel(p)] * 255 = (view[p].val - 1) * 65535
    [] view[p].kind = "pwm" ->
         /\ func[p] = "pwm" /\ wrap[Slice(p)] = 65535
         /\ level[Channel(p)] = PwmLevel(view[p].val)
    [] view[p].kind = "servo" -> func[p] = "pwm" /\ PulseRight(p)
    [] OTHER -> TRUE

(* Every pin is what the host made of it, with the value the host gave it  *)
(* last (a PWM pin with the 8 bits picolink_pwm_apply makes of it): as     *)
(* long as no command named a pin in use or two pins of one PWM slice,     *)
(* none was refused without the host's knowledge, no UART has pins of      *)
(* another, and no pin was left with the period of servos (main.c 64-149;  *)
(* i2c_handler.c 25-62, 129-149; spi_handler.c 18-98; pwm_handler.c 50-78; *)
(* servo_handler.c 18-59; mfd-pwm.c 233-238, 346, 378-402).                *)
ViewHolds == causes = {} => \A p \in Pins : Agrees(p)

(* The pins that are I2C pins at any time belong to one controller, and so *)
(* do those that are SPI pins: no bus of before is left on the pins,       *)
(* whichever commands clash or are refused (i2c_handler.c 41-49, 129-149;  *)
(* spi_handler.c 18-34, 65-75).                                            *)
OneBus ==
  \A p, q \in Pins :
    /\ func[p] = "i2c" /\ func[q] = "i2c" => I2cId(p) = I2cId(q)
    /\ func[p] = "spi" /\ func[q] = "spi" => SpiId(p) = SpiId(q)

(* The larger the share of a period a host PWM channel is to be on, the    *)
(* larger its level (mfd-pwm.c 389-391).                                   *)
DutyKept ==
  \A p, q \in Pins :
    (/\ causes = {}
     /\ view[p].kind = "pwm" /\ view[q].kind = "pwm"
     /\ view[p].val < view[q].val) => level[Channel(p)] < level[Channel(q)]

=============================================================================
