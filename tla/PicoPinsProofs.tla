--------------------------- MODULE PicoPinsProofs ---------------------------
(***************************************************************************)
(* Proofs about PicoPins, for any pins, values, ranges and bounds: the     *)
(* types, that the pins of a bus never belong to two controllers, and that *)
(* every pin is what the host made of it.                                  *)
(***************************************************************************)
EXTENDS PicoPins, TLAPS

(* The variables' types, by the part of the firmware that writes them.     *)
RouteType ==
  /\ func \in [Pins -> {"null", "sio", "i2c", "spi", "uart", "pwm"}]
  /\ drive \in [Pins -> {"in", "low", "high"}]
BusType == i2c \subseteq Pins /\ spi \subseteq Pins /\ cs \subseteq Pins /\ uart \subseteq Pins
SliceType == wrap \in [0 .. 7 -> {0, 62499, 65535}] /\ level \in [0 .. 15 -> Words]
ServoType == servo \in [Pins -> Ranges \cup {0, 180}]
ListType == leds \subseteq Pins /\ servos \subseteq Pins
ViewType == view \in [Pins -> [kind : Kinds, val : Nat]]
LogType ==
  /\ causes \subseteq {"clash", "refused", "slice", "left", "incapable"}
  /\ count \in 0 .. MaxCommands

LEMMA TypeParts ==
  TypeOK <=> RouteType /\ BusType /\ SliceType /\ ServoType /\ ListType /\ ViewType /\ LogType
BY DEF TypeOK, RouteType, BusType, SliceType, ServoType, ListType, ViewType, LogType

(* A servo in the host's list was configured: with a range.                *)
ServoRanged == \A p \in servos : servo[p] \in Nat \ {0}

(* Every I2C and every SPI pin belongs to the bus of now, whose pins       *)
(* belong to one controller.                                               *)
Routed ==
  /\ \A p \in Pins : func[p] = "i2c" => p \in i2c
  /\ \A p \in Pins : func[p] = "spi" => p \in spi
  /\ \A p, q \in i2c : I2cId(p) = I2cId(q)
  /\ \A p, q \in spi : SpiId(p) = SpiId(q)

PinsInv == TypeOK /\ ServoRanged /\ Routed

-----------------------------------------------------------------------------
(* Conversions stay within 16 bits.                                        *)

LEMMA WordsDef == \A n \in Int : n \in Words <=> n >= 0 /\ n <= 65535
<1>1. Top \in Int /\ \A n \in Int : n <= Top <=> n <= 65535
  BY DEF Top
<1>2. \A n \in Int : n \in Words <=> n >= 0 /\ n <= Top
  BY <1>1 DEF Words
<1> QED BY <1>1, <1>2

LEMMA WordsNat == Words \subseteq Nat
<1>1. Top \in Nat
  BY DEF Top
<1> QED BY <1>1 DEF Words

LEMMA LedLevelType ==
  ASSUME NEW b \in 0 .. 255
  PROVE  LedLevel(b) \in Words
<1>1. LedLevel(b) \in Int /\ LedLevel(b) >= 0 /\ LedLevel(b) <= 65535
  BY DEF LedLevel
<1> QED BY <1>1, WordsDef

LEMMA DivType ==
  ASSUME NEW n \in Int, NEW m \in Nat \ {0}
  PROVE  n \div m \in Int
OBVIOUS

LEMMA PwmLevelType ==
  ASSUME NEW d \in Duties
  PROVE  PwmLevel(d) \in Words
<1>1. d * 65535 \in Int /\ Period \in Nat \ {0}
  BY ValuesAssumption
<1>2. (d * 65535) \div Period \in Int
  BY <1>1, DivType
<1>3. PICK x \in Int : x = (d * 65535) \div Period
  BY <1>2
<1>4. PwmLevel(d) = x % 256
  BY <1>3 DEF PwmLevel
<1>5. PwmLevel(d) \in Int
  BY <1>4
<1>6. PwmLevel(d) >= 0 /\ PwmLevel(d) <= 65535
  BY <1>4, <1>5
<1> QED BY <1>5, <1>6, WordsDef

LEMMA ServoLevelType ==
  ASSUME NEW angle \in Int, NEW range \in Nat \ {0}
  PROVE  ServoLevel(angle, range) \in Words
<1>1. (angle * 2000) \div range \in Int
  BY DivType
<1>2. PICK x \in Int : x = ((500 + (angle * 2000) \div range) * 25) \div 8
  BY <1>1
<1>3. ServoLevel(angle, range) = x % 65536
  BY <1>2 DEF ServoLevel
<1>4. ServoLevel(angle, range) \in Int
  BY <1>3
<1>5. ServoLevel(angle, range) >= 0 /\ ServoLevel(angle, range) <= 65535
  BY <1>3, <1>4
<1> QED BY <1>4, <1>5, WordsDef

LEMMA SliceOfPin ==
  ASSUME NEW p \in Pins
  PROVE  Slice(p) \in 0 .. 7 /\ Channel(p) \in 0 .. 15
BY DEF Pins, Slice, Channel

-----------------------------------------------------------------------------
(* Routing.                                                                *)

LEMMA RouteKeeps ==
  ASSUME RouteType, NEW pins, NEW f \in {"null", "sio", "i2c", "spi", "uart", "pwm"}
  PROVE  Route(pins, f) \in [Pins -> {"null", "sio", "i2c", "spi", "uart", "pwm"}]
BY DEF RouteType, Route

LEMMA ReroutedKeeps ==
  ASSUME RouteType, NEW old, NEW pins, NEW f \in {"i2c", "spi"}
  PROVE  Rerouted(old, pins, f) \in [Pins -> {"null", "sio", "i2c", "spi", "uart", "pwm"}]
BY DEF RouteType, Rerouted

LEMMA InputsKeeps ==
  ASSUME RouteType, NEW pins
  PROVE  Inputs(pins) \in [Pins -> {"in", "low", "high"}]
BY DEF RouteType, Inputs

LEMMA ViewedType ==
  ASSUME ViewType, NEW old, NEW pins, NEW v \in [kind : Kinds, val : Nat]
  PROVE  Viewed(old, pins, v) \in [Pins -> [kind : Kinds, val : Nat]]
<1>1. Free \in [kind : Kinds, val : Nat]
  BY DEF Free, Kinds
<1> QED BY <1>1 DEF ViewType, Viewed

LEMMA PairType ==
  /\ \A pins \in I2cPins : Pair(pins) = {pins[1], pins[2]} /\ pins[1] \in Pins /\ pins[2] \in Pins
  /\ \A pins \in UartPins : Pair(pins) = {pins[1], pins[2]} /\ pins[1] \in Pins /\ pins[2] \in Pins
  /\ \A pins \in SpiPins :
       /\ Pair(pins) = {pins[1], pins[2], pins[3]}
       /\ pins[1] \in Pins /\ pins[2] \in Pins /\ pins[3] \in Pins
<1>1. ASSUME NEW pins \in Pins \X Pins
      PROVE  Pair(pins) = {pins[1], pins[2]} /\ pins[1] \in Pins /\ pins[2] \in Pins
  <2>1. DOMAIN pins = {1, 2} /\ pins[1] \in Pins /\ pins[2] \in Pins
    OBVIOUS
  <2> QED BY <2>1 DEF Pair
<1>2. ASSUME NEW pins \in Pins \X Pins \X Pins
      PROVE  /\ Pair(pins) = {pins[1], pins[2], pins[3]}
             /\ pins[1] \in Pins /\ pins[2] \in Pins /\ pins[3] \in Pins
  <2>1. DOMAIN pins = {1, 2, 3} /\ pins[1] \in Pins /\ pins[2] \in Pins /\ pins[3] \in Pins
    OBVIOUS
  <2> QED BY <2>1 DEF Pair
<1> QED BY <1>1, <1>2, PinsAssumption

-----------------------------------------------------------------------------
(* Types.                                                                  *)

LEMMA ExceptType ==
  ASSUME NEW S, NEW T, NEW g \in [S -> T], NEW x, NEW y \in T
  PROVE  [g EXCEPT ![x] = y] \in [S -> T]
OBVIOUS

LEMMA InitSliceType ==
  ASSUME SliceType, NEW p \in Pins, NEW w \in {62499, 65535}, NEW l \in Words, InitSlice(p, w, l)
  PROVE  SliceType'
<1>1. 0 \in Words
  BY WordsDef
<1>2. wrap' \in [0 .. 7 -> {0, 62499, 65535}]
  <2> DEFINE Wraps == {0, 62499, 65535}
  <2>1. w \in Wraps
    OBVIOUS
  <2>2. wrap' = [wrap EXCEPT ![Slice(p)] = w] /\ wrap \in [0 .. 7 -> Wraps]
    BY DEF SliceType, InitSlice
  <2> HIDE DEF Wraps
  <2>3. wrap' \in [0 .. 7 -> Wraps]
    BY <2>1, <2>2, ExceptType
  <2> QED BY <2>3 DEF Wraps
<1>3. level' \in [0 .. 15 -> Words]
  BY <1>1 DEF SliceType, InitSlice
<1> QED BY <1>2, <1>3 DEF SliceType

LEMMA SetPwmType ==
  ASSUME TypeOK, NEW p \in Pins, NEW l \in Words, SetPwm(p, l)
  PROVE  RouteType' /\ SliceType' /\ BusType' /\ ServoType'
<1>0. RouteType /\ BusType /\ SliceType /\ ServoType
  BY TypeParts
<1>1. RouteType'
  BY <1>0, RouteKeeps DEF SetPwm, RouteType
<1>2. SliceType'
  <2>1. CASE func[p] # "pwm"
    BY <1>0, <2>1, InitSliceType DEF SetPwm
  <2>2. CASE func[p] = "pwm"
    BY <1>0, <2>2 DEF SetPwm, SliceType
  <2> QED BY <2>1, <2>2
<1>3. BusType' /\ ServoType'
  BY <1>0 DEF SetPwm, BusType, ServoType, busVars
<1> QED BY <1>1, <1>2, <1>3

LEMMA TypeInit == Init => TypeOK
<1> SUFFICES ASSUME Init PROVE TypeOK
  OBVIOUS
<1>1. 0 \in Words /\ Free \in [kind : Kinds, val : Nat]
  BY WordsDef DEF Free, Kinds
<1>2. RouteType /\ BusType /\ ServoType /\ ListType
  BY DEF Init, RouteType, BusType, ServoType, ListType
<1>3. SliceType /\ ViewType
  BY <1>1 DEF Init, SliceType, ViewType
<1>4. LogType
  BY BoundAssumption DEF Init, LogType
<1> QED BY <1>2, <1>3, <1>4, TypeParts

LEMMA TypeStep ==
  ASSUME TypeOK, ServoRanged, [Next]_vars
  PROVE  TypeOK'
<1>0. RouteType /\ BusType /\ SliceType /\ ServoType /\ ListType /\ ViewType /\ LogType
  BY TypeParts
<1>p. RouteType' /\ BusType' /\ SliceType' /\ ServoType' /\ ListType' /\ ViewType' /\ LogType' => TypeOK'
  BY DEF TypeOK, RouteType, BusType, SliceType, ServoType, ListType, ViewType, LogType
<1>l. UNCHANGED lists => ListType'
  BY <1>0 DEF ListType, lists
<1>a. UNCHANGED pwmVars => SliceType' /\ ServoType'
  BY <1>0 DEF SliceType, ServoType, pwmVars
<1>b. ASSUME NEW old, NEW pins, NEW kind \in Kinds, NEW n \in Nat,
             view' = Viewed(old, pins, [kind |-> kind, val |-> n])
      PROVE  ViewType'
  BY <1>0, <1>b, ViewedType DEF ViewType
<1>c. Step => count' \in 0 .. MaxCommands
  BY <1>0, BoundAssumption DEF Step, LogType
<1>d. ASSUME NEW f \in {"null", "sio", "i2c", "spi", "uart", "pwm"}, NEW pins, NEW more,
             func' = Route(pins, f), drive' = drive \/ drive' = Inputs(more)
      PROVE  RouteType'
  BY <1>0, <1>d, RouteKeeps, InputsKeeps DEF RouteType
<1>e. ASSUME NEW f \in {"i2c", "spi"}, NEW old, NEW pins, NEW more,
             func' = func \/ func' = Rerouted(old, pins, f), drive' = drive \/ drive' = Inputs(more)
      PROVE  RouteType'
  BY <1>0, <1>e, ReroutedKeeps, InputsKeeps DEF RouteType
<1>f. UNCHANGED busVars => BusType'
  BY <1>0 DEF BusType, busVars
<1>1. ASSUME NEW pins \in I2cPins, ConfigI2c(pins) PROVE TypeOK'
  <2>1. Pair(pins) \subseteq Pins
    BY PairType
  <2>2. RouteType'
    BY <1>1, <1>e DEF ConfigI2c
  <2>3. BusType'
    BY <1>0, <1>1, <2>1 DEF ConfigI2c, BusType
  <2>4. ViewType'
    BY <1>1, <1>b DEF ConfigI2c, Kinds
  <2>5. LogType'
    BY <1>0, <1>1, <1>c DEF ConfigI2c, LogType, Clash
  <2> QED BY <1>1, <1>a, <1>l, <1>p, <2>2, <2>3, <2>4, <2>5 DEF ConfigI2c
<1>2. CASE DisableI2c
  <2>1. RouteType'
    BY <1>2, <1>d DEF DisableI2c
  <2>2. BusType'
    BY <1>0, <1>2 DEF DisableI2c, BusType
  <2>3. ViewType'
    BY <1>2, <1>b DEF DisableI2c, Free, Kinds
  <2>4. LogType'
    BY <1>0, <1>2, <1>c DEF DisableI2c, LogType
  <2> QED BY <1>2, <1>a, <1>l, <1>p, <2>1, <2>2, <2>3, <2>4 DEF DisableI2c
<1>3. ASSUME NEW pins \in SpiPins, ConfigSpi(pins) PROVE TypeOK'
  <2>1. Pair(pins) \subseteq Pins
    BY PairType
  <2>2. RouteType'
    BY <1>3, <1>e DEF ConfigSpi
  <2>3. BusType'
    BY <1>0, <1>3, <2>1 DEF ConfigSpi, BusType
  <2>4. ViewType'
    BY <1>3, <1>b DEF ConfigSpi, Kinds
  <2>5. LogType'
    BY <1>0, <1>3, <1>c DEF ConfigSpi, LogType, Clash
  <2> QED BY <1>3, <1>a, <1>l, <1>p, <2>2, <2>3, <2>4, <2>5 DEF ConfigSpi
<1>4. ASSUME NEW p \in CsPins, ConfigCs(p) PROVE TypeOK'
  <2>1. p \in Pins
    BY PinsAssumption
  <2>2. RouteType'
    BY <1>0, <1>4, <2>1, RouteKeeps DEF ConfigCs, RouteType
  <2>3. BusType'
    BY <1>0, <1>4, <2>1 DEF ConfigCs, BusType
  <2>4. ViewType'
    BY <1>4, <1>b DEF ConfigCs, Kinds
  <2>5. LogType'
    BY <1>0, <1>4, <1>c DEF ConfigCs, LogType, Clash
  <2> QED BY <1>4, <1>a, <1>l, <1>p, <2>2, <2>3, <2>4, <2>5 DEF ConfigCs
<1>5. ASSUME NEW pins \in UartPins, ConfigUart(pins) PROVE TypeOK'
  <2>1. Pair(pins) \subseteq Pins
    BY PairType
  <2>2. RouteType'
    BY <1>5, <1>d DEF ConfigUart
  <2>3. BusType'
    BY <1>0, <1>5, <2>1 DEF ConfigUart, BusType
  <2>4. ViewType'
    BY <1>5, <1>b DEF ConfigUart, Kinds
  <2>5. LogType'
    BY <1>0, <1>5, <1>c DEF ConfigUart, LogType, Clash
  <2> QED BY <1>5, <1>a, <1>l, <1>p, <2>2, <2>3, <2>4, <2>5 DEF ConfigUart
<1>6. CASE DisableUart
  <2>1. RouteType' /\ BusType'
    BY <1>0, <1>6 DEF DisableUart, RouteType, BusType
  <2>2. ViewType'
    BY <1>6, <1>b DEF DisableUart, Free, Kinds
  <2>3. LogType'
    BY <1>0, <1>6, <1>c DEF DisableUart, LogType
  <2> QED BY <1>6, <1>a, <1>l, <1>p, <2>1, <2>2, <2>3 DEF DisableUart
<1>7. ASSUME NEW p \in LedPins, EnableLed(p) PROVE TypeOK'
  <2>1. RouteType' /\ ListType'
    BY <1>0, <1>7, PinsAssumption DEF EnableLed, RouteType, ListType
  <2>2. ViewType'
    BY <1>7, <1>b DEF EnableLed, Kinds
  <2>3. LogType'
    BY <1>0, <1>7, <1>c DEF EnableLed, LogType, Clash, Shared, Left
  <2> QED BY <1>7, <1>a, <1>f, <1>p, <2>1, <2>2, <2>3 DEF EnableLed
<1>8. ASSUME NEW p \in LedPins, NEW b \in Brightness, SetLed(p, b) PROVE TypeOK'
  <2>1. p \in Pins /\ b \in 0 .. 255 /\ 1 + b \in Nat
    BY PinsAssumption, ValuesAssumption
  <2>2. SetPwm(p, LedLevel(b)) /\ UNCHANGED lists
    BY <1>8 DEF SetLed
  <2>3. RouteType' /\ SliceType' /\ BusType' /\ ServoType'
    BY <2>1, <2>2, LedLevelType, SetPwmType
  <2>4. ViewType'
    BY <1>8, <1>b, <2>1 DEF SetLed, Kinds
  <2>5. LogType'
    BY <1>0, <1>8, <1>c DEF SetLed, LogType, Lost
  <2> QED BY <1>l, <1>p, <2>2, <2>3, <2>4, <2>5
<1>9. ASSUME NEW p \in LedPins, DisableLed(p) PROVE TypeOK'
  <2>1. p \in Pins /\ 0 \in 0 .. 255
    BY PinsAssumption
  <2>2. SetPwm(p, LedLevel(0))
    BY <1>9 DEF DisableLed
  <2>3. RouteType' /\ SliceType' /\ BusType' /\ ServoType'
    BY <2>1, <2>2, LedLevelType, SetPwmType
  <2>4. ViewType'
    BY <1>9, <1>b DEF DisableLed, Free, Kinds
  <2>5. LogType'
    BY <1>0, <1>9, <1>c DEF DisableLed, LogType, Lost
  <2>6. ListType'
    BY <1>0, <1>9 DEF DisableLed, ListType
  <2> QED BY <1>p, <2>3, <2>4, <2>5, <2>6
<1>10. ASSUME NEW p \in PwmPins, NEW d \in Duties, ApplyPwm(p, d) PROVE TypeOK'
  <2>1. p \in Pins /\ d \in Nat
    BY PinsAssumption, ValuesAssumption
  <2>2. SetPwm(p, PwmLevel(d)) /\ UNCHANGED lists
    BY <1>10 DEF ApplyPwm
  <2>3. RouteType' /\ SliceType' /\ BusType' /\ ServoType'
    BY <2>1, <2>2, PwmLevelType, SetPwmType
  <2>4. ViewType'
    BY <1>10, <1>b, <2>1 DEF ApplyPwm, Kinds
  <2>5. LogType'
    BY <1>0, <1>10, <1>c DEF ApplyPwm, LogType, Clash, Shared, Left
  <2> QED BY <1>l, <1>p, <2>2, <2>3, <2>4, <2>5
<1>11. ASSUME NEW p \in ServoPins, NEW r \in Ranges, ConfigServo(p, r) PROVE TypeOK'
  <2>1. p \in Pins
    BY PinsAssumption
  <2>2. RouteType'
    BY <1>11, <1>d DEF ConfigServo
  <2>3. SliceType'
    BY <1>0, <1>11, <2>1, WordsDef, InitSliceType DEF ConfigServo
  <2>4. ServoType' /\ ListType'
    BY <1>0, <1>11, <2>1 DEF ConfigServo, ServoType, ListType
  <2>5. ViewType'
    BY <1>11, <1>b DEF ConfigServo, Kinds
  <2>6. LogType'
    BY <1>0, <1>11, <1>c DEF ConfigServo, LogType, Clash, Shared
  <2> QED BY <1>11, <1>f, <1>p, <2>2, <2>3, <2>4, <2>5, <2>6 DEF ConfigServo
<1>12. ASSUME NEW p \in ServoPins, NEW a \in Angles, SetServo(p, a) PROVE TypeOK'
  <2> DEFINE angle == IF a > servo[p] THEN servo[p] ELSE a
  <2>1. p \in Pins /\ servo[p] \in Nat \ {0}
    BY <1>12, PinsAssumption DEF SetServo, ServoRanged
  <2>2. a \in Nat
    BY ValuesAssumption, WordsNat
  <2>3. angle \in Nat /\ 1 + angle \in Nat
    BY <2>1, <2>2
  <2>4. ServoLevel(angle, servo[p]) \in Words
    BY <2>1, <2>3, ServoLevelType
  <2>5. /\ level' = [level EXCEPT ![Channel(p)] = ServoLevel(angle, servo[p])] /\ wrap' = wrap
        /\ view' = Viewed({}, {p}, [kind |-> "servo", val |-> 1 + angle])
    BY <1>12 DEF SetServo
  <2> HIDE DEF angle
  <2>6. SliceType'
    <3>1. level' \in [0 .. 15 -> Words]
      BY <1>0, <2>4, <2>5, ExceptType DEF SliceType
    <3> QED BY <1>0, <2>5, <3>1 DEF SliceType
  <2>7. ViewType'
    BY <1>b, <2>3, <2>5 DEF Kinds
  <2>8. RouteType' /\ ServoType'
    BY <1>0, <1>12 DEF SetServo, RouteType, ServoType
  <2>9. LogType'
    BY <1>0, <1>12, <1>c DEF SetServo, LogType, Lost
  <2> QED BY <1>12, <1>f, <1>l, <1>p, <2>6, <2>7, <2>8, <2>9 DEF SetServo
<1>13. ASSUME NEW p \in ServoPins, DisableServo(p) PROVE TypeOK'
  <2>1. RouteType' /\ ListType'
    BY <1>0, <1>13 DEF DisableServo, RouteType, ListType
  <2>2. ViewType'
    BY <1>13, <1>b DEF DisableServo, Free, Kinds
  <2>3. LogType'
    BY <1>0, <1>13, <1>c DEF DisableServo, LogType, Lost
  <2> QED BY <1>13, <1>a, <1>f, <1>p, <2>1, <2>2, <2>3 DEF DisableServo
<1>14. ASSUME NEW p \in GpioPins, NEW kind \in {"in", "out"}, ConfigGpio(p, kind) PROVE TypeOK'
  <2>1. RouteType'
    BY <1>0, <1>14, PinsAssumption, RouteKeeps DEF ConfigGpio, RouteType
  <2>2. ViewType'
    BY <1>14, <1>b DEF ConfigGpio, Kinds
  <2>3. LogType'
    BY <1>0, <1>14, <1>c DEF ConfigGpio, LogType, Clash
  <2> QED BY <1>14, <1>a, <1>f, <1>l, <1>p, <2>1, <2>2, <2>3 DEF ConfigGpio
<1>15. ASSUME NEW p \in GpioPins, NEW v \in {0, 1}, SetGpio(p, v) PROVE TypeOK'
  <2>1. RouteType' /\ ViewType'
    BY <1>0, <1>15, PinsAssumption DEF SetGpio, RouteType, ViewType
  <2>2. LogType'
    BY <1>0, <1>15, <1>c DEF SetGpio, LogType
  <2> QED BY <1>15, <1>a, <1>f, <1>l, <1>p, <2>1, <2>2 DEF SetGpio
<1>16. CASE UNCHANGED vars
  BY <1>16 DEF vars, busVars, pwmVars, lists, TypeOK
<1> QED BY <1>1, <1>2, <1>3, <1>4, <1>5, <1>6, <1>7, <1>8, <1>9, <1>10, <1>11, <1>12, <1>13, <1>14, <1>15, <1>16
     DEF Next

-----------------------------------------------------------------------------
(* Buses.                                                                  *)

LEMMA RangedStep ==
  ASSUME TypeOK, ServoRanged, [Next]_vars
  PROVE  ServoRanged'
<1>0. servo \in [Pins -> Ranges \cup {0, 180}] /\ servos \subseteq Pins
  BY DEF TypeOK
<1>a. UNCHANGED <<servo, servos>> => ServoRanged'
  BY DEF ServoRanged
<1>1. ASSUME NEW pins, ConfigI2c(pins) \/ ConfigSpi(pins) \/ ConfigUart(pins)
      PROVE  ServoRanged'
  BY <1>1, <1>a DEF ConfigI2c, ConfigSpi, ConfigUart, pwmVars, lists
<1>2. CASE DisableI2c \/ DisableUart
  BY <1>2, <1>a DEF DisableI2c, DisableUart, pwmVars, lists
<1>3. ASSUME NEW p, ConfigCs(p) \/ EnableLed(p) \/ DisableLed(p) PROVE ServoRanged'
  BY <1>3, <1>a DEF ConfigCs, EnableLed, DisableLed, SetPwm, pwmVars, lists
<1>4. ASSUME NEW p, NEW n, SetLed(p, n) \/ ApplyPwm(p, n) \/ ConfigGpio(p, n) \/ SetGpio(p, n)
      PROVE  ServoRanged'
  BY <1>4, <1>a DEF SetLed, ApplyPwm, ConfigGpio, SetGpio, SetPwm, pwmVars, lists
<1>5. ASSUME NEW p \in ServoPins, NEW r \in Ranges, ConfigServo(p, r) PROVE ServoRanged'
  <2>1. p \in Pins /\ r \in Nat
    BY PinsAssumption, ValuesAssumption, WordsNat
  <2>2. servo' = [servo EXCEPT ![p] = IF r = 0 THEN 180 ELSE r] /\ servos' = servos \cup {p}
    BY <1>5 DEF ConfigServo
  <2> QED BY <1>0, <2>1, <2>2 DEF ServoRanged
<1>6. ASSUME NEW p, NEW a, SetServo(p, a) PROVE ServoRanged'
  BY <1>6, <1>a DEF SetServo, lists
<1>7. ASSUME NEW p, DisableServo(p) PROVE ServoRanged'
  BY <1>7 DEF DisableServo, pwmVars, ServoRanged
<1>8. CASE UNCHANGED vars
  BY <1>8, <1>a DEF vars, pwmVars, lists
<1> QED BY <1>1, <1>2, <1>3, <1>4, <1>5, <1>6, <1>7, <1>8 DEF Next

LEMMA RoutedStep ==
  ASSUME TypeOK, Routed, [Next]_vars
  PROVE  Routed'
<1>0. func \in [Pins -> {"null", "sio", "i2c", "spi", "uart", "pwm"}]
  BY DEF TypeOK
<1>a. ASSUME NEW pins, NEW f \in {"sio", "uart", "pwm"},
             func' = Route(pins, f), UNCHANGED <<i2c, spi>>
      PROVE  Routed'
  BY <1>0, <1>a DEF Route, Routed
<1>b. UNCHANGED <<func, i2c, spi>> => Routed'
  BY DEF Routed
<1>1. ASSUME NEW pins \in I2cPins, ConfigI2c(pins) PROVE Routed'
  <2>1. CASE ~I2cFits(pins)
    BY <1>1, <1>b, <2>1 DEF ConfigI2c
  <2>2. CASE I2cFits(pins)
    <3>1. /\ i2c' = Pair(pins) /\ func' = Rerouted(i2c, Pair(pins), "i2c") /\ spi' = spi
      BY <1>1, <2>2 DEF ConfigI2c
    <3>2. \A p, q \in Pair(pins) : I2cId(p) = I2cId(q)
      BY <2>2, PairType DEF I2cFits
    <3> QED BY <1>0, <3>1, <3>2 DEF Rerouted, Routed
  <2> QED BY <2>1, <2>2
<1>2. CASE DisableI2c
  BY <1>0, <1>2 DEF DisableI2c, Route, Routed
<1>3. ASSUME NEW pins \in SpiPins, ConfigSpi(pins) PROVE Routed'
  <2>1. CASE ~SpiFits(pins)
    BY <1>3, <1>b, <2>1 DEF ConfigSpi
  <2>2. CASE SpiFits(pins)
    <3>1. PICK selects : /\ spi' = Pair(pins) /\ i2c' = i2c
                         /\ func' = Rerouted(spi \cup selects, Pair(pins), "spi")
      BY <1>3, <2>2 DEF ConfigSpi
    <3>2. SpiId(pins[2]) = SpiId(pins[1]) /\ SpiId(pins[3]) = SpiId(pins[1])
      BY <2>2 DEF SpiFits
    <3>3. \A p, q \in Pair(pins) : SpiId(p) = SpiId(q)
      BY <3>2, PairType
    <3> QED BY <1>0, <3>1, <3>3 DEF Rerouted, Routed
  <2> QED BY <2>1, <2>2
<1>4. ASSUME NEW p \in CsPins, ConfigCs(p) PROVE Routed'
  BY <1>4, <1>a DEF ConfigCs
<1>5. ASSUME NEW pins \in UartPins, ConfigUart(pins) PROVE Routed'
  BY <1>5, <1>a DEF ConfigUart
<1>6. CASE DisableUart
  BY <1>6, <1>b DEF DisableUart
<1>7. ASSUME NEW p, NEW l, SetPwm(p, l) PROVE Routed'
  BY <1>7, <1>a DEF SetPwm, busVars
<1>8. ASSUME NEW p, EnableLed(p) PROVE Routed'
  BY <1>8, <1>b DEF EnableLed, busVars
<1>9. ASSUME NEW p, NEW n, SetLed(p, n) \/ ApplyPwm(p, n) PROVE Routed'
  BY <1>7, <1>9 DEF SetLed, ApplyPwm
<1>10. ASSUME NEW p, DisableLed(p) PROVE Routed'
  BY <1>7, <1>10 DEF DisableLed
<1>11. ASSUME NEW p, NEW r, ConfigServo(p, r) PROVE Routed'
  BY <1>11, <1>a DEF ConfigServo, busVars
<1>12. ASSUME NEW p, NEW a, SetServo(p, a) PROVE Routed'
  BY <1>12, <1>b DEF SetServo, busVars
<1>13. ASSUME NEW p, DisableServo(p) PROVE Routed'
  BY <1>13, <1>b DEF DisableServo, busVars
<1>14. ASSUME NEW p, NEW kind, ConfigGpio(p, kind) PROVE Routed'
  BY <1>14, <1>a DEF ConfigGpio, busVars
<1>15. ASSUME NEW p, NEW v, SetGpio(p, v) PROVE Routed'
  BY <1>15, <1>b DEF SetGpio, busVars
<1>16. CASE UNCHANGED vars
  BY <1>16, <1>b DEF vars, busVars
<1> QED BY <1>1, <1>2, <1>3, <1>4, <1>5, <1>6, <1>8, <1>9, <1>10, <1>11, <1>12, <1>13, <1>14, <1>15, <1>16
     DEF Next

LEMMA PinsInvariant == Spec => []PinsInv
<1>1. Init => PinsInv
  <2>1. Init => ServoRanged /\ Routed
    BY DEF Init, Free, ServoRanged, Routed
  <2> QED BY <2>1, TypeInit DEF PinsInv
<1>2. PinsInv /\ [Next]_vars => PinsInv'
  BY TypeStep, RangedStep, RoutedStep DEF PinsInv
<1> QED BY <1>1, <1>2, PTL DEF Spec

-----------------------------------------------------------------------------

(* The state of the pins keeps its types: no level or range leaves 16 bits *)
(* (pwm_handler.c 50-78, servo_handler.c 18-59).                           *)
THEOREM PinsTypeCorrect == Spec => []TypeOK
<1>1. PinsInv => TypeOK
  BY DEF PinsInv
<1> QED BY <1>1, PinsInvariant, PTL

(* The I2C pins belong to one controller, and so do the SPI pins, whatever *)
(* the host asks for in whichever order (i2c_handler.c 41-49, 129-149;     *)
(* spi_handler.c 18-34, 65-75).                                            *)
THEOREM BusesAreWhole == Spec => []OneBus
<1>1. PinsInv => OneBus
  BY DEF PinsInv, Routed, OneBus
<1> QED BY <1>1, PinsInvariant, PTL

-----------------------------------------------------------------------------
(* Values.                                                                 *)

(* The level of an LED is its brightness on the scale of 16 bits, exactly. *)
LEMMA LedLevelExact ==
  ASSUME NEW b \in Nat
  PROVE  LedLevel(b) * 255 = b * 65535
BY DEF LedLevel

LEMMA Quotient ==
  ASSUME NEW n \in Nat, NEW m \in Nat \ {0}
  PROVE  /\ n \div m \in Int
         /\ (n \div m) * m <= n
         /\ n < (n \div m) * m + m
OBVIOUS

(* The level of a servo is rounded twice, each time down: by less than a   *)
(* microsecond and by less than a tick.                                    *)
Close(angle, range) ==
  25 * (500 * range + 2000 * angle) - 8 * range * ServoLevel(angle, range) \in 0 .. 12 * 8 * range

LEMMA ServoLevelClose ==
  ASSUME NEW angle \in Nat, NEW range \in Nat \ {0}, angle <= range
  PROVE  Close(angle, range)
<1>1. PICK q \in Int : q = (angle * 2000) \div range
  BY Quotient
<1>2. q * range <= angle * 2000 /\ angle * 2000 < q * range + range
  BY <1>1, Quotient
<1>3. q >= 0 /\ q <= 2000
  BY <1>1
<1>4. PICK l \in Int : l = ((500 + q) * 25) \div 8
  BY <1>3
<1>5. 8 * l <= (500 + q) * 25 /\ (500 + q) * 25 <= 8 * l + 7
  BY <1>3, <1>4
<1>6. ServoLevel(angle, range) = l
  <2>1. l >= 0 /\ l < 65536
    BY <1>3, <1>5
  <2>2. ServoLevel(angle, range) = l % 65536
    BY <1>1, <1>4 DEF ServoLevel
  <2> QED
    BY <2>1, <2>2
<1>7. PICK r \in 0 .. 7 : (500 + q) * 25 = 8 * l + r
  BY <1>5
<1>8. 25 * (500 * range + 2000 * angle) - 8 * range * l
        = range * r + 25 * (angle * 2000 - q * range)
  <2>1. range * ((500 + q) * 25) = range * (8 * l + r)
    BY <1>7
  <2>2. range * ((500 + q) * 25) = 25 * (500 * range) + 25 * (q * range)
    OBVIOUS
  <2>3. range * (8 * l + r) = 8 * range * l + range * r
    OBVIOUS
  <2> QED
    BY <2>1, <2>2, <2>3
<1>9. range * r \in 0 .. 7 * range
  <2>1. \A k \in 0 .. 7 : range * k >= 0 /\ range * k <= 7 * range
    OBVIOUS
  <2> QED
    BY <2>1
<1> QED
  BY <1>2, <1>6, <1>8, <1>9 DEF Close

-----------------------------------------------------------------------------
(* The host's view.                                                        *)

Clean == causes = {}

KindPins(kind) == {p \in Pins : view[p].kind = kind}

Sliced == {"led", "pwm", "servo"}

(* The buses have the pins of their kind, and a PWM slice has one pin.     *)
BusViews == i2c = KindPins("i2c") /\ spi = KindPins("spi") /\ cs = KindPins("cs")

Apart ==
  \A p, q \in Pins :
    p # q /\ view[p].kind \in Sliced /\ view[q].kind \in Sliced => Slice(p) # Slice(q)

AllAgree == \A p \in Pins : Agrees(p)

HoldInv == Clean => BusViews /\ Apart /\ AllAgree

(* What a pin's agreement depends on.                                      *)
LEMMA AgreesFrame ==
  ASSUME NEW p \in Pins, Agrees(p), view'[p] = view[p], func'[p] = func[p],
         view[p].kind \in {"cs", "in", "out"} => drive'[p] = drive[p],
         view[p].kind \in Sliced => /\ wrap'[Slice(p)] = wrap[Slice(p)]
                                    /\ level'[Channel(p)] = level[Channel(p)]
                                    /\ servo'[p] = servo[p]
  PROVE  Agrees(p)'
<1>1. CASE view[p].kind \in {"cs", "in", "out"}
  BY <1>1 DEF Agrees
<1>2. CASE view[p].kind \in Sliced
  <2>1. CASE view[p].kind = "servo"
    BY <2>1, <1>2 DEF Agrees, Sliced, PulseRight
  <2>2. CASE view[p].kind \in {"led", "pwm"}
    BY <2>2, <1>2 DEF Agrees, Sliced
  <2> QED
    BY <1>2, <2>1, <2>2 DEF Sliced
<1>3. CASE view[p].kind \notin {"cs", "in", "out"} \cup Sliced
  BY <1>3 DEF Agrees, Sliced
<1> QED
  BY <1>1, <1>2, <1>3

LEMMA FreeAgrees ==
  ASSUME NEW p \in Pins, view'[p] = Free
  PROVE  Agrees(p)'
BY DEF Agrees, Free

LEMMA ApartKept ==
  ASSUME Apart, \A p \in Pins : view'[p].kind \in Sliced => view[p].kind \in Sliced
  PROVE  Apart'
BY DEF Apart, Sliced, Slice

LEMMA ChannelSlice ==
  /\ \A p \in Pins : Channel(p) \div 2 = Slice(p)
  /\ \A p \in Pins : Slice(p) \in 0 .. 7 /\ Channel(p) \in 0 .. 15
BY DEF Pins, Channel, Slice

LEMMA BusViewsKept ==
  ASSUME BusViews, UNCHANGED <<i2c, spi, cs>>,
         \A p \in Pins : \/ view'[p] = view[p]
                        \/ /\ view[p].kind \notin {"i2c", "spi", "cs"}
                           /\ view'[p].kind \notin {"i2c", "spi", "cs"}
  PROVE  BusViews'
<1>1. i2c' = KindPins("i2c")'
  BY DEF BusViews, KindPins
<1>2. spi' = KindPins("spi")'
  BY DEF BusViews, KindPins
<1>3. cs' = KindPins("cs")'
  BY DEF BusViews, KindPins
<1> QED
  BY <1>1, <1>2, <1>3 DEF BusViews

(* A pin set up on a slice of its own leaves the others as they are.       *)
LEMMA OtherSlices ==
  ASSUME SliceType, NEW p \in Pins, NEW q \in Pins, Slice(q) # Slice(p), NEW w, NEW l,
         \/ InitSlice(p, w, l)
         \/ wrap' = wrap /\ level' = [level EXCEPT ![Channel(p)] = l]
  PROVE  wrap'[Slice(q)] = wrap[Slice(q)] /\ level'[Channel(q)] = level[Channel(q)]
<1>1. /\ Channel(p) # Channel(q) /\ Channel(q) \div 2 # Slice(p)
      /\ Channel(q) \in 0 .. 15 /\ Slice(q) \in 0 .. 7
  BY ChannelSlice
<1>2. CASE InitSlice(p, w, l)
  BY <1>1, <1>2 DEF InitSlice, SliceType
<1>3. CASE wrap' = wrap /\ level' = [level EXCEPT ![Channel(p)] = l]
  BY <1>1, <1>3 DEF SliceType
<1> QED
  BY <1>2, <1>3

(* ... and is set up itself.                                               *)
LEMMA OwnSlice ==
  ASSUME SliceType, NEW p \in Pins, NEW w, NEW l, InitSlice(p, w, l)
  PROVE  wrap'[Slice(p)] = w /\ level'[Channel(p)] = l
BY ChannelSlice DEF InitSlice, SliceType

-----------------------------------------------------------------------------
(* The commands, one at a time.                                            *)

LEMMA ConfigI2cHolds ==
  ASSUME TypeOK, BusViews, Apart, AllAgree, NEW pins \in I2cPins, ConfigI2c(pins), Clean'
  PROVE  (BusViews /\ Apart /\ AllAgree)'
<1> DEFINE new == Pair(pins)
<1>0. new \subseteq Pins
  BY PairType
<1> HIDE DEF new
<1>1. /\ i2c' = new /\ func' = Rerouted(i2c, new, "i2c") /\ drive' = Inputs(i2c)
      /\ \A p \in new : view[p].kind \in {"i2c", "free"}
      /\ view' = Viewed(i2c, new, [kind |-> "i2c", val |-> 0])
      /\ UNCHANGED <<spi, cs, pwmVars>>
  BY DEF ConfigI2c, Clean, Clash, new, BusViews, KindPins
<1>2. /\ \A p \in new : view'[p] = [kind |-> "i2c", val |-> 0] /\ func'[p] = "i2c"
      /\ \A p \in i2c \ new : view'[p] = Free
      /\ \A p \in Pins \ (i2c \cup new) :
           view'[p] = view[p] /\ func'[p] = func[p] /\ drive'[p] = drive[p]
      /\ \A p \in Pins : p \in i2c <=> view[p].kind = "i2c"
  BY <1>0, <1>1 DEF Viewed, Rerouted, Inputs, TypeOK, BusViews, KindPins
<1>3. BusViews'
  BY <1>0, <1>1, <1>2 DEF BusViews, KindPins, Free
<1>4. Apart'
  <2>1. \A p \in Pins : view'[p].kind \in Sliced => view[p].kind \in Sliced
    BY <1>2 DEF Sliced, Free
  <2> QED
    BY <2>1, ApartKept
<1>5. ASSUME NEW p \in Pins PROVE Agrees(p)'
  <2>1. CASE p \in new
    BY <1>2, <2>1 DEF Agrees
  <2>2. CASE p \in i2c \ new
    BY <1>2, <2>2, FreeAgrees
  <2>3. CASE p \notin i2c \cup new
    BY <1>1, <1>2, <2>3, AgreesFrame DEF AllAgree, pwmVars
  <2> QED
    BY <2>1, <2>2, <2>3
<1> QED
  BY <1>3, <1>4, <1>5 DEF AllAgree

LEMMA DisableI2cHolds ==
  ASSUME TypeOK, BusViews, Apart, AllAgree, DisableI2c
  PROVE  (BusViews /\ Apart /\ AllAgree)'
<1>1. /\ i2c' = {} /\ func' = Route(i2c, "sio") /\ drive' = Inputs(i2c)
      /\ view' = Viewed(i2c, {}, Free)
      /\ UNCHANGED <<spi, cs, pwmVars>>
  BY DEF DisableI2c, BusViews, KindPins
<1>2. /\ \A p \in i2c : view'[p] = Free
      /\ \A p \in Pins \ i2c :
           view'[p] = view[p] /\ func'[p] = func[p] /\ drive'[p] = drive[p]
      /\ \A p \in Pins : p \in i2c <=> view[p].kind = "i2c"
  BY <1>1 DEF Viewed, Route, Inputs, TypeOK, BusViews, KindPins
<1>3. BusViews'
  BY <1>1, <1>2 DEF BusViews, KindPins, Free
<1>4. Apart'
  <2>1. \A p \in Pins : view'[p].kind \in Sliced => view[p].kind \in Sliced
    BY <1>2 DEF Sliced, Free
  <2> QED
    BY <2>1, ApartKept
<1>5. ASSUME NEW p \in Pins PROVE Agrees(p)'
  <2>1. CASE p \in i2c
    BY <1>2, <2>1, FreeAgrees
  <2>2. CASE p \notin i2c
    BY <1>1, <1>2, <2>2, AgreesFrame DEF AllAgree, pwmVars
  <2> QED
    BY <2>1, <2>2
<1> QED
  BY <1>3, <1>4, <1>5 DEF AllAgree

LEMMA ConfigSpiHolds ==
  ASSUME TypeOK, BusViews, Apart, AllAgree, NEW pins \in SpiPins, ConfigSpi(pins), Clean'
  PROVE  (BusViews /\ Apart /\ AllAgree)'
<1> DEFINE new == Pair(pins)
           old == spi \cup cs
           selects == IF spi = {} THEN {} ELSE cs
<1>0. new \subseteq Pins
  BY PairType
<1>1. /\ spi' = new /\ cs' = {} /\ func' = Rerouted(spi \cup selects, new, "spi")
      /\ drive' = Inputs(selects) /\ selects \subseteq cs
      /\ \A p \in new : view[p].kind \in {"spi", "cs", "free"}
      /\ UNCHANGED <<i2c, pwmVars>>
  BY DEF ConfigSpi, Clean, Clash
<1>2. view' = Viewed(old, new, [kind |-> "spi", val |-> 0])
  <2>1. {p \in Pins : view[p].kind \in {"spi", "cs"}} = old
    BY DEF BusViews, KindPins
  <2> QED
    BY <2>1 DEF ConfigSpi
<1> HIDE DEF new, selects
<1>3. /\ \A p \in new : view'[p] = [kind |-> "spi", val |-> 0] /\ func'[p] = "spi"
      /\ \A p \in old \ new : view'[p] = Free
      /\ \A p \in Pins \ (old \cup new) :
           view'[p] = view[p] /\ func'[p] = func[p] /\ drive'[p] = drive[p]
      /\ \A p \in Pins : p \in old <=> view[p].kind \in {"spi", "cs"}
  BY <1>0, <1>1, <1>2 DEF Viewed, Rerouted, Inputs, TypeOK, BusViews, KindPins
<1> HIDE DEF old
<1>4. BusViews'
  <2>1. \A p \in Pins : view'[p].kind = "spi" <=> p \in new
    BY <1>3 DEF Free
  <2>2. \A p \in Pins : view'[p].kind # "cs"
    BY <1>3 DEF Free
  <2>3. \A p \in Pins : view'[p].kind = "i2c" <=> view[p].kind = "i2c"
    BY <1>1, <1>3 DEF Free
  <2>4. spi' = KindPins("spi")' /\ cs' = KindPins("cs")' /\ i2c' = KindPins("i2c")'
    BY <1>0, <1>1, <2>1, <2>2, <2>3 DEF BusViews, KindPins
  <2> QED
    BY <2>4 DEF BusViews
<1>5. Apart'
  <2>1. \A p \in Pins : view'[p].kind \in Sliced => view[p].kind \in Sliced
    BY <1>3 DEF Sliced, Free
  <2> QED
    BY <2>1, ApartKept
<1>6. ASSUME NEW p \in Pins PROVE Agrees(p)'
  <2>1. CASE p \in new
    BY <1>3, <2>1 DEF Agrees
  <2>2. CASE p \in old \ new
    BY <1>3, <2>2, FreeAgrees
  <2>3. CASE p \notin old \cup new
    BY <1>1, <1>3, <2>3, AgreesFrame DEF AllAgree, pwmVars
  <2> QED
    BY <2>1, <2>2, <2>3
<1> QED
  BY <1>4, <1>5, <1>6 DEF AllAgree

LEMMA ConfigCsHolds ==
  ASSUME TypeOK, BusViews, Apart, AllAgree, NEW c \in CsPins, ConfigCs(c), Clean'
  PROVE  (BusViews /\ Apart /\ AllAgree)'
<1>0. c \in Pins
  BY PinsAssumption
<1>1. /\ cs' = {c} /\ func' = Route({c}, "sio") /\ drive' = [drive EXCEPT ![c] = "high"]
      /\ view[c].kind \in {"cs", "free"}
      /\ view' = Viewed(cs, {c}, [kind |-> "cs", val |-> 0])
      /\ UNCHANGED <<i2c, spi, pwmVars>>
  BY <1>0 DEF ConfigCs, Clean, Clash, BusViews, KindPins
<1>2. /\ view'[c] = [kind |-> "cs", val |-> 0] /\ func'[c] = "sio" /\ drive'[c] = "high"
      /\ \A p \in cs \ {c} : view'[p] = Free
      /\ \A p \in Pins \ (cs \cup {c}) :
           view'[p] = view[p] /\ func'[p] = func[p] /\ drive'[p] = drive[p]
      /\ \A p \in Pins : p \in cs <=> view[p].kind = "cs"
  BY <1>0, <1>1 DEF Viewed, Route, TypeOK, BusViews, KindPins
<1>3. BusViews'
  <2>1. \A p \in Pins : view'[p].kind = "cs" <=> p = c
    BY <1>2 DEF Free
  <2>2. \A p \in Pins : \/ view'[p] = view[p]
                       \/ /\ view[p].kind \in {"cs", "free"}
                          /\ view'[p].kind \in {"cs", "free"}
    <3>1. TAKE p \in Pins
    <3>2. CASE p = c
      BY <1>1, <1>2, <3>2
    <3>3. CASE p \in cs \ {c}
      BY <1>2, <3>1, <3>3 DEF Free
    <3>4. CASE p \notin cs \cup {c}
      BY <1>2, <3>1, <3>4
    <3> QED
      BY <3>2, <3>3, <3>4
  <2>3. cs' = KindPins("cs")'
    BY <1>0, <1>1, <2>1 DEF KindPins
  <2>4. i2c' = KindPins("i2c")'
    BY <1>1, <2>2 DEF BusViews, KindPins
  <2>5. spi' = KindPins("spi")'
    BY <1>1, <2>2 DEF BusViews, KindPins
  <2> QED
    BY <2>3, <2>4, <2>5 DEF BusViews
<1>4. Apart'
  <2>1. \A p \in Pins : view'[p].kind \in Sliced => view[p].kind \in Sliced
    BY <1>2 DEF Sliced, Free
  <2> QED
    BY <2>1, ApartKept
<1>5. ASSUME NEW p \in Pins PROVE Agrees(p)'
  <2>1. CASE p = c
    BY <1>2, <2>1 DEF Agrees
  <2>2. CASE p \in cs \ {c}
    BY <1>2, <2>2, FreeAgrees
  <2>3. CASE p \notin cs \cup {c}
    BY <1>1, <1>2, <2>3, AgreesFrame DEF AllAgree, pwmVars
  <2> QED
    BY <2>1, <2>2, <2>3
<1> QED
  BY <1>3, <1>4, <1>5 DEF AllAgree

LEMMA ConfigUartHolds ==
  ASSUME TypeOK, BusViews, Apart, AllAgree, NEW pins \in UartPins, ConfigUart(pins), Clean'
  PROVE  (BusViews /\ Apart /\ AllAgree)'
<1> DEFINE new == Pair(pins)
           old == KindPins("uart")
<1>0. new \subseteq Pins /\ old \subseteq Pins
  BY PairType DEF KindPins
<1>1. /\ func' = Route(new, "uart")
      /\ \A p \in new : view[p].kind \in {"uart", "free"}
      /\ view' = Viewed(old, new, [kind |-> "uart", val |-> 0])
      /\ UNCHANGED <<drive, i2c, spi, cs, pwmVars>>
  BY <1>0 DEF ConfigUart, Clean, Clash, KindPins
<1> HIDE DEF new
<1>2. /\ \A p \in new : view'[p] = [kind |-> "uart", val |-> 0] /\ func'[p] = "uart"
      /\ \A p \in old \ new : view'[p] = Free
      /\ \A p \in Pins \ (old \cup new) : view'[p] = view[p] /\ func'[p] = func[p]
      /\ \A p \in old : view[p].kind = "uart"
  BY <1>0, <1>1 DEF Viewed, Route, TypeOK, KindPins
<1> HIDE DEF old
<1>3. \A p \in Pins : \/ view'[p] = view[p]
                      \/ /\ view[p].kind \in {"uart", "free"}
                         /\ view'[p].kind \in {"uart", "free"}
  <2>1. TAKE p \in Pins
  <2>2. CASE p \in new
    BY <1>1, <1>2, <2>2
  <2>3. CASE p \in old \ new
    BY <1>2, <2>3 DEF Free
  <2>4. CASE p \notin old \cup new
    BY <1>2, <2>1, <2>4
  <2> QED
    BY <2>2, <2>3, <2>4
<1>4. BusViews'
  BY <1>1, <1>3, BusViewsKept
<1>5. Apart'
  <2>1. \A p \in Pins : view'[p].kind \in Sliced => view[p].kind \in Sliced
    BY <1>3 DEF Sliced
  <2> QED
    BY <2>1, ApartKept
<1>6. ASSUME NEW p \in Pins PROVE Agrees(p)'
  <2>1. CASE p \in new
    BY <1>2, <2>1 DEF Agrees
  <2>2. CASE p \in old \ new
    BY <1>2, <2>2, FreeAgrees
  <2>3. CASE p \notin old \cup new
    BY <1>1, <1>2, <2>3, AgreesFrame DEF AllAgree, pwmVars
  <2> QED
    BY <2>1, <2>2, <2>3
<1> QED
  BY <1>4, <1>5, <1>6 DEF AllAgree

(* Pins that are only given up.                                            *)
LEMMA GivenUp ==
  ASSUME TypeOK, BusViews, Apart, AllAgree, NEW old \in SUBSET Pins,
         \A p \in old : view[p].kind \notin {"i2c", "spi", "cs"},
         view' = Viewed(old, {}, Free), UNCHANGED <<func, drive, i2c, spi, cs, pwmVars>>
  PROVE  (BusViews /\ Apart /\ AllAgree)'
<1>1. /\ \A p \in old : view'[p] = Free
      /\ \A p \in Pins \ old : view'[p] = view[p]
  BY DEF Viewed
<1>2. \A p \in Pins : \/ view'[p] = view[p]
                      \/ /\ view[p].kind \notin {"i2c", "spi", "cs"}
                         /\ view'[p].kind \notin {"i2c", "spi", "cs"} \cup Sliced
  <2>1. Free.kind \notin {"i2c", "spi", "cs"} \cup Sliced
    BY DEF Free, Sliced
  <2> QED
    BY <1>1, <2>1
<1>3. BusViews'
  BY <1>2, BusViewsKept
<1>4. Apart'
  BY <1>2, ApartKept
<1>5. ASSUME NEW p \in Pins PROVE Agrees(p)'
  <2>1. CASE p \in old
    BY <1>1, <2>1, FreeAgrees
  <2>2. CASE p \notin old
    BY <1>1, <2>2, AgreesFrame DEF AllAgree, pwmVars
  <2> QED
    BY <2>1, <2>2
<1> QED
  BY <1>3, <1>4, <1>5 DEF AllAgree

LEMMA DisableUartHolds ==
  ASSUME TypeOK, BusViews, Apart, AllAgree, DisableUart
  PROVE  (BusViews /\ Apart /\ AllAgree)'
<1>1. KindPins("uart") \in SUBSET Pins /\ \A p \in KindPins("uart") : view[p].kind = "uart"
  BY DEF KindPins
<1>2. view' = Viewed(KindPins("uart"), {}, Free) /\ UNCHANGED <<func, drive, i2c, spi, cs, pwmVars>>
  BY DEF DisableUart, KindPins
<1> QED
  BY <1>1, <1>2, GivenUp

LEMMA DisableServoHolds ==
  ASSUME TypeOK, BusViews, Apart, AllAgree, Clean', NEW c \in ServoPins, DisableServo(c)
  PROVE  (BusViews /\ Apart /\ AllAgree)'
<1>0. c \in Pins
  BY PinsAssumption
<1>1. view[c].kind = "servo"
  BY DEF DisableServo, Lost, Clean
<1>2. UNCHANGED <<func, drive, i2c, spi, cs, pwmVars>>
  BY DEF DisableServo, busVars
<1>3. view' = Viewed({c}, {}, Free)
  BY DEF DisableServo, Viewed
<1> QED
  BY <1>0, <1>1, <1>2, <1>3, GivenUp

(* A command that adds no cause named a pin the host used for the same or  *)
(* for nothing ...                                                         *)
LEMMA NoClash ==
  ASSUME Clean', NEW c \in Pins, NEW kind \in Sliced, Clash({c}, {kind}) \subseteq causes'
  PROVE  view[c].kind \in {kind, "free"}
<1>1. "clash" \notin Clash({c}, {kind})
  BY DEF Clean
<1> QED
  BY <1>1 DEF Clash

(* ... whose slice has no other pin in use.                                *)
NotShared(c) == \A q \in Pins \ {c} : Slice(q) = Slice(c) => view[q].kind \notin Sliced

LEMMA NoSharing ==
  ASSUME Clean', NEW c \in Pins, Shared(c) \subseteq causes'
  PROVE  NotShared(c)
<1>1. "slice" \notin Shared(c)
  BY DEF Clean
<1> QED
  BY <1>1 DEF Shared, Sliced, NotShared

LEMMA UsedAlone ==
  ASSUME Apart, NEW c \in Pins, view[c].kind \in Sliced
  PROVE  NotShared(c)
BY DEF Apart, NotShared

(* A pin that is set up for PWM or given up, alone on its slice.           *)
LEMMA SetUp ==
  ASSUME TypeOK, BusViews, Apart, AllAgree, NEW c \in Pins, NEW v,
         v.kind \in Sliced \cup {"free"}, view[c].kind \in Sliced \cup {"free"},
         NotShared(c), view' = Viewed({}, {c}, v), func' = Route({c}, "pwm"),
         UNCHANGED <<drive, i2c, spi, cs>>,
         \A q \in Pins \ {c} : servo'[q] = servo[q],
         \A q \in Pins : Slice(q) # Slice(c) => /\ wrap'[Slice(q)] = wrap[Slice(q)]
                                                /\ level'[Channel(q)] = level[Channel(q)],
         Agrees(c)'
  PROVE  (BusViews /\ Apart /\ AllAgree)'
<1>1. /\ view'[c] = v
      /\ \A p \in Pins \ {c} : view'[p] = view[p] /\ func'[p] = func[p]
  BY DEF Viewed, Route, TypeOK
<1>2. BusViews'
  <2>1. v.kind \notin {"i2c", "spi", "cs"} /\ view[c].kind \notin {"i2c", "spi", "cs"}
    BY DEF Sliced
  <2> QED
    BY <1>1, <2>1, BusViewsKept
<1>3. Apart'
  <2> SUFFICES ASSUME NEW p \in Pins, NEW q \in Pins, p # q,
                      view'[p].kind \in Sliced, view'[q].kind \in Sliced
               PROVE  Slice(p) # Slice(q)
    BY DEF Apart, Sliced, Slice
  <2>1. CASE p = c
    BY <1>1, <2>1 DEF NotShared
  <2>2. CASE q = c
    BY <1>1, <2>2 DEF NotShared
  <2>3. CASE p # c /\ q # c
    BY <1>1, <2>3 DEF Apart
  <2> QED
    BY <2>1, <2>2, <2>3
<1>4. ASSUME NEW p \in Pins PROVE Agrees(p)'
  <2>1. CASE p # c
    <3>1. Agrees(p)
      BY DEF AllAgree
    <3>2. view[p].kind \in Sliced => Slice(p) # Slice(c)
      BY <2>1 DEF NotShared
    <3> QED
      BY <1>1, <2>1, <3>1, <3>2, AgreesFrame
  <2> QED
    BY <2>1
<1> QED
  BY <1>2, <1>3, <1>4 DEF AllAgree

(* A PWM pin that was none, or is one of LEDs or of host channels, is one  *)
(* with the level it was sent.                                             *)
LEMMA PwmSet ==
  ASSUME TypeOK, NEW c \in Pins, NEW l, SetPwm(c, l), func[c] = "pwm" => wrap[Slice(c)] = 65535
  PROVE  /\ func'[c] = "pwm" /\ wrap'[Slice(c)] = 65535 /\ level'[Channel(c)] = l
         /\ \A q \in Pins : Slice(q) # Slice(c) => /\ wrap'[Slice(q)] = wrap[Slice(q)]
                                                  /\ level'[Channel(q)] = level[Channel(q)]
<1>0. SliceType
  BY TypeParts
<1>1. /\ func' = Route({c}, "pwm")
      /\ \/ func[c] # "pwm" /\ InitSlice(c, 65535, l)
         \/ func[c] = "pwm" /\ wrap' = wrap /\ level' = [level EXCEPT ![Channel(c)] = l]
  BY DEF SetPwm
<1>2. func'[c] = "pwm"
  BY <1>1 DEF Route
<1>3. wrap'[Slice(c)] = 65535 /\ level'[Channel(c)] = l
  <2>1. CASE func[c] # "pwm"
    BY <1>0, <1>1, <2>1, OwnSlice
  <2>2. CASE func[c] = "pwm"
    BY <1>0, <1>1, <2>2, ChannelSlice DEF SliceType
  <2> QED
    BY <2>1, <2>2
<1>4. \A q \in Pins : Slice(q) # Slice(c) => /\ wrap'[Slice(q)] = wrap[Slice(q)]
                                             /\ level'[Channel(q)] = level[Channel(q)]
  BY <1>0, <1>1, OtherSlices
<1> QED
  BY <1>2, <1>3, <1>4

LEMMA EnableLedHolds ==
  ASSUME TypeOK, BusViews, Apart, AllAgree, Clean', NEW c \in LedPins, EnableLed(c)
  PROVE  (BusViews /\ Apart /\ AllAgree)'
<1> DEFINE v == [kind |-> "led", val |-> 0]
<1>0. c \in Pins /\ v.kind = "led" /\ v.val = 0
  BY PinsAssumption
<1>1. /\ view' = Viewed({}, {c}, v)
      /\ UNCHANGED <<func, drive, i2c, spi, cs, wrap, level, servo>>
      /\ causes' = causes \cup Clash({c}, {"led"}) \cup Shared(c) \cup Left(c)
  BY DEF EnableLed, busVars, pwmVars
<1> HIDE DEF v
<1>2. view[c].kind \in {"led", "free"} /\ NotShared(c)
  <2>1. Clash({c}, {"led"}) \subseteq causes' /\ Shared(c) \subseteq causes'
    BY <1>1
  <2>2. "led" \in Sliced
    BY DEF Sliced
  <2> QED
    BY <1>0, <2>1, <2>2, NoClash, NoSharing
<1>3. func[c] = "pwm" => wrap[Slice(c)] = 65535
  <2>1. CASE view[c].kind = "free"
    BY <1>1, <2>1 DEF Left, Clean
  <2>2. CASE view[c].kind = "led"
    BY <1>0, <2>2 DEF AllAgree, Agrees
  <2> QED
    BY <1>2, <2>1, <2>2
<1>4. /\ view'[c] = v
      /\ \A p \in Pins \ {c} : view'[p] = view[p]
  BY <1>0, <1>1 DEF Viewed
<1>5. BusViews'
  <2>1. \A p \in Pins : \/ view'[p] = view[p]
                        \/ /\ view[p].kind \notin {"i2c", "spi", "cs"}
                           /\ view'[p].kind \notin {"i2c", "spi", "cs"}
    BY <1>0, <1>2, <1>4
  <2> QED
    BY <1>1, <2>1, BusViewsKept
<1>6. Apart'
  <2> SUFFICES ASSUME NEW p \in Pins, NEW q \in Pins, p # q,
                      view'[p].kind \in Sliced, view'[q].kind \in Sliced
               PROVE  Slice(p) # Slice(q)
    BY DEF Apart, Sliced, Slice
  <2>1. CASE p = c
    BY <1>2, <1>4, <2>1 DEF NotShared
  <2>2. CASE q = c
    BY <1>2, <1>4, <2>2 DEF NotShared
  <2>3. CASE p # c /\ q # c
    BY <1>4, <2>3 DEF Apart
  <2> QED
    BY <2>1, <2>2, <2>3
<1>7. ASSUME NEW p \in Pins PROVE Agrees(p)'
  <2>1. CASE p = c
    BY <1>0, <1>1, <1>3, <1>4, <2>1 DEF Agrees, Slice
  <2>2. CASE p # c
    BY <1>1, <1>4, <2>2, AgreesFrame DEF AllAgree
  <2> QED
    BY <2>1, <2>2
<1> QED
  BY <1>5, <1>6, <1>7 DEF AllAgree

(* An LED that is its pin's, and its pin's alone.                          *)
LEMMA LedOwned ==
  ASSUME Apart, AllAgree, Clean', NEW c \in Pins, Lost(c, "led") \subseteq causes'
  PROVE  /\ view[c].kind = "led" /\ NotShared(c)
         /\ func[c] = "pwm" => wrap[Slice(c)] = 65535
<1>1. view[c].kind = "led"
  BY DEF Lost, Clean
<1>2. NotShared(c)
  BY <1>1, UsedAlone DEF Sliced
<1>3. func[c] = "pwm" => wrap[Slice(c)] = 65535
  BY <1>1 DEF AllAgree, Agrees
<1> QED
  BY <1>1, <1>2, <1>3

LEMMA SetLedHolds ==
  ASSUME TypeOK, BusViews, Apart, AllAgree, Clean', NEW c \in LedPins, NEW b \in Brightness,
         SetLed(c, b)
  PROVE  (BusViews /\ Apart /\ AllAgree)'
<1> DEFINE v == [kind |-> "led", val |-> 1 + b]
<1>0. c \in Pins /\ b \in Nat
  BY PinsAssumption, ValuesAssumption
<1>1. v.kind = "led" /\ v.val # 0 /\ v.val - 1 = b
  BY <1>0
<1>2. /\ view' = Viewed({}, {c}, v) /\ SetPwm(c, LedLevel(b))
      /\ Lost(c, "led") \subseteq causes'
  BY DEF SetLed
<1> HIDE DEF v
<1>3. /\ view[c].kind = "led" /\ NotShared(c)
      /\ func[c] = "pwm" => wrap[Slice(c)] = 65535
  BY <1>0, <1>2, LedOwned
<1>4. func' = Route({c}, "pwm") /\ UNCHANGED <<drive, i2c, spi, cs, servo>>
  BY <1>2 DEF SetPwm, busVars
<1>5. /\ func'[c] = "pwm" /\ wrap'[Slice(c)] = 65535 /\ level'[Channel(c)] = LedLevel(b)
      /\ \A q \in Pins : Slice(q) # Slice(c) => /\ wrap'[Slice(q)] = wrap[Slice(q)]
                                               /\ level'[Channel(q)] = level[Channel(q)]
  BY <1>0, <1>2, <1>3, PwmSet
<1>6. Agrees(c)'
  <2>1. view'[c] = v
    BY <1>0, <1>2 DEF Viewed
  <2>2. LedLevel(b) * 255 = b * 65535
    BY <1>0, LedLevelExact
  <2> QED
    BY <1>1, <1>5, <2>1, <2>2 DEF Agrees, Slice, Channel
<1>7. v.kind \in Sliced \cup {"free"} /\ view[c].kind \in Sliced \cup {"free"}
  BY <1>1, <1>3 DEF Sliced
<1> QED
  BY <1>0, <1>2, <1>3, <1>4, <1>5, <1>6, <1>7, SetUp

LEMMA DisableLedHolds ==
  ASSUME TypeOK, BusViews, Apart, AllAgree, Clean', NEW c \in LedPins, DisableLed(c)
  PROVE  (BusViews /\ Apart /\ AllAgree)'
<1>0. c \in Pins
  BY PinsAssumption
<1>1. /\ view' = Viewed({}, {c}, Free) /\ SetPwm(c, LedLevel(0))
      /\ Lost(c, "led") \subseteq causes'
  BY DEF DisableLed
<1>2. /\ view[c].kind = "led" /\ NotShared(c)
      /\ func[c] = "pwm" => wrap[Slice(c)] = 65535
  BY <1>0, <1>1, LedOwned
<1>3. func' = Route({c}, "pwm") /\ UNCHANGED <<drive, i2c, spi, cs, servo>>
  BY <1>1 DEF SetPwm, busVars
<1>4. \A q \in Pins : Slice(q) # Slice(c) => /\ wrap'[Slice(q)] = wrap[Slice(q)]
                                             /\ level'[Channel(q)] = level[Channel(q)]
  BY <1>0, <1>1, <1>2, PwmSet
<1>5. Agrees(c)'
  <2>1. view'[c] = Free
    BY <1>0, <1>1 DEF Viewed
  <2> QED
    BY <1>0, <2>1, FreeAgrees
<1>6. Free.kind \in Sliced \cup {"free"} /\ view[c].kind \in Sliced \cup {"free"}
  BY <1>2 DEF Sliced, Free
<1> QED
  BY <1>0, <1>1, <1>2, <1>3, <1>4, <1>5, <1>6, SetUp

LEMMA ApplyPwmHolds ==
  ASSUME TypeOK, BusViews, Apart, AllAgree, Clean', NEW c \in PwmPins, NEW d \in Duties,
         ApplyPwm(c, d)
  PROVE  (BusViews /\ Apart /\ AllAgree)'
<1> DEFINE v == [kind |-> "pwm", val |-> d]
<1>0. c \in Pins /\ v.kind = "pwm" /\ v.val = d
  BY PinsAssumption
<1>1. /\ view' = Viewed({}, {c}, v) /\ SetPwm(c, PwmLevel(d))
      /\ causes' = causes \cup Clash({c}, {"pwm"}) \cup Shared(c) \cup Left(c)
  BY DEF ApplyPwm
<1> HIDE DEF v
<1>2. view[c].kind \in {"pwm", "free"} /\ NotShared(c)
  <2>1. Clash({c}, {"pwm"}) \subseteq causes' /\ Shared(c) \subseteq causes'
    BY <1>1
  <2>2. "pwm" \in Sliced
    BY DEF Sliced
  <2> QED
    BY <1>0, <2>1, <2>2, NoClash, NoSharing
<1>3. func[c] = "pwm" => wrap[Slice(c)] = 65535
  <2>1. CASE view[c].kind = "free"
    BY <1>1, <2>1 DEF Left, Clean
  <2>2. CASE view[c].kind = "pwm"
    BY <1>0, <2>2 DEF AllAgree, Agrees
  <2> QED
    BY <1>2, <2>1, <2>2
<1>4. func' = Route({c}, "pwm") /\ UNCHANGED <<drive, i2c, spi, cs, servo>>
  BY <1>1 DEF SetPwm, busVars
<1>5. /\ func'[c] = "pwm" /\ wrap'[Slice(c)] = 65535 /\ level'[Channel(c)] = PwmLevel(d)
      /\ \A q \in Pins : Slice(q) # Slice(c) => /\ wrap'[Slice(q)] = wrap[Slice(q)]
                                               /\ level'[Channel(q)] = level[Channel(q)]
  BY <1>0, <1>1, <1>3, PwmSet
<1>6. Agrees(c)'
  <2>1. view'[c] = v
    BY <1>0, <1>1 DEF Viewed
  <2> QED
    BY <1>0, <1>5, <2>1 DEF Agrees, Slice, Channel, PwmLevel
<1>7. v.kind \in Sliced \cup {"free"} /\ view[c].kind \in Sliced \cup {"free"}
  BY <1>0, <1>2 DEF Sliced
<1> QED
  BY <1>0, <1>1, <1>2, <1>4, <1>5, <1>6, <1>7, SetUp

LEMMA ConfigServoHolds ==
  ASSUME TypeOK, BusViews, Apart, AllAgree, Clean', NEW c \in ServoPins, NEW r \in Ranges,
         ConfigServo(c, r)
  PROVE  (BusViews /\ Apart /\ AllAgree)'
<1> DEFINE v == [kind |-> "servo", val |-> 0]
<1>0. SliceType /\ c \in Pins
  BY TypeParts, PinsAssumption
<1>1. /\ view' = Viewed({}, {c}, v) /\ func' = Route({c}, "pwm")
      /\ UNCHANGED <<drive, i2c, spi, cs>>
      /\ InitSlice(c, 62499, 0)
      /\ causes' = causes \cup Clash({c}, {"servo"}) \cup Shared(c)
  BY DEF ConfigServo, busVars
<1>2. view[c].kind \in {"servo", "free"} /\ NotShared(c)
  <2>1. Clash({c}, {"servo"}) \subseteq causes' /\ Shared(c) \subseteq causes'
    BY <1>1
  <2>2. "servo" \in Sliced
    BY DEF Sliced
  <2> QED
    BY <1>0, <2>1, <2>2, NoClash, NoSharing
<1>3. \A q \in Pins \ {c} : servo'[q] = servo[q]
  BY DEF ConfigServo, TypeOK
<1>4. wrap'[Slice(c)] = 62499 /\ level'[Channel(c)] = 0
  BY <1>0, <1>1, OwnSlice
<1>5. \A q \in Pins : Slice(q) # Slice(c) => /\ wrap'[Slice(q)] = wrap[Slice(q)]
                                             /\ level'[Channel(q)] = level[Channel(q)]
  BY <1>0, <1>1, OtherSlices
<1>6. view'[c] = v /\ func'[c] = "pwm"
  BY <1>0, <1>1 DEF Viewed, Route
<1>7. Agrees(c)'
  BY <1>4, <1>6 DEF Agrees, PulseRight, Slice, Channel
<1> QED
  BY <1>0, <1>1, <1>2, <1>3, <1>5, <1>6, <1>7, SetUp DEF Sliced

LEMMA SetServoHolds ==
  ASSUME TypeOK, ServoRanged, BusViews, Apart, AllAgree, Clean', NEW c \in ServoPins,
         NEW a \in Angles, SetServo(c, a)
  PROVE  (BusViews /\ Apart /\ AllAgree)'
<1> DEFINE angle == IF a > servo[c] THEN servo[c] ELSE a
<1>0. SliceType /\ c \in Pins /\ a \in Nat
  BY TypeParts, PinsAssumption, ValuesAssumption, WordsNat
<1>1. view[c].kind = "servo"
  BY DEF SetServo, Lost, Clean
<1>2. servo[c] \in Nat \ {0}
  BY DEF SetServo, ServoRanged
<1>3. angle \in Nat /\ angle <= servo[c]
  BY <1>0, <1>2
<1>4. /\ level' = [level EXCEPT ![Channel(c)] = ServoLevel(angle, servo[c])]
      /\ view' = Viewed({}, {c}, [kind |-> "servo", val |-> 1 + angle])
      /\ UNCHANGED <<func, drive, i2c, spi, cs, wrap, servo>>
  BY DEF SetServo, busVars
<1> HIDE DEF angle
<1>5. /\ view'[c].kind = "servo" /\ view'[c].val = 1 + angle
      /\ \A p \in Pins \ {c} : view'[p] = view[p]
  BY <1>0, <1>4 DEF Viewed
<1>6. BusViews'
  BY <1>1, <1>4, <1>5, BusViewsKept
<1>7. Apart'
  BY <1>1, <1>5, ApartKept
<1>8. level'[Channel(c)] = ServoLevel(angle, servo[c])
  BY <1>0, <1>4, ChannelSlice DEF SliceType
<1>9. Agrees(c)'
  <2>1. func[c] = "pwm" /\ wrap[Slice(c)] = 62499
    BY <1>0, <1>1 DEF AllAgree, Agrees, PulseRight
  <2>2. view'[c].val # 0 /\ view'[c].val - 1 = angle
    BY <1>3, <1>5
  <2>3. Close(angle, servo[c])
    BY <1>2, <1>3, ServoLevelClose
  <2>4. PulseRight(c)'
    BY <1>4, <1>8, <2>1, <2>2, <2>3 DEF PulseRight, Close, Slice, Channel
  <2> QED
    BY <1>4, <1>5, <2>1, <2>4 DEF Agrees
<1>10. ASSUME NEW p \in Pins PROVE Agrees(p)'
  <2>1. CASE p # c
    <3>1. Agrees(p)
      BY DEF AllAgree
    <3>2. view[p].kind \in Sliced => Slice(p) # Slice(c)
      BY <1>0, <1>1, <2>1 DEF Apart, Sliced
    <3>3. view[p].kind \in Sliced => level'[Channel(p)] = level[Channel(p)]
      BY <1>0, <1>4, <3>2, OtherSlices
    <3> QED
      BY <1>4, <1>5, <2>1, <3>1, <3>3, AgreesFrame
  <2> QED
    BY <1>9, <2>1
<1> QED
  BY <1>6, <1>7, <1>10 DEF AllAgree

LEMMA ConfigGpioHolds ==
  ASSUME TypeOK, BusViews, Apart, AllAgree, Clean', NEW c \in GpioPins,
         NEW kind \in {"in", "out"}, ConfigGpio(c, kind)
  PROVE  (BusViews /\ Apart /\ AllAgree)'
<1>0. c \in Pins
  BY PinsAssumption
<1>1. /\ view' = Viewed({}, {c}, [kind |-> kind, val |-> 0]) /\ func' = Route({c}, "sio")
      /\ drive' = [drive EXCEPT ![c] = IF kind = "out" THEN "low" ELSE "in"]
      /\ view[c].kind \in {"in", "out", "free"}
      /\ UNCHANGED <<i2c, spi, cs, pwmVars>>
  BY <1>0 DEF ConfigGpio, Clean, Clash, busVars
<1>2. /\ view'[c] = [kind |-> kind, val |-> 0] /\ func'[c] = "sio"
      /\ drive'[c] = IF kind = "out" THEN "low" ELSE "in"
      /\ \A p \in Pins \ {c} :
           view'[p] = view[p] /\ func'[p] = func[p] /\ drive'[p] = drive[p]
  BY <1>0, <1>1 DEF Viewed, Route, TypeOK
<1>3. BusViews'
  <2>1. ASSUME NEW p \in Pins, view'[p] # view[p]
        PROVE  /\ view[p].kind \notin {"i2c", "spi", "cs"}
               /\ view'[p].kind \notin {"i2c", "spi", "cs"}
    <3>1. p = c
      BY <1>2, <2>1
    <3>2. view[c].kind \in {"in", "out", "free"} /\ view'[c].kind = kind
      BY <1>1, <1>2
    <3> QED BY <3>1, <3>2
  <2> QED
    BY <1>1, <2>1, BusViewsKept
<1>4. Apart'
  <2>1. \A p \in Pins : view'[p].kind \in Sliced => view[p].kind \in Sliced
    BY <1>2 DEF Sliced
  <2> QED
    BY <2>1, ApartKept
<1>5. ASSUME NEW p \in Pins PROVE Agrees(p)'
  <2>1. CASE p = c
    BY <1>2, <2>1 DEF Agrees
  <2>2. CASE p # c
    BY <1>1, <1>2, <2>2, AgreesFrame DEF AllAgree, pwmVars
  <2> QED
    BY <2>1, <2>2
<1> QED
  BY <1>3, <1>4, <1>5 DEF AllAgree

LEMMA SetGpioHolds ==
  ASSUME TypeOK, BusViews, Apart, AllAgree, NEW c \in GpioPins, NEW v \in {0, 1}, SetGpio(c, v)
  PROVE  (BusViews /\ Apart /\ AllAgree)'
<1>0. c \in Pins
  BY PinsAssumption
<1>1. /\ view[c].kind = "out"
      /\ drive' = [drive EXCEPT ![c] = IF @ = "in" THEN "in" ELSE IF v = 1 THEN "high" ELSE "low"]
      /\ view' = [view EXCEPT ![c].val = v]
      /\ UNCHANGED <<func, i2c, spi, cs, pwmVars>>
  BY DEF SetGpio, busVars
<1>2. /\ view'[c].kind = "out" /\ view'[c].val = v
      /\ \A p \in Pins \ {c} : view'[p] = view[p] /\ drive'[p] = drive[p]
  BY <1>0, <1>1 DEF TypeOK
<1>3. BusViews'
  <2>1. ASSUME NEW p \in Pins, view'[p] # view[p]
        PROVE  /\ view[p].kind \notin {"i2c", "spi", "cs"}
               /\ view'[p].kind \notin {"i2c", "spi", "cs"}
    BY <1>1, <1>2, <2>1
  <2> QED
    BY <1>1, <2>1, BusViewsKept
<1>4. Apart'
  BY <1>1, <1>2, ApartKept
<1>5. func[c] = "sio" /\ drive[c] # "in"
  BY <1>0, <1>1 DEF AllAgree, Agrees
<1>6. drive'[c] = IF v = 1 THEN "high" ELSE "low"
  BY <1>0, <1>1, <1>5 DEF TypeOK
<1>7. ASSUME NEW p \in Pins PROVE Agrees(p)'
  <2>1. CASE p = c
    BY <1>1, <1>2, <1>5, <1>6, <2>1 DEF Agrees
  <2>2. CASE p # c
    BY <1>1, <1>2, <2>2, AgreesFrame DEF AllAgree, pwmVars
  <2> QED
    BY <2>1, <2>2
<1> QED
  BY <1>3, <1>4, <1>7 DEF AllAgree

LEMMA CausesGrow == [Next]_vars => causes \subseteq causes'
<1> SUFFICES ASSUME [Next]_vars PROVE causes \subseteq causes'
  OBVIOUS
<1>1. ASSUME NEW pins, ConfigI2c(pins) \/ ConfigSpi(pins) \/ ConfigUart(pins)
      PROVE  causes \subseteq causes'
  BY <1>1 DEF ConfigI2c, ConfigSpi, ConfigUart
<1>2. CASE DisableI2c \/ DisableUart
  BY <1>2 DEF DisableI2c, DisableUart
<1>3. ASSUME NEW p, EnableLed(p) \/ DisableLed(p) PROVE causes \subseteq causes'
  BY <1>3 DEF EnableLed, DisableLed
<1>4. ASSUME NEW p, NEW b, SetLed(p, b) \/ ApplyPwm(p, b) PROVE causes \subseteq causes'
  BY <1>4 DEF SetLed, ApplyPwm
<1>5. ASSUME NEW p, NEW n, ConfigServo(p, n) \/ SetServo(p, n) \/ ConfigGpio(p, n) \/ SetGpio(p, n)
      PROVE  causes \subseteq causes'
  BY <1>5 DEF ConfigServo, SetServo, ConfigGpio, SetGpio
<1>6. ASSUME NEW p, ConfigCs(p) \/ DisableServo(p) PROVE causes \subseteq causes'
  BY <1>6 DEF ConfigCs, DisableServo
<1>7. CASE UNCHANGED vars
  BY <1>7 DEF vars
<1> QED
  BY <1>1, <1>2, <1>3, <1>4, <1>5, <1>6, <1>7 DEF Next

LEMMA HoldStep == PinsInv /\ HoldInv /\ [Next]_vars => HoldInv'
<1> SUFFICES ASSUME PinsInv, HoldInv, [Next]_vars, Clean'
             PROVE  (BusViews /\ Apart /\ AllAgree)'
  BY DEF HoldInv
<1>0. TypeOK /\ ServoRanged
  BY DEF PinsInv
<1>a. causes \subseteq causes'
  BY CausesGrow
<1>b. BusViews /\ Apart /\ AllAgree
  BY <1>a DEF HoldInv, Clean
<1>1. ASSUME NEW pins \in I2cPins, ConfigI2c(pins) PROVE (BusViews /\ Apart /\ AllAgree)'
  BY <1>0, <1>b, <1>1, ConfigI2cHolds
<1>2. CASE DisableI2c
  BY <1>0, <1>b, <1>2, DisableI2cHolds
<1>3. ASSUME NEW pins \in SpiPins, ConfigSpi(pins) PROVE (BusViews /\ Apart /\ AllAgree)'
  BY <1>0, <1>b, <1>3, ConfigSpiHolds
<1>4. ASSUME NEW p \in CsPins, ConfigCs(p) PROVE (BusViews /\ Apart /\ AllAgree)'
  BY <1>0, <1>b, <1>4, ConfigCsHolds
<1>5. ASSUME NEW pins \in UartPins, ConfigUart(pins) PROVE (BusViews /\ Apart /\ AllAgree)'
  BY <1>0, <1>b, <1>5, ConfigUartHolds
<1>6. CASE DisableUart
  BY <1>0, <1>b, <1>6, DisableUartHolds
<1>7. ASSUME NEW p \in LedPins, EnableLed(p)
      PROVE  (BusViews /\ Apart /\ AllAgree)'
  BY <1>0, <1>b, <1>7, EnableLedHolds
<1>8. ASSUME NEW p \in LedPins, NEW b \in Brightness, SetLed(p, b)
      PROVE  (BusViews /\ Apart /\ AllAgree)'
  BY <1>0, <1>b, <1>8, SetLedHolds
<1>9. ASSUME NEW p \in LedPins, DisableLed(p)
      PROVE  (BusViews /\ Apart /\ AllAgree)'
  BY <1>0, <1>b, <1>9, DisableLedHolds
<1>10. ASSUME NEW p \in PwmPins, NEW d \in Duties, ApplyPwm(p, d)
       PROVE  (BusViews /\ Apart /\ AllAgree)'
  BY <1>0, <1>b, <1>10, ApplyPwmHolds
<1>11. ASSUME NEW p \in ServoPins, NEW r \in Ranges, ConfigServo(p, r)
       PROVE  (BusViews /\ Apart /\ AllAgree)'
  BY <1>0, <1>b, <1>11, ConfigServoHolds
<1>12. ASSUME NEW p \in ServoPins, NEW a \in Angles, SetServo(p, a)
       PROVE  (BusViews /\ Apart /\ AllAgree)'
  BY <1>0, <1>b, <1>12, SetServoHolds
<1>13. ASSUME NEW p \in ServoPins, DisableServo(p)
       PROVE  (BusViews /\ Apart /\ AllAgree)'
  BY <1>0, <1>b, <1>13, DisableServoHolds
<1>14. ASSUME NEW p \in GpioPins, NEW kind \in {"in", "out"}, ConfigGpio(p, kind)
       PROVE  (BusViews /\ Apart /\ AllAgree)'
  BY <1>0, <1>b, <1>14, ConfigGpioHolds
<1>15. ASSUME NEW p \in GpioPins, NEW v \in {0, 1}, SetGpio(p, v)
       PROVE  (BusViews /\ Apart /\ AllAgree)'
  BY <1>0, <1>b, <1>15, SetGpioHolds
<1>16. CASE UNCHANGED vars
  <2>1. UNCHANGED <<func, drive, i2c, spi, cs, wrap, level, servo, view>>
    BY <1>16 DEF vars, busVars, pwmVars
  <2>2. BusViews' /\ Apart'
    BY <1>b, <2>1 DEF BusViews, KindPins, Apart, Sliced, Slice
  <2>3. ASSUME NEW p \in Pins PROVE Agrees(p)'
    BY <1>b, <2>1, AgreesFrame DEF AllAgree
  <2> QED
    BY <2>2, <2>3 DEF AllAgree
<1> QED
  BY <1>1, <1>2, <1>3, <1>4, <1>5, <1>6, <1>7, <1>8, <1>9, <1>10, <1>11, <1>12, <1>13, <1>14, <1>15, <1>16
     DEF Next

(* Every pin is what the host made of it, with the value the host gave it  *)
(* last: an LED the exact level of its brightness, a servo a pulse within  *)
(* 4us of its angle, a PWM pin the 8 bits that picolink_pwm_apply makes of *)
(* its duty cycle.  As long as no command named a pin in use or two pins   *)
(* of one PWM slice, none was refused, no UART has pins of another, and no *)
(* pin was left with the period of servos (main.c 64-149; i2c_handler.c    *)
(* 25-62, 129-149; spi_handler.c 18-98; pwm_handler.c 50-78;               *)
(* servo_handler.c 18-59; mfd-pwm.c 233-238, 346, 378-402).                *)
THEOREM ViewIsKept == Spec => []ViewHolds
<1>1. Init => HoldInv
  <2> SUFFICES ASSUME Init PROVE BusViews /\ Apart /\ AllAgree
    BY DEF HoldInv
  <2>1. \A p \in Pins : view[p].kind = "free"
    BY DEF Init, Free
  <2>2. BusViews
    BY <2>1 DEF Init, BusViews, KindPins
  <2>3. Apart
    BY <2>1 DEF Apart, Sliced
  <2>4. AllAgree
    BY <2>1 DEF AllAgree, Agrees
  <2> QED
    BY <2>2, <2>3, <2>4
<1>2. PinsInv /\ HoldInv /\ [Next]_vars => HoldInv'
  BY HoldStep
<1>3. HoldInv => ViewHolds
  BY DEF HoldInv, ViewHolds, Clean, AllAgree
<1> QED
  BY <1>1, <1>2, <1>3, PinsInvariant, PTL DEF Spec

=============================================================================
