-------------------------- MODULE PicoUartFwProofs --------------------------
(***************************************************************************)
(* Proofs about PicoUartFw, for any UART instances, sizes and bounds: the  *)
(* types, that the interrupt, core 1 and core 0 agree on the instance and  *)
(* the FIFO although no lock protects them, and the order of the bytes.    *)
(***************************************************************************)
EXTENDS PicoUartFw, TLAPS

Instances == [up : BOOLEAN, irq : BOOLEAN, raised : BOOLEAN, rx : Seq(Bytes)]

(* Only the instance u_inst points to is in use.                           *)
OthersOff == \A i \in Insts : i # inst => hw[i] = Off

(* What core 1 has done at each of its steps.                              *)
Progress ==
  /\ core1.at = "idle" /\ enabled => fifo.live /\ hw[inst].up /\ hw[inst].irq
  /\ core1.at = "idle" /\ ~enabled => hw[inst] = Off
  /\ core1.at \in {"free", "clear"} => enabled /\ hw[inst] = Off
  /\ core1.at \in {"queue", "init"} => ~enabled /\ hw[inst] = Off
  /\ core1.at \in {"init", "irq", "enable"} => fifo.live
  /\ core1.at \in {"irq", "enable"} => ~enabled /\ hw[inst].up
  /\ core1.at = "irq" => ~hw[inst].irq
  /\ core1.at = "enable" => hw[inst].irq

-----------------------------------------------------------------------------

LEMMA OffType == Off \in Instances /\ ~Off.up /\ ~Off.irq /\ ~Off.raised /\ Off.rx = <<>>
BY DEF Off, Instances

LEMMA PopType ==
  ASSUME NEW S, NEW s \in Seq(S), s # <<>>
  PROVE  Head(s) \in S /\ Tail(s) \in Seq(S) /\ Len(Tail(s)) = Len(s) - 1 /\ Len(s) \in Nat
OBVIOUS

LEMMA PushType ==
  ASSUME NEW S, NEW s \in Seq(S), NEW e \in S
  PROVE  Append(s, e) \in Seq(S) /\ Len(Append(s, e)) = Len(s) + 1 /\ Len(s) \in Nat
OBVIOUS

(* The variables' types, by who writes them.                               *)
FifoType == fifo \in [live : BOOLEAN, bytes : Seq(Bytes)] /\ Len(fifo.bytes) <= FifoBytes
HwType == hw \in [Insts -> Instances]
Core1Type ==
  /\ enabled \in BOOLEAN /\ inst \in Insts
  /\ core1 \in [at : {"idle", "free", "clear", "queue", "init", "irq", "enable"}, new : Insts, config : BOOLEAN]
  /\ commands \in 0 .. MaxCommands
FlushType ==
  /\ core0 \in {"check", "take", "write"} /\ hand \in Seq(Bytes) /\ delivered \in Seq(Bytes)
  /\ crowded \in BOOLEAN /\ lost \in SUBSET Bytes /\ torn \in BOOLEAN

LEMMA TypeParts ==
  TypeOK <=> FifoType /\ HwType /\ Core1Type /\ FlushType /\ arrived \in 0 .. MaxBytes
BY DEF TypeOK, FifoType, HwType, Core1Type, FlushType, Instances

LEMMA TypeInit == Init => TypeOK
<1> SUFFICES ASSUME Init PROVE TypeOK
  OBVIOUS
<1>1. FifoType
  <2>1. fifo = [live |-> FALSE, bytes |-> <<>>] /\ <<>> \in Seq(Bytes) /\ Len(<<>>) = 0
    BY DEF Init
  <2> QED BY <2>1, SizeAssumption DEF FifoType
<1>2. HwType
  BY OffType DEF Init, HwType
<1>3. Core1Type /\ arrived \in 0 .. MaxBytes
  <2>1. core1 \in [at : {"idle"}, new : Insts, config : {FALSE}]
    BY DEF Init
  <2>2. core1 \in [at : {"idle", "free", "clear", "queue", "init", "irq", "enable"}, new : Insts, config : BOOLEAN]
    BY <2>1
  <2>3. enabled \in BOOLEAN /\ inst \in Insts
    BY DEF Init
  <2>4. commands \in 0 .. MaxCommands /\ arrived \in 0 .. MaxBytes
    BY BoundAssumption DEF Init
  <2> QED BY <2>2, <2>3, <2>4 DEF Core1Type
<1>4. FlushType
  <2>1. hand = <<>> /\ delivered = <<>> /\ <<>> \in Seq(Bytes)
    BY DEF Init
  <2>2. core0 \in {"check", "take", "write"} /\ torn \in BOOLEAN
        /\ crowded \in BOOLEAN /\ lost \in SUBSET Bytes
    BY DEF Init
  <2> QED BY <2>1, <2>2 DEF FlushType
<1> QED BY <1>1, <1>2, <1>3, <1>4, TypeParts

LEMMA TypeStep ==
  ASSUME TypeOK, [Next]_vars
  PROVE  TypeOK'
<1>0. FifoType /\ HwType /\ Core1Type /\ FlushType /\ arrived \in 0 .. MaxBytes
  BY TypeParts
<1>p. FifoType' /\ HwType' /\ Core1Type' /\ FlushType' /\ (arrived \in 0 .. MaxBytes)' => TypeOK'
  BY DEF TypeOK, FifoType, HwType, Core1Type, FlushType, Instances
<1>a. UNCHANGED fifo => FifoType'
  BY <1>0 DEF FifoType
<1>b. UNCHANGED hw => HwType'
  BY <1>0 DEF HwType
<1>c. UNCHANGED <<enabled, inst, core1, commands>> => Core1Type'
  BY <1>0 DEF Core1Type
<1>d. UNCHANGED flushVars => FlushType'
  BY <1>0 DEF FlushType, flushVars
<1>e. UNCHANGED arrived => (arrived \in 0 .. MaxBytes)'
  BY <1>0
<1>f. Command => commands' \in 0 .. MaxCommands
  BY <1>0, BoundAssumption DEF Command, Core1Type
<1>g. Quiesce => HwType'
  BY <1>0, OffType DEF Quiesce, HwType
<1>1. ASSUME NEW i \in Insts, Arrive(i) PROVE TypeOK'
  <2>1. arrived + 1 \in Bytes /\ arrived' \in 0 .. MaxBytes
    BY <1>0, <1>1, BoundAssumption DEF Arrive, Bytes
  <2>2. Append(hw[i].rx, arrived + 1) \in Seq(Bytes)
    BY <1>0, <2>1, PushType DEF HwType, Instances
  <2>3. HwType'
    BY <1>0, <1>1, <2>2 DEF Arrive, HwType, Instances
  <2> QED BY <1>a, <1>c, <1>d, <1>p, <1>1, <2>1, <2>3 DEF Arrive
<1>2. ASSUME NEW i \in Insts, Raise(i) PROVE TypeOK'
  <2>1. HwType'
    BY <1>0, <1>2 DEF Raise, HwType, Instances
  <2> QED BY <1>a, <1>c, <1>d, <1>e, <1>p, <1>2, <2>1 DEF Raise
<1>3. ASSUME NEW i \in Insts, Configure(i) PROVE TypeOK'
  <2>1. Core1Type'
    BY <1>0, <1>f, <1>3 DEF Configure, Core1Type
  <2> QED BY <1>a, <1>b, <1>d, <1>e, <1>g, <1>p, <1>3, <2>1 DEF Configure
<1>4. CASE Disable
  <2>1. Core1Type'
    BY <1>0, <1>f, <1>4 DEF Disable, Core1Type
  <2> QED BY <1>a, <1>d, <1>e, <1>g, <1>p, <1>4, <2>1 DEF Disable
<1>5. CASE Interrupt
  <2>1. hw[inst] \in Instances /\ hw[inst].rx \in Seq(Bytes) /\ hw[inst].rx # <<>>
        /\ hw' = [hw EXCEPT ![inst] = Emptied(hw[inst])]
        /\ fifo' = [fifo EXCEPT !.bytes = Stored(Head(hw[inst].rx))]
    BY <1>0, <1>5 DEF Interrupt, HwType, Core1Type, Instances
  <2>2. Head(hw[inst].rx) \in Bytes /\ Tail(hw[inst].rx) \in Seq(Bytes)
    BY <2>1, PopType
  <2>3. Emptied(hw[inst]) \in Instances
    BY <2>1, <2>2 DEF Emptied, Instances
  <2>4. HwType'
    BY <1>0, <2>1, <2>3 DEF HwType
  <2>5. ASSUME NEW b \in Bytes
        PROVE  Stored(b) \in Seq(Bytes) /\ Len(Stored(b)) <= FifoBytes
    <3>1. fifo.bytes \in Seq(Bytes) /\ Len(fifo.bytes) <= FifoBytes /\ FifoBytes \in Nat
      BY <1>0, SizeAssumption DEF FifoType
    <3>2. Append(fifo.bytes, b) \in Seq(Bytes) /\ Len(Append(fifo.bytes, b)) = Len(fifo.bytes) + 1
          /\ Len(fifo.bytes) \in Nat
      BY <3>1, PushType
    <3> QED BY <3>1, <3>2 DEF Stored
  <2>6. FifoType'
    BY <1>0, <2>1, <2>2, <2>5 DEF FifoType
  <2> QED BY <1>c, <1>d, <1>e, <1>p, <1>5, <2>4, <2>6 DEF Interrupt
<1>6. CASE Free \/ ClearEnabled \/ SetEnabled
  <2>1. Core1Type' /\ FifoType'
    BY <1>0, <1>6 DEF Free, ClearEnabled, SetEnabled, Goto, Core1Type, FifoType
  <2> QED BY <1>b, <1>d, <1>e, <1>p, <1>6, <2>1 DEF Free, ClearEnabled, SetEnabled
<1>7. CASE QueueInit
  <2>1. fifo' = [live |-> TRUE, bytes |-> <<>>] /\ <<>> \in Seq(Bytes) /\ Len(<<>>) = 0
    BY <1>7 DEF QueueInit
  <2>2. FifoType'
    BY <2>1, SizeAssumption DEF FifoType
  <2>3. Core1Type'
    BY <1>0, <1>7 DEF QueueInit, Goto, Core1Type
  <2> QED BY <1>b, <1>d, <1>e, <1>p, <1>7, <2>2, <2>3 DEF QueueInit
<1>8. CASE UartInit \/ EnableIrq
  <2>1. Core1Type'
    BY <1>0, <1>8 DEF UartInit, EnableIrq, Goto, Core1Type
  <2>2. ASSUME UartInit PROVE HwType'
    <3>1. hw' = [hw EXCEPT ![core1.new].up = TRUE] /\ core1.new \in Insts
      BY <1>0, <2>2 DEF UartInit, Core1Type
    <3> QED BY <1>0, <3>1 DEF HwType, Instances
  <2>3. ASSUME EnableIrq PROVE HwType'
    <3>1. hw' = [hw EXCEPT ![inst].irq = TRUE] /\ inst \in Insts
      BY <1>0, <2>3 DEF EnableIrq, Core1Type
    <3> QED BY <1>0, <3>1 DEF HwType, Instances
  <2> QED BY <1>a, <1>d, <1>e, <1>p, <1>8, <2>1, <2>2, <2>3 DEF UartInit, EnableIrq
<1>9. CASE FlushStart \/ TakeEnd
  <2>1. FlushType'
    BY <1>0, <1>9 DEF FlushStart, TakeEnd, FlushType
  <2> QED BY <1>a, <1>b, <1>c, <1>e, <1>p, <1>9, <2>1 DEF FlushStart, TakeEnd, fwVars
<1>10. CASE Take
  <2>1. fifo.bytes \in Seq(Bytes) /\ fifo.bytes # <<>> /\ Len(fifo.bytes) <= FifoBytes
        /\ FifoBytes \in Nat /\ hand \in Seq(Bytes)
    BY <1>0, <1>10, SizeAssumption DEF Take, Takes, FifoType, FlushType
  <2>2. Head(fifo.bytes) \in Bytes /\ Tail(fifo.bytes) \in Seq(Bytes)
        /\ Len(Tail(fifo.bytes)) = Len(fifo.bytes) - 1 /\ Len(fifo.bytes) \in Nat
    BY <2>1, PopType
  <2>3. Append(hand, Head(fifo.bytes)) \in Seq(Bytes)
    BY <2>1, <2>2, PushType
  <2>4. FlushType'
    BY <1>0, <1>10, <2>3 DEF Take, FlushType, FifoType
  <2>5. Len(Tail(fifo.bytes)) <= FifoBytes
    BY <2>1, <2>2
  <2>6. FifoType'
    BY <1>0, <1>10, <2>2, <2>5 DEF Take, FifoType
  <2> QED BY <1>b, <1>c, <1>e, <1>p, <1>10, <2>4, <2>6 DEF Take
<1>11. CASE FlushWrite
  <2>1. delivered \o hand \in Seq(Bytes) /\ <<>> \in Seq(Bytes)
    BY <1>0 DEF FlushType
  <2>2. FlushType'
    BY <1>0, <1>11, <2>1 DEF FlushWrite, FlushType
  <2> QED BY <1>a, <1>b, <1>c, <1>e, <1>p, <1>11, <2>2 DEF FlushWrite, fwVars
<1>12. CASE FlushDrop
  <2>1. {hand[n] : n \in DOMAIN hand} \subseteq Bytes /\ <<>> \in Seq(Bytes)
    BY <1>0 DEF FlushType
  <2>2. FlushType'
    BY <1>0, <1>12, <2>1 DEF FlushDrop, FlushType
  <2> QED BY <1>a, <1>b, <1>c, <1>e, <1>p, <1>12, <2>2 DEF FlushDrop, fwVars
<1>13. CASE Answer
  <2>1. FlushType'
    BY <1>0, <1>13 DEF Answer, FlushType
  <2> QED BY <1>a, <1>b, <1>c, <1>e, <1>p, <1>13, <2>1 DEF Answer, fwVars
<1>14. CASE UNCHANGED vars
  BY <1>a, <1>b, <1>c, <1>d, <1>e, <1>p, <1>14 DEF vars, fwVars
<1> QED
  BY <1>1, <1>2, <1>3, <1>4, <1>5, <1>6, <1>7, <1>8, <1>9, <1>10, <1>11, <1>12, <1>13, <1>14
     DEF Next, Core1, Core0

-----------------------------------------------------------------------------

Agree == OthersOff /\ Progress

LEMMA AgreeStep ==
  ASSUME TypeOK, Agree, [Next]_vars
  PROVE  Agree'
<1>0. OthersOff /\ Progress /\ FifoType /\ HwType /\ Core1Type
  BY TypeParts DEF Agree
<1>u. UNCHANGED <<enabled, inst, hw, core1>> /\ fifo'.live = fifo.live => Agree'
  BY <1>0 DEF Agree, OthersOff, Progress
(* A step of the hardware or the interrupt leaves "up" and "irq" alone and *)
(* an instance that is off.                                                *)
<1>h. ASSUME NEW i \in Insts, hw[i].up, NEW h \in Instances, h.up = hw[i].up, h.irq = hw[i].irq,
             hw' = [hw EXCEPT ![i] = h], UNCHANGED <<enabled, inst, core1>>, fifo'.live = fifo.live
      PROVE  Agree'
  <2>1. i = inst
    BY <1>0, <1>h, OffType DEF OthersOff
  <2>2. OthersOff'
    BY <1>0, <1>h, <2>1 DEF OthersOff, HwType
  <2>3. hw'[inst].up /\ hw'[inst].irq = hw[inst].irq /\ hw[inst] # Off
    BY <1>0, <1>h, <2>1, OffType DEF HwType
  <2>4. Progress'
    BY <1>0, <1>h, <2>1, <2>3 DEF Progress
  <2> QED BY <2>2, <2>4 DEF Agree
<1>1. ASSUME NEW i \in Insts, Arrive(i) PROVE Agree'
  <2> DEFINE h == [hw[i] EXCEPT !.rx = Append(@, arrived + 1)]
  <2>1. h \in Instances
    <3>1. hw'[i] \in Instances
      BY TypeStep DEF TypeOK, Instances
    <3> QED BY <1>0, <1>1, <3>1 DEF Arrive, HwType
  <2>2. h.up = hw[i].up /\ h.irq = hw[i].irq
    BY <1>0 DEF HwType, Instances
  <2>3. hw' = [hw EXCEPT ![i] = h]
    BY <1>1 DEF Arrive
  <2> HIDE DEF h
  <2> QED BY <1>h, <1>1, <2>1, <2>2, <2>3 DEF Arrive
<1>2. ASSUME NEW i \in Insts, Raise(i) PROVE Agree'
  <2> DEFINE h == [hw[i] EXCEPT !.raised = TRUE]
  <2>1. h \in Instances /\ h.up = hw[i].up /\ h.irq = hw[i].irq
    BY <1>0 DEF HwType, Instances
  <2>2. hw' = [hw EXCEPT ![i] = h] /\ hw[i].rx # <<>>
    BY <1>2 DEF Raise
  <2>3. hw[i].up
    BY <1>0, <2>2, OffType DEF OthersOff, Progress, Core1Type
  <2> HIDE DEF h
  <2> QED BY <1>h, <1>2, <2>1, <2>2, <2>3 DEF Raise
<1>5. CASE Interrupt
  <2>1. Emptied(hw[inst]) \in Instances
    <3>1. hw'[inst] \in Instances
      BY <1>0, TypeStep DEF TypeOK, Instances, Core1Type
    <3> QED BY <1>0, <1>5, <3>1 DEF Interrupt, HwType, Core1Type
  <2>2. Emptied(hw[inst]).up = hw[inst].up /\ Emptied(hw[inst]).irq = hw[inst].irq
    BY <1>0 DEF Emptied, HwType, Instances, Core1Type
  <2>3. hw[inst].up
    BY <1>0, <1>5, OffType DEF Interrupt, Progress, Core1Type
  <2>4. fifo'.live = fifo.live
    BY <1>0, <1>5 DEF Interrupt, FifoType
  <2> QED BY <1>0, <1>h, <1>5, <2>1, <2>2, <2>3, <2>4 DEF Interrupt, Core1Type
<1>3. ASSUME NEW i \in Insts, Configure(i) PROVE Agree'
  <2>1. core1.at = "idle" /\ UNCHANGED <<enabled, inst, fifo>>
        /\ core1'.at = IF enabled THEN "free" ELSE "queue"
    BY <1>3 DEF Configure, Command, At
  <2>2. CASE enabled
    <3>1. hw' = [hw EXCEPT ![inst] = Off]
      BY <1>3, <2>2 DEF Configure, Quiesce
    <3> QED BY <1>0, <2>1, <2>2, <3>1 DEF Agree, OthersOff, Progress, HwType, Core1Type
  <2>3. CASE ~enabled
    <3>1. hw' = hw
      BY <1>3, <2>3 DEF Configure
    <3> QED BY <1>0, <2>1, <2>3, <3>1 DEF Agree, OthersOff, Progress
  <2> QED BY <2>2, <2>3
<1>4. CASE Disable
  <2>1. core1.at = "idle" /\ enabled /\ UNCHANGED <<enabled, inst, fifo>> /\ core1'.at = "free"
        /\ hw' = [hw EXCEPT ![inst] = Off]
    BY <1>0, <1>4 DEF Disable, Command, At, Quiesce, Core1Type
  <2> QED BY <1>0, <2>1 DEF Agree, OthersOff, Progress, HwType, Core1Type
<1>6. CASE Free \/ ClearEnabled
  <2>1. core1.at \in {"free", "clear"} /\ UNCHANGED <<inst, hw>>
        /\ core1'.at \in {"clear", "queue", "idle"}
        /\ (core1'.at # "clear" => ~enabled') /\ (core1'.at = "clear" => enabled')
    BY <1>0, <1>6 DEF Free, ClearEnabled, Goto, At, Core1Type, Progress
  <2> QED BY <1>0, <2>1 DEF Agree, OthersOff, Progress
<1>7. CASE QueueInit
  <2>1. core1.at = "queue" /\ UNCHANGED <<enabled, inst, hw>> /\ core1'.at = "init" /\ fifo'.live
    BY <1>0, <1>7 DEF QueueInit, Goto, At, Core1Type
  <2> QED BY <1>0, <2>1 DEF Agree, OthersOff, Progress
<1>8. CASE UartInit
  <2>1. core1.at = "init" /\ UNCHANGED <<enabled, fifo>> /\ core1'.at = "irq"
        /\ inst' = core1.new /\ hw' = [hw EXCEPT ![core1.new].up = TRUE] /\ core1.new \in Insts
    BY <1>0, <1>8 DEF UartInit, Goto, At, Core1Type
  <2>2. \A i \in Insts : hw[i] = Off
    BY <1>0, <2>1 DEF OthersOff, Progress
  <2>3. hw'[inst'].up /\ ~hw'[inst'].irq
    BY <1>0, <2>1, <2>2, OffType DEF HwType, Instances
  <2>4. OthersOff'
    BY <1>0, <2>1, <2>2 DEF OthersOff, HwType
  <2> QED BY <1>0, <2>1, <2>3, <2>4 DEF Agree, Progress
<1>9. CASE EnableIrq
  <2>1. core1.at = "irq" /\ UNCHANGED <<enabled, inst, fifo>> /\ core1'.at = "enable"
        /\ hw' = [hw EXCEPT ![inst].irq = TRUE] /\ inst \in Insts
    BY <1>0, <1>9 DEF EnableIrq, Goto, At, Core1Type
  <2>2. hw'[inst].up /\ hw'[inst].irq
    BY <1>0, <2>1 DEF Progress, HwType, Instances
  <2>3. OthersOff'
    BY <1>0, <2>1 DEF OthersOff, HwType
  <2> QED BY <1>0, <2>1, <2>2, <2>3 DEF Agree, Progress
<1>10. CASE SetEnabled
  <2>1. core1.at = "enable" /\ UNCHANGED <<inst, hw, fifo>> /\ core1'.at = "idle" /\ enabled'
    BY <1>0, <1>10 DEF SetEnabled, Goto, At, Core1Type
  <2> QED BY <1>0, <2>1 DEF Agree, OthersOff, Progress
<1>11. CASE Answer \/ FlushStart \/ Core0
  <2>1. UNCHANGED <<enabled, inst, hw, core1>> /\ fifo'.live = fifo.live
    BY <1>0, <1>11 DEF Answer, FlushStart, Core0, Take, TakeEnd, FlushWrite, FlushDrop, fwVars, FifoType
  <2> QED BY <1>u, <2>1
<1>12. CASE UNCHANGED vars
  BY <1>u, <1>12 DEF vars, fwVars
<1> QED
  BY <1>1, <1>2, <1>3, <1>4, <1>5, <1>6, <1>7, <1>8, <1>9, <1>10, <1>11, <1>12 DEF Next, Core1

LEMMA AgreeInit == Init => Agree
BY DEF Init, Agree, OthersOff, Progress

UartInv == TypeOK /\ Agree

LEMMA UartInvariant == Spec => []UartInv
<1>1. UartInv /\ [Next]_vars => UartInv'
  BY TypeStep, AgreeStep DEF UartInv
<1>2. Init => UartInv
  BY TypeInit, AgreeInit DEF UartInv
<1> QED BY <1>1, <1>2, PTL DEF Spec

(* The variables of the UART bridge keep their types, and uart_rx_fifo its *)
(* size, for every size (uart_handler.c 38-41, 55-65, 79-113).             *)
THEOREM UartTypeCorrect == Spec => []TypeOK
<1>1. UartInv => TypeOK
  BY DEF UartInv
<1> QED BY UartInvariant, <1>1, PTL

(* The interrupt never stores into a FIFO that is not allocated, although  *)
(* it is freed before uart_enabled is cleared: the interrupt is off by     *)
(* then (uart_handler.c 22-31, 96-111).                                    *)
THEOREM IrqFindsFifo == Spec => []IrqOnLiveFifo
<1>1. UartInv => IrqOnLiveFifo
  <2> SUFFICES ASSUME UartInv, enabled, Pending PROVE fifo.live
    BY DEF IrqOnLiveFifo
  <2>1. PICK i \in Insts : hw[i].irq
    BY DEF Pending
  <2>2. hw[inst].irq
    BY <2>1, OffType DEF UartInv, Agree, OthersOff
  <2> QED BY <2>2, OffType DEF UartInv, TypeOK, Agree, Progress
<1> QED BY UartInvariant, <1>1, PTL

(* Only the instance of u_inst can interrupt, across reconfigurations from *)
(* one UART to the other (uart_handler.c 24-27, 91-109).                   *)
THEOREM OneSource == Spec => []SoleSource
<1>1. UartInv => SoleSource
  BY OffType DEF UartInv, TypeOK, Agree, OthersOff, Progress, SoleSource
<1> QED BY UartInvariant, <1>1, PTL

(* Whenever core 1 finds uart_enabled set, the FIFO, the instance and its  *)
(* interrupt are ready (uart_handler.c 91-117).                            *)
THEOREM EnabledMeansReady == Spec => []EnabledIsReady
<1>1. UartInv => EnabledIsReady
  BY DEF UartInv, Agree, Progress, EnabledIsReady
<1> QED BY UartInvariant, <1>1, PTL

-----------------------------------------------------------------------------
(* The order of the bytes.                                                 *)

(* The bytes of s are in the order of their arrival, up to number a, and   *)
(* none of them is in l.                                                   *)
Rising(s, a, l) ==
  /\ \A m, n \in 1 .. Len(s) : m < n => s[m] < s[n]
  /\ \A m \in 1 .. Len(s) : s[m] <= a /\ s[m] \notin l
Before(s, r) == \A m \in 1 .. Len(s), n \in 1 .. Len(r) : s[m] < r[n]

LEMMA JoinType ==
  ASSUME NEW S, NEW s \in Seq(S), NEW r \in Seq(S)
  PROVE  /\ s \o r \in Seq(S) /\ Len(s) \in Nat /\ Len(r) \in Nat /\ Len(s \o r) = Len(s) + Len(r)
         /\ \A i \in 1 .. Len(s) + Len(r) :
              (s \o r)[i] = IF i <= Len(s) THEN s[i] ELSE r[i - Len(s)]
OBVIOUS

LEMMA RisingJoin ==
  ASSUME NEW s \in Seq(Nat), NEW r \in Seq(Nat), NEW a \in Nat, NEW l
  PROVE  Rising(s \o r, a, l) <=> Rising(s, a, l) /\ Rising(r, a, l) /\ Before(s, r)
<1>1. /\ s \o r \in Seq(Nat) /\ Len(s) \in Nat /\ Len(r) \in Nat /\ Len(s \o r) = Len(s) + Len(r)
      /\ \A i \in 1 .. Len(s) + Len(r) :
           (s \o r)[i] = IF i <= Len(s) THEN s[i] ELSE r[i - Len(s)]
  BY JoinType
<1>2. ASSUME NEW i \in 1 .. Len(s) PROVE (s \o r)[i] = s[i] /\ i \in 1 .. Len(s \o r)
  BY <1>1
<1>3. ASSUME NEW j \in 1 .. Len(r)
      PROVE  (s \o r)[Len(s) + j] = r[j] /\ Len(s) + j \in 1 .. Len(s \o r)
  BY <1>1
<1>4. ASSUME Rising(s \o r, a, l) PROVE Rising(s, a, l) /\ Rising(r, a, l) /\ Before(s, r)
  <2>1. Rising(s, a, l)
    BY <1>2, <1>4 DEF Rising
  <2>2. ASSUME NEW m \in 1 .. Len(r), NEW n \in 1 .. Len(r), m < n PROVE r[m] < r[n]
    <3>1. Len(s) + m < Len(s) + n
      BY <1>1, <2>2
    <3> QED BY <1>3, <1>4, <3>1 DEF Rising
  <2>3. Rising(r, a, l)
    BY <1>3, <1>4, <2>2 DEF Rising
  <2>4. ASSUME NEW m \in 1 .. Len(s), NEW n \in 1 .. Len(r) PROVE s[m] < r[n]
    <3>1. m < Len(s) + n
      BY <1>1
    <3> QED BY <1>2, <1>3, <1>4, <3>1 DEF Rising
  <2> QED BY <2>1, <2>3, <2>4 DEF Before
<1>5. ASSUME Rising(s, a, l), Rising(r, a, l), Before(s, r) PROVE Rising(s \o r, a, l)
  <2>1. ASSUME NEW m \in 1 .. Len(s \o r), NEW n \in 1 .. Len(s \o r), m < n
        PROVE  (s \o r)[m] < (s \o r)[n]
    <3>0. m \in Int /\ n \in Int /\ Len(s) \in Int /\ m < n
      BY <1>1, <2>1
    <3>1. CASE n <= Len(s)
      BY <1>1, <1>5, <2>1, <3>1 DEF Rising
    <3>2. CASE m <= Len(s) /\ n > Len(s)
      <4>1. n - Len(s) \in 1 .. Len(r)
        BY <1>1, <3>2
      <4> QED BY <1>1, <1>5, <3>2, <4>1 DEF Before
    <3>3. CASE m > Len(s)
      <4>1. m - Len(s) \in 1 .. Len(r) /\ n - Len(s) \in 1 .. Len(r) /\ m - Len(s) < n - Len(s)
        BY <1>1, <2>1, <3>3
      <4>2. r[m - Len(s)] < r[n - Len(s)]
        BY <1>5, <4>1 DEF Rising
      <4> QED BY <1>1, <2>1, <3>3, <4>2
    <3> QED BY <3>0, <3>1, <3>2, <3>3
  <2>2. ASSUME NEW m \in 1 .. Len(s \o r) PROVE (s \o r)[m] <= a /\ (s \o r)[m] \notin l
    <3>1. CASE m <= Len(s)
      BY <1>1, <1>5, <3>1 DEF Rising
    <3>2. CASE m > Len(s)
      <4>1. m - Len(s) \in 1 .. Len(r)
        BY <1>1, <3>2
      <4> QED BY <1>1, <1>5, <3>2, <4>1 DEF Rising
    <3> QED BY <1>1, <3>1, <3>2
  <2> QED BY <2>1, <2>2 DEF Rising
<1> QED BY <1>4, <1>5

(* The first byte of r is dropped.                                         *)
LEMMA RisingDrop ==
  ASSUME NEW s \in Seq(Nat), NEW r \in Seq(Nat), r # <<>>, NEW a \in Nat, NEW l,
         Rising(s \o r, a, l)
  PROVE  Rising(s \o Tail(r), a, l)
<1>1. Rising(s, a, l) /\ Rising(r, a, l) /\ Before(s, r)
  BY RisingJoin
<1>2. Tail(r) \in Seq(Nat) /\ Len(r) \in Nat /\ Len(Tail(r)) = Len(r) - 1
      /\ \A i \in 1 .. Len(Tail(r)) : Tail(r)[i] = r[i + 1] /\ i + 1 \in 1 .. Len(r)
  OBVIOUS
<1>3. Rising(Tail(r), a, l)
  BY <1>1, <1>2 DEF Rising
<1>4. Before(s, Tail(r))
  BY <1>1, <1>2 DEF Before
<1> QED BY <1>1, <1>2, <1>3, <1>4, RisingJoin

(* The first byte of r moves to the end of s.                              *)
LEMMA MoveJoin ==
  ASSUME NEW S, NEW s \in Seq(S), NEW r \in Seq(S), r # <<>>
  PROVE  Append(s, Head(r)) \o Tail(r) = s \o r
OBVIOUS

LEMMA AppendJoin ==
  ASSUME NEW s \in Seq(Nat), NEW r \in Seq(Nat), NEW e \in Nat
  PROVE  s \o Append(r, e) = Append(s \o r, e)
OBVIOUS

LEMMA EmptyJoin ==
  ASSUME NEW S, NEW s \in Seq(S)
  PROVE  s \o <<>> = s
OBVIOUS

(* A new byte arrives.                                                     *)
LEMMA RisingAppend ==
  ASSUME NEW s \in Seq(Nat), NEW a \in Nat, NEW l \in SUBSET (0 .. a), Rising(s, a, l)
  PROVE  Rising(Append(s, a + 1), a + 1, l)
<1>1. Len(s) \in Nat /\ Len(Append(s, a + 1)) = Len(s) + 1
      /\ \A i \in 1 .. Len(s) + 1 : Append(s, a + 1)[i] = IF i <= Len(s) THEN s[i] ELSE a + 1
  OBVIOUS
<1>2. \A i \in 1 .. Len(s) : s[i] \in Nat
  OBVIOUS
<1>3. ASSUME NEW m \in 1 .. Len(s) + 1, NEW n \in 1 .. Len(s) + 1, m < n
      PROVE  Append(s, a + 1)[m] < Append(s, a + 1)[n]
  <2>1. m \in 1 .. Len(s)
    BY <1>1, <1>3
  <2>2. Append(s, a + 1)[m] = s[m] /\ s[m] <= a /\ s[m] \in Nat
    BY <1>1, <1>2, <2>1 DEF Rising
  <2>3. CASE n \in 1 .. Len(s)
    BY <1>1, <1>3, <2>1, <2>3 DEF Rising
  <2>4. CASE n = Len(s) + 1
    BY <1>1, <2>2, <2>4
  <2> QED BY <1>1, <2>3, <2>4
<1>4. ASSUME NEW m \in 1 .. Len(s) + 1
      PROVE  Append(s, a + 1)[m] <= a + 1 /\ Append(s, a + 1)[m] \notin l
  BY <1>1, <1>2 DEF Rising
<1> QED BY <1>1, <1>3, <1>4 DEF Rising

LEMMA JoinTwice ==
  ASSUME NEW s \in Seq(Nat), NEW r \in Seq(Nat), NEW t \in Seq(Nat)
  PROVE  (s \o r) \o t = s \o (r \o t)
BY SMTT(30)

LEMMA BeforePart ==
  ASSUME NEW s \in Seq(Nat), NEW h \in Seq(Nat), NEW r \in Seq(Nat), Before(s \o h, r)
  PROVE  Before(s, r) /\ Before(h, r)
<1>1. /\ Len(s) \in Nat /\ Len(h) \in Nat /\ Len(s \o h) = Len(s) + Len(h)
      /\ \A i \in 1 .. Len(s) + Len(h) :
           (s \o h)[i] = IF i <= Len(s) THEN s[i] ELSE h[i - Len(s)]
  BY JoinType
<1>2. ASSUME NEW m \in 1 .. Len(s), NEW n \in 1 .. Len(r) PROVE s[m] < r[n]
  <2>1. m \in 1 .. Len(s \o h) /\ (s \o h)[m] = s[m]
    BY <1>1
  <2> QED BY <2>1 DEF Before
<1>3. ASSUME NEW m \in 1 .. Len(h), NEW n \in 1 .. Len(r) PROVE h[m] < r[n]
  <2>1. Len(s) + m \in 1 .. Len(s \o h) /\ (s \o h)[Len(s) + m] = h[m]
    BY <1>1
  <2> QED BY <2>1 DEF Before
<1> QED BY <1>2, <1>3 DEF Before

BytesOf(s) == {s[n] : n \in DOMAIN s}

(* The bytes of h, in the middle, are lost.                                *)
LEMMA RisingLose ==
  ASSUME NEW s \in Seq(Nat), NEW h \in Seq(Nat), NEW r \in Seq(Nat), NEW a \in Nat, NEW l,
         Rising((s \o h) \o r, a, l)
  PROVE  Rising(s \o r, a, l \cup BytesOf(h)) /\ BytesOf(h) \subseteq 0 .. a
<1> DEFINE H == BytesOf(h)
<1>1. /\ Rising(s, a, l) /\ Rising(h, a, l) /\ Rising(r, a, l)
      /\ Before(s, h) /\ Before(s, r) /\ Before(h, r)
  BY JoinType, RisingJoin, BeforePart
<1>2. /\ DOMAIN h = 1 .. Len(h)
      /\ \A n \in 1 .. Len(s) : s[n] \in Nat
      /\ \A n \in 1 .. Len(h) : h[n] \in Nat
      /\ \A n \in 1 .. Len(r) : r[n] \in Nat
  OBVIOUS
<1>3. ASSUME NEW m \in 1 .. Len(s) PROVE s[m] \notin H
  <2>1. \A n \in 1 .. Len(h) : s[m] < h[n] /\ s[m] \in Nat /\ h[n] \in Nat
    BY <1>1, <1>2, <1>3 DEF Before
  <2> QED BY <1>2, <2>1 DEF BytesOf
<1>4. ASSUME NEW m \in 1 .. Len(r) PROVE r[m] \notin H
  <2>1. \A n \in 1 .. Len(h) : h[n] < r[m] /\ r[m] \in Nat /\ h[n] \in Nat
    BY <1>1, <1>2, <1>4 DEF Before
  <2> QED BY <1>2, <2>1 DEF BytesOf
<1>5. H \subseteq 0 .. a
  BY <1>1, <1>2 DEF Rising, BytesOf
<1> HIDE DEF H
<1>6. Rising(s, a, l \cup H) /\ Rising(r, a, l \cup H)
  BY <1>1, <1>3, <1>4 DEF Rising
<1>7. Rising(s \o r, a, l \cup H)
  BY <1>1, <1>6, RisingJoin
<1> QED BY <1>5, <1>7 DEF H

Sent == delivered \o hand
Taken == Sent \o fifo.bytes
Stream == Taken \o hw[inst].rx

Ordered == lost \subseteq 0 .. arrived /\ Rising(Stream, arrived, lost)

LEMMA StreamType ==
  ASSUME TypeOK
  PROVE  /\ delivered \in Seq(Nat) /\ hand \in Seq(Nat) /\ fifo.bytes \in Seq(Nat)
         /\ hw[inst].rx \in Seq(Nat) /\ Sent \in Seq(Nat) /\ Taken \in Seq(Nat)
         /\ Stream \in Seq(Nat) /\ arrived \in Nat
<1>1. delivered \in Seq(Bytes) /\ hand \in Seq(Bytes) /\ fifo.bytes \in Seq(Bytes)
      /\ hw[inst].rx \in Seq(Bytes) /\ arrived \in 0 .. MaxBytes
  BY DEF TypeOK
<1>2. ASSUME NEW s \in Seq(Bytes) PROVE s \in Seq(Nat)
  BY BoundAssumption DEF Bytes
<1>3. delivered \in Seq(Nat) /\ hand \in Seq(Nat) /\ fifo.bytes \in Seq(Nat)
      /\ hw[inst].rx \in Seq(Nat) /\ arrived \in Nat
  BY <1>1, <1>2, BoundAssumption
<1>4. Sent \in Seq(Nat)
  BY <1>3, JoinType DEF Sent
<1>5. Taken \in Seq(Nat)
  BY <1>3, <1>4, JoinType DEF Taken
<1> QED BY <1>3, <1>4, <1>5, JoinType DEF Stream

LEMMA OrderedStep ==
  ASSUME UartInv, Ordered, [Next]_vars
  PROVE  Ordered'
<1>0. TypeOK /\ OthersOff /\ Progress
  BY DEF UartInv, Agree
<1>1. /\ delivered \in Seq(Nat) /\ hand \in Seq(Nat) /\ fifo.bytes \in Seq(Nat)
      /\ hw[inst].rx \in Seq(Nat) /\ Sent \in Seq(Nat) /\ Taken \in Seq(Nat)
      /\ Stream \in Seq(Nat) /\ arrived \in Nat
  BY <1>0, StreamType
<1>u. /\ UNCHANGED <<delivered, hand, lost, arrived>>
      /\ fifo'.bytes = fifo.bytes /\ hw'[inst'].rx = hw[inst].rx
      => Ordered'
  BY DEF Ordered, Stream, Taken, Sent
<1>t. Rising(Taken, arrived, lost) /\ lost \subseteq 0 .. arrived
  BY <1>1, RisingJoin DEF Ordered, Stream
<1>2. ASSUME NEW i \in Insts, Arrive(i) PROVE Ordered'
  <2>1. i = inst /\ hw \in [Insts -> Instances]
    BY <1>0, <1>2, OffType DEF OthersOff, Arrive, TypeOK, Instances
  <2>2. hw'[inst'].rx = Append(hw[inst].rx, arrived + 1) /\ Taken' = Taken
        /\ arrived' = arrived + 1 /\ lost' = lost /\ lost' \subseteq 0 .. arrived'
    BY <1>0, <1>1, <1>t, <1>2, <2>1 DEF Arrive, Taken, Sent, flushVars, Instances
  <2>3. Taken \o Append(hw[inst].rx, arrived + 1) = Append(Taken \o hw[inst].rx, arrived + 1)
    <3>1. arrived + 1 \in Nat
      BY <1>1
    <3> QED BY <1>1, <3>1, AppendJoin, Zenon
  <2>4. Stream' = Append(Stream, arrived + 1)
    BY <2>2, <2>3 DEF Stream
  <2> QED BY <1>1, <1>t, <2>2, <2>4, RisingAppend DEF Ordered
<1>3. ASSUME NEW i \in Insts, Raise(i) PROVE Ordered'
  <2>1. hw'[inst].rx = hw[inst].rx
    BY <1>0, <1>3 DEF Raise, TypeOK
  <2> QED BY <1>3, <2>1, <1>u DEF Raise, flushVars
<1>q. ASSUME Quiesce, UNCHANGED <<inst, fifo, flushVars, arrived>> PROVE Ordered'
  <2>1. hw'[inst].rx = <<>>
    BY <1>0, <1>q, OffType DEF Quiesce, TypeOK
  <2>2. Taken' = Taken
    BY <1>q DEF Taken, Sent, flushVars
  <2>3. Stream' = Taken
    BY <1>1, <1>q, <2>1, <2>2, EmptyJoin DEF Stream
  <2> QED BY <1>t, <1>q, <2>3 DEF Ordered, flushVars
<1>4. ASSUME NEW i \in Insts, Configure(i) PROVE Ordered'
  BY <1>4, <1>q, <1>u DEF Configure, flushVars
<1>5. CASE Disable
  BY <1>5, <1>q DEF Disable
<1>6. CASE Interrupt
  <2>1. hw[inst].rx # <<>> /\ hw'[inst'].rx = Tail(hw[inst].rx) /\ Sent' = Sent /\ arrived' = arrived
        /\ lost' = lost /\ fifo'.bytes = Stored(Head(hw[inst].rx))
    BY <1>0, <1>6 DEF Interrupt, Emptied, TypeOK, Sent, flushVars
  <2>2. Head(hw[inst].rx) \in Nat /\ Tail(hw[inst].rx) \in Seq(Nat)
    BY <1>1, <2>1, PopType
  <2>3. CASE fifo'.bytes = fifo.bytes
    <3>1. Stream' = Taken \o Tail(hw[inst].rx)
      BY <2>1, <2>3 DEF Stream, Taken
    <3> QED BY <1>1, <2>1, <3>1, RisingDrop DEF Ordered, Stream
  <2>4. CASE fifo'.bytes = Append(fifo.bytes, Head(hw[inst].rx))
    <3>0. Sent \o Append(fifo.bytes, Head(hw[inst].rx)) = Append(Sent \o fifo.bytes, Head(hw[inst].rx))
      BY <1>1, <2>2, AppendJoin, Zenon
    <3>1. Taken' = Append(Taken, Head(hw[inst].rx))
      BY <2>1, <2>4, <3>0 DEF Taken
    <3>2. Stream' = Stream
      BY <1>1, <2>1, <3>1, MoveJoin DEF Stream
    <3> QED BY <2>1, <3>2 DEF Ordered
  <2> QED BY <2>1, <2>3, <2>4 DEF Stored
<1>7. CASE Free
  BY <1>0, <1>7, <1>u DEF Free, flushVars, TypeOK
<1>8. CASE QueueInit
  <2>1. fifo'.bytes = <<>> /\ hw'[inst'].rx = <<>> /\ Sent' = Sent /\ arrived' = arrived
        /\ lost' = lost
    BY <1>0, <1>8, OffType DEF QueueInit, At, Progress, Sent, flushVars
  <2>2. Taken' = Sent
    BY <1>1, <2>1, EmptyJoin DEF Taken
  <2>3. Stream' = Sent
    BY <1>1, <2>1, <2>2, EmptyJoin DEF Stream
  <2>4. Rising(Sent, arrived, lost)
    BY <1>1, <1>t, RisingJoin DEF Taken
  <2> QED BY <1>t, <2>1, <2>3, <2>4 DEF Ordered
<1>9. CASE UartInit
  <2>1. \A i \in Insts : hw[i] = Off
    BY <1>0, <1>9 DEF UartInit, At, OthersOff, Progress
  <2>2. hw[inst].rx = <<>> /\ hw'[inst'].rx = <<>>
    BY <1>0, <1>9, <2>1, OffType DEF UartInit, TypeOK
  <2> QED BY <1>9, <1>u, <2>2 DEF UartInit, flushVars
<1>10. CASE EnableIrq
  <2>1. hw'[inst].rx = hw[inst].rx
    BY <1>0, <1>10 DEF EnableIrq, TypeOK
  <2> QED BY <1>10, <1>u, <2>1 DEF EnableIrq, flushVars
<1>11. CASE ClearEnabled \/ SetEnabled \/ Answer \/ FlushStart \/ TakeEnd \/ UNCHANGED vars
  BY <1>11, <1>u DEF ClearEnabled, SetEnabled, Answer, FlushStart, TakeEnd, vars, fwVars, flushVars
<1>12. CASE Take
  <2>1. fifo.bytes # <<>> /\ fifo'.bytes = Tail(fifo.bytes) /\ hand' = Append(hand, Head(fifo.bytes))
        /\ UNCHANGED <<delivered, lost, arrived, hw, inst>>
    BY <1>0, <1>12 DEF Take, Takes, TypeOK
  <2>2. Head(fifo.bytes) \in Nat
    BY <1>1, <2>1, PopType
  <2>0. delivered \o Append(hand, Head(fifo.bytes)) = Append(delivered \o hand, Head(fifo.bytes))
    BY <1>1, <2>2, AppendJoin, Zenon
  <2>3. Sent' = Append(Sent, Head(fifo.bytes))
    BY <2>0, <2>1 DEF Sent
  <2>4. Taken' = Taken
    BY <1>1, <2>1, <2>3, MoveJoin DEF Taken
  <2> QED BY <2>1, <2>4 DEF Ordered, Stream
<1>13. CASE FlushWrite
  <2>1. delivered' = Sent /\ hand' = <<>> /\ UNCHANGED <<fifo, hw, inst, lost, arrived>>
    BY <1>13 DEF FlushWrite, Sent, fwVars
  <2>2. Sent' = Sent
    BY <1>1, <2>1, EmptyJoin DEF Sent
  <2> QED BY <2>1, <2>2 DEF Ordered, Stream, Taken
<1>14. CASE FlushDrop
  <2> DEFINE rest == fifo.bytes \o hw[inst].rx
  <2>1. /\ lost' = lost \cup BytesOf(hand) /\ hand' = <<>>
        /\ UNCHANGED <<delivered, fifo, hw, inst, arrived>>
    BY <1>14 DEF FlushDrop, fwVars, BytesOf
  <2>2. rest \in Seq(Nat)
    BY <1>1, JoinType
  <2>a. (Sent \o fifo.bytes) \o hw[inst].rx = Sent \o rest
    <3>1. PICK d \in Seq(Nat), f \in Seq(Nat), x \in Seq(Nat) :
            d = Sent /\ f = fifo.bytes /\ x = hw[inst].rx
      BY <1>1
    <3>2. (d \o f) \o x = d \o (f \o x)
      BY JoinTwice
    <3> QED BY <3>1, <3>2
  <2>b. (delivered \o fifo.bytes) \o hw[inst].rx = delivered \o rest
    <3>1. PICK d \in Seq(Nat), f \in Seq(Nat), x \in Seq(Nat) :
            d = delivered /\ f = fifo.bytes /\ x = hw[inst].rx
      BY <1>1
    <3>2. (d \o f) \o x = d \o (f \o x)
      BY JoinTwice
    <3> QED BY <3>1, <3>2
  <2> HIDE DEF rest
  <2>3. Stream = (delivered \o hand) \o rest
    BY <2>a DEF Stream, Taken, Sent
  <2>4. Sent' = delivered
    BY <1>1, <2>1, EmptyJoin DEF Sent
  <2>5. Stream' = delivered \o rest
    BY <2>1, <2>4, <2>b DEF Stream, Taken
  <2>6. Rising((delivered \o hand) \o rest, arrived, lost)
    BY <2>3 DEF Ordered
  <2>7. /\ Rising(delivered \o rest, arrived, lost \cup BytesOf(hand))
        /\ BytesOf(hand) \subseteq 0 .. arrived
    BY <1>1, <2>2, <2>6, RisingLose, Zenon
  <2> QED BY <1>t, <2>1, <2>5, <2>7 DEF Ordered
<1> QED
  BY <1>2, <1>3, <1>4, <1>5, <1>6, <1>7, <1>8, <1>9, <1>10, <1>11, <1>12, <1>13, <1>14
     DEF Next, Core1, Core0

LEMMA OrderedInit == Init => Ordered
<1> SUFFICES ASSUME Init PROVE Ordered
  OBVIOUS
<1>1. delivered = <<>> /\ hand = <<>> /\ fifo.bytes = <<>> /\ hw[inst].rx = <<>> /\ <<>> \in Seq(Nat)
  BY OffType DEF Init
<1>2. Stream = <<>>
  BY <1>1, EmptyJoin DEF Stream, Taken, Sent
<1>3. Len(Stream) = 0 /\ lost = {}
  BY <1>2 DEF Init
<1> QED BY <1>3 DEF Ordered, Rising

(* Bytes reach the host in the order of their arrival, none of them twice  *)
(* and none that was given up for lack of room, unless freed memory was    *)
(* read, for every size of the FIFO and of a packet and across any number of     *)
(* reconfigurations (uart_handler.c 38-41, 55-64, 96).                     *)
THEOREM BytesKeepOrder == Spec => []BytesInOrder
<1>1. UartInv /\ Ordered => BytesInOrder
  <2> SUFFICES ASSUME UartInv, Ordered PROVE BytesInOrder
    OBVIOUS
  <2>1. Stream \in Seq(Nat)
    BY StreamType DEF UartInv
  <2>2. DOMAIN Stream = 1 .. Len(Stream)
    BY <2>1
  <2> QED BY <2>2 DEF BytesInOrder, Ordered, Rising, Stream, Taken, Sent
<1>2. UartInv /\ Ordered /\ [Next]_vars => Ordered'
  BY OrderedStep
<1> QED BY UartInvariant, OrderedInit, <1>1, <1>2, PTL DEF Spec

=============================================================================
