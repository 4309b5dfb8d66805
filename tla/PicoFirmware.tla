---------------------------- MODULE PicoFirmware ----------------------------
(***************************************************************************)
(* How the firmware moves packets: from the OUT endpoint through TinyUSB's *)
(* receive FIFO and packet_queue to core 1, which executes them, and from  *)
(* both cores through TinyUSB's transmit FIFO to the IN endpoint.          *)
(*                                                                         *)
(* Core 0 runs the USB stack and pushes UART data, core 1 executes         *)
(* commands; they share packet_queue, the transmit FIFO and usb_mutex.     *)
(* The host is taken to have mounted the device.                           *)
(***************************************************************************)
EXTENDS Integers, Sequences

CONSTANTS
  QueueSlots,  \* packets packet_queue holds (128)
  RxSlots,     \* packets the receive FIFO holds (16)
  TxSlots,     \* packets the transmit FIFO holds (16)
  Kinds,       \* kinds of command the host sends
  MaxPackets,  \* bound: commands the host sends
  MaxUart      \* bound: pieces of data that arrive at the UART

(* What the handler of a kind of command writes to the transmit FIFO: log  *)
(* lines and answers, dropped when there is no room, and the answer to SPI *)
(* data that was clocked out, which waits for room.  SPI data for a chip   *)
(* select that is not configured ("spi refused") is answered without       *)
(* waiting, and SPI data without a bus ("spi off") is not answered.        *)
Writes(kind) ==
  CASE kind \in {"gpio data", "spi off"}       -> <<>>
    [] kind = "gpio read"                      -> <<"answer">>
    [] kind \in {"i2c found", "spi refused"}   -> <<"log", "answer">>
    [] kind = "spi data"                       -> <<"wait">>

AllKinds == {"gpio data", "gpio read", "i2c found", "spi data", "spi refused", "spi off"}

ASSUME SlotsAssumption == {QueueSlots, RxSlots, TxSlots} \subseteq Nat \ {0}
ASSUME KindsAssumption == Kinds \subseteq AllKinds
ASSUME MaxAssumption == MaxPackets \in Nat /\ MaxUart \in Nat

VARIABLES
  sent,      \* commands the OUT endpoint accepted
  armed,     \* the OUT endpoint accepts a packet
  epout,     \* the packet it received, until tud_task sees it
  rxfifo,    \* the receive FIFO
  queue,     \* packet_queue
  core0,     \* where core 0 is
  hand,      \* the UART data core 0 took out of uart_rx_fifo
  core1,     \* where core 1 is, and the writes its handler has left
  mutex,     \* usb_mutex: "free", or the core that holds it
  txfifo,    \* the transmit FIFO
  epin,      \* the IN endpoint: idle, or sending, or sent
  uart,      \* uart_rx_fifo
  arrived,   \* pieces of data that arrived at the UART
  executed,  \* the commands core 1 executed, in order
  delivered  \* the packets the host received, in order

inVars == <<sent, armed, epout, rxfifo, queue, executed>>
outVars == <<txfifo, epin, delivered>>
uartVars == <<uart, arrived, hand>>
vars == <<inVars, outVars, uartVars, core0, core1, mutex>>

Commands == [id : 1 .. MaxPackets, kind : Kinds]
Outputs == [id : Nat, what : {"log", "answer", "wait", "uart"}]

TypeOK ==
  /\ sent \in 0 .. MaxPackets
  /\ armed \in BOOLEAN
  /\ epout \in Seq(Commands) /\ Len(epout) <= 1
  /\ rxfifo \in Seq(Commands) /\ Len(rxfifo) <= RxSlots
  /\ queue \in Seq(Commands) /\ Len(queue) <= QueueSlots
  /\ core0 \in {"task", "callback", "flush", "lock", "write"}
  /\ hand \in 0 .. MaxUart
  /\ core1 \in [at : {"fetch", "lock", "write"}, left : Seq({"log", "answer", "wait"})]
  /\ mutex \in {"free", "core 0", "core 1"}
  /\ txfifo \in Seq(Outputs) /\ Len(txfifo) <= TxSlots
  /\ epin \in [at : {"idle", "sending", "sent"}, pkt : Seq(Outputs)]
  /\ uart \in Seq(1 .. MaxUart)
  /\ arrived \in 0 .. MaxUart
  /\ executed \in Seq(Commands)
  /\ delivered \in Seq(Outputs)

Init ==
  /\ sent = 0 /\ armed = TRUE /\ epout = <<>>
  /\ rxfifo = <<>> /\ queue = <<>> /\ executed = <<>>
  /\ core0 = "task" /\ hand = 0
  /\ core1 = [at |-> "fetch", left |-> <<>>]
  /\ mutex = "free"
  /\ txfifo = <<>> /\ epin = [at |-> "idle", pkt |-> <<>>] /\ delivered = <<>>
  /\ uart = <<>> /\ arrived = 0

-----------------------------------------------------------------------------
(* The host and the UART line.                                             *)

(* An endpoint that is not armed answers NAK and the host keeps trying.    *)
HostSend(kind) ==
  /\ sent < MaxPackets
  /\ armed
  /\ sent' = sent + 1
  /\ armed' = FALSE
  /\ epout' = <<[id |-> sent + 1, kind |-> kind]>>
  /\ UNCHANGED <<rxfifo, queue, executed, outVars, uartVars, core0, core1, mutex>>

HostTake ==
  /\ epin.at = "sending"
  /\ delivered' = delivered \o epin.pkt
  /\ epin' = [at |-> "sent", pkt |-> <<>>]
  /\ UNCHANGED <<inVars, txfifo, uartVars, core0, core1, mutex>>

(* on_uart_rx: the UART interrupt.                                         *)
UartRx ==
  /\ arrived < MaxUart
  /\ arrived' = arrived + 1
  /\ uart' = Append(uart, arrived + 1)
  /\ UNCHANGED <<inVars, outVars, hand, core0, core1, mutex>>

-----------------------------------------------------------------------------
(* TinyUSB.                                                                *)

(* The endpoint is armed when the FIFO has room for a packet and nothing   *)
(* that was received waits for tud_task.                                   *)
Rearm(fifo) == armed' = (armed \/ (epout = <<>> /\ Len(fifo) < RxSlots))

(* tud_vendor_write and tud_vendor_write_flush: the packet goes to the     *)
(* FIFO when there is room, and the FIFO's head to an idle endpoint.       *)
Room == Len(txfifo) < TxSlots

Flush(fifo) ==
  IF epin.at = "idle" /\ fifo # <<>>
    THEN epin' = [at |-> "sending", pkt |-> <<Head(fifo)>>] /\ txfifo' = Tail(fifo)
    ELSE epin' = epin /\ txfifo' = fifo

Write(p) == Flush(IF Room THEN Append(txfifo, p) ELSE txfifo)

-----------------------------------------------------------------------------
(* Core 0: tud_task, then picolink_uart_flush_to_usb, for ever.            *)

(* A received packet enters the FIFO and tud_vendor_rx_cb is called.       *)
TaskOut ==
  /\ core0 = "task"
  /\ epout # <<>>
  /\ rxfifo' = rxfifo \o epout
  /\ epout' = <<>>
  /\ core0' = "callback"
  /\ UNCHANGED <<sent, armed, queue, executed, outVars, uartVars, core1, mutex>>

(* A sent packet makes way for the next one.                               *)
TaskIn ==
  /\ core0 = "task"
  /\ epin.at = "sent"
  /\ IF txfifo # <<>>
       THEN epin' = [at |-> "sending", pkt |-> <<Head(txfifo)>>] /\ txfifo' = Tail(txfifo)
       ELSE epin' = [at |-> "idle", pkt |-> <<>>] /\ txfifo' = <<>>
  /\ UNCHANGED <<inVars, delivered, uartVars, core0, core1, mutex>>

TaskEnd ==
  /\ core0 = "task"
  /\ epout = <<>> /\ epin.at # "sent"
  /\ core0' = "flush"
  /\ UNCHANGED <<inVars, outVars, uartVars, core1, mutex>>

(* Mutant of Drain: the packet is read before the queue is looked at.      *)
DrainUnchecked ==
  /\ core0 = "callback"
  /\ rxfifo # <<>>
  /\ rxfifo' = Tail(rxfifo)
  /\ queue' = IF Len(queue) < QueueSlots THEN Append(queue, Head(rxfifo)) ELSE queue
  /\ Rearm(rxfifo')
  /\ UNCHANGED <<sent, epout, executed, outVars, uartVars, core0, core1, mutex>>

(* tud_vendor_rx_cb moves packets from the FIFO to packet_queue ...        *)
Drain ==
  /\ core0 = "callback"
  /\ rxfifo # <<>> /\ Len(queue) < QueueSlots
  /\ rxfifo' = Tail(rxfifo)
  /\ queue' = Append(queue, Head(rxfifo))
  /\ Rearm(rxfifo')
  /\ UNCHANGED <<sent, epout, executed, outVars, uartVars, core0, core1, mutex>>

(* ... and leaves the rest in the FIFO when packet_queue is full.          *)
DrainEnd ==
  /\ core0 = "callback"
  /\ rxfifo = <<>> \/ Len(queue) = QueueSlots
  /\ core0' = "task"
  /\ Rearm(rxfifo)
  /\ UNCHANGED <<sent, epout, rxfifo, queue, executed, outVars, uartVars, core1, mutex>>

UartSkip ==
  /\ core0 = "flush"
  /\ uart = <<>> \/ ~Room
  /\ core0' = "task"
  /\ UNCHANGED <<inVars, outVars, uartVars, core1, mutex>>

(* Mutant of UartTake: the data is looked at and not removed.              *)
UartPeek ==
  /\ core0 = "flush"
  /\ uart # <<>> /\ Room
  /\ hand' = Head(uart)
  /\ core0' = "lock"
  /\ UNCHANGED <<inVars, outVars, uart, arrived, core1, mutex>>

(* The room is looked at before usb_mutex is taken.                        *)
UartTake ==
  /\ core0 = "flush"
  /\ uart # <<>> /\ Room
  /\ hand' = Head(uart) /\ uart' = Tail(uart)
  /\ core0' = "lock"
  /\ UNCHANGED <<inVars, outVars, arrived, core1, mutex>>

Lock0 ==
  /\ core0 = "lock"
  /\ mutex = "free"
  /\ mutex' = "core 0"
  /\ core0' = "write"
  /\ UNCHANGED <<inVars, outVars, uartVars, core1>>

Write0 ==
  /\ core0 = "write"
  /\ Write([id |-> hand, what |-> "uart"])
  /\ hand' = 0
  /\ mutex' = "free"
  /\ core0' = "task"
  /\ UNCHANGED <<inVars, delivered, uart, arrived, core1>>

-----------------------------------------------------------------------------
(* Core 1: core1_entry.                                                    *)

(* A command is taken from the queue and executed; then its handler writes *)
(* what it has to write.                                                   *)
Execute ==
  /\ core1.at = "fetch"
  /\ queue # <<>>
  /\ queue' = Tail(queue)
  /\ executed' = Append(executed, Head(queue))
  /\ LET todo == Writes(Head(queue).kind)
     IN  core1' = [at |-> IF todo = <<>> THEN "fetch" ELSE "lock", left |-> todo]
  /\ UNCHANGED <<sent, armed, epout, rxfifo, outVars, uartVars, core0, mutex>>

Lock1 ==
  /\ core1.at = "lock"
  /\ mutex = "free"
  /\ mutex' = "core 1"
  /\ core1' = [core1 EXCEPT !.at = "write"]
  /\ UNCHANGED <<inVars, outVars, uartVars, core0>>

Current == executed[Len(executed)]

Write1 ==
  /\ core1.at = "write"
  /\ Head(core1.left) # "wait" \/ Room
  /\ Write([id |-> Current.id, what |-> Head(core1.left)])
  /\ mutex' = "free"
  /\ LET todo == Tail(core1.left)
     IN  core1' = [at |-> IF todo = <<>> THEN "fetch" ELSE "lock", left |-> todo]
  /\ UNCHANGED <<inVars, delivered, uartVars, core0>>

(* Mutants of Wait1: the mutex is kept; the wait is given up.              *)
Wait1Holding ==
  /\ core1.at = "write"
  /\ Head(core1.left) = "wait" /\ ~Room
  /\ UNCHANGED vars

Wait1GivesUp ==
  /\ core1.at = "write"
  /\ Head(core1.left) = "wait" /\ ~Room
  /\ mutex' = "free"
  /\ core1' = [at |-> "fetch", left |-> <<>>]
  /\ UNCHANGED <<inVars, outVars, uartVars, core0>>

(* picolink_spi_handle lets go of usb_mutex while there is no room.        *)
Wait1 ==
  /\ core1.at = "write"
  /\ Head(core1.left) = "wait" /\ ~Room
  /\ mutex' = "free"
  /\ core1' = [core1 EXCEPT !.at = "lock"]
  /\ UNCHANGED <<inVars, outVars, uartVars, core0>>

-----------------------------------------------------------------------------

Core0 ==
  \/ TaskOut \/ TaskIn \/ TaskEnd \/ Drain \/ DrainEnd
  \/ UartSkip \/ UartTake \/ Lock0 \/ Write0

Core1 == Execute \/ Lock1 \/ Write1 \/ Wait1

Next ==
  \/ \E kind \in Kinds : HostSend(kind)
  \/ HostTake \/ UartRx
  \/ Core0 \/ Core1

Spec == Init /\ [][Next]_vars

(* Both cores run all the time, mutex_enter_blocking gets a mutex that is  *)
(* free again and again, and the host has a read URB posted.  The host is  *)
(* under no obligation to send, nor the UART line to bring data.           *)
Fairness ==
  /\ WF_vars(Core0) /\ SF_vars(Lock0)
  /\ WF_vars(Core1) /\ SF_vars(Lock1)
  /\ WF_vars(HostTake)

FairSpec == Spec /\ Fairness

-----------------------------------------------------------------------------
(* Properties.                                                             *)

(* No command is lost, duplicated or overtaken between the OUT endpoint    *)
(* and core 1, however full the queues are (main.c 220-234).               *)
CommandsInOrder ==
  LET all == executed \o queue \o rxfifo \o epout
  IN  Len(all) = sent /\ \A i \in 1 .. sent : all[i].id = i

Output == delivered \o epin.pkt \o txfifo

(* Nothing the host receives is repeated or overtaken: neither answers nor *)
(* UART data, although two cores write (spi_handler.c 150-163,             *)
(* uart_handler.c 56-65).                                                  *)
OutputInOrder ==
  \A i, j \in 1 .. Len(Output) :
    /\ i < j
    /\ Output[i].what = Output[j].what
    => Output[i].id < Output[j].id

(* The answer to SPI data that was clocked out is never dropped: when core *)
(* 1 goes on to the next command it is on its way to the host              *)
(* (spi_handler.c 127-163).  The answer to a refused chunk has no such     *)
(* promise (spi_handler.c 164-179).                                        *)
ChunksAnswered ==
  \A n \in 1 .. Len(executed) :
    executed[n].kind = "spi data" /\ (n < Len(executed) \/ core1.at = "fetch")
    => \E i \in 1 .. Len(Output) : Output[i] = [id |-> executed[n].id, what |-> "wait"]

(* tud_vendor_rx_cb finds packet_queue full: it leaves the packet in the   *)
(* FIFO, and only the arrival of another one calls it again.               *)
Overrun == core0 = "callback" /\ rxfifo # <<>> /\ Len(queue) = QueueSlots

(* Every command the endpoint accepted is executed in the end, if the      *)
(* callback never finds packet_queue full, although both cores wait for    *)
(* usb_mutex and for room in the transmit FIFO (main.c 220-234,            *)
(* spi_handler.c 150-163).  Without the condition it fails.                *)
EveryCommandRuns ==
  []~Overrun => \A n \in 1 .. MaxPackets : sent >= n ~> Len(executed) >= n

=============================================================================
