----------------------------- MODULE PicoUartFw -----------------------------
(***************************************************************************)
(* The firmware's UART bridge: uart_rx_fifo, uart_enabled and u_inst as    *)
(* core 1 (commands), the UART interrupt (which preempts core 1 only, the  *)
(* core that enabled it) and core 0 (the flush to USB) share them, with no *)
(* lock.                                                                   *)
(*                                                                         *)
(* A byte is the number of its arrival.  The transmit FIFO of USB is       *)
(* PicoFirmware's: here the flush finds room or does not, and what core 1  *)
(* sends after that may have used the room up.                             *)
(***************************************************************************)
EXTENDS Integers, Sequences

CONSTANTS
  Insts,        \* UART instances: uart0, uart1
  FifoBytes,    \* bytes uart_rx_fifo holds (2048)
  PacketBytes,  \* bytes a packet holds (60)
  MaxBytes,     \* bound: bytes that arrive
  MaxCommands   \* bound: commands core 1 gets

ASSUME InstsAssumption == Insts # {}
ASSUME SizeAssumption == {FifoBytes, PacketBytes} \subseteq Nat \ {0}
ASSUME BoundAssumption == {MaxBytes, MaxCommands} \subseteq Nat

VARIABLES
  enabled,    \* uart_enabled
  inst,       \* u_inst, which is not looked at while uart_enabled is false
  fifo,       \* uart_rx_fifo: whether its memory is allocated, and the bytes
  hw,         \* hw[i]: the instance: initialised, interrupt on and raised, bytes
  core1,      \* where core 1 is, and the instance it configures
  core0,      \* where core 0 is
  hand,       \* bytes core 0 has put into its packet
  delivered,  \* bytes sent to the host
  crowded,    \* core 1 has sent something since the flush found room
  lost,       \* bytes taken out of the FIFO and not sent for lack of room
  arrived,    \* bytes that arrived
  commands,   \* commands executed so far
  torn        \* core 0 read the FIFO's memory after it was freed (history)

fwVars == <<enabled, inst, fifo, hw>>
flushVars == <<core0, hand, delivered, crowded, lost, torn>>
vars == <<fwVars, core1, flushVars, arrived, commands>>

Bytes == 1 .. MaxBytes
Off == [up |-> FALSE, irq |-> FALSE, raised |-> FALSE, rx |-> <<>>]

TypeOK ==
  /\ enabled \in BOOLEAN /\ inst \in Insts
  /\ fifo \in [live : BOOLEAN, bytes : Seq(Bytes)] /\ Len(fifo.bytes) <= FifoBytes
  /\ hw \in [Insts -> [up : BOOLEAN, irq : BOOLEAN, raised : BOOLEAN, rx : Seq(Bytes)]]
  /\ core1 \in [at : {"idle", "free", "clear", "queue", "init", "irq", "enable"}, new : Insts, config : BOOLEAN]
  /\ core0 \in {"check", "take", "write"}
  /\ hand \in Seq(Bytes) /\ delivered \in Seq(Bytes)
  /\ arrived \in 0 .. MaxBytes /\ commands \in 0 .. MaxCommands
  /\ crowded \in BOOLEAN /\ lost \in SUBSET Bytes /\ torn \in BOOLEAN

Init ==
  /\ enabled = FALSE /\ inst \in Insts
  /\ fifo = [live |-> FALSE, bytes |-> <<>>]
  /\ hw = [i \in Insts |-> Off]
  /\ core1 \in [at : {"idle"}, new : Insts, config : {FALSE}]
  /\ core0 = "check" /\ hand = <<>> /\ delivered = <<>>
  /\ crowded = FALSE /\ lost = {} /\ torn = FALSE
  /\ arrived = 0 /\ commands = 0

-----------------------------------------------------------------------------
(* The UART.                                                               *)

(* A byte arrives at an initialised instance.                              *)
Arrive(i) ==
  /\ hw[i].up
  /\ arrived < MaxBytes
  /\ arrived' = arrived + 1
  /\ hw' = [hw EXCEPT ![i].rx = Append(@, arrived + 1)]
  /\ UNCHANGED <<enabled, inst, fifo, core1, flushVars, commands>>

(* The instance has bytes enough, or for long enough, to ask for service;  *)
(* the request stays until its bytes are read.                             *)
Raise(i) ==
  /\ hw[i].rx # <<>>
  /\ hw' = [hw EXCEPT ![i].raised = TRUE]
  /\ UNCHANGED <<enabled, inst, fifo, core1, flushVars, arrived, commands>>

(* An interrupt is pending: core 1 is inside the handler or enters it      *)
(* before its next instruction, and executes nothing else.                 *)
Pending == \E i \in Insts : hw[i].irq /\ hw[i].raised

Stored(b) == IF Len(fifo.bytes) < FifoBytes THEN Append(fifo.bytes, b) ELSE fifo.bytes

Emptied(h) == [h EXCEPT !.rx = Tail(@), !.raised = @ /\ Len(h.rx) > 1]

(* Mutant of Interrupt: the handler reads one instance, whichever it is    *)
(* that interrupts.                                                        *)
InterruptFirst ==
  LET one == CHOOSE i \in Insts : TRUE
  IN  /\ Pending /\ enabled
      /\ hw[one].rx # <<>>
      /\ fifo' = [fifo EXCEPT !.bytes = Stored(Head(hw[one].rx))]
      /\ hw' = [hw EXCEPT ![one] = Emptied(@)]
      /\ UNCHANGED <<enabled, inst, core1, flushVars, arrived, commands>>

(* on_uart_rx moves a byte from the instance to the FIFO, or drops it when *)
(* the FIFO is full.  While uart_enabled is false it returns at once, with *)
(* the request still up.                                                   *)
Interrupt ==
  /\ Pending /\ enabled
  /\ hw[inst].rx # <<>>
  /\ fifo' = [fifo EXCEPT !.bytes = Stored(Head(hw[inst].rx))]
  /\ hw' = [hw EXCEPT ![inst] = Emptied(@)]
  /\ UNCHANGED <<enabled, inst, core1, flushVars, arrived, commands>>

-----------------------------------------------------------------------------
(* Core 1: picolink_uart_handle and picolink_uart_disable.                 *)

At(s) == ~Pending /\ core1.at = s
Goto(s) == core1' = [core1 EXCEPT !.at = s]
Command == At("idle") /\ commands < MaxCommands /\ commands' = commands + 1

(* Mutant of Quiesce: u_inst already is the new instance.                  *)
QuiesceNew == hw' = [hw EXCEPT ![core1'.new] = Off]

(* The interrupt is switched off and the instance shut down.               *)
Quiesce == hw' = [hw EXCEPT ![inst] = Off]

(* CONFIG for the instance i that the transmit pin belongs to: a UART that *)
(* is enabled is disabled first.                                           *)
Configure(i) ==
  /\ Command
  /\ core1' = [at |-> IF enabled THEN "free" ELSE "queue", new |-> i, config |-> TRUE]
  /\ IF enabled THEN Quiesce ELSE UNCHANGED hw
  /\ UNCHANGED <<enabled, inst, fifo, flushVars, arrived>>

(* Mutant of Disable: the interrupt stays on.                             *)
DisableKeepsIrq ==
  /\ Command
  /\ enabled
  /\ core1' = [core1 EXCEPT !.at = "free", !.config = FALSE]
  /\ UNCHANGED <<fwVars, flushVars, arrived>>

Disable ==
  /\ Command
  /\ enabled
  /\ core1' = [core1 EXCEPT !.at = "free", !.config = FALSE]
  /\ Quiesce
  /\ UNCHANGED <<enabled, inst, fifo, flushVars, arrived>>

(* queue_free.                                                             *)
Free ==
  /\ At("free")
  /\ fifo' = [fifo EXCEPT !.live = FALSE]
  /\ Goto("clear")
  /\ UNCHANGED <<enabled, inst, hw, flushVars, arrived, commands>>

(* Mutant of ClearEnabled: it is left set.                                 *)
ClearNothing ==
  /\ At("clear")
  /\ Goto(IF core1.config THEN "queue" ELSE "idle")
  /\ UNCHANGED <<fwVars, flushVars, arrived, commands>>

ClearEnabled ==
  /\ At("clear")
  /\ enabled' = FALSE
  /\ Goto(IF core1.config THEN "queue" ELSE "idle")
  /\ UNCHANGED <<inst, fifo, hw, flushVars, arrived, commands>>

(* queue_init.                                                             *)
QueueInit ==
  /\ At("queue")
  /\ fifo' = [live |-> TRUE, bytes |-> <<>>]
  /\ Goto("init")
  /\ UNCHANGED <<enabled, inst, hw, flushVars, arrived, commands>>

(* u_inst, uart_init and the pins: bytes can arrive from here on.          *)
UartInit ==
  /\ At("init")
  /\ inst' = core1.new
  /\ hw' = [hw EXCEPT ![core1.new].up = TRUE]
  /\ Goto("irq")
  /\ UNCHANGED <<enabled, fifo, flushVars, arrived, commands>>

(* The interrupt is enabled, on this core ...                              *)
EnableIrq ==
  /\ At("irq")
  /\ hw' = [hw EXCEPT ![inst].irq = TRUE]
  /\ Goto("enable")
  /\ UNCHANGED <<enabled, inst, fifo, flushVars, arrived, commands>>

(* ... and only then uart_enabled set.                                     *)
SetEnabled ==
  /\ At("enable")
  /\ enabled' = TRUE
  /\ Goto("idle")
  /\ UNCHANGED <<inst, fifo, hw, flushVars, arrived, commands>>

(* Core 1 sends a packet: the message at the end of a UART command, or an  *)
(* answer or a message of another interface.                               *)
Answer ==
  /\ At("idle") \/ At("queue")
  /\ crowded' = TRUE
  /\ UNCHANGED <<fwVars, core1, core0, hand, delivered, lost, torn, arrived, commands>>

-----------------------------------------------------------------------------
(* Core 0: picolink_uart_flush_to_usb.                                     *)

(* Mutant of FlushStart: only full packets are sent.                       *)
FlushFull ==
  /\ core0 = "check"
  /\ enabled /\ Len(fifo.bytes) >= PacketBytes
  /\ core0' = "take"
  /\ crowded' = FALSE
  /\ UNCHANGED <<fwVars, core1, hand, delivered, lost, torn, arrived, commands>>

(* uart_enabled and the FIFO are looked at, and there is room to send.     *)
FlushStart ==
  /\ core0 = "check"
  /\ enabled /\ fifo.bytes # <<>>
  /\ core0' = "take"
  /\ crowded' = FALSE
  /\ UNCHANGED <<fwVars, core1, hand, delivered, lost, torn, arrived, commands>>

Takes == fifo.bytes # <<>> /\ Len(hand) < PacketBytes

(* Mutant of Take: the byte is looked at and not removed.                  *)
TakePeeks ==
  /\ core0 = "take"
  /\ Takes
  /\ hand' = Append(hand, Head(fifo.bytes))
  /\ torn' = (torn \/ ~fifo.live)
  /\ UNCHANGED <<fwVars, core1, core0, delivered, crowded, lost, arrived, commands>>

(* queue_try_remove, byte by byte.  What freed memory holds is anyone's    *)
(* guess: it is marked in torn.                                            *)
Take ==
  /\ core0 = "take"
  /\ Takes
  /\ hand' = Append(hand, Head(fifo.bytes))
  /\ fifo' = [fifo EXCEPT !.bytes = Tail(@)]
  /\ torn' = (torn \/ ~fifo.live)
  /\ UNCHANGED <<enabled, inst, hw, core1, core0, delivered, crowded, lost, arrived, commands>>

TakeEnd ==
  /\ core0 = "take"
  /\ ~Takes
  /\ core0' = IF hand = <<>> THEN "check" ELSE "write"
  /\ UNCHANGED <<fwVars, core1, hand, delivered, crowded, lost, torn, arrived, commands>>

(* tud_vendor_write, under usb_mutex: the packet still fits ...            *)
FlushWrite ==
  /\ core0 = "write"
  /\ delivered' = delivered \o hand
  /\ hand' = <<>>
  /\ core0' = "check"
  /\ UNCHANGED <<fwVars, core1, crowded, lost, torn, arrived, commands>>

(* ... or core 1 took the room, which was looked for before the mutex was  *)
(* entered: nothing is written, and the result is not looked at.           *)
FlushDrop ==
  /\ core0 = "write"
  /\ crowded
  /\ lost' = lost \cup {hand[n] : n \in DOMAIN hand}
  /\ hand' = <<>>
  /\ core0' = "check"
  /\ UNCHANGED <<fwVars, core1, delivered, crowded, torn, arrived, commands>>

-----------------------------------------------------------------------------

Core1 == Free \/ ClearEnabled \/ QueueInit \/ UartInit \/ EnableIrq \/ SetEnabled
Core0 == Take \/ TakeEnd \/ FlushWrite \/ FlushDrop

Next ==
  \/ \E i \in Insts : Arrive(i) \/ Raise(i) \/ Configure(i)
  \/ Disable \/ Answer \/ Interrupt
  \/ Core1 \/ FlushStart \/ Core0

Spec == Init /\ [][Next]_vars

(* Core 1 and the interrupt run, the UART asks for service when a byte has *)
(* waited, and core 0 finds room again and again as the host keeps         *)
(* reading.  Nothing makes the host send commands or the peer bytes.       *)
Fairness ==
  /\ WF_vars(Core1) /\ WF_vars(Interrupt)
  /\ \A i \in Insts : WF_vars(Raise(i))
  /\ WF_vars(Core0) /\ SF_vars(FlushStart)

FairSpec == Spec /\ Fairness

-----------------------------------------------------------------------------
(* Properties.                                                             *)

(* The interrupt handler never stores into a FIFO whose memory is not      *)
(* allocated, however commands, interrupts and core 0 interleave           *)
(* (uart_handler.c 25-29, 96-111).                                         *)
IrqOnLiveFifo == enabled /\ Pending => fifo.live

(* Only the instance u_inst points to can interrupt: the handler, which    *)
(* reads u_inst, never leaves another one's request up for ever            *)
(* (uart_handler.c 24-27, 91-109).                                         *)
SoleSource == \A i \in Insts : hw[i].irq => i = inst /\ hw[i].up

(* When core 1 takes a command and finds uart_enabled set, everything the  *)
(* command may rely on is there: the FIFO, the instance it writes to and   *)
(* its interrupt (uart_handler.c 91-117).                                  *)
EnabledIsReady ==
  enabled /\ core1.at = "idle" => fifo.live /\ hw[inst].up /\ hw[inst].irq

(* Bytes reach the host in the order of their arrival, none of them twice  *)
(* and none that was lost to lack of room, across reconfigurations, unless *)
(* the flush has read freed memory (uart_handler.c 38-41, 55-64, 96).      *)
BytesInOrder ==
  LET all == delivered \o hand \o fifo.bytes \o hw[inst].rx
  IN  ~torn => /\ \A m, n \in DOMAIN all : m < n => all[m] < all[n]
               /\ \A n \in DOMAIN all : all[n] \notin lost

(* The interrupt asks for service that the handler does not give, and core *)
(* 1 executes nothing else any more.                                       *)
Storm == Pending /\ ~enabled

(* Core 1 gets back to its next command again and again, through every     *)
(* command and every interrupt, but for the interrupt that comes between   *)
(* its being enabled and uart_enabled being set (uart_handler.c 36-41,     *)
(* 108-111).                                                               *)
CommandsEnd == []<>(At("idle") \/ Storm)

(* A byte that is in the FIFO of an enabled UART does not stay there: as   *)
(* long as the UART is not disabled it is sent to the host, or lost to a   *)
(* packet that core 1 sent between the flush's look for room and its write *)
(* (uart_handler.c 44-67).                                                 *)
BytesFlow ==
  \A b \in Bytes :
    enabled /\ (\E n \in DOMAIN fifo.bytes : fifo.bytes[n] = b)
    ~> ~enabled \/ b \in lost \/ \E n \in DOMAIN delivered : delivered[n] = b

=============================================================================
