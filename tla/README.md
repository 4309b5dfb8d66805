# picolink-mfd in TLA+

picolink-mfd turns a Raspberry Pi Pico into a bridge: a Linux MFD driver
(`src/kernel/`) exchanges 64-byte packets over two USB bulk endpoints with
firmware on the RP2040 (`src/firmware/src/`), and offers GPIO, I2C, SPI, ADC,
UART, PWM, LED and servo devices to the rest of the kernel. This directory holds
TLA+ modules that model it, TLC configurations that check them on small
instances, and proofs for TLAPS that hold for every instance.

## 1. The system

```
 GPIO  I2C  ADC  SPI          PWM LED servo /dev/picolink      TTY
   \    |    |   /                      |                       |
  picolink_transfer (i2c_lock)  picolink_send_packet      usb_submit_urb
        |        ^                      |                       |   ^
        |   picolink_bulk_in_callback <-+---- read_urb ---------+---+ push_data
  ======|========|======================|=======================|===== USB
   OUT endpoint  IN endpoint <--- TinyUSB transmit FIFO (16 packets) <---+
        |                                   ^ usb_mutex ^                |
   receive FIFO (16) -> packet_queue (128) -> core 1: handlers           |
        core 0: tud_task, tud_vendor_rx_cb, uart flush <- uart_rx_fifo <- IRQ
```

| component | state | operations | what is hard | what makes it correct |
|---|---|---|---|---|
| request/reply core (`core.c` 57-119, 371-399) | `i2c_lock`, `i2c_done`, `current_rx_buf`, `transfer_tx_buf`, `transfer_rx_buf`, `read_urb` | `picolink_transfer`, `picolink_bulk_in_callback`, `picolink_send_packet` | calling threads, the URB's completion handler, unlocked senders and the device run at once; answers carry no number; two timeouts of 500 ms | a call gets the answer to itself, fails only for a cause, is executed at most once, and returns |
| GPIO, I2C, ADC, SPI drivers | none that outlives a call; SPI builds its request in `transfer_tx_buf` | one call per operation; SPI one per 32-byte chunk | SPI uses shared buffers outside the lock; chip select stays low between chunks | what is sent is what was built; framing of a message |
| `/dev/picolink` (`core.c` 138-369) | `*_registered` flags, ADC channels, LED and servo lists | commands from text | concurrent writers; checks and changes in different critical sections | one device per name and pin |
| PWM, LED, servo (`mfd-pwm.c`) | two lists with a mutex each, sysfs devices | enable, disable, set | attributes that remove their own device; packets sent outside the lock | list, sysfs and firmware agree; a pin has the level the host gave it |
| TTY (`mfd-uart.c`) | `active_urbs`, the port, `uart_instance` | open, write, write_room, set_termios, completion, push_data, remove | completions race with the writer; failures; the port's lifetime | nothing lost or reordered, a bounded number of URBs, no writer asleep for ever |
| lifecycle (`core.c` 416-626) | everything above | init, probe, disconnect, exit | tear-down against what is under way; error paths | no use after free, nothing left over |
| firmware packet path (`main.c`) | TinyUSB's FIFOs and endpoints, `packet_queue`, `usb_mutex` | `tud_vendor_rx_cb`, the loops of the two cores, flush | two cores, full queues everywhere, waiting for room | commands executed once and in order, answers not lost |
| firmware UART (`uart_handler.c`) | `uart_rx_fifo`, `uart_enabled`, `u_inst` | configure, disable, interrupt, flush | core 0, core 1 and an interrupt share state with no lock | no use of a freed FIFO, bytes in order |
| firmware SPI, I2C, PWM, servo, GPIO, ADC | bus instances, `cs_was_low`, slices, servo pins | CONFIG, DATA, READ, DISABLE | protocol sequences, pins shared between functions | every request answered; chip select framing; pin ownership |
| `led_handler.c`, USB descriptors, build, tools, test scripts | - | - | - | not part of the running system, or no state |

`PROJECT.json` lists the components with their status, and under `hazards` what
in this code is hard to test, each at its line.

## 2. Modules

| module | models | state |
|---|---|---|
| `PicoProtocol` | packets, what the firmware sends back to each kind, what the host's handler hands to a waiting thread | none |
| `PicoTransfer` | the request/reply core with its callers, the URB handler and the device | below |
| `AtomicLink` | what `picolink_transfer` promises: each call executed at most once, alone, between invocation and return | `issued`, `op`, `phase`, `outcome` |
| `PicoFirmware` | the packet path of the firmware, both cores | below |
| `PicoUartFw` | the firmware's UART bridge: core 0, core 1 and the interrupt | below |
| `PicoSpiBus` | an SPI transfer from the controller driver to the wire | below |
| `PicoPins` | the firmware's pins, PWM slices and buses against the host's view of them | below |
| `PicoDriver` | what `/dev/picolink` commands create and remove, from probe to disconnect | below |
| `PicoTty` | the transmit side of the TTY driver | below |
| `MC...` | the small instances of these for TLC | - |
| `PicoTransferProofs`, `PicoLinkProofs`; `PicoFirmwareProofs`, `PicoUartFwProofs`, `PicoSpiBusProofs`, `PicoPinsProofs`, `PicoDriverProofs`, `PicoTtyProofs` | theorems about these modules | - |

`PicoTransfer` and `PicoFirmware` use `PicoProtocol`; `PicoTransfer` implements
`AtomicLink`. The others meet at packets: each abstracts what the others model to
what it sees of it, and says so in its heading.

### PicoProtocol

A packet is its interface, its type, whether its length is zero (`ok`), and
`id`, the call it was built for. `id` is a ghost: no action reads it to decide
anything, and `Completes`, the routing of `picolink_bulk_in_callback`, does not
look at it, just as the C code has nothing to look at. `Replies(p)` is the set of
packet sequences that executing `p` can cause, over all pins and configurations:
a log line's header is zero but for its type, so its interface reads as GPIO; a
servo configuration is confirmed by a packet nobody waits for; SPI data for an
unconfigured bus is not answered. ADC channels are taken to be on pins 26 to 29;
a channel on another pin, which the host accepts, is never answered and behaves
as under `ServeSilently` below. Payload bytes are left out.

### PicoTransfer

| variable | code |
|---|---|
| `lock`, `done`, `armed` | `i2c_lock`'s holder, `i2c_done.done`, `current_rx_buf != NULL` |
| `txbuf`, `rxbuf` | contents of `transfer_tx_buf`, and the packets that `transfer_rx_buf` has parts of |
| `pc`, `req`, `got`, `result` | where each calling thread is, its request, the packets it read parts of, what its driver made of them |
| `out`, `in` | the two USB directions, in order |
| `urb` | the read URB: posted, inside its handler (and where), or not resubmitted |
| `runs` | how often the device executed each call (history) |

`picolink_transfer` is cut into `Begin`, `Arm`, `Send`/`SendFail`, `Wake`/
`Timeout`, `CopyOut`, `Finish`, and the handler into `Receive`, `CopyIn`,
`Disarm`, `Complete`, `Resubmit`/`ResubmitFail`: one action per access to what
the two share, so that they interleave wherever the code lets them. `Call` is
the driver building its request, `Collect` the SPI driver taking its data out of
`transfer_rx_buf` after the unlock. A copy of `transfer_rx_buf` is not atomic: while
the handler stores (`urb.stage = "copy"`) a thread reads parts of both packets
(`Readable`), while a thread reads or copies the buffer onto itself (the SPI driver
passes `transfer_rx_buf` for the answer, `CopiesInPlace`) the handler's packet may end
up mixed with the old one (`CopyIn`), and what a driver makes of a mix may be what it
makes of any of its parts (`Readings`). `Client[t]` says through which driver `t`
calls, because they judge an answer differently: GPIO returns 0 for anything that
is not a GPIO answer, I2C checks the type and the length, ADC and SPI check
nothing. `ServeSilently` is an answer that never leaves, because the firmware's
transmit FIFO is full. The URB's -ESHUTDOWN and its like belong to disconnect and
are left out.

`LateReplies` separates the two worlds the code lives in: FALSE says that the
device and the URB need less than the 500 ms waited for what they accepted, so
that `Timeout` fires only for a request that will never be answered; TRUE leaves
time out of it.

### PicoFirmware

`epout`, `rxfifo`, `queue`, `executed` are the way in, in the order of travel;
`txfifo`, `epin`, `delivered` the way out. `core0` loops through `tud_task`
(`TaskOut`, `TaskIn`, `TaskEnd`), `tud_vendor_rx_cb` (`Drain`, `DrainEnd`) and
the UART flush (`UartSkip`, `UartTake`, `Lock0`, `Write0`). `core1` fetches a
command and performs its writes one by one (`Execute`, `Lock1`, `Write1`), and
for SPI data lets go of `usb_mutex` while there is no room (`Wait1`). TinyUSB is
not in the repository: `Rearm`, `Room`, `Flush` and `Write` say how it behaves
as seen by this code (the OUT endpoint asks for a packet only with room for it,
`tud_vendor_write` takes what there is room for). `Kinds` stand for the ways a
handler writes: nothing (also for SPI data without a bus), an answer that is dropped
without room, a log line and an answer (also for SPI data that names no chip select),
an answer that waits for room (SPI data that is clocked out).

### PicoTty

One writer (the TTY layer serialises writers) asks for room, writes, sleeps when
there is no room or nothing was taken, and is woken by `tty_wakeup`. Settings and
data URBs share the completion handler, which counts only the latter. An URB completes
with its packet on the `wire` (`Complete`) or with an error the handler does not look at
(`CompleteFail`): data is then `lost` after `p_uart_write` reported it as taken. `Opost`
says whether the line discipline processes output: only then does it ask
`write_room` first, and `p_uart_write` itself looks at no limit.

### PicoUartFw

| variable | code |
|---|---|
| `enabled`, `inst`, `fifo` | `uart_enabled`, `u_inst`, `uart_rx_fifo` (allocated or not, and its bytes) |
| `hw` | each UART: initialised, interrupt enabled and raised, bytes received |
| `core1`, `core0`, `hand` | where the cores are, and the packet core 0 fills |
| `crowded`, `lost` | core 1 sent something since the flush found room; bytes dropped for that (history) |
| `torn` | core 0 read memory that was freed (history) |

CONFIG and DISABLE are cut at every access to what the three share: `Quiesce`
(interrupt off, `uart_deinit`), `Free`, `ClearEnabled`, `QueueInit`, `UartInit`,
`EnableIrq`, `SetEnabled`. The interrupt runs on core 1, which enabled it: while
one is `Pending`, core 1 executes nothing else, and nothing at all when
`on_uart_rx` returns without reading, since the request stays up. `Take` moves
one byte; the bytes of freed memory are anyone's guess, which `torn` records. The
flush looks for room before it takes bytes and enters `usb_mutex`; core 1 may send in
between (`Answer`), and then `tud_vendor_write` may take nothing (`FlushDrop`).

### PicoSpiBus

`transfer`, `at`, `reply`, `results` are `picolink_spi_transfer_one`; `tx` is
`transfer_tx_buf`, `other` another caller of `picolink_transfer`; `out` and
`in` the packets under way; `bus`, `cs`, `held`, `low` are `current_spi`,
`active_cs`, `cs_was_low` and the levels of the chip-select pins. Of
`picolink_transfer` only what SPI sees is kept: it accepts any packet of its
interface while it waits (`Receive` notes in `stray` when that was not its own),
and gives up when no answer comes (`Timeout`, a `fault` if one would have come).
`Configure` is a writer of `/dev/picolink`, at any moment. `served` is the history
of the executed chunks, with what was selected while each was clocked;
`disturbed` notes that a transfer failed, or the bus was configured within a
frame. A chunk is built in the buffer (`Build`) before the lock is taken (`SendChunk`):
another caller may copy its packet over it (`OtherBegin`), which counts as disturbed
and has the driver send that one, or send the chunk in place of its own packet
(`OtherSend`), so that it leaves twice; `shared` has the chunks that were built while
another caller was about to send. `ServeOff`, `ServeNoPin` and `ServeClocks` are the three ways through DATA,
`ServeFull` and `ServeCs` the two through CONFIG.

### PicoDriver

Threads are the writers of `/dev/picolink`, the hub's thread (probe, disconnect)
and attribute handlers; `run` says where each is. An entry of the LED, servo and
ADC lists is a number: `listed` entries are in a list, `exposed` ones have a sysfs
device, `freed` ones no memory. A critical section without a blocking call is one
action (`Find`, `AddLed`, `ConfigServo`); one that removes devices holds its
`lock` over several (`Take`, `Remove`, `Release`), because unregistering waits for
the handlers of the device's attributes (`Drained`). The I2C, UART and SPI
children are counted by name, next to the flags that should say whether there is
one. `uart 0 1` ends with `Port`, the look at `uart_instance`, and `Patch`, which stores
the pins through it; `held` has the writers between the two whose port still exists.
`wrong` collects what was used after it was freed or while it was missing, by kind. `Tell` sends a packet whose loss nobody notices. Probe and disconnect are
step by step, every failure included. `causes` records what the driver does not
guard against: overlapping `writers`, a writer that overlaps the `teardown`, a
failed `probe`, a child's driver that does not `bind`, an `adc` channel that could not
be registered, a `lost` packet; the
properties name the causes they need absent.

### PicoPins

Core 1 handles one command after the other, so a command is an action:
`ConfigI2c`, `ConfigSpi`, `ConfigCs`, `ConfigUart`, `EnableLed`, `SetLed`, `ApplyPwm`,
`ConfigServo`, `SetServo`, `ConfigGpio`, `SetGpio` and what disables them. The PWM DATA
packet of an LED or a PWM channel is `SetPwm`; removing an LED sends one, too, because
`led_classdev_unregister` turns it off (`DisableLed`), while the DISABLE of a servo
(`DisableServo`) does nothing. `leds` and `servos` are the host's lists. `func`
and `drive` are the pins, `wrap` and `level` the PWM slices and channels, `i2c`,
`spi`, `cs`, `uart` the handlers' own record of their pins, `servo` the ranges.
`view` is what the host made of each pin, with which value; the conversions
(`LedLevel`, `PwmLevel`, `ServoLevel`) are part of the action, at the widths of
the code. `causes` records the commands after which the view may be wrong: one
that names a pin in use (`clash`), two pins of a PWM slice (`slice`), a bus
`refused` without the host's knowledge, a UART on pins without one (`incapable`), a
disabled servo's pin `left` a PWM pin.

## 3. Runs

Passing runs:

| run | instance | shows |
|---|---|---|
| `TransferTimely` | a GPIO and an I2C thread, 3 calls, one command or UART packet, 2 faults, timely | `MatchedReply`, `ErrorsHaveCause`, `RxBufExclusive`, `OwnPacketSent`; the exchange implements `AtomicLink` |
| `TransferLate` | an ADC and an SPI-setup thread, 3 calls, 1 fault, late answers, copies that overlap | what survives lateness: `ArmedByHolder`, `RealAnswer`, `AtMostOnce`, and every call comes back |
| `TransferSpi` | one SPI caller, 3 calls, one command or UART packet, 2 faults | the shared buffer and the read after the unlock are harmless as long as nobody else calls |
| `FirmwareQueues` | three kinds of commands (no answer, SPI data clocked out, SPI data refused), every queue one packet long, 3 commands, 2 pieces of UART data | `CommandsInOrder`, `OutputInOrder`, `ChunksAnswered`; commands that fit `packet_queue` all run |
| `UartBridge` | two UARTs, FIFO and packet of 2 bytes, 4 bytes, 3 commands | the interrupt only meets a live FIFO of its own instance; `EnabledIsReady`; bytes keep their order; commands end, and bytes get out or are lost to the room core 1 took |
| `SpiFrames` | two devices and pins, 2 transfers of up to 2 chunks, 3 configurations, one call by another driver; configurations written when no packet waits for core 1 | `ChunksInOrder`, `OnlyAddressed`, `Framed`; what a result means (`DoneIsServed`, `FailureHasCause`) |
| `Registry` | two writers, one handler, one pin, two values, 3 commands of one kind | `MemorySafe`, `ListsAgree`, `OneServoPerPin`, `RangesAgree`, `FlagsAgree`, `NothingLeft`; everything ends |
| `Pins` | pairs of pins of both I2C controllers and mixed ones, SPI triples and UART pairs likewise, two chip selects, LED, PWM, servo and GPIO pins that overlap; 5 commands | `ViewHolds`, `OneBus` |
| `TtyFlow` | limit of 2 URBs, 4 pieces, 2 settings, 2 faults | `WritesInOrder`, `CountCoversUrbs`, `UrbsBounded`; unless something fails, all data is written |

Runs that TLC finds violated, each a disagreement between the code and what the
repository says of it (quoted in `PROJECT.json`, `findings`):

| run | behaviour |
|---|---|
| `TransferLateReply` | Call 1 times out and returns, call 2 arms the buffer, the answer to call 1 arrives and is returned by call 2. |
| `LedDisable` | A handler of an LED's `disable` attribute unregisters the LED, which waits for that handler: it never ends. |
| `PwmDuty` | A channel at 25% is applied and one at 50%: both get level 255, since the 16-bit level is cast to 8 bits. |

**Disagreements without a run of their own.** Each follows from a module at the
settings given; the passing runs exclude them by a condition that the property or
the instance names.

| where | what happens | in the models |
|---|---|---|
| `core.c:99` | the handler, having read `current_rx_buf`, stores while the next call copies | `RxBufExclusive` with `LateReplies = TRUE` |
| `core.c:87` | the confirmation of a servo configuration completes whoever waits | `MatchedReply` with a servo CONFIG in `Commands` |
| `core.c:101` | the copies of `transfer_rx_buf` at 101 and 389 overlap: a call returns a mix of two packets | `got` with two packets, with `LateReplies = TRUE` |
| `mfd-spi.c:83` | an SPI caller writes its chunk into the shared buffer, before the lock: another call sends it, and the SPI caller does so again, or another call overwrites it | `OwnPacketSent` with an SPI thread beside another; `ChunksInOrder` without `shared` |
| `spi_handler.c:118` | SPI data without a bus is not answered; "Failure to do so causes Linux to hit a -110 timeout" (168) | `FailureHasCause` without the answer `none` |
| `spi_handler.c:176` | "Respond to driver even on error" (167): the answer to a refused chunk is written without waiting for room, and may be dropped | `ChunksAnswered` for the kind `spi refused` |
| `mfd-spi.c:104` | the answer to a chip-select command, or to a chunk that was given up, is taken for the answer to the chunk under way | `DoneIsServed` without `~stray` |
| `main.c:231` | `packet_queue` was full: the rest stays in TinyUSB's FIFO until another packet arrives, and none can once that is full | `EveryCommandRuns` without `[]~Overrun` |
| `uart_handler.c:48` | room is checked before `usb_mutex` is taken: core 1 fills it, and bytes already taken out of the FIFO are dropped | `BytesFlow` without `lost`; a state of `PicoFirmware` in which `Write0` drops |
| `uart_handler.c:107` | a byte that arrives between the interrupt's being enabled and `uart_enabled` being set raises a request that is not served, and core 1 stops | `CommandsEnd` without `Storm` |
| `uart_handler.c:28` | core 0 takes bytes out of the FIFO while core 1 frees it | `torn` in `PicoUartFw` |
| `uart_handler.c:84` | a pin without UART is compared with -1 where the table has 0xFF, and taken for UART 1 | cause `incapable` in `PicoPins` |
| `core.c:262-265` | an ADC channel that cannot be registered is freed, and then read for the result | `MemorySafe` with cause `adc` |
| `core.c:220-223` | `uart_instance` is used after its test, while another writer removes the port | `MemorySafe` with cause `writers` |
| `core.c:490` | a failed probe leaves the children and what commands created | `NothingLeft` with cause `probe` |
| `core.c:542` | `dev` is freed while a file may be open or a writer be in the middle | `MemorySafe` with cause `teardown` |
| `mfd-pwm.c:273-309` | two writers of one LED: two entries, or one that is freed twice | `ListsAgree`, `MemorySafe` with cause `writers` |
| `mfd-spi.c:132` | `g_spi` is used before the check for NULL | `MemorySafe` with cause `bind` |
| `main.c:64-75` | DISABLE of a servo is ignored: the pin keeps its pulse and, as an LED, its wrap | `ViewHolds` with cause `left` |
| `mfd-pwm.c:346` | disabling an LED whose pin is something else by now makes it a PWM pin | `ViewHolds` with cause `clash` |
| `pwm_handler.c:71` | two pins of a slice: the second's `pwm_init` clears the first's level | `ViewHolds` with cause `slice` |
| `i2c_handler.c:40` | a bus of mismatched pins is refused, and the host has its adapter all the same | `ViewHolds` with cause `refused` |
| `mfd-uart.c:45-56` | the status of a write URB is not looked at: data of one that failed is lost after it was reported as taken | `WritesInOrder` without `lost` |
| `mfd-uart.c:92` | a failed submission leaves `active_urbs` incremented; after enough of them the port is throttled for ever | `AllWritten` with faults |
| `mfd-uart.c:106` | only what the line discipline asks beforehand limits the URBs: a raw port is not limited | `UrbsBounded` with `Opost = FALSE` |
| `core.c:385,388` | waits 500 ms twice, for the submission and for the answer, where `src/README.md:100` has one timeout of 1000 ms | - |

**Bounds.** Two threads are enough for one to leave what the next one finds;
three calls for a leftover of the first to reach a third through the second.
Two faults let an error of the URB and a lost answer meet. Queues of length one
are full and empty within a few steps; the code never compares sizes except with
its own capacity, and the firmware's theorems hold for all capacities. In
`UartBridge` four bytes overflow a FIFO of two, and three commands enable, replace
and disable. In `SpiFrames` two chunks make a frame with a middle, the second
transfer meets what the first left, three configurations are one of the bus
and two chip selects, and one call by another driver is enough to overwrite a chunk or
to send it. In `Registry` three commands on one pin let two overlap and
a third find the result; kinds share neither list nor flag nor mutex, so that a
behaviour has commands of one (`OneKind`; SPI with its chip selects). In `Pins`
five commands set up a bus, replace it, and use the pins for something else. In
`PicoTty` a limit of two and four pieces fill the limit twice. Every bound is a
constant (`Max...`) named in the guards, and read by no other condition but types.
A configuration of `SpiFrames` is written when core 1 has no packet waiting: packets
are handled in order, so that one written earlier changes nothing until then.
Symmetry is used in `SpiFrames`, which has no liveness property: no definition tells
one device or one chip-select pin from another. Deadlock is not checked where the system may rest:
the TTY when all is written, and the modules of UART, SPI, pins and registry when
their bounded inputs are used up; `PicoTransfer` has the action `Rest` for the
idle driver, so that a thread stuck in a call would show as a deadlock, and in the
others the liveness properties do that (for SPI, whose chunks are calls of
`picolink_transfer`, `EveryCallReturns` does).

**Fairness.** `PicoTransfer`: a thread that can run is run, a timer expires, and
a mutex that keeps being released is obtained in the end (strong fairness of
`Begin`); nothing is assumed of the device or the URB. `PicoFirmware`: both cores
run, `mutex_enter_blocking` gets a mutex that is free again and again, and the
host keeps a read URB posted; the host need not send, nor the UART line bring
data. `PicoUartFw`: core 1, core 0 and the interrupt run, a UART with waiting bytes
asks for service, and the flush finds room again and again (strong fairness of
`FlushStart`); nobody need send bytes or commands. `PicoDriver`: as long as
some thread can go on, one does; no command need be written, no handler started,
no device plugged or unplugged. `PicoTty`: the writer and the handler run and the
URBs complete, one way or the other; nothing is assumed of settings or failures.

The types of `PicoTransfer`, `PicoFirmware`, `PicoUartFw`, `PicoSpiBus` and
`PicoPins`, and `CompletionBounded`, are theorems (section 4) that no run checks
once more.

Every property of a passing run has a mutant in `PROJECT.json`: a change to a
modelled definition, such as a dropped `reinit_completion` or a limit off by
one, under which the property fails.

## 4. Proofs

All theorems hold for any threads, clients, commands, capacities and bounds that
meet the named assumptions of the modules.

| theorem | says | assumes |
|---|---|---|
| `TypeCorrect` | types of `PicoTransfer` | - |
| `HolderArms`, `CompletionsBounded` | `ArmedByHolder`, `done <= 2` | - |
| `AnswersMatch`, `RxBufNotShared`, `OwnPacketsSent` | a call gets its own answer, reads it undisturbed and sends its own packet | `Timely` |
| `FailuresHaveCause` | a call fails only after a fault | `Timely`, `NoSpiData` |
| `ExecutedAtMostOnce` | the device executes no call twice | `SoleSpi` |
| `AnswersAreReal` | every packet an answer has parts of comes from an executed request | `OnlyQuietCommands`, `SoleSpi` |
| `TransferImplementsLink` | `PicoTransfer` implements `AtomicLink` | `Timely` |
| `FirmwareTypeCorrect`, `CommandsKeepOrder` | queues keep types and capacities; commands neither lost, duplicated nor overtaken | - |
| `OutputKeepsOrder`, `NoAnswerDropped` | what the host receives is neither repeated nor overtaken; no answer to SPI data that was clocked out is dropped | - |
| `UartTypeCorrect`, `IrqFindsFifo`, `OneSource`, `EnabledMeansReady`, `BytesKeepOrder` | types and the four safety properties of the UART bridge | - |
| `SpiTypeCorrect`, `ChunksKeepOrder` | types of the SPI bus; no chunk clocked after a later one, nor twice unless another caller was about to send from the buffer it was built in | - |
| `NoOtherSelected`, `FramesAreWhole` | what is selected while data is clocked; chip select stays low from a message's first chunk to its last | - |
| `DoneMeansServed`, `SpiFailuresHaveCause` | what a result of a transfer means | - |
| `PinsTypeCorrect`, `BusesAreWhole` | types and widths of the pins; I2C and SPI pins of one controller each | - |
| `ViewIsKept` | every pin is what the host made of it, a servo's pulse within 4us | - |
| `DriverTypeCorrect`, `MemoryIsSafe`, `OneServo` | types of `PicoDriver`; nothing freed or missing is used, but for the causes named by kind; one servo per pin | - |
| `ListsMatchSysfs`, `RangesMatchDevice`, `FlagsMatchChildren`, `NothingIsLeft` | what lists, flags, sysfs and device agree on between commands and after disconnect | - |
| `TtyTypeCorrect`, `EveryUrbIsCounted`, `DataInOrder` | types of `PicoTty`; `active_urbs` covers the URBs; data neither repeated nor reordered, and lost only with an URB that failed | - |
| `RoomIsEnough` | the limit of URBs | `Opost` |

Every invariant and action property of the passing runs is one of these theorems.
Causes and conditions that a property names (`causes`, `disturbed`, `stray`,
`faults`) are part of the theorem as they are of the run.

`Timely` is: no late answers; a caller that builds its request in the shared
buffer is the only caller (`SoleSpi`, which covers both `TransferTimely` and
`TransferSpi`); and only commands that no completing packet answers (`OnlyQuietCommands`,
over *every* reply the firmware can give). Each part is needed: the run
`TransferLateReply` and the disagreements at `core.c:87` and `mfd-spi.c:83` drop one
each and break a property. `NoSpiData` is stronger than `SoleSpi`: SPI data for a bus
that was not configured is never answered, so that its call fails without a fault.

*Locking* (`PicoTransferProofs`). `ArmedByHolder` is not inductive: clearing
`current_rx_buf` and releasing the lock are the end of a longer stretch in which
exactly the holder of the lock is past `Begin`. `LockInv` states that, and
bounds `done` by what the handler can still add after the holder reset it.

*Exchange* (`PicoTransferProofs`). A call's answer is a token that moves: with
the device, in flight, in the handler, in `i2c_done`. `Alone` says that it is in
at most one of these places, `Awaited` that it is there only while the lock's
holder waits, `OwnInv` that what is there belongs to that call, and `FaultInv`
that without a fault it is somewhere. Their conjunction is inductive; each of
the four properties follows from it. `MatchedReply` alone would not be: it says
nothing about packets that are still under way. A sole SPI caller keeps both shared
buffers to itself for longer than it holds the lock: `Building` and `Reads` say from
when to when each buffer is a call's own.

*Refinement* (`PicoLinkProofs`). `RunsInv` ties the number of executions to
where the request is; with `ExchangeInv` it gives that at most one call is
between execution and return. Under the mapping of `PicoTransfer` (a call is
`executed` once `runs` counts it) `Serve` maps to `Execute`, the actions that end
a call (`Finish`, `Interrupt`, or `Collect` for SPI data) to `Return` or `Fail`,
`Call` to `Invoke` and everything else to a stutter.

*Firmware* (`PicoFirmwareProofs`). `CommandsInOrder` speaks of a concatenation
of four queues; the inductive form `Numbered` gives each command in each queue
its number instead, and `RoomInv` says that an armed endpoint has room for what
it asks for, without which `TaskOut` could overflow the FIFO.

*Real answers* (`PicoTransferProofs`). With late answers nothing ties a packet to
a call, but every packet that completes one, wherever it is (in flight, in the
handler, a part of what `transfer_rx_buf` holds after a completion), carries the number
of an executed request: `RealInv`. That is all that can be said: the answer may be a mix
of two packets that no request produced.

*Output* (`PicoFirmwareProofs`). `Output` joins three queues; `WriteGrows` shows that
every action leaves it alone or extends it at the end, whatever moves inside. What
a core is about to write is newer than all it wrote (`AllOlder`, with `OnceEach`
for the command being executed and `UartNumbered` for the bytes in core 0's hands),
so the order is kept. `DueInv` adds where the answer to an executed chunk is.

*UART* (`PicoUartFwProofs`). The properties speak of moments at which core 1 is
idle or an interrupt is pending; the inductive `Agree` says for each step of
core 1 what it has done so far, and that the instance it does not point to is off.
`Ordered` is order by arrival over host, hand, FIFO and instance, without `torn`.

*SPI* (`PicoSpiBusProofs`). The chunk the driver is at is newer than all packets
under way, these are in order, and newer than all that were served: `OrderInv`
(`ServedOrdered`, `OutOrdered`, `ServedFirst`, `ServedLeft`, `OutLeft`), which is
why neither a timeout nor a stray answer can make one run twice. Another caller can:
"newer" is `NotAfter`, which lets a chunk of `shared` follow itself, and `BufferInv` says
what is in `transfer_tx_buf` when it is sent, and that a chunk which another caller
is about to send may follow all that was sent.
For frames, `FrameInv` looks at what is still to come: while a frame is open, what
the driver goes on with (`Follows`: a packet on its way, or the next chunk it will
send) is for the device of the latest chunk, and that device's pin has not changed
(`HeldInv`); the pins that are low are then that one or none (`LowInv`). For results,
`RealReplies` says that each answer on its way belongs to a chunk that was executed,
`OnlyCurrent` that without stray answers no other chunk is on its way, and
`ResultInv` follows the current chunk from packet to answer.

*Pins* (`PicoPinsProofs`). A servo the host sees has a range (`ServoRanged`),
without which `ServoLevel` would divide by zero; a pin routed to a bus is one the
handler has on record, and these belong to one controller (`Routed`).
`ViewHolds` follows from `HoldInv`: until something of `causes` happens, the buses have
exactly the pins the host takes for theirs (`BusViews`), a PWM slice has one pin
that the host uses (`Apart`), and every pin `Agrees`. `Apart` is what makes it
inductive: without it the `pwm_init` of one pin would clear the other's level. The
4us of `ViewHolds` hold for every range and angle (`ServoLevelClose`): the two
divisions lose less than a microsecond and less than a tick of the PWM counter.

*Driver* (`PicoDriverProofs`). `DriverInv` has three layers. `TypeInv`, with
`PlaceInv` (where a thread can be in a command of its kind) and `CountInv` (a command
creates at most one entry, so that commands bound the entries; this needs finitely many
writers). Then what holds whatever the writers do: which causes exclude what
(`CauseInv`: one writer unless `writers`, nobody at work on a device that is gone
unless `teardown` or `probe`) and what makes memory safe (`MemoryInv`, `SpiInv`).
Last, what needs the absence of a cause (`PortInv` among it: with one writer at a time, a
writer at `Patch` is in `held`): the properties speak of moments between
commands, and `CalmInv` says for each step of a command what it has done and what is
still to do: an entry is listed but not exposed only while its writer is
registering it (`ListsInv`), a flag is set but the device not told only while its
writer is disabling it (`ToldInv`), a servo lacks its range only while its writer is
about to send it (`RangeInv`), and lists are empty from the moment of
disconnect at which they were cleared (`ClearedInv`).

*TTY* (`PicoTtyProofs`). `CountCoversUrbs` alone is not inductive: every count of
`active_urbs` has a holder, which is a data URB in flight, the completion handler before
it counts down, or the writer before its submission (`CountInv`). `ActiveInv`
bounds the counter by the pieces taken and the failed submissions that leaked one.
With `Opost` the answer of `write_room` still stands when the writer writes, since
nobody else counts up: `RoomInv`. For the order, `Sent` (the wire followed by the
URBs) is the same before and after a URB completes (`MovedAcross`), loses exactly the
packet of one that fails, and otherwise changes only at its end (`SentSteps`).

Only model-checked: all liveness (`EveryCallReturns`, `EveryCommandRuns`,
`AllWritten`, `CommandsEnd`, `BytesFlow`, `AllEnds`), which TLAPS's backends do not
reach.

## 5. Not modelled, and what is left

- The module's init and exit: they run alone, once each, before and after
  everything else. Its failure path leaks the servo class (`core.c:610`).
- A call of `picolink_transfer` that is under way when the device goes, and the
  -ESHUTDOWN of its URBs: `PicoDriver` has the order of disconnect, `PicoTransfer`
  the exchange; composing them would need both state spaces at once.
- The port's lifetime against an open terminal (`mfd-uart.c:227`), and
  `push_data`: both are decided by the TTY layer's reference counts, which are not
  in the repository.
- Lengths: the split of I2C messages (`mfd-i2c.c:45`) and payload bytes. The
  models tell packets apart, not their contents.
- Leaks that change nothing else (`core.c:495`, `core.c:537`).
- `led_handler.c` (no rule builds it), USB descriptors, build files, message texts
  and logging, the command-line tools and test scripts (clients without state the
  driver shares); TinyUSB, the Pico SDK and the kernel's own subsystems are
  modelled only as far as this code uses them.

Every safety property that a passing run checks is proved. What is left is outside the
models: the first five points of this list.

## 6. Running it

    tlc -config TransferTimely.cfg MCPicoTransfer
    tlc -config Registry.cfg MCPicoDriver
    tlapm PicoLinkProofs.tla
