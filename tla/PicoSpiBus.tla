----------------------------- MODULE PicoSpiBus -----------------------------
(***************************************************************************)
(* An SPI transfer from the controller driver to the wire: the driver cuts *)
(* it into chunks, each a call of picolink_transfer, and tells the         *)
(* firmware with each chunk whether to keep chip select low after it.      *)
(* Meanwhile writers of /dev/picolink configure the bus, and other drivers *)
(* call picolink_transfer.                                                 *)
(*                                                                         *)
(* The SPI core runs one transfer at a time.  Its chunks are built in      *)
(* transfer_tx_buf before the lock that protects it is taken, so another   *)
(* caller may send a chunk that is not its own, or overwrite it.  A chunk  *)
(* is built in one step: a packet mixed of two is not in the model.  Of    *)
(* picolink_transfer only what SPI sees of it is kept: it takes any packet *)
(* of the interface that arrives while it waits for the answer, and drops  *)
(* those that arrive when it does not (PicoTransfer has the whole of it).  *)
(* Packets are handled in order; one that was given up may still be.       *)
(***************************************************************************)
EXTENDS Integers, Sequences

CONSTANTS
  Devices,       \* chip-select indices with a device (0..3)
  CsPins,        \* GPIO pins that serve as chip selects
  NoPin,         \* 0xFF: the index has no pin
  MaxChunks,     \* bound: chunks of a transfer
  MaxTransfers,  \* bound: transfers
  MaxConfigs,    \* bound: configurations written to /dev/picolink
  MaxOthers,     \* bound: calls of picolink_transfer by other drivers
  MaxWaiting     \* bound: packets on their way when one is written

ASSUME NoPinAssumption == NoPin \notin CsPins
ASSUME DeviceAssumption == Devices # {}
ASSUME BoundAssumption == MaxChunks \in Nat \ {0}
                          /\ {MaxTransfers, MaxConfigs, MaxOthers, MaxWaiting} \subseteq Nat

VARIABLES
  transfer,   \* the transfer under way, or the latest one
  at,         \* where picolink_spi_transfer_one is
  reply,      \* the answer to the chunk it waits for
  results,    \* results[x]: what the driver returned for transfer x
  tx,         \* transfer_tx_buf
  other,      \* where another caller of picolink_transfer is
  out, in,    \* packets on their way to core 1 and to the driver
  bus,        \* current_spi # NULL
  cs,         \* active_cs
  low,        \* chip selects driven low
  held,       \* cs_was_low
  served,     \* what became of each chunk the firmware executed, in order
  disturbed,  \* a transfer failed, a chunk was overwritten before it was
              \* sent, or the bus was configured within a frame
  shared,     \* chunks built while another caller was about to send
  stray,      \* the driver took the answer to another packet
  fault,      \* a packet was lost, an answer late or a call interrupted
  configs, others

hostVars == <<transfer, at, reply, results>>
txVars == <<tx, other, shared, others>>
fwVars == <<bus, cs, low, held>>
causeVars == <<disturbed, stray, fault, configs>>
vars == <<hostVars, txVars, out, in, fwVars, served, causeVars>>

Transfers == [x : 0 .. MaxTransfers, dev : Devices, len : 1 .. MaxChunks, k : 1 .. MaxChunks]
Chunks == [what : {"chunk"}, x : 1 .. MaxTransfers, dev : Devices, k : 1 .. MaxChunks, keep : BOOLEAN]
Other == [what |-> "other"]
Configs == [what : {"full"}, match : BOOLEAN] \cup [what : {"cs"}, dev : Devices, pin : CsPins]
Replies == [x : 0 .. MaxTransfers, k : 0 .. MaxChunks, answer : {"data", "empty"}]
Served == [x : 1 .. MaxTransfers, k : 1 .. MaxChunks, answer : {"data", "empty", "none"},
           pin : CsPins \cup {NoPin}, selected : SUBSET CsPins]

TypeOK ==
  /\ transfer \in Transfers
  /\ at \in {"idle", "build", "send", "wait"}
  /\ reply \in {"none", "data", "empty"}
  /\ results \in [1 .. MaxTransfers -> {"none", "ok", "error"}]
  /\ tx \in Chunks \cup {Other}
  /\ other \in {"idle", "send", "wait"}
  /\ shared \subseteq (1 .. MaxTransfers) \X (1 .. MaxChunks)
  /\ others \in 0 .. MaxOthers
  /\ out \in Seq(Chunks \cup {Other} \cup Configs) /\ in \in Seq(Replies)
  /\ bus \in BOOLEAN
  /\ cs \in [Devices -> CsPins \cup {NoPin}]
  /\ low \subseteq CsPins
  /\ held \in BOOLEAN
  /\ served \in Seq(Served)
  /\ disturbed \in BOOLEAN /\ stray \in BOOLEAN /\ fault \in BOOLEAN
  /\ configs \in 0 .. MaxConfigs

Init ==
  /\ transfer \in [x : {0}, dev : Devices, len : {1}, k : {1}]
  /\ at = "idle" /\ reply = "none"
  /\ results = [x \in 1 .. MaxTransfers |-> "none"]
  /\ tx = Other /\ other = "idle" /\ shared = {} /\ others = 0
  /\ out = <<>> /\ in = <<>>
  /\ bus = FALSE /\ cs = [d \in Devices |-> NoPin] /\ low = {} /\ held = FALSE
  /\ served = <<>> /\ configs = 0
  /\ disturbed = FALSE /\ stray = FALSE /\ fault = FALSE

-----------------------------------------------------------------------------
(* picolink_spi_transfer_one.                                              *)

Start(d, n) ==
  /\ at = "idle"
  /\ transfer.x < MaxTransfers
  /\ transfer' = [x |-> transfer.x + 1, dev |-> d, len |-> n, k |-> 1]
  /\ at' = "build"
  /\ UNCHANGED <<reply, results, txVars, out, in, fwVars, served, causeVars>>

(* Flag 0x80: more chunks follow.                                          *)
Keep == transfer.k < transfer.len

Chunk == [what |-> "chunk", x |-> transfer.x, dev |-> transfer.dev, k |-> transfer.k, keep |-> Keep]

(* The chunk is built in transfer_tx_buf, without the lock: when another   *)
(* caller has copied its packet there and not sent it yet, it sends this   *)
(* chunk instead.                                                          *)
Build ==
  /\ at = "build"
  /\ tx' = Chunk
  /\ shared' = IF other = "send" THEN shared \cup {<<transfer.x, transfer.k>>} ELSE shared
  /\ at' = "send"
  /\ UNCHANGED <<transfer, reply, results, other, others, out, in, fwVars, served, causeVars>>

(* picolink_transfer takes the lock, copies transfer_tx_buf onto itself    *)
(* and sends what is in it.  Nobody else writes the buffer in between.     *)
SendChunk ==
  /\ at = "send" /\ other = "idle"
  /\ out' = Append(out, tx)
  /\ reply' = "none"
  /\ at' = "wait"
  /\ UNCHANGED <<transfer, results, txVars, in, fwVars, served, causeVars>>

(* The call failed: the transfer ends there.                               *)
Abort ==
  /\ results' = [results EXCEPT ![transfer.x] = "error"]
  /\ at' = "idle"
  /\ disturbed' = TRUE
  /\ UNCHANGED <<transfer, reply, txVars, out, in, fwVars, served, stray, configs>>

(* A signal comes while it waits for the lock, or the packet is not sent.  *)
SendFails ==
  /\ at = "send"
  /\ fault' = TRUE
  /\ Abort

(* Mutant of Answered: an answer without data ends the transfer.           *)
AnsweredOnce ==
  /\ at = "wait" /\ reply # "none"
  /\ IF Keep /\ reply = "data"
       THEN /\ transfer' = [transfer EXCEPT !.k = @ + 1]
            /\ at' = "build"
            /\ UNCHANGED results
       ELSE /\ results' = [results EXCEPT ![transfer.x] = "ok"]
            /\ at' = "idle"
            /\ UNCHANGED transfer
  /\ UNCHANGED <<reply, txVars, out, in, fwVars, served, causeVars>>

(* An answer arrived, with data or without: its length is not looked at.   *)
Answered ==
  /\ at = "wait" /\ reply # "none"
  /\ IF Keep
       THEN /\ transfer' = [transfer EXCEPT !.k = @ + 1]
            /\ at' = "build"
            /\ UNCHANGED results
       ELSE /\ results' = [results EXCEPT ![transfer.x] = "ok"]
            /\ at' = "idle"
            /\ UNCHANGED transfer
  /\ UNCHANGED <<reply, txVars, out, in, fwVars, served, causeVars>>

(* Mutant of Timeout: the chunk is sent again.                             *)
TimeoutResends ==
  /\ at = "wait" /\ reply = "none"
  /\ at' = "build"
  /\ UNCHANGED <<transfer, reply, results, txVars, out, in, fwVars, served, causeVars>>

(* An answer may still come, to the transfer or to the packet that was     *)
(* sent in place of its chunk.                                             *)
Underway ==
  \/ tx = Other
  \/ \E i \in DOMAIN out : out[i].what = "chunk" /\ out[i].x = transfer.x
  \/ \E i \in DOMAIN in : in[i].x = transfer.x

(* No answer comes; it is a fault when there would have been one.          *)
Timeout ==
  /\ at = "wait" /\ reply = "none"
  /\ fault' = (fault \/ Underway)
  /\ Abort

(* A packet of the interface arrives; it is dropped when nobody waits.     *)
Receive ==
  /\ in # <<>>
  /\ in' = Tail(in)
  /\ IF at = "wait" /\ reply = "none"
       THEN /\ reply' = Head(in).answer
            /\ stray' = (stray \/ Head(in).x # transfer.x \/ Head(in).k # transfer.k)
       ELSE UNCHANGED <<reply, stray>>
  /\ UNCHANGED <<transfer, at, results, txVars, out, fwVars, served, disturbed, fault, configs>>

-----------------------------------------------------------------------------
(* Another caller of picolink_transfer, with a packet of its own.          *)

(* It takes the lock and copies the packet into transfer_tx_buf, over a    *)
(* chunk that is there and not sent yet.                                   *)
OtherBegin ==
  /\ other = "idle" /\ at # "wait"
  /\ others < MaxOthers
  /\ others' = others + 1
  /\ tx' = Other
  /\ other' = "send"
  /\ disturbed' = (disturbed \/ at = "send")
  /\ UNCHANGED <<hostVars, shared, out, in, fwVars, served, stray, fault, configs>>

OtherSend ==
  /\ other = "send"
  /\ out' = Append(out, tx)
  /\ other' = "wait"
  /\ UNCHANGED <<hostVars, tx, shared, others, in, fwVars, served, causeVars>>

(* It has an answer, whoever's, or gives up, and releases the lock.        *)
OtherEnd ==
  /\ other = "wait"
  /\ other' = "idle"
  /\ UNCHANGED <<hostVars, tx, shared, others, out, in, fwVars, served, causeVars>>

-----------------------------------------------------------------------------
(* A writer of /dev/picolink: "spi 2 3 4" and "spi cs 0 5".                *)

Configure(c) ==
  /\ configs < MaxConfigs /\ Len(out) < MaxWaiting
  /\ configs' = configs + 1
  /\ out' = Append(out, c)
  /\ UNCHANGED <<hostVars, txVars, in, fwVars, served, disturbed, stray, fault>>

-----------------------------------------------------------------------------
(* Core 1: picolink_spi_handle.                                            *)

Answer(x, k, a) == in' = Append(in, [x |-> x, k |-> k, answer |-> a])

Record(p, a, pin, sel) ==
  served' = Append(served, [x |-> p.x, k |-> p.k, answer |-> a, pin |-> pin, selected |-> sel])

(* The bus is not configured: no answer.                                   *)
ServeOff(p) ==
  /\ ~bus
  /\ Record(p, "none", NoPin, {})
  /\ UNCHANGED <<in, low, held>>

(* Mutant of ServeNoPin: there is no answer without a pin either.          *)
ServeNoPinSilently(p) ==
  /\ bus /\ cs[p.dev] = NoPin
  /\ Record(p, "empty", NoPin, {})
  /\ UNCHANGED <<in, low, held>>

(* The index has no pin: an empty answer.  It does not wait for room; one  *)
(* that is lost is one that arrives when nobody waits any more.            *)
ServeNoPin(p) ==
  /\ bus /\ cs[p.dev] = NoPin
  /\ Answer(p.x, p.k, "empty")
  /\ Record(p, "empty", NoPin, {})
  /\ UNCHANGED <<low, held>>

(* Mutant of ReleaseCs: chip select is released but cs_was_low stays.      *)
ReleaseCsOnly(p, now) ==
  /\ low' = IF p.keep THEN now ELSE now \ {cs[p.dev]}
  /\ held' = (held \/ p.keep)

(* After the last chunk chip select goes high; cs_was_low remembers.       *)
ReleaseCs(p, now) ==
  /\ low' = IF p.keep THEN now ELSE now \ {cs[p.dev]}
  /\ held' = p.keep

(* Chip select goes low unless cs_was_low says it is.                      *)
ServeClocks(p) ==
  /\ bus /\ cs[p.dev] # NoPin
  /\ Answer(p.x, p.k, "data")
  /\ LET now == IF held THEN low ELSE low \cup {cs[p.dev]}
     IN  /\ Record(p, "data", cs[p.dev], now)
         /\ ReleaseCs(p, now)

ServeChunk ==
  /\ out # <<>> /\ Head(out).what = "chunk"
  /\ out' = Tail(out)
  /\ ServeOff(Head(out)) \/ ServeNoPin(Head(out)) \/ ServeClocks(Head(out))
  /\ UNCHANGED <<hostVars, txVars, bus, cs, causeVars>>

(* The packet of another interface is answered.                            *)
ServeOther ==
  /\ out # <<>> /\ Head(out) = Other
  /\ out' = Tail(out)
  /\ Answer(0, 0, "empty")
  /\ UNCHANGED <<hostVars, txVars, fwVars, served, causeVars>>

(* A configuration that comes between the chunks of a transfer.            *)
WithinFrame == disturbed' = (disturbed \/ held)

(* Full initialisation: refused when the pins do not belong to one         *)
(* controller (the LOG packet that says so is nobody's answer); otherwise  *)
(* the old chip selects become inputs, and the new ones are none.          *)
(* cs_was_low stays as it is.                                              *)
ServeFull ==
  /\ out # <<>> /\ Head(out).what = "full"
  /\ out' = Tail(out)
  /\ IF Head(out).match
       THEN /\ bus' = TRUE
            /\ cs' = [d \in Devices |-> NoPin]
            /\ low' = IF bus THEN low \ {cs[d] : d \in Devices} ELSE low
            /\ WithinFrame
            /\ Answer(0, 0, "empty")
       ELSE UNCHANGED <<bus, cs, low, disturbed, in>>
  /\ UNCHANGED <<hostVars, txVars, held, served, stray, fault, configs>>

(* Mutant of ServeCs: the pin is an output, low.                           *)
ServeCsLow ==
  /\ out # <<>> /\ Head(out).what = "cs"
  /\ out' = Tail(out)
  /\ cs' = [cs EXCEPT ![Head(out).dev] = Head(out).pin]
  /\ low' = low \cup {Head(out).pin}
  /\ WithinFrame
  /\ Answer(0, 0, "empty")
  /\ UNCHANGED <<hostVars, txVars, bus, held, served, stray, fault, configs>>

(* A chip-select pin: an output, high.                                     *)
ServeCs ==
  /\ out # <<>> /\ Head(out).what = "cs"
  /\ out' = Tail(out)
  /\ cs' = [cs EXCEPT ![Head(out).dev] = Head(out).pin]
  /\ low' = low \ {Head(out).pin}
  /\ WithinFrame
  /\ Answer(0, 0, "empty")
  /\ UNCHANGED <<hostVars, txVars, bus, held, served, stray, fault, configs>>

-----------------------------------------------------------------------------

Driver == Build \/ SendChunk \/ SendFails \/ Answered \/ Timeout

Next ==
  \/ \E d \in Devices, n \in 1 .. MaxChunks : Start(d, n)
  \/ Driver
  \/ Receive
  \/ OtherBegin \/ OtherSend \/ OtherEnd
  \/ \E c \in Configs : Configure(c)
  \/ ServeChunk \/ ServeOther \/ ServeFull \/ ServeCs

Spec == Init /\ [][Next]_vars

-----------------------------------------------------------------------------
(* Properties.                                                             *)

(* No chunk is clocked out after a later one, and none twice unless it was *)
(* built in transfer_tx_buf while another caller was about to send from    *)
(* there; failed transfers, chunks executed late and chunks that another   *)
(* caller overwrote or sent are included (mfd-spi.c 78-118, core.c         *)
(* 375-385).                                                               *)
ChunksInOrder ==
  \A i, j \in DOMAIN served :
    i < j => \/ served[i].x < served[j].x
             \/ served[i].x = served[j].x /\ served[i].k < served[j].k
             \/ /\ served[i].x = served[j].x /\ served[i].k = served[j].k
                /\ <<served[i].x, served[i].k>> \in shared

(* While data is clocked, the device it is for is selected and no other    *)
(* is, as long as no transfer failed, no other caller overwrote a chunk    *)
(* before it was sent and nobody configured the bus between the chunks of  *)
(* a transfer (spi_handler.c 135-148, mfd-spi.c 91-95).                    *)
OnlyAddressed ==
  ~disturbed => \A i \in DOMAIN served :
                  served[i].answer = "data" => served[i].selected = {served[i].pin}

(* Under the same condition a transfer is one frame: cs_was_low says       *)
(* whether a chip select is low, which is then that of the latest chunk,   *)
(* and none is left low by a transfer that got its own answers             *)
(* (spi_handler.c 135-148, mfd-spi.c 93-95).                               *)
Framed ==
  ~disturbed => /\ low = IF held THEN {served[Len(served)].pin} ELSE {}
                /\ at = "idle" /\ ~stray => ~held

(* The transfer under way, or the latest one, when it took only its own    *)
(* answers: every chunk before the current one was executed, or refused    *)
(* with an answer, and when it is reported as done the current one, too    *)
(* (mfd-spi.c 104-118, spi_handler.c 164-179).                             *)
DoneIsServed ==
  ~stray /\ transfer.x > 0 =>
    \A k \in 1 .. transfer.len :
      k < transfer.k \/ results[transfer.x] = "ok" =>
        \E j \in DOMAIN served :
          served[j].x = transfer.x /\ served[j].k = k /\ served[j].answer # "none"

(* A transfer only fails when a packet was lost or late, a call was        *)
(* interrupted, or the bus was not configured (spi_handler.c 118, 164-179; *)
(* mfd-spi.c 106-110); what other callers do to the buffer is no cause.    *)
FailureHasCause ==
  \A i \in 1 .. MaxTransfers :
    results[i] = "error" =>
      fault \/ \E j \in DOMAIN served : served[j].x = i /\ served[j].answer = "none"

=============================================================================
