---------------------------- MODULE PicoTransfer ----------------------------
(***************************************************************************)
(* picolink_transfer, the request/reply primitive of the host driver, with *)
(* the threads that call it, the completion handler of the read URB, the   *)
(* commands other threads send without taking the lock, and the device at  *)
(* the other end of the two bulk pipes.                                    *)
(*                                                                         *)
(* A calling thread, the URB handler and the device run concurrently; one  *)
(* action is one step of one of them.  The steps of a thread are cut where *)
(* it touches state another one uses: i2c_lock, i2c_done, current_rx_buf,  *)
(* transfer_tx_buf and transfer_rx_buf.  Copies of transfer_rx_buf may     *)
(* overlap and mix packets; copies of transfer_tx_buf are one step each,   *)
(* so that a request mixed of two, which an SPI transfer can make of       *)
(* another caller's, is not in this module.                                *)
(***************************************************************************)
EXTENDS PicoProtocol, Integers, FiniteSets

CONSTANTS
  Threads,      \* threads that call picolink_transfer
  NoThread,     \* i2c_lock is free
  Client,       \* Client[t]: the driver entry point through which t calls
  Commands,     \* packets that picolink_send_packet sends, id 0
  LateReplies,  \* TRUE: an answer may take longer than the 500ms waited
  MaxCalls,     \* bound: calls of picolink_transfer in a behaviour
  MaxCommands,  \* bound: unlocked commands and UART packets in a behaviour
  MaxFaults     \* bound: send errors, lost answers, read URB errors

Clients == {"GPIO", "I2C", "ADC", "SPI", "SPISETUP"}

ASSUME ThreadsAssumption == NoThread \notin Threads /\ IsFiniteSet(Threads)
ASSUME ClientAssumption == Client \in [Threads -> Clients]
ASSUME CommandsAssumption == Commands \subseteq {p \in Packets : p.id = 0}
ASSUME BoundsAssumption ==
  MaxCalls \in Nat /\ MaxCommands \in Nat /\ MaxFaults \in Nat
ASSUME LateRepliesAssumption == LateReplies \in BOOLEAN

VARIABLES
  lock,    \* dev->i2c_lock: the thread that holds it
  done,    \* dev->i2c_done: completions not yet consumed
  armed,   \* dev->current_rx_buf # NULL
  txbuf,   \* *dev->transfer_tx_buf
  rxbuf,   \* *dev->transfer_rx_buf: the packets that parts of it are of, or
           \* were of while a thread was copying it
  pc,      \* pc[t]: where t is
  req,     \* req[t]: the request of t's latest call
  got,     \* got[t]: the packets that parts of t's latest answer are of
  result,  \* result[t]: how t's latest call ended
  out,     \* packets accepted by the device and not yet executed
  in,      \* packets in flight to the host
  urb,     \* the read URB and its completion handler
  calls,   \* calls made so far; the latest id given out
  cmds,    \* unlocked commands sent and UART packets received so far
  faults,  \* faults so far
  runs     \* runs[i]: how often the device executed the request of call i

threadVars == <<pc, req, got, result>>
transferVars == <<lock, done, armed, txbuf, rxbuf>>
wireVars == <<out, in, runs>>
countVars == <<calls, cmds, faults>>
vars == <<transferVars, threadVars, wireVars, urb, countVars>>

Labels == {"idle", "lock", "arm", "send", "wait", "copyout", "finish", "collect"}
Results == {"none", "pending", "value", "nack", "fallback", "error", "interrupted"}
UrbStages == {"posted", "copy", "clear", "complete", "resubmit", "dead"}

Blank == Packet("GPIO", "RESP", 0)   \* a zeroed buffer that was never used

TypeOK ==
  /\ lock \in Threads \cup {NoThread}
  /\ done \in Nat
  /\ armed \in BOOLEAN
  /\ txbuf \in Packets
  /\ rxbuf \in (SUBSET Packets) \ {{}}
  /\ pc \in [Threads -> Labels]
  /\ req \in [Threads -> Packets]
  /\ got \in [Threads -> (SUBSET Packets) \ {{}}]
  /\ result \in [Threads -> Results]
  /\ out \in Seq(Packets) /\ in \in Seq(Packets)
  /\ urb \in [stage : UrbStages, pkt : Packets]
  /\ calls \in 0 .. MaxCalls
  /\ cmds \in 0 .. MaxCommands
  /\ faults \in 0 .. MaxFaults
  /\ runs \in [0 .. MaxCalls -> Nat]

Init ==
  /\ lock = NoThread /\ done = 0 /\ armed = FALSE
  /\ txbuf = Blank /\ rxbuf = {Blank}
  /\ pc = [t \in Threads |-> "idle"]
  /\ req = [t \in Threads |-> Blank]
  /\ got = [t \in Threads |-> {Blank}]
  /\ result = [t \in Threads |-> "none"]
  /\ out = <<>> /\ in = <<>>
  /\ urb = [stage |-> "posted", pkt |-> Blank]
  /\ calls = 0 /\ cmds = 0 /\ faults = 0
  /\ runs = [i \in 0 .. MaxCalls |-> 0]

-----------------------------------------------------------------------------
(* The callers: what each builds, and what it makes of the outcome.        *)

(* A write and a read of the I2C adapter differ only in their data.        *)
Request(c, id) ==
  CASE c = "GPIO"     -> Packet("GPIO", "READ", id)
    [] c = "I2C"      -> Packet("I2C", "DATA", id)
    [] c = "ADC"      -> Packet("ADC", "READ", id)
    [] c = "SPI"      -> Packet("SPI", "DATA", id)
    [] c = "SPISETUP" -> Packet("SPI", "CONFIG", id)

(* picolink_gpio_get answers 0 when the packet is not a GPIO reply; the    *)
(* I2C adapter looks at the type and the length and not at the interface;  *)
(* ADC and SPI look at nothing.                                            *)
Reading(c, p) ==
  CASE c = "GPIO" -> IF p.type = "RESP" /\ p.iface = "GPIO" THEN "value" ELSE "fallback"
    [] c = "I2C"  -> IF p.type # "RESP" THEN "error" ELSE IF p.ok THEN "value" ELSE "nack"
    [] OTHER      -> "value"

(* The answer may have parts of several packets.                           *)
Readings(c, parts) ==
  {Reading(c, [iface |-> p.iface, type |-> q.type, id |-> 0, ok |-> r.ok]) : p, q, r \in parts}

(* picolink_gpio_get turns an error of the transfer into the value 0.      *)
Failure(c) == IF c = "GPIO" THEN "fallback" ELSE "error"

GoTo(t, label) == pc' = [pc EXCEPT ![t] = label]

-----------------------------------------------------------------------------
(* The host threads.                                                       *)

(* The caller builds its request: on its own stack or heap, except SPI     *)
(* data, which is built in transfer_tx_buf itself, before any lock.        *)
Call(t) ==
  /\ pc[t] = "idle"
  /\ calls < MaxCalls
  /\ calls' = calls + 1
  /\ req' = [req EXCEPT ![t] = Request(Client[t], calls + 1)]
  /\ txbuf' = IF Client[t] = "SPI" THEN Request("SPI", calls + 1) ELSE txbuf
  /\ result' = [result EXCEPT ![t] = "pending"]
  /\ GoTo(t, "lock")
  /\ UNCHANGED <<lock, done, armed, rxbuf, got, wireVars, urb, cmds, faults>>

(* mutex_lock_interruptible is interrupted while it sleeps on the mutex:   *)
(* nothing was sent.  (picolink_gpio_get turns this into the value 0 too;  *)
(* result keeps the cause.)                                                *)
Interrupt(t) ==
  /\ pc[t] = "lock"
  /\ lock # NoThread
  /\ result' = [result EXCEPT ![t] = "interrupted"]
  /\ GoTo(t, "idle")
  /\ UNCHANGED <<transferVars, req, got, wireVars, urb, countVars>>

(* Mutant of Begin: the lock is not waited for.                            *)
BeginUnlocked(t) ==
  /\ pc[t] = "lock"
  /\ lock' = t /\ txbuf' = req[t] /\ done' = 0 /\ GoTo(t, "arm")
  /\ UNCHANGED <<armed, rxbuf, req, got, result, wireVars, urb, countVars>>

(* The lock is taken, the request copied to transfer_tx_buf (for SPI data  *)
(* onto itself) and i2c_done reset.                                        *)
Begin(t) ==
  /\ pc[t] = "lock"
  /\ lock = NoThread
  /\ lock' = t
  /\ txbuf' = IF Client[t] = "SPI" THEN txbuf ELSE req[t]
  /\ done' = 0
  /\ GoTo(t, "arm")
  /\ UNCHANGED <<armed, rxbuf, req, got, result, wireVars, urb, countVars>>

Arm(t) ==
  /\ pc[t] = "arm"
  /\ armed' = TRUE
  /\ GoTo(t, "send")
  /\ UNCHANGED <<lock, done, txbuf, rxbuf, req, got, result, wireVars, urb, countVars>>

(* usb_bulk_msg sends what transfer_tx_buf holds now.                      *)
Send(t) ==
  /\ pc[t] = "send"
  /\ out' = Append(out, txbuf)
  /\ GoTo(t, "wait")
  /\ UNCHANGED <<transferVars, req, got, result, in, runs, urb, countVars>>

(* usb_bulk_msg fails: the packet did not leave.                           *)
SendFail(t) ==
  /\ pc[t] = "send"
  /\ faults < MaxFaults
  /\ faults' = faults + 1
  /\ result' = [result EXCEPT ![t] = Failure(Client[t])]
  /\ GoTo(t, "finish")
  /\ UNCHANGED <<transferVars, req, got, wireVars, urb, calls, cmds>>

(* Mutants of Wake: a wait cut short by a signal is taken for a            *)
(* completion; the lock is released on waking.                             *)
WakeOnSignal(t) ==
  /\ pc[t] = "wait"
  /\ GoTo(t, "copyout")
  /\ UNCHANGED <<transferVars, req, got, result, wireVars, urb, countVars>>

WakeUnlocks(t) ==
  /\ pc[t] = "wait"
  /\ done > 0
  /\ done' = done - 1
  /\ lock' = NoThread
  /\ GoTo(t, "copyout")
  /\ UNCHANGED <<armed, txbuf, rxbuf, req, got, result, wireVars, urb, countVars>>

Wake(t) ==
  /\ pc[t] = "wait"
  /\ done > 0
  /\ done' = done - 1
  /\ GoTo(t, "copyout")
  /\ UNCHANGED <<lock, armed, txbuf, rxbuf, req, got, result, wireVars, urb, countVars>>

(* t's request, or an answer to it, is still on its way.                   *)
Underway(t) ==
  LET mine(s) == \E i \in DOMAIN s : s[i].id = req[t].id
  IN  \/ mine(out)
      \/ urb.stage # "dead" /\ mine(in)
      \/ urb.stage \in {"copy", "clear", "complete"} /\ urb.pkt.id = req[t].id

(* Mutants of Timeout: the request is sent again; the wait starts over.    *)
TimeoutRetries(t) ==
  /\ pc[t] = "wait"
  /\ done = 0
  /\ GoTo(t, "send")
  /\ UNCHANGED <<transferVars, req, got, result, wireVars, urb, countVars>>

TimeoutNever(t) ==
  /\ pc[t] = "wait"
  /\ UNCHANGED vars

(* wait_for_completion_timeout gives up.  With LateReplies = FALSE the     *)
(* device and the URB are taken to need less than 500ms for what they have *)
(* accepted, so that only a request that will never be answered times out. *)
Timeout(t) ==
  /\ pc[t] = "wait"
  /\ done = 0
  /\ LateReplies \/ ~Underway(t)
  /\ result' = [result EXCEPT ![t] = Failure(Client[t])]
  /\ GoTo(t, "finish")
  /\ UNCHANGED <<transferVars, req, got, wireVars, urb, countVars>>

(* What a copy of transfer_rx_buf finds: while the handler stores a packet *)
(* there, parts of that one, too.                                          *)
Readable == IF urb.stage = "copy" THEN rxbuf \cup {urb.pkt} ELSE rxbuf

(* SPI passes transfer_rx_buf for the answer: it is copied onto itself.    *)
CopiesInPlace(t) == Client[t] \in {"SPI", "SPISETUP"}

(* transfer_rx_buf is copied to the caller's packet.  The step is the end  *)
(* of the copy; a copy onto itself may put parts back that the handler has *)
(* replaced.                                                               *)
CopyOut(t) ==
  /\ pc[t] = "copyout"
  /\ got' = [got EXCEPT ![t] = Readable]
  /\ \E outcome \in Readings(Client[t], Readable) : result' = [result EXCEPT ![t] = outcome]
  /\ rxbuf' = IF CopiesInPlace(t) THEN Readable ELSE rxbuf
  /\ GoTo(t, "finish")
  /\ UNCHANGED <<lock, done, armed, txbuf, req, wireVars, urb, countVars>>

(* Mutant of Finish: current_rx_buf is not cleared.                        *)
FinishArmed(t) ==
  /\ pc[t] = "finish"
  /\ lock' = NoThread
  /\ GoTo(t, "idle")
  /\ UNCHANGED <<armed, done, txbuf, rxbuf, req, got, result, wireVars, urb, countVars>>

(* current_rx_buf is cleared and the lock released.  An SPI transfer still *)
(* has its data to take from transfer_rx_buf.                              *)
Finish(t) ==
  /\ pc[t] = "finish"
  /\ armed' = FALSE
  /\ lock' = NoThread
  /\ GoTo(t, IF Client[t] = "SPI" /\ result[t] = "value" THEN "collect" ELSE "idle")
  /\ UNCHANGED <<done, txbuf, rxbuf, req, got, result, wireVars, urb, countVars>>

Collect(t) ==
  /\ pc[t] = "collect"
  /\ got' = [got EXCEPT ![t] = Readable]
  /\ GoTo(t, "idle")
  /\ UNCHANGED <<transferVars, req, result, wireVars, urb, countVars>>

(* A command is sent by some other thread, with no lock and no answer      *)
(* awaited.                                                                *)
SendCommand(p) ==
  /\ cmds < MaxCommands
  /\ cmds' = cmds + 1
  /\ out' = Append(out, p)
  /\ UNCHANGED <<transferVars, threadVars, in, runs, urb, calls, faults>>

-----------------------------------------------------------------------------
(* The completion handler of the read URB.                                 *)

Stage(s, p) == urb' = [stage |-> s, pkt |-> p]

(* Mutant of Receive: complete() is called before the packet is copied.    *)
ReceiveCompletesFirst ==
  /\ urb.stage = "posted"
  /\ in # <<>>
  /\ in' = Tail(in)
  /\ IF Completes(Head(in)) /\ armed
       THEN Stage("copy", Head(in)) /\ done' = done + 1
       ELSE Stage("resubmit", Blank) /\ done' = done
  /\ UNCHANGED <<lock, armed, txbuf, rxbuf, threadVars, out, runs, countVars>>

(* A packet arrives.  The handler reads current_rx_buf once; the packet is *)
(* dropped when it is NULL.                                                *)
Receive ==
  /\ urb.stage = "posted"
  /\ in # <<>>
  /\ in' = Tail(in)
  /\ IF Completes(Head(in)) /\ armed THEN Stage("copy", Head(in))
                                     ELSE Stage("resubmit", Blank)
  /\ UNCHANGED <<transferVars, threadVars, out, runs, countVars>>

(* The URB completes with an error: the packet is lost.                    *)
ReceiveError ==
  /\ urb.stage = "posted"
  /\ in # <<>>
  /\ faults < MaxFaults
  /\ faults' = faults + 1
  /\ in' = Tail(in)
  /\ Stage("resubmit", Blank)
  /\ UNCHANGED <<transferVars, threadVars, out, runs, calls, cmds>>

(* The end of the handler's copy: the buffer holds that packet, unless     *)
(* some thread is copying it or has copied it onto itself meanwhile.       *)
CopyIn ==
  /\ urb.stage = "copy"
  /\ rxbuf' = IF urb.pkt \in rxbuf \/ \E t \in Threads : pc[t] \in {"copyout", "collect"}
                THEN rxbuf \cup {urb.pkt} ELSE {urb.pkt}
  /\ Stage("clear", urb.pkt)
  /\ UNCHANGED <<lock, done, armed, txbuf, threadVars, wireVars, countVars>>

Disarm ==
  /\ urb.stage = "clear"
  /\ armed' = FALSE
  /\ Stage("complete", urb.pkt)
  /\ UNCHANGED <<lock, done, txbuf, rxbuf, threadVars, wireVars, countVars>>

Complete ==
  /\ urb.stage = "complete"
  /\ done' = done + 1
  /\ Stage("resubmit", Blank)
  /\ UNCHANGED <<lock, armed, txbuf, rxbuf, threadVars, wireVars, countVars>>

Resubmit ==
  /\ urb.stage = "resubmit"
  /\ Stage("posted", Blank)
  /\ UNCHANGED <<transferVars, threadVars, wireVars, countVars>>

(* usb_submit_urb fails: nothing submits the URB again.                    *)
ResubmitFail ==
  /\ urb.stage = "resubmit"
  /\ faults < MaxFaults
  /\ faults' = faults + 1
  /\ Stage("dead", Blank)
  /\ UNCHANGED <<transferVars, threadVars, wireVars, calls, cmds>>

-----------------------------------------------------------------------------
(* The device.                                                             *)

Executed(p) == runs' = [runs EXCEPT ![p.id] = @ + 1]

Serve ==
  /\ out # <<>>
  /\ out' = Tail(out)
  /\ \E r \in Replies(Head(out)) : in' = in \o r
  /\ Executed(Head(out))
  /\ UNCHANGED <<transferVars, threadVars, urb, countVars>>

(* The request is executed, and no answer leaves: the transmit FIFO is     *)
(* full and tud_vendor_write's result is not looked at, or the handler     *)
(* returns without one.                                                    *)
ServeSilently ==
  /\ out # <<>>
  /\ faults < MaxFaults
  /\ faults' = faults + 1
  /\ out' = Tail(out)
  /\ Executed(Head(out))
  /\ UNCHANGED <<transferVars, threadVars, in, urb, calls, cmds>>

(* Bytes that arrived at the UART are pushed to the host.                  *)
UartData ==
  /\ cmds < MaxCommands
  /\ cmds' = cmds + 1
  /\ in' = Append(in, Packet("UART", "RESP", 0))
  /\ UNCHANGED <<transferVars, threadVars, out, runs, urb, calls, faults>>

-----------------------------------------------------------------------------
(* Nobody is obliged to call: the driver may rest.                         *)
Rest ==
  /\ \A t \in Threads : pc[t] = "idle"
  /\ UNCHANGED vars

InTransfer(t) ==
  \/ Begin(t) \/ Arm(t) \/ Send(t) \/ SendFail(t) \/ Wake(t) \/ Timeout(t)
  \/ CopyOut(t) \/ Finish(t) \/ Collect(t)

Handler == Receive \/ ReceiveError \/ CopyIn \/ Disarm \/ Complete \/ Resubmit \/ ResubmitFail

Device == Serve \/ ServeSilently \/ UartData

Next ==
  \/ \E t \in Threads : Call(t) \/ Interrupt(t) \/ InTransfer(t)
  \/ \E p \in Commands : SendCommand(p)
  \/ Handler
  \/ Device
  \/ Rest

Spec == Init /\ [][Next]_vars

(* Only the calling threads are scheduled fairly: the kernel runs a thread *)
(* that can run, its timers expire, and a mutex is handed to a waiter that *)
(* keeps asking.  Nothing is assumed of the device or of the read URB.     *)
Fairness ==
  \A t \in Threads : WF_vars(InTransfer(t) /\ ~Begin(t)) /\ SF_vars(Begin(t))

FairSpec == Spec /\ Fairness

-----------------------------------------------------------------------------
(* Properties.  The first group holds whatever the device does and however *)
(* late its answers are; the second when answers are not late and no call  *)
(* shares the buffers with one that builds its request there.              *)

(* current_rx_buf is only set while some thread is inside the exchange: no *)
(* packet is ever stored into transfer_rx_buf on behalf of a call that has *)
(* returned, unless the handler had read the pointer before the return     *)
(* (core.c 380, 396, 99).                                                  *)
ArmedByHolder ==
  armed => /\ lock # NoThread
           /\ pc[lock] \in {"send", "wait", "copyout", "finish"}

(* Late answers do not pile up in i2c_done: a call finds at most its own   *)
(* completion and one left over by the handler racing with the previous    *)
(* call's return (core.c 379, 388, 103).                                   *)
CompletionBounded == done <= 2

Answered(t) == result[t] \in {"value", "nack"}

(* No driver presents as data read from the device what no request made:   *)
(* every packet that an answer has parts of was sent back for a call that  *)
(* the device executed.  An answer has parts of several only if copies     *)
(* overlapped, which late answers allow (core.c 101 against 389, mfd-spi.c *)
(* 114); then it need not be one that any request produced.                *)
RealAnswer ==
  \A t \in Threads :
    Answered(t) => \A p \in got[t] : p.id \in 1 .. calls /\ runs[p.id] > 0

(* The device executes the request of a call at most once, also when the   *)
(* call timed out or was given another call's answer (core.c 378-385).     *)
AtMostOnce == \A i \in 1 .. MaxCalls : runs[i] <= 1

(* Every call of picolink_transfer comes back to its caller, whatever the  *)
(* device and the read URB do (core.c 382-397).                            *)
EveryCallReturns == \A t \in Threads : pc[t] # "idle" ~> pc[t] = "idle"

(* The packet a call returns as its answer is the answer to that very      *)
(* call, although nothing in it says so (core.c 87-105, 388-389).          *)
MatchedReply == \A t \in Threads : Answered(t) => \A p \in got[t] : p.id = req[t].id

(* A call only fails when something went wrong: no interleaving of calls,  *)
(* commands and the handler makes a healthy device look silent (core.c     *)
(* 380 before 382; 396 before 397).                                        *)
ErrorsHaveCause ==
  \A t \in Threads : result[t] \in {"error", "fallback"} => faults > 0

(* The handler never stores a packet into transfer_rx_buf while a thread   *)
(* is reading it (core.c 101 against 389, mfd-spi.c 114).                  *)
RxBufExclusive ==
  urb.stage = "copy" => \A t \in Threads : pc[t] \notin {"copyout", "collect"}

(* What the device is sent for a call is the packet its caller built       *)
(* (core.c 378-384).                                                       *)
OwnPacketSent ==
  \A t \in Threads : pc[t] \in {"arm", "send"} => txbuf = req[t]

(* The abstract call that t's latest call is, and what came of it.         *)
LinkPhase(t) ==
  IF pc[t] = "idle" THEN "idle"
  ELSE IF runs[req[t].id] > 0 THEN "executed" ELSE "invoked"

LinkOutcome(t) ==
  IF pc[t] # "idle" THEN [how |-> "pending", of |-> {}]
  ELSE [how |-> result[t], of |-> IF Answered(t) THEN {p.id : p \in got[t]} ELSE {}]

(* picolink_transfer implements AtomicLink (core.c 371-399).               *)
Link == INSTANCE AtomicLink WITH
  issued <- calls,
  op <- [t \in Threads |-> req[t].id],
  phase <- [t \in Threads |-> LinkPhase(t)],
  outcome <- [t \in Threads |-> LinkOutcome(t)]

ImplementsLink == Link!Spec

=============================================================================
