------------------------------ MODULE PicoTty ------------------------------
(***************************************************************************)
(* The transmit side of the TTY driver: the line discipline that writes,   *)
(* the throttling by active_urbs, the line settings, and the completion    *)
(* handler of the write URBs.                                              *)
(*                                                                         *)
(* One writer at a time writes (the TTY layer sees to that); settings and  *)
(* completions interleave with it.  The line discipline asks for room,     *)
(* writes at most that much, and sleeps until tty_wakeup when there is no  *)
(* room or when nothing was taken.                                         *)
(***************************************************************************)
EXTENDS Integers, Sequences, FiniteSets

CONSTANTS
  MaxActive,    \* MAX_ACTIVE_URBS (4)
  Opost,        \* the line discipline processes output and asks for room first
  MaxPieces,    \* bound: pieces of up to 60 bytes to write
  MaxSettings,  \* bound: changes of the line settings
  MaxFaults     \* bound: failed allocations, submissions and transfers

ASSUME ActiveAssumption == MaxActive \in Nat \ {0}
ASSUME OpostAssumption == Opost \in BOOLEAN
ASSUME TtyAssumption == {MaxPieces, MaxSettings, MaxFaults} \subseteq Nat

VARIABLES
  active,    \* pu->active_urbs
  urbs,      \* the URBs submitted and not completed, in order
  wire,      \* the packets the device received
  lost,      \* the pieces whose URB was submitted and failed
  callback,  \* where the completion handler is
  writer,    \* where the writer is
  woken,     \* tty_wakeup was called since the writer last slept
  next,      \* pieces taken by write
  settings,  \* changes of the line settings
  faults

vars == <<active, urbs, wire, lost, callback, writer, woken, next, settings, faults>>

Packets == [what : {"data", "settings"}, n : Nat]

IsData(p) == p.what = "data"

TypeOK ==
  /\ active \in 0 .. MaxPieces + MaxFaults
  /\ urbs \in Seq(Packets) /\ wire \in Seq(Packets)
  /\ lost \in SUBSET Nat
  /\ callback \in {"idle", "count", "wake"}
  /\ writer \in {"room", "write", "submit", "sleep"}
  /\ woken \in BOOLEAN
  /\ next \in 0 .. MaxPieces /\ settings \in 0 .. MaxSettings /\ faults \in 0 .. MaxFaults

Init ==
  /\ active = 0 /\ urbs = <<>> /\ wire = <<>> /\ lost = {}
  /\ callback = "idle" /\ writer = "room" /\ woken = FALSE
  /\ next = 0 /\ settings = 0 /\ faults = 0

-----------------------------------------------------------------------------
(* The writer.                                                             *)

(* Mutant of WriteRoom: the limit is off by one.                           *)
WriteRoomLate ==
  /\ writer = "room"
  /\ next < MaxPieces
  /\ writer' = IF Opost /\ active > MaxActive THEN "sleep" ELSE "write"
  /\ UNCHANGED <<active, urbs, wire, lost, callback, woken, next, settings, faults>>

(* p_uart_write_room, asked by the line discipline when it processes       *)
(* output; without OPOST it calls p_uart_write straight away, and          *)
(* p_uart_write does not look at active_urbs itself.                       *)
WriteRoom ==
  /\ writer = "room"
  /\ next < MaxPieces
  /\ writer' = IF Opost /\ active >= MaxActive THEN "sleep" ELSE "write"
  /\ UNCHANGED <<active, urbs, wire, lost, callback, woken, next, settings, faults>>

(* p_uart_write: no memory, nothing is taken.                              *)
WriteNoMemory ==
  /\ writer = "write"
  /\ faults < MaxFaults
  /\ faults' = faults + 1
  /\ writer' = "sleep"
  /\ UNCHANGED <<active, urbs, wire, lost, callback, woken, next, settings>>

(* p_uart_write: the packet is built and counted ...                       *)
Write ==
  /\ writer = "write"
  /\ active' = active + 1
  /\ writer' = "submit"
  /\ UNCHANGED <<urbs, wire, lost, callback, woken, next, settings, faults>>

(* ... and submitted ...                                                   *)
Submit ==
  /\ writer = "submit"
  /\ next' = next + 1
  /\ urbs' = Append(urbs, [what |-> "data", n |-> next + 1])
  /\ writer' = "room"
  /\ UNCHANGED <<active, wire, lost, callback, woken, settings, faults>>

(* Mutant of SubmitFail: the data is reported as taken.                    *)
SubmitFailTakes ==
  /\ writer = "submit"
  /\ faults < MaxFaults
  /\ faults' = faults + 1
  /\ next' = next + 1
  /\ writer' = "room"
  /\ UNCHANGED <<active, urbs, wire, lost, callback, woken, settings>>

(* ... or it is not, and nothing is taken.                                 *)
SubmitFail ==
  /\ writer = "submit"
  /\ faults < MaxFaults
  /\ faults' = faults + 1
  /\ writer' = "sleep"
  /\ UNCHANGED <<active, urbs, wire, lost, callback, woken, next, settings>>

Wake ==
  /\ writer = "sleep"
  /\ woken
  /\ woken' = FALSE
  /\ writer' = "room"
  /\ UNCHANGED <<active, urbs, wire, lost, callback, next, settings, faults>>

-----------------------------------------------------------------------------
(* p_uart_set_termios: its URB has no context and is not counted.          *)

SetTermios ==
  /\ settings < MaxSettings
  /\ settings' = settings + 1
  /\ urbs' = Append(urbs, [what |-> "settings", n |-> settings + 1])
  /\ UNCHANGED <<active, wire, lost, callback, writer, woken, next, faults>>

SetTermiosFail ==
  /\ settings < MaxSettings
  /\ faults < MaxFaults
  /\ settings' = settings + 1 /\ faults' = faults + 1
  /\ UNCHANGED <<active, urbs, wire, lost, callback, writer, woken, next>>

-----------------------------------------------------------------------------
(* p_uart_write_bulk_callback.                                             *)

(* Mutants of UrbCompletes: a settings URB is counted down too; a data URB *)
(* is not.                                                                 *)
UrbCompletesSettingsCount ==
  /\ callback = "idle" /\ urbs # <<>>
  /\ urbs' = Tail(urbs)
  /\ callback' = "count"
  /\ UNCHANGED <<active, writer, woken, next, settings>>

UrbCompletesUncounted ==
  /\ callback = "idle" /\ urbs # <<>>
  /\ urbs' = Tail(urbs)
  /\ callback' = IF IsData(Head(urbs)) THEN "wake" ELSE "idle"
  /\ UNCHANGED <<active, writer, woken, next, settings>>

(* The handler is called for the oldest URB.  It does not look at          *)
(* urb->status: a transfer that failed is counted down and wakes the       *)
(* writer like one that went through.                                      *)
UrbCompletes ==
  /\ callback = "idle" /\ urbs # <<>>
  /\ urbs' = Tail(urbs)
  /\ callback' = IF IsData(Head(urbs)) THEN "count" ELSE "idle"
  /\ UNCHANGED <<active, writer, woken, next, settings>>

(* The device took the packet ...                                          *)
Complete ==
  /\ UrbCompletes
  /\ wire' = Append(wire, Head(urbs))
  /\ UNCHANGED <<lost, faults>>

(* ... or it did not (a stall, a protocol error): data that p_uart_write   *)
(* reported as taken is gone, and nobody is told.                          *)
CompleteFail ==
  /\ UrbCompletes
  /\ faults < MaxFaults
  /\ faults' = faults + 1
  /\ lost' = IF IsData(Head(urbs)) THEN lost \cup {Head(urbs).n} ELSE lost
  /\ UNCHANGED wire

CountDown ==
  /\ callback = "count"
  /\ active' = active - 1
  /\ callback' = "wake"
  /\ UNCHANGED <<urbs, wire, lost, writer, woken, next, settings, faults>>

(* tty_port_tty_wakeup.                                                    *)
Wakeup ==
  /\ callback = "wake"
  /\ woken' = TRUE
  /\ callback' = "idle"
  /\ UNCHANGED <<active, urbs, wire, lost, writer, next, settings, faults>>

-----------------------------------------------------------------------------

Writer == WriteRoom \/ WriteNoMemory \/ Write \/ Submit \/ SubmitFail \/ Wake

Callback == CountDown \/ Wakeup

Next == Writer \/ SetTermios \/ SetTermiosFail \/ Complete \/ CompleteFail \/ Callback

Spec == Init /\ [][Next]_vars

(* The writer runs, every URB that was submitted completes one way or the  *)
(* other, and the handler runs to its end.                                 *)
Fairness == WF_vars(Writer) /\ WF_vars(Complete \/ CompleteFail) /\ WF_vars(Callback)

FairSpec == Spec /\ Fairness

-----------------------------------------------------------------------------
(* Properties.                                                             *)

InFlight == Cardinality({i \in DOMAIN urbs : IsData(urbs[i])})

(* What reached the device and what is still submitted, in order.          *)
Sent == wire \o urbs

(* The data that was reported as taken is on its way to the device or has  *)
(* arrived there, each piece once and in the order it was written, also    *)
(* when submissions fail and are repeated: all but the pieces whose URB    *)
(* failed after it was submitted, of which there are no more than          *)
(* transfers that failed (mfd-uart.c 45-56, 58-100).                       *)
WritesInOrder ==
  /\ \A i \in DOMAIN Sent : IsData(Sent[i]) => Sent[i].n \in (1 .. next) \ lost
  /\ \A n \in (1 .. next) \ lost : \E i \in DOMAIN Sent : IsData(Sent[i]) /\ Sent[i].n = n
  /\ \A i, j \in DOMAIN Sent :
       i < j /\ IsData(Sent[i]) /\ IsData(Sent[j]) => Sent[i].n < Sent[j].n
  /\ lost \subseteq 1 .. next /\ Cardinality(lost) <= faults

(* active_urbs never falls below the number of data URBs in flight,        *)
(* although settings share the completion handler and submissions and      *)
(* transfers fail (mfd-uart.c 45-56, 90-97, 141-144).                      *)
CountCoversUrbs == InFlight + (IF callback = "count" THEN 1 ELSE 0) <= active

(* No more than MAX_ACTIVE_URBS data URBs are in flight (mfd-uart.c 90,    *)
(* 102-110).                                                               *)
UrbsBounded == InFlight <= MaxActive

(* A writer that sleeps for lack of room is woken again: unless something  *)
(* fails, all data reaches the device (mfd-uart.c 45-56, 102-110).         *)
AllWritten ==
  [](faults = 0) =>
    \A n \in 1 .. MaxPieces : <>(\E i \in 1 .. Len(wire) : wire[i] = [what |-> "data", n |-> n])

=============================================================================
