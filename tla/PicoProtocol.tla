---------------------------- MODULE PicoProtocol ----------------------------
(***************************************************************************)
(* The packets that the host driver and the firmware exchange, and what    *)
(* each end does with one: which requests the firmware answers, and which  *)
(* packets complete the exchange a host thread is waiting for.             *)
(*                                                                         *)
(* A packet is 64 bytes with a type, an interface and a length; it carries *)
(* no sequence number.  Here it also carries id, the call it was built for *)
(* or the call it answers (0: none).  No step of the code reads it: it is  *)
(* what lets the properties tell one call's packet from another's.  ok is  *)
(* the length field of a RESP read as the drivers read it, zero or not.    *)
(***************************************************************************)
EXTENDS Naturals, Sequences

Ifaces == {"GPIO", "I2C", "SPI", "UART", "ADC", "PWM", "SERVO"}
CmdTypes == {"CONFIG", "DATA", "READ", "RESP", "LOG", "DISABLE"}

Packets == [iface : Ifaces, type : CmdTypes, id : Nat, ok : BOOLEAN]

Packet(iface, type, id) == [iface |-> iface, type |-> type, id |-> id, ok |-> TRUE]

Resp(p, ok) == [iface |-> p.iface, type |-> "RESP", id |-> p.id, ok |-> ok]

(* A log line is an all-zero header with the type set, so its interface    *)
(* reads as GPIO.                                                          *)
Log(p) == [iface |-> "GPIO", type |-> "LOG", id |-> p.id, ok |-> TRUE]

(***************************************************************************)
(* What the handlers send back for an <<interface, type>>: a RESP with a   *)
(* non-zero length, a RESP with a zero one, only log lines, or nothing.    *)
(* Some can end in several ways, depending on pins and settings.  GPIO     *)
(* offsets are below 30 (the chip has 30 lines) and ADC channels are taken *)
(* to be on pins 26 to 29, which the host does not check: the firmware     *)
(* ignores a READ of any other pin.                                        *)
(***************************************************************************)
Confirmed == {<<"I2C", "DATA">>, <<"I2C", "READ">>, <<"SPI", "DATA">>,
              <<"GPIO", "READ">>, <<"ADC", "READ">>}
Refused == {<<"I2C", "DATA">>, <<"I2C", "READ">>, <<"SPI", "DATA">>,
            <<"SPI", "CONFIG">>, <<"SERVO", "CONFIG">>}
Logged == {<<"I2C", "CONFIG">>, <<"UART", "CONFIG">>, <<"GPIO", "CONFIG">>,
           <<"PWM", "CONFIG">>, <<"PWM", "DATA">>, <<"SERVO", "CONFIG">>,
           <<"SERVO", "DATA">>, <<"I2C", "DISABLE">>, <<"UART", "DISABLE">>,
           <<"PWM", "DISABLE">>}
Unanswered == {<<"GPIO", "DATA">>, <<"UART", "DATA">>, <<"SPI", "DATA">>,
               <<"PWM", "CONFIG">>, <<"PWM", "DATA">>}
              \cup Ifaces \X {"DISABLE"}

(* The packets that executing request p can send back, when the transmit   *)
(* FIFO has room.  Several log lines in a row are one line here: the host  *)
(* only prints them.  A full SPI initialisation, which only a command asks *)
(* for, is refused with a log line.                                        *)
Replies(p) ==
  LET kind == <<p.iface, p.type>>
      yes == Resp(p, TRUE)
      no == Resp(p, FALSE)
      log == Log(p)
  IN  {r \in {<<>>, <<log>>, <<yes>>, <<no>>, <<log, yes>>, <<log, no>>} :
         \/ r \in {<<yes>>, <<log, yes>>} /\ kind \in Confirmed
         \/ r \in {<<no>>, <<log, no>>} /\ kind \in Refused
         \/ r = <<log>> /\ kind \in Logged
         \/ r = <<log>> /\ kind = <<"SPI", "CONFIG">> /\ p.id = 0
         \/ r = <<>> /\ kind \in Unanswered}

(* Mutant of Completes: GPIO replies are not handed over.                  *)
CompletesNoGpio(p) == p.type # "LOG" /\ p.iface \in {"SERVO", "I2C", "ADC", "SPI"}

(* The packets that picolink_bulk_in_callback hands to the waiting thread. *)
(* Neither the interface nor anything else in them is compared with the    *)
(* request.                                                                *)
Completes(p) == p.type # "LOG" /\ p.iface \in {"SERVO", "I2C", "GPIO", "ADC", "SPI"}

(* The requests that no completing packet answers.                         *)
Quiet(p) == \A r \in Replies(p) : \A i \in DOMAIN r : ~Completes(r[i])

=============================================================================
