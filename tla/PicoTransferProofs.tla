------------------------- MODULE PicoTransferProofs -------------------------
(***************************************************************************)
(* Theorems about PicoTransfer, for any set of threads, any clients, any   *)
(* commands and any bounds; and, when answers are not late, that every     *)
(* call is given the answer to itself and fails only for a cause.          *)
(***************************************************************************)
EXTENDS PicoTransfer, TLAPS

USE ThreadsAssumption, ClientAssumption, CommandsAssumption,
    BoundsAssumption, LateRepliesAssumption

-----------------------------------------------------------------------------
(* Requests and the packets that answer them.                              *)

(* The request a client builds is a packet, and carries the number of its  *)
(* call (the packet-building parts of the drivers).                        *)
LEMMA RequestIsPacket ==
  ASSUME NEW c \in Clients, NEW i \in Nat
  PROVE  Request(c, i) \in Packets /\ Request(c, i).id = i
BY DEF Clients, Request, Packet, Packets, Ifaces, CmdTypes

(* The unlocked commands are packets of no call.                           *)
LEMMA CommandIsPacket ==
  ASSUME NEW p \in Commands
  PROVE  p \in Packets /\ p.id = 0
OBVIOUS

(* Whatever is executed, the packets sent back are well formed, carry the  *)
(* number of the request, and at most one of them completes a wait (the    *)
(* firmware's handlers).                                                   *)
LEMMA RepliesLemma ==
  ASSUME NEW p \in Packets, NEW r \in Replies(p)
  PROVE  /\ r \in Seq(Packets)
         /\ Len(r) <= 2
         /\ \A i \in 1 .. Len(r) : r[i].id = p.id
         /\ \A i, j \in 1 .. Len(r) : Completes(r[i]) /\ Completes(r[j]) => i = j
<1> DEFINE L == Log(p)  T == Resp(p, TRUE)  F == Resp(p, FALSE)
<1>1. /\ L \in Packets /\ L.id = p.id /\ ~Completes(L)
      /\ T \in Packets /\ T.id = p.id
      /\ F \in Packets /\ F.id = p.id
  BY DEF Log, Resp, Packets, Ifaces, CmdTypes, Completes
<1>2. r \in {<<>>, <<L>>, <<T>>, <<F>>, <<L, T>>, <<L, F>>}
  BY DEF Replies
<1> HIDE DEF L, T, F
<1>3. CASE r = <<>>
  BY <1>3
<1>4. CASE r = <<L>>
  BY <1>1, <1>4
<1>5. CASE r = <<T>>
  BY <1>1, <1>5
<1>6. CASE r = <<F>>
  BY <1>1, <1>6
<1>7. CASE r = <<L, T>>
  BY <1>1, <1>7
<1>8. CASE r = <<L, F>>
  BY <1>1, <1>8
<1> QED
  BY <1>2, <1>3, <1>4, <1>5, <1>6, <1>7, <1>8

-----------------------------------------------------------------------------
(* Type correctness.                                                       *)

LEMMA BlankIsPacket == Blank \in Packets /\ Blank.id = 0
BY DEF Blank, Packet, Packets, Ifaces, CmdTypes

(* What is read of an answer is one of the results; of an answer that is   *)
(* one packet, what that packet reads as.                                  *)
LEMMA ReadingsLemma ==
  ASSUME NEW c \in Clients, NEW S
  PROVE  /\ Readings(c, S) \subseteq {"value", "nack", "fallback", "error"}
         /\ \A o \in Readings(c, S) :
              \E p, q, x \in S :
                o = Reading(c, [iface |-> p.iface, type |-> q.type, id |-> 0, ok |-> x.ok])
BY DEF Readings, Reading, Clients

LEMMA JoinedPacket ==
  ASSUME NEW P, NEW p \in P
  PROVE  /\ {p} \in (SUBSET P) \ {{}}
         /\ \A S \in SUBSET P : S \cup {p} \in (SUBSET P) \ {{}}
<1>1. {p} \in SUBSET P /\ p \in {p}
  OBVIOUS
<1>2. ASSUME NEW S \in SUBSET P PROVE S \cup {p} \in SUBSET P /\ p \in S \cup {p}
  OBVIOUS
<1> QED BY <1>1, <1>2

LEMMA ReadableType ==
  ASSUME rxbuf \in (SUBSET Packets) \ {{}}, urb \in [stage : UrbStages, pkt : Packets]
  PROVE  Readable \in (SUBSET Packets) \ {{}} /\ rxbuf \subseteq Readable
<1>1. urb.pkt \in Packets
  OBVIOUS
<1>2. CASE urb.stage = "copy"
  <2>1. Readable = rxbuf \cup {urb.pkt}
    BY <1>2 DEF Readable
  <2>2. rxbuf \cup {urb.pkt} \in (SUBSET Packets) \ {{}}
    BY <1>1, JoinedPacket
  <2> QED BY <2>1, <2>2
<1>3. CASE urb.stage # "copy"
  BY <1>3 DEF Readable
<1> QED BY <1>2, <1>3

LEMMA TypeInit == Init => TypeOK
<1> SUFFICES ASSUME Init PROVE TypeOK
  OBVIOUS
<1>1. {Blank} \in (SUBSET Packets) \ {{}}
  BY BlankIsPacket, JoinedPacket
<1>2. rxbuf \in (SUBSET Packets) \ {{}} /\ got \in [Threads -> (SUBSET Packets) \ {{}}]
  BY <1>1 DEF Init
<1>3. /\ txbuf \in Packets /\ req \in [Threads -> Packets]
      /\ urb \in [stage : UrbStages, pkt : Packets]
  BY BlankIsPacket DEF Init, UrbStages
<1>4. /\ pc \in [Threads -> Labels] /\ result \in [Threads -> Results]
      /\ runs \in [0 .. MaxCalls -> Nat] /\ out \in Seq(Packets) /\ in \in Seq(Packets)
  BY DEF Init, Labels, Results
<1>5. lock \in Threads \cup {NoThread} /\ done \in Nat /\ armed \in BOOLEAN
  BY DEF Init
<1>6. calls \in 0 .. MaxCalls /\ cmds \in 0 .. MaxCommands /\ faults \in 0 .. MaxFaults
  BY DEF Init
<1> QED BY <1>2, <1>3, <1>4, <1>5, <1>6 DEF TypeOK

LEMMA ExecutedType ==
  ASSUME runs \in [0 .. MaxCalls -> Nat], NEW p, Executed(p)
  PROVE  runs' \in [0 .. MaxCalls -> Nat]
<1>1. \A i \in 0 .. MaxCalls : runs'[i] \in Nat
  BY DEF Executed
<1> QED BY <1>1 DEF Executed

LEMMA TypeStep == TypeOK /\ [Next]_vars => TypeOK'
<1> SUFFICES ASSUME TypeOK, [Next]_vars PROVE TypeOK'
  OBVIOUS
<1> USE DEF TypeOK, Labels, Results, UrbStages
<1> USE DEF transferVars, threadVars, wireVars, countVars, GoTo, Stage
<1>1. ASSUME NEW t \in Threads, Call(t) PROVE TypeOK'
  <2>1. Client[t] \in Clients /\ "SPI" \in Clients /\ calls + 1 \in Nat
    BY DEF Clients
  <2>2. /\ Request(Client[t], calls + 1) \in Packets
        /\ Request("SPI", calls + 1) \in Packets
    BY <2>1, RequestIsPacket
  <2> QED BY <1>1, <2>2 DEF Call
<1>2. ASSUME NEW t \in Threads, Interrupt(t) PROVE TypeOK'
  BY <1>2 DEF Interrupt
<1>3. ASSUME NEW t \in Threads, Begin(t) PROVE TypeOK'
  BY <1>3 DEF Begin
<1>4. ASSUME NEW t \in Threads, Arm(t) PROVE TypeOK'
  BY <1>4 DEF Arm
<1>5. ASSUME NEW t \in Threads, Send(t) PROVE TypeOK'
  BY <1>5 DEF Send
<1>6. ASSUME NEW t \in Threads, SendFail(t) PROVE TypeOK'
  BY <1>6 DEF SendFail, Failure
<1>7. ASSUME NEW t \in Threads, Wake(t) PROVE TypeOK'
  BY <1>7 DEF Wake
<1>8. ASSUME NEW t \in Threads, Timeout(t) PROVE TypeOK'
  BY <1>8 DEF Timeout, Failure
<1>9. ASSUME NEW t \in Threads, CopyOut(t) PROVE TypeOK'
  <2>1. Readable \in (SUBSET Packets) \ {{}}
    BY ReadableType
  <2>2. PICK outcome \in Readings(Client[t], Readable) : result' = [result EXCEPT ![t] = outcome]
    BY <1>9 DEF CopyOut
  <2>3. outcome \in Results
    BY ReadingsLemma
  <2>4. rxbuf' \in (SUBSET Packets) \ {{}} /\ got' \in [Threads -> (SUBSET Packets) \ {{}}]
    BY <1>9, <2>1 DEF CopyOut
  <2> QED BY <1>9, <2>2, <2>3, <2>4 DEF CopyOut
<1>10. ASSUME NEW t \in Threads, Finish(t) PROVE TypeOK'
  BY <1>10 DEF Finish
<1>11. ASSUME NEW t \in Threads, Collect(t) PROVE TypeOK'
  BY <1>11, ReadableType DEF Collect
<1>12. ASSUME NEW p \in Commands, SendCommand(p) PROVE TypeOK'
  BY <1>12, CommandIsPacket DEF SendCommand
<1>13. CASE Receive
  BY <1>13, BlankIsPacket DEF Receive
<1>14. CASE ReceiveError
  BY <1>14, BlankIsPacket DEF ReceiveError
<1>15. CASE CopyIn
  <2>1. urb.pkt \in Packets
    OBVIOUS
  <2>2. rxbuf' = {urb.pkt} \/ rxbuf' = rxbuf \cup {urb.pkt}
    BY <1>15 DEF CopyIn
  <2>3. rxbuf' \in (SUBSET Packets) \ {{}}
    <3>1. {urb.pkt} \in (SUBSET Packets) \ {{}}
      BY <2>1, JoinedPacket
    <3>2. rxbuf \in SUBSET Packets
      OBVIOUS
    <3>3. rxbuf \cup {urb.pkt} \in (SUBSET Packets) \ {{}}
      BY <2>1, <3>2, JoinedPacket
    <3> QED BY <2>2, <3>1, <3>3
  <2> QED BY <1>15, <2>1, <2>3 DEF CopyIn
<1>16. CASE Disarm
  BY <1>16 DEF Disarm
<1>17. CASE Complete
  BY <1>17, BlankIsPacket DEF Complete
<1>18. CASE Resubmit
  BY <1>18, BlankIsPacket DEF Resubmit
<1>19. CASE ResubmitFail
  BY <1>19, BlankIsPacket DEF ResubmitFail
<1>20. CASE Serve
  <2>1. Head(out) \in Packets /\ Tail(out) \in Seq(Packets)
    BY <1>20 DEF Serve
  <2>2. PICK r \in Replies(Head(out)) : in' = in \o r
    BY <1>20 DEF Serve
  <2>3. r \in Seq(Packets)
    BY <2>1, RepliesLemma
  <2>4. in' \in Seq(Packets)
    BY <2>2, <2>3
  <2>5. runs' \in [0 .. MaxCalls -> Nat]
    BY <1>20, ExecutedType DEF Serve
  <2> QED BY <1>20, <2>1, <2>4, <2>5 DEF Serve
<1>21. CASE ServeSilently
  <2>1. Tail(out) \in Seq(Packets)
    BY <1>21 DEF ServeSilently
  <2>2. runs' \in [0 .. MaxCalls -> Nat]
    BY <1>21, ExecutedType DEF ServeSilently
  <2> QED BY <1>21, <2>1, <2>2 DEF ServeSilently
<1>22. CASE UartData
  <2>1. Packet("UART", "RESP", 0) \in Packets
    BY DEF Packet, Packets, Ifaces, CmdTypes
  <2>2. in' \in Seq(Packets)
    BY <1>22, <2>1 DEF UartData
  <2> QED BY <1>22, <2>2 DEF UartData
<1>23. CASE UNCHANGED vars
  BY <1>23 DEF vars
<1> QED
  BY <1>1, <1>2, <1>3, <1>4, <1>5, <1>6, <1>7, <1>8, <1>9, <1>10, <1>11, <1>12,
     <1>13, <1>14, <1>15, <1>16, <1>17, <1>18, <1>19, <1>20, <1>21, <1>22, <1>23
     DEF Next, InTransfer, Handler, Device, Rest

(* Every variable keeps its type (the declarations of picolink.h 12-33 and *)
(* the locals of picolink_transfer).                                       *)
THEOREM TypeCorrect == Spec => []TypeOK
BY TypeInit, TypeStep, PTL DEF Spec

-----------------------------------------------------------------------------
(* What holds however late the answers are.                                *)

(* The labels of a thread between mutex_lock_interruptible and             *)
(* mutex_unlock.                                                           *)
Holding == {"arm", "send", "wait", "copyout", "finish"}

Mutex == \A t \in Threads : pc[t] \in Holding <=> lock = t

(* The completions that i2c_done holds or may still get from packets the   *)
(* handler has taken, or can take, without another call arming: one for    *)
(* the packet in the handler and one for the armed buffer, unless the      *)
(* handler is about to disarm it.                                          *)
Weight ==
  done + (IF urb.stage \in {"copy", "clear", "complete"} THEN 1 ELSE 0)
       + (IF armed /\ urb.stage \notin {"copy", "clear"} THEN 1 ELSE 0)

CountInv ==
  /\ Weight <= 2
  /\ \A t \in Threads : pc[t] = "arm" => Weight <= 1

LockInv == TypeOK /\ Mutex /\ ArmedByHolder /\ CountInv

LEMMA LockInit == Init => LockInv
<1> SUFFICES ASSUME Init PROVE LockInv
  OBVIOUS
<1>1. TypeOK
  BY TypeInit
<1> QED
  BY <1>1 DEF Init, LockInv, Mutex, Holding, ArmedByHolder, CountInv, Weight

LEMMA LockStep == LockInv /\ [Next]_vars => LockInv'
<1> SUFFICES ASSUME LockInv, [Next]_vars PROVE LockInv'
  OBVIOUS
<1>0. TypeOK /\ TypeOK'
  BY TypeStep DEF LockInv
<1> USE <1>0 DEF LockInv, TypeOK, Labels, UrbStages, Mutex, Holding, ArmedByHolder,
                 CountInv, Weight
<1> USE DEF transferVars, threadVars, wireVars, countVars, GoTo, Stage
<1>1. ASSUME NEW t \in Threads, Call(t) PROVE LockInv'
  BY <1>1 DEF Call
<1>2. ASSUME NEW t \in Threads, Interrupt(t) PROVE LockInv'
  BY <1>2 DEF Interrupt
<1>3. ASSUME NEW t \in Threads, Begin(t) PROVE LockInv'
  BY <1>3 DEF Begin
<1>4. ASSUME NEW t \in Threads, Arm(t) PROVE LockInv'
  BY <1>4 DEF Arm
<1>5. ASSUME NEW t \in Threads, Send(t) PROVE LockInv'
  BY <1>5 DEF Send
<1>6. ASSUME NEW t \in Threads, SendFail(t) PROVE LockInv'
  BY <1>6 DEF SendFail
<1>7. ASSUME NEW t \in Threads, Wake(t) PROVE LockInv'
  BY <1>7 DEF Wake
<1>8. ASSUME NEW t \in Threads, Timeout(t) PROVE LockInv'
  BY <1>8 DEF Timeout
<1>9. ASSUME NEW t \in Threads, CopyOut(t) PROVE LockInv'
  BY <1>9 DEF CopyOut
<1>10. ASSUME NEW t \in Threads, Finish(t) PROVE LockInv'
  BY <1>10 DEF Finish
<1>11. ASSUME NEW t \in Threads, Collect(t) PROVE LockInv'
  BY <1>11 DEF Collect
<1>12. ASSUME NEW p \in Commands, SendCommand(p) PROVE LockInv'
  BY <1>12 DEF SendCommand
<1>13. CASE Receive
  BY <1>13, SMTT(30) DEF Receive
<1>14. CASE ReceiveError
  BY <1>14 DEF ReceiveError
<1>15. CASE CopyIn
  BY <1>15 DEF CopyIn
<1>16. CASE Disarm
  BY <1>16 DEF Disarm
<1>17. CASE Complete
  BY <1>17 DEF Complete
<1>18. CASE Resubmit
  BY <1>18 DEF Resubmit
<1>19. CASE ResubmitFail
  BY <1>19 DEF ResubmitFail
<1>20. CASE Serve
  BY <1>20 DEF Serve
<1>21. CASE ServeSilently
  BY <1>21 DEF ServeSilently
<1>22. CASE UartData
  BY <1>22 DEF UartData
<1>23. CASE UNCHANGED vars
  BY <1>23 DEF vars
<1> QED
  BY <1>1, <1>2, <1>3, <1>4, <1>5, <1>6, <1>7, <1>8, <1>9, <1>10, <1>11, <1>12,
     <1>13, <1>14, <1>15, <1>16, <1>17, <1>18, <1>19, <1>20, <1>21, <1>22, <1>23
     DEF Next, InTransfer, Handler, Device, Rest

(* current_rx_buf is only set while the holder of i2c_lock is between      *)
(* sending and returning (core.c 380, 396-397).                            *)
THEOREM HolderArms == Spec => []ArmedByHolder
<1>1. LockInv => ArmedByHolder
  BY DEF LockInv
<1> QED BY LockInit, LockStep, <1>1, PTL DEF Spec

(* However many answers come late, i2c_done never holds more than two      *)
(* completions (core.c 379, 103).                                          *)
THEOREM CompletionsBounded == Spec => []CompletionBounded
<1>1. LockInv => CompletionBounded
  BY DEF LockInv, TypeOK, CountInv, Weight, CompletionBounded
<1> QED BY LockInit, LockStep, <1>1, PTL DEF Spec

-----------------------------------------------------------------------------
(* Every answer was produced by executing some call's request.             *)

(* No unlocked command is answered by a packet that completes a wait.      *)
OnlyQuietCommands == \A p \in Commands : Quiet(p)

(* A client that builds its request in transfer_tx_buf, and reads its      *)
(* answer in transfer_rx_buf after the unlock, is the only one.            *)
SoleSpi == \A t, u \in Threads : Client[t] = "SPI" => u = t

(* The packet answers a call whose request was executed.                   *)
Real(p) == p.id \in 1 .. calls /\ runs[p.id] > 0

(* The transmit buffer holds some call's request when it is sent.          *)
TxInv ==
  /\ txbuf.id <= calls
  /\ \A t \in Threads : pc[t] # "idle" => req[t].id \in 1 .. calls
  /\ \A t \in Threads :
       pc[t] \in {"arm", "send"} \/ (Client[t] = "SPI" /\ pc[t] = "lock") => txbuf.id # 0

WireInv ==
  /\ \A i \in 1 .. Len(out) : out[i].id <= calls /\ (out[i].id = 0 => Quiet(out[i]))
  /\ \A i \in 1 .. Len(in) : Completes(in[i]) => Real(in[i])
  /\ urb.stage \in {"copy", "clear", "complete"} => Real(urb.pkt)

AllReal(S) == \A p \in S : Real(p)

(* A completion means that transfer_rx_buf holds an answer, or parts of    *)
(* several.                                                                *)
RxInv ==
  /\ rxbuf = {Blank} \/ AllReal(rxbuf)
  /\ done > 0 \/ urb.stage \in {"clear", "complete"} => AllReal(rxbuf)
  /\ \A t \in Threads : pc[t] \in {"copyout", "collect"} \/ Answered(t) => AllReal(rxbuf)
  /\ \A t \in Threads : Answered(t) => AllReal(got[t])

RealInv == TypeOK /\ TxInv /\ WireInv /\ RxInv

LEMMA JoinType ==
  ASSUME NEW S, NEW s \in Seq(S), NEW r \in Seq(S)
  PROVE  /\ s \o r \in Seq(S) /\ Len(s) \in Nat /\ Len(r) \in Nat /\ Len(s \o r) = Len(s) + Len(r)
         /\ \A i \in 1 .. Len(s \o r) :
              (s \o r)[i] = IF i <= Len(s) THEN s[i] ELSE r[i - Len(s)]
OBVIOUS

LEMMA PushType ==
  ASSUME NEW S, NEW s \in Seq(S), NEW e \in S
  PROVE  /\ Append(s, e) \in Seq(S) /\ Len(s) \in Nat /\ Len(Append(s, e)) = Len(s) + 1
         /\ \A i \in 1 .. Len(s) + 1 : Append(s, e)[i] = IF i <= Len(s) THEN s[i] ELSE e
OBVIOUS

LEMMA ElementType ==
  ASSUME NEW S, NEW s \in Seq(S)
  PROVE  \A i \in 1 .. Len(s) : s[i] \in S
OBVIOUS

LEMMA PacketTypes ==
  ASSUME TypeOK
  PROVE  /\ urb.pkt \in Packets /\ rxbuf \subseteq Packets
         /\ \A t \in Threads : got[t] \subseteq Packets
         /\ \A i \in 1 .. Len(in) : in[i] \in Packets
         /\ \A i \in 1 .. Len(out) : out[i] \in Packets /\ out[i].id \in Nat
<1>1. in \in Seq(Packets) /\ out \in Seq(Packets)
  BY DEF TypeOK
<1>2. /\ urb \in [stage : UrbStages, pkt : Packets] /\ rxbuf \in SUBSET Packets
      /\ got \in [Threads -> SUBSET Packets]
  BY DEF TypeOK
<1>3. /\ urb.pkt \in Packets /\ rxbuf \subseteq Packets
      /\ \A t \in Threads : got[t] \subseteq Packets
  BY <1>2
<1>4. (\A i \in 1 .. Len(in) : in[i] \in Packets) /\ \A i \in 1 .. Len(out) : out[i] \in Packets
  BY <1>1, ElementType
<1>5. \A q \in Packets : q.id \in Nat
  BY DEF Packets
<1> QED BY <1>3, <1>4, <1>5

(* Executing a request and making a call leave real what is.               *)
LEMMA RealStays ==
  ASSUME TypeOK, TypeOK', calls' >= calls, \A i \in 0 .. MaxCalls : runs'[i] >= runs[i],
         NEW p \in Packets, Real(p)
  PROVE  Real(p)'
<1>1. p.id \in 1 .. calls /\ calls \in Nat /\ calls' \in 0 .. MaxCalls
  BY DEF TypeOK, Real, Packets
<1>2. p.id \in 1 .. calls' /\ p.id \in 0 .. MaxCalls
  BY <1>1, BoundsAssumption
<1>3. runs'[p.id] \in Nat /\ runs[p.id] \in Nat /\ runs[p.id] > 0 /\ runs'[p.id] >= runs[p.id]
  BY <1>2 DEF TypeOK, Real
<1> QED BY <1>2, <1>3 DEF Real

LEMMA ExecutedGrows ==
  ASSUME TypeOK, NEW p \in Packets, p.id <= calls, Executed(p)
  PROVE  /\ \A i \in 0 .. MaxCalls : runs'[i] >= runs[i]
         /\ runs'[p.id] > 0
<1>1. p.id \in 0 .. MaxCalls
  BY DEF TypeOK, Packets
<1>2. runs \in [0 .. MaxCalls -> Nat]
  BY DEF TypeOK
<1>3. runs' = [runs EXCEPT ![p.id] = @ + 1]
  BY DEF Executed
<1> QED BY <1>1, <1>2, <1>3

(* The queue of requests after the device took one.                        *)
LEMMA TakenFromOut ==
  ASSUME TypeOK, WireInv, out # <<>>, out' = Tail(out)
  PROVE  /\ Head(out) \in Packets /\ Head(out).id <= calls /\ (Head(out).id = 0 => Quiet(Head(out)))
         /\ \A i \in 1 .. Len(out') : out'[i].id <= calls /\ (out'[i].id = 0 => Quiet(out'[i]))
<1>1. /\ out \in Seq(Packets) /\ Head(out) \in Packets /\ Head(out) = out[1]
      /\ Len(out) \in Nat /\ Len(out) > 0 /\ Len(out') = Len(out) - 1
      /\ \A i \in 1 .. Len(out') : out'[i] = out[i + 1]
  BY DEF TypeOK
<1>2. 1 \in 1 .. Len(out) /\ \A i \in 1 .. Len(out') : i + 1 \in 1 .. Len(out)
  BY <1>1
<1> QED BY <1>1, <1>2 DEF WireInv

LEMMA RealInit == Init => RealInv
<1> SUFFICES ASSUME Init PROVE RealInv
  OBVIOUS
<1>1. TypeOK
  BY TypeInit
<1>2. TxInv
  BY BlankIsPacket DEF Init, TxInv
<1>3. WireInv
  BY DEF Init, WireInv
<1>4. RxInv
  BY DEF Init, RxInv, Answered
<1> QED BY <1>1, <1>2, <1>3, <1>4 DEF RealInv

LEMMA RealServe ==
  ASSUME RealInv, TypeOK', Serve
  PROVE  RealInv'
<1>0. TypeOK /\ TxInv /\ WireInv /\ RxInv
  BY DEF RealInv
<1>1. /\ out # <<>> /\ out' = Tail(out) /\ Executed(Head(out))
      /\ UNCHANGED <<lock, done, armed, txbuf, rxbuf, pc, req, got, result, urb, calls>>
  BY DEF Serve, transferVars, threadVars, countVars
<1>2. PICK r \in Replies(Head(out)) : in' = in \o r
  BY DEF Serve
<1> DEFINE p == Head(out)
<1>3. /\ p \in Packets /\ p.id <= calls /\ (p.id = 0 => Quiet(p))
      /\ \A i \in 1 .. Len(out') : out'[i].id <= calls /\ (out'[i].id = 0 => Quiet(out'[i]))
  BY <1>0, <1>1, TakenFromOut
<1>4. (\A i \in 0 .. MaxCalls : runs'[i] >= runs[i]) /\ runs'[p.id] > 0
  BY <1>0, <1>1, <1>3, ExecutedGrows
<1>5. ASSUME NEW q \in Packets, Real(q) PROVE Real(q)'
  <2>1. calls' >= calls
    BY <1>0, <1>1 DEF TypeOK
  <2> QED BY <1>0, <1>4, <1>5, <2>1, RealStays
<1>6. /\ r \in Seq(Packets)
      /\ \A i \in 1 .. Len(r) : r[i].id = p.id
  BY <1>2, <1>3, RepliesLemma
<1>7. ASSUME NEW i \in 1 .. Len(r), Completes(r[i]) PROVE Real(r[i])'
  <2>1. p.id # 0
    <3>1. i \in DOMAIN r
      BY <1>6
    <3> QED BY <1>2, <1>3, <1>7, <3>1 DEF Quiet
  <2>2. p.id \in 1 .. calls'
    <3>1. calls \in Nat /\ calls' = calls
      BY <1>0, <1>1 DEF TypeOK
    <3>2. p.id \in Nat
      BY <1>3 DEF Packets
    <3> HIDE DEF p
    <3> QED BY <1>3, <2>1, <3>1, <3>2
  <2>3. r[i].id = p.id
    BY <1>6
  <2> QED BY <1>4, <2>2, <2>3 DEF Real
<1>8. ASSUME NEW i \in 1 .. Len(in'), Completes(in'[i]) PROVE Real(in[i])'
  <2>1. /\ in \in Seq(Packets) /\ Len(in) \in Nat /\ Len(r) \in Nat /\ Len(in') = Len(in) + Len(r)
        /\ in'[i] = IF i <= Len(in) THEN in[i] ELSE r[i - Len(in)]
    <3>1. in \in Seq(Packets) /\ i \in 1 .. Len(in \o r)
      BY <1>0, <1>2 DEF TypeOK
    <3> QED BY <1>2, <1>6, <3>1, JoinType
  <2>2. CASE i <= Len(in)
    <3>1. i \in 1 .. Len(in) /\ in'[i] = in[i]
      BY <2>1, <2>2
    <3>2. in[i] \in Packets /\ Real(in[i])
      BY <1>0, <1>8, <2>1, <3>1 DEF WireInv
    <3> QED BY <1>5, <3>1, <3>2 DEF Real
  <2>3. CASE i > Len(in)
    <3>1. i - Len(in) \in 1 .. Len(r) /\ in'[i] = r[i - Len(in)]
      BY <2>1, <2>3
    <3> QED BY <1>7, <1>8, <3>1 DEF Real
  <2> QED BY <2>1, <2>2, <2>3
<1>9. TxInv'
  BY <1>0, <1>1 DEF TxInv
<1>10. WireInv'
  <2>1. urb' = urb /\ urb.pkt \in Packets
    BY <1>0, <1>1 DEF TypeOK
  <2>2. (urb.stage \in {"copy", "clear", "complete"} => Real(urb.pkt))'
    BY <1>0, <1>5, <2>1 DEF WireInv, Real
  <2>3. \A i \in 1 .. Len(out') : out'[i].id <= calls' /\ (out'[i].id = 0 => Quiet(out'[i]))
    BY <1>1, <1>3
  <2> QED BY <1>8, <2>2, <2>3 DEF WireInv
<1>11. RxInv'
  <2>1. rxbuf \subseteq Packets /\ \A t \in Threads : got[t] \subseteq Packets
    BY <1>0, PacketTypes
  <2>2. AllReal(rxbuf) => AllReal(rxbuf)'
    BY <1>1, <1>5, <2>1 DEF Real, AllReal
  <2>3. \A t \in Threads : AllReal(got[t]) => AllReal(got[t])'
    BY <1>1, <1>5, <2>1 DEF Real, AllReal
  <2> QED BY <1>0, <1>1, <2>2, <2>3 DEF RxInv, Answered
<1> QED BY <1>9, <1>10, <1>11 DEF RealInv

LEMMA RealCall ==
  ASSUME RealInv, TypeOK', NEW t \in Threads, Call(t)
  PROVE  RealInv'
<1>0. TypeOK /\ TxInv /\ WireInv /\ RxInv
  BY DEF RealInv
<1>1. /\ calls' = calls + 1 /\ calls \in Nat
      /\ req' = [req EXCEPT ![t] = Request(Client[t], calls + 1)]
      /\ txbuf' = IF Client[t] = "SPI" THEN Request("SPI", calls + 1) ELSE txbuf
      /\ result' = [result EXCEPT ![t] = "pending"]
      /\ pc' = [pc EXCEPT ![t] = "lock"]
      /\ UNCHANGED <<lock, done, armed, rxbuf, got, out, in, runs, urb>>
  BY <1>0 DEF Call, GoTo, wireVars, TypeOK
<1>2. Client[t] \in Clients /\ "SPI" \in Clients /\ calls + 1 \in Nat
  BY <1>1 DEF Clients
<1>3. Request(Client[t], calls + 1).id = calls + 1 /\ Request("SPI", calls + 1).id = calls + 1
  BY <1>2, RequestIsPacket
<1>4. ASSUME NEW q \in Packets, Real(q) PROVE Real(q)'
  BY <1>1, <1>4 DEF Real
<1>5. TxInv'
  <2>1. txbuf'.id <= calls + 1 /\ (Client[t] = "SPI" => txbuf'.id = calls + 1)
        /\ (Client[t] # "SPI" => txbuf' = txbuf)
    <3>1. txbuf.id \in Nat /\ txbuf.id <= calls
      BY <1>0 DEF TxInv, TypeOK, Packets
    <3> QED BY <1>1, <1>3, <3>1
  <2>2. \A u \in Threads : pc'[u] # "idle" => req'[u].id \in 1 .. calls'
    <3>1. req \in [Threads -> Packets] /\ pc \in [Threads -> Labels]
      BY <1>0 DEF TypeOK
    <3> QED BY <1>0, <1>1, <1>3, <3>1 DEF TxInv
  <2>3. pc \in [Threads -> Labels]
    BY <1>0 DEF TypeOK
  <2>4. ASSUME NEW u \in Threads, pc'[u] \in {"arm", "send"} \/ (Client[u] = "SPI" /\ pc'[u] = "lock")
        PROVE  txbuf'.id # 0
    <3>1. CASE Client[t] = "SPI"
      BY <1>1, <2>1, <3>1
    <3>2. CASE Client[t] # "SPI"
      <4>1. u # t /\ pc'[u] = pc[u]
        BY <1>1, <2>3, <2>4, <3>2
      <4> QED BY <1>0, <2>1, <2>4, <3>2, <4>1 DEF TxInv
    <3> QED BY <3>1, <3>2
  <2> QED BY <1>1, <2>1, <2>2, <2>4 DEF TxInv
<1>6. WireInv'
  <2>1. \A i \in 1 .. Len(out) : out[i].id <= calls + 1 /\ (out[i].id = 0 => Quiet(out[i]))
    <3>1. \A i \in 1 .. Len(out) : out[i].id \in Nat
      BY <1>0, PacketTypes
    <3> QED BY <1>0, <1>1, <3>1 DEF WireInv
  <2>2. ASSUME NEW i \in 1 .. Len(in), Completes(in[i]) PROVE Real(in[i])'
    <3>1. in[i] \in Packets /\ Real(in[i])
      BY <1>0, <2>2, PacketTypes DEF WireInv
    <3> QED BY <1>1, <1>4, <3>1 DEF Real
  <2>3. urb.stage \in {"copy", "clear", "complete"} => Real(urb.pkt)'
    <3>1. urb.pkt \in Packets
      BY <1>0, PacketTypes
    <3> QED BY <1>0, <1>1, <1>4, <3>1 DEF WireInv, Real
  <2> QED BY <1>1, <2>1, <2>2, <2>3 DEF WireInv
<1>7. RxInv'
  <2>1. rxbuf \subseteq Packets /\ \A u \in Threads : got[u] \subseteq Packets
    BY <1>0, PacketTypes
  <2>2. pc \in [Threads -> Labels] /\ result \in [Threads -> Results]
    BY <1>0 DEF TypeOK
  <2>3. AllReal(rxbuf) => AllReal(rxbuf)'
    BY <1>1, <1>4, <2>1 DEF Real, AllReal
  <2>4. \A u \in Threads : AllReal(got[u]) => AllReal(got[u])'
    BY <1>1, <1>4, <2>1 DEF Real, AllReal
  <2> QED BY <1>0, <1>1, <2>2, <2>3, <2>4 DEF RxInv, Answered
<1> QED BY <1>5, <1>6, <1>7 DEF RealInv

LEMMA RealStep ==
  ASSUME OnlyQuietCommands, RealInv, [Next]_vars
  PROVE  RealInv'
<1>0. TypeOK /\ TypeOK' /\ TxInv /\ WireInv /\ RxInv
  BY TypeStep DEF RealInv
<1>p. TxInv' /\ WireInv' /\ RxInv' => RealInv'
  BY <1>0 DEF RealInv
<1>t. /\ pc \in [Threads -> Labels] /\ result \in [Threads -> Results]
      /\ got \in [Threads -> SUBSET Packets]
  BY <1>0 DEF TypeOK
<1> USE DEF transferVars, threadVars, wireVars, countVars, GoTo, Stage
(* A thread moves on and touches neither the packets nor its outcome.      *)
<1>a. ASSUME UNCHANGED <<out, in, runs, urb, calls>> PROVE WireInv'
  BY <1>0, <1>a DEF WireInv, Real
<1>b. ASSUME UNCHANGED <<runs, calls, rxbuf, got, result, pc>>, urb' = urb, done' = done PROVE RxInv'
  BY <1>0, <1>b DEF RxInv, AllReal, Real, Answered
<1>c. ASSUME UNCHANGED <<txbuf, calls, pc, req>> PROVE TxInv'
  BY <1>0, <1>c DEF TxInv
<1>1. ASSUME NEW t \in Threads, Call(t) PROVE RealInv'
  BY <1>0, <1>1, RealCall
<1>2. ASSUME NEW t \in Threads, Interrupt(t) PROVE RealInv'
  <2>1. TxInv'
    BY <1>0, <1>t, <1>2 DEF Interrupt, TxInv
  <2>2. RxInv'
    BY <1>0, <1>t, <1>2 DEF Interrupt, RxInv, AllReal, Real, Answered
  <2> QED BY <1>p, <1>a, <1>2, <2>1, <2>2 DEF Interrupt
<1>3. ASSUME NEW t \in Threads, Begin(t) PROVE RealInv'
  <2>1. TxInv'
    <3>1. /\ pc[t] = "lock" /\ pc' = [pc EXCEPT ![t] = "arm"]
          /\ txbuf' = IF Client[t] = "SPI" THEN txbuf ELSE req[t]
          /\ UNCHANGED <<req, calls>>
      BY <1>3 DEF Begin
    <3>2. req[t].id \in 1 .. calls /\ calls \in Nat
      BY <1>0, <3>1 DEF TxInv, TypeOK
    <3>3. txbuf'.id <= calls /\ txbuf'.id # 0
      BY <1>0, <3>1, <3>2 DEF TxInv
    <3> QED BY <1>0, <1>t, <3>1, <3>3 DEF TxInv
  <2>2. RxInv'
    BY <1>0, <1>t, <1>3 DEF Begin, RxInv, AllReal, Real, Answered
  <2> QED BY <1>p, <1>a, <1>3, <2>1, <2>2 DEF Begin
<1>4. ASSUME NEW t \in Threads, Arm(t) PROVE RealInv'
  BY <1>0, <1>p, <1>t, <1>a, <1>4 DEF Arm, TxInv, RxInv, AllReal, Real, Answered
<1>5. ASSUME NEW t \in Threads, Send(t) PROVE RealInv'
  <2>1. TxInv' /\ RxInv'
    BY <1>0, <1>t, <1>5 DEF Send, TxInv, RxInv, AllReal, Real, Answered
  <2>2. out' = Append(out, txbuf) /\ pc[t] = "send" /\ txbuf.id <= calls /\ txbuf.id # 0
    <3>1. out' = Append(out, txbuf) /\ pc[t] = "send"
      BY <1>5 DEF Send
    <3> QED BY <1>0, <3>1 DEF TxInv
  <2>3. /\ Len(out') = Len(out) + 1 /\ Len(out) \in Nat
        /\ \A i \in 1 .. Len(out) + 1 : out'[i] = IF i <= Len(out) THEN out[i] ELSE txbuf
    <3>1. out \in Seq(Packets) /\ txbuf \in Packets
      BY <1>0 DEF TypeOK
    <3> QED BY <2>2, <3>1, PushType
  <2>4. WireInv'
    BY <1>0, <1>5, <2>2, <2>3 DEF Send, WireInv, Real
  <2> QED BY <1>p, <2>1, <2>4
<1>6. ASSUME NEW t \in Threads, SendFail(t) PROVE RealInv'
  BY <1>0, <1>p, <1>t, <1>a, <1>6 DEF SendFail, Failure, TxInv, RxInv, AllReal, Real, Answered
<1>7. ASSUME NEW t \in Threads, Wake(t) PROVE RealInv'
  <2>1. done \in Nat
    BY <1>0 DEF TypeOK
  <2> QED BY <1>0, <1>p, <1>t, <1>a, <1>7, <2>1 DEF Wake, TxInv, RxInv, AllReal, Real, Answered
<1>8. ASSUME NEW t \in Threads, Timeout(t) PROVE RealInv'
  BY <1>0, <1>p, <1>t, <1>a, <1>8 DEF Timeout, Failure, TxInv, RxInv, AllReal, Real, Answered
<1>r. ASSUME NEW t \in Threads, pc[t] = "copyout" \/ Answered(t) PROVE AllReal(Readable)
  <2>1. AllReal(rxbuf)
    BY <1>0, <1>r DEF RxInv
  <2>2. urb.stage = "copy" => Real(urb.pkt)
    BY <1>0 DEF WireInv
  <2> QED BY <2>1, <2>2 DEF Readable, AllReal
<1>9. ASSUME NEW t \in Threads, CopyOut(t) PROVE RealInv'
  <2>1. AllReal(Readable) /\ AllReal(rxbuf)
    BY <1>0, <1>9, <1>r DEF CopyOut, RxInv
  <2>2. /\ got' = [got EXCEPT ![t] = Readable] /\ rxbuf' \in {Readable, rxbuf}
        /\ \A u \in Threads \ {t} : result'[u] = result[u]
        /\ UNCHANGED <<runs, calls>>
    BY <1>9 DEF CopyOut
  <2>3. \A S : AllReal(S) => AllReal(S)'
    BY <2>2 DEF AllReal, Real
  <2>4. AllReal(rxbuf') /\ AllReal(Readable)
    BY <2>1, <2>2
  <2>5. AllReal(rxbuf)'
    BY <2>2, <2>4 DEF AllReal, Real
  <2>6. \A u \in Threads : Answered(u)' => AllReal(got[u])'
    <3>1. ASSUME NEW u \in Threads, u # t, Answered(u)' PROVE AllReal(got[u])'
      BY <1>0, <1>t, <2>2, <3>1 DEF RxInv, Answered, AllReal, Real
    <3>2. AllReal(got[t])'
      BY <1>t, <2>1, <2>2 DEF AllReal, Real
    <3> QED BY <3>1, <3>2
  <2>7. RxInv'
    BY <2>5, <2>6 DEF RxInv
  <2>8. TxInv'
    BY <1>0, <1>t, <1>9 DEF CopyOut, TxInv
  <2> QED BY <1>p, <1>a, <1>9, <2>7, <2>8 DEF CopyOut
<1>10. ASSUME NEW t \in Threads, Finish(t) PROVE RealInv'
  BY <1>0, <1>p, <1>t, <1>a, <1>10 DEF Finish, TxInv, RxInv, AllReal, Real, Answered
<1>11. ASSUME NEW t \in Threads, Collect(t) PROVE RealInv'
  <2>1. Answered(t) => AllReal(Readable)
    BY <1>r
  <2>2. /\ got' = [got EXCEPT ![t] = Readable]
        /\ UNCHANGED <<runs, calls, rxbuf, result, done, urb>>
        /\ \A u \in Threads : pc'[u] = "copyout" => pc[u] = "copyout"
    BY <1>t, <1>11 DEF Collect
  <2>3. \A u \in Threads : Answered(u)' => AllReal(got[u])'
    <3>1. ASSUME NEW u \in Threads, u # t, Answered(u) PROVE AllReal(got[u])'
      BY <1>0, <1>t, <2>2, <3>1 DEF RxInv, AllReal, Real
    <3>2. Answered(t) => AllReal(got[t])'
      BY <1>t, <2>1, <2>2 DEF AllReal, Real
    <3> QED BY <2>2, <3>1, <3>2 DEF Answered
  <2>4. RxInv'
    <3>1. \A u \in Threads : pc'[u] \in {"copyout", "collect"} => pc[u] \in {"copyout", "collect"}
      BY <1>t, <1>11 DEF Collect
    <3>2. \A u \in Threads : Answered(u)' <=> Answered(u)
      BY <2>2 DEF Answered
    <3>3. AllReal(rxbuf) => AllReal(rxbuf)'
      BY <2>2 DEF AllReal, Real
    <3> QED BY <1>0, <2>2, <2>3, <3>1, <3>2, <3>3 DEF RxInv
  <2>5. TxInv'
    BY <1>0, <1>t, <1>11 DEF Collect, TxInv
  <2> QED BY <1>p, <1>a, <1>11, <2>4, <2>5 DEF Collect
<1>12. ASSUME NEW p \in Commands, SendCommand(p) PROVE RealInv'
  <2>1. p \in Packets /\ p.id = 0 /\ Quiet(p) /\ out' = Append(out, p) /\ 0 <= calls
    BY <1>0, <1>12, CommandIsPacket DEF SendCommand, OnlyQuietCommands, TypeOK
  <2>2. /\ Len(out') = Len(out) + 1 /\ Len(out) \in Nat
        /\ \A i \in 1 .. Len(out) + 1 : out'[i] = IF i <= Len(out) THEN out[i] ELSE p
    <3>1. out \in Seq(Packets)
      BY <1>0 DEF TypeOK
    <3> QED BY <2>1, <3>1, PushType
  <2>3. WireInv'
    BY <1>0, <1>12, <2>1, <2>2 DEF SendCommand, WireInv, Real
  <2> QED BY <1>p, <1>b, <1>c, <1>12, <2>3 DEF SendCommand
<1>13. ASSUME in # <<>>, in' = Tail(in)
       PROVE  /\ \A i \in 1 .. Len(in') : Completes(in'[i]) => Real(in'[i])
              /\ Completes(Head(in)) => Real(Head(in))
  <2>1. /\ Len(in) \in Nat /\ Len(in) > 0 /\ Len(in') = Len(in) - 1 /\ Head(in) = in[1]
        /\ \A i \in 1 .. Len(in') : in'[i] = in[i + 1]
    <3>1. in \in Seq(Packets)
      BY <1>0 DEF TypeOK
    <3> QED BY <1>13, <3>1
  <2>2. 1 \in 1 .. Len(in) /\ \A i \in 1 .. Len(in') : i + 1 \in 1 .. Len(in)
    BY <2>1
  <2> QED BY <1>0, <2>1, <2>2 DEF WireInv
<1>14. CASE Receive
  <2>1. WireInv'
    BY <1>0, <1>13, <1>14 DEF Receive, WireInv, Real
  <2>2. RxInv'
    BY <1>0, <1>14 DEF Receive, RxInv, AllReal, Real, Answered
  <2> QED BY <1>p, <1>c, <1>14, <2>1, <2>2 DEF Receive
<1>15. CASE ReceiveError
  <2>1. WireInv'
    BY <1>0, <1>13, <1>15 DEF ReceiveError, WireInv, Real
  <2>2. RxInv'
    BY <1>0, <1>15 DEF ReceiveError, RxInv, AllReal, Real, Answered
  <2> QED BY <1>p, <1>c, <1>15, <2>1, <2>2 DEF ReceiveError
<1>16. CASE CopyIn
  <2>1. Real(urb.pkt) /\ urb.pkt # Blank
    BY <1>0, <1>16, BlankIsPacket DEF CopyIn, WireInv, Real
  <2>2. CASE rxbuf' = {urb.pkt}
    BY <1>0, <1>p, <1>c, <1>16, <2>1, <2>2 DEF CopyIn, WireInv, RxInv, AllReal, Real, Answered
  <2>3. CASE rxbuf' = rxbuf \cup {urb.pkt} /\ urb.pkt \in rxbuf
    <3>1. AllReal(rxbuf) /\ rxbuf' = rxbuf
      BY <1>0, <2>1, <2>3 DEF RxInv
    <3> QED
      BY <1>0, <1>p, <1>c, <1>16, <3>1 DEF CopyIn, WireInv, RxInv, AllReal, Real, Answered
  <2>4. ASSUME rxbuf' = rxbuf \cup {urb.pkt}, NEW t \in Threads, pc[t] \in {"copyout", "collect"}
        PROVE  RealInv'
    <3>1. AllReal(rxbuf)
      BY <1>0, <2>4 DEF RxInv
    <3> QED
      BY <1>0, <1>p, <1>c, <1>16, <2>1, <2>4, <3>1
         DEF CopyIn, WireInv, RxInv, AllReal, Real, Answered
  <2> QED BY <1>16, <2>2, <2>3, <2>4 DEF CopyIn
<1>17. CASE Disarm
  BY <1>0, <1>p, <1>c, <1>17 DEF Disarm, WireInv, RxInv, AllReal, Real, Answered
<1>18. CASE Complete
  BY <1>0, <1>p, <1>c, <1>18 DEF Complete, WireInv, RxInv, AllReal, Real, Answered
<1>19. CASE Resubmit
  BY <1>0, <1>p, <1>c, <1>19 DEF Resubmit, WireInv, RxInv, AllReal, Real, Answered
<1>20. CASE ResubmitFail
  BY <1>0, <1>p, <1>c, <1>20 DEF ResubmitFail, WireInv, RxInv, AllReal, Real, Answered
<1>21. CASE Serve
  BY <1>0, <1>21, RealServe
<1>22. CASE ServeSilently
  <2>1. /\ Head(out) \in Packets /\ Head(out).id <= calls
        /\ \A i \in 1 .. Len(out') : out'[i].id <= calls /\ (out'[i].id = 0 => Quiet(out'[i]))
    BY <1>0, <1>22, TakenFromOut DEF ServeSilently
  <2>2. \A i \in 0 .. MaxCalls : runs'[i] >= runs[i]
    BY <1>0, <1>22, <2>1, ExecutedGrows DEF ServeSilently
  <2>3. ASSUME NEW q \in Packets, Real(q) PROVE Real(q)'
    <3>1. calls' >= calls
      BY <1>0, <1>22 DEF ServeSilently, TypeOK
    <3> QED BY <1>0, <2>2, <2>3, <3>1, RealStays
  <2>4. rxbuf \subseteq Packets /\ urb.pkt \in Packets /\ \A i \in 1 .. Len(in) : in[i] \in Packets
    BY <1>0, PacketTypes
  <2>5. WireInv'
    BY <1>0, <1>22, <2>1, <2>3, <2>4 DEF ServeSilently, WireInv, Real
  <2>6. RxInv'
    BY <1>0, <1>t, <1>22, <2>3, <2>4 DEF ServeSilently, RxInv, AllReal, Real, Answered
  <2> QED BY <1>p, <1>c, <1>22, <2>5, <2>6 DEF ServeSilently
<1>23. CASE UartData
  <2> DEFINE u == Packet("UART", "RESP", 0)
  <2>1. u \in Packets /\ ~Completes(u) /\ in' = Append(in, u)
    BY <1>23 DEF UartData, Packet, Packets, Ifaces, CmdTypes, Completes
  <2> HIDE DEF u
  <2>2. /\ Len(in') = Len(in) + 1 /\ Len(in) \in Nat
        /\ \A i \in 1 .. Len(in) + 1 : in'[i] = IF i <= Len(in) THEN in[i] ELSE u
    <3>1. in \in Seq(Packets)
      BY <1>0 DEF TypeOK
    <3> QED BY <2>1, <3>1, PushType
  <2>3. WireInv'
    BY <1>0, <1>23, <2>1, <2>2 DEF UartData, WireInv, Real
  <2> QED BY <1>p, <1>b, <1>c, <1>23, <2>3 DEF UartData
<1>24. CASE UNCHANGED vars
  BY <1>p, <1>a, <1>b, <1>c, <1>24 DEF vars
<1> QED
  BY <1>1, <1>2, <1>3, <1>4, <1>5, <1>6, <1>7, <1>8, <1>9, <1>10, <1>11, <1>12,
     <1>14, <1>15, <1>16, <1>17, <1>18, <1>19, <1>20, <1>21, <1>22, <1>23, <1>24
     DEF Next, InTransfer, Handler, Device, Rest

(* However late the answers are, whichever call they are given to and      *)
(* however the copies of transfer_rx_buf overlap: every packet of which a  *)
(* driver reads a part as its answer was produced by executing the request *)
(* of a call, when no unlocked command is answered by a packet that        *)
(* completes a wait, and nobody overwrites SPI data while it is sent, so   *)
(* that every request on the wire is one that a caller built (core.c       *)
(* 87-105, 379-394).                                                       *)
THEOREM AnswersAreReal == ASSUME OnlyQuietCommands, SoleSpi PROVE Spec => []RealAnswer
<1>1. RealInv => RealAnswer
  BY DEF RealInv, RxInv, AllReal, Real, RealAnswer
<1>2. RealInv /\ [Next]_vars => RealInv'
  BY RealStep
<1> QED BY RealInit, <1>1, <1>2, PTL DEF Spec

-----------------------------------------------------------------------------
(* When answers are not late.                                              *)

NoSpiData == \A t \in Threads : Client[t] # "SPI"

(* The device answers within the time waited or not at all, nobody shares  *)
(* the buffers with SPI data, and no unlocked command is answered by a     *)
(* packet that completes a wait.                                           *)
Timely == LateReplies = FALSE /\ SoleSpi /\ OnlyQuietCommands

-----------------------------------------------------------------------------
(* Where the answer to the call in progress is: its request is with the    *)
(* device, its answer is in flight, in the handler, or counted in i2c_done.*)

InOut == \E i \in 1 .. Len(out) : out[i].id # 0
InFlight == urb.stage # "dead" /\ \E i \in 1 .. Len(in) : Completes(in[i])
InHandler == urb.stage \in {"copy", "clear", "complete"}
InDone == done > 0

Answers(p, t) == p.id = req[t].id /\ p.iface = req[t].iface /\ p.type = "RESP"

(* No copies overlap: transfer_rx_buf holds one packet.                    *)
Whole == \E q : rxbuf = {q}
BufferAnswers(t) == \A q \in rxbuf : Answers(q, t)

LEMMA WholeStays ==
  ASSUME Whole, rxbuf' = rxbuf
  PROVE  Whole'
BY DEF Whole

(* At any time the call in progress is in at most one of these places, and *)
(* in at most one position of it.                                          *)
Alone ==
  /\ InOut => ~InFlight /\ ~InHandler /\ ~InDone
  /\ InFlight => ~InHandler /\ ~InDone
  /\ InHandler => ~InDone
  /\ done <= 1
  /\ \A i, j \in 1 .. Len(out) : out[i].id # 0 /\ out[j].id # 0 => i = j
  /\ urb.stage # "dead" =>
       \A i, j \in 1 .. Len(in) : Completes(in[i]) /\ Completes(in[j]) => i = j

(* It is in one of them only while the holder of i2c_lock waits for it.    *)
Awaited == InOut \/ InFlight \/ InHandler \/ InDone => \E t \in Threads : pc[t] = "wait"

(* What is found there belongs to the waiting call.                        *)
Own(t) ==
  /\ \A i \in 1 .. Len(out) : out[i].id # 0 => out[i] = req[t]
  /\ urb.stage # "dead" => \A i \in 1 .. Len(in) : Completes(in[i]) => Answers(in[i], t)
  /\ InHandler => Answers(urb.pkt, t)
  /\ urb.stage \in {"clear", "complete"} \/ InDone => BufferAnswers(t)

(* From the wake-up on, transfer_rx_buf is t's; from the request's being   *)
(* built there until it is sent, transfer_tx_buf is.                       *)
Reads(t) == pc[t] \in {"copyout", "collect"} \/ (pc[t] = "finish" /\ Answered(t))
Building(t) == pc[t] \in {"arm", "send"} \/ (pc[t] = "lock" /\ Client[t] = "SPI")

OwnInv ==
  \A t \in Threads :
    /\ pc[t] = "wait" => Own(t)
    /\ Reads(t) => BufferAnswers(t)
    /\ Building(t) => txbuf = req[t]
    /\ pc[t] # "idle" => /\ req[t].id # 0
                         /\ req[t] = Request(Client[t], req[t].id)
    /\ pc[t] = "collect" => Client[t] = "SPI"

CommandInv == \A i \in 1 .. Len(out) : out[i].id = 0 => out[i] \in Commands

(* Without a fault the call is somewhere, and the buffer armed for it.     *)
(* (SPI data for a bus that was not configured is never answered.)         *)
FaultInv ==
  faults = 0 /\ NoSpiData =>
    /\ urb.stage # "dead"
    /\ \A t \in Threads :
         /\ pc[t] = "wait" => InOut \/ InFlight \/ InHandler \/ InDone
         /\ pc[t] = "send" => armed
         /\ pc[t] = "wait" /\ (InOut \/ InFlight) => armed

ExchangeInv ==
  LockInv /\ Alone /\ Awaited /\ Whole /\ OwnInv /\ CommandInv /\ FaultInv
          /\ MatchedReply /\ (NoSpiData => ErrorsHaveCause)

(* The firmware answers a client with one RESP of the same interface, or   *)
(* SPI data with nothing (main.c 94-116, 140-153, the handlers).           *)
LEMMA AnswerLemma ==
  ASSUME NEW c \in Clients, NEW n \in Nat \ {0},
         NEW r \in Replies(Request(c, n))
  PROVE  /\ c # "SPI" => \E i \in 1 .. Len(r) : Completes(r[i])
         /\ \A i \in 1 .. Len(r) :
              Completes(r[i]) => r[i].iface = Request(c, n).iface /\ r[i].type = "RESP"
<1> DEFINE q == Request(c, n)  yes == Resp(q, TRUE)  no == Resp(q, FALSE)  log == Log(q)
<1>1. /\ q.id # 0 /\ q.iface \in {"GPIO", "I2C", "ADC", "SPI"}
      /\ <<q.iface, q.type>> \in {<<"GPIO", "READ">>, <<"I2C", "DATA">>, <<"ADC", "READ">>,
                                  <<"SPI", "DATA">>, <<"SPI", "CONFIG">>}
      /\ c # "SPI" => <<q.iface, q.type>> # <<"SPI", "DATA">>
  BY DEF Request, Packet, Clients
<1>2. r \in {<<yes>>, <<no>>, <<log, yes>>, <<log, no>>} \/ (r = <<>> /\ c = "SPI")
  BY <1>1 DEF Replies, Logged, Unanswered, Confirmed, Refused, Ifaces
<1>3. /\ Completes(yes) /\ yes.iface = q.iface /\ yes.type = "RESP"
      /\ Completes(no) /\ no.iface = q.iface /\ no.type = "RESP"
      /\ ~Completes(log)
  BY <1>1 DEF Completes, Resp, Log
<1> HIDE DEF q, yes, no, log
<1>9. CASE r = <<>> /\ c = "SPI"
  BY <1>9
<1>4. CASE r = <<yes>>
  BY <1>3, <1>4 DEF q
<1>5. CASE r = <<no>>
  BY <1>3, <1>5 DEF q
<1>6. CASE r = <<log, yes>>
  <2>1. Completes(r[2])
    BY <1>3, <1>6
  <2> QED BY <1>3, <1>6, <2>1 DEF q
<1>7. CASE r = <<log, no>>
  <2>1. Completes(r[2])
    BY <1>3, <1>7
  <2> QED BY <1>3, <1>7, <2>1 DEF q
<1> QED
  BY <1>2, <1>4, <1>5, <1>6, <1>7, <1>9


(* Nobody reads transfer_rx_buf while the handler stores a packet there.   *)
LEMMA NoReader ==
  ASSUME Timely, ExchangeInv, urb.stage = "copy", NEW t \in Threads
  PROVE  pc[t] \notin {"copyout", "collect"}
<1>1. PICK u \in Threads : pc[u] = "wait"
  BY DEF ExchangeInv, Awaited, InHandler
<1>2. pc[t] # "copyout"
  BY <1>1 DEF ExchangeInv, LockInv, Mutex, Holding
<1>3. pc[t] # "collect"
  BY <1>1 DEF ExchangeInv, OwnInv, Timely, SoleSpi
<1> QED BY <1>2, <1>3

(* What a thread reads there is the one packet stored last, and it is the  *)
(* thread's answer.                                                        *)
LEMMA ReadsWhole ==
  ASSUME Timely, ExchangeInv, NEW t \in Threads, pc[t] \in {"copyout", "collect"}
  PROVE  /\ Readable = rxbuf
         /\ \E q : rxbuf = {q} /\ Answers(q, t)
<1>1. urb.stage # "copy"
  BY NoReader
<1>2. Readable = rxbuf
  BY <1>1 DEF Readable
<1>3. PICK q : rxbuf = {q}
  BY DEF ExchangeInv, Whole
<1>4. Answers(q, t)
  BY <1>3 DEF ExchangeInv, OwnInv, Reads, BufferAnswers
<1> QED BY <1>2, <1>3, <1>4

LEMMA CallStep ==
  ASSUME Timely, ExchangeInv, LockInv', NEW t \in Threads, Call(t)
  PROVE  ExchangeInv'
<1> DEFINE q == Request(Client[t], calls + 1)
<1>1. Client[t] \in Clients /\ calls + 1 \in Nat /\ calls + 1 # 0
  BY ClientAssumption, BoundsAssumption DEF ExchangeInv, LockInv, TypeOK
<1>2. q \in Packets /\ q.id = calls + 1
  BY <1>1, RequestIsPacket
<1>3. req' = [req EXCEPT ![t] = q] /\ q.id # 0 /\ q = Request(Client[t], q.id)
  BY <1>1, <1>2 DEF Call
<1> HIDE DEF q
<1> USE DEF ExchangeInv, LockInv, TypeOK, Call, GoTo, transferVars, wireVars
<1>4. Alone' /\ Awaited' /\ CommandInv'
  BY DEF Alone, Awaited, CommandInv, InOut, InFlight, InHandler, InDone
<1>5. OwnInv'
  <2>1. /\ pc' = [pc EXCEPT ![t] = "lock"] /\ result' = [result EXCEPT ![t] = "pending"]
        /\ UNCHANGED <<out, in, rxbuf, urb, done>>
        /\ txbuf' = IF Client[t] = "SPI" THEN Request("SPI", calls + 1) ELSE txbuf
    OBVIOUS
  <2>2. ASSUME NEW u \in Threads, u # t
        PROVE  /\ pc'[u] = pc[u] /\ req'[u] = req[u] /\ txbuf' = txbuf
               /\ (Reads(u)' <=> Reads(u)) /\ (Building(u)' <=> Building(u))
               /\ (Own(u)' <=> Own(u)) /\ (BufferAnswers(u)' <=> BufferAnswers(u))
    <3>1. pc'[u] = pc[u] /\ req'[u] = req[u] /\ result'[u] = result[u] /\ txbuf' = txbuf
      BY <1>3, <2>1, <2>2 DEF Timely, SoleSpi
    <3> QED
      BY <2>1, <3>1 DEF Reads, Building, Answered, Own, Answers, BufferAnswers, InHandler, InDone
  <2>3. /\ pc'[t] = "lock" /\ req'[t] = q
        /\ Client[t] = "SPI" => txbuf' = q
    BY <1>3, <2>1 DEF q
  <2>4. ~ Reads(t)' /\ (Building(t)' => txbuf' = req'[t])
    BY <2>3 DEF Reads, Building
  <2> QED
    BY <1>3, <2>2, <2>3, <2>4 DEF OwnInv
<1>6. FaultInv'
  BY DEF FaultInv, InOut, InFlight, InHandler, InDone
<1>7. MatchedReply' /\ (NoSpiData => ErrorsHaveCause')
  BY DEF MatchedReply, ErrorsHaveCause, Answered
<1>8. Whole'
  BY DEF Whole
<1> QED BY <1>4, <1>5, <1>6, <1>7, <1>8

LEMMA CopyOutStep ==
  ASSUME Timely, ExchangeInv, LockInv', NEW t \in Threads, CopyOut(t)
  PROVE  ExchangeInv'
<1>0. /\ pc \in [Threads -> Labels] /\ result \in [Threads -> Results]
      /\ got \in [Threads -> (SUBSET Packets) \ {{}}] /\ pc[t] = "copyout"
  BY DEF ExchangeInv, LockInv, TypeOK, CopyOut
<1>1. Readable = rxbuf
  BY <1>0, ReadsWhole
<1>2. PICK q : rxbuf = {q} /\ Answers(q, t)
  BY <1>0, ReadsWhole
<1>3. /\ pc'[t] = "finish" /\ got'[t] = rxbuf /\ result'[t] \in Readings(Client[t], rxbuf)
      /\ \A u \in Threads \ {t} : pc'[u] = pc[u] /\ got'[u] = got[u] /\ result'[u] = result[u]
      /\ UNCHANGED <<lock, done, armed, txbuf, rxbuf, req, out, in, urb, faults>>
  BY <1>0, <1>1 DEF CopyOut, GoTo, wireVars, countVars
<1>4. result'[t] \notin {"error", "fallback"}
  <2>1. req[t] = Request(Client[t], req[t].id) /\ Client[t] \in Clients
    BY <1>0 DEF ExchangeInv, OwnInv
  <2>2. Client[t] = "GPIO" => req[t].iface = "GPIO"
    BY <2>1 DEF Request, Packet
  <2>3. PICK x, y, z \in rxbuf :
          result'[t] = Reading(Client[t], [iface |-> x.iface, type |-> y.type, id |-> 0, ok |-> z.ok])
    <3>1. PICK o \in Readings(Client[t], rxbuf) : result'[t] = o
      BY <1>3
    <3>2. \E x, y, z \in rxbuf :
            o = Reading(Client[t], [iface |-> x.iface, type |-> y.type, id |-> 0, ok |-> z.ok])
      <4>1. PICK c \in Clients : c = Client[t]
        BY <2>1
      <4>2. o \in Readings(c, rxbuf)
        BY <3>1, <4>1
      <4>3. \E x, y, z \in rxbuf :
              o = Reading(c, [iface |-> x.iface, type |-> y.type, id |-> 0, ok |-> z.ok])
        <5>1. \A r \in Readings(c, rxbuf) :
                \E p, y, x \in rxbuf :
                  r = Reading(c, [iface |-> p.iface, type |-> y.type, id |-> 0, ok |-> x.ok])
          BY ReadingsLemma
        <5> QED BY <4>2, <5>1
      <4> QED BY <4>1, <4>3
    <3> QED BY <3>1, <3>2
  <2>4. x = q /\ y = q
    BY <1>2
  <2>5. x.iface = req[t].iface /\ y.type = "RESP"
    BY <1>2, <2>4 DEF Answers
  <2> QED BY <2>2, <2>3, <2>5 DEF Reading
<1>5. /\ InOut' <=> InOut
      /\ InFlight' <=> InFlight
      /\ InHandler' <=> InHandler
      /\ InDone' <=> InDone
  BY <1>3 DEF InOut, InFlight, InHandler, InDone
<1>6. \A u \in Threads : /\ pc'[u] # "idle" => pc[u] # "idle"
                         /\ pc'[u] = "wait" <=> pc[u] = "wait"
                         /\ pc'[u] = "send" <=> pc[u] = "send"
                         /\ pc'[u] = "collect" <=> pc[u] = "collect"
  BY <1>0, <1>3
<1>7. Alone' /\ Awaited' /\ CommandInv' /\ Whole'
  BY <1>3, <1>5, <1>6 DEF ExchangeInv, Alone, Awaited, CommandInv, Whole
<1>8. OwnInv'
  <2>1. \A u \in Threads : Own(u) => Own(u)'
    BY <1>3, <1>5 DEF Own, Answers, BufferAnswers
  <2>2. \A u \in Threads \ {t} : (Reads(u)' => Reads(u)) /\ (Building(u)' => Building(u))
    BY <1>3 DEF Reads, Building, Answered
  <2>3. ~ Building(t)' /\ BufferAnswers(t)'
    BY <1>2, <1>3 DEF Building, Answers, BufferAnswers
  <2>4. \A u \in Threads : BufferAnswers(u)' <=> BufferAnswers(u)
    BY <1>3 DEF BufferAnswers, Answers
  <2> QED BY <1>3, <1>6, <2>1, <2>2, <2>3, <2>4 DEF ExchangeInv, OwnInv
<1>9. FaultInv'
  BY <1>3, <1>5, <1>6 DEF ExchangeInv, FaultInv
<1>10. MatchedReply'
  BY <1>2, <1>3 DEF ExchangeInv, MatchedReply, Answered, Answers
<1>11. NoSpiData => ErrorsHaveCause'
  BY <1>3, <1>4 DEF ExchangeInv, ErrorsHaveCause
<1> QED BY <1>7, <1>8, <1>9, <1>10, <1>11 DEF ExchangeInv

LEMMA ReceiveStep ==
  ASSUME Timely, ExchangeInv, LockInv', Receive
  PROVE  ExchangeInv'
<1> DEFINE p == Head(in)
<1>0. TypeOK /\ Mutex
  BY DEF ExchangeInv, LockInv
<1>1. /\ Len(in) \in Nat /\ Len(in) > 0 /\ Len(in') = Len(in) - 1
      /\ p = in[1] /\ p \in Packets
      /\ \A i \in 1 .. Len(in') : in'[i] = in[i + 1]
  BY <1>0 DEF TypeOK, Receive
<1>2. urb.stage = "posted"
  BY DEF Receive
<1>3. UNCHANGED <<lock, done, armed, txbuf, rxbuf, pc, req, got, result, out, faults>>
  BY DEF Receive, transferVars, threadVars, countVars
<1> HIDE DEF p
<1>4. Completes(p) => InFlight
  BY <1>1, <1>2 DEF InFlight
<1>5. Completes(p) => \A i \in 1 .. Len(in') : ~Completes(in'[i])
  <2> SUFFICES ASSUME Completes(p), NEW i \in 1 .. Len(in'), Completes(in'[i]) PROVE FALSE
    OBVIOUS
  <2>1. i + 1 \in 1 .. Len(in) /\ Completes(in[i + 1]) /\ Completes(in[1]) /\ 1 \in 1 .. Len(in)
    BY <1>1
  <2> QED BY <2>1, <1>2 DEF ExchangeInv, Alone
<1>6. ASSUME NEW i \in 1 .. Len(in') PROVE i + 1 \in 1 .. Len(in) /\ in'[i] = in[i + 1]
  BY <1>1, <1>6
<1>7. CASE Completes(p) /\ armed
  <2>1. urb' = [stage |-> "copy", pkt |-> p]
    BY <1>7 DEF Receive, Stage, p
  <2>2. ~InFlight' /\ InHandler' /\ ~InOut /\ ~InDone /\ (InOut' <=> InOut) /\ ~InDone'
    BY <2>1, <1>3, <1>4, <1>5, <1>7
       DEF InFlight, InHandler, InOut, InDone, ExchangeInv, Alone
  <2>3. Alone' /\ Awaited'
    BY <2>1, <2>2, <1>3, <1>4, <1>6, <1>5, <1>7, <1>2 DEF ExchangeInv, Alone, Awaited
  <2>4. ASSUME NEW t \in Threads, pc[t] = "wait" PROVE Own(t)'
    <3>1. Answers(p, t)
      BY <2>4, <1>1, <1>2, <1>7 DEF ExchangeInv, OwnInv, Own
    <3> QED BY <3>1, <2>1, <2>2, <1>3 DEF Own, Answers, BufferAnswers, InOut, InDone, InFlight
  <2>5. OwnInv'
    BY <2>4, <1>3, <1>0 DEF ExchangeInv, OwnInv, Answers, BufferAnswers, Reads, Building, Answered
  <2>6. FaultInv'
    BY <2>1, <2>2, <1>3 DEF ExchangeInv, FaultInv
  <2> QED BY <2>3, <2>5, <2>6, <1>3
       DEF ExchangeInv, Whole, CommandInv, MatchedReply, ErrorsHaveCause, Answered
<1>8. CASE ~(Completes(p) /\ armed)
  <2>1. urb' = [stage |-> "resubmit", pkt |-> Blank]
    BY <1>8 DEF Receive, Stage, p
  <2>2. /\ InFlight' => InFlight
        /\ ~InHandler' /\ ~InHandler /\ (InOut' <=> InOut) /\ (InDone' <=> InDone)
    BY <2>1, <1>2, <1>3, <1>6 DEF InFlight, InHandler, InOut, InDone
  <2>3. Awaited'
    BY <2>2, <1>3 DEF ExchangeInv, Awaited
  <2>4. \A i, j \in 1 .. Len(in') : Completes(in'[i]) /\ Completes(in'[j]) => i = j
    <3> SUFFICES ASSUME NEW i \in 1 .. Len(in'), NEW j \in 1 .. Len(in'),
                        Completes(in'[i]), Completes(in'[j])
                 PROVE  i = j
      OBVIOUS
    <3>1. i + 1 = j + 1
      BY <1>6, <1>2 DEF ExchangeInv, Alone
    <3> QED BY <3>1, <1>1
  <2>5. Alone'
    BY <2>2, <2>4, <1>3 DEF ExchangeInv, Alone
  <2>6. ASSUME NEW t \in Threads, pc[t] = "wait" PROVE Own(t)'
    BY <2>6, <2>1, <2>2, <1>2, <1>3, <1>6 DEF ExchangeInv, OwnInv, Own, Answers, BufferAnswers
  <2>7. OwnInv'
    BY <2>6, <1>3, <1>0 DEF ExchangeInv, OwnInv, Answers, BufferAnswers, Reads, Building, Answered
  <2>8. Completes(p) /\ NoSpiData => faults # 0
    BY <1>8, <1>4, <1>3 DEF ExchangeInv, FaultInv, Awaited
  <2>9. ~Completes(p) /\ InFlight => InFlight'
    <3> SUFFICES ASSUME ~Completes(p), InFlight PROVE InFlight'
      OBVIOUS
    <3>1. PICK i \in 1 .. Len(in) : Completes(in[i])
      BY DEF InFlight
    <3>2. i # 1
      BY <3>1, <1>1
    <3>3. i - 1 \in 1 .. Len(in') /\ in'[i - 1] = in[i]
      BY <3>2, <1>1
    <3> QED BY <3>1, <3>3, <2>1 DEF InFlight
  <2>10. FaultInv'
    BY <2>1, <2>2, <2>8, <2>9, <1>3 DEF ExchangeInv, FaultInv
  <2> QED BY <2>3, <2>5, <2>7, <2>10, <1>3
       DEF ExchangeInv, Whole, CommandInv, MatchedReply, ErrorsHaveCause, Answered
<1> QED BY <1>7, <1>8


(* The packet at the head of out, and what its removal leaves.             *)
LEMMA ServedLemma ==
  ASSUME TypeOK, out # <<>>, out' = Tail(out)
  PROVE  /\ Head(out) \in Packets /\ Head(out) = out[1] /\ 1 \in 1 .. Len(out)
         /\ \A i \in 1 .. Len(out') : i + 1 \in 1 .. Len(out) /\ out'[i] = out[i + 1]
<1>1. out \in Seq(Packets) /\ Len(out) > 0
  BY DEF TypeOK
<1> QED BY <1>1

LEMMA ServeStep ==
  ASSUME Timely, ExchangeInv, LockInv', Serve
  PROVE  ExchangeInv'
<1> DEFINE p == Head(out)
<1>0. TypeOK /\ Mutex
  BY DEF ExchangeInv, LockInv
<1>1. /\ p \in Packets /\ p = out[1] /\ 1 \in 1 .. Len(out)
      /\ \A i \in 1 .. Len(out') : i + 1 \in 1 .. Len(out) /\ out'[i] = out[i + 1]
  BY <1>0, ServedLemma DEF Serve
<1>2. PICK r \in Replies(p) : in' = in \o r
  BY DEF Serve
<1>3. /\ r \in Seq(Packets)
      /\ \A i \in 1 .. Len(r) : r[i].id = p.id
      /\ \A i, j \in 1 .. Len(r) : Completes(r[i]) /\ Completes(r[j]) => i = j
  BY <1>1, <1>2, RepliesLemma
<1>4. /\ Len(in) \in Nat /\ Len(r) \in Nat /\ Len(in') = Len(in) + Len(r)
      /\ \A i \in 1 .. Len(in') :
           in'[i] = IF i <= Len(in) THEN in[i] ELSE r[i - Len(in)]
  BY <1>0, <1>2, <1>3 DEF TypeOK
<1>5. UNCHANGED <<lock, done, armed, txbuf, rxbuf, pc, req, got, result, urb, faults>>
  BY DEF Serve, transferVars, threadVars, countVars
<1>6. CommandInv' /\ Whole'
  BY <1>1, <1>5 DEF ExchangeInv, CommandInv, Whole
<1>7. MatchedReply' /\ (NoSpiData => ErrorsHaveCause')
  BY <1>5 DEF ExchangeInv, MatchedReply, ErrorsHaveCause, Answered
<1>8. \A i, j \in 1 .. Len(out') : out'[i].id # 0 /\ out'[j].id # 0 => i = j
  <2> SUFFICES ASSUME NEW i \in 1 .. Len(out'), NEW j \in 1 .. Len(out'),
                      out'[i].id # 0, out'[j].id # 0
               PROVE  i = j
    OBVIOUS
  <2>1. i + 1 \in 1 .. Len(out) /\ j + 1 \in 1 .. Len(out) /\ out[i + 1].id # 0 /\ out[j + 1].id # 0
    BY <1>1
  <2>2. \A m, n \in 1 .. Len(out) : out[m].id # 0 /\ out[n].id # 0 => m = n
    BY DEF ExchangeInv, Alone
  <2>3. i + 1 = j + 1
    BY <2>1, <2>2
  <2> QED BY <2>3
<1> HIDE DEF p
<1>9. CASE p.id = 0
  <2>1. p \in Commands
    BY <1>1, <1>9 DEF ExchangeInv, CommandInv
  <2>2. \A i \in 1 .. Len(r) : ~Completes(r[i])
    BY <2>1, <1>2, <1>3 DEF Timely, OnlyQuietCommands, Quiet
  <2>3. \A i \in 1 .. Len(in') : Completes(in'[i]) =>
           i \in 1 .. Len(in) /\ in'[i] = in[i] /\ Completes(in[i])
    BY <2>2, <1>4
  <2>4. InFlight => InFlight'
    BY <1>4, <1>5 DEF InFlight
  <2>5. InFlight' => InFlight
    BY <2>3, <1>5 DEF InFlight
  <2>6. InOut' => InOut
    BY <1>1 DEF InOut
  <2>7. InOut => InOut'
    <3> SUFFICES ASSUME NEW i \in 1 .. Len(out), out[i].id # 0 PROVE InOut'
      BY DEF InOut
    <3>1. i # 1 /\ out \in Seq(Packets) /\ out # <<>> /\ out' = Tail(out)
      BY <1>0, <1>1, <1>9 DEF TypeOK, Serve
    <3>2. i - 1 \in 1 .. Len(out') /\ out'[i - 1] = out[i]
      BY <3>1
    <3> QED BY <3>2 DEF InOut
  <2>8. (InHandler' <=> InHandler) /\ (InDone' <=> InDone)
    BY <1>5 DEF InHandler, InDone
  <2>9. urb.stage # "dead" =>
           \A i, j \in 1 .. Len(in') : Completes(in'[i]) /\ Completes(in'[j]) => i = j
    BY <2>3 DEF ExchangeInv, Alone
  <2>10. Alone' /\ Awaited'
    BY <2>5, <2>6, <2>8, <2>9, <1>8, <1>5 DEF ExchangeInv, Alone, Awaited
  <2>11. ASSUME NEW t \in Threads, pc[t] = "wait" PROVE Own(t)'
    <3>1. Own(t)
      BY <2>11 DEF ExchangeInv, OwnInv
    <3> QED BY <3>1, <2>3, <2>8, <1>1, <1>5 DEF Own, Answers, BufferAnswers
  <2>12. OwnInv'
    BY <2>11, <1>5 DEF ExchangeInv, OwnInv, Answers, BufferAnswers, Reads, Building, Answered
  <2>13. FaultInv'
    BY <2>4, <2>5, <2>6, <2>7, <2>8, <1>5 DEF ExchangeInv, FaultInv
  <2> QED BY <2>10, <2>12, <2>13, <1>6, <1>7 DEF ExchangeInv
<1>10. CASE p.id # 0
  <2>1. InOut /\ ~InFlight /\ ~InHandler /\ ~InDone
    BY <1>1, <1>10 DEF InOut, ExchangeInv, Alone
  <2>2. PICK t \in Threads : pc[t] = "wait"
    BY <2>1 DEF ExchangeInv, Awaited
  <2>3. p = req[t] /\ p = Request(Client[t], p.id)
    BY <2>2, <1>1, <1>10 DEF ExchangeInv, OwnInv, Own
  <2>4. Client[t] \in Clients /\ p.id \in Nat \ {0}
    BY <1>1, <1>10, ClientAssumption DEF Packets
  <2>5. /\ NoSpiData => \E i \in 1 .. Len(r) : Completes(r[i])
        /\ \A i \in 1 .. Len(r) : Completes(r[i]) => Answers(r[i], t)
    <3>1. r \in Replies(Request(Client[t], p.id))
      BY <2>3, <1>2
    <3>2. /\ Client[t] # "SPI" => \E i \in 1 .. Len(r) : Completes(r[i])
          /\ \A i \in 1 .. Len(r) :
               Completes(r[i]) =>
                 r[i].iface = Request(Client[t], p.id).iface /\ r[i].type = "RESP"
      BY <2>4, <3>1, AnswerLemma
    <3> QED BY <2>3, <3>2, <1>3 DEF Answers, BufferAnswers, NoSpiData
  <2>6. ~InOut'
    <3> SUFFICES ASSUME NEW i \in 1 .. Len(out'), out'[i].id # 0 PROVE FALSE
      BY DEF InOut
    <3>1. i + 1 \in 1 .. Len(out) /\ out[i + 1].id # 0 /\ out[1].id # 0
      BY <1>1, <1>10
    <3>2. i + 1 = 1
      BY <3>1, <1>1 DEF ExchangeInv, Alone
    <3> QED BY <3>2
  <2>7. \A i \in 1 .. Len(in) : urb.stage # "dead" => ~Completes(in[i])
    BY <2>1 DEF InFlight
  <2>8. (InHandler' <=> InHandler) /\ (InDone' <=> InDone)
    BY <1>5 DEF InHandler, InDone
  <2>9. urb.stage # "dead" =>
          \A i \in 1 .. Len(in') : Completes(in'[i]) =>
             i - Len(in) \in 1 .. Len(r) /\ Completes(r[i - Len(in)])
                                        /\ in'[i] = r[i - Len(in)]
    BY <2>7, <1>4
  <2>10. urb.stage # "dead" =>
           \A i, j \in 1 .. Len(in') : Completes(in'[i]) /\ Completes(in'[j]) => i = j
    <3> SUFFICES ASSUME urb.stage # "dead", NEW i \in 1 .. Len(in'), NEW j \in 1 .. Len(in'),
                        Completes(in'[i]), Completes(in'[j])
                 PROVE  i = j
      OBVIOUS
    <3>1. i - Len(in) = j - Len(in)
      BY <2>9, <1>3
    <3> QED BY <3>1, <1>4
  <2>11. Alone' /\ Awaited'
    BY <2>1, <2>2, <2>6, <2>8, <2>10, <1>8, <1>5 DEF ExchangeInv, Alone, Awaited
  <2>12. ASSUME NEW u \in Threads, pc[u] = "wait" PROVE Own(u)'
    <3>1. u = t
      BY <2>2, <2>12, <1>0 DEF Mutex, Holding
    <3>2. \A i \in 1 .. Len(out') : out'[i].id = 0
      BY <2>6 DEF InOut
    <3>3. urb.stage # "dead" => \A i \in 1 .. Len(in') : Completes(in'[i]) => Answers(in'[i], t)
      BY <2>9, <2>5
    <3>4. Own(t)
      BY <2>2 DEF ExchangeInv, OwnInv
    <3> QED BY <3>1, <3>2, <3>3, <3>4, <2>8, <1>5 DEF Own, Answers, BufferAnswers
  <2>13. OwnInv'
    BY <2>12, <1>5 DEF ExchangeInv, OwnInv, Answers, BufferAnswers, Reads, Building, Answered
  <2>14. faults = 0 /\ NoSpiData => InFlight'
    <3> SUFFICES ASSUME faults = 0, NoSpiData PROVE InFlight'
      OBVIOUS
    <3>1. PICK i \in 1 .. Len(r) : Completes(r[i])
      BY <2>5
    <3>2. i + Len(in) \in 1 .. Len(in') /\ in'[i + Len(in)] = r[i]
      <4>1. /\ i + Len(in) \in 1 .. Len(in') /\ ~(i + Len(in) <= Len(in))
            /\ i + Len(in) - Len(in) = i
        BY <1>4
      <4> QED BY <1>4, <4>1
    <3>3. urb.stage # "dead" /\ urb' = urb
      BY <1>5 DEF ExchangeInv, FaultInv
    <3>4. Completes(in'[i + Len(in)])
      BY <3>1, <3>2
    <3> QED BY <3>2, <3>3, <3>4 DEF InFlight
  <2>15. FaultInv'
    BY <2>1, <2>2, <2>6, <2>8, <2>14, <1>5, <1>0 DEF ExchangeInv, FaultInv, Mutex, Holding
  <2> QED BY <2>11, <2>13, <2>15, <1>6, <1>7 DEF ExchangeInv
<1> QED BY <1>9, <1>10


LEMMA ExchangeInit == Init => ExchangeInv
<1> SUFFICES ASSUME Init PROVE ExchangeInv
  OBVIOUS
<1>1. LockInv
  BY LockInit
<1> QED
  <2>1. Whole
    BY DEF Init, Whole
  <2> QED
    BY <1>1, <2>1 DEF Init, ExchangeInv, Alone, Awaited, OwnInv, CommandInv, FaultInv, InOut,
                      InFlight, InHandler, InDone, MatchedReply, ErrorsHaveCause, Answered,
                      Reads, Building

LEMMA ServeSilentlyStep ==
  ASSUME Timely, ExchangeInv, LockInv', ServeSilently
  PROVE  ExchangeInv'
<1>0. TypeOK /\ Mutex /\ TypeOK'
  BY DEF ExchangeInv, LockInv
<1>1. \A i \in 1 .. Len(out') : i + 1 \in 1 .. Len(out) /\ out'[i] = out[i + 1]
  BY <1>0, ServedLemma DEF ServeSilently
<1>2. UNCHANGED <<lock, done, armed, txbuf, rxbuf, pc, req, got, result, urb, in>>
  BY DEF ServeSilently, transferVars, threadVars
<1>3. faults' # 0
  BY <1>0 DEF ServeSilently, TypeOK
<1>4. /\ InOut' => InOut
      /\ (InFlight' <=> InFlight) /\ (InHandler' <=> InHandler) /\ (InDone' <=> InDone)
  BY <1>1, <1>2 DEF InOut, InFlight, InHandler, InDone
<1>5. \A i, j \in 1 .. Len(out') : out'[i].id # 0 /\ out'[j].id # 0 => i = j
  <2> SUFFICES ASSUME NEW i \in 1 .. Len(out'), NEW j \in 1 .. Len(out'),
                      out'[i].id # 0, out'[j].id # 0
               PROVE  i = j
    OBVIOUS
  <2>1. i + 1 \in 1 .. Len(out) /\ j + 1 \in 1 .. Len(out) /\ out[i + 1].id # 0 /\ out[j + 1].id # 0
    BY <1>1
  <2>2. \A m, n \in 1 .. Len(out) : out[m].id # 0 /\ out[n].id # 0 => m = n
    BY DEF ExchangeInv, Alone
  <2>3. i + 1 = j + 1
    BY <2>1, <2>2
  <2> QED BY <2>3
<1>6. Alone'
  BY <1>2, <1>4, <1>5 DEF ExchangeInv, Alone
<1>7. Awaited'
  BY <1>2, <1>4 DEF ExchangeInv, Awaited
<1>8. ASSUME NEW t \in Threads, pc[t] = "wait" PROVE Own(t)'
  <2>1. Own(t)
    BY <1>8 DEF ExchangeInv, OwnInv
  <2>2. \A i \in 1 .. Len(out') : out'[i].id # 0 => out'[i] = req[t]
    BY <2>1, <1>1 DEF Own
  <2> QED BY <2>1, <2>2, <1>2, <1>4 DEF Own, Answers, BufferAnswers
<1>9. OwnInv'
  BY <1>8, <1>2 DEF ExchangeInv, OwnInv, Answers, BufferAnswers, Reads, Building, Answered
<1>10. CommandInv' /\ Whole'
  BY <1>1, <1>2 DEF ExchangeInv, CommandInv, Whole
<1>11. FaultInv' /\ MatchedReply' /\ (NoSpiData => ErrorsHaveCause')
  <2>1. faults' > 0
    BY <1>0, <1>3, BoundsAssumption DEF TypeOK
  <2> QED BY <2>1, <1>2, <1>3
          DEF ExchangeInv, FaultInv, MatchedReply, ErrorsHaveCause, Answered
<1> QED BY <1>6, <1>7, <1>9, <1>10, <1>11 DEF ExchangeInv

LEMMA UartDataStep ==
  ASSUME Timely, ExchangeInv, LockInv', UartData
  PROVE  ExchangeInv'
<1> DEFINE u == Packet("UART", "RESP", 0)
<1>1. ~Completes(u)
  BY DEF Packet, Completes
<1>2. in' = Append(in, u) /\ in \in Seq(Packets)
  BY DEF UartData, ExchangeInv, LockInv, TypeOK
<1>3. UNCHANGED <<lock, done, armed, txbuf, rxbuf, pc, req, got, result, urb, out, faults>>
  BY DEF UartData, transferVars, threadVars
<1> HIDE DEF u
<1>4. /\ Len(in') = Len(in) + 1 /\ Len(in) \in Nat
      /\ \A i \in 1 .. Len(in') : in'[i] = IF i <= Len(in) THEN in[i] ELSE u
  BY <1>2
<1>5. \A i \in 1 .. Len(in') : Completes(in'[i]) => i \in 1 .. Len(in) /\ in'[i] = in[i]
  BY <1>1, <1>4
<1>6. \A i \in 1 .. Len(in) : i \in 1 .. Len(in') /\ in'[i] = in[i]
  BY <1>4
<1>7. /\ InOut' <=> InOut
      /\ (InHandler' <=> InHandler) /\ (InDone' <=> InDone)
  BY <1>3 DEF InOut, InHandler, InDone
<1>8. InFlight' <=> InFlight
  BY <1>3, <1>5, <1>6 DEF InFlight
<1>9. urb.stage # "dead" =>
        \A i, j \in 1 .. Len(in') : Completes(in'[i]) /\ Completes(in'[j]) => i = j
  BY <1>5 DEF ExchangeInv, Alone
<1>10. Alone'
  BY <1>3, <1>7, <1>8, <1>9 DEF ExchangeInv, Alone
<1>11. Awaited'
  BY <1>3, <1>7, <1>8 DEF ExchangeInv, Awaited
<1>12. ASSUME NEW t \in Threads, pc[t] = "wait" PROVE Own(t)'
  <2>1. Own(t)
    BY <1>12 DEF ExchangeInv, OwnInv
  <2>2. urb.stage # "dead" => \A i \in 1 .. Len(in') : Completes(in'[i]) => Answers(in'[i], t)
    BY <2>1, <1>5 DEF Own
  <2> QED BY <2>1, <2>2, <1>3, <1>7 DEF Own, Answers, BufferAnswers
<1>13. OwnInv'
  BY <1>12, <1>3 DEF ExchangeInv, OwnInv, Answers, BufferAnswers, Reads, Building, Answered
<1>14. Whole' /\ CommandInv' /\ MatchedReply' /\ (NoSpiData => ErrorsHaveCause')
  BY <1>3 DEF ExchangeInv, Whole, CommandInv, MatchedReply, ErrorsHaveCause, Answered
<1>15. FaultInv'
  BY <1>3, <1>7, <1>8 DEF ExchangeInv, FaultInv
<1> QED BY <1>10, <1>11, <1>13, <1>14, <1>15 DEF ExchangeInv

(* Without a fault the request of a call that waits is under way.          *)
LEMMA NotUnderway ==
  ASSUME NoSpiData, ExchangeInv, NEW t \in Threads, pc[t] = "wait", done = 0, ~ Underway(t)
  PROVE  faults > 0
<1>1. /\ faults \in Nat /\ Len(out) \in Nat /\ Len(in) \in Nat
      /\ DOMAIN out = 1 .. Len(out) /\ DOMAIN in = 1 .. Len(in)
  BY DEF ExchangeInv, LockInv, TypeOK
<1>2. Own(t)
  BY DEF ExchangeInv, OwnInv
<1>3. /\ ~ \E i \in 1 .. Len(out) : out[i].id = req[t].id
      /\ urb.stage # "dead" => ~ \E i \in 1 .. Len(in) : in[i].id = req[t].id
      /\ ~ (urb.stage \in {"copy", "clear", "complete"} /\ urb.pkt.id = req[t].id)
  BY <1>1 DEF Underway
<1>4. ~ InOut
  BY <1>2, <1>3 DEF Own, InOut
<1>5. ~ InFlight
  BY <1>2, <1>3 DEF Own, InFlight, Answers, BufferAnswers
<1>6. ~ InHandler
  BY <1>2, <1>3 DEF Own, InHandler, Answers, BufferAnswers
<1>7. ~ InDone
  BY DEF InDone
<1>8. faults # 0
  BY <1>4, <1>5, <1>6, <1>7 DEF ExchangeInv, FaultInv
<1> QED
  BY <1>1, <1>8

(* A command asks for no answer: it has the id 0.                          *)
LEMMA SendCommandStep ==
  ASSUME ExchangeInv, LockInv', NEW p \in Commands, SendCommand(p)
  PROVE  ExchangeInv'
<1>1. p \in Packets /\ p.id = 0
  BY CommandIsPacket
<1>2. out \in Seq(Packets)
  BY DEF ExchangeInv, LockInv, TypeOK
<1>3. /\ Len(out') = Len(out) + 1 /\ Len(out) \in Nat
      /\ \A i \in 1 .. Len(out') : out'[i] = IF i <= Len(out) THEN out[i] ELSE p
  BY <1>1, <1>2 DEF SendCommand
<1>4. UNCHANGED <<lock, done, armed, txbuf, rxbuf, pc, req, got, result, urb, in, faults>>
  BY DEF SendCommand, transferVars, threadVars
<1>5. \A i \in 1 .. Len(out') :
        out'[i].id # 0 => i \in 1 .. Len(out) /\ out'[i] = out[i]
  BY <1>1, <1>3
<1>6. \A i \in 1 .. Len(out) : i \in 1 .. Len(out') /\ out'[i] = out[i]
  BY <1>3
<1>7. InOut' <=> InOut
  BY <1>5, <1>6 DEF InOut
<1>8. /\ InFlight' <=> InFlight
      /\ InHandler' <=> InHandler
      /\ InDone' <=> InDone
  BY <1>4 DEF InFlight, InHandler, InDone
<1>9. \A i, j \in 1 .. Len(out') : out'[i].id # 0 /\ out'[j].id # 0 => i = j
  BY <1>5 DEF ExchangeInv, Alone
<1>10. Alone'
  BY <1>4, <1>7, <1>8, <1>9 DEF ExchangeInv, Alone
<1>11. Awaited'
  BY <1>4, <1>7, <1>8 DEF ExchangeInv, Awaited
<1>12. ASSUME NEW t \in Threads, pc[t] = "wait" PROVE Own(t)'
  <2>1. Own(t)
    BY <1>12 DEF ExchangeInv, OwnInv
  <2>2. \A i \in 1 .. Len(out') : out'[i].id # 0 => out'[i] = req[t]
    BY <2>1, <1>5 DEF Own
  <2> QED
    BY <2>1, <2>2, <1>4, <1>8 DEF Own, Answers, BufferAnswers
<1>13. OwnInv'
  BY <1>12, <1>4 DEF ExchangeInv, OwnInv, Answers, BufferAnswers, Reads, Building, Answered
<1>14. CommandInv' /\ Whole'
  BY <1>3, <1>4, WholeStays DEF ExchangeInv, CommandInv
<1>15. MatchedReply' /\ (NoSpiData => ErrorsHaveCause')
  BY <1>4 DEF ExchangeInv, MatchedReply, ErrorsHaveCause, Answered
<1>16. FaultInv'
  BY <1>4, <1>7, <1>8 DEF ExchangeInv, FaultInv
<1> QED
  BY <1>10, <1>11, <1>13, <1>14, <1>15, <1>16 DEF ExchangeInv

(* The call's request is on its way, and nothing else is.                  *)
LEMMA SendStep ==
  ASSUME ExchangeInv, LockInv', NEW t \in Threads, Send(t)
  PROVE  ExchangeInv'
<1>0. /\ TypeOK /\ Mutex /\ pc \in [Threads -> Labels] /\ out \in Seq(Packets)
      /\ done \in Nat
  BY DEF ExchangeInv, LockInv, TypeOK
<1>1. /\ pc[t] = "send" /\ pc'[t] = "wait" /\ \A u \in Threads \ {t} : pc'[u] = pc[u]
      /\ UNCHANGED <<lock, done, armed, txbuf, rxbuf, req, got, result, in, urb, faults>>
      /\ out' = Append(out, txbuf)
  BY <1>0 DEF Send, GoTo, transferVars, countVars
<1>2. txbuf = req[t] /\ req[t].id # 0 /\ txbuf \in Packets
  BY <1>1, <1>0 DEF ExchangeInv, OwnInv, Building, TypeOK
<1>3. \A u \in Threads : pc[u] # "wait"
  BY <1>0, <1>1 DEF Mutex, Holding
<1>4. ~InOut /\ ~InFlight /\ ~InHandler /\ ~InDone
  BY <1>3 DEF ExchangeInv, Awaited
<1>5. (InFlight' <=> InFlight) /\ (InHandler' <=> InHandler) /\ (InDone' <=> InDone)
  BY <1>1 DEF InFlight, InHandler, InDone
<1>6. /\ Len(out) \in Nat /\ Len(out') = Len(out) + 1
      /\ \A i \in 1 .. Len(out') : out'[i] = IF i <= Len(out) THEN out[i] ELSE req[t]
  BY <1>0, <1>1, <1>2
<1>7. \A i \in 1 .. Len(out') : out'[i].id # 0 => i = Len(out') /\ out'[i] = req[t]
  BY <1>4, <1>6 DEF InOut
<1>8. Len(out') \in 1 .. Len(out') /\ out'[Len(out')] = req[t]
  BY <1>6
<1>9. InOut'
  BY <1>2, <1>8 DEF InOut
<1>10. Alone'
  BY <1>0, <1>1, <1>4, <1>5, <1>7 DEF ExchangeInv, Alone
<1>11. Awaited'
  BY <1>1 DEF Awaited
<1>12. ASSUME NEW u \in Threads, pc'[u] = "wait" PROVE Own(u)'
  <2>1. u = t
    BY <1>1, <1>3, <1>12
  <2>2. \A i \in 1 .. Len(out') : out'[i].id # 0 => out'[i] = req'[u]
    BY <1>1, <1>7, <2>1
  <2>3. ~InHandler' /\ ~InDone' /\ ~InFlight' /\ urb'.stage \notin {"clear", "complete"}
    BY <1>4, <1>5 DEF InHandler
  <2> QED
    BY <2>2, <2>3 DEF Own, InFlight
<1>13. ASSUME NEW u \in Threads
       PROVE  /\ Reads(u)' => Reads(u)
              /\ Building(u)' => Building(u)
              /\ pc'[u] # "idle" => pc[u] # "idle"
              /\ pc'[u] = "collect" => pc[u] = "collect"
  BY <1>1 DEF Reads, Building, Answered
<1>14. OwnInv'
  BY <1>1, <1>12, <1>13 DEF ExchangeInv, OwnInv, Answers, BufferAnswers
<1>15. CommandInv' /\ Whole'
  BY <1>1, <1>2, <1>6, WholeStays DEF ExchangeInv, CommandInv
<1>16. FaultInv'
  <2>1. faults' = 0 /\ NoSpiData => armed' /\ urb'.stage # "dead"
    BY <1>1 DEF ExchangeInv, FaultInv
  <2> QED
    BY <1>1, <1>9, <2>1 DEF FaultInv
<1>17. MatchedReply' /\ (NoSpiData => ErrorsHaveCause')
  BY <1>1 DEF ExchangeInv, MatchedReply, ErrorsHaveCause, Answered
<1> QED
  BY <1>10, <1>11, <1>14, <1>15, <1>16, <1>17 DEF ExchangeInv

(* A packet is lost with the URB's error.                                  *)
LEMMA ReceiveErrorStep ==
  ASSUME ExchangeInv, LockInv', ReceiveError
  PROVE  ExchangeInv'
<1>0. in \in Seq(Packets) /\ in # <<>> /\ in' = Tail(in) /\ faults \in Nat
  BY DEF ExchangeInv, LockInv, TypeOK, ReceiveError
<1>1. \A i \in 1 .. Len(in') : i + 1 \in 1 .. Len(in) /\ in'[i] = in[i + 1]
  BY <1>0
<1>2. /\ UNCHANGED <<lock, done, armed, txbuf, rxbuf, pc, req, got, result, out>>
      /\ urb.stage = "posted" /\ urb'.stage = "resubmit" /\ faults' = faults + 1
  BY DEF ReceiveError, Stage, transferVars, threadVars
<1>3. /\ InFlight' => InFlight
      /\ ~InHandler' /\ ~InHandler /\ (InOut' <=> InOut) /\ (InDone' <=> InDone)
  BY <1>1, <1>2 DEF InFlight, InHandler, InOut, InDone
<1>4. \A i, j \in 1 .. Len(in') : Completes(in'[i]) /\ Completes(in'[j]) => i = j
  <2> SUFFICES ASSUME NEW i \in 1 .. Len(in'), NEW j \in 1 .. Len(in'),
                      Completes(in'[i]), Completes(in'[j])
               PROVE  i = j
    OBVIOUS
  <2>1. /\ i + 1 \in 1 .. Len(in) /\ j + 1 \in 1 .. Len(in)
        /\ Completes(in[i + 1]) /\ Completes(in[j + 1])
    BY <1>1
  <2>2. \A m, n \in 1 .. Len(in) : Completes(in[m]) /\ Completes(in[n]) => m = n
    BY <1>2 DEF ExchangeInv, Alone
  <2>3. i + 1 = j + 1
    BY <2>1, <2>2
  <2> QED
    BY <2>3
<1>5. Alone'
  BY <1>2, <1>3, <1>4 DEF ExchangeInv, Alone
<1>6. Awaited'
  BY <1>2, <1>3 DEF ExchangeInv, Awaited
<1>7. ASSUME NEW t \in Threads, pc[t] = "wait" PROVE Own(t)'
  BY <1>1, <1>2, <1>3, <1>7 DEF ExchangeInv, OwnInv, Own, Answers, BufferAnswers
<1>8. OwnInv'
  BY <1>2, <1>7 DEF ExchangeInv, OwnInv, Answers, BufferAnswers, Reads, Building, Answered
<1>9. CommandInv' /\ MatchedReply' /\ Whole'
  BY <1>2 DEF ExchangeInv, CommandInv, MatchedReply, Answered, Whole
<1>10. faults' # 0 /\ faults' > 0
  BY <1>0, <1>2
<1>11. FaultInv' /\ ErrorsHaveCause'
  BY <1>10 DEF FaultInv, ErrorsHaveCause
<1> QED
  BY <1>5, <1>6, <1>8, <1>9, <1>11 DEF ExchangeInv

(* An SPI call reads its answer once more, from the shared buffer.         *)
LEMMA CollectStep ==
  ASSUME Timely, ExchangeInv, LockInv', NEW t \in Threads, Collect(t)
  PROVE  ExchangeInv'
<1>0. /\ pc \in [Threads -> Labels] /\ got \in [Threads -> (SUBSET Packets) \ {{}}]
      /\ pc[t] = "collect"
  BY DEF ExchangeInv, LockInv, TypeOK, Collect
<1>q. PICK q : rxbuf = {q} /\ Answers(q, t)
  BY <1>0, ReadsWhole
<1>r. Readable = rxbuf
  BY <1>0, ReadsWhole
<1>1. /\ pc[t] = "collect" /\ pc'[t] = "idle" /\ got'[t] = rxbuf
      /\ \A u \in Threads \ {t} : pc'[u] = pc[u] /\ got'[u] = got[u]
      /\ UNCHANGED <<lock, done, armed, txbuf, rxbuf, req, result, out, in, urb, faults>>
  BY <1>0, <1>r DEF Collect, GoTo, transferVars, wireVars, countVars
<1>2. \A p \in rxbuf : p.id = req[t].id
  BY <1>q DEF Answers
<1>3. /\ InOut' <=> InOut
      /\ InFlight' <=> InFlight
      /\ InHandler' <=> InHandler
      /\ InDone' <=> InDone
  BY <1>1 DEF InOut, InFlight, InHandler, InDone
<1>4. \A u \in Threads : /\ pc'[u] # "idle" => pc'[u] = pc[u]
                         /\ pc'[u] = "wait" <=> pc[u] = "wait"
  BY <1>1
<1>5. Alone'
  BY <1>1, <1>3 DEF ExchangeInv, Alone
<1>6. Awaited'
  BY <1>3, <1>4 DEF ExchangeInv, Awaited
<1>7. \A u \in Threads : (Reads(u)' => Reads(u)) /\ (Building(u)' => Building(u))
  BY <1>1, <1>4 DEF Reads, Building, Answered
<1>8. \A u \in Threads : Own(u) => Own(u)'
  BY <1>1, <1>3 DEF Own, Answers, BufferAnswers
<1>9. OwnInv'
  BY <1>1, <1>4, <1>7, <1>8 DEF ExchangeInv, OwnInv, Answers, BufferAnswers
<1>10. CommandInv' /\ Whole' /\ (NoSpiData => ErrorsHaveCause')
  BY <1>1 DEF ExchangeInv, CommandInv, Whole, ErrorsHaveCause
<1>11. MatchedReply'
  BY <1>1, <1>2 DEF ExchangeInv, MatchedReply, Answered
<1>12. FaultInv'
  BY <1>1, <1>3, <1>4 DEF ExchangeInv, FaultInv
<1> QED
  BY <1>5, <1>6, <1>9, <1>10, <1>11, <1>12 DEF ExchangeInv

(* The handler's copy replaces what transfer_rx_buf held: nobody reads it. *)
LEMMA CopyInStep ==
  ASSUME Timely, ExchangeInv, LockInv', CopyIn
  PROVE  ExchangeInv'
<1>1. /\ urb.stage = "copy" /\ urb' = [stage |-> "clear", pkt |-> urb.pkt]
      /\ UNCHANGED <<lock, done, armed, txbuf, pc, req, got, result, out, in, faults>>
  BY DEF CopyIn, Stage, threadVars, wireVars, countVars
<1>2. \A t \in Threads : pc[t] \notin {"copyout", "collect"}
  BY <1>1, NoReader
<1>3. PICK q : rxbuf = {q}
  BY DEF ExchangeInv, Whole
<1>4. rxbuf' = {urb.pkt}
  BY <1>2, <1>3 DEF CopyIn
<1>5. PICK u \in Threads : pc[u] = "wait"
  BY <1>1 DEF ExchangeInv, Awaited, InHandler
<1>6. \A t \in Threads : ~ Reads(t)
  BY <1>2, <1>5 DEF ExchangeInv, LockInv, Mutex, Holding, Reads
<1>7. /\ InOut' <=> InOut
      /\ InFlight' <=> InFlight
      /\ InHandler' <=> InHandler
      /\ InDone' <=> InDone
  BY <1>1 DEF InOut, InFlight, InHandler, InDone
<1>8. Alone' /\ Awaited' /\ CommandInv' /\ Whole'
  BY <1>1, <1>4, <1>7 DEF ExchangeInv, Alone, Awaited, CommandInv, Whole
<1>9. ASSUME NEW t \in Threads, pc[t] = "wait" PROVE Own(t)'
  <2>1. Own(t) /\ Answers(urb.pkt, t)
    BY <1>1, <1>9 DEF ExchangeInv, OwnInv, Own, InHandler
  <2>2. BufferAnswers(t)' /\ Answers(urb.pkt, t)'
    BY <1>1, <1>4, <2>1 DEF BufferAnswers, Answers
  <2> QED BY <1>1, <2>1, <2>2 DEF Own, Answers
<1>10. OwnInv'
  <2>1. \A t \in Threads : (Reads(t)' <=> Reads(t)) /\ (Building(t)' <=> Building(t))
    BY <1>1 DEF Reads, Building, Answered
  <2> QED BY <1>1, <1>6, <1>9, <2>1 DEF ExchangeInv, OwnInv
<1>11. FaultInv' /\ MatchedReply' /\ (NoSpiData => ErrorsHaveCause')
  BY <1>1, <1>7 DEF ExchangeInv, FaultInv, MatchedReply, ErrorsHaveCause, Answered
<1> QED BY <1>8, <1>10, <1>11 DEF ExchangeInv

LEMMA ExchangeStep ==
  ASSUME Timely, ExchangeInv, [Next]_vars
  PROVE  ExchangeInv'
<1>0. LockInv /\ LockInv' /\ TypeOK /\ TypeOK'
  BY LockStep DEF LockInv, ExchangeInv
<1>1. ASSUME NEW t \in Threads, Call(t) PROVE ExchangeInv'
  BY <1>0, <1>1, CallStep
<1>2. ASSUME NEW t \in Threads, CopyOut(t) PROVE ExchangeInv'
  BY <1>0, <1>2, CopyOutStep
<1>3. CASE Receive
  BY <1>0, <1>3, ReceiveStep
<1>4. CASE Serve
  BY <1>0, <1>4, ServeStep
<1>21. CASE ServeSilently
  BY <1>0, <1>21, ServeSilentlyStep
<1>22. CASE UartData
  BY <1>0, <1>22, UartDataStep
<1>14. ASSUME NEW p \in Commands, SendCommand(p) PROVE ExchangeInv'
  BY <1>0, <1>14, SendCommandStep
<1>8. ASSUME NEW t \in Threads, Send(t) PROVE ExchangeInv'
  BY <1>0, <1>8, SendStep
<1>15. CASE ReceiveError
  BY <1>0, <1>15, ReceiveErrorStep
<1>13. ASSUME NEW t \in Threads, Collect(t) PROVE ExchangeInv'
  BY <1>0, <1>13, CollectStep
<1>16. CASE CopyIn
  BY <1>0, <1>16, CopyInStep
<1>24. ASSUME NoSpiData, NEW t \in Threads, pc[t] = "wait", done = 0, ~ Underway(t) PROVE faults > 0
  BY <1>24, NotUnderway
<1> USE <1>0, CommandIsPacket, BlankIsPacket
    DEF Timely, SoleSpi, ExchangeInv, Alone, Awaited, OwnInv, Own, Answers, BufferAnswers, Reads, Building, CommandInv,
        FaultInv, MatchedReply, ErrorsHaveCause, Answered, InOut, InFlight, InHandler, InDone,
        Mutex, Holding, LockInv, TypeOK
<1> USE DEF transferVars, threadVars, wireVars, countVars, GoTo, Stage
<1>5. ASSUME NEW t \in Threads, Interrupt(t) PROVE ExchangeInv'
  <2>1. Alone'
    BY <1>5 DEF Interrupt
  <2>2. Awaited'
    BY <1>5 DEF Interrupt
  <2>3. OwnInv'
    BY <1>5 DEF Interrupt
  <2>4. CommandInv'
    BY <1>5 DEF Interrupt
  <2>5. FaultInv'
    BY <1>5 DEF Interrupt
  <2>6. MatchedReply'
    BY <1>5 DEF Interrupt
  <2>7. NoSpiData => ErrorsHaveCause'
    BY <1>5 DEF Interrupt
  <2>8. Whole'
    BY <1>5, WholeStays DEF Interrupt
  <2> QED
    BY <2>1, <2>2, <2>3, <2>4, <2>5, <2>6, <2>7, <2>8
<1>6. ASSUME NEW t \in Threads, Begin(t) PROVE ExchangeInv'
  <2>1. Alone'
    BY <1>6 DEF Begin
  <2>2. Awaited'
    BY <1>6 DEF Begin
  <2>3. OwnInv'
    BY <1>6 DEF Begin
  <2>4. CommandInv'
    BY <1>6 DEF Begin
  <2>5. FaultInv'
    BY <1>6 DEF Begin
  <2>6. MatchedReply'
    BY <1>6 DEF Begin
  <2>7. NoSpiData => ErrorsHaveCause'
    BY <1>6 DEF Begin
  <2>8. Whole'
    BY <1>6, WholeStays DEF Begin
  <2> QED
    BY <2>1, <2>2, <2>3, <2>4, <2>5, <2>6, <2>7, <2>8
<1>7. ASSUME NEW t \in Threads, Arm(t) PROVE ExchangeInv'
  <2>1. Alone'
    BY <1>7 DEF Arm
  <2>2. Awaited'
    BY <1>7 DEF Arm
  <2>3. OwnInv'
    BY <1>7 DEF Arm
  <2>4. CommandInv'
    BY <1>7 DEF Arm
  <2>5. FaultInv'
    BY <1>7 DEF Arm
  <2>6. MatchedReply'
    BY <1>7 DEF Arm
  <2>7. NoSpiData => ErrorsHaveCause'
    BY <1>7 DEF Arm
  <2>8. Whole'
    BY <1>7, WholeStays DEF Arm
  <2> QED
    BY <2>1, <2>2, <2>3, <2>4, <2>5, <2>6, <2>7, <2>8
<1>9. ASSUME NEW t \in Threads, SendFail(t) PROVE ExchangeInv'
  <2>1. Alone'
    BY <1>9 DEF SendFail, Failure
  <2>2. Awaited'
    BY <1>9 DEF SendFail, Failure
  <2>3. OwnInv'
    BY <1>9 DEF SendFail, Failure
  <2>4. CommandInv'
    BY <1>9 DEF SendFail, Failure
  <2>5. FaultInv'
    BY <1>9 DEF SendFail, Failure
  <2>6. MatchedReply'
    BY <1>9 DEF SendFail, Failure
  <2>7. NoSpiData => ErrorsHaveCause'
    BY <1>9 DEF SendFail, Failure
  <2>8. Whole'
    BY <1>9, WholeStays DEF SendFail, Failure
  <2> QED
    BY <2>1, <2>2, <2>3, <2>4, <2>5, <2>6, <2>7, <2>8
<1>10. ASSUME NEW t \in Threads, Wake(t) PROVE ExchangeInv'
  <2>1. Alone'
    BY <1>10 DEF Wake
  <2>2. Awaited'
    BY <1>10 DEF Wake
  <2>3. OwnInv'
    BY <1>10 DEF Wake
  <2>4. CommandInv'
    BY <1>10 DEF Wake
  <2>5. FaultInv'
    BY <1>10 DEF Wake
  <2>6. MatchedReply'
    BY <1>10 DEF Wake
  <2>7. NoSpiData => ErrorsHaveCause'
    BY <1>10 DEF Wake
  <2>8. Whole'
    BY <1>10, WholeStays DEF Wake
  <2> QED
    BY <2>1, <2>2, <2>3, <2>4, <2>5, <2>6, <2>7, <2>8
<1>11. ASSUME NEW t \in Threads, Timeout(t) PROVE ExchangeInv'
  <2>1. Alone'
    BY <1>11 DEF Timeout, Failure, Underway
  <2>2. Awaited'
    BY <1>11 DEF Timeout, Failure, Underway
  <2>3. OwnInv'
    BY <1>11 DEF Timeout, Failure, Underway
  <2>4. CommandInv'
    BY <1>11 DEF Timeout, Failure, Underway
  <2>5. FaultInv'
    BY <1>11 DEF Timeout, Failure, Underway
  <2>6. MatchedReply'
    BY <1>11 DEF Timeout, Failure, Underway
  <2>7. NoSpiData => ErrorsHaveCause'
    <3>1. NoSpiData => faults > 0
      BY <1>24, <1>11 DEF Timeout
    <3> QED
      BY <1>11, <3>1 DEF Timeout
  <2>8. Whole'
    BY <1>11, WholeStays DEF Timeout
  <2> QED
    BY <2>1, <2>2, <2>3, <2>4, <2>5, <2>6, <2>7, <2>8
<1>12. ASSUME NEW t \in Threads, Finish(t) PROVE ExchangeInv'
  <2>1. Alone'
    BY <1>12 DEF Finish
  <2>2. Awaited'
    BY <1>12 DEF Finish
  <2>3. OwnInv'
    BY <1>12 DEF Finish
  <2>4. CommandInv'
    BY <1>12 DEF Finish
  <2>5. FaultInv'
    BY <1>12 DEF Finish
  <2>6. MatchedReply'
    BY <1>12 DEF Finish
  <2>7. NoSpiData => ErrorsHaveCause'
    BY <1>12 DEF Finish
  <2>8. Whole'
    BY <1>12, WholeStays DEF Finish
  <2> QED
    BY <2>1, <2>2, <2>3, <2>4, <2>5, <2>6, <2>7, <2>8
<1>17. CASE Disarm
  <2>1. Alone'
    BY <1>17 DEF Disarm
  <2>2. Awaited'
    BY <1>17 DEF Disarm
  <2>3. OwnInv'
    BY <1>17 DEF Disarm
  <2>4. CommandInv'
    BY <1>17 DEF Disarm
  <2>5. FaultInv'
    BY <1>17 DEF Disarm
  <2>6. MatchedReply'
    BY <1>17 DEF Disarm
  <2>7. NoSpiData => ErrorsHaveCause'
    BY <1>17 DEF Disarm
  <2>8. Whole'
    BY <1>17, WholeStays DEF Disarm
  <2> QED
    BY <2>1, <2>2, <2>3, <2>4, <2>5, <2>6, <2>7, <2>8
<1>18. CASE Complete
  <2>1. Alone'
    BY <1>18 DEF Complete
  <2>2. Awaited'
    BY <1>18 DEF Complete
  <2>3. OwnInv'
    BY <1>18 DEF Complete
  <2>4. CommandInv'
    BY <1>18 DEF Complete
  <2>5. FaultInv'
    BY <1>18 DEF Complete
  <2>6. MatchedReply'
    BY <1>18 DEF Complete
  <2>7. NoSpiData => ErrorsHaveCause'
    BY <1>18 DEF Complete
  <2>8. Whole'
    BY <1>18, WholeStays DEF Complete
  <2> QED
    BY <2>1, <2>2, <2>3, <2>4, <2>5, <2>6, <2>7, <2>8
<1>19. CASE Resubmit
  <2>1. Alone'
    BY <1>19 DEF Resubmit
  <2>2. Awaited'
    BY <1>19 DEF Resubmit
  <2>3. OwnInv'
    BY <1>19 DEF Resubmit
  <2>4. CommandInv'
    BY <1>19 DEF Resubmit
  <2>5. FaultInv'
    BY <1>19 DEF Resubmit
  <2>6. MatchedReply'
    BY <1>19 DEF Resubmit
  <2>7. NoSpiData => ErrorsHaveCause'
    BY <1>19 DEF Resubmit
  <2>8. Whole'
    BY <1>19, WholeStays DEF Resubmit
  <2> QED
    BY <2>1, <2>2, <2>3, <2>4, <2>5, <2>6, <2>7, <2>8
<1>20. CASE ResubmitFail
  <2>1. Alone'
    BY <1>20 DEF ResubmitFail
  <2>2. Awaited'
    BY <1>20 DEF ResubmitFail
  <2>3. OwnInv'
    BY <1>20 DEF ResubmitFail
  <2>4. CommandInv'
    BY <1>20 DEF ResubmitFail
  <2>5. FaultInv'
    BY <1>20 DEF ResubmitFail
  <2>6. MatchedReply'
    BY <1>20 DEF ResubmitFail
  <2>7. NoSpiData => ErrorsHaveCause'
    BY <1>20 DEF ResubmitFail
  <2>8. Whole'
    BY <1>20, WholeStays DEF ResubmitFail
  <2> QED
    BY <2>1, <2>2, <2>3, <2>4, <2>5, <2>6, <2>7, <2>8
<1>23. CASE UNCHANGED vars
  <2>1. Alone'
    BY <1>23 DEF vars
  <2>2. Awaited'
    BY <1>23 DEF vars
  <2>3. OwnInv'
    BY <1>23 DEF vars
  <2>4. CommandInv'
    BY <1>23 DEF vars
  <2>5. FaultInv'
    BY <1>23 DEF vars
  <2>6. MatchedReply'
    BY <1>23 DEF vars
  <2>7. NoSpiData => ErrorsHaveCause'
    BY <1>23 DEF vars
  <2>8. Whole'
    BY <1>23, WholeStays DEF vars
  <2> QED
    BY <2>1, <2>2, <2>3, <2>4, <2>5, <2>6, <2>7, <2>8
<1> QED
  BY <1>1, <1>2, <1>3, <1>4, <1>5, <1>6, <1>7, <1>8, <1>9, <1>10, <1>11, <1>12, <1>13, <1>14,
     <1>15, <1>16, <1>17, <1>18, <1>19, <1>20, <1>21, <1>22, <1>23
     DEF Next, InTransfer, Handler, Device, Rest

-----------------------------------------------------------------------------

LEMMA ExchangeAlways == ASSUME Timely PROVE Spec => []ExchangeInv
<1>1. ExchangeInv /\ [Next]_vars => ExchangeInv'
  BY ExchangeStep
<1> QED BY ExchangeInit, <1>1, PTL DEF Spec

(* The packet a call returns as its answer is the answer to that call, for *)
(* any number of threads, commands and faults (core.c 371-399, 87-105).    *)
THEOREM AnswersMatch == ASSUME Timely PROVE Spec => []MatchedReply
<1>1. ExchangeInv => MatchedReply
  BY DEF ExchangeInv
<1> QED BY ExchangeAlways, <1>1, PTL

(* A call fails only after a fault: the order in which the buffer is armed *)
(* and disarmed loses no answer (core.c 380, 382, 396, 102).  SPI data may *)
(* fail without: a bus that was not configured does not answer.            *)
THEOREM FailuresHaveCause == ASSUME Timely, NoSpiData PROVE Spec => []ErrorsHaveCause
<1>1. ExchangeInv => ErrorsHaveCause
  BY DEF ExchangeInv
<1> QED BY ExchangeAlways, <1>1, PTL

(* The handler and a thread never use transfer_rx_buf at the same time     *)
(* (core.c 101 against 389, mfd-spi.c 114).                               *)
THEOREM RxBufNotShared == ASSUME Timely PROVE Spec => []RxBufExclusive
<1>1. ExchangeInv => RxBufExclusive
  BY NoReader DEF RxBufExclusive
<1> QED BY ExchangeAlways, <1>1, PTL

(* What is sent for a call is the packet its caller built (core.c 378-384).*)
THEOREM OwnPacketsSent == ASSUME Timely PROVE Spec => []OwnPacketSent
<1>1. ExchangeInv => OwnPacketSent
  BY DEF ExchangeInv, OwnInv, Building, OwnPacketSent
<1> QED BY ExchangeAlways, <1>1, PTL

=============================================================================
