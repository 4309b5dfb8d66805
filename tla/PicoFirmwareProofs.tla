------------------------- MODULE PicoFirmwareProofs -------------------------
(***************************************************************************)
(* Proofs about PicoFirmware, for all sizes of the queues: the types,      *)
(* that commands keep their order from the OUT endpoint to core 1, that    *)
(* what the host receives is neither repeated nor overtaken, and that no   *)
(* answer to SPI data is dropped.                                          *)
(***************************************************************************)
EXTENDS PicoFirmware, SequenceTheorems, TLAPS

-----------------------------------------------------------------------------
(* Sequences as queues.                                                    *)

LEMMA OneLemma ==
  ASSUME NEW n \in Nat, n > 0, n <= 1
  PROVE  n = 1
OBVIOUS

LEMMA PopLemma ==
  ASSUME NEW S, NEW s \in Seq(S), s # <<>>
  PROVE  /\ Head(s) \in S /\ Head(s) = s[1]
         /\ Tail(s) \in Seq(S) /\ Len(s) \in Nat /\ Len(s) > 0 /\ Len(Tail(s)) = Len(s) - 1
         /\ \A i \in 1 .. Len(Tail(s)) : Tail(s)[i] = s[i + 1]
OBVIOUS

LEMMA PushLemma ==
  ASSUME NEW S, NEW s \in Seq(S), NEW e \in S
  PROVE  /\ Append(s, e) \in Seq(S) /\ Len(s) \in Nat /\ Len(Append(s, e)) = Len(s) + 1
         /\ \A i \in 1 .. Len(s) + 1 :
              Append(s, e)[i] = IF i <= Len(s) THEN s[i] ELSE e
OBVIOUS

LEMMA JoinLemma ==
  ASSUME NEW S, NEW s \in Seq(S), NEW r \in Seq(S)
  PROVE  /\ s \o r \in Seq(S) /\ Len(s) \in Nat /\ Len(r) \in Nat
         /\ Len(s \o r) = Len(s) + Len(r)
         /\ \A i \in 1 .. Len(s) + Len(r) :
              (s \o r)[i] = IF i <= Len(s) THEN s[i] ELSE r[i - Len(s)]
OBVIOUS

-----------------------------------------------------------------------------
(* Core 1 has something left to write when it is not fetching.             *)
Busy == core1.at # "fetch" => core1.left # <<>> /\ executed # <<>>

TypeInv == TypeOK /\ Busy

InType ==
  /\ sent \in 0 .. MaxPackets
  /\ armed \in BOOLEAN
  /\ epout \in Seq(Commands) /\ Len(epout) <= 1
  /\ rxfifo \in Seq(Commands) /\ Len(rxfifo) <= RxSlots
  /\ queue \in Seq(Commands) /\ Len(queue) <= QueueSlots
  /\ executed \in Seq(Commands)

OutType ==
  /\ txfifo \in Seq(Outputs) /\ Len(txfifo) <= TxSlots
  /\ epin \in [at : {"idle", "sending", "sent"}, pkt : Seq(Outputs)]
  /\ delivered \in Seq(Outputs)

UartType ==
  /\ hand \in 0 .. MaxUart
  /\ uart \in Seq(1 .. MaxUart)
  /\ arrived \in 0 .. MaxUart

CoreType ==
  /\ core0 \in {"task", "callback", "flush", "lock", "write"}
  /\ core1 \in [at : {"fetch", "lock", "write"}, left : Seq({"log", "answer", "wait"})]
  /\ mutex \in {"free", "core 0", "core 1"}

LEMMA TypeParts == TypeOK <=> InType /\ OutType /\ UartType /\ CoreType
BY DEF TypeOK, InType, OutType, UartType, CoreType

(* The armed OUT endpoint has room for the packet it asks for: the FIFO    *)
(* does not overflow when tud_task moves the packet there.                 *)
RoomInv ==
  /\ armed => epout = <<>> /\ Len(rxfifo) < RxSlots
  /\ epout # <<>> => Len(rxfifo) < RxSlots

(* The number of each command is its place in the line that executed,      *)
(* queue, rxfifo and the endpoint form.                                    *)
Numbered ==
  /\ \A i \in 1 .. Len(executed) : executed[i].id = i
  /\ \A i \in 1 .. Len(queue) : queue[i].id = Len(executed) + i
  /\ \A i \in 1 .. Len(rxfifo) : rxfifo[i].id = Len(executed) + Len(queue) + i
  /\ epout # <<>> => epout[1].id = sent
  /\ Len(executed) + Len(queue) + Len(rxfifo) + Len(epout) = sent

InInv == InType /\ RoomInv /\ Numbered

FirmwareInv == TypeInv /\ RoomInv /\ Numbered

LEMMA FirmwareInit == Init => FirmwareInv
BY SlotsAssumption, MaxAssumption
   DEF Init, FirmwareInv, TypeInv, TypeOK, Busy, RoomInv, Numbered

-----------------------------------------------------------------------------
(* The way in.                                                             *)

LEMMA HostSendStep ==
  ASSUME InInv, NEW kind \in Kinds, HostSend(kind)
  PROVE  InInv'
<1> DEFINE p == [id |-> sent + 1, kind |-> kind]
<1>1. p \in Commands /\ sent + 1 \in 1 .. MaxPackets /\ sent \in Nat
  BY MaxAssumption, KindsAssumption DEF HostSend, Commands, InInv, InType
<1>2. /\ epout = <<>> /\ Len(rxfifo) < RxSlots
      /\ armed' = FALSE /\ epout' = <<p>> /\ sent' = sent + 1
      /\ UNCHANGED <<rxfifo, queue, executed>>
  BY DEF HostSend, InInv, RoomInv
<1> HIDE DEF p
<1>3. <<p>> \in Seq(Commands) /\ Len(<<p>>) = 1 /\ <<p>>[1] = p /\ Len(<<>>) = 0
  BY <1>1
<1>4. epout' = <<p>> /\ armed' = FALSE
  BY <1>2
<1>5. InType'
  <2>1. epout' \in Seq(Commands) /\ Len(epout') <= 1
    <3>1. Len(epout') = 1
      BY <1>3, <1>4
    <3> QED BY <1>3, <1>4, <3>1
  <2>3. armed' \in BOOLEAN
    BY <1>4
  <2>2. sent' \in 0 .. MaxPackets
    BY <1>1, <1>2, MaxAssumption
  <2> QED BY <1>2, <2>1, <2>2, <2>3 DEF InInv, InType
<1>6. RoomInv'
  BY <1>2, <1>4 DEF RoomInv
<1>7. Len(executed) \in Nat /\ Len(queue) \in Nat /\ Len(rxfifo) \in Nat
  BY DEF InInv, InType
<1>8. p.id = sent + 1
  BY DEF p
<1>9. sent = Len(executed) + Len(queue) + Len(rxfifo)
  BY <1>2, <1>3, <1>7 DEF InInv, Numbered
<1>10. Numbered'
  BY <1>2, <1>3, <1>4, <1>7, <1>8, <1>9, <1>1 DEF InInv, Numbered
<1> QED BY <1>5, <1>6, <1>10 DEF InInv

LEMMA TaskOutStep ==
  ASSUME InInv, TaskOut
  PROVE  InInv'
<1>1. /\ rxfifo \in Seq(Commands) /\ epout \in Seq(Commands) /\ epout # <<>>
      /\ Len(epout) = 1 /\ Len(rxfifo) < RxSlots /\ armed = FALSE
  <2>1. epout # <<>> /\ armed \in BOOLEAN /\ epout \in Seq(Commands)
        /\ Len(epout) <= 1 /\ rxfifo \in Seq(Commands)
    BY DEF TaskOut, InInv, InType
  <2>2. Len(rxfifo) < RxSlots /\ armed = FALSE
    BY <2>1 DEF InInv, RoomInv
  <2>3. epout \in Seq(Commands)
    BY <2>1
  <2>4. Len(epout) \in Nat /\ Len(epout) > 0 /\ Len(epout) <= 1
    BY <2>1, <2>3, PopLemma
  <2>5. Len(epout) = 1
    BY <2>4, OneLemma
  <2> QED BY <2>1, <2>2, <2>3, <2>5
<1>2. /\ rxfifo' = rxfifo \o epout /\ epout' = <<>> /\ armed' = FALSE
      /\ armed' \in BOOLEAN /\ Len(epout') = 0
      /\ UNCHANGED <<sent, queue, executed>>
  <2>1. armed \in BOOLEAN /\ epout \in Seq(Commands)
    BY DEF InInv, InType
  <2>2. epout' = <<>> /\ armed' = armed /\ rxfifo' = rxfifo \o epout
        /\ UNCHANGED <<sent, queue, executed>>
    BY DEF TaskOut
  <2>3. <<>> \in Seq(Commands) /\ Len(<<>>) = 0
    OBVIOUS
  <2> QED BY <1>1, <2>1, <2>2, <2>3
<1>3. /\ rxfifo' \in Seq(Commands) /\ Len(rxfifo) \in Nat /\ Len(rxfifo') = Len(rxfifo) + 1
      /\ \A i \in 1 .. Len(rxfifo') :
           rxfifo'[i] = IF i <= Len(rxfifo) THEN rxfifo[i] ELSE epout[1]
  <2> DEFINE r == epout
  <2>0. r \in Seq(Commands) /\ Len(r) = 1 /\ rxfifo' = rxfifo \o r
    BY <1>1, <1>2
  <2> HIDE DEF r
  <2>1. /\ rxfifo' \in Seq(Commands) /\ Len(rxfifo) \in Nat /\ Len(rxfifo') = Len(rxfifo) + 1
        /\ \A i \in 1 .. Len(rxfifo) + 1 :
             rxfifo'[i] = IF i <= Len(rxfifo) THEN rxfifo[i] ELSE r[i - Len(rxfifo)]
    <3>1. /\ rxfifo \o r \in Seq(Commands) /\ Len(rxfifo) \in Nat /\ Len(r) \in Nat
          /\ Len(rxfifo \o r) = Len(rxfifo) + Len(r)
          /\ \A i \in 1 .. Len(rxfifo) + Len(r) :
               (rxfifo \o r)[i] = IF i <= Len(rxfifo) THEN rxfifo[i] ELSE r[i - Len(rxfifo)]
      BY <1>1, <2>0, JoinLemma, Zenon
    <3> QED BY <2>0, <3>1, Zenon
  <2>2. \A i \in 1 .. Len(rxfifo) + 1 : i <= Len(rxfifo) \/ i - Len(rxfifo) = 1
    BY <2>1
  <2> QED BY <2>1, <2>2 DEF r
<1>4. InType'
  BY <1>1, <1>2, <1>3, SlotsAssumption DEF InInv, InType
<1>5. RoomInv'
  BY <1>2 DEF RoomInv
<1>6. Len(executed) \in Nat /\ Len(queue) \in Nat
  BY DEF InInv, InType
<1>7. Numbered'
  <2>1. Len(executed) + Len(queue) + Len(rxfifo) + 1 = sent /\ epout[1].id = sent
    BY <1>1 DEF InInv, Numbered
  <2>2. \A i \in 1 .. Len(rxfifo') : rxfifo'[i].id = Len(executed) + Len(queue) + i
    <3> SUFFICES ASSUME NEW i \in 1 .. Len(rxfifo')
                 PROVE  rxfifo'[i].id = Len(executed) + Len(queue) + i
      OBVIOUS
    <3>1. CASE i <= Len(rxfifo)
      BY <1>3, <3>1 DEF InInv, Numbered
    <3>2. CASE i = Len(rxfifo) + 1
      BY <1>3, <1>6, <2>1, <3>2
    <3> QED BY <1>3, <3>1, <3>2
  <2>3. Len(executed) + Len(queue) + Len(rxfifo') + 0 = sent
    BY <1>3, <1>6, <2>1
  <2> QED BY <1>2, <2>2, <2>3 DEF InInv, Numbered
<1> QED BY <1>4, <1>5, <1>7 DEF InInv

LEMMA RearmLemma ==
  ASSUME InInv, rxfifo' \in Seq(Commands), Len(rxfifo') <= Len(rxfifo), Len(rxfifo') \in Nat,
         Rearm(rxfifo'), epout' = epout
  PROVE  /\ armed' \in BOOLEAN
         /\ epout' = epout
         /\ RoomInv'
<1>1. /\ armed \in BOOLEAN /\ epout \in Seq(Commands) /\ Len(rxfifo) \in Nat
      /\ RxSlots \in Nat
  BY SlotsAssumption DEF InInv, InType
<1>2. epout' = epout
      /\ armed' = (armed \/ (epout = <<>> /\ Len(rxfifo') < RxSlots))
  BY DEF Rearm
<1>3. armed' \in BOOLEAN
  BY <1>1 DEF Rearm
<1> QED BY <1>1, <1>2, <1>3 DEF InInv, RoomInv

LEMMA DrainStep ==
  ASSUME InInv, Drain
  PROVE  InInv'
<1>1. /\ rxfifo \in Seq(Commands) /\ rxfifo # <<>> /\ queue \in Seq(Commands)
      /\ Len(queue) < QueueSlots /\ QueueSlots \in Nat /\ RxSlots \in Nat
  BY SlotsAssumption DEF Drain, InInv, InType
<1>2. /\ rxfifo' = Tail(rxfifo) /\ queue' = Append(queue, Head(rxfifo))
      /\ UNCHANGED <<sent, executed>>
  BY DEF Drain
<1>3. /\ Head(rxfifo) \in Commands /\ Head(rxfifo) = rxfifo[1]
      /\ rxfifo' \in Seq(Commands) /\ Len(rxfifo) \in Nat /\ Len(rxfifo) > 0
      /\ Len(rxfifo') = Len(rxfifo) - 1
      /\ \A i \in 1 .. Len(rxfifo') : rxfifo'[i] = rxfifo[i + 1]
  BY <1>1, <1>2, PopLemma
<1>4. /\ queue' \in Seq(Commands) /\ Len(queue) \in Nat /\ Len(queue') = Len(queue) + 1
      /\ \A i \in 1 .. Len(queue') :
           queue'[i] = IF i <= Len(queue) THEN queue[i] ELSE rxfifo[1]
  BY <1>1, <1>2, <1>3, PushLemma
<1>5. /\ armed' \in BOOLEAN
      /\ epout' = epout
      /\ RoomInv'
  BY <1>3, RearmLemma DEF Drain
<1>6. InType'
  BY <1>1, <1>2, <1>3, <1>4, <1>5 DEF InInv, InType
<1>7. Len(executed) \in Nat
  BY DEF InInv, InType
<1>8. Numbered'
  <2>1. /\ Len(executed) + Len(queue) + Len(rxfifo) + Len(epout) = sent
        /\ rxfifo[1].id = Len(executed) + Len(queue) + 1
    BY <1>3 DEF InInv, Numbered
  <2>2. \A i \in 1 .. Len(queue') : queue'[i].id = Len(executed) + i
    <3> SUFFICES ASSUME NEW i \in 1 .. Len(queue') PROVE queue'[i].id = Len(executed) + i
      OBVIOUS
    <3>1. CASE i <= Len(queue)
      BY <1>4, <3>1 DEF InInv, Numbered
    <3>2. CASE i = Len(queue) + 1
      BY <1>4, <1>7, <2>1, <3>2
    <3> QED BY <1>4, <3>1, <3>2
  <2>3. \A i \in 1 .. Len(rxfifo') : rxfifo'[i].id = Len(executed) + Len(queue') + i
    <3> SUFFICES ASSUME NEW i \in 1 .. Len(rxfifo')
                 PROVE  rxfifo'[i].id = Len(executed) + Len(queue') + i
      OBVIOUS
    <3>1. rxfifo[i + 1].id = Len(executed) + Len(queue) + (i + 1)
      BY <1>3 DEF InInv, Numbered
    <3> QED BY <1>3, <1>4, <1>7, <3>1
  <2>4. Len(executed) + Len(queue') + Len(rxfifo') + Len(epout) = sent
    <3>1. Len(epout) \in Nat
      BY DEF InInv, InType
    <3> QED BY <1>3, <1>4, <1>7, <2>1, <3>1
  <2> QED BY <1>2, <1>5, <2>2, <2>3, <2>4 DEF InInv, Numbered
<1> QED BY <1>5, <1>6, <1>8 DEF InInv

LEMMA DrainEndStep ==
  ASSUME InInv, DrainEnd
  PROVE  InInv'
<1>1. rxfifo \in Seq(Commands) /\ Len(rxfifo) \in Nat
      /\ UNCHANGED <<sent, epout, rxfifo, queue, executed>> /\ Rearm(rxfifo')
  BY DEF DrainEnd, InInv, InType
<1>2. /\ armed' \in BOOLEAN
      /\ epout' = epout
      /\ RoomInv'
  BY <1>1, RearmLemma
<1> QED BY <1>1, <1>2 DEF InInv, InType, Numbered

LEMMA ExecuteStep ==
  ASSUME InInv, Execute
  PROVE  InInv' /\ executed' # <<>>
<1>1. /\ queue \in Seq(Commands) /\ queue # <<>> /\ executed \in Seq(Commands)
      /\ Len(queue) <= QueueSlots /\ QueueSlots \in Nat
  BY SlotsAssumption DEF Execute, InInv, InType
<1>2. /\ queue' = Tail(queue) /\ executed' = Append(executed, Head(queue))
      /\ UNCHANGED <<sent, armed, epout, rxfifo>>
  BY DEF Execute
<1>3. /\ Head(queue) \in Commands /\ Head(queue) = queue[1]
      /\ queue' \in Seq(Commands) /\ Len(queue) \in Nat /\ Len(queue) > 0
      /\ Len(queue') = Len(queue) - 1
      /\ \A i \in 1 .. Len(queue') : queue'[i] = queue[i + 1]
  BY <1>1, <1>2, PopLemma
<1>4. /\ executed' \in Seq(Commands) /\ Len(executed) \in Nat
      /\ Len(executed') = Len(executed) + 1
      /\ \A i \in 1 .. Len(executed') :
           executed'[i] = IF i <= Len(executed) THEN executed[i] ELSE queue[1]
  BY <1>1, <1>2, <1>3, PushLemma
<1>5. InType'
  BY <1>1, <1>2, <1>3, <1>4 DEF InInv, InType
<1>6. RoomInv'
  BY <1>2 DEF InInv, RoomInv
<1>7. Len(rxfifo) \in Nat /\ Len(epout) \in Nat
  BY DEF InInv, InType
<1>8. Numbered'
  <2>1. /\ Len(executed) + Len(queue) + Len(rxfifo) + Len(epout) = sent
        /\ queue[1].id = Len(executed) + 1
    BY <1>3 DEF InInv, Numbered
  <2>2. \A i \in 1 .. Len(executed') : executed'[i].id = i
    <3> SUFFICES ASSUME NEW i \in 1 .. Len(executed') PROVE executed'[i].id = i
      OBVIOUS
    <3>1. CASE i <= Len(executed)
      BY <1>4, <3>1 DEF InInv, Numbered
    <3>2. CASE i = Len(executed) + 1
      BY <1>4, <2>1, <3>2
    <3> QED BY <1>4, <3>1, <3>2
  <2>3. \A i \in 1 .. Len(queue') : queue'[i].id = Len(executed') + i
    <3> SUFFICES ASSUME NEW i \in 1 .. Len(queue') PROVE queue'[i].id = Len(executed') + i
      OBVIOUS
    <3>1. queue[i + 1].id = Len(executed) + (i + 1)
      BY <1>3 DEF InInv, Numbered
    <3>2. Len(executed') = Len(executed) + 1 /\ queue'[i] = queue[i + 1] /\ i \in Nat
      BY <1>3, <1>4
    <3> QED BY <1>1, <1>4, <3>1, <3>2
  <2>4. Len(executed') + Len(queue') = Len(executed) + Len(queue)
    BY <1>3, <1>4
  <2> QED BY <1>2, <2>1, <2>2, <2>3, <2>4 DEF InInv, Numbered
<1>9. executed' # <<>>
  BY <1>2, <1>4
<1> QED BY <1>5, <1>6, <1>8, <1>9 DEF InInv

LEMMA InStep ==
  ASSUME InInv, [Next]_vars
  PROVE  InInv'
<1>1. ASSUME UNCHANGED inVars PROVE InInv'
  BY <1>1 DEF inVars, InInv, InType, RoomInv, Numbered
<1>2. CASE \E kind \in Kinds : HostSend(kind)
  BY <1>2, HostSendStep
<1>3. CASE Core0
  BY <1>1, <1>3, TaskOutStep, DrainStep, DrainEndStep
     DEF Core0, TaskIn, TaskEnd, UartSkip, UartTake, Lock0, Write0
<1>4. CASE Core1
  BY <1>1, <1>4, ExecuteStep DEF Core1, Lock1, Write1, Wait1
<1>5. CASE HostTake \/ UartRx \/ UNCHANGED vars
  BY <1>1, <1>5 DEF HostTake, UartRx, vars
<1> QED BY <1>2, <1>3, <1>4, <1>5 DEF Next

-----------------------------------------------------------------------------
(* The way out.                                                            *)

LEMMA WritesLemma ==
  ASSUME NEW kind \in AllKinds
  PROVE  Writes(kind) \in Seq({"log", "answer", "wait"})
<1>1. /\ <<>> \in Seq({"log", "answer", "wait"})
      /\ <<"answer">> \in Seq({"log", "answer", "wait"})
      /\ <<"log", "answer">> \in Seq({"log", "answer", "wait"})
      /\ <<"wait">> \in Seq({"log", "answer", "wait"})
  OBVIOUS
<1>2. Writes(kind) \in {<<>>, <<"answer">>, <<"log", "answer">>, <<"wait">>}
  BY DEF AllKinds, Writes
<1> QED BY <1>1, <1>2

LEMMA WriteLemma ==
  ASSUME OutType, NEW p \in Outputs, Write(p), delivered' = delivered
  PROVE  OutType'
<1> DEFINE f == IF Room THEN Append(txfifo, p) ELSE txfifo
<1>1. txfifo \in Seq(Outputs) /\ Len(txfifo) \in Nat /\ Len(txfifo) <= TxSlots /\ TxSlots \in Nat
  BY SlotsAssumption DEF OutType
<1>2. f \in Seq(Outputs) /\ Len(f) <= TxSlots /\ Len(f) \in Nat
  BY <1>1, PushLemma DEF Room
<1>3. Flush(f)
  BY DEF Write
<1> HIDE DEF f
<1>4. CASE epin.at = "idle" /\ f # <<>>
  <2>1. Head(f) \in Outputs /\ Tail(f) \in Seq(Outputs) /\ Len(Tail(f)) = Len(f) - 1
    BY <1>2, <1>4, PopLemma
  <2>2. epin' = [at |-> "sending", pkt |-> <<Head(f)>>] /\ txfifo' = Tail(f)
    BY <1>3, <1>4 DEF Flush
  <2> QED BY <1>1, <1>2, <2>1, <2>2 DEF OutType
<1>5. CASE ~(epin.at = "idle" /\ f # <<>>)
  BY <1>2, <1>3, <1>5 DEF Flush, OutType
<1> QED BY <1>4, <1>5

LEMMA TypeStep ==
  ASSUME InInv, TypeInv, [Next]_vars
  PROVE  TypeInv'
<1>0. InType /\ OutType /\ UartType /\ CoreType /\ Busy
  BY TypeParts DEF TypeInv
<1>1. InType'
  BY InStep DEF InInv
<1>2. ASSUME OutType', UartType', CoreType', Busy' PROVE TypeInv'
  <2>1. TypeOK'
    BY <1>1, <1>2 DEF TypeOK, InType, OutType, UartType, CoreType
  <2> QED BY <1>2, <2>1 DEF TypeInv
<1>3. ASSUME UNCHANGED outVars PROVE OutType'
  BY <1>0, <1>3 DEF outVars, OutType
<1>4. ASSUME UNCHANGED uartVars PROVE UartType'
  BY <1>0, <1>4 DEF uartVars, UartType
<1>5. ASSUME core1' = core1, executed' = executed PROVE Busy'
  BY <1>0, <1>5 DEF Busy
<1>6. ASSUME core1' = core1, mutex' = mutex,
             core0' \in {"task", "callback", "flush", "lock", "write"}
      PROVE  CoreType'
  BY <1>0, <1>6 DEF CoreType
<1>7. CASE \E kind \in Kinds : HostSend(kind)
  BY <1>0, <1>2, <1>3, <1>4, <1>5, <1>6, <1>7 DEF HostSend, CoreType
<1>8. CASE HostTake
  <2>1. delivered \o epin.pkt \in Seq(Outputs)
    BY <1>0, JoinLemma DEF OutType
  <2>2. OutType'
    BY <1>0, <1>8, <2>1 DEF HostTake, OutType
  <2> QED BY <1>0, <1>2, <1>4, <1>5, <1>6, <1>8, <2>2 DEF HostTake, inVars, CoreType
<1>9. CASE UartRx
  <2>1. UartType'
    BY <1>0, <1>9, MaxAssumption DEF UartRx, UartType
  <2> QED BY <1>0, <1>2, <1>3, <1>5, <1>6, <1>9, <2>1 DEF UartRx, inVars, CoreType
<1>10. CASE TaskOut \/ Drain \/ DrainEnd
  BY <1>0, <1>2, <1>3, <1>4, <1>5, <1>6, <1>10 DEF TaskOut, Drain, DrainEnd
<1>11. CASE TaskEnd \/ UartSkip
  BY <1>0, <1>2, <1>3, <1>4, <1>5, <1>6, <1>11 DEF TaskEnd, UartSkip, inVars
<1>12. CASE TaskIn
  <2>1. txfifo \in Seq(Outputs) /\ Len(txfifo) \in Nat /\ Len(txfifo) <= TxSlots
        /\ TxSlots \in Nat
    BY <1>0, SlotsAssumption DEF OutType
  <2>2. delivered' = delivered
    BY <1>12 DEF TaskIn
  <2>3. ASSUME txfifo = <<>> PROVE OutType'
    <3>1. epin' = [at |-> "idle", pkt |-> <<>>] /\ txfifo' = <<>>
      BY <1>12, <2>3 DEF TaskIn
    <3>2. <<>> \in Seq(Outputs) /\ Len(<<>>) = 0 /\ 0 <= TxSlots
      BY <2>1
    <3> QED BY <1>0, <2>2, <3>1, <3>2 DEF OutType
  <2>4. ASSUME txfifo # <<>> PROVE OutType'
    <3>1. Head(txfifo) \in Outputs /\ Tail(txfifo) \in Seq(Outputs)
          /\ Len(Tail(txfifo)) = Len(txfifo) - 1
      BY <2>1, <2>4, PopLemma
    <3>2. epin' = [at |-> "sending", pkt |-> <<Head(txfifo)>>] /\ txfifo' = Tail(txfifo)
      BY <1>12, <2>4 DEF TaskIn
    <3>3. <<Head(txfifo)>> \in Seq(Outputs) /\ Len(Tail(txfifo)) <= TxSlots
      BY <2>1, <3>1
    <3> QED BY <1>0, <2>2, <3>1, <3>2, <3>3 DEF OutType
  <2> QED BY <1>0, <1>2, <1>4, <1>5, <1>6, <1>12, <2>3, <2>4 DEF TaskIn, inVars, CoreType
<1>13. CASE UartTake
  <2>1. Head(uart) \in 1 .. MaxUart /\ Tail(uart) \in Seq(1 .. MaxUart)
    BY <1>0, <1>13, PopLemma DEF UartTake, UartType
  <2>2. UartType'
    BY <1>0, <1>13, <2>1, MaxAssumption DEF UartTake, UartType
  <2> QED BY <1>0, <1>2, <1>3, <1>5, <1>6, <1>13, <2>2 DEF UartTake, inVars
<1>14. CASE Lock0
  <2>1. CoreType'
    BY <1>0, <1>14 DEF Lock0, CoreType
  <2> QED BY <1>2, <1>3, <1>4, <1>5, <1>14, <2>1 DEF Lock0, inVars
<1>15. CASE Write0
  <2>1. [id |-> hand, what |-> "uart"] \in Outputs
    BY <1>0, MaxAssumption DEF UartType, Outputs
  <2>2. OutType'
    BY <1>0, <1>15, <2>1, WriteLemma DEF Write0
  <2>3. UartType'
    BY <1>0, <1>15, MaxAssumption DEF Write0, UartType
  <2>4. CoreType'
    BY <1>0, <1>15 DEF Write0, CoreType
  <2> QED BY <1>2, <1>5, <1>15, <2>2, <2>3, <2>4 DEF Write0, inVars
<1>16. CASE Execute
  <2>1. Head(queue) \in Commands
    BY <1>0, <1>16, PopLemma DEF Execute, InType
  <2>2. Writes(Head(queue).kind) \in Seq({"log", "answer", "wait"})
    BY <2>1, WritesLemma, KindsAssumption DEF Commands
  <2>3. CoreType'
    BY <1>0, <1>16, <2>2 DEF Execute, CoreType
  <2>4. Busy'
    BY <1>16, ExecuteStep DEF Execute, Busy
  <2> QED BY <1>2, <1>3, <1>4, <1>16, <2>3, <2>4 DEF Execute
<1>17. CASE Lock1 \/ Wait1
  <2>1. CoreType'
    BY <1>0, <1>17 DEF Lock1, Wait1, CoreType
  <2>2. Busy'
    BY <1>0, <1>17 DEF Lock1, Wait1, Busy, CoreType, inVars
  <2> QED BY <1>2, <1>3, <1>4, <1>17, <2>1, <2>2 DEF Lock1, Wait1
<1>18. CASE Write1
  <2>1. core1.left # <<>> /\ executed # <<>> /\ core1.left \in Seq({"log", "answer", "wait"})
    BY <1>0, <1>18 DEF Write1, Busy, CoreType
  <2>2. Head(core1.left) \in {"log", "answer", "wait"}
        /\ Tail(core1.left) \in Seq({"log", "answer", "wait"})
    BY <2>1, PopLemma
  <2>3. Current \in Commands
    BY <1>0, <2>1 DEF InType, Current
  <2>4. Current.id \in Nat
    BY <2>3, MaxAssumption DEF Commands
  <2>5. [id |-> Current.id, what |-> Head(core1.left)] \in Outputs
    BY <2>2, <2>4 DEF Outputs
  <2>6. OutType'
    BY <1>0, <1>18, <2>5, WriteLemma DEF Write1
  <2>7. CoreType'
    BY <1>0, <1>18, <2>2 DEF Write1, CoreType
  <2>8. Busy'
    BY <1>18, <2>1 DEF Write1, Busy, inVars
  <2> QED BY <1>2, <1>4, <1>18, <2>6, <2>7, <2>8 DEF Write1
<1>19. CASE UNCHANGED vars
  BY <1>0, <1>2, <1>3, <1>4, <1>5, <1>6, <1>19 DEF vars, inVars, CoreType
<1> QED
  BY <1>7, <1>8, <1>9, <1>10, <1>11, <1>12, <1>13, <1>14, <1>15, <1>16, <1>17, <1>18, <1>19
     DEF Next, Core0, Core1

LEMMA FirmwareStep == FirmwareInv /\ [Next]_vars => FirmwareInv'
<1> SUFFICES ASSUME FirmwareInv, [Next]_vars PROVE FirmwareInv'
  OBVIOUS
<1>1. InInv /\ TypeInv
  BY TypeParts DEF FirmwareInv, TypeInv, InInv
<1> QED BY <1>1, InStep, TypeStep DEF InInv, FirmwareInv

(* Every variable keeps its type and no queue exceeds its size: in         *)
(* particular, what the endpoint receives always fits the receive FIFO     *)
(* (main.c 186, 220-234; tusb_config.h 22-23).                             *)
THEOREM FirmwareTypeCorrect == Spec => []TypeOK
<1>1. FirmwareInv => TypeOK
  BY DEF FirmwareInv, TypeInv
<1> QED BY FirmwareInit, FirmwareStep, <1>1, PTL DEF Spec

LEMMA NumberedInOrder == FirmwareInv => CommandsInOrder
<1> SUFFICES ASSUME FirmwareInv PROVE CommandsInOrder
  OBVIOUS
<1> DEFINE q == executed \o queue
           f == q \o rxfifo
           e == f \o epout
<1>1. /\ executed \in Seq(Commands) /\ queue \in Seq(Commands)
      /\ rxfifo \in Seq(Commands) /\ epout \in Seq(Commands) /\ sent \in Nat
      /\ Len(epout) <= 1
  <2>1. /\ executed \in Seq(Commands) /\ queue \in Seq(Commands) /\ rxfifo \in Seq(Commands)
        /\ armed \in BOOLEAN /\ epout \in Seq(Commands) /\ Len(epout) <= 1
        /\ sent \in 0 .. MaxPackets
    BY DEF FirmwareInv, TypeInv, TypeOK
  <2> QED BY <2>1, MaxAssumption
<1>2. /\ Len(executed) \in Nat /\ Len(queue) \in Nat /\ Len(rxfifo) \in Nat
      /\ Len(epout) \in Nat
  BY <1>1
<1>3. /\ q \in Seq(Commands) /\ Len(q) = Len(executed) + Len(queue)
      /\ \A i \in 1 .. Len(q) : q[i].id = i
  <2>1. /\ q \in Seq(Commands) /\ Len(q) = Len(executed) + Len(queue)
        /\ \A i \in 1 .. Len(q) :
             q[i] = IF i <= Len(executed) THEN executed[i] ELSE queue[i - Len(executed)]
    BY <1>1, JoinLemma
  <2> HIDE DEF q
  <2>2. ASSUME NEW i \in 1 .. Len(q) PROVE q[i].id = i
    <3>1. CASE i <= Len(executed)
      BY <1>2, <2>1, <3>1 DEF FirmwareInv, Numbered
    <3>2. CASE i > Len(executed)
      <4>1. i - Len(executed) \in 1 .. Len(queue)
        BY <1>2, <2>1, <3>2
      <4>2. queue[i - Len(executed)].id = Len(executed) + (i - Len(executed))
        BY <4>1 DEF FirmwareInv, Numbered
      <4> QED BY <1>2, <2>1, <3>2, <4>2
    <3> QED BY <1>2, <3>1, <3>2
  <2> QED BY <2>1, <2>2
<1>4. /\ f \in Seq(Commands) /\ Len(f) = Len(q) + Len(rxfifo)
      /\ \A i \in 1 .. Len(f) : f[i].id = i
  <2>1. /\ f \in Seq(Commands) /\ Len(f) = Len(q) + Len(rxfifo)
        /\ \A i \in 1 .. Len(f) : f[i] = IF i <= Len(q) THEN q[i] ELSE rxfifo[i - Len(q)]
    BY <1>1, <1>3, JoinLemma
  <2> HIDE DEF q, f
  <2>2. ASSUME NEW i \in 1 .. Len(f) PROVE f[i].id = i
    <3>1. CASE i <= Len(q)
      BY <1>2, <1>3, <2>1, <3>1
    <3>2. CASE i > Len(q)
      <4>1. i - Len(q) \in 1 .. Len(rxfifo)
        BY <1>2, <1>3, <2>1, <3>2
      <4>2. rxfifo[i - Len(q)].id = Len(executed) + Len(queue) + (i - Len(q))
        BY <4>1 DEF FirmwareInv, Numbered
      <4> QED BY <1>2, <1>3, <2>1, <3>2, <4>2
    <3> QED BY <1>2, <1>3, <3>1, <3>2
  <2> QED BY <2>1, <2>2
<1>5. Len(e) = sent /\ \A i \in 1 .. sent : e[i].id = i
  <2>1. /\ Len(e) = Len(f) + Len(epout)
        /\ \A i \in 1 .. Len(e) : e[i] = IF i <= Len(f) THEN f[i] ELSE epout[i - Len(f)]
    BY <1>1, <1>4, JoinLemma
  <2> HIDE DEF q, f, e
  <2>2. Len(f) + Len(epout) = sent
    BY <1>2, <1>3, <1>4 DEF FirmwareInv, Numbered
  <2>3. ASSUME NEW i \in 1 .. sent PROVE e[i].id = i
    <3>1. CASE i <= Len(f)
      BY <1>1, <1>2, <1>3, <1>4, <2>1, <2>2, <3>1
    <3>2. CASE i > Len(f)
      <4>1. i - Len(f) = 1 /\ i = sent /\ Len(epout) = 1
        <5>1. Len(f) \in Nat /\ i \in Nat /\ sent \in Nat /\ Len(epout) \in Nat
          BY <1>1, <1>2, <1>4
        <5>2. Len(epout) > 0
          BY <2>2, <3>2, <5>1
        <5>3. Len(epout) = 1
          BY <1>1, <5>1, <5>2, OneLemma
        <5> QED BY <2>2, <3>2, <5>1, <5>3
      <4>2. epout # <<>>
        BY <4>1
      <4>3. epout[1].id = sent
        BY <4>2 DEF FirmwareInv, Numbered
      <4>4. e[i] = epout[1]
        BY <1>1, <1>2, <1>3, <1>4, <2>1, <2>2, <3>2, <4>1
      <4> QED BY <4>1, <4>3, <4>4
    <3> QED BY <1>2, <1>3, <1>4, <3>1, <3>2
  <2> QED BY <2>1, <2>2, <2>3
<1> QED BY <1>5 DEF CommandsInOrder

(* For all sizes of the queues, no command the OUT endpoint accepted is    *)
(* lost, duplicated or overtaken on its way to core 1 (main.c 220-234).    *)
THEOREM CommandsKeepOrder == Spec => []CommandsInOrder
BY FirmwareInit, FirmwareStep, NumberedInOrder, PTL DEF Spec

-----------------------------------------------------------------------------
(* Output grows at its end only.                                           *)

(* Nothing is at the endpoint unless it is sending.                        *)
Settled == epin.at # "sending" => epin.pkt = <<>>

(* Where the packets are does not matter to Output.                        *)
LEMMA HeadTailLemma ==
  ASSUME NEW S, NEW s \in Seq(S), NEW r \in Seq(S), r # <<>>
  PROVE  (s \o <<Head(r)>>) \o Tail(r) = s \o r
<1>1. Head(r) \in S /\ Tail(r) \in Seq(S) /\ <<Head(r)>> \in Seq(S)
  BY HeadTailProperties
<1>2. (s \o <<Head(r)>>) \o Tail(r) = s \o (<<Head(r)>> \o Tail(r))
  BY <1>1, ConcatAssociative
<1>3. <<Head(r)>> \o Tail(r) = r
  <2> DEFINE h == <<Head(r)>>
             w == h \o Tail(r)
  <2>1. Len(h) = 1 /\ h[1] = Head(r)
    BY DEF h
  <2> HIDE DEF h
  <2>2. h \in Seq(S)
    BY <1>1 DEF h
  <2>3. /\ w \in Seq(S) /\ Len(w) = 1 + Len(Tail(r))
        /\ \A i \in 1 .. 1 + Len(Tail(r)) : w[i] = IF i <= 1 THEN h[i] ELSE Tail(r)[i - 1]
    <3>1. /\ w \in Seq(S) /\ Len(w) = Len(h) + Len(Tail(r))
          /\ \A i \in 1 .. Len(h) + Len(Tail(r)) :
               w[i] = IF i <= Len(h) THEN h[i] ELSE Tail(r)[i - Len(h)]
      BY <1>1, <2>2, ConcatProperties
    <3> HIDE DEF w
    <3> QED BY <2>1, <3>1
  <2> HIDE DEF w
  <2>4. Len(r) \in Nat /\ Len(r) > 0 /\ Len(Tail(r)) = Len(r) - 1 /\ Head(r) = r[1]
        /\ \A i \in 1 .. Len(Tail(r)) : Tail(r)[i] = r[i + 1]
    BY PopLemma
  <2>5. ASSUME NEW i \in 1 .. Len(w) PROVE w[i] = r[i]
    <3>1. CASE i = 1
      BY <2>1, <2>3, <2>4, <3>1
    <3>2. CASE i > 1
      <4>1. i - 1 \in 1 .. Len(Tail(r)) /\ (i - 1) + 1 = i
        BY <2>3, <2>4, <3>2
      <4>2. Tail(r)[i - 1] = r[(i - 1) + 1]
        BY <2>4, <4>1
      <4> QED BY <2>3, <2>4, <3>2, <4>1, <4>2
    <3> QED BY <2>3, <2>4, <3>1, <3>2
  <2>6. w \in Seq(S) /\ r \in Seq(S) /\ Len(w) = Len(r)
    BY <2>3, <2>4
  <2>7. w = r
    BY <2>5, <2>6, SeqEqual
  <2> QED BY <2>7 DEF w, h
<1> QED BY <1>2, <1>3

LEMMA AppendLemma ==
  ASSUME NEW S, NEW s \in Seq(S), NEW r \in Seq(S), NEW e \in S
  PROVE  s \o Append(r, e) = Append(s \o r, e)
<1>1. <<e>> \in Seq(S) /\ Append(r, e) = r \o <<e>> /\ Append(s \o r, e) = (s \o r) \o <<e>>
  BY AppendIsConcat, ConcatProperties
<1> QED BY <1>1, ConcatAssociative

LEMMA OutputType ==
  ASSUME OutType
  PROVE  /\ delivered \in Seq(Outputs) /\ epin.pkt \in Seq(Outputs) /\ txfifo \in Seq(Outputs)
         /\ Output \in Seq(Outputs) /\ Len(Output) \in Nat
<1>1. delivered \in Seq(Outputs) /\ epin.pkt \in Seq(Outputs) /\ txfifo \in Seq(Outputs)
  BY DEF OutType
<1>2. Output \in Seq(Outputs)
  BY <1>1, ConcatProperties DEF Output
<1> QED BY <1>1, <1>2

(* The endpoint takes the head of the FIFO.                                *)
LEMMA PassOn ==
  ASSUME NEW d \in Seq(Outputs), NEW f \in Seq(Outputs), f # <<>>,
         delivered' = d, epin' = [at |-> "sending", pkt |-> <<Head(f)>>], txfifo' = Tail(f)
  PROVE  Output' = d \o f /\ Settled'
<1>1. Output' = (d \o <<Head(f)>>) \o Tail(f)
  BY DEF Output
<1> QED BY <1>1, HeadTailLemma DEF Settled

LEMMA WriteGrows ==
  ASSUME OutType, Settled, NEW p \in Outputs, Write(p), delivered' = delivered
  PROVE  Settled' /\ Output' = IF Room THEN Append(Output, p) ELSE Output
<1> DEFINE f == IF Room THEN Append(txfifo, p) ELSE txfifo
           o == delivered \o epin.pkt
<1>0. delivered \in Seq(Outputs) /\ epin.pkt \in Seq(Outputs) /\ txfifo \in Seq(Outputs)
  BY OutputType
<1>1. o \in Seq(Outputs) /\ f \in Seq(Outputs)
  BY <1>0, ConcatProperties, AppendProperties
<1>2. Output = o \o txfifo /\ Flush(f)
  BY DEF Output, Write
<1> HIDE DEF o
<1>3. o \o f = IF Room THEN Append(Output, p) ELSE Output
  <2>1. CASE Room
    BY <1>0, <1>1, <1>2, <2>1, AppendLemma
  <2>2. CASE ~Room
    BY <1>2, <2>2
  <2> QED BY <2>1, <2>2
<1>4. Output' = o \o f /\ Settled'
  <2> HIDE DEF f
  <2>1. CASE epin.at = "idle" /\ f # <<>>
    <3>1. epin.pkt = <<>> /\ o = delivered
      BY <1>0, <2>1, ConcatEmptySeq DEF Settled, o
    <3>2. epin' = [at |-> "sending", pkt |-> <<Head(f)>>] /\ txfifo' = Tail(f)
      BY <1>2, <2>1 DEF Flush
    <3> QED BY <1>0, <1>1, <2>1, <3>1, <3>2, PassOn
  <2>2. CASE ~(epin.at = "idle" /\ f # <<>>)
    <3>1. epin' = epin /\ txfifo' = f
      BY <1>2, <2>2 DEF Flush
    <3> QED BY <3>1 DEF Output, Settled, o
  <2> QED BY <2>1, <2>2
<1> QED BY <1>3, <1>4

LEMMA TaskInKeeps ==
  ASSUME OutType, Settled, TaskIn
  PROVE  Settled' /\ Output' = Output
<1>1. /\ delivered \in Seq(Outputs) /\ txfifo \in Seq(Outputs) /\ delivered' = delivered
      /\ epin.pkt = <<>> /\ Output = delivered \o txfifo
  BY OutputType, ConcatEmptySeq DEF TaskIn, Settled, Output
<1>2. CASE txfifo # <<>>
  BY <1>1, <1>2, PassOn DEF TaskIn
<1>3. CASE txfifo = <<>>
  BY <1>1, <1>3, ConcatEmptySeq DEF TaskIn, Output, Settled
<1> QED BY <1>2, <1>3

LEMMA HostTakeKeeps ==
  ASSUME OutType, HostTake
  PROVE  Settled' /\ Output' = Output
<1>1. delivered' = delivered \o epin.pkt /\ epin'.pkt = <<>> /\ txfifo' = txfifo
  BY DEF HostTake
<1>2. delivered \o epin.pkt \in Seq(Outputs)
  BY OutputType, ConcatProperties
<1>3. (delivered \o epin.pkt) \o <<>> = delivered \o epin.pkt
  BY <1>2, ConcatEmptySeq
<1> QED BY <1>1, <1>3 DEF Output, Settled

-----------------------------------------------------------------------------
(* What is in Output and what is still to come.                            *)

(* Pieces of UART data that have left uart_rx_fifo.                        *)
Taken == arrived - Len(uart)
Holding == core0 \in {"lock", "write"}

UartNumbered ==
  /\ Len(uart) <= arrived
  /\ \A i \in 1 .. Len(uart) : uart[i] = Taken + i
  /\ Holding => hand = Taken

(* A handler writes each kind of packet at most once, and nothing but the  *)
(* answer when it has SPI data.                                            *)
OnceEach == \A i, j \in 1 .. Len(core1.left) : core1.left[i] = core1.left[j] => i = j
AnswerDue == core1.at # "fetch" /\ Current.kind = "spi data" => core1.left = <<"wait">>

(* Packet p is older than any core 0 or core 1 has still to write, when t  *)
(* pieces of UART data were taken, the last of which is held if h, and n   *)
(* commands executed, the last of which has left the writes l.             *)
OlderThan(p, t, h, n, l) ==
  IF p.what = "uart"
    THEN p.id <= t /\ (h => p.id < t)
    ELSE p.id <= n /\ \A j \in 1 .. Len(l) : l[j] = p.what => p.id < n

Older(p) == OlderThan(p, Taken, Holding, Len(executed), core1.left)

AllOlder == \A i \in 1 .. Len(Output) : Older(Output[i])

Ordered ==
  \A i, j \in 1 .. Len(Output) :
    i < j /\ Output[i].what = Output[j].what => Output[i].id < Output[j].id

OutInv == FirmwareInv /\ Settled /\ UartNumbered /\ OnceEach /\ AllOlder /\ Ordered
DueInv == AnswerDue /\ ChunksAnswered

LEMMA OutInit == Init => OutInv /\ DueInv
<1> SUFFICES ASSUME Init PROVE OutInv /\ DueInv
  OBVIOUS
<1>1. FirmwareInv
  BY FirmwareInit
<1>2. Output = <<>>
  BY DEF Init, Output
<1> QED
  BY <1>1, <1>2 DEF Init, OutInv, DueInv, Settled, UartNumbered, Taken, Holding, OnceEach, AllOlder,
                    Ordered, AnswerDue, ChunksAnswered

LEMMA Facts ==
  ASSUME OutInv
  PROVE  /\ InType /\ OutType /\ UartType /\ CoreType
         /\ Output \in Seq(Outputs) /\ Len(Output) \in Nat
         /\ \A i \in 1 .. Len(Output) : Output[i] \in Outputs /\ Output[i].id \in Nat
         /\ Len(executed) \in Nat /\ Len(uart) \in Nat /\ arrived \in Nat /\ Taken \in Nat
         /\ hand \in Nat
<1>1. InType /\ OutType /\ UartType /\ CoreType
  BY TypeParts DEF OutInv, FirmwareInv, TypeInv
<1>2. Output \in Seq(Outputs) /\ Len(Output) \in Nat
  BY <1>1, OutputType
<1>3. ASSUME NEW i \in 1 .. Len(Output) PROVE Output[i] \in Outputs /\ Output[i].id \in Nat
  <2>1. Output[i] \in Outputs
    BY <1>2, ElementOfSeq
  <2> QED BY <2>1 DEF Outputs
<1>4. Len(executed) \in Nat /\ Len(uart) \in Nat
  BY <1>1 DEF InType, UartType
<1>5. arrived \in Nat /\ hand \in Nat
  BY <1>1, MaxAssumption DEF UartType
<1>6. Taken \in Nat
  BY <1>4, <1>5 DEF OutInv, UartNumbered, Taken
<1> QED BY <1>1, <1>2, <1>3, <1>4, <1>5, <1>6

LEMMA Kept ==
  ASSUME OutInv, Output' = Output, \A q \in Outputs : Older(q) => Older(q)'
  PROVE  AllOlder' /\ Ordered'
<1>1. \A i \in 1 .. Len(Output) : Older(Output[i])
  BY DEF OutInv, AllOlder
<1>2. AllOlder'
  <2> SUFFICES ASSUME NEW i \in 1 .. Len(Output') PROVE Older(Output[i])'
    BY DEF AllOlder
  <2>1. Output[i] \in Outputs /\ Older(Output[i])
    BY <1>1, Facts
  <2>2. OlderThan(Output[i], Taken', Holding', Len(executed'), core1'.left)
    BY <2>1 DEF Older
  <2> QED BY <2>2 DEF Older
<1>3. Ordered'
  BY DEF OutInv, Ordered
<1> QED BY <1>2, <1>3

LEMMA Grown ==
  ASSUME OutInv, NEW p \in Outputs, Output' = Append(Output, p),
         \A q \in Outputs : Older(q) => Older(q)',
         OlderThan(p, Taken', Holding', Len(executed'), core1'.left),
         \A i \in 1 .. Len(Output) : Output[i].what = p.what => Output[i].id < p.id
  PROVE  AllOlder' /\ Ordered'
<1>1. /\ Len(Output') = Len(Output) + 1 /\ Len(Output) \in Nat
      /\ \A i \in 1 .. Len(Output) : Output'[i] = Output[i]
      /\ Output'[Len(Output) + 1] = p
  BY Facts, AppendProperties
<1>2. \A i \in 1 .. Len(Output') : i \in 1 .. Len(Output) \/ i = Len(Output) + 1
  BY <1>1
<1>3. AllOlder'
  <2> SUFFICES ASSUME NEW i \in 1 .. Len(Output') PROVE Older(Output[i])'
    BY DEF AllOlder
  <2>1. CASE i \in 1 .. Len(Output)
    <3>1. Output[i] \in Outputs /\ Older(Output[i])
      BY <2>1, Facts DEF OutInv, AllOlder
    <3>2. OlderThan(Output[i], Taken', Holding', Len(executed'), core1'.left)
      BY <3>1 DEF Older
    <3> QED BY <1>1, <2>1, <3>2 DEF Older
  <2>2. CASE i = Len(Output) + 1
    BY <1>1, <2>2 DEF Older
  <2> QED BY <1>2, <2>1, <2>2
<1>4. Ordered'
  <2> SUFFICES ASSUME NEW i \in 1 .. Len(Output'), NEW j \in 1 .. Len(Output'),
                      i < j, Output'[i].what = Output'[j].what
               PROVE  Output'[i].id < Output'[j].id
    BY DEF Ordered
  <2>1. i \in 1 .. Len(Output) /\ Output'[i] = Output[i]
    BY <1>1
  <2>2. CASE j \in 1 .. Len(Output)
    BY <1>1, <2>1, <2>2 DEF OutInv, Ordered
  <2>3. CASE j = Len(Output) + 1
    BY <1>1, <2>1, <2>3
  <2> QED BY <1>2, <2>2, <2>3
<1> QED BY <1>3, <1>4

(* Core 0 has the mutex and writes the data it holds.                      *)
LEMMA Write0Step ==
  ASSUME OutInv, Write0
  PROVE  Settled' /\ UartNumbered' /\ OnceEach' /\ AllOlder' /\ Ordered'
<1> DEFINE p == [id |-> hand, what |-> "uart"]
<1>1. /\ Write(p) /\ delivered' = delivered /\ Holding /\ ~Holding'
      /\ UNCHANGED <<uart, arrived, core1, executed>>
  BY DEF Write0, Holding, inVars
<1>2. p \in Outputs /\ p.id = hand /\ p.what = "uart"
  BY Facts DEF Outputs
<1> HIDE DEF p
<1>3. Settled' /\ Output' = IF Room THEN Append(Output, p) ELSE Output
  BY <1>1, <1>2, Facts, WriteGrows DEF OutInv
<1>4. hand = Taken /\ Taken' = Taken
  BY <1>1 DEF OutInv, UartNumbered, Taken
<1>5. UartNumbered' /\ OnceEach'
  BY <1>1, <1>4 DEF OutInv, UartNumbered, OnceEach
<1>6. \A q \in Outputs : Older(q) => Older(q)'
  BY <1>1, <1>4 DEF Older, OlderThan
<1>7. OlderThan(p, Taken', Holding', Len(executed'), core1'.left)
  BY <1>1, <1>2, <1>4, Facts DEF OlderThan
<1>8. \A i \in 1 .. Len(Output) : Output[i].what = p.what => Output[i].id < p.id
  BY <1>1, <1>2, <1>4 DEF OutInv, AllOlder, Older, OlderThan
<1>9. CASE Room
  BY <1>2, <1>3, <1>5, <1>6, <1>7, <1>8, <1>9, Grown
<1>10. CASE ~Room
  BY <1>3, <1>5, <1>6, <1>10, Kept
<1> QED BY <1>9, <1>10

(* Core 1 has the mutex and writes the next packet of its handler.         *)
LEMMA Write1Step ==
  ASSUME OutInv, Write1
  PROVE  Settled' /\ UartNumbered' /\ OnceEach' /\ AllOlder' /\ Ordered'
<1> DEFINE p == [id |-> Current.id, what |-> Head(core1.left)]
           l == core1.left
<1>1. /\ Write(p) /\ delivered' = delivered /\ core1'.left = Tail(l)
      /\ UNCHANGED <<uart, arrived, hand, core0, executed>>
  BY DEF Write1, inVars, uartVars
<1>2. l # <<>> /\ executed # <<>> /\ l \in Seq({"log", "answer", "wait"})
  BY Facts DEF Write1, OutInv, FirmwareInv, TypeInv, Busy, CoreType
<1>3. /\ Head(l) = l[1] /\ Head(l) \in {"log", "answer", "wait"} /\ Len(l) \in Nat /\ Len(l) > 0
      /\ Len(Tail(l)) = Len(l) - 1
      /\ \A j \in 1 .. Len(Tail(l)) : Tail(l)[j] = l[j + 1]
  BY <1>2, PopLemma
<1>4. Current.id = Len(executed) /\ Len(executed) \in Nat
  <2>1. Len(executed) \in 1 .. Len(executed)
    BY <1>2, Facts DEF InType
  <2> QED BY <2>1, Facts DEF Current, OutInv, FirmwareInv, Numbered
<1>5. p \in Outputs /\ p.id = Len(executed) /\ p.what = l[1] /\ p.what # "uart"
  BY <1>3, <1>4 DEF Outputs
<1> HIDE DEF p
<1>6. Settled' /\ Output' = IF Room THEN Append(Output, p) ELSE Output
  BY <1>1, <1>5, Facts, WriteGrows DEF OutInv
<1>7. UartNumbered' /\ Taken' = Taken /\ (Holding' <=> Holding)
  BY <1>1 DEF OutInv, UartNumbered, Taken, Holding
<1>8. \A j \in 1 .. Len(Tail(l)) : j + 1 \in 1 .. Len(l) /\ j + 1 # 1 /\ 1 \in 1 .. Len(l)
  BY <1>3
<1>9. OnceEach'
  <2> SUFFICES ASSUME NEW i \in 1 .. Len(Tail(l)), NEW j \in 1 .. Len(Tail(l)), Tail(l)[i] = Tail(l)[j]
               PROVE  i = j
    BY <1>1 DEF OnceEach
  <2>1. i + 1 = j + 1
    BY <1>3, <1>8 DEF OutInv, OnceEach
  <2> QED BY <2>1
<1>10. \A q \in Outputs : Older(q) => Older(q)'
  <2> SUFFICES ASSUME NEW q \in Outputs, Older(q)
               PROVE  OlderThan(q, Taken', Holding', Len(executed'), core1'.left)
    BY DEF Older
  <2>1. CASE q.what = "uart"
    BY <1>7, <2>1 DEF Older, OlderThan
  <2>2. CASE q.what # "uart"
    <3>1. q.id <= Len(executed) /\ \A j \in 1 .. Len(l) : l[j] = q.what => q.id < Len(executed)
      BY <2>2 DEF Older, OlderThan
    <3>2. \A j \in 1 .. Len(Tail(l)) : Tail(l)[j] = q.what => q.id < Len(executed)
      BY <1>3, <1>8, <3>1
    <3> QED BY <1>1, <2>2, <3>1, <3>2 DEF OlderThan
  <2> QED BY <2>1, <2>2
<1>11. OlderThan(p, Taken', Holding', Len(executed'), core1'.left)
  <2>1. \A j \in 1 .. Len(Tail(l)) : Tail(l)[j] # l[1]
    BY <1>3, <1>8 DEF OutInv, OnceEach
  <2>2. p.id <= Len(executed)
    BY <1>4, <1>5
  <2> QED BY <1>1, <1>5, <2>1, <2>2 DEF OlderThan
<1>12. \A i \in 1 .. Len(Output) : Output[i].what = p.what => Output[i].id < p.id
  BY <1>3, <1>5 DEF OutInv, AllOlder, Older, OlderThan
<1>13. CASE Room
  BY <1>5, <1>6, <1>7, <1>9, <1>10, <1>11, <1>12, <1>13, Grown
<1>14. CASE ~Room
  BY <1>6, <1>7, <1>9, <1>10, <1>14, Kept
<1> QED BY <1>13, <1>14

(* Core 1 takes a command: what it has to write is yet to come.            *)
LEMMA ExecuteOutStep ==
  ASSUME OutInv, Execute
  PROVE  Settled' /\ UartNumbered' /\ OnceEach' /\ AllOlder' /\ Ordered'
<1>1. /\ UNCHANGED <<delivered, epin, txfifo, uart, arrived, hand, core0>>
      /\ queue # <<>> /\ executed' = Append(executed, Head(queue))
      /\ core1'.left = Writes(Head(queue).kind)
  BY DEF Execute, outVars, uartVars
<1>2. Head(queue) \in Commands
  BY <1>1, Facts, PopLemma DEF InType
<1>3. Len(executed') = Len(executed) + 1 /\ Len(executed) \in Nat
  BY <1>1, <1>2, Facts, AppendProperties DEF InType
<1>4. Settled' /\ UartNumbered' /\ Output' = Output /\ Taken' = Taken /\ (Holding' <=> Holding)
  BY <1>1 DEF OutInv, Settled, UartNumbered, Taken, Holding, Output
<1>5. OnceEach'
  <2>1. Head(queue).kind \in AllKinds
    BY <1>2, KindsAssumption DEF Commands
  <2>2. core1'.left \in {<<>>, <<"answer">>, <<"log", "answer">>, <<"wait">>}
    BY <1>1, <2>1 DEF AllKinds, Writes
  <2> QED BY <2>2 DEF OnceEach
<1>6. \A q \in Outputs : Older(q) => Older(q)'
  <2> SUFFICES ASSUME NEW q \in Outputs, Older(q)
               PROVE  OlderThan(q, Taken', Holding', Len(executed'), core1'.left)
    BY DEF Older
  <2>1. q.id \in Nat
    BY DEF Outputs
  <2>2. CASE q.what = "uart"
    BY <1>4, <2>2 DEF Older, OlderThan
  <2>3. CASE q.what # "uart"
    <3>1. q.id < Len(executed')
      BY <1>3, <2>1, <2>3 DEF Older, OlderThan
    <3>2. q.id <= Len(executed')
      BY <1>3, <2>1, <3>1
    <3> QED BY <2>3, <3>1, <3>2 DEF OlderThan
  <2> QED BY <2>2, <2>3
<1> QED BY <1>4, <1>5, <1>6, Kept

(* UART data arrives, and core 0 takes it.                                 *)
LEMMA UartOutStep ==
  ASSUME OutInv, UartRx \/ UartTake
  PROVE  Settled' /\ UartNumbered' /\ OnceEach' /\ AllOlder' /\ Ordered'
<1>1. /\ UNCHANGED <<delivered, epin, txfifo, core1, executed>>
      /\ uart \in Seq(1 .. MaxUart)
  BY Facts DEF UartRx, UartTake, UartType, outVars, inVars
<1>2. Settled' /\ OnceEach' /\ Output' = Output
  BY <1>1 DEF OutInv, Settled, OnceEach, Output
<1>3. CASE UartRx
  <2>1. /\ uart' = Append(uart, arrived + 1) /\ arrived' = arrived + 1
        /\ UNCHANGED <<hand, core0>> /\ arrived + 1 \in 1 .. MaxUart
    BY <1>3, Facts, MaxAssumption DEF UartRx, UartType
  <2>2. /\ Len(uart') = Len(uart) + 1 /\ Len(uart) \in Nat
        /\ \A i \in 1 .. Len(uart) + 1 : uart'[i] = IF i <= Len(uart) THEN uart[i] ELSE arrived + 1
    BY <1>1, <2>1, PushLemma
  <2>3. Taken' = Taken /\ (Holding' <=> Holding)
    BY <2>1, <2>2, Facts DEF Taken, Holding
  <2>4. \A i \in 1 .. Len(uart) + 1 : uart'[i] = Taken + i
    <3> SUFFICES ASSUME NEW i \in 1 .. Len(uart) + 1 PROVE uart'[i] = Taken + i
      OBVIOUS
    <3>1. CASE i <= Len(uart)
      BY <2>2, <3>1 DEF OutInv, UartNumbered
    <3>2. CASE i = Len(uart) + 1
      BY <2>2, <3>2, Facts DEF Taken
    <3> QED BY <2>2, <3>1, <3>2
  <2>5. UartNumbered'
    <3>1. Len(uart') <= arrived'
      BY <2>1, <2>2, Facts DEF OutInv, UartNumbered
    <3>2. Holding' => hand' = Taken'
      BY <2>1, <2>3 DEF OutInv, UartNumbered
    <3> QED BY <2>2, <2>3, <2>4, <3>1, <3>2 DEF UartNumbered
  <2>6. \A q \in Outputs : Older(q) => Older(q)'
    BY <1>1, <2>3 DEF Older, OlderThan
  <2> QED BY <1>2, <2>5, <2>6, Kept
<1>4. CASE UartTake
  <2>1. /\ uart # <<>> /\ hand' = Head(uart) /\ uart' = Tail(uart) /\ arrived' = arrived
        /\ ~Holding /\ Holding'
    BY <1>4 DEF UartTake, Holding
  <2>2. /\ Head(uart) = uart[1] /\ Len(uart) \in Nat /\ Len(uart) > 0 /\ Len(uart') = Len(uart) - 1
        /\ \A i \in 1 .. Len(uart') : uart'[i] = uart[i + 1]
    BY <1>1, <2>1, PopLemma
  <2>3. Taken' = Taken + 1 /\ Taken \in Nat
    BY <2>1, <2>2, Facts DEF Taken
  <2>4. UartNumbered'
    <3>1. hand' = Taken'
      BY <2>1, <2>2, <2>3 DEF OutInv, UartNumbered
    <3>2. \A i \in 1 .. Len(uart') : uart'[i] = Taken' + i
      <4> SUFFICES ASSUME NEW i \in 1 .. Len(uart') PROVE uart'[i] = Taken' + i
        OBVIOUS
      <4>1. i + 1 \in 1 .. Len(uart) /\ i \in Nat
        BY <2>2
      <4>2. uart[i + 1] = Taken + (i + 1)
        BY <4>1 DEF OutInv, UartNumbered
      <4> QED BY <2>2, <2>3, <4>1, <4>2
    <3>3. Len(uart') <= arrived'
      BY <2>1, <2>2, Facts DEF OutInv, UartNumbered
    <3> QED BY <3>1, <3>2, <3>3 DEF UartNumbered
  <2>5. \A q \in Outputs : Older(q) => Older(q)'
    <3> SUFFICES ASSUME NEW q \in Outputs, Older(q)
                 PROVE  OlderThan(q, Taken', Holding', Len(executed'), core1'.left)
      BY DEF Older
    <3>1. q.id \in Nat
      BY DEF Outputs
    <3>2. CASE q.what = "uart"
      <4>1. q.id <= Taken
        BY <3>2 DEF Older, OlderThan
      <4>2. q.id < Taken' /\ q.id <= Taken'
        BY <2>3, <3>1, <4>1
      <4> QED BY <3>2, <4>2 DEF OlderThan
    <3>3. CASE q.what # "uart"
      BY <1>1, <3>3 DEF Older, OlderThan
    <3> QED BY <3>2, <3>3
  <2> QED BY <1>2, <2>4, <2>5, Kept
<1> QED BY <1>3, <1>4

LEMMA OutStep ==
  ASSUME OutInv, [Next]_vars
  PROVE  OutInv'
<1>0. FirmwareInv'
  BY FirmwareStep DEF OutInv
<1>1. ASSUME Output' = Output, Settled',
             UNCHANGED <<uart, arrived, hand, executed, core1.left>>, Holding' <=> Holding
      PROVE  UartNumbered' /\ OnceEach' /\ AllOlder' /\ Ordered'
  <2>1. UartNumbered' /\ OnceEach' /\ Taken' = Taken
    BY <1>1 DEF OutInv, UartNumbered, OnceEach, Taken
  <2>2. \A q \in Outputs : Older(q) => Older(q)'
    BY <1>1, <2>1 DEF Older, OlderThan
  <2> QED BY <1>1, <2>1, <2>2, Kept
<1>2. ASSUME UNCHANGED outVars PROVE Output' = Output /\ Settled'
  BY <1>2 DEF outVars, Output, OutInv, Settled
<1>3. CASE HostTake
  <2>1. Settled' /\ Output' = Output
    BY <1>3, Facts, HostTakeKeeps
  <2> QED BY <1>0, <1>1, <1>3, <2>1 DEF HostTake, inVars, uartVars, Holding, OutInv
<1>4. CASE TaskIn
  <2>1. Settled' /\ Output' = Output
    BY <1>4, Facts, TaskInKeeps DEF OutInv
  <2> QED BY <1>0, <1>1, <1>4, <2>1 DEF TaskIn, inVars, uartVars, Holding, OutInv
<1>5. CASE Write0
  BY <1>0, <1>5, Write0Step DEF OutInv
<1>6. CASE Write1
  BY <1>0, <1>6, Write1Step DEF OutInv
<1>7. CASE Execute
  BY <1>0, <1>7, ExecuteOutStep DEF OutInv
<1>8. CASE UartRx \/ UartTake
  BY <1>0, <1>8, UartOutStep DEF OutInv
<1>9. CASE \/ \E kind \in Kinds : HostSend(kind)
           \/ TaskOut \/ TaskEnd \/ Drain \/ DrainEnd \/ UartSkip \/ Lock0
  <2>1. UNCHANGED <<outVars, uart, arrived, hand, executed, core1>>
    BY <1>9 DEF HostSend, TaskOut, TaskEnd, Drain, DrainEnd, UartSkip, Lock0, uartVars, inVars
  <2>2. Holding' <=> Holding
    BY <1>9 DEF HostSend, TaskOut, TaskEnd, Drain, DrainEnd, UartSkip, Lock0, Holding
  <2> QED BY <1>0, <1>1, <1>2, <2>1, <2>2 DEF OutInv
<1>10. CASE Lock1 \/ Wait1 \/ UNCHANGED vars
  <2>1. UNCHANGED <<outVars, uart, arrived, hand, executed, core0>>
    BY <1>10 DEF Lock1, Wait1, vars, uartVars, inVars
  <2>2. core1'.left = core1.left
    BY <1>10, Facts DEF Lock1, Wait1, vars, CoreType
  <2> QED BY <1>0, <1>1, <1>2, <2>1, <2>2 DEF OutInv, Holding
<1> QED BY <1>3, <1>4, <1>5, <1>6, <1>7, <1>8, <1>9, <1>10 DEF Next, Core0, Core1

(* What the host receives is in the order in which each source wrote it,   *)
(* and never repeated, although two cores write and all queues may be full *)
(* (spi_handler.c 150-163, uart_handler.c 56-65).                          *)
THEOREM OutputKeepsOrder == Spec => []OutputInOrder
<1>1. Init => OutInv
  BY OutInit
<1>2. OutInv /\ [Next]_vars => OutInv'
  BY OutStep
<1>3. OutInv => OutputInOrder
  BY DEF OutInv, Ordered, OutputInOrder
<1> QED BY <1>1, <1>2, <1>3, PTL DEF Spec

-----------------------------------------------------------------------------
(* Answers to SPI data.                                                    *)

IsSpi(n) == executed[n].kind = "spi data"
HasAnswer(n) == \E i \in 1 .. Len(Output) : Output[i] = [id |-> executed[n].id, what |-> "wait"]

LEMMA AnswerType ==
  ASSUME NEW c \in Commands
  PROVE  [id |-> c.id, what |-> "wait"] \in Outputs
<1>1. c.id \in 1 .. MaxPackets
  BY DEF Commands
<1>2. c.id \in Nat
  BY <1>1, MaxAssumption
<1> QED BY <1>2 DEF Outputs

(* Nothing that is in Output leaves it.                                    *)
LEMMA StaysLemma ==
  ASSUME OutInv, NEW p \in Outputs, Output' = Output \/ Output' = Append(Output, p)
  PROVE  \A q \in Outputs : (\E i \in 1 .. Len(Output) : Output[i] = q)
                             => \E i \in 1 .. Len(Output') : Output'[i] = q
<1> SUFFICES ASSUME NEW q \in Outputs, NEW i \in 1 .. Len(Output), Output[i] = q
             PROVE  \E k \in 1 .. Len(Output') : Output'[k] = q
  OBVIOUS
<1>1. i \in 1 .. Len(Output') /\ Output'[i] = q
  <2>1. CASE Output' = Output
    BY <2>1
  <2>2. CASE Output' = Append(Output, p)
    BY <2>2, Facts, AppendProperties
  <2> QED BY <2>1, <2>2
<1> QED BY <1>1

(* A step in which core 1 writes nothing.                                  *)
LEMMA DueKept ==
  ASSUME OutInv, DueInv, NEW p \in Outputs, Output' = Output \/ Output' = Append(Output, p),
         UNCHANGED <<executed, core1.left>>, core1'.at = "fetch" <=> core1.at = "fetch"
  PROVE  DueInv'
<1>1. AnswerDue'
  BY DEF DueInv, AnswerDue, Current
<1>2. ChunksAnswered'
  <2> SUFFICES ASSUME NEW n \in 1 .. Len(executed), IsSpi(n),
                      n < Len(executed) \/ core1.at = "fetch"
               PROVE  HasAnswer(n)'
    BY DEF ChunksAnswered, HasAnswer, IsSpi
  <2>1. HasAnswer(n)
    BY DEF DueInv, ChunksAnswered, HasAnswer, IsSpi
  <2>2. [id |-> executed[n].id, what |-> "wait"] \in Outputs
    <3>1. executed[n] \in Commands
      BY Facts, ElementOfSeq DEF InType
    <3> QED BY <3>1, AnswerType
  <2> QED BY <2>1, <2>2, StaysLemma DEF HasAnswer
<1> QED BY <1>1, <1>2 DEF DueInv

LEMMA DueExecute ==
  ASSUME OutInv, DueInv, Execute
  PROVE  DueInv'
<1> DEFINE c == Head(queue)
<1>1. /\ core1.at = "fetch" /\ queue # <<>> /\ executed' = Append(executed, c)
      /\ core1' = [at |-> IF Writes(c.kind) = <<>> THEN "fetch" ELSE "lock", left |-> Writes(c.kind)]
      /\ Output' = Output
  BY DEF Execute, outVars, Output
<1>2. c \in Commands
  BY <1>1, Facts, PopLemma DEF InType
<1> HIDE DEF c
<1>3. /\ executed' \in Seq(Commands) /\ Len(executed') = Len(executed) + 1 /\ Len(executed) \in Nat
      /\ \A n \in 1 .. Len(executed) : executed'[n] = executed[n]
      /\ executed'[Len(executed) + 1] = c
  BY <1>1, <1>2, Facts, AppendProperties DEF InType
<1>4. c.kind = "spi data" => core1'.at = "lock" /\ core1'.left = <<"wait">>
  BY <1>1 DEF Writes
<1>5. AnswerDue'
  BY <1>3, <1>4 DEF AnswerDue, Current
<1>6. ChunksAnswered'
  <2> SUFFICES ASSUME NEW n \in 1 .. Len(executed'), IsSpi(n)',
                      n < Len(executed') \/ core1'.at = "fetch"
               PROVE  HasAnswer(n)'
    BY DEF ChunksAnswered, HasAnswer, IsSpi
  <2>1. CASE n \in 1 .. Len(executed)
    <3>1. HasAnswer(n)
      BY <1>1, <1>3, <2>1 DEF DueInv, ChunksAnswered, HasAnswer, IsSpi
    <3> QED BY <1>1, <1>3, <2>1, <3>1 DEF HasAnswer
  <2>2. CASE n = Len(executed) + 1
    <3>1. executed'[n] = c /\ ~(n < Len(executed'))
      BY <1>3, <2>2
    <3>2. FALSE
      BY <1>4, <3>1 DEF IsSpi
    <3> QED BY <3>2
  <2>3. n \in 1 .. Len(executed) \/ n = Len(executed) + 1
    BY <1>3
  <2> QED BY <2>1, <2>2, <2>3
<1> QED BY <1>5, <1>6 DEF DueInv

LEMMA DueWrite1 ==
  ASSUME OutInv, DueInv, Write1
  PROVE  DueInv'
<1> DEFINE p == [id |-> Current.id, what |-> Head(core1.left)]
           l == core1.left
<1>1. /\ core1.at = "write" /\ (Head(l) # "wait" \/ Room) /\ Write(p) /\ delivered' = delivered
      /\ core1' = [at |-> IF Tail(l) = <<>> THEN "fetch" ELSE "lock", left |-> Tail(l)]
      /\ executed' = executed
  BY DEF Write1, inVars
<1>2. l # <<>> /\ executed # <<>> /\ l \in Seq({"log", "answer", "wait"})
  BY <1>1, Facts DEF OutInv, FirmwareInv, TypeInv, Busy, CoreType
<1>3. executed \in Seq(Commands) /\ Len(executed) \in 1 .. Len(executed) /\ Current \in Commands
  <2>1. executed \in Seq(Commands)
    BY Facts DEF InType
  <2>2. Len(executed) \in 1 .. Len(executed)
    BY <1>2, <2>1
  <2> QED BY <2>1, <2>2, ElementOfSeq DEF Current
<1>4. p \in Outputs /\ p = [id |-> Current.id, what |-> Head(l)]
  <2>1. Head(l) \in {"log", "answer", "wait"} /\ Current.id \in Nat
    BY <1>2, <1>3, PopLemma, MaxAssumption DEF Commands
  <2> QED BY <2>1 DEF Outputs
<1> HIDE DEF p
<1>5. Output' = IF Room THEN Append(Output, p) ELSE Output
  BY <1>1, <1>4, Facts, WriteGrows DEF OutInv
<1>6. Current.kind = "spi data" => l = <<"wait">>
  BY <1>1 DEF DueInv, AnswerDue
<1>7. AnswerDue'
  <2>1. Current' = Current
    BY <1>1 DEF Current
  <2>2. Current.kind = "spi data" => core1'.at = "fetch"
    <3>1. ASSUME l = <<"wait">> PROVE Tail(l) = <<>>
      BY <3>1
    <3> QED BY <1>1, <1>6, <3>1
  <2> QED BY <2>1, <2>2 DEF AnswerDue
<1>8. ChunksAnswered'
  <2> SUFFICES ASSUME NEW n \in 1 .. Len(executed), IsSpi(n)
               PROVE  HasAnswer(n)'
    BY <1>1 DEF ChunksAnswered, HasAnswer, IsSpi
  <2> DEFINE q == [id |-> executed[n].id, what |-> "wait"]
  <2>1. q \in Outputs
    <3>1. executed[n] \in Commands
      BY <1>3, ElementOfSeq
    <3> QED BY <3>1, AnswerType
  <2>2. CASE n < Len(executed)
    <3>1. \E i \in 1 .. Len(Output) : Output[i] = q
      BY <2>2 DEF DueInv, ChunksAnswered, IsSpi
    <3>2. Output' = Output \/ Output' = Append(Output, p)
      BY <1>5
    <3> HIDE DEF q
    <3>3. \E i \in 1 .. Len(Output') : Output'[i] = q
      BY <1>4, <2>1, <3>1, <3>2, StaysLemma
    <3> QED BY <1>1, <3>3 DEF HasAnswer, q
  <2>3. CASE n = Len(executed)
    <3>0. Current = executed[n]
      BY <2>3 DEF Current
    <3>a. Current.kind = "spi data"
      BY <3>0 DEF IsSpi
    <3>b. l = <<"wait">>
      BY <1>6, <3>a
    <3>1. Head(l) = "wait"
      BY <3>b
    <3>2. p = q /\ Room
      BY <1>1, <1>4, <3>0, <3>1
    <3>3. Len(Output') = Len(Output) + 1 /\ Output'[Len(Output) + 1] = p /\ Len(Output) \in Nat
      BY <1>4, <1>5, <3>2, Facts, AppendProperties
    <3> DEFINE k == Len(Output) + 1
    <3> HIDE DEF q
    <3>4. k \in 1 .. Len(Output') /\ Output'[k] = q
      BY <3>2, <3>3
    <3> HIDE DEF k
    <3> QED BY <1>1, <3>4 DEF HasAnswer, q
  <2>4. n < Len(executed) \/ n = Len(executed)
    BY <1>3
  <2> QED BY <2>2, <2>3, <2>4
<1> QED BY <1>7, <1>8 DEF DueInv

LEMMA DueStep ==
  ASSUME OutInv, DueInv, [Next]_vars
  PROVE  DueInv'
<1> DEFINE p == [id |-> hand, what |-> "uart"]
<1>0. p \in Outputs
  BY Facts DEF Outputs
<1>1. CASE Execute
  BY <1>1, DueExecute
<1>2. CASE Write1
  BY <1>2, DueWrite1
<1>3. CASE Write0
  <2>1. Write(p) /\ UNCHANGED <<delivered, executed, core1>>
    BY <1>3 DEF Write0, inVars
  <2> HIDE DEF p
  <2>2. Output' = Output \/ Output' = Append(Output, p)
    BY <1>0, <2>1, Facts, WriteGrows DEF OutInv
  <2> QED BY <1>0, <2>1, <2>2, DueKept
<1>4. CASE HostTake \/ TaskIn
  <2>1. Output' = Output
    BY <1>4, Facts, HostTakeKeeps, TaskInKeeps DEF OutInv
  <2>2. UNCHANGED <<executed, core1>>
    BY <1>4 DEF HostTake, TaskIn, inVars
  <2> QED BY <1>0, <2>1, <2>2, DueKept
<1>5. CASE \/ \E kind \in Kinds : HostSend(kind)
           \/ UartRx \/ TaskOut \/ TaskEnd \/ Drain \/ DrainEnd \/ UartSkip \/ UartTake \/ Lock0
           \/ UNCHANGED vars
  <2>1. UNCHANGED <<outVars, executed, core1>>
    BY <1>5 DEF HostSend, UartRx, TaskOut, TaskEnd, Drain, DrainEnd, UartSkip, UartTake, Lock0, inVars, vars
  <2>2. Output' = Output
    BY <2>1 DEF outVars, Output
  <2> QED BY <1>0, <2>1, <2>2, DueKept
<1>6. CASE Lock1 \/ Wait1
  <2>1. UNCHANGED <<outVars, executed>> /\ core1.at # "fetch"
    BY <1>6 DEF Lock1, Wait1, inVars
  <2>2. core1'.left = core1.left /\ core1'.at # "fetch"
    BY <1>6, Facts DEF Lock1, Wait1, CoreType
  <2>3. Output' = Output
    BY <2>1 DEF outVars, Output
  <2> QED BY <1>0, <2>1, <2>2, <2>3, DueKept
<1> QED BY <1>1, <1>2, <1>3, <1>4, <1>5, <1>6 DEF Next, Core0, Core1

(* The answer to SPI data that was clocked out is never dropped: once core *)
(* 1 is done with such a chunk its answer is on its way to the host        *)
(* (spi_handler.c 127-163).                                                *)
THEOREM NoAnswerDropped == Spec => []ChunksAnswered
<1>1. Init => OutInv /\ DueInv
  BY OutInit
<1>2. OutInv /\ DueInv /\ [Next]_vars => (OutInv /\ DueInv)'
  BY OutStep, DueStep
<1>3. DueInv => ChunksAnswered
  BY DEF DueInv
<1> QED BY <1>1, <1>2, <1>3, PTL DEF Spec

=============================================================================
