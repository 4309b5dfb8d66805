-------------------------- MODULE PicoSpiBusProofs --------------------------
(***************************************************************************)
(* Proofs about PicoSpiBus, for any devices, pins and bounds: the types;   *)
(* that the chunks of all transfers are clocked out in order, and more     *)
(* than once only when another caller sent one of them, whatever fails,    *)
(* comes late or is configured in between; that an undisturbed transfer is *)
(* one frame, for its device alone; and what the result of a transfer says *)
(* of its chunks.                                                          *)
(***************************************************************************)
EXTENDS PicoSpiBus, TLAPS

USE NoPinAssumption, DeviceAssumption, BoundAssumption

-----------------------------------------------------------------------------
(* Sequences as queues.                                                    *)

LEMMA PopLemma ==
  ASSUME NEW S, NEW s \in Seq(S), s # <<>>
  PROVE  /\ Head(s) \in S /\ Head(s) = s[1] /\ 1 \in 1 .. Len(s)
         /\ Tail(s) \in Seq(S) /\ Len(s) \in Nat /\ Len(s) > 0 /\ Len(Tail(s)) = Len(s) - 1
         /\ \A i \in 1 .. Len(Tail(s)) : Tail(s)[i] = s[i + 1] /\ i + 1 \in 1 .. Len(s)
<1>1. Len(s) \in Nat /\ Len(s) > 0 /\ Len(Tail(s)) = Len(s) - 1
  OBVIOUS
<1>2. Head(s) \in S /\ Head(s) = s[1] /\ Tail(s) \in Seq(S)
      /\ \A i \in 1 .. Len(Tail(s)) : Tail(s)[i] = s[i + 1]
  OBVIOUS
<1>3. 1 \in 1 .. Len(s) /\ \A i \in 1 .. Len(Tail(s)) : i + 1 \in 1 .. Len(s)
  BY <1>1
<1> QED BY <1>1, <1>2, <1>3

LEMMA PushLemma ==
  ASSUME NEW S, NEW s \in Seq(S), NEW e \in S
  PROVE  /\ Append(s, e) \in Seq(S) /\ Len(s) \in Nat /\ Len(Append(s, e)) = Len(s) + 1
         /\ \A i \in 1 .. Len(s) + 1 : Append(s, e)[i] = IF i <= Len(s) THEN s[i] ELSE e
OBVIOUS

-----------------------------------------------------------------------------
(* Types.                                                                  *)

(* The variables' types, by who writes them.                               *)
HostType ==
  /\ transfer \in Transfers
  /\ at \in {"idle", "build", "send", "wait"}
  /\ reply \in {"none", "data", "empty"}
  /\ results \in [1 .. MaxTransfers -> {"none", "ok", "error"}]
TxType ==
  /\ tx \in Chunks \cup {Other}
  /\ other \in {"idle", "send", "wait"}
  /\ shared \subseteq (1 .. MaxTransfers) \X (1 .. MaxChunks)
  /\ others \in 0 .. MaxOthers
FwType ==
  /\ bus \in BOOLEAN
  /\ cs \in [Devices -> CsPins \cup {NoPin}]
  /\ low \subseteq CsPins
  /\ held \in BOOLEAN
CauseType ==
  /\ disturbed \in BOOLEAN /\ stray \in BOOLEAN /\ fault \in BOOLEAN
  /\ configs \in 0 .. MaxConfigs
OutType == out \in Seq(Chunks \cup {Other} \cup Configs)
InType == in \in Seq(Replies)
ServedType == served \in Seq(Served)

(* A transfer under way has a number, and k is one of its chunks.          *)
Counted == (at # "idle" => transfer.x # 0) /\ transfer.k <= transfer.len

TypeInv == TypeOK /\ Counted

LEMMA TypeParts ==
  TypeOK <=> HostType /\ TxType /\ FwType /\ CauseType /\ OutType /\ InType /\ ServedType
BY DEF TypeOK, HostType, TxType, FwType, CauseType, OutType, InType, ServedType

LEMMA TypeInit == Init => TypeInv
<1> SUFFICES ASSUME Init PROVE TypeInv
  OBVIOUS
<1>1. HostType /\ Counted
  BY DEF Init, HostType, Transfers, Counted
<1>2. FwType /\ CauseType
  <2>1. cs \in [Devices -> CsPins \cup {NoPin}]
    BY DEF Init
  <2>2. 0 \in 0 .. MaxConfigs
    OBVIOUS
  <2> QED BY <2>1, <2>2 DEF Init, FwType, CauseType
<1>3. OutType /\ InType /\ ServedType
  BY DEF Init, OutType, InType, ServedType
<1>4. TxType
  BY DEF Init, TxType
<1> QED BY <1>1, <1>2, <1>3, <1>4, TypeParts DEF TypeInv

(* The chunk of a transfer under way.                                      *)
LEMMA CurrentChunk ==
  ASSUME HostType, Counted, at # "idle"
  PROVE  Chunk \in Chunks
<1>1. transfer.x \in 1 .. MaxTransfers /\ transfer.k \in 1 .. MaxChunks /\ transfer.dev \in Devices
  BY DEF HostType, Counted, Transfers
<1> QED BY <1>1 DEF Chunk, Keep, Chunks

(* What the thread of the transfer does.                                   *)
LEMMA HostStep ==
  ASSUME TypeInv, \/ \E d \in Devices, n \in 1 .. MaxChunks : Start(d, n)
                  \/ Driver
  PROVE  HostType' /\ Counted' /\ OutType' /\ TxType'
<1>0. HostType /\ TxType /\ OutType /\ Counted
  BY TypeParts DEF TypeInv
<1>1. ASSUME NEW d \in Devices, NEW n \in 1 .. MaxChunks, Start(d, n)
      PROVE  HostType' /\ Counted' /\ OutType' /\ TxType'
  <2>1. /\ transfer.x \in 0 .. MaxTransfers /\ transfer.x < MaxTransfers
        /\ transfer' = [x |-> transfer.x + 1, dev |-> d, len |-> n, k |-> 1]
        /\ at' = "build" /\ UNCHANGED <<reply, results, out, tx, other, shared, others>>
    BY <1>0, <1>1 DEF Start, HostType, Transfers, txVars
  <2>2. transfer.x + 1 \in 0 .. MaxTransfers /\ transfer.x + 1 # 0 /\ 1 \in 1 .. MaxChunks /\ 1 <= n
    BY <2>1
  <2>3. transfer' \in Transfers
    BY <2>1, <2>2 DEF Transfers
  <2> QED BY <1>0, <2>1, <2>2, <2>3 DEF HostType, Counted, OutType, TxType
<1>b. CASE Build
  <2>1. /\ tx' = Chunk /\ UNCHANGED <<transfer, reply, results, other, others, out>> /\ at' = "send"
        /\ shared' \in {shared, shared \cup {<<transfer.x, transfer.k>>}} /\ at = "build"
    BY <1>b DEF Build
  <2>2. transfer.x \in 1 .. MaxTransfers /\ transfer.k \in 1 .. MaxChunks
    BY <1>0, <2>1 DEF HostType, Counted, Transfers
  <2>3. Chunk \in Chunks
    BY <1>0, <2>1, CurrentChunk
  <2>4. <<transfer.x, transfer.k>> \in (1 .. MaxTransfers) \X (1 .. MaxChunks)
    BY <2>2
  <2>5. TxType'
    BY <1>0, <2>1, <2>3, <2>4 DEF TxType
  <2> QED BY <1>0, <2>1, <2>5 DEF HostType, Counted, OutType
<1>2. CASE SendChunk
  <2>1. OutType'
    BY <1>0, <1>2, PushLemma DEF SendChunk, OutType, TxType
  <2>2. TxType'
    BY <1>0, <1>2 DEF SendChunk, TxType, txVars
  <2> QED BY <1>0, <1>2, <2>1, <2>2 DEF SendChunk, HostType, Counted
<1>3. ASSUME Abort PROVE HostType' /\ Counted' /\ OutType' /\ TxType'
  BY <1>0, <1>3 DEF Abort, HostType, Counted, OutType, TxType, txVars
<1>4. CASE Answered
  <2>1. CASE Keep
    <3>1. /\ transfer \in Transfers /\ transfer.k < transfer.len
          /\ transfer' = [transfer EXCEPT !.k = @ + 1] /\ at' = "build" /\ at = "wait"
          /\ UNCHANGED <<reply, results, out, tx, other, shared, others>>
      BY <1>0, <1>4, <2>1 DEF Answered, Keep, HostType, txVars
    <3>2. transfer.k + 1 \in 1 .. MaxChunks /\ transfer.k + 1 <= transfer.len
      BY <3>1 DEF Transfers
    <3>3. transfer' \in Transfers /\ transfer'.k <= transfer'.len /\ transfer'.x = transfer.x
      BY <3>1, <3>2 DEF Transfers
    <3> QED BY <1>0, <3>1, <3>3 DEF HostType, Counted, OutType, TxType
  <2>2. CASE ~Keep
    BY <1>0, <1>4, <2>2 DEF Answered, HostType, Counted, OutType, TxType, txVars
  <2> QED BY <2>1, <2>2
<1> QED BY <1>1, <1>b, <1>2, <1>3, <1>4 DEF Driver, SendFails, Timeout

(* A chunk that core 1 takes.                                              *)
LEMMA HeadChunk ==
  ASSUME OutType, out # <<>>, Head(out).what = "chunk"
  PROVE  Head(out) \in Chunks
<1>1. Head(out) \in Chunks \cup {Other} \cup Configs
  BY PopLemma DEF OutType
<1> QED BY <1>1 DEF Configs, Other

LEMMA ChunkStep ==
  ASSUME TypeInv, ServeChunk
  PROVE  TypeInv'
<1>0. HostType /\ TxType /\ FwType /\ CauseType /\ OutType /\ InType /\ ServedType /\ Counted
  BY TypeParts DEF TypeInv
<1> DEFINE p == Head(out)
<1>1. /\ out # <<>> /\ p.what = "chunk" /\ out' = Tail(out)
      /\ UNCHANGED <<transfer, at, reply, results, bus, cs, disturbed, stray, fault, configs>>
      /\ UNCHANGED <<tx, other, shared, others>>
      /\ ServeOff(p) \/ ServeNoPin(p) \/ ServeClocks(p)
  BY DEF ServeChunk, hostVars, txVars, causeVars
<1>2. p \in Chunks
  BY <1>0, <1>1, HeadChunk
<1> HIDE DEF p
<1>3. /\ p.x \in 1 .. MaxTransfers /\ p.k \in 1 .. MaxChunks /\ p.dev \in Devices
      /\ p.keep \in BOOLEAN /\ p.x \in 0 .. MaxTransfers /\ p.k \in 0 .. MaxChunks
  BY <1>2 DEF Chunks
<1>4. OutType'
  BY <1>0, <1>1, PopLemma DEF OutType
<1>5. ASSUME NEW a \in {"data", "empty"}, Answer(p.x, p.k, a) PROVE InType'
  <2>1. [x |-> p.x, k |-> p.k, answer |-> a] \in Replies
    BY <1>3 DEF Replies
  <2> QED BY <1>0, <1>5, <2>1, PushLemma DEF Answer, InType
<1>6. ASSUME NEW a \in {"data", "empty", "none"}, NEW pin \in CsPins \cup {NoPin},
             NEW sel \in SUBSET CsPins, Record(p, a, pin, sel)
      PROVE  ServedType'
  <2>1. [x |-> p.x, k |-> p.k, answer |-> a, pin |-> pin, selected |-> sel] \in Served
    BY <1>3 DEF Served
  <2> QED BY <1>0, <1>6, <2>1, PushLemma DEF Record, ServedType
<1>c. HostType' /\ TxType' /\ CauseType' /\ Counted'
  <2>1. HostType' /\ TxType' /\ CauseType'
    BY <1>0, <1>1 DEF HostType, TxType, CauseType
  <2>2. Counted'
    BY <1>0, <1>1 DEF Counted
  <2> QED BY <2>1, <2>2
<1>7. CASE ServeOff(p)
  <2>1. ServedType'
    BY <1>6, <1>7 DEF ServeOff
  <2>2. InType' /\ FwType'
    BY <1>0, <1>1, <1>7 DEF ServeOff, InType, FwType
  <2> QED BY <1>4, <1>c, <2>1, <2>2
       DEF TypeInv, TypeOK, HostType, TxType, FwType, CauseType, OutType, InType, ServedType, Counted
<1>8. CASE ServeNoPin(p)
  <2>1. ServedType'
    BY <1>6, <1>8 DEF ServeNoPin
  <2>2. InType'
    BY <1>5, <1>8 DEF ServeNoPin
  <2>3. FwType'
    BY <1>0, <1>1, <1>8 DEF ServeNoPin, FwType
  <2> QED BY <1>4, <1>c, <2>1, <2>2, <2>3
       DEF TypeInv, TypeOK, HostType, TxType, FwType, CauseType, OutType, InType, ServedType, Counted
<1>9. CASE ServeClocks(p)
  <2> DEFINE now == IF held THEN low ELSE low \cup {cs[p.dev]}
  <2>1. cs[p.dev] \in CsPins /\ Answer(p.x, p.k, "data") /\ Record(p, "data", cs[p.dev], now)
        /\ ReleaseCs(p, now)
    BY <1>0, <1>3, <1>9 DEF ServeClocks, FwType
  <2>2. now \in SUBSET CsPins
    BY <1>0, <2>1 DEF FwType
  <2> HIDE DEF now
  <2>3. ServedType'
    BY <1>6, <2>1, <2>2
  <2>4. InType'
    BY <1>5, <2>1
  <2>5. FwType'
    BY <1>0, <1>1, <1>3, <2>1, <2>2 DEF ReleaseCs, FwType
  <2> QED BY <1>4, <1>c, <2>3, <2>4, <2>5
       DEF TypeInv, TypeOK, HostType, TxType, FwType, CauseType, OutType, InType, ServedType, Counted
<1> QED BY <1>1, <1>7, <1>8, <1>9

(* A configuration that core 1 takes.                                      *)
LEMMA ConfigStep ==
  ASSUME TypeInv, ServeFull \/ ServeCs
  PROVE  TypeInv'
<1>0. HostType /\ TxType /\ FwType /\ CauseType /\ OutType /\ InType /\ ServedType /\ Counted
  BY TypeParts DEF TypeInv
<1>1. /\ out # <<>> /\ out' = Tail(out)
      /\ UNCHANGED <<transfer, at, reply, results, held, served, stray, fault, configs>>
      /\ UNCHANGED <<tx, other, shared, others>>
  BY DEF ServeFull, ServeCs, hostVars, txVars
<1>2. OutType' /\ Head(out) \in Chunks \cup {Other} \cup Configs
  BY <1>0, <1>1, PopLemma DEF OutType
<1>3. Answer(0, 0, "empty") => InType'
  <2>1. [x |-> 0, k |-> 0, answer |-> "empty"] \in Replies
    BY DEF Replies
  <2> QED BY <1>0, <2>1, PushLemma DEF Answer, InType
<1>4. disturbed' \in BOOLEAN
  BY <1>0 DEF ServeFull, ServeCs, WithinFrame, CauseType, FwType
<1>5. CASE ServeFull
  <2>1. FwType'
    BY <1>0, <1>5 DEF ServeFull, FwType
  <2>2. InType'
    BY <1>0, <1>3, <1>5 DEF ServeFull, InType
  <2> QED BY <1>0, <1>1, <1>2, <1>4, <2>1, <2>2
       DEF TypeInv, TypeOK, HostType, TxType, FwType, CauseType, OutType, InType, ServedType, Counted
<1>6. CASE ServeCs
  <2>1. Head(out).what = "cs"
    BY <1>6 DEF ServeCs
  <2>2. Head(out).dev \in Devices /\ Head(out).pin \in CsPins
    BY <1>2, <2>1 DEF Chunks, Configs, Other
  <2>3. FwType'
    BY <1>0, <1>6, <2>2 DEF ServeCs, FwType
  <2> QED BY <1>0, <1>1, <1>2, <1>3, <1>4, <1>6, <2>3
       DEF ServeCs, TypeInv, TypeOK, HostType, TxType, FwType, CauseType, OutType, InType, ServedType, Counted
<1> QED BY <1>5, <1>6

LEMMA TypeStep ==
  ASSUME TypeInv, [Next]_vars
  PROVE  TypeInv'
<1>0. HostType /\ TxType /\ FwType /\ CauseType /\ OutType /\ InType /\ ServedType /\ Counted
  BY TypeParts DEF TypeInv
<1>p. HostType' /\ TxType' /\ FwType' /\ CauseType' /\ OutType' /\ InType' /\ ServedType' /\ Counted' => TypeInv'
  BY DEF TypeInv, TypeOK, HostType, TxType, FwType, CauseType, OutType, InType, ServedType
<1>t. UNCHANGED txVars => TxType'
  BY <1>0 DEF TxType, txVars
<1>f. UNCHANGED fwVars => FwType'
  BY <1>0 DEF FwType, fwVars
<1>i. UNCHANGED in => InType'
  BY <1>0 DEF InType
<1>s. UNCHANGED served => ServedType'
  BY <1>0 DEF ServedType
<1>1. ASSUME NEW d \in Devices, NEW n \in 1 .. MaxChunks, Start(d, n) PROVE TypeInv'
  <2>1. CauseType'
    BY <1>0, <1>1 DEF Start, CauseType, causeVars
  <2> QED BY <1>1, <1>f, <1>i, <1>s, <1>p, <2>1, HostStep DEF Start
<1>2. CASE Driver
  <2>1. CauseType' /\ UNCHANGED <<fwVars, in, served>>
    <3>1. ASSUME Abort, fault' \in BOOLEAN PROVE CauseType' /\ UNCHANGED <<fwVars, in, served>>
      BY <1>0, <3>1 DEF Abort, CauseType
    <3>2. SendFails \/ Timeout => Abort /\ fault' \in BOOLEAN
      BY <1>0 DEF SendFails, Timeout, CauseType
    <3>3. CASE Build \/ SendChunk \/ Answered
      BY <1>0, <3>3 DEF Build, SendChunk, Answered, CauseType, causeVars
    <3> QED BY <1>2, <3>1, <3>2, <3>3 DEF Driver
  <2> QED BY <1>2, <1>f, <1>i, <1>s, <1>p, <2>1, HostStep
<1>3. CASE Receive
  <2>1. InType' /\ Head(in) \in Replies
    BY <1>0, <1>3, PopLemma DEF Receive, InType
  <2>2. HostType' /\ Counted' /\ CauseType'
    BY <1>0, <1>3, <2>1 DEF Receive, Replies, HostType, Counted, CauseType
  <2>3. OutType'
    BY <1>0, <1>3 DEF Receive, OutType
  <2> QED BY <1>3, <1>t, <1>f, <1>s, <1>p, <2>1, <2>2, <2>3 DEF Receive
<1>4. ASSUME NEW c \in Configs, Configure(c) PROVE TypeInv'
  <2>1. OutType'
    BY <1>0, <1>4, PushLemma DEF Configure, OutType
  <2>2. CauseType' /\ HostType' /\ Counted'
    BY <1>0, <1>4 DEF Configure, CauseType, HostType, Counted, hostVars
  <2> QED BY <1>4, <1>t, <1>f, <1>i, <1>s, <1>p, <2>1, <2>2 DEF Configure
<1>5. CASE ServeChunk
  BY <1>5, ChunkStep
<1>6. CASE ServeFull \/ ServeCs
  BY <1>6, ConfigStep
<1>7. CASE UNCHANGED vars
  BY <1>7 DEF TypeInv, TypeOK, Counted, vars, hostVars, txVars, fwVars, causeVars
<1>8. CASE OtherBegin \/ OtherSend \/ OtherEnd
  <2>1. HostType' /\ Counted' /\ UNCHANGED <<fwVars, in, served>>
    BY <1>0, <1>8 DEF OtherBegin, OtherSend, OtherEnd, HostType, Counted, hostVars
  <2>2. CauseType'
    BY <1>0, <1>8 DEF OtherBegin, OtherSend, OtherEnd, CauseType, causeVars
  <2>3. TxType'
    BY <1>0, <1>8 DEF OtherBegin, OtherSend, OtherEnd, TxType
  <2>4. OutType'
    BY <1>0, <1>8, PushLemma DEF OtherBegin, OtherSend, OtherEnd, OutType, TxType
  <2> QED BY <1>f, <1>i, <1>s, <1>p, <2>1, <2>2, <2>3, <2>4
<1>9. CASE ServeOther
  <2>1. HostType' /\ Counted' /\ CauseType' /\ UNCHANGED <<fwVars, txVars, served>>
    BY <1>0, <1>9 DEF ServeOther, HostType, Counted, CauseType, hostVars, causeVars
  <2>2. OutType'
    BY <1>0, <1>9, PopLemma DEF ServeOther, OutType
  <2>3. [x |-> 0, k |-> 0, answer |-> "empty"] \in Replies
    BY DEF Replies
  <2>4. InType'
    BY <1>0, <1>9, <2>3, PushLemma DEF ServeOther, Answer, InType
  <2> QED BY <1>t, <1>f, <1>s, <1>p, <2>1, <2>2, <2>4
<1> QED BY <1>1, <1>2, <1>3, <1>4, <1>5, <1>6, <1>7, <1>8, <1>9 DEF Next

THEOREM SpiTypesHold == Spec => []TypeInv
<1>1. Init => TypeInv
  BY TypeInit
<1>2. TypeInv /\ [Next]_vars => TypeInv'
  BY TypeStep
<1> QED BY <1>1, <1>2, PTL DEF Spec

(* The variables keep their types (mfd-spi.c 62-121, spi_handler.c 36-180).*)
THEOREM SpiTypeCorrect == Spec => []TypeOK
<1>1. TypeInv => TypeOK
  BY DEF TypeInv
<1> QED BY <1>1, SpiTypesHold, PTL

-----------------------------------------------------------------------------
(* The order of chunks.                                                    *)

Before(a, b) == a.x < b.x \/ (a.x = b.x /\ a.k < b.k)

IsShared(c) == <<c.x, c.k>> \in shared

(* Chunk b is later than a, or it is the same chunk, which another caller  *)
(* may send, too.                                                          *)
NotAfter(a, b) == Before(a, b) \/ (a.x = b.x /\ a.k = b.k /\ IsShared(a))

(* Chunk c has left picolink_spi_transfer_one: the current chunk has not,  *)
(* as long as the driver is about to build or to send it, unless another   *)
(* caller may have sent it.                                                *)
Left(c) ==
  \/ c.x < transfer.x
  \/ c.x = transfer.x /\ c.k < transfer.k
  \/ c.x = transfer.x /\ c.k = transfer.k /\ at # "build" /\ (at # "send" \/ IsShared(c))

IsChunk(i) == out[i].what = "chunk"

ServedOrdered == \A i, j \in 1 .. Len(served) : i < j => NotAfter(served[i], served[j])
OutOrdered == \A i, j \in 1 .. Len(out) : i < j /\ IsChunk(i) /\ IsChunk(j) => NotAfter(out[i], out[j])
ServedFirst == \A i \in 1 .. Len(served), j \in 1 .. Len(out) : IsChunk(j) => NotAfter(served[i], out[j])
ServedLeft == \A i \in 1 .. Len(served) : Left(served[i])
OutLeft == \A j \in 1 .. Len(out) : IsChunk(j) => Left(out[j])

(* Chunk c may be the next to be sent: those sent are not after it.        *)
MayFollow(c) ==
  /\ Left(c)
  /\ \A i \in 1 .. Len(served) : NotAfter(served[i], c)
  /\ \A j \in 1 .. Len(out) : IsChunk(j) => NotAfter(out[j], c)

(* What is in transfer_tx_buf when it is sent: the driver sends the        *)
(* current chunk, unless another caller overwrote it, and another caller   *)
(* sends its own packet, unless a chunk was built over it.                 *)
BufferInv ==
  /\ at = "send" => tx = Chunk \/ (tx = Other /\ disturbed)
  /\ at = "wait" => other = "idle"
  /\ other = "send" /\ tx.what = "chunk" =>
       /\ IsShared(tx) /\ MayFollow(tx)
       /\ ~disturbed => at = "send" /\ tx = Chunk

(* What has been executed comes before what is on its way, and that before *)
(* what is sent next.                                                      *)
OrderInv == ServedOrdered /\ OutOrdered /\ ServedFirst /\ ServedLeft /\ OutLeft /\ BufferInv

LEMMA Numbers ==
  ASSUME TypeInv
  PROVE  /\ transfer.x \in Int /\ transfer.k \in Int
         /\ Len(served) \in Nat /\ Len(out) \in Nat
         /\ \A i \in 1 .. Len(served) : served[i].x \in Int /\ served[i].k \in Int
         /\ \A i \in 1 .. Len(out) : IsChunk(i) => out[i].x \in Int /\ out[i].k \in Int
         /\ tx.what = "chunk" => tx \in Chunks /\ tx.x \in Int /\ tx.k \in Int
<1>0. HostType /\ OutType /\ ServedType /\ TxType
  BY TypeParts DEF TypeInv
<1>1. transfer.x \in Int /\ transfer.k \in Int
  BY <1>0 DEF HostType, Transfers
<1>2. Len(served) \in Nat /\ Len(out) \in Nat
  BY <1>0 DEF OutType, ServedType
<1>3. ASSUME NEW i \in 1 .. Len(served) PROVE served[i].x \in Int /\ served[i].k \in Int
  <2>1. served[i] \in Served
    BY <1>0 DEF ServedType
  <2> QED BY <2>1 DEF Served
<1>4. ASSUME NEW i \in 1 .. Len(out), IsChunk(i) PROVE out[i].x \in Int /\ out[i].k \in Int
  <2>1. out[i] \in Chunks \cup {Other} \cup Configs
    BY <1>0 DEF OutType
  <2>2. out[i] \in Chunks
    BY <1>4, <2>1 DEF Configs, Other, IsChunk
  <2> QED BY <2>2 DEF Chunks
<1>5. ASSUME tx.what = "chunk" PROVE tx \in Chunks /\ tx.x \in Int /\ tx.k \in Int
  <2>1. tx \in Chunks
    BY <1>0, <1>5 DEF TxType, Other
  <2> QED BY <2>1 DEF Chunks
<1> QED BY <1>1, <1>2, <1>3, <1>4, <1>5

LEMMA ChunkFields ==
  /\ Chunk.what = "chunk" /\ Chunk.x = transfer.x /\ Chunk.k = transfer.k
  /\ Chunk.dev = transfer.dev /\ Chunk.keep = Keep
  /\ Other.what = "other"
BY DEF Chunk, Other

(* What has left the driver stays so, and so does the order of two chunks. *)
Lasting ==
  /\ shared \subseteq shared'
  /\ \A x, k \in Int : Left([x |-> x, k |-> k]) => Left([x |-> x, k |-> k])'

LEMMA LeftLasts ==
  ASSUME Lasting, NEW c, c.x \in Int, c.k \in Int, Left(c)
  PROVE  Left(c)'
<1> DEFINE d == [x |-> c.x, k |-> c.k]
<1>1. d.x = c.x /\ d.k = c.k
  OBVIOUS
<1>2. Left(d) => Left(d)'
  BY DEF Lasting
<1> HIDE DEF d
<1> QED BY <1>1, <1>2 DEF Left, IsShared

LEMMA OrderLasts ==
  ASSUME shared \subseteq shared', NEW a, NEW b, NotAfter(a, b)
  PROVE  NotAfter(a, b)'
BY DEF NotAfter, Before, IsShared

(* A step that sends nothing and executes nothing.                         *)
LEMMA MovesOn ==
  ASSUME TypeInv, OrderInv, UNCHANGED <<out, served>>, Lasting, BufferInv'
  PROVE  OrderInv'
<1>1. shared \subseteq shared'
  BY DEF Lasting
<1>2. ServedOrdered'
  BY <1>1, OrderLasts DEF OrderInv, ServedOrdered
<1>3. OutOrdered'
  BY <1>1, OrderLasts DEF OrderInv, OutOrdered, IsChunk
<1>4. ServedFirst'
  BY <1>1, OrderLasts DEF OrderInv, ServedFirst, IsChunk
<1>5. ServedLeft'
  BY LeftLasts, Numbers DEF OrderInv, ServedLeft
<1>6. OutLeft'
  BY LeftLasts, Numbers DEF OrderInv, OutLeft, IsChunk
<1> QED BY <1>2, <1>3, <1>4, <1>5, <1>6 DEF OrderInv

LEMMA MayStillFollow ==
  ASSUME TypeInv, UNCHANGED <<out, served>>, Lasting, tx.what = "chunk", MayFollow(tx), UNCHANGED tx
  PROVE  MayFollow(tx)'
<1>1. shared \subseteq shared'
  BY DEF Lasting
<1>2. Left(tx)'
  <2>1. Left(tx) /\ tx.x \in Int /\ tx.k \in Int
    BY Numbers DEF MayFollow
  <2>2. PICK t : t = tx
    OBVIOUS
  <2>3. Left(t)'
    BY <2>1, <2>2, LeftLasts DEF Left, IsShared
  <2> QED BY <2>2, <2>3 DEF Left, IsShared
<1>3. \A i \in 1 .. Len(served') : NotAfter(served[i], tx)'
  BY <1>1 DEF MayFollow, NotAfter, Before, IsShared
<1>4. \A j \in 1 .. Len(out') : IsChunk(j)' => NotAfter(out[j], tx)'
  BY <1>1 DEF MayFollow, NotAfter, Before, IsShared, IsChunk
<1> QED BY <1>2, <1>3, <1>4 DEF MayFollow

LEMMA OrderInit == Init => OrderInv
BY DEF Init, OrderInv, ServedOrdered, OutOrdered, ServedFirst, ServedLeft, OutLeft, BufferInv, Other

(* A packet is sent: a configuration, another caller's, or a chunk that    *)
(* may be the next one.                                                    *)
LEMMA SendStep ==
  ASSUME TypeInv, OrderInv, NEW e \in Chunks \cup {Other} \cup Configs, out' = Append(out, e),
         UNCHANGED <<served, shared>>, Lasting, BufferInv',
         e.what = "chunk" =>
           /\ Left(e)'
           /\ \A i \in 1 .. Len(served) : NotAfter(served[i], e)
           /\ \A j \in 1 .. Len(out) : IsChunk(j) => NotAfter(out[j], e)
  PROVE  OrderInv'
<1>0. OutType
  BY TypeParts DEF TypeInv
<1>1. shared \subseteq shared'
  OBVIOUS
<1>4. /\ Len(out') = Len(out) + 1
      /\ \A i \in 1 .. Len(out) + 1 : out'[i] = IF i <= Len(out) THEN out[i] ELSE e
  BY <1>0, PushLemma DEF OutType
<1>7. ServedOrdered'
  BY <1>1, OrderLasts DEF OrderInv, ServedOrdered
<1>l. ServedLeft'
  BY LeftLasts, Numbers DEF OrderInv, ServedLeft
<1>8. \A i \in 1 .. Len(out') : IsChunk(i)' =>
        \/ i \in 1 .. Len(out) /\ out'[i] = out[i] /\ IsChunk(i)
        \/ i = Len(out) + 1 /\ out'[i] = e /\ e.what = "chunk"
  BY <1>4, Numbers DEF IsChunk
<1>9. OutOrdered'
  <2> SUFFICES ASSUME NEW i \in 1 .. Len(out'), NEW j \in 1 .. Len(out'), i < j, IsChunk(i)', IsChunk(j)'
               PROVE  NotAfter(out[i], out[j])'
    BY DEF OutOrdered
  <2>1. i \in 1 .. Len(out) /\ out'[i] = out[i] /\ IsChunk(i)
    BY <1>4, <1>8, Numbers
  <2>2. CASE j \in 1 .. Len(out) /\ out'[j] = out[j] /\ IsChunk(j)
    <3>1. NotAfter(out[i], out[j])
      BY <2>1, <2>2 DEF OrderInv, OutOrdered
    <3> QED BY <2>1, <2>2, <3>1 DEF NotAfter, Before, IsShared
  <2>3. CASE out'[j] = e /\ e.what = "chunk"
    <3>1. NotAfter(out[i], e)
      BY <2>1, <2>3
    <3> QED BY <2>1, <2>3, <3>1 DEF NotAfter, Before, IsShared
  <2> QED BY <1>8, <2>2, <2>3
<1>10. ServedFirst'
  <2> SUFFICES ASSUME NEW i \in 1 .. Len(served), NEW j \in 1 .. Len(out'), IsChunk(j)'
               PROVE  NotAfter(served[i], out'[j])
    BY DEF ServedFirst, NotAfter, Before, IsShared
  <2>1. CASE j \in 1 .. Len(out) /\ out'[j] = out[j] /\ IsChunk(j)
    BY <2>1 DEF OrderInv, ServedFirst
  <2>2. CASE out'[j] = e /\ e.what = "chunk"
    BY <2>2
  <2> QED BY <1>8, <2>1, <2>2
<1>11. OutLeft'
  <2> SUFFICES ASSUME NEW j \in 1 .. Len(out'), IsChunk(j)'
               PROVE  Left(out[j])'
    BY DEF OutLeft
  <2>1. CASE j \in 1 .. Len(out) /\ out'[j] = out[j] /\ IsChunk(j)
    <3>1. Left(out[j]) /\ out[j].x \in Int /\ out[j].k \in Int
      BY <2>1, Numbers DEF OrderInv, OutLeft
    <3>2. PICK c : c = out[j]
      OBVIOUS
    <3>3. Left(c)'
      BY <3>1, <3>2, LeftLasts
    <3> QED BY <2>1, <3>2, <3>3 DEF Left, IsShared
  <2>2. CASE out'[j] = e /\ e.what = "chunk"
    BY <2>2 DEF Left, IsShared
  <2> QED BY <1>8, <2>1, <2>2
<1> QED BY <1>7, <1>l, <1>9, <1>10, <1>11 DEF OrderInv

(* Core 1 executes the chunk at the head.                                  *)
LEMMA ExecuteStep ==
  ASSUME TypeInv, OrderInv, ServeChunk
  PROVE  OrderInv'
<1>0. OutType /\ ServedType /\ ServedType'
  BY ChunkStep, TypeParts DEF TypeInv, TypeOK, ServedType
<1> DEFINE p == Head(out)
<1>1. /\ out # <<>> /\ p.what = "chunk" /\ out' = Tail(out)
      /\ UNCHANGED <<transfer, at, tx, other, shared, disturbed>>
  BY DEF ServeChunk, hostVars, txVars, causeVars
<1>2. p = out[1] /\ 1 \in 1 .. Len(out) /\ IsChunk(1) /\ Len(out') = Len(out) - 1
      /\ \A i \in 1 .. Len(out') : out'[i] = out[i + 1] /\ i + 1 \in 1 .. Len(out)
  BY <1>0, <1>1, PopLemma DEF OutType, IsChunk
<1>3. PICK a, pin, sel : Record(p, a, pin, sel)
  BY DEF ServeChunk, ServeOff, ServeNoPin, ServeClocks
<1> DEFINE r == [x |-> p.x, k |-> p.k, answer |-> a, pin |-> pin, selected |-> sel]
<1>4. /\ served' = Append(served, r) /\ r.x = out[1].x /\ r.k = out[1].k
  BY <1>2, <1>3 DEF Record
<1> HIDE DEF p, r
<1>5. /\ Len(served') = Len(served) + 1
      /\ \A i \in 1 .. Len(served) + 1 : served'[i] = IF i <= Len(served) THEN served[i] ELSE r
  BY <1>0, <1>4 DEF ServedType
<1>6. \A i \in 1 .. Len(served') :
        \/ i \in 1 .. Len(served) /\ served'[i] = served[i]
        \/ i = Len(served) + 1 /\ served'[i].x = out[1].x /\ served'[i].k = out[1].k
  BY <1>4, <1>5, Numbers
<1>7. \A i \in 1 .. Len(out') : IsChunk(i)' =>
        i + 1 \in 1 .. Len(out) /\ 1 < i + 1 /\ out'[i] = out[i + 1] /\ IsChunk(i + 1)
  BY <1>2, Numbers DEF IsChunk
<1>8. ServedOrdered'
  <2> SUFFICES ASSUME NEW i \in 1 .. Len(served'), NEW j \in 1 .. Len(served'), i < j
               PROVE  NotAfter(served[i], served[j])'
    BY DEF ServedOrdered
  <2>1. i \in 1 .. Len(served) /\ served'[i] = served[i]
    BY <1>5, <1>6, Numbers
  <2>2. CASE j \in 1 .. Len(served) /\ served'[j] = served[j]
    BY <1>1, <2>1, <2>2 DEF OrderInv, ServedOrdered, NotAfter, Before, IsShared
  <2>3. CASE served'[j].x = out[1].x /\ served'[j].k = out[1].k
    <3>1. NotAfter(served[i], out[1])
      BY <1>2, <2>1 DEF OrderInv, ServedFirst
    <3> QED BY <1>1, <2>1, <2>3, <3>1 DEF NotAfter, Before, IsShared
  <2> QED BY <1>6, <2>2, <2>3
<1>9. OutOrdered'
  <2> SUFFICES ASSUME NEW i \in 1 .. Len(out'), NEW j \in 1 .. Len(out'), i < j, IsChunk(i)', IsChunk(j)'
               PROVE  NotAfter(out[i], out[j])'
    BY DEF OutOrdered
  <2>1. i + 1 < j + 1
    BY <1>2, Numbers
  <2>2. NotAfter(out[i + 1], out[j + 1])
    BY <1>7, <2>1 DEF OrderInv, OutOrdered
  <2> QED BY <1>1, <1>7, <2>2 DEF NotAfter, Before, IsShared
<1>10. ServedFirst'
  <2> SUFFICES ASSUME NEW i \in 1 .. Len(served'), NEW j \in 1 .. Len(out'), IsChunk(j)'
               PROVE  NotAfter(served[i], out[j])'
    BY DEF ServedFirst
  <2>1. CASE i \in 1 .. Len(served) /\ served'[i] = served[i]
    <3>1. NotAfter(served[i], out[j + 1])
      BY <1>7, <2>1 DEF OrderInv, ServedFirst
    <3> QED BY <1>1, <1>7, <2>1, <3>1 DEF NotAfter, Before, IsShared
  <2>2. CASE served'[i].x = out[1].x /\ served'[i].k = out[1].k
    <3>1. NotAfter(out[1], out[j + 1])
      BY <1>2, <1>7 DEF OrderInv, OutOrdered
    <3> QED BY <1>1, <1>7, <2>2, <3>1 DEF NotAfter, Before, IsShared
  <2> QED BY <1>6, <2>1, <2>2
<1>11. ServedLeft'
  <2> SUFFICES ASSUME NEW i \in 1 .. Len(served') PROVE Left(served[i])'
    BY DEF ServedLeft
  <2>1. CASE i \in 1 .. Len(served) /\ served'[i] = served[i]
    BY <1>1, <2>1 DEF OrderInv, ServedLeft, Left, IsShared
  <2>2. CASE served'[i].x = out[1].x /\ served'[i].k = out[1].k
    <3>1. Left(out[1])
      BY <1>2 DEF OrderInv, OutLeft
    <3> QED BY <1>1, <2>2, <3>1 DEF Left, IsShared
  <2> QED BY <1>6, <2>1, <2>2
<1>12. OutLeft'
  <2> SUFFICES ASSUME NEW j \in 1 .. Len(out'), IsChunk(j)' PROVE Left(out[j])'
    BY DEF OutLeft
  <2>1. Left(out[j + 1]) /\ out'[j] = out[j + 1]
    BY <1>7 DEF OrderInv, OutLeft
  <2> QED BY <1>1, <2>1 DEF Left, IsShared
<1>13. BufferInv'
  <2> SUFFICES ASSUME other = "send", tx.what = "chunk", IsShared(tx), MayFollow(tx)
               PROVE  MayFollow(tx)'
    BY <1>1, ChunkFields DEF OrderInv, BufferInv, IsShared, Chunk, Keep
  <2>1. \A i \in 1 .. Len(served') : NotAfter(served[i], tx)'
    <3> TAKE i \in 1 .. Len(served')
    <3>1. CASE i \in 1 .. Len(served) /\ served'[i] = served[i]
      BY <1>1, <3>1 DEF MayFollow, NotAfter, Before, IsShared
    <3>2. CASE served'[i].x = out[1].x /\ served'[i].k = out[1].k
      <4>1. NotAfter(out[1], tx)
        BY <1>2 DEF MayFollow
      <4> QED BY <1>1, <3>2, <4>1 DEF NotAfter, Before, IsShared
    <3> QED BY <1>6, <3>1, <3>2
  <2>2. \A j \in 1 .. Len(out') : IsChunk(j)' => NotAfter(out[j], tx)'
    BY <1>1, <1>7 DEF MayFollow, NotAfter, Before, IsShared
  <2> QED BY <1>1, <2>1, <2>2 DEF MayFollow, Left, IsShared
<1> QED BY <1>8, <1>9, <1>10, <1>11, <1>12, <1>13 DEF OrderInv

(* Core 1 takes a packet that is not a chunk.                              *)
LEMMA TakeStep ==
  ASSUME TypeInv, OrderInv, ServeFull \/ ServeCs \/ ServeOther
  PROVE  OrderInv'
<1>0. OutType /\ CauseType
  BY TypeParts DEF TypeInv
<1>1. /\ UNCHANGED <<transfer, at, served, tx, other, shared>>
      /\ disturbed => disturbed'
  BY <1>0 DEF ServeFull, ServeCs, ServeOther, WithinFrame, hostVars, txVars, causeVars, CauseType
<1>2. ServedOrdered' /\ ServedLeft'
  BY <1>1 DEF OrderInv, ServedOrdered, ServedLeft, Left, NotAfter, Before, IsShared
<1>3. out # <<>> /\ out' = Tail(out)
  BY DEF ServeFull, ServeCs, ServeOther
<1>4. \A i \in 1 .. Len(out') : out'[i] = out[i + 1] /\ i + 1 \in 1 .. Len(out)
  BY <1>0, <1>3, PopLemma DEF OutType
<1>5. \A i, j \in 1 .. Len(out') : i < j => i + 1 < j + 1
  OBVIOUS
<1>6. OutOrdered'
  <2> SUFFICES ASSUME NEW i \in 1 .. Len(out'), NEW j \in 1 .. Len(out'), i < j, IsChunk(i)', IsChunk(j)'
               PROVE  NotAfter(out[i], out[j])'
    BY DEF OutOrdered
  <2>1. NotAfter(out[i + 1], out[j + 1])
    BY <1>4, <1>5 DEF OrderInv, OutOrdered, IsChunk
  <2>2. out'[i] = out[i + 1] /\ out'[j] = out[j + 1]
    BY <1>4
  <2> QED BY <1>1, <2>1, <2>2 DEF NotAfter, Before, IsShared
<1>7. ServedFirst' /\ OutLeft'
  <2>1. ServedFirst'
    <3> SUFFICES ASSUME NEW i \in 1 .. Len(served'), NEW j \in 1 .. Len(out'), IsChunk(j)'
                 PROVE  NotAfter(served[i], out[j])'
      BY DEF ServedFirst
    <3>1. NotAfter(served[i], out[j + 1]) /\ out'[j] = out[j + 1]
      BY <1>1, <1>4 DEF OrderInv, ServedFirst, IsChunk
    <3> QED BY <1>1, <3>1 DEF NotAfter, Before, IsShared
  <2>2. OutLeft'
    <3> SUFFICES ASSUME NEW j \in 1 .. Len(out'), IsChunk(j)' PROVE Left(out[j])'
      BY DEF OutLeft
    <3>1. Left(out[j + 1]) /\ out'[j] = out[j + 1]
      BY <1>4 DEF OrderInv, OutLeft, IsChunk
    <3> QED BY <1>1, <3>1 DEF Left, IsShared
  <2> QED BY <2>1, <2>2
<1>8. BufferInv'
  <2>1. ASSUME MayFollow(tx)  PROVE MayFollow(tx)'
    <3>1. Left(tx)'
      BY <1>1, <2>1 DEF MayFollow, Left, IsShared
    <3>2. ASSUME NEW i \in 1 .. Len(served')  PROVE NotAfter(served[i], tx)'
      <4>1. NotAfter(served[i], tx)
        BY <1>1, <2>1 DEF MayFollow
      <4> QED BY <1>1, <4>1 DEF NotAfter, Before, IsShared
    <3>3. ASSUME NEW j \in 1 .. Len(out'), IsChunk(j)'  PROVE NotAfter(out[j], tx)'
      <4>1. NotAfter(out[j + 1], tx) /\ out'[j] = out[j + 1]
        BY <1>4, <2>1, <3>3 DEF MayFollow, IsChunk
      <4> QED BY <1>1, <4>1 DEF NotAfter, Before, IsShared
    <3> QED BY <3>1, <3>2, <3>3 DEF MayFollow
  <2>2. Chunk' = Chunk /\ (disturbed => disturbed')
    BY <1>1 DEF Chunk, Keep
  <2>3. BufferInv
    BY DEF OrderInv
  <2> QED BY <1>1, <2>1, <2>2, <2>3 DEF BufferInv, IsShared
<1> QED BY <1>2, <1>6, <1>7, <1>8 DEF OrderInv

(* The driver builds the next chunk.                                       *)
LEMMA BuildStep ==
  ASSUME TypeInv, OrderInv, Build
  PROVE  OrderInv'
<1>1. /\ at = "build" /\ at' = "send" /\ tx' = Chunk /\ UNCHANGED <<transfer, other, out, served>>
      /\ shared' = IF other = "send" THEN shared \cup {<<transfer.x, transfer.k>>} ELSE shared
  BY DEF Build
<1>2. Chunk' = Chunk /\ transfer.x \in Int /\ transfer.k \in Int
  BY <1>1, Numbers DEF Chunk, Keep
<1>3. Lasting
  BY <1>1, <1>2 DEF Lasting, Left, IsShared
<1>4. ASSUME NEW c, c.x \in Int, c.k \in Int, Left(c)
      PROVE  NotAfter(c, Chunk)'
  BY <1>1, <1>2, <1>4, ChunkFields DEF Left, NotAfter, Before
<1>5. ASSUME other = "send" PROVE IsShared(tx)' /\ MayFollow(tx)'
  <2>1. IsShared(tx)' /\ Left(tx)'
    BY <1>1, <1>2, <1>5, ChunkFields DEF IsShared, Left
  <2>2. \A i \in 1 .. Len(served') : NotAfter(served[i], tx)'
    BY <1>1, <1>2, <1>4, Numbers DEF OrderInv, ServedLeft
  <2>3. \A j \in 1 .. Len(out') : IsChunk(j)' => NotAfter(out[j], tx)'
    BY <1>1, <1>2, <1>4, Numbers DEF OrderInv, OutLeft, IsChunk
  <2> QED BY <2>1, <2>2, <2>3 DEF MayFollow
<1>6. BufferInv'
  BY <1>1, <1>2, <1>5 DEF BufferInv
<1> QED BY <1>1, <1>3, <1>6, MovesOn

(* The current chunk has not been sent, unless another caller may have.    *)
LEMMA CurrentMayFollow ==
  ASSUME TypeInv, OrderInv, at = "send", NEW c, c.x \in Int, c.k \in Int, Left(c)
  PROVE  NotAfter(c, Chunk)
BY Numbers, ChunkFields DEF Left, NotAfter, Before

LEMMA OrderStep ==
  ASSUME TypeInv, TypeInv', OrderInv, [Next]_vars
  PROVE  OrderInv'
<1>0. /\ transfer.x \in Int /\ transfer.k \in Int /\ at \in {"idle", "build", "send", "wait"}
      /\ transfer'.x \in Int /\ transfer'.k \in Int /\ TxType /\ BufferInv
  <2>1. HostType' /\ HostType /\ TxType
    BY TypeParts DEF TypeInv, TypeOK, HostType
  <2> QED BY <2>1 DEF HostType, Transfers, OrderInv
(* The driver moves on without touching the buffer.                        *)
<1>m. ASSUME UNCHANGED <<out, served, tx, other, shared>>, Lasting, at' \in {"idle", "build"},
             disturbed' \/ UNCHANGED disturbed, at = "send" => disturbed'
      PROVE  OrderInv'
  <2>1. BufferInv'
    BY <1>0, <1>m, MayStillFollow DEF BufferInv, IsShared
  <2> QED BY <1>m, <2>1, MovesOn
<1>1. ASSUME NEW d \in Devices, NEW n \in 1 .. MaxChunks, Start(d, n) PROVE OrderInv'
  <2>1. UNCHANGED <<out, served, tx, other, shared, disturbed>> /\ at = "idle" /\ at' = "build"
        /\ transfer'.x = transfer.x + 1
    BY <1>1 DEF Start, txVars, causeVars
  <2>2. Lasting
    BY <1>0, <2>1 DEF Lasting, Left, IsShared
  <2> QED BY <1>m, <2>1, <2>2
<1>b. CASE Build
  BY <1>b, BuildStep
<1>2. CASE SendChunk
  <2>1. /\ at = "send" /\ at' = "wait" /\ other = "idle" /\ out' = Append(out, tx)
        /\ UNCHANGED <<transfer, served, tx, other, shared>>
    BY <1>2 DEF SendChunk, txVars
  <2>2. Lasting /\ BufferInv'
    BY <1>0, <2>1 DEF Lasting, Left, IsShared, BufferInv
  <2>3. tx \in Chunks \cup {Other} \cup Configs
    BY <1>0 DEF TxType
  <2>4. ASSUME tx.what = "chunk"
        PROVE  /\ Left(tx)'
               /\ \A i \in 1 .. Len(served) : NotAfter(served[i], tx)
               /\ \A j \in 1 .. Len(out) : IsChunk(j) => NotAfter(out[j], tx)
    <3>1. tx = Chunk
      BY <1>0, <2>1, <2>4, ChunkFields DEF BufferInv
    <3>2. Left(tx)'
      BY <2>1, <3>1, ChunkFields DEF Left
    <3>3. \A i \in 1 .. Len(served) : NotAfter(served[i], tx)
      BY <2>1, <3>1, CurrentMayFollow, Numbers DEF OrderInv, ServedLeft
    <3>4. \A j \in 1 .. Len(out) : IsChunk(j) => NotAfter(out[j], tx)
      BY <2>1, <3>1, CurrentMayFollow, Numbers DEF OrderInv, OutLeft
    <3> QED BY <3>2, <3>3, <3>4
  <2> QED BY <2>1, <2>2, <2>3, <2>4, SendStep
<1>3. CASE SendFails \/ Timeout
  <2>1. /\ UNCHANGED <<out, served, transfer, tx, other, shared>> /\ at' = "idle" /\ disturbed'
    BY <1>3 DEF SendFails, Timeout, Abort, txVars
  <2>2. Lasting
    BY <1>0, <2>1 DEF Lasting, Left, IsShared
  <2> QED BY <1>m, <2>1, <2>2
<1>4. CASE Answered
  <2>1. UNCHANGED <<out, served, tx, other, shared, disturbed>> /\ at = "wait" /\ at' \in {"idle", "build"}
    BY <1>4 DEF Answered, txVars, causeVars
  <2>2. \/ UNCHANGED transfer /\ at' = "idle"
        \/ transfer'.x = transfer.x /\ transfer'.k = transfer.k + 1
    <3>1. transfer \in Transfers
      BY TypeParts DEF TypeInv, HostType
    <3> QED BY <1>4, <3>1 DEF Answered, Transfers
  <2>3. Lasting
    BY <1>0, <2>1, <2>2 DEF Lasting, Left, IsShared
  <2> QED BY <1>m, <2>1, <2>3
<1>5. CASE ServeChunk
  BY <1>5, ExecuteStep
<1>6. CASE ServeFull \/ ServeCs \/ ServeOther
  BY <1>6, TakeStep
<1>7. ASSUME NEW c \in Configs, Configure(c) PROVE OrderInv'
  <2>1. /\ out' = Append(out, c) /\ UNCHANGED <<transfer, at, served, tx, other, shared, disturbed>>
        /\ c.what # "chunk"
    BY <1>7 DEF Configure, hostVars, txVars, Configs
  <2>2. Lasting
    BY <2>1 DEF Lasting, Left, IsShared
  <2>3. \A j \in 1 .. Len(out') : IsChunk(j)' => j \in 1 .. Len(out) /\ IsChunk(j) /\ out'[j] = out[j]
    <3>1. OutType
      BY TypeParts DEF TypeInv
    <3> QED BY <2>1, <3>1 DEF OutType, IsChunk
  <2>4. MayFollow(tx) => MayFollow(tx)'
    BY <2>1, <2>3 DEF MayFollow, Left, NotAfter, Before, IsShared
  <2>5. BufferInv'
    BY <1>0, <2>1, <2>4 DEF BufferInv, IsShared, Chunk, Keep
  <2> QED BY <2>1, <2>2, <2>5, SendStep
<1>8. CASE OtherBegin
  <2>1. /\ UNCHANGED <<transfer, at, out, served, shared>> /\ at # "wait" /\ tx' = Other
        /\ disturbed' = (disturbed \/ at = "send")
    BY <1>8 DEF OtherBegin, hostVars
  <2>2. Lasting /\ BufferInv'
    BY <2>1, ChunkFields DEF Lasting, Left, IsShared, BufferInv
  <2> QED BY <2>1, <2>2, MovesOn
<1>9. CASE OtherSend
  <2>1. /\ other = "send" /\ other' = "wait" /\ out' = Append(out, tx)
        /\ UNCHANGED <<transfer, at, served, tx, shared, disturbed>> /\ at # "wait"
    BY <1>0, <1>9 DEF OtherSend, hostVars, causeVars, BufferInv
  <2>2. Lasting
    BY <2>1 DEF Lasting, Left, IsShared
  <2>3. BufferInv'
    BY <1>0, <2>1 DEF BufferInv, Chunk, Keep
  <2>4. tx \in Chunks \cup {Other} \cup Configs
    BY <1>0 DEF TxType
  <2>5. ASSUME tx.what = "chunk"
        PROVE  /\ Left(tx)'
               /\ \A i \in 1 .. Len(served) : NotAfter(served[i], tx)
               /\ \A j \in 1 .. Len(out) : IsChunk(j) => NotAfter(out[j], tx)
    BY <1>0, <2>1, <2>5 DEF BufferInv, MayFollow, Left, IsShared
  <2> QED BY <2>1, <2>2, <2>3, <2>4, <2>5, SendStep
<1>10. CASE Receive \/ OtherEnd \/ UNCHANGED vars
  <2>1. /\ UNCHANGED <<transfer, at, out, served, tx, shared, disturbed>>
        /\ other' = other \/ other' = "idle"
    BY <1>10 DEF Receive, OtherEnd, vars, hostVars, txVars, causeVars
  <2>2. Lasting
    BY <2>1 DEF Lasting, Left, IsShared
  <2>3. BufferInv'
    BY <1>0, <2>1, <2>2, MayStillFollow DEF BufferInv, IsShared, Chunk, Keep
  <2> QED BY <2>1, <2>2, <2>3, MovesOn
<1> QED BY <1>1, <1>b, <1>2, <1>3, <1>4, <1>5, <1>6, <1>7, <1>8, <1>9, <1>10 DEF Next, Driver

(* The firmware executes the chunks of all transfers in the order in which *)
(* they were cut, and one of them twice only when it was built in          *)
(* transfer_tx_buf while another caller was about to send from there;      *)
(* failed transfers and late chunks are included (mfd-spi.c 78-118, core.c *)
(* 375-385, spi_handler.c 115-180).                                        *)
THEOREM ChunksKeepOrder == Spec => []ChunksInOrder
<1>1. Init => TypeInv /\ OrderInv
  BY TypeInit, OrderInit
<1>2. TypeInv /\ OrderInv /\ [Next]_vars => (TypeInv /\ OrderInv)'
  BY TypeStep, OrderStep
<1>3. TypeInv /\ OrderInv => ChunksInOrder
  <2> SUFFICES ASSUME TypeInv, OrderInv PROVE ChunksInOrder
    OBVIOUS
  <2>1. DOMAIN served = 1 .. Len(served)
    BY TypeParts DEF TypeInv, ServedType
  <2> QED BY <2>1 DEF OrderInv, ServedOrdered, NotAfter, Before, IsShared, ChunksInOrder
<1> QED BY <1>1, <1>2, <1>3, PTL DEF Spec

-----------------------------------------------------------------------------
(* Frames.                                                                 *)

(* The driver goes on, for device d, to the chunk after chunk k of         *)
(* transfer x: it is on its way, or the driver has still to send it.       *)
Follows(x, k, d) ==
  \/ \E j \in 1 .. Len(out) : IsChunk(j) /\ out[j].x = x /\ out[j].k = k + 1 /\ out[j].dev = d
  \/ /\ transfer.x = x /\ transfer.dev = d
     /\ \/ at \in {"build", "send"} /\ transfer.k = k + 1
        \/ at \in {"send", "wait"} /\ transfer.k = k /\ Keep

Latest == served[Len(served)]

LowInv == low = IF held THEN {Latest.pin} ELSE {}

KeptInv == \A i \in 1 .. Len(out) : IsChunk(i) /\ out[i].keep => Follows(out[i].x, out[i].k, out[i].dev)

(* The chunks of a transfer are for its device.                            *)
DeviceInv ==
  \A i \in 1 .. Len(out) :
    IsChunk(i) => /\ out[i].x = transfer.x => out[i].dev = transfer.dev
                  /\ \A j \in 1 .. Len(out) : IsChunk(j) /\ out[i].x = out[j].x => out[i].dev = out[j].dev

(* While a frame is open, what the driver goes on with is for the device   *)
(* of the latest chunk, whose pin has not changed.                         *)
HeldInv ==
  held => /\ Len(served) > 0 /\ bus
          /\ \E d \in Devices : cs[d] # NoPin /\ cs[d] = Latest.pin /\ Follows(Latest.x, Latest.k, d)

ClockedInv ==
  \A i \in 1 .. Len(served) : served[i].answer = "data" => served[i].selected = {served[i].pin}

FrameInv == ~disturbed => LowInv /\ KeptInv /\ DeviceInv /\ HeldInv /\ ClockedInv

(* Chunk k of transfer x was executed, with an answer.                     *)
ServedAs(x, k) == \E j \in 1 .. Len(served) : served[j].x = x /\ served[j].k = k /\ served[j].answer # "none"

(* When the driver took only its own answers and no transfer failed, a     *)
(* chunk on its way is the current one, not answered yet, or a copy of one *)
(* that was executed.                                                      *)
Unanswered(x, k) == transfer.x = x /\ transfer.k = k /\ (at = "send" \/ (at = "wait" /\ reply = "none"))

OnlyCurrent ==
  ~stray /\ ~disturbed =>
    \A j \in 1 .. Len(out) :
      IsChunk(j) => Unanswered(out[j].x, out[j].k) \/ ServedAs(out[j].x, out[j].k)

(* An answer on its way is to a configuration or to a chunk that was       *)
(* executed.                                                               *)
RealReplies == \A i \in 1 .. Len(in) : in[i].x = 0 \/ ServedAs(in[i].x, in[i].k)

(* What core 1 does with the chunk at the head of its packets.             *)
LEMMA TakeChunk ==
  ASSUME TypeInv, ServeChunk
  PROVE  /\ 1 \in 1 .. Len(out) /\ IsChunk(1) /\ out[1] \in Chunks
         /\ UNCHANGED <<transfer, at, reply, results, bus, cs, disturbed, stray, fault, configs,
                         tx, other, shared>>
         /\ \A i \in 1 .. Len(out') : out'[i] = out[i + 1] /\ i + 1 \in 1 .. Len(out)
         /\ \A i \in 1 .. Len(out) : i # 1 => i - 1 \in 1 .. Len(out') /\ out'[i - 1] = out[i]
         /\ Len(served') = Len(served) + 1 /\ Len(served) \in Nat
         /\ \A i \in 1 .. Len(served) : served'[i] = served[i]
         /\ served'[Len(served) + 1].x = out[1].x /\ served'[Len(served) + 1].k = out[1].k
         /\ \/ /\ ~bus /\ UNCHANGED <<in, low, held>>
               /\ served'[Len(served) + 1].answer = "none"
            \/ /\ bus /\ cs[out[1].dev] = NoPin /\ UNCHANGED <<low, held>>
               /\ Answer(out[1].x, out[1].k, "empty")
               /\ served'[Len(served) + 1].answer = "empty"
            \/ /\ bus /\ cs[out[1].dev] # NoPin
               /\ Answer(out[1].x, out[1].k, "data")
               /\ served'[Len(served) + 1].answer = "data"
               /\ served'[Len(served) + 1].pin = cs[out[1].dev]
               /\ served'[Len(served) + 1].selected = IF held THEN low ELSE low \cup {cs[out[1].dev]}
               /\ held' = out[1].keep
               /\ low' = IF out[1].keep THEN served'[Len(served) + 1].selected
                         ELSE served'[Len(served) + 1].selected \ {cs[out[1].dev]}
<1>0. OutType /\ ServedType /\ ServedType'
  BY ChunkStep, TypeParts DEF TypeInv, TypeOK, ServedType
<1> DEFINE p == Head(out)
<1>1. /\ out # <<>> /\ p.what = "chunk" /\ out' = Tail(out)
      /\ UNCHANGED <<transfer, at, reply, results, bus, cs, disturbed, stray, fault, configs,
                     tx, other, shared>>
      /\ ServeOff(p) \/ ServeNoPin(p) \/ ServeClocks(p)
  BY DEF ServeChunk, hostVars, txVars, causeVars
<1>2. /\ p = out[1] /\ 1 \in 1 .. Len(out) /\ Len(out) \in Nat /\ Len(out') = Len(out) - 1
      /\ \A i \in 1 .. Len(out') : out'[i] = out[i + 1] /\ i + 1 \in 1 .. Len(out)
  BY <1>0, <1>1, PopLemma DEF OutType
<1>3. p \in Chunks /\ IsChunk(1)
  BY <1>0, <1>1, <1>2, HeadChunk DEF IsChunk
<1> HIDE DEF p
<1>4. \A i \in 1 .. Len(out) : i # 1 => i - 1 \in 1 .. Len(out') /\ out'[i - 1] = out[i]
  <2> TAKE i \in 1 .. Len(out)
  <2> HAVE i # 1
  <2>1. i - 1 \in 1 .. Len(out') /\ (i - 1) + 1 = i
    BY <1>2
  <2> QED BY <1>2, <2>1
<1>5. ASSUME NEW r, served' = Append(served, r)
      PROVE  /\ Len(served') = Len(served) + 1 /\ Len(served) \in Nat
             /\ \A i \in 1 .. Len(served) : served'[i] = served[i]
             /\ served'[Len(served) + 1] = r
  BY <1>0, <1>5 DEF ServedType
<1>6. CASE ServeOff(p)
  <2>1. served' = Append(served, [x |-> p.x, k |-> p.k, answer |-> "none", pin |-> NoPin, selected |-> {}])
    BY <1>6 DEF ServeOff, Record
  <2> QED BY <1>1, <1>2, <1>3, <1>4, <1>5, <1>6, <2>1 DEF ServeOff
<1>7. CASE ServeNoPin(p)
  <2>1. served' = Append(served, [x |-> p.x, k |-> p.k, answer |-> "empty", pin |-> NoPin, selected |-> {}])
    BY <1>7 DEF ServeNoPin, Record
  <2> QED BY <1>1, <1>2, <1>3, <1>4, <1>5, <1>7, <2>1 DEF ServeNoPin
<1>8. CASE ServeClocks(p)
  <2> DEFINE now == IF held THEN low ELSE low \cup {cs[p.dev]}
             r == [x |-> p.x, k |-> p.k, answer |-> "data", pin |-> cs[p.dev], selected |-> now]
  <2>1. bus /\ cs[p.dev] # NoPin /\ Answer(p.x, p.k, "data") /\ served' = Append(served, r)
        /\ low' = (IF p.keep THEN now ELSE now \ {cs[p.dev]}) /\ held' = p.keep
    BY <1>8 DEF ServeClocks, Record, ReleaseCs
  <2>2. r.x = p.x /\ r.k = p.k /\ r.answer = "data" /\ r.pin = cs[p.dev] /\ r.selected = now
    OBVIOUS
  <2> HIDE DEF now, r
  <2>3. /\ Len(served') = Len(served) + 1 /\ Len(served) \in Nat
        /\ \A i \in 1 .. Len(served) : served'[i] = served[i]
        /\ served'[Len(served) + 1] = r
    BY <1>5, <2>1
  <2> QED BY <1>1, <1>2, <1>3, <1>4, <2>1, <2>2, <2>3 DEF now
<1> QED BY <1>1, <1>6, <1>7, <1>8

(* Core 1 executes a chunk: the next one of an open frame is for the same  *)
(* device.                                                                 *)
LEMMA ExecuteFrame ==
  ASSUME TypeInv, OrderInv, FrameInv, ServeChunk
  PROVE  FrameInv'
<1> DEFINE n == Len(served) + 1
           h == out[1]
<1>0. OutType /\ ServedType /\ FwType /\ HostType
  BY TypeParts DEF TypeInv
<1>1. /\ 1 \in 1 .. Len(out) /\ IsChunk(1) /\ h \in Chunks
      /\ UNCHANGED <<transfer, at, reply, results, bus, cs, disturbed, stray, fault, configs>>
      /\ \A i \in 1 .. Len(out') : out'[i] = out[i + 1] /\ i + 1 \in 1 .. Len(out)
      /\ \A i \in 1 .. Len(out) : i # 1 => i - 1 \in 1 .. Len(out') /\ out'[i - 1] = out[i]
      /\ Len(served') = n /\ Len(served) \in Nat
      /\ \A i \in 1 .. Len(served) : served'[i] = served[i]
      /\ served'[n].x = h.x /\ served'[n].k = h.k
  BY TakeChunk
<1>2. /\ h.dev \in Devices /\ h.x \in Int /\ h.k \in Int /\ h.keep \in BOOLEAN
      /\ transfer.x \in Int /\ transfer.k \in Int
  BY <1>1, Numbers DEF Chunks
<1> SUFFICES ASSUME ~disturbed PROVE LowInv' /\ KeptInv' /\ DeviceInv' /\ HeldInv' /\ ClockedInv'
  BY <1>1 DEF FrameInv
<1>3. LowInv /\ KeptInv /\ DeviceInv /\ HeldInv /\ ClockedInv
  BY DEF FrameInv
<1>v. DeviceInv'
  <2>1. ASSUME NEW i \in 1 .. Len(out'), IsChunk(i)'
        PROVE  i + 1 \in 1 .. Len(out) /\ IsChunk(i + 1) /\ out'[i] = out[i + 1]
    BY <1>1, <2>1 DEF IsChunk
  <2>2. ASSUME NEW i \in 1 .. Len(out'), IsChunk(i)', out'[i].x = transfer.x PROVE out'[i].dev = transfer.dev
    BY <1>3, <2>1, <2>2 DEF DeviceInv
  <2>3. ASSUME NEW i \in 1 .. Len(out'), IsChunk(i)', NEW j \in 1 .. Len(out'), IsChunk(j)',
               out'[i].x = out'[j].x
        PROVE  out'[i].dev = out'[j].dev
    <3>1. /\ i + 1 \in 1 .. Len(out) /\ IsChunk(i + 1) /\ out'[i] = out[i + 1]
          /\ j + 1 \in 1 .. Len(out) /\ IsChunk(j + 1) /\ out'[j] = out[j + 1]
      BY <2>1, <2>3
    <3> QED BY <1>3, <2>3, <3>1 DEF DeviceInv
  <2> QED BY <1>1, <2>2, <2>3 DEF DeviceInv
<1>4. ASSUME NEW x \in Int, NEW k \in Int, NEW d \in Devices, Follows(x, k, d),
             \/ h.x < x \/ (h.x = x /\ h.k <= k)
      PROVE  Follows(x, k, d)'
  <2>1. ASSUME NEW j \in 1 .. Len(out), IsChunk(j), out[j].x = x, out[j].k = k + 1, out[j].dev = d
        PROVE  Follows(x, k, d)'
    <3>1. j # 1
      BY <1>2, <1>4, <2>1
    <3>2. j - 1 \in 1 .. Len(out') /\ out'[j - 1] = out[j]
      BY <1>1, <3>1
    <3> QED BY <2>1, <3>2 DEF Follows, IsChunk
  <2>2. UNCHANGED <<transfer, at>>
    BY <1>1
  <2> QED BY <1>4, <2>1, <2>2 DEF Follows, Keep
<1>5. KeptInv'
  <2> SUFFICES ASSUME NEW i \in 1 .. Len(out'), IsChunk(i)', out'[i].keep
               PROVE  Follows(out[i].x, out[i].k, out[i].dev)'
    BY DEF KeptInv
  <2>1. out'[i] = out[i + 1] /\ i + 1 \in 1 .. Len(out) /\ i + 1 > 1 /\ IsChunk(i + 1)
    <3>1. out'[i] = out[i + 1] /\ i + 1 \in 1 .. Len(out)
      BY <1>1
    <3>2. i \in Int /\ i + 1 > 1
      OBVIOUS
    <3> QED BY <3>1, <3>2 DEF IsChunk
  <2>2. NotAfter(h, out[i + 1])
    BY <1>1, <2>1 DEF OrderInv, OutOrdered
  <2>3. out[i + 1] \in Chunks
    BY <1>0, <2>1 DEF OutType, IsChunk, Configs, Other
  <2>4. out[i + 1].x \in Int /\ out[i + 1].k \in Int /\ out[i + 1].dev \in Devices
    BY <2>3 DEF Chunks
  <2>5. PICK x \in Int, k \in Int, d \in Devices : x = out[i + 1].x /\ k = out[i + 1].k /\ d = out[i + 1].dev
    BY <2>4
  <2>6. Follows(x, k, d)
    BY <1>3, <2>1, <2>5 DEF KeptInv
  <2>7. h.x < x \/ (h.x = x /\ h.k <= k)
    BY <1>2, <2>2, <2>5 DEF NotAfter, Before
  <2>8. Follows(x, k, d)'
    BY <1>4, <2>6, <2>7
  <2> QED BY <2>1, <2>5, <2>8 DEF Follows
(* A frame is open: the chunk is the one the driver went on with.          *)
<1>6. ASSUME held PROVE bus /\ Latest.pin = cs[h.dev] /\ cs[h.dev] # NoPin
  <2>1. /\ Len(served) \in 1 .. Len(served) /\ bus
        /\ Latest.x \in Int /\ Latest.k \in Int
    BY <1>1, <1>3, <1>6, Numbers DEF HeldInv, Latest
  <2>2. PICK d \in Devices : cs[d] # NoPin /\ cs[d] = Latest.pin /\ Follows(Latest.x, Latest.k, d)
    BY <1>3, <1>6 DEF HeldInv
  <2>3. PICK a \in Int, x \in Int : a = Latest.x /\ x = h.x
    BY <1>2, <2>1
  <2>4. a <= x
    <3>1. NotAfter(Latest, h)
      BY <1>1, <2>1 DEF OrderInv, ServedFirst, Latest
    <3> QED BY <2>3, <3>1 DEF NotAfter, Before
  <2>5. CASE transfer.x = Latest.x /\ transfer.dev = d
    <3>1. Left(h)
      BY <1>1 DEF OrderInv, OutLeft
    <3>2. x = a
      BY <1>2, <2>3, <2>4, <2>5, <3>1 DEF Left
    <3>3. h.dev = d
      BY <1>1, <1>3, <2>3, <2>5, <3>2 DEF DeviceInv
    <3> QED BY <2>1, <2>2, <3>3
  <2>6. ASSUME NEW j \in 1 .. Len(out), IsChunk(j), out[j].x = Latest.x, out[j].dev = d
        PROVE  bus /\ Latest.pin = cs[h.dev] /\ cs[h.dev] # NoPin
    <3>1. CASE j = 1
      BY <2>1, <2>2, <2>6, <3>1
    <3>2. CASE j # 1
      <4>1. NotAfter(h, out[j])
        BY <1>1, <2>6, <3>2 DEF OrderInv, OutOrdered
      <4>2. x = a
        BY <2>3, <2>4, <2>6, <4>1 DEF NotAfter, Before
      <4>3. h.dev = d
        <5>1. out[1].x = out[j].x
          BY <2>3, <2>6, <4>2
        <5>2. out[1].dev = out[j].dev
          BY <1>1, <1>3, <2>6, <5>1 DEF DeviceInv
        <5> QED BY <2>6, <5>2
      <4> QED BY <2>1, <2>2, <4>3
    <3> QED BY <3>1, <3>2
  <2> QED BY <2>2, <2>5, <2>6 DEF Follows
<1>7. ASSUME h.keep
      PROVE  \E x \in Int, k \in Int, d \in Devices : x = h.x /\ k = h.k /\ d = h.dev /\ Follows(x, k, d)'
  <2>1. PICK x \in Int, k \in Int, d \in Devices : x = h.x /\ k = h.k /\ d = h.dev
    BY <1>2
  <2>2. Follows(x, k, d)
    BY <1>1, <1>3, <1>7, <2>1 DEF KeptInv
  <2>3. Follows(x, k, d)'
    BY <1>2, <1>4, <2>1, <2>2
  <2> QED BY <2>1, <2>3
<1> DEFINE r == served'[n]
           off == ~bus /\ UNCHANGED <<low, held>> /\ r.answer = "none"
           noPin == bus /\ cs[h.dev] = NoPin /\ UNCHANGED <<low, held>> /\ r.answer = "empty"
           clocks == /\ bus /\ cs[h.dev] # NoPin
                     /\ r.answer = "data" /\ r.pin = cs[h.dev]
                     /\ r.selected = (IF held THEN low ELSE low \cup {cs[h.dev]})
                     /\ held' = h.keep
                     /\ low' = (IF h.keep THEN r.selected ELSE r.selected \ {cs[h.dev]})
<1>8. off \/ noPin \/ clocks
  BY TakeChunk
<1>9. (off \/ noPin) => ~held
  BY <1>6, <1>3 DEF HeldInv
<1>10. Latest' = r /\ n \in 1 .. Len(served') /\ r.x = h.x /\ r.k = h.k
  BY <1>1 DEF Latest
<1>11. clocks => r.selected = {r.pin}
  BY <1>3, <1>6 DEF LowInv
<1> HIDE DEF r
<1>12. LowInv'
  <2>1. CASE off \/ noPin
    BY <1>3, <1>9, <2>1 DEF LowInv
  <2>2. CASE clocks
    BY <1>2, <1>10, <1>11, <2>2 DEF LowInv
  <2> QED BY <1>8, <2>1, <2>2
<1>13. HeldInv'
  <2>1. CASE off \/ noPin
    BY <1>9, <2>1 DEF HeldInv
  <2>2. CASE clocks /\ h.keep
    <3>1. PICK x \in Int, k \in Int, d \in Devices : x = h.x /\ k = h.k /\ d = h.dev /\ Follows(x, k, d)'
      BY <1>7, <2>2
    <3>2. cs'[d] # NoPin /\ cs'[d] = (Latest.pin)' /\ (Latest.x)' = x /\ (Latest.k)' = k
      BY <1>1, <1>10, <2>2, <3>1
    <3>3. Follows(Latest.x, Latest.k, d)'
      BY <3>1, <3>2 DEF Follows
    <3> QED BY <1>1, <2>2, <3>2, <3>3 DEF HeldInv
  <2>3. CASE clocks /\ ~h.keep
    BY <2>3 DEF HeldInv
  <2> QED BY <1>8, <2>1, <2>2, <2>3
<1>14. ClockedInv'
  <2> SUFFICES ASSUME NEW i \in 1 .. n, served'[i].answer = "data"
               PROVE  served'[i].selected = {served'[i].pin}
    BY <1>1 DEF ClockedInv
  <2>1. CASE i \in 1 .. Len(served)
    BY <1>1, <1>3, <2>1 DEF ClockedInv
  <2>2. CASE i = n
    <3>1. clocks /\ served'[i] = r
      BY <1>8, <2>2 DEF r
    <3> QED BY <1>11, <3>1
  <2> QED BY <1>1, <2>1, <2>2
<1> QED BY <1>5, <1>v, <1>12, <1>13, <1>14

(* What the driver goes on with, it goes on with after the step, too.      *)
GoesOn == \A x \in Int, k \in Int, d \in Devices : Follows(x, k, d) => Follows(x, k, d)'

LEMMA KeptStep ==
  ASSUME TypeInv, KeptInv, GoesOn,
         \A i \in 1 .. Len(out') : IsChunk(i)' /\ out'[i].keep =>
           \/ \E j \in 1 .. Len(out) : out'[i] = out[j]
           \/ Follows(out[i].x, out[i].k, out[i].dev)'
  PROVE  KeptInv'
<1> SUFFICES ASSUME NEW i \in 1 .. Len(out'), IsChunk(i)', out'[i].keep,
                    NEW j \in 1 .. Len(out), out'[i] = out[j]
             PROVE  Follows(out[i].x, out[i].k, out[i].dev)'
  BY DEF KeptInv
<1>1. IsChunk(j) /\ out[j] \in Chunks
  BY TypeParts DEF TypeInv, OutType, IsChunk, Configs, Other
<1>2. PICK x \in Int, k \in Int, d \in Devices : x = out[j].x /\ k = out[j].k /\ d = out[j].dev
  <2>1. out[j].x \in 1 .. MaxTransfers /\ out[j].k \in 1 .. MaxChunks /\ out[j].dev \in Devices
    BY <1>1 DEF Chunks
  <2>2. out[j].x \in Int /\ out[j].k \in Int
    BY <2>1
  <2> QED BY <2>1, <2>2
<1>3. Follows(out[j].x, out[j].k, out[j].dev)
  BY <1>1 DEF KeptInv
<1>4. Follows(x, k, d)'
  BY <1>2, <1>3 DEF GoesOn
<1> QED BY <1>2, <1>4 DEF Follows

LEMMA HeldStep ==
  ASSUME TypeInv, HeldInv, GoesOn, UNCHANGED <<bus, cs, held, served>>
  PROVE  HeldInv'
<1> SUFFICES ASSUME held PROVE HeldInv'
  BY DEF HeldInv
<1>1. /\ Len(served) > 0 /\ bus
      /\ \E d \in Devices : cs[d] # NoPin /\ cs[d] = Latest.pin /\ Follows(Latest.x, Latest.k, d)
  BY DEF HeldInv
<1>2. PICK d \in Devices : cs[d] # NoPin /\ cs[d] = Latest.pin /\ Follows(Latest.x, Latest.k, d)
  BY <1>1
<1>3. PICK x \in Int, k \in Int : x = Latest.x /\ k = Latest.k
  <2>1. Len(served) \in 1 .. Len(served)
    BY <1>1, Numbers
  <2> QED BY <2>1, Numbers DEF Latest
<1>4. Follows(x, k, d)' /\ Latest' = Latest
  BY <1>2, <1>3 DEF GoesOn, Latest
<1>5. Follows(Latest.x, Latest.k, d)'
  BY <1>3, <1>4 DEF Follows
<1> QED BY <1>1, <1>2, <1>4, <1>5 DEF HeldInv

(* A step that leaves core 1 alone and lets the driver go on.              *)
LEMMA HostFrame ==
  ASSUME TypeInv, FrameInv, UNCHANGED <<fwVars, served, disturbed>>, ~disturbed => GoesOn /\ DeviceInv',
         ~disturbed => \A i \in 1 .. Len(out') : IsChunk(i)' /\ out'[i].keep =>
           \/ \E j \in 1 .. Len(out) : out'[i] = out[j]
           \/ Follows(out[i].x, out[i].k, out[i].dev)'
  PROVE  FrameInv'
<1> SUFFICES ASSUME ~disturbed PROVE LowInv' /\ KeptInv' /\ DeviceInv' /\ HeldInv' /\ ClockedInv'
  BY DEF FrameInv
<1>1. LowInv /\ KeptInv /\ HeldInv /\ ClockedInv /\ UNCHANGED <<bus, cs, low, held, served>>
  BY DEF FrameInv, fwVars
<1>2. LowInv' /\ ClockedInv'
  BY <1>1 DEF LowInv, ClockedInv, Latest
<1> QED BY <1>1, <1>2, KeptStep, HeldStep

(* A packet is sent: the current chunk, or none of a transfer.             *)
LEMMA SendFrame ==
  ASSUME TypeInv, FrameInv, NEW e, out' = Append(out, e), UNCHANGED <<transfer, fwVars, served, disturbed>>,
         \/ UNCHANGED at
         \/ at = "send" /\ at' = "wait" /\ (e = Chunk \/ disturbed),
         e.what = "chunk" => disturbed \/ (e = Chunk /\ at = "send")
  PROVE  FrameInv'
<1>0. OutType /\ Len(out) \in Nat
  BY TypeParts, Numbers DEF TypeInv
<1>1. /\ \A i \in 1 .. Len(out) : out'[i] = out[i] /\ i \in 1 .. Len(out')
      /\ out'[Len(out) + 1] = e /\ Len(out) + 1 \in 1 .. Len(out')
      /\ \A i \in 1 .. Len(out') : i \in 1 .. Len(out) \/ i = Len(out) + 1
  BY <1>0 DEF OutType
<1> SUFFICES ASSUME ~disturbed PROVE FrameInv'
  BY DEF FrameInv
<1>2. GoesOn
  <2> SUFFICES ASSUME NEW x \in Int, NEW k \in Int, NEW d \in Devices, Follows(x, k, d)
               PROVE  Follows(x, k, d)'
    BY DEF GoesOn
  <2>1. CASE \E j \in 1 .. Len(out) : IsChunk(j) /\ out[j].x = x /\ out[j].k = k + 1 /\ out[j].dev = d
    BY <1>1, <2>1 DEF Follows, IsChunk
  <2>2. CASE at = "send" /\ at' = "wait" /\ e = Chunk /\ transfer.x = x /\ transfer.dev = d /\ transfer.k = k + 1
    BY <1>1, <2>2, ChunkFields DEF Follows, IsChunk
  <2> QED BY <2>1, <2>2 DEF Follows, Keep
<1>3. \A i \in 1 .. Len(out') : IsChunk(i)' /\ out'[i].keep =>
         \/ \E j \in 1 .. Len(out) : out'[i] = out[j]
         \/ Follows(out[i].x, out[i].k, out[i].dev)'
  <2> SUFFICES ASSUME NEW i \in 1 .. Len(out'), IsChunk(i)', out'[i].keep, i = Len(out) + 1
               PROVE  Follows(out[i].x, out[i].k, out[i].dev)'
    BY <1>1
  <2>1. out'[i] = e
    BY <1>1
  <2>2. e = Chunk /\ at = "send" /\ e.keep
    BY <2>1 DEF IsChunk
  <2>3. transfer'.x = e.x /\ transfer'.k = e.k /\ transfer'.dev = e.dev /\ Keep' /\ at' \in {"send", "wait"}
    BY <2>2, ChunkFields DEF Keep
  <2> QED BY <2>1, <2>3 DEF Follows
<1>4. DeviceInv'
  <2>1. DeviceInv
    BY DEF FrameInv
  <2>2. e.what = "chunk" => e.x = transfer.x /\ e.dev = transfer.dev
    BY ChunkFields
  <2>3. ASSUME NEW i \in 1 .. Len(out'), IsChunk(i)'
        PROVE  \/ i \in 1 .. Len(out) /\ out'[i] = out[i] /\ IsChunk(i)
               \/ out'[i].x = transfer.x /\ out'[i].dev = transfer.dev
    BY <1>1, <2>2, <2>3 DEF IsChunk
  <2>4. ASSUME NEW i \in 1 .. Len(out'), IsChunk(i)', out'[i].x = transfer.x
        PROVE  out'[i].dev = transfer.dev
    BY <2>1, <2>3, <2>4 DEF DeviceInv
  <2>5. ASSUME NEW i \in 1 .. Len(out'), IsChunk(i)', NEW j \in 1 .. Len(out'), IsChunk(j)',
               out'[i].x = out'[j].x
        PROVE  out'[i].dev = out'[j].dev
    <3>1. CASE out'[i].x = transfer.x
      BY <2>4, <2>5, <3>1
    <3>2. CASE out'[i].x # transfer.x
      BY <2>1, <2>3, <2>5, <3>2 DEF DeviceInv
    <3> QED BY <3>1, <3>2
  <2> QED BY <2>4, <2>5 DEF DeviceInv
<1> QED BY <1>2, <1>3, <1>4, HostFrame

(* Core 1 takes a packet that is not a chunk.                              *)
LEMMA TakeFrame ==
  ASSUME TypeInv, OrderInv, FrameInv, ServeFull \/ ServeCs \/ ServeOther
  PROVE  FrameInv'
<1>0. OutType /\ FwType /\ CauseType /\ Len(out) \in Nat
  BY TypeParts, Numbers DEF TypeInv
<1>1. /\ out # <<>> /\ out' = Tail(out) /\ Head(out).what # "chunk"
      /\ UNCHANGED <<transfer, at, held, served>>
      /\ \/ disturbed' = (disturbed \/ held) /\ low' \in SUBSET low
         \/ UNCHANGED <<disturbed, bus, cs, low>>
  BY ChunkFields DEF ServeFull, ServeCs, ServeOther, hostVars, fwVars, causeVars, WithinFrame
<1>2. /\ Head(out) = out[1] /\ Len(out') = Len(out) - 1
      /\ \A i \in 1 .. Len(out') : out'[i] = out[i + 1] /\ i + 1 \in 1 .. Len(out)
  BY <1>0, <1>1, PopLemma DEF OutType
<1>3. \A i \in 1 .. Len(out) : i # 1 => i - 1 \in 1 .. Len(out') /\ out'[i - 1] = out[i]
  <2> TAKE i \in 1 .. Len(out)
  <2> HAVE i # 1
  <2>1. i - 1 \in 1 .. Len(out') /\ (i - 1) + 1 = i
    BY <1>0, <1>2
  <2> QED BY <1>2, <2>1
<1>4. GoesOn
  <2> SUFFICES ASSUME NEW x \in Int, NEW k \in Int, NEW d \in Devices, Follows(x, k, d)
               PROVE  Follows(x, k, d)'
    BY DEF GoesOn
  <2>1. ASSUME NEW j \in 1 .. Len(out), IsChunk(j), out[j].x = x, out[j].k = k + 1, out[j].dev = d
        PROVE  Follows(x, k, d)'
    <3>1. j # 1
      BY <1>1, <1>2, <2>1 DEF IsChunk
    <3>2. j - 1 \in 1 .. Len(out') /\ out'[j - 1] = out[j]
      BY <1>3, <3>1
    <3>3. PICK i \in 1 .. Len(out') : out'[i] = out[j]
      BY <3>2
    <3>4. IsChunk(i)' /\ out'[i].x = x /\ out'[i].k = k + 1 /\ out'[i].dev = d
      BY <2>1, <3>3 DEF IsChunk
    <3> QED BY <3>4 DEF Follows
  <2> QED BY <1>1, <2>1 DEF Follows, Keep
<1>5. KeptInv => KeptInv'
  BY <1>2, <1>4, KeptStep
<1> SUFFICES ASSUME ~disturbed' PROVE LowInv' /\ KeptInv' /\ DeviceInv' /\ HeldInv' /\ ClockedInv'
  BY DEF FrameInv
<1>6. ~disturbed /\ LowInv /\ KeptInv /\ DeviceInv /\ HeldInv /\ ClockedInv
  BY <1>0, <1>1 DEF FrameInv, CauseType, FwType
<1>7. ClockedInv'
  BY <1>1, <1>6 DEF ClockedInv
<1>v. DeviceInv'
  BY <1>1, <1>2, <1>6 DEF DeviceInv, IsChunk
<1>8. CASE UNCHANGED <<disturbed, bus, cs, low>>
  BY <1>1, <1>4, <1>5, <1>6, <1>7, <1>v, <1>8, HeldStep DEF LowInv, Latest
<1>9. CASE ~held /\ low' \in SUBSET low
  BY <1>1, <1>5, <1>6, <1>7, <1>v, <1>9 DEF LowInv, HeldInv
<1> QED BY <1>1, <1>8, <1>9

LEMMA FrameStep ==
  ASSUME TypeInv, OrderInv, FrameInv, [Next]_vars
  PROVE  FrameInv'
<1>1. transfer.x \in Int /\ transfer.k \in Int
  BY Numbers
(* Nothing is sent and nothing is executed.                                *)
<1>2. ASSUME UNCHANGED <<fwVars, served, disturbed, out>>, ~disturbed => GoesOn /\ DeviceInv'
      PROVE  FrameInv'
  <2>1. \A i \in 1 .. Len(out') : \E j \in 1 .. Len(out) : out'[i] = out[j]
    BY <1>2
  <2> QED BY <1>2, <2>1, HostFrame
<1>3. ASSUME NEW d \in Devices, NEW n \in 1 .. MaxChunks, Start(d, n) PROVE FrameInv'
  <2>1. /\ UNCHANGED <<fwVars, served, disturbed, out>> /\ at = "idle"
        /\ transfer'.x = transfer.x + 1
    BY <1>3 DEF Start, causeVars
  <2>2. GoesOn
    BY <2>1 DEF GoesOn, Follows, IsChunk
  <2>3. ASSUME DeviceInv PROVE DeviceInv'
    <3>1. \A i \in 1 .. Len(out) : IsChunk(i) => out[i].x # transfer.x + 1
      <4> SUFFICES ASSUME NEW i \in 1 .. Len(out), IsChunk(i) PROVE out[i].x # transfer.x + 1
        OBVIOUS
      <4>1. Left(out[i]) /\ out[i].x \in Int
        BY Numbers DEF OrderInv, OutLeft
      <4>2. out[i].x < transfer.x \/ out[i].x = transfer.x
        BY <4>1 DEF Left
      <4> QED BY <1>1, <4>1, <4>2
    <3> QED BY <2>1, <2>3, <3>1 DEF DeviceInv, IsChunk
  <2> QED BY <1>2, <2>1, <2>2, <2>3 DEF FrameInv
<1>b. CASE Build
  <2>1. UNCHANGED <<fwVars, served, disturbed, out, transfer>> /\ at = "build" /\ at' = "send"
    BY <1>b DEF Build, causeVars
  <2> QED BY <1>2, <2>1 DEF GoesOn, Follows, IsChunk, Keep, DeviceInv, FrameInv
<1>5. CASE SendChunk
  <2>1. /\ at = "send" /\ at' = "wait" /\ out' = Append(out, tx)
        /\ UNCHANGED <<transfer, fwVars, served, disturbed>>
    BY <1>5 DEF SendChunk, causeVars
  <2>2. tx = Chunk \/ disturbed
    BY <2>1 DEF OrderInv, BufferInv
  <2> QED BY <2>1, <2>2, SendFrame
<1>6. CASE SendFails \/ Timeout
  BY <1>6 DEF SendFails, Timeout, Abort, FrameInv
<1>7. CASE Answered
  <2>1. UNCHANGED <<fwVars, served, out, disturbed>> /\ at = "wait" /\ transfer \in Transfers
    BY <1>7, TypeParts DEF Answered, causeVars, HostType, TypeInv
  <2>2. /\ transfer'.x = transfer.x /\ transfer'.dev = transfer.dev
        /\ ~Keep \/ (at' = "build" /\ transfer'.k = transfer.k + 1)
    BY <1>7, <2>1 DEF Answered, Transfers
  <2> QED BY <1>2, <2>1, <2>2 DEF Follows, IsChunk, GoesOn, DeviceInv, FrameInv
<1>8. CASE Receive \/ OtherEnd \/ UNCHANGED vars
  <2>1. UNCHANGED <<fwVars, served, out, disturbed, transfer, at>>
    BY <1>8 DEF Receive, OtherEnd, vars, hostVars, causeVars
  <2> QED BY <1>2, <2>1 DEF Follows, IsChunk, GoesOn, Keep, DeviceInv, FrameInv
<1>9. ASSUME NEW c \in Configs, Configure(c) PROVE FrameInv'
  <2>1. out' = Append(out, c) /\ UNCHANGED <<transfer, at, fwVars, served, disturbed>> /\ c.what # "chunk"
    BY <1>9 DEF Configure, hostVars, Configs
  <2> QED BY <2>1, SendFrame
<1>o. CASE OtherSend
  <2>1. /\ out' = Append(out, tx) /\ UNCHANGED <<transfer, at, fwVars, served, disturbed>>
        /\ other = "send"
    BY <1>o DEF OtherSend, hostVars, causeVars
  <2>2. tx.what = "chunk" => disturbed \/ (tx = Chunk /\ at = "send")
    BY <2>1 DEF OrderInv, BufferInv
  <2> QED BY <2>1, <2>2, SendFrame
<1>p. CASE OtherBegin
  <2>1. /\ UNCHANGED <<fwVars, served, out, transfer, at>> /\ disturbed' = (disturbed \/ at = "send")
    BY <1>p DEF OtherBegin, hostVars
  <2>2. CASE ~disturbed'
    <3>1. UNCHANGED disturbed
      BY <2>1, <2>2, TypeParts DEF TypeInv, CauseType
    <3> QED BY <1>2, <2>1, <3>1 DEF Follows, IsChunk, GoesOn, Keep, DeviceInv, FrameInv
  <2> QED BY <2>2 DEF FrameInv
<1>10. CASE ServeChunk
  BY <1>10, ExecuteFrame
<1>11. CASE ServeFull \/ ServeCs \/ ServeOther
  BY <1>11, TakeFrame
<1> QED BY <1>3, <1>b, <1>5, <1>6, <1>7, <1>8, <1>9, <1>o, <1>p, <1>10, <1>11 DEF Next, Driver

LEMMA FrameInit == Init => FrameInv
BY DEF Init, FrameInv, LowInv, KeptInv, DeviceInv, HeldInv, ClockedInv

-----------------------------------------------------------------------------
(* Answers.                                                                *)

LEMMA ServedGrows ==
  ASSUME TypeInv, [Next]_vars
  PROVE  \A j \in 1 .. Len(served) : j \in 1 .. Len(served') /\ served'[j] = served[j]
<1>1. CASE ServeChunk
  BY <1>1, TakeChunk
<1>2. CASE UNCHANGED served
  BY <1>2
<1>3. ServeChunk \/ UNCHANGED served
  BY DEF Next, Driver, Start, Build, SendChunk, OtherBegin, OtherSend, OtherEnd, ServeOther,
         SendFails, Timeout, Abort, Answered, Receive, Configure,
         ServeFull, ServeCs, vars
<1> QED BY <1>1, <1>2, <1>3

(* Core 1 answers the chunk it executes, when the bus is configured.       *)
LEMMA AnswerStep ==
  ASSUME TypeInv, ServeChunk
  PROVE  LET n == Len(served) + 1
         IN  /\ n \in 1 .. Len(served') /\ served'[n].x = out[1].x /\ served'[n].k = out[1].k
             /\ \/ served'[n].answer = "none" /\ in' = in
                \/ /\ served'[n].answer # "none"
                   /\ Len(in') = Len(in) + 1
                   /\ \A i \in 1 .. Len(in) : in'[i] = in[i] /\ i \in 1 .. Len(in')
                   /\ in'[Len(in) + 1].x = out[1].x /\ in'[Len(in) + 1].k = out[1].k
<1>0. InType /\ Len(in) \in Nat
  BY TypeParts DEF TypeInv, InType
<1>1. ASSUME NEW a, Answer(out[1].x, out[1].k, a)
      PROVE  /\ Len(in') = Len(in) + 1
             /\ \A i \in 1 .. Len(in) : in'[i] = in[i] /\ i \in 1 .. Len(in')
             /\ in'[Len(in) + 1].x = out[1].x /\ in'[Len(in) + 1].k = out[1].k
  <2> DEFINE e == [x |-> out[1].x, k |-> out[1].k, answer |-> a]
  <2>1. in' = Append(in, e) /\ e.x = out[1].x /\ e.k = out[1].k
    BY <1>1 DEF Answer
  <2> HIDE DEF e
  <2> QED BY <1>0, <2>1 DEF InType
<1> QED BY <1>1, TakeChunk

LEMMA RepliesInit == Init => RealReplies
BY DEF Init, RealReplies

LEMMA RepliesStep ==
  ASSUME TypeInv, RealReplies, [Next]_vars
  PROVE  RealReplies'
<1>0. InType /\ Len(in) \in Nat
  BY TypeParts DEF TypeInv, InType
<1>1. ASSUME \A i \in 1 .. Len(in') :
               \/ \E j \in 1 .. Len(in) : in'[i] = in[j]
               \/ in'[i].x = 0
               \/ ServedAs(in[i].x, in[i].k)'
      PROVE  RealReplies'
  <2> SUFFICES ASSUME NEW i \in 1 .. Len(in'), NEW j \in 1 .. Len(in), in'[i] = in[j], in[j].x # 0
               PROVE  ServedAs(in[i].x, in[i].k)'
    BY <1>1 DEF RealReplies
  <2>1. PICK l \in 1 .. Len(served) : served[l].x = in[j].x /\ served[l].k = in[j].k /\ served[l].answer # "none"
    BY DEF RealReplies, ServedAs
  <2>2. l \in 1 .. Len(served') /\ served'[l] = served[l]
    BY ServedGrows
  <2> QED BY <2>1, <2>2 DEF ServedAs
<1>2. CASE ServeChunk
  <2>1. \A i \in 1 .. Len(in') : i \in 1 .. Len(in) \/ i = Len(in) + 1
    BY <1>0, <1>2, AnswerStep
  <2>2. CASE served'[Len(served) + 1].answer = "none" /\ in' = in
    BY <1>1, <2>2
  <2>3. CASE served'[Len(served) + 1].answer # "none"
    <3>1. ASSUME NEW i \in 1 .. Len(in'), i = Len(in) + 1
          PROVE  ServedAs(in[i].x, in[i].k)'
      BY <1>2, <2>3, <3>1, AnswerStep DEF ServedAs
    <3>2. \A i \in 1 .. Len(in) : in'[i] = in[i]
      BY <1>2, <2>3, AnswerStep
    <3> QED BY <1>1, <2>1, <3>1, <3>2
  <2> QED BY <1>2, <2>2, <2>3, AnswerStep
<1>3. CASE Answer(0, 0, "empty")
  <2> DEFINE e == [x |-> 0, k |-> 0, answer |-> "empty"]
  <2>1. in' = Append(in, e) /\ e.x = 0
    BY <1>3 DEF Answer
  <2> HIDE DEF e
  <2>2. \A i \in 1 .. Len(in') : (in'[i] = in[i] /\ i \in 1 .. Len(in)) \/ in'[i].x = 0
    BY <1>0, <2>1 DEF InType
  <2> QED BY <1>1, <2>2
<1>4. CASE Receive
  <2>1. in # <<>> /\ in' = Tail(in)
    BY <1>4 DEF Receive
  <2>2. \A i \in 1 .. Len(in') : in'[i] = in[i + 1] /\ i + 1 \in 1 .. Len(in)
    BY <1>0, <2>1, PopLemma DEF InType
  <2> QED BY <1>1, <2>2
<1>5. CASE UNCHANGED in
  BY <1>1, <1>5
<1>6. ServeChunk \/ Answer(0, 0, "empty") \/ Receive \/ UNCHANGED in
  BY DEF Next, Driver, Start, Build, SendChunk, OtherBegin, OtherSend, OtherEnd, ServeOther,
         SendFails, Timeout, Abort, Answered, Configure,
         ServeFull, ServeCs, vars
<1> QED BY <1>2, <1>3, <1>4, <1>5, <1>6

LEMMA CurrentStep ==
  ASSUME TypeInv, TypeInv', OrderInv, RealReplies, OnlyCurrent, [Next]_vars
  PROVE  OnlyCurrent'
<1>0. OutType /\ HostType /\ CauseType /\ InType /\ Counted /\ Len(out) \in Nat /\ BufferInv
  BY TypeParts DEF TypeInv, OutType, OrderInv
<1> SUFFICES ASSUME ~stray', ~disturbed' PROVE OnlyCurrent'
  BY DEF OnlyCurrent
<1>1. ~stray /\ ~disturbed
  BY <1>0 DEF Next, Driver, Start, Build, SendChunk, SendFails, Timeout, Abort, Answered, Receive, Configure,
         OtherBegin, OtherSend, OtherEnd, ServeOther,
         ServeChunk, ServeFull, ServeCs, WithinFrame, vars, causeVars, CauseType
<1>2. \A j \in 1 .. Len(out) : IsChunk(j) => Unanswered(out[j].x, out[j].k) \/ ServedAs(out[j].x, out[j].k)
  BY <1>1 DEF OnlyCurrent
(* A chunk that was executed stays so; one that was not is still current.  *)
<1>3. ASSUME \A i \in 1 .. Len(out') : IsChunk(i)' =>
               \/ \E j \in 1 .. Len(out) : IsChunk(j) /\ out'[i] = out[j]
               \/ Unanswered(out[i].x, out[i].k)',
             \A j \in 1 .. Len(out) :
               IsChunk(j) /\ Unanswered(out[j].x, out[j].k) =>
                 \/ UNCHANGED transfer /\ (at' = "send" \/ (at' = "wait" /\ reply' = "none"))
                 \/ ServedAs(out[j].x, out[j].k)
      PROVE  OnlyCurrent'
  <2> SUFFICES ASSUME NEW i \in 1 .. Len(out'), IsChunk(i)',
                      NEW j \in 1 .. Len(out), IsChunk(j), out'[i] = out[j]
               PROVE  Unanswered(out[i].x, out[i].k)' \/ ServedAs(out[i].x, out[i].k)'
    BY <1>3 DEF OnlyCurrent
  <2>1. CASE ServedAs(out[j].x, out[j].k)
    <3>1. PICK l \in 1 .. Len(served) :
            served[l].x = out[j].x /\ served[l].k = out[j].k /\ served[l].answer # "none"
      BY <2>1 DEF ServedAs
    <3>2. l \in 1 .. Len(served') /\ served'[l] = served[l]
      BY ServedGrows
    <3> QED BY <3>1, <3>2 DEF ServedAs
  <2>2. CASE Unanswered(out[j].x, out[j].k)
    <3>1. CASE UNCHANGED transfer /\ (at' = "send" \/ (at' = "wait" /\ reply' = "none"))
      BY <2>2, <3>1 DEF Unanswered
    <3> QED BY <1>3, <2>1, <2>2, <3>1
  <2> QED BY <1>2, <2>1, <2>2
<1>s. ASSUME UNCHANGED out
      PROVE  \A i \in 1 .. Len(out') : IsChunk(i)' => \E j \in 1 .. Len(out) : IsChunk(j) /\ out'[i] = out[j]
  BY <1>s DEF IsChunk
<1>a. ASSUME NEW e, out' = Append(out, e)
      PROVE  \A i \in 1 .. Len(out') : (i \in 1 .. Len(out) /\ out'[i] = out[i]) \/ out'[i] = e
  BY <1>0, <1>a DEF OutType
<1>4. ASSUME NEW d \in Devices, NEW n \in 1 .. MaxChunks, Start(d, n) PROVE OnlyCurrent'
  BY <1>3, <1>4, <1>s DEF Start, Unanswered
<1>b. CASE Build
  BY <1>3, <1>b, <1>s DEF Build, Unanswered
<1>5. CASE SendChunk
  <2>1. /\ at = "send" /\ at' = "wait" /\ reply' = "none" /\ out' = Append(out, tx) /\ UNCHANGED transfer
    BY <1>5 DEF SendChunk
  <2>2. tx = Chunk
    BY <1>0, <1>1, <2>1 DEF BufferInv
  <2>3. Unanswered(Chunk.x, Chunk.k)'
    BY <2>1, ChunkFields DEF Unanswered, Chunk
  <2>4. \A i \in 1 .. Len(out') : IsChunk(i)' =>
               \/ \E j \in 1 .. Len(out) : IsChunk(j) /\ out'[i] = out[j]
               \/ Unanswered(out[i].x, out[i].k)'
    BY <1>a, <2>1, <2>2, ChunkFields DEF IsChunk, Unanswered
  <2> QED BY <1>3, <2>1, <2>4
<1>6. CASE SendFails \/ Timeout
  BY <1>6 DEF SendFails, Timeout, Abort
<1>7. CASE Answered
  BY <1>3, <1>7, <1>s DEF Answered, Unanswered
<1>8. CASE Receive
  <2>1. in # <<>> /\ UNCHANGED <<transfer, at, out>>
    BY <1>8 DEF Receive
  <2>2. CASE at = "wait" /\ reply = "none"
    <3>1. Head(in).x = transfer.x /\ Head(in).k = transfer.k
      BY <1>8, <2>2 DEF Receive
    <3>2. Head(in) = in[1] /\ 1 \in 1 .. Len(in) /\ transfer.x # 0
      BY <1>0, <2>1, <2>2, PopLemma DEF InType, Counted
    <3>3. ServedAs(transfer.x, transfer.k)
      BY <3>1, <3>2 DEF RealReplies
    <3>4. \A j \in 1 .. Len(out) :
            IsChunk(j) /\ Unanswered(out[j].x, out[j].k) => ServedAs(out[j].x, out[j].k)
      BY <3>3 DEF Unanswered, ServedAs
    <3> QED BY <1>3, <1>s, <2>1, <3>4
  <2>3. CASE ~(at = "wait" /\ reply = "none")
    BY <1>3, <1>8, <1>s, <2>1, <2>3 DEF Receive, Unanswered
  <2> QED BY <2>2, <2>3
<1>9. ASSUME NEW e, e.what # "chunk", out' = Append(out, e), UNCHANGED <<transfer, at, reply>>
      PROVE  OnlyCurrent'
  <2>1. \A i \in 1 .. Len(out') : IsChunk(i)' => \E j \in 1 .. Len(out) : IsChunk(j) /\ out'[i] = out[j]
    BY <1>9, <1>a DEF IsChunk
  <2> QED BY <1>3, <1>9, <2>1 DEF Unanswered
<1>c. ASSUME NEW c \in Configs, Configure(c) PROVE OnlyCurrent'
  BY <1>9, <1>c DEF Configure, hostVars, Configs
<1>o. CASE OtherSend
  <2>1. out' = Append(out, tx) /\ UNCHANGED <<transfer, at, reply>> /\ other = "send"
    BY <1>o DEF OtherSend, hostVars
  <2>2. CASE tx.what # "chunk"
    BY <1>9, <2>1, <2>2
  <2>3. CASE tx = Chunk /\ at = "send"
    <3>1. \A i \in 1 .. Len(out') : IsChunk(i)' =>
               \/ \E j \in 1 .. Len(out) : IsChunk(j) /\ out'[i] = out[j]
               \/ Unanswered(out[i].x, out[i].k)'
      BY <1>a, <2>1, <2>3, ChunkFields DEF IsChunk, Unanswered
    <3> QED BY <1>3, <2>1, <2>3, <3>1
  <2> QED BY <1>0, <1>1, <2>1, <2>2, <2>3 DEF BufferInv
<1>10. CASE ServeChunk \/ ServeFull \/ ServeCs \/ ServeOther
  <2>1. out # <<>> /\ out' = Tail(out) /\ UNCHANGED <<transfer, at, reply>>
    BY <1>10 DEF ServeChunk, ServeFull, ServeCs, ServeOther, hostVars
  <2>2. \A i \in 1 .. Len(out') : out'[i] = out[i + 1] /\ i + 1 \in 1 .. Len(out)
    BY <1>0, <2>1, PopLemma DEF OutType
  <2>3. \A i \in 1 .. Len(out') : IsChunk(i)' => \E j \in 1 .. Len(out) : IsChunk(j) /\ out'[i] = out[j]
    BY <2>2 DEF IsChunk
  <2> QED BY <1>3, <2>1, <2>3 DEF Unanswered
<1>11. CASE OtherBegin \/ OtherEnd \/ UNCHANGED vars
  BY <1>3, <1>11, <1>s DEF OtherBegin, OtherEnd, vars, hostVars, Unanswered
<1> QED BY <1>4, <1>b, <1>5, <1>6, <1>7, <1>8, <1>c, <1>o, <1>10, <1>11 DEF Next, Driver

(* What the proofs about frames need of a state.                           *)
BusInv == TypeInv /\ OrderInv /\ FrameInv /\ RealReplies /\ OnlyCurrent

LEMMA BusHolds == Spec => []BusInv
<1>1. Init => BusInv
  BY TypeInit, OrderInit, FrameInit, RepliesInit DEF BusInv, Init, OnlyCurrent
<1>2. BusInv /\ [Next]_vars => BusInv'
  BY TypeStep, OrderStep, FrameStep, RepliesStep, CurrentStep DEF BusInv
<1> QED BY <1>1, <1>2, PTL DEF Spec

LEMMA ServedDomain == ASSUME TypeInv PROVE DOMAIN served = 1 .. Len(served)
BY TypeParts DEF TypeInv, ServedType

(* While data is clocked, the device it is for is selected and no other    *)
(* is, as long as no transfer failed, no chunk was overwritten before it   *)
(* was sent and nobody configured the bus within a frame (spi_handler.c    *)
(* 135-148, mfd-spi.c 91-95).                                              *)
THEOREM NoOtherSelected == Spec => []OnlyAddressed
<1>1. BusInv => OnlyAddressed
  BY ServedDomain DEF BusInv, FrameInv, ClockedInv, OnlyAddressed
<1> QED BY <1>1, BusHolds, PTL

(* Under the same condition a chip select is low exactly while cs_was_low  *)
(* says so, it is that of the latest chunk, and a transfer that got its    *)
(* own answers leaves none low (spi_handler.c 135-148, mfd-spi.c 93-95).   *)
THEOREM FramesAreWhole == Spec => []Framed
<1>1. BusInv => Framed
  <2> SUFFICES ASSUME BusInv, ~disturbed PROVE Framed
    BY DEF Framed
  <2>1. LowInv /\ HeldInv
    BY DEF BusInv, FrameInv
  <2>2. ASSUME at = "idle", ~stray, held PROVE FALSE
    <3>0. TypeInv /\ OrderInv /\ OnlyCurrent
      BY DEF BusInv
    <3>1. Len(served) > 0 /\ \E d \in Devices : Follows(Latest.x, Latest.k, d)
      BY <2>1, <2>2 DEF HeldInv
    <3>2. PICK j \in 1 .. Len(out) : IsChunk(j) /\ out[j].x = Latest.x /\ out[j].k = Latest.k + 1
      BY <2>2, <3>1 DEF Follows
    <3>3. ServedAs(out[j].x, out[j].k)
      BY <2>2, <3>0, <3>2 DEF OnlyCurrent, Unanswered
    <3>4. PICK l \in 1 .. Len(served) : served[l].x = Latest.x /\ served[l].k = Latest.k + 1
      BY <3>2, <3>3 DEF ServedAs
    <3>5. Len(served) \in 1 .. Len(served) /\ Latest.x \in Int /\ Latest.k \in Int
      BY <3>0, <3>1, Numbers DEF Latest
    <3>6. l = Len(served) \/ NotAfter(served[l], Latest)
      BY <3>0, <3>5 DEF OrderInv, ServedOrdered, Latest
    <3> QED BY <3>4, <3>5, <3>6 DEF NotAfter, Before, Latest
  <2> QED BY <2>1, <2>2 DEF Framed, LowInv, Latest
<1> QED BY <1>1, BusHolds, PTL

-----------------------------------------------------------------------------
(* What a transfer returns.                                                *)

(* No transfer has a result before it ends.                                *)
NoResultYet ==
  \A i \in 1 .. MaxTransfers : i > transfer.x \/ (i = transfer.x /\ at # "idle") => results[i] = "none"

(* Chunks before the current one were executed, or refused with an answer, *)
(* and so was the current one when its answer is there.                    *)
DoneInv ==
  ~stray /\ transfer.x > 0 =>
    \A k \in 1 .. transfer.len :
      k < transfer.k \/ results[transfer.x] = "ok" \/ (k = transfer.k /\ at = "wait" /\ reply # "none") =>
        ServedAs(transfer.x, k)

(* While the driver waits for it, the current chunk is on its way, was     *)
(* executed without an answer, or its answer is on its way; or another     *)
(* caller's packet was sent in its place.                                  *)
CurrentInv ==
  at = "wait" /\ reply = "none" =>
    \/ \E j \in 1 .. Len(out) : IsChunk(j) /\ out[j].x = transfer.x /\ out[j].k = transfer.k
    \/ \E j \in 1 .. Len(served) :
         served[j].x = transfer.x /\ served[j].k = transfer.k /\ served[j].answer = "none"
    \/ \E j \in 1 .. Len(in) : in[j].x = transfer.x /\ in[j].k = transfer.k
    \/ tx = Other

ResultInv == NoResultYet /\ DoneInv /\ CurrentInv /\ FailureHasCause

LEMMA ResultInit == Init => ResultInv
BY DEF Init, ResultInv, NoResultYet, DoneInv, CurrentInv, FailureHasCause

(* Neither the driver nor core 1 changes what it says of the transfer.     *)
LEMMA ServedAsStays ==
  ASSUME TypeInv, [Next]_vars, NEW x, NEW k, ServedAs(x, k)
  PROVE  ServedAs(x, k)'
BY ServedGrows DEF ServedAs

LEMMA NoResultStep ==
  ASSUME TypeInv, NoResultYet, [Next]_vars
  PROVE  NoResultYet'
<1>0. HostType /\ Counted
  BY TypeParts DEF TypeInv
<1>1. transfer.x \in Int
  BY <1>0 DEF HostType, Transfers
<1>2. CASE UNCHANGED <<transfer, at, results>>
  BY <1>2 DEF NoResultYet
<1>3. ASSUME NEW d \in Devices, NEW n \in 1 .. MaxChunks, Start(d, n) PROVE NoResultYet'
  <2>1. transfer'.x = transfer.x + 1 /\ UNCHANGED results
    BY <1>3 DEF Start
  <2> QED BY <1>1, <2>1 DEF NoResultYet
<1>4. CASE SendChunk \/ Build
  BY <1>1, <1>4 DEF SendChunk, Build, NoResultYet
<1>5. CASE Abort
  BY <1>0, <1>1, <1>5 DEF Abort, NoResultYet, HostType
<1>6. CASE Answered
  <2>1. at = "wait" /\ transfer \in Transfers
    BY <1>0, <1>6 DEF Answered, HostType
  <2>2. CASE Keep
    <3>1. transfer'.x = transfer.x /\ UNCHANGED results
      BY <1>6, <2>1, <2>2 DEF Answered, Transfers
    <3> QED BY <2>1, <3>1 DEF NoResultYet
  <2>3. CASE ~Keep
    BY <1>0, <1>1, <1>6, <2>3 DEF Answered, NoResultYet, HostType
  <2> QED BY <2>2, <2>3
<1> QED BY <1>2, <1>3, <1>4, <1>5, <1>6
     DEF Next, Driver, SendFails, Timeout, Receive, Configure, OtherBegin, OtherSend, OtherEnd,
         ServeChunk, ServeOther, ServeFull, ServeCs, vars, hostVars

LEMMA DoneStep ==
  ASSUME TypeInv, NoResultYet, RealReplies, DoneInv, [Next]_vars
  PROVE  DoneInv'
<1>0. HostType /\ Counted /\ InType /\ CauseType
  BY TypeParts DEF TypeInv
<1>1. /\ transfer.x \in 0 .. MaxTransfers /\ transfer.k \in 1 .. MaxChunks
      /\ transfer.len \in 1 .. MaxChunks /\ transfer.k <= transfer.len
  BY <1>0 DEF HostType, Transfers, Counted
<1> SUFFICES ASSUME ~stray', transfer'.x > 0, NEW k \in 1 .. transfer'.len,
                    \/ k < transfer'.k
                    \/ results'[transfer'.x] = "ok"
                    \/ k = transfer'.k /\ at' = "wait" /\ reply' # "none"
             PROVE  ServedAs(transfer.x, k)'
  BY DEF DoneInv
<1>2. ASSUME ~stray, transfer.x > 0, transfer'.x = transfer.x, k \in 1 .. transfer.len,
             k < transfer.k \/ results[transfer.x] = "ok" \/ (k = transfer.k /\ at = "wait" /\ reply # "none")
      PROVE  ServedAs(transfer.x, k)'
  <2>1. ServedAs(transfer.x, k)
    BY <1>2 DEF DoneInv
  <2>2. PICK x \in 0 .. MaxTransfers : x = transfer.x
    BY <1>1
  <2>3. ServedAs(x, k)'
    BY <2>1, <2>2, ServedAsStays
  <2> QED BY <1>2, <2>2, <2>3 DEF ServedAs
<1>3. CASE UNCHANGED <<transfer, at, reply, results, stray>>
  BY <1>2, <1>3
<1>4. ASSUME NEW d \in Devices, NEW n \in 1 .. MaxChunks, Start(d, n) PROVE FALSE
  <2>1. /\ transfer.x + 1 \in 1 .. MaxTransfers /\ transfer'.x = transfer.x + 1 /\ transfer'.k = 1
        /\ at' = "build" /\ UNCHANGED results
    BY <1>1, <1>4 DEF Start
  <2>2. results[transfer.x + 1] = "none"
    BY <1>1, <2>1 DEF NoResultYet
  <2> QED BY <2>1, <2>2
<1>5. CASE SendChunk \/ Build
  BY <1>2, <1>5 DEF SendChunk, Build, causeVars
<1>6. CASE Abort /\ at # "idle"
  <2>1. /\ transfer.x \in 1 .. MaxTransfers /\ at' = "idle" /\ UNCHANGED <<transfer, reply, stray>>
        /\ results'[transfer.x] = "error"
    BY <1>0, <1>1, <1>6 DEF Abort, Counted, HostType
  <2> QED BY <1>2, <2>1
<1>7. CASE Answered
  <2>1. at = "wait" /\ transfer \in Transfers /\ UNCHANGED <<reply, stray>> /\ reply # "none"
    BY <1>0, <1>7 DEF Answered, HostType, causeVars
  <2>2. CASE Keep
    <3>1. /\ transfer'.x = transfer.x /\ UNCHANGED results /\ transfer'.k = transfer.k + 1
          /\ transfer'.len = transfer.len /\ at' = "build"
      BY <1>7, <2>1, <2>2 DEF Answered, Transfers
    <3>2. k < transfer.k + 1 => k < transfer.k \/ k = transfer.k
      BY <1>1, <3>1
    <3> QED BY <1>2, <2>1, <3>1, <3>2
  <2>3. CASE ~Keep
    <3>1. UNCHANGED transfer /\ transfer.k = transfer.len
      BY <1>1, <1>7, <2>3 DEF Answered, Keep
    <3> QED BY <1>1, <1>2, <2>1, <3>1
  <2> QED BY <2>2, <2>3
<1>8. CASE Receive
  <2>1. in # <<>> /\ UNCHANGED <<transfer, at, results>>
    BY <1>8 DEF Receive
  <2>2. CASE at = "wait" /\ reply = "none"
    <3>1. stray' = (stray \/ Head(in).x # transfer.x \/ Head(in).k # transfer.k)
      BY <1>8, <2>2 DEF Receive
    <3>2. Head(in) = in[1] /\ 1 \in 1 .. Len(in) /\ transfer.x # 0 /\ ~stray
      BY <1>0, <2>1, <2>2, <3>1, PopLemma DEF InType, Counted, CauseType
    <3>3. ServedAs(transfer.x, transfer.k)
      BY <3>1, <3>2 DEF RealReplies
    <3>4. PICK x, l : x = transfer.x /\ l = transfer.k
      OBVIOUS
    <3>5. ServedAs(x, l)'
      BY <3>3, <3>4, ServedAsStays
    <3>6. ServedAs(transfer.x, transfer.k)'
      BY <2>1, <3>4, <3>5 DEF ServedAs
    <3> QED BY <1>2, <2>1, <3>2, <3>6 DEF ServedAs
  <2>3. CASE ~(at = "wait" /\ reply = "none")
    BY <1>2, <1>8, <2>1, <2>3 DEF Receive
  <2> QED BY <2>2, <2>3
<1> QED BY <1>3, <1>4, <1>5, <1>6, <1>7, <1>8
     DEF Next, Driver, SendFails, Timeout, Configure, OtherBegin, OtherSend, OtherEnd,
         ServeChunk, ServeOther, ServeFull, ServeCs, vars, hostVars, causeVars

LEMMA WaitStep ==
  ASSUME TypeInv, OrderInv, CurrentInv, [Next]_vars
  PROVE  CurrentInv'
<1>0. OutType /\ InType /\ Len(out) \in Nat /\ Len(in) \in Nat /\ BufferInv
  BY TypeParts DEF TypeInv, OutType, InType, OrderInv
<1>1. CASE at' # "wait" \/ reply' # "none"
  BY <1>1 DEF CurrentInv
<1>2. CASE SendChunk
  <2>1. out' = Append(out, tx) /\ UNCHANGED <<transfer, tx>> /\ tx \in {Chunk, Other}
    BY <1>0, <1>2 DEF SendChunk, txVars, BufferInv
  <2>2. out'[Len(out) + 1] = tx /\ Len(out) + 1 \in 1 .. Len(out')
    BY <1>0, <2>1 DEF OutType
  <2> QED BY <2>1, <2>2, ChunkFields DEF CurrentInv, IsChunk
(* What is looked for stays where it is, or moves on.                      *)
<1>3. ASSUME at = "wait", reply = "none", UNCHANGED <<transfer, at, reply, tx>>,
             \A j \in 1 .. Len(out) : IsChunk(j) => \E i \in 1 .. Len(out') : out'[i] = out[j],
             \A j \in 1 .. Len(in) : \E i \in 1 .. Len(in') : in'[i] = in[j]
      PROVE  CurrentInv'
  <2>1. CASE \E j \in 1 .. Len(out) : IsChunk(j) /\ out[j].x = transfer.x /\ out[j].k = transfer.k
    <3>1. PICK j \in 1 .. Len(out) : IsChunk(j) /\ out[j].x = transfer.x /\ out[j].k = transfer.k
      BY <2>1
    <3>2. PICK i \in 1 .. Len(out') : out'[i] = out[j]
      BY <1>3, <3>1
    <3> QED BY <1>3, <3>1, <3>2 DEF CurrentInv, IsChunk
  <2>2. CASE \E j \in 1 .. Len(served) :
               served[j].x = transfer.x /\ served[j].k = transfer.k /\ served[j].answer = "none"
    BY <1>3, <2>2, ServedGrows DEF CurrentInv
  <2>3. CASE \E j \in 1 .. Len(in) : in[j].x = transfer.x /\ in[j].k = transfer.k
    BY <1>3, <2>3 DEF CurrentInv
  <2>4. CASE tx = Other
    BY <1>3, <2>4 DEF CurrentInv
  <2> QED BY <1>3, <2>1, <2>2, <2>3, <2>4 DEF CurrentInv
<1>4. ASSUME NEW e, out' = Append(out, e)
      PROVE  \A j \in 1 .. Len(out) : \E i \in 1 .. Len(out') : out'[i] = out[j]
  <2>1. \A j \in 1 .. Len(out) : out'[j] = out[j] /\ j \in 1 .. Len(out')
    BY <1>0, <1>4 DEF OutType
  <2> QED BY <2>1
<1>5. ASSUME NEW e, in' = Append(in, e)
      PROVE  \A j \in 1 .. Len(in) : \E i \in 1 .. Len(in') : in'[i] = in[j]
  <2>1. \A j \in 1 .. Len(in) : in'[j] = in[j] /\ j \in 1 .. Len(in')
    BY <1>0, <1>5 DEF InType
  <2> QED BY <2>1
<1>6. ASSUME out # <<>>, out' = Tail(out)
      PROVE  \A j \in 1 .. Len(out) : j = 1 \/ \E i \in 1 .. Len(out') : out'[i] = out[j]
  <2>1. /\ Len(out') = Len(out) - 1
        /\ \A i \in 1 .. Len(out') : out'[i] = out[i + 1] /\ i + 1 \in 1 .. Len(out)
    BY <1>0, <1>6, PopLemma DEF OutType
  <2> TAKE j \in 1 .. Len(out)
  <2> SUFFICES ASSUME j # 1 PROVE \E i \in 1 .. Len(out') : out'[i] = out[j]
    OBVIOUS
  <2>2. j - 1 \in 1 .. Len(out') /\ (j - 1) + 1 = j
    BY <1>0, <2>1
  <2> QED BY <2>1, <2>2
<1> SUFFICES ASSUME at' = "wait", reply' = "none" PROVE CurrentInv'
  BY <1>1
<1>7. CASE Receive
  <2>1. in # <<>> /\ at = "wait" /\ reply = "none" => reply' = Head(in).answer /\ Head(in) \in Replies
    BY <1>0, <1>7, PopLemma DEF Receive, InType
  <2>2. at = "wait"
    BY <1>7 DEF Receive
  <2>3. reply # "none" => reply' # "none"
    BY <1>7 DEF Receive
  <2> QED BY <1>7, <2>1, <2>2, <2>3 DEF Receive, Replies
<1>o. CASE OtherBegin \/ OtherSend
  BY <1>0, <1>o DEF OtherBegin, OtherSend, hostVars, BufferInv
<1>8. ASSUME NEW c \in Configs, Configure(c) PROVE CurrentInv'
  <2>1. out' = Append(out, c) /\ UNCHANGED <<transfer, at, reply, tx, in>>
    BY <1>8 DEF Configure, hostVars, txVars
  <2> QED BY <1>3, <1>4, <2>1
<1>9. CASE ServeChunk
  <2>1. UNCHANGED <<transfer, at, reply, tx>> /\ at = "wait" /\ reply = "none"
    BY <1>9, TakeChunk
  <2>2. out # <<>> /\ out' = Tail(out)
    BY <1>9 DEF ServeChunk
  <2>3. \A j \in 1 .. Len(in) : \E i \in 1 .. Len(in') : in'[i] = in[j]
    BY <1>9, AnswerStep
  <2>4. CASE \E j \in 1 .. Len(out) : j # 1 /\ IsChunk(j) /\ out[j].x = transfer.x /\ out[j].k = transfer.k
    <3>1. PICK j \in 1 .. Len(out) : j # 1 /\ IsChunk(j) /\ out[j].x = transfer.x /\ out[j].k = transfer.k
      BY <2>4
    <3>2. PICK i \in 1 .. Len(out') : out'[i] = out[j]
      BY <1>6, <2>2, <3>1
    <3> QED BY <2>1, <3>1, <3>2 DEF CurrentInv, IsChunk
  <2>5. CASE out[1].x = transfer.x /\ out[1].k = transfer.k
    <3>1. CASE served'[Len(served) + 1].answer = "none"
      BY <1>9, <2>1, <2>5, <3>1, AnswerStep DEF CurrentInv
    <3>2. CASE served'[Len(served) + 1].answer # "none"
      <4>1. Len(in) + 1 \in 1 .. Len(in')
        BY <1>0, <1>9, <3>2, AnswerStep
      <4> QED BY <1>9, <2>1, <2>5, <3>2, <4>1, AnswerStep DEF CurrentInv
    <3> QED BY <3>1, <3>2
  <2>6. CASE \E j \in 1 .. Len(served) :
               served[j].x = transfer.x /\ served[j].k = transfer.k /\ served[j].answer = "none"
    BY <2>1, <2>6, ServedGrows DEF CurrentInv
  <2>7. CASE \E j \in 1 .. Len(in) : in[j].x = transfer.x /\ in[j].k = transfer.k
    BY <2>1, <2>3, <2>7 DEF CurrentInv
  <2>8. CASE tx = Other
    BY <2>1, <2>8 DEF CurrentInv
  <2> QED BY <2>1, <2>4, <2>5, <2>6, <2>7, <2>8 DEF CurrentInv
<1>10. CASE ServeFull \/ ServeCs \/ ServeOther
  <2>1. /\ out # <<>> /\ out' = Tail(out) /\ Head(out).what # "chunk"
        /\ UNCHANGED <<transfer, at, reply, tx>>
        /\ UNCHANGED in \/ \E e : in' = Append(in, e)
    BY <1>10, ChunkFields DEF ServeFull, ServeCs, ServeOther, hostVars, txVars, Answer
  <2>2. \A j \in 1 .. Len(in) : \E i \in 1 .. Len(in') : in'[i] = in[j]
    BY <1>5, <2>1
  <2>3. Head(out) = out[1]
    BY <1>0, <2>1, PopLemma DEF OutType
  <2>4. \A j \in 1 .. Len(out) : IsChunk(j) => \E i \in 1 .. Len(out') : out'[i] = out[j]
    BY <1>6, <2>1, <2>3 DEF IsChunk
  <2> QED BY <1>3, <2>1, <2>2, <2>4
<1>11. CASE UNCHANGED <<transfer, at, reply, tx, out, in>>
  BY <1>3, <1>11
<1> QED BY <1>2, <1>7, <1>o, <1>8, <1>9, <1>10, <1>11
     DEF Next, Driver, Start, Build, OtherEnd, SendFails, Timeout, Abort, Answered, vars, hostVars, txVars

LEMMA FailureStep ==
  ASSUME TypeInv, TypeInv', CurrentInv, FailureHasCause, [Next]_vars
  PROVE  FailureHasCause'
<1>0. HostType /\ CauseType /\ OutType /\ InType /\ Counted
  BY TypeParts DEF TypeInv
<1>1. DOMAIN served = 1 .. Len(served) /\ DOMAIN served' = 1 .. Len(served')
      /\ DOMAIN out = 1 .. Len(out) /\ DOMAIN in = 1 .. Len(in)
  BY TypeParts DEF TypeInv, TypeOK, OutType, InType, ServedType
<1>2. fault => fault'
  BY DEF Next, Driver, Start, Build, SendChunk, SendFails, Timeout, Answered, Receive, Configure,
         OtherBegin, OtherSend, OtherEnd, ServeOther, ServeChunk, ServeFull, ServeCs, vars, causeVars
<1>3. ASSUME NEW i \in 1 .. MaxTransfers, results[i] = "error"
      PROVE  fault' \/ \E j \in DOMAIN served' : served'[j].x = i /\ served'[j].answer = "none"
  <2>1. fault \/ \E j \in 1 .. Len(served) : served[j].x = i /\ served[j].answer = "none"
    BY <1>1, <1>3 DEF FailureHasCause
  <2> QED BY <1>1, <1>2, <2>1, ServedGrows
<1>4. CASE \A i \in 1 .. MaxTransfers : results'[i] = "error" => results[i] = "error"
  BY <1>3, <1>4 DEF FailureHasCause
<1>5. CASE SendFails
  BY <1>5 DEF SendFails, FailureHasCause
<1>6. CASE Timeout
  <2>1. /\ at = "wait" /\ reply = "none" /\ fault' = (fault \/ Underway)
        /\ results' = [results EXCEPT ![transfer.x] = "error"] /\ UNCHANGED served
    BY <1>6 DEF Timeout, Abort
  <2>2. Underway \/ \E j \in 1 .. Len(served) : served[j].x = transfer.x /\ served[j].answer = "none"
    BY <1>1, <2>1 DEF CurrentInv, Underway, IsChunk
  <2> SUFFICES ASSUME NEW i \in 1 .. MaxTransfers, results'[i] = "error", results[i] # "error"
               PROVE  fault' \/ \E j \in DOMAIN served' : served'[j].x = i /\ served'[j].answer = "none"
    BY <1>3 DEF FailureHasCause
  <2>3. i = transfer.x
    BY <1>0, <2>1 DEF HostType
  <2> QED BY <1>1, <2>1, <2>2, <2>3
<1>7. CASE Answered
  BY <1>0, <1>4, <1>7 DEF Answered, HostType
<1> QED BY <1>4, <1>5, <1>6, <1>7
     DEF Next, Driver, Start, Build, SendChunk, Receive, Configure, OtherBegin, OtherSend, OtherEnd,
         ServeChunk, ServeOther, ServeFull, ServeCs, vars, hostVars

LEMMA ResultsHold == Spec => [](BusInv /\ ResultInv)
<1>1. Init => BusInv /\ ResultInv
  BY TypeInit, OrderInit, FrameInit, RepliesInit, ResultInit DEF BusInv, Init, OnlyCurrent
<1>2. BusInv /\ ResultInv /\ [Next]_vars => (BusInv /\ ResultInv)'
  <2> SUFFICES ASSUME BusInv, ResultInv, [Next]_vars PROVE (BusInv /\ ResultInv)'
    OBVIOUS
  <2>1. BusInv'
    BY TypeStep, OrderStep, FrameStep, RepliesStep, CurrentStep DEF BusInv
  <2>2. ResultInv'
    BY <2>1, NoResultStep, DoneStep, WaitStep, FailureStep DEF BusInv, ResultInv
  <2> QED BY <2>1, <2>2
<1> QED BY <1>1, <1>2, PTL DEF Spec

(* A transfer that took only its own answers and is reported as done had   *)
(* every chunk executed, or refused with an answer (mfd-spi.c 104-118,     *)
(* spi_handler.c 164-179).                                                 *)
THEOREM DoneMeansServed == Spec => []DoneIsServed
<1>1. BusInv /\ ResultInv => DoneIsServed
  BY ServedDomain DEF BusInv, ResultInv, DoneInv, ServedAs, DoneIsServed
<1> QED BY <1>1, ResultsHold, PTL

(* A transfer fails only when a packet was lost or late, a call was        *)
(* interrupted, or the bus was not configured (spi_handler.c 118, 164-179; *)
(* mfd-spi.c 106-110).                                                     *)
THEOREM SpiFailuresHaveCause == Spec => []FailureHasCause
<1>1. BusInv /\ ResultInv => FailureHasCause
  BY DEF ResultInv
<1> QED BY <1>1, ResultsHold, PTL
=============================================================================
