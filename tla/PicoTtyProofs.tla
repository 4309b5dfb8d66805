--------------------------- MODULE PicoTtyProofs ---------------------------
(***************************************************************************)
(* Proofs about the transmit side of the TTY driver.                       *)
(*                                                                         *)
(* What the properties say of active_urbs holds because every count has a  *)
(* holder: a data URB in flight, the completion handler between its first  *)
(* step and its count, or a writer between its count and its submission.   *)
(***************************************************************************)
EXTENDS PicoTty, FiniteSetTheorems, SequenceTheorems, TLAPS

One(condition) == IF condition THEN 1 ELSE 0

(* A writer that is past the question for room has something to write, and *)
(* every count is for a piece that was taken, one that failed, or the one  *)
(* being submitted.                                                        *)
ActiveInv ==
  /\ writer \in {"write", "submit"} => next < MaxPieces
  /\ active <= next + faults + One(writer = "submit")

(* Every data URB, handler and submission has its count.                   *)
CountInv == InFlight + One(callback = "count") + One(writer = "submit") <= active

(* When the line discipline asks for room first, the answer still stands   *)
(* when it writes: only the writer counts up.                              *)
RoomInv ==
  Opost => /\ active <= MaxActive
           /\ writer = "write" => active < MaxActive

TtyInv == TypeOK /\ ActiveInv /\ CountInv

-----------------------------------------------------------------------------
(* Counting the data URBs of a sequence of packets.                        *)

DataAt(s) == {i \in DOMAIN s : IsData(s[i])}

(* The data positions of a sequence are finitely many, all within it.      *)
LEMMA DataAtFinite ==
  ASSUME NEW s \in Seq(Packets)
  PROVE  /\ IsFiniteSet(DataAt(s))
         /\ Cardinality(DataAt(s)) \in Nat
         /\ DataAt(s) \subseteq 1 .. Len(s)
<1>1. Len(s) \in Nat /\ DOMAIN s = 1 .. Len(s)
  BY LenProperties
<1>2. DataAt(s) \subseteq 1 .. Len(s)
  BY <1>1 DEF DataAt
<1>3. IsFiniteSet(1 .. Len(s))
  BY <1>1, FS_Interval
<1>4. IsFiniteSet(DataAt(s))
  BY <1>2, <1>3, FS_Subset
<1> QED
  BY <1>2, <1>4, FS_CardinalityType

(* A data packet at the end counts, settings at the end do not.            *)
LEMMA DataAtAppend ==
  ASSUME NEW s \in Seq(Packets), NEW p \in Packets
  PROVE  Cardinality(DataAt(Append(s, p))) = Cardinality(DataAt(s)) + One(IsData(p))
<1> DEFINE last == Len(s) + 1
<1>1. /\ Len(s) \in Nat
      /\ DOMAIN s = 1 .. Len(s)
      /\ DOMAIN Append(s, p) = 1 .. last
  BY LenProperties, AppendProperties
<1>2. /\ \A i \in 1 .. Len(s) : Append(s, p)[i] = s[i]
      /\ Append(s, p)[last] = p
  BY AppendProperties
<1>3. IsFiniteSet(DataAt(s)) /\ last \notin DataAt(s) /\ Cardinality(DataAt(s)) \in Nat
  BY <1>1, DataAtFinite
<1>4. CASE IsData(p)
  <2>1. DataAt(Append(s, p)) = DataAt(s) \cup {last}
    BY <1>1, <1>2, <1>4 DEF DataAt
  <2> QED
    BY <1>3, <1>4, <2>1, FS_AddElement DEF One
<1>5. CASE ~ IsData(p)
  <2>1. DataAt(Append(s, p)) = DataAt(s)
    BY <1>1, <1>2, <1>5 DEF DataAt
  <2> QED
    BY <1>3, <1>5, <2>1 DEF One
<1> QED
  BY <1>4, <1>5

(* Taking the first packet takes one from the count if it is data.         *)
LEMMA DataAtTail ==
  ASSUME NEW s \in Seq(Packets), s # <<>>
  PROVE  Cardinality(DataAt(s)) = Cardinality(DataAt(Tail(s))) + One(IsData(Head(s)))
<1> DEFINE rest == DataAt(s) \ {1}
           shift == [i \in DataAt(Tail(s)) |-> i + 1]
<1>1. /\ Len(s) \in Nat \ {0}
      /\ DOMAIN s = 1 .. Len(s)
      /\ Tail(s) \in Seq(Packets)
      /\ Len(Tail(s)) = Len(s) - 1
      /\ \A i \in 1 .. Len(Tail(s)) : Tail(s)[i] = s[i + 1]
  BY LenProperties, EmptySeq, HeadTailProperties
<1>2. DOMAIN Tail(s) = 1 .. Len(s) - 1
  BY <1>1, LenProperties
<1>3. Head(s) = s[1]
  OBVIOUS
<1>4. /\ IsFiniteSet(DataAt(Tail(s))) /\ Cardinality(DataAt(Tail(s))) \in Nat
      /\ DataAt(Tail(s)) \subseteq 1 .. Len(s) - 1
      /\ IsFiniteSet(DataAt(s)) /\ Cardinality(DataAt(s)) \in Nat
  BY <1>1, DataAtFinite
<1>5. \A i \in 1 .. Len(s) - 1 : i \in DataAt(Tail(s)) <=> i + 1 \in DataAt(s)
  BY <1>1, <1>2 DEF DataAt
<1>6. DataAt(s) \subseteq 1 .. Len(s)
  BY <1>1 DEF DataAt
<1>7. shift \in Bijection(DataAt(Tail(s)), rest)
  <2>1. shift \in [DataAt(Tail(s)) -> rest]
    BY <1>1, <1>4, <1>5
  <2>2. \A a, b \in DataAt(Tail(s)) : shift[a] = shift[b] => a = b
    BY <1>4
  <2>3. \A b \in rest : \E a \in DataAt(Tail(s)) : shift[a] = b
    <3>1. TAKE b \in rest
    <3>2. b - 1 \in 1 .. Len(s) - 1
      BY <1>1, <1>6
    <3>3. b - 1 \in DataAt(Tail(s))
      BY <1>5, <1>6, <3>2
    <3> QED
      BY <1>1, <1>6, <3>3
  <2> QED
    BY <2>1, <2>2, <2>3 DEF Bijection, Injection, Surjection, IsInjective
<1>8. Cardinality(rest) = Cardinality(DataAt(Tail(s)))
  BY <1>4, <1>7, FS_Bijection DEF ExistsBijection
<1>9. Cardinality(rest) = IF 1 \in DataAt(s) THEN Cardinality(DataAt(s)) - 1
                                            ELSE Cardinality(DataAt(s))
  BY <1>4, FS_RemoveElement
<1>10. 1 \in DataAt(s) <=> IsData(Head(s))
  BY <1>1, <1>3 DEF DataAt
<1> QED
  BY <1>4, <1>8, <1>9, <1>10 DEF One

(* A packet that completes moves from the front of the URBs to the end of  *)
(* the wire: together they stay the same.                                  *)
LEMMA MovedAcross ==
  ASSUME NEW s \in Seq(Packets), NEW t \in Seq(Packets), t # <<>>
  PROVE  Append(s, Head(t)) \o Tail(t) = s \o t
<1> DEFINE a == Append(s, Head(t))
<1>1. /\ Head(t) \in Packets /\ Head(t) = t[1]
      /\ Tail(t) \in Seq(Packets)
      /\ Len(Tail(t)) = Len(t) - 1
      /\ \A i \in 1 .. Len(Tail(t)) : Tail(t)[i] = t[i + 1]
      /\ Len(s) \in Nat /\ Len(t) \in Nat \ {0}
  BY HeadTailProperties, LenProperties, EmptySeq
<1>2. /\ a \in Seq(Packets) /\ Len(a) = Len(s) + 1
      /\ \A i \in 1 .. Len(s) : a[i] = s[i]
      /\ a[Len(s) + 1] = t[1]
  BY <1>1, AppendProperties
<1> HIDE DEF a
<1>3. /\ a \o Tail(t) \in Seq(Packets)
      /\ Len(a \o Tail(t)) = Len(a) + Len(Tail(t))
      /\ \A i \in 1 .. Len(a) + Len(Tail(t)) :
           (a \o Tail(t))[i] = IF i <= Len(a) THEN a[i] ELSE Tail(t)[i - Len(a)]
  BY <1>1, <1>2, ConcatProperties
<1>4. /\ s \o t \in Seq(Packets)
      /\ Len(s \o t) = Len(s) + Len(t)
      /\ \A i \in 1 .. Len(s) + Len(t) :
           (s \o t)[i] = IF i <= Len(s) THEN s[i] ELSE t[i - Len(s)]
  BY ConcatProperties
<1>5. Len(a \o Tail(t)) = Len(s \o t)
  BY <1>1, <1>2, <1>3, <1>4
<1>6. \A i \in 1 .. Len(s \o t) : (a \o Tail(t))[i] = (s \o t)[i]
  <2>1. TAKE i \in 1 .. Len(s \o t)
  <2>2. CASE i <= Len(s)
    BY <1>1, <1>2, <1>3, <1>4, <2>1, <2>2
  <2>3. CASE i = Len(s) + 1
    BY <1>1, <1>2, <1>3, <1>4, <2>1, <2>3
  <2>4. CASE i > Len(s) + 1
    <3>1. (a \o Tail(t))[i] = Tail(t)[i - Len(a)]
      BY <1>1, <1>2, <1>3, <1>4, <2>1, <2>4
    <3>2. i - Len(a) \in 1 .. Len(Tail(t)) /\ i - Len(a) + 1 = i - Len(s)
      BY <1>1, <1>2, <1>4, <2>1, <2>4
    <3>3. (s \o t)[i] = t[i - Len(s)]
      BY <1>1, <1>4, <2>1, <2>4
    <3> QED
      BY <1>1, <3>1, <3>2, <3>3
  <2>5. i <= Len(s) \/ i = Len(s) + 1 \/ i > Len(s) + 1
    BY <1>1, <1>4, <2>1
  <2> QED
    BY <2>2, <2>3, <2>4, <2>5
<1>7. a \o Tail(t) = s \o t
  BY <1>3, <1>4, <1>5, <1>6, SeqEqual
<1> QED
  BY <1>7 DEF a

(* What is submitted goes to the end of all that was sent.                 *)
LEMMA SentAppend ==
  ASSUME NEW s \in Seq(Packets), NEW t \in Seq(Packets), NEW p \in Packets
  PROVE  s \o Append(t, p) = Append(s \o t, p)
<1> DEFINE u == Append(t, p)
<1>1. /\ u \in Seq(Packets) /\ Len(u) = Len(t) + 1
      /\ \A i \in 1 .. Len(t) : u[i] = t[i]
      /\ u[Len(t) + 1] = p
      /\ Len(s) \in Nat /\ Len(t) \in Nat
  BY AppendProperties, LenProperties
<1> HIDE DEF u
<1>2. /\ s \o u \in Seq(Packets)
      /\ Len(s \o u) = Len(s) + Len(u)
      /\ \A i \in 1 .. Len(s) + Len(u) :
           (s \o u)[i] = IF i <= Len(s) THEN s[i] ELSE u[i - Len(s)]
  BY <1>1, ConcatProperties
<1>3. /\ s \o t \in Seq(Packets)
      /\ Len(s \o t) = Len(s) + Len(t)
      /\ \A i \in 1 .. Len(s) + Len(t) :
           (s \o t)[i] = IF i <= Len(s) THEN s[i] ELSE t[i - Len(s)]
  BY ConcatProperties
<1> DEFINE c == s \o t
<1>4. /\ Append(c, p) \in Seq(Packets) /\ Len(Append(c, p)) = Len(c) + 1
      /\ \A i \in 1 .. Len(c) : Append(c, p)[i] = c[i]
      /\ Append(c, p)[Len(c) + 1] = p
  BY <1>3, AppendProperties
<1>5. \A i \in 1 .. Len(s \o u) : (s \o u)[i] = Append(c, p)[i]
  <2>1. TAKE i \in 1 .. Len(s \o u)
  <2>2. CASE i <= Len(s)
    BY <1>1, <1>2, <1>3, <1>4, <2>1, <2>2
  <2>3. CASE i > Len(s) /\ i <= Len(s) + Len(t)
    <3>1. i - Len(s) \in 1 .. Len(t) /\ i \in 1 .. Len(c)
      BY <1>1, <1>2, <1>3, <2>1, <2>3
    <3>2. (s \o u)[i] = u[i - Len(s)]
      BY <1>1, <1>2, <2>1, <2>3
    <3>3. c[i] = t[i - Len(s)]
      BY <1>1, <1>3, <2>1, <2>3, <3>1
    <3> QED
      BY <1>1, <1>4, <3>1, <3>2, <3>3
  <2>4. CASE i = Len(s) + Len(t) + 1
    <3>1. i = Len(c) + 1 /\ i - Len(s) = Len(t) + 1
      BY <1>1, <1>3, <2>4
    <3>2. (s \o u)[i] = u[i - Len(s)]
      BY <1>1, <1>2, <2>1, <2>4
    <3> QED
      BY <1>1, <1>4, <3>1, <3>2
  <2> QED
    BY <1>1, <1>2, <2>1, <2>2, <2>3, <2>4
<1>6. Len(s \o u) = Len(Append(c, p))
  BY <1>1, <1>2, <1>3, <1>4
<1>7. s \o u = Append(c, p)
  BY <1>2, <1>4, <1>5, <1>6, SeqEqual
<1> QED
  BY <1>7 DEF u

-----------------------------------------------------------------------------
(* Types, and the bounds of the count.                                     *)

LEMMA PacketTypes ==
  ASSUME NEW n \in Nat
  PROVE  /\ [what |-> "data", n |-> n + 1] \in Packets
         /\ [what |-> "settings", n |-> n + 1] \in Packets
         /\ IsData([what |-> "data", n |-> n + 1])
         /\ ~ IsData([what |-> "settings", n |-> n + 1])
BY DEF Packets, IsData

LEMMA OneType == \A c \in BOOLEAN : One(c) \in {0, 1} /\ (One(c) = 1 <=> c)
BY DEF One

LEMMA InFlightType == TypeOK => InFlight \in Nat
BY DataAtFinite DEF TypeOK, InFlight, DataAt

LEMMA InitInv == Init => TtyInv
<1> SUFFICES ASSUME Init PROVE TtyInv
  OBVIOUS
<1>1. <<>> \in Seq(Packets) /\ DOMAIN urbs = {}
  BY DEF Init
<1>2. TypeOK
  <2>1. MaxPieces \in Nat /\ MaxSettings \in Nat /\ MaxFaults \in Nat
    BY TtyAssumption
  <2>2. active \in 0 .. MaxPieces + MaxFaults
    BY <2>1 DEF Init
  <2>3. next \in 0 .. MaxPieces /\ settings \in 0 .. MaxSettings /\ faults \in 0 .. MaxFaults
    BY <2>1 DEF Init
  <2> QED
    BY <1>1, <2>2, <2>3, Zenon DEF Init, TypeOK
<1>3. InFlight = 0
  <2>1. {i \in DOMAIN urbs : IsData(urbs[i])} = {}
    BY <1>1
  <2> QED
    BY <2>1, FS_EmptySet DEF InFlight
<1>4. ActiveInv
  BY TtyAssumption DEF Init, ActiveInv, One
<1>5. CountInv
  BY <1>3 DEF Init, CountInv, One
<1> QED
  BY <1>2, <1>4, <1>5 DEF TtyInv

(* How each action changes the number of data URBs in flight.              *)
LEMMA InFlightSteps ==
  ASSUME TypeOK, [Next]_vars
  PROVE  /\ InFlight \in Nat /\ InFlight' \in Nat
         /\ Submit => InFlight' = InFlight + 1
         /\ UrbCompletes => InFlight' = InFlight - One(IsData(Head(urbs)))
         /\ ~ Submit /\ ~ UrbCompletes => InFlight' = InFlight
<1>1. /\ urbs \in Seq(Packets)
      /\ next \in Nat /\ settings \in Nat
  BY TtyAssumption DEF TypeOK
<1>2. InFlight = Cardinality(DataAt(urbs)) /\ InFlight' = Cardinality(DataAt(urbs'))
  BY DEF InFlight, DataAt, IsData
<1>3. InFlight \in Nat
  BY <1>1, <1>2, DataAtFinite
<1>4. ASSUME Submit PROVE InFlight' = InFlight + 1
  <2>1. urbs' = Append(urbs, [what |-> "data", n |-> next + 1])
    BY <1>4 DEF Submit
  <2>2. PICK p \in Packets : p = [what |-> "data", n |-> next + 1] /\ IsData(p)
    BY <1>1, PacketTypes
  <2>3. urbs' = Append(urbs, p)
    BY <2>1, <2>2
  <2>4. Cardinality(DataAt(Append(urbs, p))) = Cardinality(DataAt(urbs)) + 1
    BY <1>1, <2>2, DataAtAppend DEF One
  <2> QED
    BY <1>2, <2>3, <2>4
<1>5. ASSUME UrbCompletes PROVE InFlight' = InFlight - One(IsData(Head(urbs)))
  <2>1. urbs # <<>> /\ urbs' = Tail(urbs)
    BY <1>5 DEF UrbCompletes
  <2>2. Cardinality(DataAt(urbs)) = Cardinality(DataAt(Tail(urbs))) + One(IsData(Head(urbs)))
    BY <1>1, <2>1, DataAtTail
  <2>3. Tail(urbs) \in Seq(Packets)
    BY <1>1, <2>1, HeadTailProperties
  <2>4. Cardinality(DataAt(Tail(urbs))) \in Nat
    BY <2>3, DataAtFinite
  <2> QED
    BY <1>2, <2>1, <2>2, <2>4 DEF One
<1>6. ASSUME SetTermios PROVE InFlight' = InFlight
  <2>1. urbs' = Append(urbs, [what |-> "settings", n |-> settings + 1])
    BY <1>6 DEF SetTermios
  <2>2. PICK p \in Packets : p = [what |-> "settings", n |-> settings + 1] /\ ~ IsData(p)
    BY <1>1, PacketTypes
  <2>3. urbs' = Append(urbs, p)
    BY <2>1, <2>2
  <2>4. Cardinality(DataAt(Append(urbs, p))) = Cardinality(DataAt(urbs)) + 0
    BY <1>1, <2>2, DataAtAppend DEF One
  <2> QED
    BY <1>2, <1>3, <2>3, <2>4
<1>7. ASSUME ~ Submit, ~ UrbCompletes, ~ SetTermios PROVE InFlight' = InFlight
  <2>1. urbs' = urbs
    BY <1>7 DEF Next, vars, Writer, Callback, WriteRoom, WriteNoMemory, Write, SubmitFail,
                Wake, SetTermiosFail, Complete, CompleteFail, CountDown, Wakeup
  <2> QED
    BY <1>2, <2>1
<1>8. InFlight' \in Nat
  <2>1. urbs' \in Seq(Packets)
    <3>1. CASE Submit
      <4>1. [what |-> "data", n |-> next + 1] \in Packets
        BY <1>1, PacketTypes
      <4> QED
        BY <1>1, <3>1, <4>1, AppendProperties DEF Submit
    <3>2. CASE SetTermios
      <4>1. [what |-> "settings", n |-> settings + 1] \in Packets
        BY <1>1, PacketTypes
      <4> QED
        BY <1>1, <3>2, <4>1, AppendProperties DEF SetTermios
    <3>3. CASE UrbCompletes
      BY <1>1, <3>3, HeadTailProperties DEF UrbCompletes
    <3>4. CASE ~ Submit /\ ~ UrbCompletes /\ ~ SetTermios
      BY <1>1, <3>4 DEF Next, vars, Writer, Callback, WriteRoom, WriteNoMemory, Write,
                SubmitFail, Wake, SetTermiosFail, Complete, CompleteFail, CountDown, Wakeup
    <3> QED
      BY <3>1, <3>2, <3>3, <3>4
  <2> QED
    BY <1>2, <2>1, DataAtFinite
<1> QED
  BY <1>3, <1>4, <1>5, <1>6, <1>7, <1>8

LEMMA NextTypeOK == TtyInv /\ [Next]_vars => TypeOK'
<1> SUFFICES ASSUME TtyInv, [Next]_vars PROVE TypeOK'
  OBVIOUS
<1> USE TtyAssumption
<1>1. TypeOK /\ ActiveInv /\ CountInv /\ InFlight \in Nat
  BY InFlightSteps DEF TtyInv
<1>2. /\ next \in Nat /\ settings \in Nat /\ faults \in Nat /\ active \in Nat
      /\ MaxPieces \in Nat /\ MaxFaults \in Nat /\ MaxSettings \in Nat
  BY <1>1 DEF TypeOK
<1>3. CASE WriteRoom
  BY <1>1, <1>3 DEF TypeOK, WriteRoom
<1>4. CASE WriteNoMemory
  BY <1>1, <1>2, <1>4 DEF TypeOK, WriteNoMemory
<1>5. CASE Write
  <2>1. active' \in 0 .. MaxPieces + MaxFaults
    BY <1>1, <1>2, <1>5 DEF Write, ActiveInv, TypeOK, One
  <2> QED
    BY <1>1, <1>5, <2>1 DEF TypeOK, Write
<1>6. CASE Submit
  <2>1. [what |-> "data", n |-> next + 1] \in Packets
    BY <1>2, PacketTypes
  <2>2. urbs' \in Seq(Packets)
    BY <1>1, <1>6, <2>1, AppendProperties DEF Submit, TypeOK
  <2>3. next' \in 0 .. MaxPieces
    BY <1>1, <1>2, <1>6 DEF Submit, ActiveInv, TypeOK
  <2> QED
    BY <1>1, <1>6, <2>2, <2>3 DEF TypeOK, Submit
<1>7. CASE SubmitFail
  BY <1>1, <1>2, <1>7 DEF TypeOK, SubmitFail
<1>8. CASE Wake
  BY <1>1, <1>8 DEF TypeOK, Wake
<1>9. CASE SetTermios
  <2>1. [what |-> "settings", n |-> settings + 1] \in Packets
    BY <1>2, PacketTypes
  <2>2. urbs' \in Seq(Packets)
    BY <1>1, <1>9, <2>1, AppendProperties DEF SetTermios, TypeOK
  <2> QED
    BY <1>1, <1>2, <1>9, <2>2 DEF TypeOK, SetTermios
<1>10. CASE SetTermiosFail
  BY <1>1, <1>2, <1>10 DEF TypeOK, SetTermiosFail
<1>11. CASE Complete
  <2>1. Head(urbs) \in Packets /\ urbs' \in Seq(Packets)
    BY <1>1, <1>11, HeadTailProperties DEF Complete, UrbCompletes, TypeOK
  <2>2. wire' \in Seq(Packets)
    BY <1>1, <1>11, <2>1, AppendProperties DEF Complete, TypeOK
  <2> QED
    BY <1>1, <1>11, <2>1, <2>2 DEF TypeOK, Complete, UrbCompletes
<1>12. CASE CountDown
  <2>1. active' \in 0 .. MaxPieces + MaxFaults
    BY <1>1, <1>2, <1>12 DEF CountDown, CountInv, TypeOK, One
  <2> QED
    BY <1>1, <1>12, <2>1 DEF TypeOK, CountDown
<1>13. CASE Wakeup
  BY <1>1, <1>13 DEF TypeOK, Wakeup
<1>14. CASE CompleteFail
  <2>1. Head(urbs) \in Packets /\ urbs' \in Seq(Packets)
    BY <1>1, <1>14, HeadTailProperties DEF CompleteFail, UrbCompletes, TypeOK
  <2>2. Head(urbs).n \in Nat
    BY <2>1 DEF Packets
  <2>3. lost' \in SUBSET Nat
    BY <1>1, <1>14, <2>2 DEF CompleteFail, TypeOK
  <2>4. faults' \in 0 .. MaxFaults
    BY <1>2, <1>14 DEF CompleteFail
  <2> QED
    BY <1>1, <1>14, <2>1, <2>3, <2>4 DEF TypeOK, CompleteFail, UrbCompletes
<1>15. CASE UNCHANGED vars
  BY <1>1, <1>15 DEF TypeOK, vars
<1> QED
  BY <1>3, <1>4, <1>5, <1>6, <1>7, <1>8, <1>9, <1>10, <1>11, <1>12, <1>13, <1>14, <1>15
     DEF Next, Writer, Callback

(* The writer's own steps keep the count within what it wrote.             *)
LEMMA NextActiveInv == TtyInv /\ [Next]_vars => ActiveInv'
<1> SUFFICES ASSUME TtyInv, [Next]_vars PROVE ActiveInv'
  OBVIOUS
<1>1. ActiveInv
  BY DEF TtyInv
<1>2. /\ next \in Nat /\ faults \in Nat /\ active \in Nat
      /\ MaxPieces \in Nat /\ MaxFaults \in Nat
      /\ writer \in {"room", "write", "submit", "sleep"}
  BY TtyAssumption DEF TtyInv, TypeOK
<1>3. CASE WriteRoom
  BY <1>1, <1>2, <1>3 DEF ActiveInv, WriteRoom, One
<1>4. CASE WriteNoMemory
  BY <1>1, <1>2, <1>4 DEF ActiveInv, WriteNoMemory, One
<1>5. CASE Write
  BY <1>1, <1>2, <1>5 DEF ActiveInv, Write, One
<1>6. CASE Submit
  BY <1>1, <1>2, <1>6 DEF ActiveInv, Submit, One
<1>7. CASE SubmitFail
  BY <1>1, <1>2, <1>7 DEF ActiveInv, SubmitFail, One
<1>8. CASE Wake
  BY <1>1, <1>2, <1>8 DEF ActiveInv, Wake, One
<1>9. CASE SetTermios \/ Complete \/ Wakeup \/ UNCHANGED vars
  BY <1>1, <1>9 DEF ActiveInv, SetTermios, Complete, UrbCompletes, Wakeup, vars, One
<1>10. CASE SetTermiosFail \/ CompleteFail
  BY <1>1, <1>2, <1>10 DEF ActiveInv, SetTermiosFail, CompleteFail, UrbCompletes, One
<1>11. CASE CountDown
  BY <1>1, <1>2, <1>11 DEF ActiveInv, CountDown, One
<1> QED
  BY <1>3, <1>4, <1>5, <1>6, <1>7, <1>8, <1>9, <1>10, <1>11 DEF Next, Writer, Callback

(* Every count passes from the submission to the URB, from the URB to the  *)
(* handler, and the handler takes it.                                      *)
LEMMA NextCountInv == TtyInv /\ [Next]_vars => CountInv'
<1> SUFFICES ASSUME TtyInv, [Next]_vars PROVE CountInv'
  OBVIOUS
<1>1. /\ CountInv /\ active \in Nat
      /\ callback \in {"idle", "count", "wake"}
      /\ writer \in {"room", "write", "submit", "sleep"}
  BY TtyAssumption DEF TtyInv, TypeOK
<1>2. /\ InFlight \in Nat /\ InFlight' \in Nat
      /\ Submit => InFlight' = InFlight + 1
      /\ UrbCompletes => InFlight' = InFlight - One(IsData(Head(urbs)))
      /\ ~ Submit /\ ~ UrbCompletes => InFlight' = InFlight
  BY InFlightSteps DEF TtyInv
<1>3. CountInv' <=> InFlight' + One(callback' = "count") + One(writer' = "submit") <= active'
  BY DEF CountInv, One
<1>4. CASE Submit
  <2>1. /\ writer = "submit" /\ writer' = "room"
        /\ callback' = callback /\ active' = active
    BY <1>4 DEF Submit
  <2> QED
    BY <1>1, <1>2, <1>3, <1>4, <2>1 DEF CountInv, One
<1>5. CASE UrbCompletes
  <2>1. /\ callback = "idle"
        /\ callback' = IF IsData(Head(urbs)) THEN "count" ELSE "idle"
        /\ writer' = writer /\ active' = active
    BY <1>5 DEF UrbCompletes
  <2>2. CASE IsData(Head(urbs))
    <3>1. InFlight' = InFlight - 1
      BY <1>2, <1>5, <2>2 DEF One
    <3>2. /\ One(callback = "count") = 0 /\ One(callback' = "count") = 1
          /\ One(writer' = "submit") = One(writer = "submit")
          /\ One(writer = "submit") \in {0, 1}
      BY <2>1, <2>2, OneType
    <3> QED
      BY <1>1, <1>2, <1>3, <2>1, <3>1, <3>2 DEF CountInv
  <2>3. CASE ~ IsData(Head(urbs))
    <3>1. InFlight' = InFlight
      BY <1>2, <1>5, <2>3 DEF One
    <3>2. /\ One(callback = "count") = 0 /\ One(callback' = "count") = 0
          /\ One(writer' = "submit") = One(writer = "submit")
          /\ One(writer = "submit") \in {0, 1}
      BY <2>1, <2>3, OneType
    <3> QED
      BY <1>1, <1>2, <1>3, <2>1, <3>1, <3>2 DEF CountInv
  <2> QED
    BY <2>2, <2>3
<1>6. CASE ~ Submit /\ ~ UrbCompletes
  <2>1. InFlight' = InFlight
    BY <1>2, <1>6
  <2>2. One(callback' = "count") + One(writer' = "submit") - active'
          <= One(callback = "count") + One(writer = "submit") - active
    BY <1>1, <1>6 DEF Next, Writer, Callback, WriteRoom, WriteNoMemory, Write, SubmitFail, Wake,
          SetTermios, SetTermiosFail, Complete, CompleteFail, CountDown, Wakeup, vars, One
  <2>3. active' \in Int
    BY <1>1, <1>6 DEF Next, Writer, Callback, WriteRoom, WriteNoMemory, Write, SubmitFail, Wake,
          SetTermios, SetTermiosFail, Complete, CompleteFail, CountDown, Wakeup, vars
  <2>4. /\ One(callback = "count") \in {0, 1} /\ One(callback' = "count") \in {0, 1}
        /\ One(writer = "submit") \in {0, 1} /\ One(writer' = "submit") \in {0, 1}
    BY OneType
  <2> QED
    BY <1>1, <1>2, <1>3, <2>1, <2>2, <2>3, <2>4 DEF CountInv
<1> QED
  BY <1>4, <1>5, <1>6

LEMMA InductiveInv == Spec => []TtyInv
<1>1. TtyInv /\ [Next]_vars => TtyInv'
  BY NextTypeOK, NextActiveInv, NextCountInv DEF TtyInv
<1> QED
  BY <1>1, InitInv, PTL DEF Spec

(* The state keeps its types; in particular active_urbs stays between 0    *)
(* and the writes that were begun (mfd-uart.c 45-56, 58-100).              *)
THEOREM TtyTypeCorrect == Spec => []TypeOK
BY InductiveInv, PTL DEF TtyInv

(* active_urbs covers the data URBs in flight: it never falls below them,  *)
(* although settings share the completion handler and submissions fail     *)
(* (mfd-uart.c 45-56, 90-97, 141-144).                                     *)
THEOREM EveryUrbIsCounted == Spec => []CountCoversUrbs
<1>1. TtyInv => CountCoversUrbs
  <2> SUFFICES ASSUME TtyInv PROVE CountCoversUrbs
    OBVIOUS
  <2>1. InFlight \in Nat /\ active \in Nat
    BY InFlightType, TtyAssumption DEF TtyInv, TypeOK
  <2> QED
    BY <2>1, OneType DEF TtyInv, CountInv, CountCoversUrbs, One
<1> QED
  BY <1>1, InductiveInv, PTL

-----------------------------------------------------------------------------
(* The limit.                                                              *)

LEMMA NextRoomInv == TtyInv /\ RoomInv /\ [Next]_vars => RoomInv'
<1> SUFFICES ASSUME TtyInv, RoomInv, [Next]_vars, Opost PROVE RoomInv'
  BY DEF RoomInv
<1>1. /\ active \in Nat /\ MaxActive \in Nat
      /\ active <= MaxActive
      /\ writer = "write" => active < MaxActive
  BY TtyAssumption, ActiveAssumption DEF TtyInv, TypeOK, RoomInv
<1>2. active' <= MaxActive
  <2>1. CASE Write
    BY <1>1, <2>1 DEF Write
  <2>2. CASE CountDown
    BY <1>1, <2>2 DEF CountDown
  <2>3. CASE ~ Write /\ ~ CountDown
    <3>1. active' = active
      BY <2>3 DEF Next, Writer, Callback, WriteRoom, WriteNoMemory, Submit, SubmitFail, Wake,
            SetTermios, SetTermiosFail, Complete, CompleteFail, UrbCompletes, Wakeup, vars
    <3> QED
      BY <1>1, <3>1
  <2> QED
    BY <2>1, <2>2, <2>3
<1>3. writer' = "write" => active' < MaxActive
  <2>1. CASE WriteRoom
    BY <1>1, <2>1 DEF WriteRoom
  <2>2. CASE CountDown
    BY <1>1, <2>2 DEF CountDown
  <2>3. CASE ~ WriteRoom /\ ~ CountDown
    <3>1. writer' = "write" => writer = "write" /\ active' = active
      BY <2>3 DEF Next, Writer, Callback, WriteNoMemory, Write, Submit, SubmitFail, Wake,
            SetTermios, SetTermiosFail, Complete, CompleteFail, UrbCompletes, Wakeup, vars
    <3> QED
      BY <1>1, <3>1
  <2> QED
    BY <2>1, <2>2, <2>3
<1> QED
  BY <1>2, <1>3 DEF RoomInv

(* When the line discipline asks for room before it writes, no more than   *)
(* MAX_ACTIVE_URBS data URBs are in flight (mfd-uart.c 90, 102-110).       *)
THEOREM RoomIsEnough == ASSUME Opost PROVE Spec => []UrbsBounded
<1>1. Init => RoomInv
  BY ActiveAssumption DEF Init, RoomInv
<1>2. TtyInv /\ RoomInv /\ [Next]_vars => RoomInv'
  BY NextRoomInv
<1>3. TtyInv /\ RoomInv => UrbsBounded
  <2> SUFFICES ASSUME TtyInv, RoomInv PROVE UrbsBounded
    OBVIOUS
  <2>1. InFlight \in Nat /\ active \in Nat /\ MaxActive \in Nat
    BY InFlightType, TtyAssumption, ActiveAssumption DEF TtyInv, TypeOK
  <2>2. InFlight <= active
    <3>1. One(callback = "count") \in {0, 1} /\ One(writer = "submit") \in {0, 1}
      BY OneType
    <3> QED
      BY <2>1, <3>1 DEF TtyInv, CountInv
  <2>3. active <= MaxActive
    BY DEF RoomInv
  <2> QED
    BY <2>1, <2>2, <2>3 DEF UrbsBounded
<1> QED
  BY <1>1, <1>2, <1>3, InductiveInv, PTL DEF Spec

-----------------------------------------------------------------------------
(* The order.                                                              *)

(* Taking the first packet of t leaves what was before and after it.       *)
LEMMA Removed ==
  ASSUME NEW s \in Seq(Packets), NEW t \in Seq(Packets), t # <<>>
  PROVE  /\ (s \o t)[Len(s) + 1] = Head(t) /\ Len(s) + 1 \in 1 .. Len(s \o t)
         /\ Len(s \o Tail(t)) = Len(s \o t) - 1
         /\ \A i \in 1 .. Len(s \o Tail(t)) :
              (s \o Tail(t))[i] = (s \o t)[IF i <= Len(s) THEN i ELSE i + 1]
<1>1. /\ Head(t) = t[1] /\ Tail(t) \in Seq(Packets)
      /\ Len(Tail(t)) = Len(t) - 1
      /\ \A i \in 1 .. Len(Tail(t)) : Tail(t)[i] = t[i + 1]
      /\ Len(s) \in Nat /\ Len(t) \in Nat \ {0}
  BY HeadTailProperties, LenProperties, EmptySeq
<1>2. /\ Len(s \o Tail(t)) = Len(s) + Len(Tail(t))
      /\ \A i \in 1 .. Len(s) + Len(Tail(t)) :
           (s \o Tail(t))[i] = IF i <= Len(s) THEN s[i] ELSE Tail(t)[i - Len(s)]
  BY <1>1, ConcatProperties
<1>3. /\ Len(s \o t) = Len(s) + Len(t)
      /\ \A i \in 1 .. Len(s) + Len(t) :
           (s \o t)[i] = IF i <= Len(s) THEN s[i] ELSE t[i - Len(s)]
  BY ConcatProperties
<1>4. (s \o t)[Len(s) + 1] = Head(t)
  <2>1. Len(s) + 1 \in 1 .. Len(s) + Len(t) /\ ~ (Len(s) + 1 <= Len(s)) /\ Len(s) + 1 - Len(s) = 1
    BY <1>1
  <2> QED
    BY <1>1, <1>3, <2>1
<1>5. ASSUME NEW i \in 1 .. Len(s \o Tail(t))
      PROVE  (s \o Tail(t))[i] = (s \o t)[IF i <= Len(s) THEN i ELSE i + 1]
  <2>1. i \in 1 .. Len(s) + Len(Tail(t)) /\ i \in Int
    BY <1>1, <1>2, <1>5
  <2>2. CASE i <= Len(s)
    BY <1>1, <1>2, <1>3, <2>1, <2>2
  <2>3. CASE ~ (i <= Len(s))
    <3>1. /\ i - Len(s) \in 1 .. Len(Tail(t)) /\ i + 1 \in 1 .. Len(s) + Len(t)
          /\ i - Len(s) + 1 = i + 1 - Len(s) /\ ~ (i + 1 <= Len(s))
      BY <1>1, <2>1, <2>3
    <3>2. (s \o Tail(t))[i] = t[i + 1 - Len(s)]
      BY <1>1, <1>2, <2>1, <2>3, <3>1
    <3>3. (s \o t)[i + 1] = t[i + 1 - Len(s)]
      BY <1>3, <3>1
    <3> QED
      BY <2>3, <3>2, <3>3
  <2> QED
    BY <2>2, <2>3
<1> QED
  BY <1>1, <1>2, <1>3, <1>4, <1>5

(* A completion moves a packet within what was sent, a submission adds one *)
(* at its end, and nothing else touches it.                                *)
LEMMA SentSteps ==
  ASSUME TypeOK, [Next]_vars
  PROVE  /\ Sent \in Seq(Packets)
         /\ ~ CompleteFail => lost' = lost /\ faults' \in {faults, faults + 1}
         /\ \/ CompleteFail
            \/ next' = next /\ Sent' = Sent
            \/ next' = next /\ \E p \in Packets : ~ IsData(p) /\ Sent' = Append(Sent, p)
            \/ /\ next' = next + 1
               /\ \E p \in Packets : IsData(p) /\ p.n = next + 1 /\ Sent' = Append(Sent, p)
<1>1. /\ urbs \in Seq(Packets) /\ wire \in Seq(Packets)
      /\ next \in Nat /\ settings \in Nat
  BY TtyAssumption DEF TypeOK
<1>2. Sent \in Seq(Packets)
  BY <1>1, ConcatProperties DEF Sent
<1>3. Sent' = wire' \o urbs'
  BY DEF Sent
<1> DEFINE Kept == ~ CompleteFail => lost' = lost /\ faults' \in {faults, faults + 1}
<1>8. Kept
  BY DEF Next, Writer, Callback, WriteRoom, WriteNoMemory, Write, Submit, SubmitFail, Wake,
        SetTermios, SetTermiosFail, Complete, CountDown, Wakeup, vars
<1>4. CASE Submit
  <2>1. PICK p \in Packets : p = [what |-> "data", n |-> next + 1] /\ IsData(p)
    BY <1>1, PacketTypes
  <2>2. wire' = wire /\ urbs' = Append(urbs, p) /\ next' = next + 1
    BY <1>4, <2>1 DEF Submit
  <2>3. Sent' = Append(Sent, p)
    BY <1>1, <1>3, <2>2, SentAppend DEF Sent
  <2>4. p.n = next + 1
    BY <2>1
  <2> QED
    BY <1>2, <1>8, <2>1, <2>2, <2>3, <2>4
<1>5. CASE SetTermios
  <2>1. PICK p \in Packets : p = [what |-> "settings", n |-> settings + 1] /\ ~ IsData(p)
    BY <1>1, PacketTypes
  <2>2. wire' = wire /\ urbs' = Append(urbs, p) /\ next' = next
    BY <1>5, <2>1 DEF SetTermios
  <2>3. Sent' = Append(Sent, p)
    BY <1>1, <1>3, <2>2, SentAppend DEF Sent
  <2> QED
    BY <1>2, <1>8, <2>1, <2>2, <2>3
<1>6. CASE Complete
  <2>1. /\ urbs # <<>> /\ next' = next
        /\ wire' = Append(wire, Head(urbs)) /\ urbs' = Tail(urbs)
    BY <1>6 DEF Complete, UrbCompletes
  <2>2. Sent' = Sent
    BY <1>1, <1>3, <2>1, MovedAcross DEF Sent
  <2> QED
    BY <1>2, <1>8, <2>1, <2>2
<1>7. CASE ~ Submit /\ ~ SetTermios /\ ~ Complete /\ ~ CompleteFail
  <2>1. UNCHANGED <<wire, urbs, next>>
    BY <1>7 DEF Next, Writer, Callback, WriteRoom, WriteNoMemory, Write, SubmitFail, Wake,
          SetTermiosFail, CountDown, Wakeup, vars
  <2> QED
    BY <1>2, <1>3, <1>8, <2>1 DEF Sent
<1> QED
  BY <1>2, <1>4, <1>5, <1>6, <1>7, <1>8

(* A failed transfer takes its packet out of what was sent and notes the   *)
(* piece as lost; the others keep their order.                             *)
LEMMA LossKeepsOrder ==
  ASSUME TypeOK, WritesInOrder, IsFiniteSet(lost), CompleteFail
  PROVE  WritesInOrder' /\ IsFiniteSet(lost')
<1> DEFINE k == Len(wire) + 1
           h == Head(urbs)
           m(i) == IF i <= Len(wire) THEN i ELSE i + 1
<1>1. /\ urbs \in Seq(Packets) /\ wire \in Seq(Packets) /\ urbs # <<>>
      /\ next \in Nat /\ faults \in Nat /\ faults' = faults + 1 /\ next' = next
      /\ wire' = wire /\ urbs' = Tail(urbs)
      /\ lost' = IF IsData(h) THEN lost \cup {h.n} ELSE lost
  BY TtyAssumption DEF TypeOK, CompleteFail, UrbCompletes
<1>2. /\ Sent[k] = h /\ k \in 1 .. Len(Sent)
      /\ Len(Sent') = Len(Sent) - 1
      /\ \A i \in 1 .. Len(Sent') : Sent'[i] = Sent[m(i)]
  BY <1>1, Removed DEF Sent
<1>3. /\ Sent \in Seq(Packets) /\ Sent' \in Seq(Packets) /\ Len(wire) \in Nat
  BY <1>1, ConcatProperties, HeadTailProperties, LenProperties DEF Sent
<1>4. /\ Len(Sent) \in Nat /\ DOMAIN Sent = 1 .. Len(Sent) /\ DOMAIN Sent' = 1 .. Len(Sent')
  BY <1>3, LenProperties
<1>5. \A i \in DOMAIN Sent' : m(i) \in DOMAIN Sent /\ m(i) # k
  BY <1>2, <1>3, <1>4
<1>6. \A i, j \in DOMAIN Sent' : i < j => m(i) < m(j)
  BY <1>3, <1>4
<1>7. \A j \in DOMAIN Sent : j # k => \E i \in DOMAIN Sent' : m(i) = j
  <2>1. TAKE j \in DOMAIN Sent
  <2>2. HAVE j # k
  <2>3. CASE j <= Len(wire)
    <3>1. j \in DOMAIN Sent' /\ m(j) = j
      BY <1>2, <1>3, <1>4, <2>1, <2>3
    <3> QED
      BY <3>1
  <2>4. CASE ~ (j <= Len(wire))
    <3>1. j - 1 \in DOMAIN Sent' /\ m(j - 1) = j
      BY <1>2, <1>3, <1>4, <2>1, <2>2, <2>4
    <3> QED
      BY <3>1
  <2> QED
    BY <2>3, <2>4
<1>8. \A i \in DOMAIN Sent' : Sent'[i] = Sent[m(i)]
  BY <1>2, <1>4
<1>9. \A j \in DOMAIN Sent : j # k /\ IsData(Sent[j]) /\ IsData(h) => Sent[j].n # h.n
  <2>1. TAKE j \in DOMAIN Sent
  <2>2. HAVE j # k /\ IsData(Sent[j]) /\ IsData(h)
  <2>3. Sent[j].n \in Int /\ h.n \in Int /\ k \in DOMAIN Sent
    BY <1>2, <1>4, <2>1, <2>2 DEF WritesInOrder
  <2>4. CASE j < k
    BY <1>2, <2>1, <2>2, <2>3, <2>4 DEF WritesInOrder
  <2>5. CASE k < j
    BY <1>2, <2>1, <2>2, <2>3, <2>5 DEF WritesInOrder
  <2> QED
    BY <1>2, <1>4, <2>1, <2>2, <2>4, <2>5
<1> HIDE DEF k, h, m
<1>10. \A i \in DOMAIN Sent' : IsData(Sent'[i]) => Sent'[i].n \in (1 .. next') \ lost'
  BY <1>1, <1>5, <1>8, <1>9 DEF WritesInOrder
<1>11. \A n \in (1 .. next') \ lost' : \E i \in DOMAIN Sent' : IsData(Sent'[i]) /\ Sent'[i].n = n
  <2>1. TAKE n \in (1 .. next') \ lost'
  <2>2. PICK j \in DOMAIN Sent : IsData(Sent[j]) /\ Sent[j].n = n
    BY <1>1, <2>1 DEF WritesInOrder
  <2>3. j # k
    BY <1>1, <1>2, <2>1, <2>2
  <2> QED
    BY <1>7, <1>8, <2>2, <2>3
<1>12. \A i, j \in DOMAIN Sent' :
         i < j /\ IsData(Sent'[i]) /\ IsData(Sent'[j]) => Sent'[i].n < Sent'[j].n
  BY <1>5, <1>6, <1>8 DEF WritesInOrder
<1>14. lost' \subseteq 1 .. next'
  <2>1. k \in DOMAIN Sent /\ lost \subseteq 1 .. next
    BY <1>2, <1>4 DEF WritesInOrder
  <2>2. IsData(h) => h.n \in 1 .. next
    BY <1>2, <2>1 DEF WritesInOrder
  <2> QED
    BY <1>1, <2>1, <2>2
<1>13. IsFiniteSet(lost') /\ Cardinality(lost') <= faults'
  <2>1. Cardinality(lost) <= faults /\ Cardinality(lost) \in Nat
    BY FS_CardinalityType DEF WritesInOrder
  <2>2. CASE IsData(h)
    <3>1. lost' = lost \cup {h.n}
      BY <1>1, <2>2
    <3>2. /\ IsFiniteSet(lost \cup {h.n})
          /\ Cardinality(lost \cup {h.n}) \in {Cardinality(lost), Cardinality(lost) + 1}
      BY FS_AddElement, Zenon
    <3> QED
      BY <1>1, <2>1, <3>1, <3>2
  <2>3. CASE ~ IsData(h)
    BY <1>1, <2>1, <2>3
  <2> QED
    BY <2>2, <2>3
<1> QED
  BY <1>10, <1>11, <1>12, <1>13, <1>14 DEF WritesInOrder

LEMMA NextInOrder ==
  TypeOK /\ WritesInOrder /\ IsFiniteSet(lost) /\ [Next]_vars => WritesInOrder' /\ IsFiniteSet(lost')
<1> SUFFICES ASSUME TypeOK, WritesInOrder, IsFiniteSet(lost), [Next]_vars, ~ CompleteFail
             PROVE  WritesInOrder' /\ IsFiniteSet(lost')
  BY LossKeepsOrder
<1>1. next \in Nat
  BY TtyAssumption DEF TypeOK
<1>7. lost' = lost /\ Cardinality(lost') <= faults'
  <2>1. Cardinality(lost) \in Nat /\ Cardinality(lost) <= faults /\ faults \in Nat
    BY FS_CardinalityType, TtyAssumption DEF WritesInOrder, TypeOK
  <2> QED
    BY <2>1, SentSteps
<1>8. lost \subseteq 1 .. next
  BY DEF WritesInOrder
<1>2. /\ Sent \in Seq(Packets)
      /\ Len(Sent) \in Nat
      /\ DOMAIN Sent = 1 .. Len(Sent)
  BY SentSteps, LenProperties
<1>3. CASE next' = next /\ Sent' = Sent
  BY <1>3, <1>7, <1>8 DEF WritesInOrder
<1>4. ASSUME NEW p \in Packets, Sent' = Append(Sent, p)
      PROVE  /\ DOMAIN Sent' = 1 .. Len(Sent) + 1
             /\ \A i \in DOMAIN Sent : i \in DOMAIN Sent' /\ Sent'[i] = Sent[i]
             /\ Sent'[Len(Sent) + 1] = p
             /\ \A i \in DOMAIN Sent' : i \notin DOMAIN Sent => i = Len(Sent) + 1
  <2>1. /\ Append(Sent, p) \in Seq(Packets)
        /\ Len(Append(Sent, p)) = Len(Sent) + 1
        /\ \A i \in 1 .. Len(Sent) : Append(Sent, p)[i] = Sent[i]
        /\ Append(Sent, p)[Len(Sent) + 1] = p
    BY <1>2, AppendProperties
  <2>2. DOMAIN Sent' = 1 .. Len(Sent) + 1
    BY <1>2, <1>4, <2>1, LenProperties
  <2> QED
    BY <1>2, <1>4, <2>1, <2>2
<1>5. ASSUME next' = next, NEW p \in Packets, ~ IsData(p), Sent' = Append(Sent, p)
      PROVE  WritesInOrder'
  <2>1. \A i \in DOMAIN Sent' : IsData(Sent'[i]) => i \in DOMAIN Sent /\ Sent'[i] = Sent[i]
    BY <1>4, <1>5
  <2>2. \A i \in DOMAIN Sent : i \in DOMAIN Sent' /\ Sent'[i] = Sent[i]
    BY <1>4, <1>5
  <2> QED
    BY <1>5, <1>7, <1>8, <2>1, <2>2 DEF WritesInOrder
<1>6. ASSUME next' = next + 1, NEW p \in Packets, IsData(p), p.n = next + 1,
             Sent' = Append(Sent, p)
      PROVE  WritesInOrder'
  <2> DEFINE last == Len(Sent) + 1
  <2>1. /\ \A i \in DOMAIN Sent : i \in DOMAIN Sent' /\ Sent'[i] = Sent[i]
        /\ last \in DOMAIN Sent' /\ Sent'[last] = p
        /\ \A i \in DOMAIN Sent' : i \in DOMAIN Sent \/ i = last
        /\ \A i \in DOMAIN Sent : i < last
        /\ DOMAIN Sent' \subseteq Int
    BY <1>2, <1>4, <1>6
  <2> HIDE DEF last
  <2>2. \A i \in DOMAIN Sent' : IsData(Sent'[i]) => Sent'[i].n \in (1 .. next') \ lost'
    BY <1>1, <1>6, <1>7, <1>8, <2>1 DEF WritesInOrder
  <2>3. \A n \in (1 .. next') \ lost' : \E i \in DOMAIN Sent' : IsData(Sent'[i]) /\ Sent'[i].n = n
    <3>1. TAKE n \in (1 .. next') \ lost'
    <3>2. CASE n = next + 1
      BY <1>6, <2>1, <3>2
    <3>3. CASE n # next + 1
      <4>1. n \in (1 .. next) \ lost
        BY <1>1, <1>6, <1>7, <3>1, <3>3
      <4>2. PICK i \in DOMAIN Sent : IsData(Sent[i]) /\ Sent[i].n = n
        BY <4>1 DEF WritesInOrder
      <4> QED
        BY <2>1, <4>2
    <3> QED
      BY <3>2, <3>3
  <2>4. ASSUME NEW i \in DOMAIN Sent', NEW j \in DOMAIN Sent',
               i < j, IsData(Sent'[i]), IsData(Sent'[j])
        PROVE  Sent'[i].n < Sent'[j].n
    <3>1. i \in DOMAIN Sent
      <4>1. CASE i = last
        <5>1. i \in Int /\ j \in Int /\ ~ (j < last) /\ j # last
          BY <1>2, <2>1, <2>4, <4>1
        <5> QED
          BY <2>1, <5>1
      <4> QED
        BY <2>1, <4>1
    <3>2. CASE j \in DOMAIN Sent
      BY <2>1, <2>4, <3>1, <3>2 DEF WritesInOrder
    <3>3. CASE j = last
      <4>1. Sent'[j].n = next + 1
        BY <1>6, <2>1, <3>3
      <4>2. Sent[i].n \in 1 .. next /\ Sent'[i] = Sent[i]
        BY <2>1, <2>4, <3>1 DEF WritesInOrder
      <4> QED
        BY <1>1, <4>1, <4>2
    <3> QED
      BY <2>1, <3>2, <3>3
  <2> QED
    BY <1>1, <1>6, <1>7, <1>8, <2>2, <2>3, <2>4 DEF WritesInOrder
<1> QED
  BY <1>3, <1>5, <1>6, <1>7, SentSteps

(* The data that was reported as taken, and no other, is on the wire or    *)
(* submitted, each piece once and in the order it was written, also when   *)
(* submissions fail and are repeated; missing are only pieces whose URB    *)
(* failed after it was submitted (mfd-uart.c 45-56, 58-100).               *)
THEOREM DataInOrder == Spec => []WritesInOrder
<1> DEFINE Inv == WritesInOrder /\ IsFiniteSet(lost)
<1>1. Init => Inv
  <2> SUFFICES ASSUME Init PROVE Inv
    OBVIOUS
  <2>1. Sent = <<>> /\ next = 0 /\ lost = {} /\ faults = 0
    BY ConcatEmptySeq, EmptySeq DEF Init, Sent
  <2>2. DOMAIN Sent = {}
    BY <2>1
  <2>3. IsFiniteSet(lost) /\ Cardinality(lost) = 0
    BY <2>1, FS_EmptySet
  <2> QED
    BY <2>1, <2>2, <2>3 DEF WritesInOrder
<1>2. TypeOK /\ Inv /\ [Next]_vars => Inv'
  BY NextInOrder
<1> QED
  BY <1>1, <1>2, TtyTypeCorrect, PTL DEF Spec

=============================================================================
