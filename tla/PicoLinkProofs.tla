--------------------------- MODULE PicoLinkProofs ---------------------------
(***************************************************************************)
(* How often the device executes a call, and the proof that PicoTransfer   *)
(* implements AtomicLink when answers are not late.                        *)
(***************************************************************************)
EXTENDS PicoTransferProofs

-----------------------------------------------------------------------------
(* A call that has not been sent has not been executed, one that is with   *)
(* the device is there once and has not been executed, and no two calls    *)
(* have the same number.                                                   *)
RunsInv ==
  /\ \A n \in 1 .. MaxCalls : runs[n] <= 1 /\ (n > calls => runs[n] = 0)
  /\ \A i \in 1 .. Len(out) :
       /\ out[i].id <= calls
       /\ out[i].id # 0 => runs[out[i].id] = 0
  /\ \A i, j \in 1 .. Len(out) : out[i].id = out[j].id /\ out[i].id # 0 => i = j
  /\ \A t \in Threads :
       /\ req[t].id <= calls
       /\ Building(t) => txbuf = req[t]
       /\ pc[t] # "idle" => req[t].id # 0
       /\ pc[t] \in {"lock", "arm", "send"} =>
            /\ runs[req[t].id] = 0
            /\ \A i \in 1 .. Len(out) : out[i].id # req[t].id
  /\ \A t, u \in Threads : req[t].id = req[u].id => t = u \/ req[t].id = 0

LEMMA RunsInit == Init => RunsInv
BY DEF Init, RunsInv, Building, Blank, Packet

(* The numbers in play are natural numbers.                                *)
LEMMA NumbersLemma ==
  ASSUME TypeOK
  PROVE  /\ MaxCalls \in Nat /\ calls \in Nat /\ calls <= MaxCalls
         /\ \A t \in Threads : req[t] \in Packets /\ req[t].id \in Nat
         /\ Len(out) \in Nat
         /\ \A i \in 1 .. Len(out) : out[i] \in Packets /\ out[i].id \in Nat
<1>1. /\ calls \in 0 .. MaxCalls /\ req \in [Threads -> Packets] /\ out \in Seq(Packets)
      /\ MaxCalls \in Nat
  BY BoundsAssumption DEF TypeOK
<1>2. \A q \in Packets : q.id \in Nat
  BY DEF Packets
<1> QED BY <1>1, <1>2

LEMMA RunsServed ==
  ASSUME LockInv, RunsInv, out # <<>>, out' = Tail(out), Executed(Head(out)),
         UNCHANGED <<txbuf, pc, req, calls>>
  PROVE  RunsInv'
<1> DEFINE p == Head(out)
<1>0. TypeOK
  BY DEF LockInv
<1>1. /\ p \in Packets /\ p = out[1] /\ 1 \in 1 .. Len(out)
      /\ \A i \in 1 .. Len(out') : i + 1 \in 1 .. Len(out) /\ out'[i] = out[i + 1]
  BY <1>0, ServedLemma
<1>2. p.id \in 0 .. MaxCalls /\ p.id <= calls /\ calls \in 0 .. MaxCalls
  BY <1>0, <1>1, BoundsAssumption DEF RunsInv, TypeOK, Packets
<1>3. \A n \in 0 .. MaxCalls : runs'[n] = IF n = p.id THEN runs[n] + 1 ELSE runs[n]
  BY <1>0, <1>2 DEF Executed, TypeOK
<1>4. p.id # 0 => runs[p.id] = 0
  BY <1>1 DEF RunsInv
<1> HIDE DEF p
<1>5. \A i \in 1 .. Len(out') : out'[i].id = p.id => p.id = 0
  <2> SUFFICES ASSUME NEW i \in 1 .. Len(out'), out'[i].id = p.id, p.id # 0 PROVE FALSE
    OBVIOUS
  <2>1. i + 1 = 1
    BY <1>1 DEF RunsInv
  <2> QED BY <2>1
<1>6. \A n \in 1 .. MaxCalls : runs'[n] <= 1 /\ (n > calls' => runs'[n] = 0)
  BY <1>2, <1>3, <1>4 DEF RunsInv
<1>7. \A i \in 1 .. Len(out') :
        /\ out'[i].id <= calls'
        /\ out'[i].id # 0 => runs'[out'[i].id] = 0
  <2> SUFFICES ASSUME NEW i \in 1 .. Len(out')
               PROVE  out'[i].id <= calls /\ (out'[i].id # 0 => runs'[out'[i].id] = 0)
    OBVIOUS
  <2>1. out'[i] \in Packets /\ out'[i].id <= calls
    BY <1>0, <1>1 DEF TypeOK, RunsInv
  <2>2. out'[i].id \in 0 .. MaxCalls
    BY <2>1, <1>2, BoundsAssumption DEF Packets
  <2>3. out'[i].id # 0 => runs[out'[i].id] = 0
    BY <1>1 DEF RunsInv
  <2> QED BY <2>1, <2>2, <2>3, <1>3, <1>5
<1>8. \A i, j \in 1 .. Len(out') : out'[i].id = out'[j].id /\ out'[i].id # 0 => i = j
  <2> SUFFICES ASSUME NEW i \in 1 .. Len(out'), NEW j \in 1 .. Len(out'),
                      out'[i].id = out'[j].id, out'[i].id # 0
               PROVE  i = j
    OBVIOUS
  <2>1. i + 1 = j + 1
    BY <1>1 DEF RunsInv
  <2> QED BY <2>1
<1>9. ASSUME NEW t \in Threads, pc[t] \in {"lock", "arm", "send"}
      PROVE  /\ runs'[req[t].id] = 0
             /\ \A i \in 1 .. Len(out') : out'[i].id # req[t].id
  <2>1. req[t].id \in 1 .. MaxCalls
    BY <1>9, <1>0, NumbersLemma DEF RunsInv
  <2>2. p.id # req[t].id
    BY <1>9, <1>1 DEF RunsInv
  <2> QED BY <1>9, <1>1, <1>3, <2>1, <2>2 DEF RunsInv
<1> QED BY <1>6, <1>7, <1>8, <1>9 DEF RunsInv, Building

LEMMA RunsStep ==
  ASSUME SoleSpi, LockInv, RunsInv, [Next]_vars
  PROVE  RunsInv'
<1>0. TypeOK
  BY DEF LockInv
<1>1. ASSUME NEW t \in Threads, Call(t) PROVE RunsInv'
  <2> DEFINE q == Request(Client[t], calls + 1)
  <2>0. calls < MaxCalls /\ Client[t] \in Clients
    BY <1>1, ClientAssumption DEF Call
  <2>1. calls \in Nat /\ calls + 1 \in Nat /\ calls + 1 \in 1 .. MaxCalls
    BY <1>0, <2>0, NumbersLemma
  <2>2. q.id = calls + 1
    BY <2>0, <2>1, RequestIsPacket
  <2>3. /\ req' = [req EXCEPT ![t] = q]
        /\ txbuf' = IF Client[t] = "SPI" THEN q ELSE txbuf
    BY <1>1 DEF Call
  <2>4. runs[q.id] = 0 /\ \A i \in 1 .. Len(out) : out[i].id # q.id
    BY <2>1, <2>2, <1>0, NumbersLemma DEF RunsInv
  <2>5. \A u \in Threads : req[u].id \in Nat /\ req[u].id < q.id
    BY <2>1, <2>2, <1>0, NumbersLemma DEF RunsInv
  <2>6. /\ UNCHANGED <<out, runs>> /\ calls' = calls + 1
        /\ pc[t] = "idle" /\ pc' = [pc EXCEPT ![t] = "lock"]
    BY <1>1 DEF Call, wireVars, GoTo
  <2>7. req \in [Threads -> Packets] /\ pc \in [Threads -> Labels]
    BY <1>0 DEF TypeOK
  <2> HIDE DEF q
  <2>8. \A i \in 1 .. Len(out) : out[i].id <= calls'
    BY <2>1, <2>6, <1>0, NumbersLemma DEF RunsInv
  <2>9. \A u \in Threads : req'[u].id <= calls'
    BY <2>1, <2>2, <2>3, <2>5, <2>6, <2>7
  <2>10. \A u, v \in Threads : req'[u].id = req'[v].id => u = v \/ req'[u].id = 0
    BY <2>3, <2>5, <2>7 DEF RunsInv
  <2>11. ASSUME NEW u \in Threads
         PROVE  /\ Building(u)' => txbuf' = req'[u]
                /\ pc'[u] # "idle" => req'[u].id # 0
                /\ pc'[u] \in {"lock", "arm", "send"} =>
                     /\ runs'[req'[u].id] = 0
                     /\ \A i \in 1 .. Len(out') : out'[i].id # req'[u].id
    BY <2>1, <2>2, <2>3, <2>4, <2>6, <2>7 DEF RunsInv, Building, SoleSpi
  <2>12. \A n \in 1 .. MaxCalls : runs'[n] <= 1 /\ (n > calls' => runs'[n] = 0)
    BY <2>1, <2>6 DEF RunsInv
  <2> QED BY <2>6, <2>8, <2>9, <2>10, <2>11, <2>12 DEF RunsInv
<1>2. ASSUME NEW t \in Threads, Begin(t) PROVE RunsInv'
  <2>1. /\ pc[t] = "lock" /\ pc' = [pc EXCEPT ![t] = "arm"]
        /\ UNCHANGED <<req, out, runs, calls>>
        /\ txbuf' = IF Client[t] = "SPI" THEN txbuf ELSE req[t]
    BY <1>2 DEF Begin, GoTo, wireVars, countVars
  <2>4. txbuf' = req[t]
    BY <2>1 DEF RunsInv, Building
  <2>2. \A u \in Threads : pc[u] \notin {"arm", "send"}
    BY <1>2, ThreadsAssumption DEF Begin, LockInv, Mutex, Holding
  <2>3. pc \in [Threads -> Labels]
    BY <1>0 DEF TypeOK
  <2>5. ASSUME NEW u \in Threads, Building(u)' PROVE txbuf' = req'[u]
    BY <2>1, <2>2, <2>3, <2>4, <2>5 DEF Building, SoleSpi
  <2>6. \A u \in Threads :
          /\ pc'[u] # "idle" => pc[u] # "idle"
          /\ pc'[u] \in {"lock", "arm", "send"} => pc[u] \in {"lock", "arm", "send"}
    BY <2>1, <2>3
  <2> QED BY <2>1, <2>5, <2>6 DEF RunsInv
<1>3. ASSUME NEW t \in Threads, Send(t) PROVE RunsInv'
  <2>1. out' = Append(out, req[t]) /\ pc[t] = "send" /\ pc' = [pc EXCEPT ![t] = "wait"]
    BY <1>3 DEF Send, RunsInv, Building, GoTo
  <2>2. UNCHANGED <<txbuf, req, calls, runs>>
    BY <1>3 DEF Send, transferVars, countVars
  <2>3. /\ Len(out') = Len(out) + 1 /\ Len(out) \in Nat
        /\ \A i \in 1 .. Len(out') : out'[i] = IF i <= Len(out) THEN out[i] ELSE req[t]
    BY <2>1, <1>0 DEF TypeOK
  <2>4. pc \in [Threads -> Labels]
    BY <1>0 DEF TypeOK
  <2>5. \A u \in Threads : Building(u)' => Building(u) /\ pc'[u] = pc[u]
    BY <2>1, <2>4 DEF Building
  <2> QED BY <1>0, <2>1, <2>2, <2>3, <2>4, <2>5 DEF RunsInv
<1>4. CASE Serve
  BY <1>4, RunsServed DEF Serve, transferVars, threadVars, countVars
<1>5. CASE ServeSilently
  BY <1>5, RunsServed DEF ServeSilently, transferVars, threadVars, countVars
<1>6. ASSUME NEW p \in Commands, SendCommand(p) PROVE RunsInv'
  <2>1. p.id = 0 /\ out' = Append(out, p) /\ UNCHANGED <<txbuf, req, pc, calls, runs>>
    BY <1>6, CommandIsPacket DEF SendCommand, transferVars, threadVars
  <2>2. /\ Len(out') = Len(out) + 1 /\ Len(out) \in Nat
        /\ \A i \in 1 .. Len(out') : out'[i] = IF i <= Len(out) THEN out[i] ELSE p
    BY <2>1, <1>0 DEF TypeOK
  <2> QED BY <1>0, <2>1, <2>2 DEF RunsInv, Building, TypeOK
<1>7. ASSUME UNCHANGED <<out, runs, req, txbuf, calls>>,
             \A t \in Threads : pc'[t] # pc[t] =>
               /\ pc[t] # "idle"
               /\ pc'[t] # "lock"
               /\ pc'[t] \in {"arm", "send"} => pc[t] \in {"arm", "send"}
      PROVE  RunsInv'
  <2>1. \A t \in Threads : Building(t)' => Building(t)
    BY <1>7 DEF Building
  <2> QED
    BY <1>7, <2>1 DEF RunsInv
<1> USE <1>0, <1>7
    DEF TypeOK, transferVars, threadVars, wireVars, countVars, GoTo
<1>8. ASSUME NEW t \in Threads,
             Interrupt(t) \/ Arm(t) \/ SendFail(t) \/ Wake(t) \/ Timeout(t)
               \/ CopyOut(t) \/ Finish(t) \/ Collect(t)
      PROVE  RunsInv'
  BY <1>8 DEF Interrupt, Arm, SendFail, Wake, Timeout, CopyOut, Finish, Collect
<1>9. CASE Handler
  BY <1>9 DEF Handler, Receive, ReceiveError, CopyIn, Disarm, Complete, Resubmit, ResubmitFail
<1>10. CASE UartData
  BY <1>10 DEF UartData
<1>11. CASE UNCHANGED vars
  BY <1>11 DEF vars
<1> QED
  BY <1>1, <1>2, <1>3, <1>4, <1>5, <1>6, <1>8, <1>9, <1>10, <1>11
     DEF Next, InTransfer, Device, Rest

(* The device executes the request of a call at most once, however late    *)
(* the answers are and whatever faults there are (core.c 378-385).         *)
THEOREM ExecutedAtMostOnce == ASSUME SoleSpi PROVE Spec => []AtMostOnce
<1>1. Init => LockInv /\ RunsInv
  BY LockInit, RunsInit
<1>2. LockInv /\ RunsInv /\ [Next]_vars => (LockInv /\ RunsInv)'
  BY LockStep, RunsStep
<1>3. RunsInv => AtMostOnce
  BY DEF RunsInv, AtMostOnce
<1> QED BY <1>1, <1>2, <1>3, PTL DEF Spec

-----------------------------------------------------------------------------
(* The refinement.  How far the device is with the call in progress, and   *)
(* which results a thread can carry where.                                 *)
PhaseInv ==
  \A t \in Threads :
    /\ pc[t] = "wait" /\ (InFlight \/ InHandler \/ InDone) => runs[req[t].id] > 0
    /\ pc[t] = "copyout" => runs[req[t].id] > 0
    /\ pc[t] \in {"finish", "collect"} /\ Answered(t) => runs[req[t].id] > 0
    /\ pc[t] = "collect" => Answered(t)
    /\ pc[t] = "idle" => result[t] # "pending"
    /\ pc[t] \in {"lock", "arm", "send", "wait", "copyout"} => result[t] = "pending"
    /\ pc[t] = "finish" => result[t] \in {"value", "nack", "error", "fallback"}

LinkInv == ExchangeInv /\ RunsInv /\ PhaseInv

LEMMA PhaseInit == Init => PhaseInv
BY DEF Init, PhaseInv

(* Executing the packet at the head of out, whatever is sent back.         *)
LEMMA PhaseServed ==
  ASSUME LinkInv, out # <<>>, out' = Tail(out), Executed(Head(out)),
         UNCHANGED <<done, pc, req, result, urb>>,
         InFlight' => InFlight \/ Head(out).id # 0
  PROVE  PhaseInv'
<1> DEFINE p == Head(out)
<1>0. TypeOK /\ Mutex
  BY DEF LinkInv, ExchangeInv, LockInv
<1>1. p \in Packets /\ p = out[1] /\ 1 \in 1 .. Len(out)
  BY <1>0, ServedLemma
<1>2. \A n \in 0 .. MaxCalls : runs'[n] >= runs[n] /\ (n = p.id => runs'[n] > 0)
  <2> SUFFICES ASSUME NEW n \in 0 .. MaxCalls
               PROVE  runs'[n] >= runs[n] /\ (n = p.id => runs'[n] > 0)
    OBVIOUS
  <2>1. runs \in [0 .. MaxCalls -> Nat] /\ runs[n] \in Nat
    BY <1>0 DEF TypeOK
  <2>2. runs' = [runs EXCEPT ![p.id] = runs[p.id] + 1]
    BY DEF Executed
  <2> HIDE DEF p
  <2> QED BY <2>1, <2>2
<1>3. \A t \in Threads : req[t].id \in 0 .. MaxCalls /\ runs[req[t].id] \in Nat
  <2>1. \A t \in Threads : req[t].id \in 0 .. MaxCalls
    BY <1>0, NumbersLemma DEF LinkInv, RunsInv
  <2> QED BY <2>1, <1>0 DEF TypeOK
<1>4. ASSUME p.id # 0, NEW t \in Threads, pc[t] = "wait" PROVE p = req[t]
  BY <1>1, <1>4 DEF LinkInv, ExchangeInv, OwnInv, Own
<1> HIDE DEF p
<1>5. (InHandler' <=> InHandler) /\ (InDone' <=> InDone)
  BY DEF InHandler, InDone
<1>6. ASSUME NEW t \in Threads, runs[req[t].id] > 0 PROVE runs'[req[t].id] > 0
  <2>1. runs'[req[t].id] >= runs[req[t].id] /\ runs'[req[t].id] \in Nat
    BY <1>2, <1>3, <1>0, ExecutedType DEF TypeOK
  <2> QED BY <1>6, <1>3, <2>1
<1>7. ASSUME NEW t \in Threads, pc[t] = "wait", p.id # 0 PROVE runs'[req[t].id] > 0
  BY <1>7, <1>2, <1>3, <1>4
<1> QED BY <1>5, <1>6, <1>7 DEF p, LinkInv, PhaseInv, Answered

LEMMA PhaseStep ==
  ASSUME Timely, LinkInv, [Next]_vars
  PROVE  PhaseInv'
<1>0. TypeOK /\ Mutex
  BY DEF LinkInv, ExchangeInv, LockInv
<1>1. CASE Serve
  <2>1. Head(out) \in Packets /\ Head(out) = out[1] /\ 1 \in 1 .. Len(out)
    BY <1>0, <1>1, ServedLemma DEF Serve
  <2>2. PICK r \in Replies(Head(out)) : in' = in \o r
    BY <1>1 DEF Serve
  <2>3. r \in Seq(Packets)
    BY <2>1, RepliesLemma
  <2>4. ASSUME InFlight', ~InFlight PROVE Head(out).id # 0
    <3>1. PICK i \in 1 .. Len(in') : Completes(in'[i])
      BY <2>4 DEF InFlight
    <3>2. urb.stage # "dead"
      BY <1>1, <2>4 DEF InFlight, Serve
    <3>3. i - Len(in) \in 1 .. Len(r) /\ in'[i] = r[i - Len(in)]
      <4>1. in \in Seq(Packets)
        BY <1>0 DEF TypeOK
      <4>2. /\ Len(in) \in Nat /\ Len(r) \in Nat /\ i \in 1 .. Len(in) + Len(r)
            /\ in'[i] = IF i <= Len(in) THEN in[i] ELSE r[i - Len(in)]
        BY <2>2, <2>3, <4>1, <3>1, JoinType
      <4>3. ~ (i <= Len(in))
        BY <2>4, <3>1, <3>2, <4>2 DEF InFlight
      <4> QED BY <4>2, <4>3
    <3>4. ~Quiet(Head(out))
      BY <2>2, <2>3, <3>1, <3>3 DEF Quiet
    <3> QED BY <2>1, <3>4 DEF Timely, OnlyQuietCommands, LinkInv, ExchangeInv, CommandInv
  <2> QED BY <1>1, <2>4, PhaseServed DEF Serve, transferVars, threadVars
<1>2. CASE ServeSilently
  BY <1>2, PhaseServed DEF ServeSilently, transferVars, threadVars, InFlight
<1>3. ASSUME NEW t \in Threads, Call(t) PROVE PhaseInv'
  BY <1>0, <1>3 DEF Call, GoTo, LinkInv, PhaseInv, TypeOK, wireVars, InFlight, InHandler,
                    InDone, Answered
<1>4. ASSUME NEW t \in Threads, Send(t) PROVE PhaseInv'
  <2>1. ~InFlight /\ ~InHandler /\ ~InDone
    BY <1>0, <1>4 DEF Send, LinkInv, ExchangeInv, Awaited, Mutex, Holding
  <2> QED BY <1>0, <1>4, <2>1 DEF Send, GoTo, LinkInv, PhaseInv, TypeOK, InFlight, InHandler,
                    InDone, Answered, transferVars, countVars
<1>5. ASSUME NEW t \in Threads, CopyOut(t) PROVE PhaseInv'
  <2>1. result'[t] \in {"value", "nack", "error", "fallback"}
    <3>1. PICK o \in Readings(Client[t], Readable) : result' = [result EXCEPT ![t] = o]
      BY <1>5 DEF CopyOut
    <3>2. o \in {"value", "nack", "fallback", "error"}
      <4>1. Client[t] \in Clients
        BY ClientAssumption
      <4>2. Readings(Client[t], Readable) \subseteq {"value", "nack", "fallback", "error"}
        BY <4>1, ReadingsLemma
      <4> QED BY <3>1, <4>2
    <3>3. result \in [Threads -> Results]
      BY <1>0 DEF TypeOK
    <3> QED BY <3>1, <3>2, <3>3
  <2>2. /\ pc[t] = "copyout" /\ pc' = [pc EXCEPT ![t] = "finish"]
        /\ \A u \in Threads \ {t} : result'[u] = result[u]
        /\ UNCHANGED <<req, runs, in, urb, done>>
    BY <1>0, <1>5 DEF CopyOut, GoTo, transferVars, wireVars, TypeOK
  <2>3. pc \in [Threads -> Labels]
    BY <1>0 DEF TypeOK
  <2>4. runs[req[t].id] > 0
    BY <2>2 DEF LinkInv, PhaseInv
  <2> QED BY <2>1, <2>2, <2>3, <2>4
       DEF LinkInv, PhaseInv, InFlight, InHandler, InDone, Answered
<1>6. ASSUME NEW t \in Threads, Wake(t) PROVE PhaseInv'
  <2>1. /\ pc[t] = "wait" /\ InDone /\ pc' = [pc EXCEPT ![t] = "copyout"]
        /\ UNCHANGED <<req, runs, in, urb, result>>
        /\ InDone' => InDone
    BY <1>6 DEF Wake, GoTo, wireVars, InDone
  <2>2. pc \in [Threads -> Labels]
    BY <1>0 DEF TypeOK
  <2>3. runs[req[t].id] > 0 /\ result[t] = "pending"
    BY <2>1 DEF LinkInv, PhaseInv
  <2> QED BY <2>1, <2>2, <2>3 DEF LinkInv, PhaseInv, InFlight, InHandler, Answered
<1>13. ASSUME NEW t \in Threads, SendFail(t) \/ Timeout(t) \/ Interrupt(t) PROVE PhaseInv'
  <2>1. /\ \/ pc[t] \in {"send", "wait"} /\ pc' = [pc EXCEPT ![t] = "finish"]
                                        /\ result'[t] \in {"error", "fallback"}
           \/ pc[t] = "lock" /\ pc' = [pc EXCEPT ![t] = "idle"]
                             /\ result'[t] = "interrupted"
        /\ \A u \in Threads \ {t} : result'[u] = result[u]
        /\ UNCHANGED <<req, runs, in, urb, done>>
    BY <1>0, <1>13 DEF SendFail, Timeout, Interrupt, Failure, GoTo, transferVars, wireVars, TypeOK
  <2>2. pc \in [Threads -> Labels]
    BY <1>0 DEF TypeOK
  <2> QED BY <2>1, <2>2 DEF LinkInv, PhaseInv, InFlight, InHandler, InDone, Answered
<1>14. ASSUME NEW t \in Threads, Begin(t) \/ Arm(t) \/ Finish(t) \/ Collect(t) PROVE PhaseInv'
  <2>1. /\ \/ pc[t] \in {"lock", "arm"} /\ pc'[t] \in {"arm", "send"}
           \/ pc[t] \in {"finish", "collect"} /\ pc'[t] = "idle"
           \/ pc[t] = "finish" /\ pc'[t] = "collect" /\ Answered(t)
        /\ \A u \in Threads \ {t} : pc'[u] = pc[u]
        /\ UNCHANGED <<req, result, runs, in, urb>>
        /\ InDone' => InDone
    BY <1>0, <1>14 DEF Begin, Arm, Finish, Collect, GoTo, transferVars, wireVars, TypeOK, InDone,
       Answered
  <2>2. pc[t] = "collect" => result[t] # "pending"
    BY DEF LinkInv, PhaseInv, Answered
  <2> QED BY <2>1, <2>2 DEF LinkInv, PhaseInv, InFlight, InHandler, Answered
<1>7. ASSUME NEW p \in Commands, SendCommand(p) PROVE PhaseInv'
  BY <1>7 DEF SendCommand, LinkInv, PhaseInv, InFlight, InHandler, InDone, Answered,
              transferVars, threadVars
<1>8. CASE Receive
  <2>1. InFlight' \/ InHandler' => InFlight
    BY <1>0, <1>8 DEF Receive, Stage, InFlight, InHandler, TypeOK
  <2> QED BY <1>8, <2>1 DEF Receive, LinkInv, PhaseInv, InDone, Answered, transferVars, threadVars
<1>9. CASE ReceiveError
  <2>1. (InFlight' => InFlight) /\ ~InHandler'
    BY <1>0, <1>9 DEF ReceiveError, Stage, InFlight, InHandler, TypeOK
  <2> QED BY <1>9, <2>1 DEF ReceiveError, LinkInv, PhaseInv, InDone, Answered, transferVars,
                            threadVars
<1>10. CASE CopyIn \/ Disarm \/ Complete \/ Resubmit \/ ResubmitFail
  <2>1. /\ InFlight' => InFlight
        /\ InHandler' => InHandler
        /\ InDone' => InDone \/ InHandler
    <3> USE DEF Stage, InFlight, InHandler, InDone, wireVars, transferVars
    <3>1. CASE CopyIn
      BY <3>1 DEF CopyIn
    <3>2. CASE Disarm
      BY <3>2 DEF Disarm
    <3>3. CASE Complete
      BY <3>3 DEF Complete
    <3>4. CASE Resubmit \/ ResubmitFail
      BY <3>4 DEF Resubmit, ResubmitFail
    <3> QED BY <1>10, <3>1, <3>2, <3>3, <3>4
  <2>2. UNCHANGED <<pc, req, result, runs>>
    BY <1>10 DEF CopyIn, Disarm, Complete, Resubmit, ResubmitFail, threadVars, wireVars
  <2> QED BY <2>1, <2>2 DEF LinkInv, PhaseInv, Answered
<1>11. CASE UartData
  <2>1. in' = Append(in, Packet("UART", "RESP", 0)) /\ ~Completes(Packet("UART", "RESP", 0))
    BY <1>11 DEF UartData, Completes, Packet
  <2>2. InFlight' => InFlight
    BY <1>0, <1>11, <2>1 DEF UartData, InFlight, TypeOK
  <2> QED BY <1>11, <2>2 DEF UartData, LinkInv, PhaseInv, InHandler, InDone, Answered,
                             transferVars, threadVars
<1>12. CASE UNCHANGED vars
  BY <1>12 DEF vars, transferVars, threadVars, wireVars, LinkInv, PhaseInv, InFlight, InHandler,
               InDone, Answered
<1> QED
  BY <1>1, <1>2, <1>3, <1>4, <1>5, <1>6, <1>7, <1>8, <1>9, <1>10, <1>11, <1>12, <1>13, <1>14
     DEF Next, InTransfer, Handler, Device, Rest

-----------------------------------------------------------------------------

LEMMA LinkInit == Init => LinkInv
BY ExchangeInit, RunsInit, PhaseInit DEF LinkInv

LEMMA LinkStep == ASSUME Timely, LinkInv, [Next]_vars PROVE LinkInv'
<1>1. SoleSpi
  BY DEF Timely
<1>2. LockInv /\ ExchangeInv /\ RunsInv
  BY DEF LinkInv, ExchangeInv
<1> QED BY <1>1, <1>2, ExchangeStep, RunsStep, PhaseStep DEF LinkInv

(* An answer all of whose parts are of packets for one call is for that    *)
(* call.                                                                   *)
LEMMA AnswerFor ==
  ASSUME NEW S, S # {}, NEW n, \A p \in S : p.id = n
  PROVE  {p.id : p \in S} = {n}
<1>1. {p.id : p \in S} \subseteq {n}
  OBVIOUS
<1>2. PICK p \in S : TRUE
  OBVIOUS
<1>3. n \in {q.id : q \in S}
  BY <1>2
<1> QED BY <1>1, <1>3

LEMMA LinkInitMaps == Init => Link!Init
<1> SUFFICES ASSUME Init PROVE Link!Init
  OBVIOUS
<1>1. \A t \in Threads : /\ req[t].id = 0 /\ LinkPhase(t) = "idle"
                         /\ LinkOutcome(t) = [how |-> "none", of |-> {}]
  BY DEF Init, LinkPhase, LinkOutcome, Answered, Blank, Packet
<1> QED BY <1>1 DEF Init, Link!Init

(* Threads that did not move and whose request was not executed map to     *)
(* themselves.                                                             *)
Still(t) ==
  /\ pc'[t] = pc[t] \/ (pc[t] # "idle" /\ pc'[t] # "idle")
  /\ req'[t] = req[t]
  /\ pc[t] # "idle" => (runs'[req[t].id] > 0 <=> runs[req[t].id] > 0)
  /\ pc[t] = "idle" => result'[t] = result[t] /\ got'[t] = got[t]

LEMMA StillMaps ==
  ASSUME calls' = calls, \A t \in Threads : Still(t)
  PROVE  UNCHANGED Link!vars
<1>1. \A t \in Threads : LinkPhase(t)' = LinkPhase(t) /\ LinkOutcome(t)' = LinkOutcome(t)
  BY DEF Still, LinkPhase, LinkOutcome, Answered
<1>2. \A t \in Threads : req'[t] = req[t]
  BY DEF Still
<1> QED BY <1>1, <1>2 DEF Link!vars

LEMMA LinkStepMaps ==
  ASSUME Timely, LinkInv, LinkInv', [Next]_vars
  PROVE  Link!Next \/ UNCHANGED Link!vars
<1>0. TypeOK /\ Mutex /\ RunsInv /\ PhaseInv /\ MatchedReply /\ TypeOK'
  BY DEF LinkInv, ExchangeInv, LockInv
<1>1. pc \in [Threads -> Labels] /\ req \in [Threads -> Packets]
      /\ got \in [Threads -> (SUBSET Packets) \ {{}}] /\ result \in [Threads -> Results]
  BY <1>0 DEF TypeOK
<1>2. ASSUME NEW t \in Threads, Call(t) PROVE Link!Invoke(t)
  <2> DEFINE q == Request(Client[t], calls + 1)
  <2>1. /\ pc[t] = "idle" /\ pc' = [pc EXCEPT ![t] = "lock"] /\ calls' = calls + 1
        /\ req' = [req EXCEPT ![t] = q] /\ UNCHANGED <<runs, got>>
        /\ result' = [result EXCEPT ![t] = "pending"]
    BY <1>2 DEF Call, GoTo, wireVars
  <2>2. calls + 1 \in Nat /\ Client[t] \in Clients
    BY <1>0, NumbersLemma, ClientAssumption
  <2>3. q.id = calls + 1
    BY <2>2, RequestIsPacket
  <2> HIDE DEF q
  <2>4. runs'[req'[t].id] = 0
    BY <2>1, <1>0, <1>1 DEF LinkInv, RunsInv
  <2>5. \A u \in Threads \ {t} : pc'[u] = pc[u] /\ req'[u] = req[u] /\ result'[u] = result[u]
    BY <1>1, <2>1
  <2>6. pc'[t] = "lock" /\ req'[t] = q
    BY <1>1, <2>1
  <2>7. /\ LinkPhase(t) = "idle" /\ LinkPhase(t)' = "invoked" /\ LinkOutcome(t)' = Link!Pending
        /\ \A u \in Threads \ {t} :
             LinkPhase(u)' = LinkPhase(u) /\ LinkOutcome(u)' = LinkOutcome(u)
    BY <2>1, <2>4, <2>5, <2>6 DEF LinkPhase, LinkOutcome, Answered, Link!Pending
  <2>8. /\ [u \in Threads |-> req[u].id]'
             = [[u \in Threads |-> req[u].id] EXCEPT ![t] = calls + 1]
        /\ [u \in Threads |-> LinkPhase(u)]'
             = [[u \in Threads |-> LinkPhase(u)] EXCEPT ![t] = "invoked"]
    BY <2>3, <2>5, <2>6, <2>7
  <2>9. [u \in Threads |-> LinkOutcome(u)]'
           = [[u \in Threads |-> LinkOutcome(u)] EXCEPT ![t] = Link!Pending]
    BY <2>7
  <2> QED BY <2>1, <2>7, <2>8, <2>9 DEF Link!Invoke
<1>3. ASSUME NEW t \in Threads, Interrupt(t) PROVE Link!Fail(t, "interrupted")
  <2>1. /\ pc[t] = "lock" /\ pc'[t] = "idle" /\ result'[t] = "interrupted"
        /\ \A u \in Threads \ {t} : pc'[u] = pc[u] /\ result'[u] = result[u]
        /\ UNCHANGED <<calls, req, got, runs>>
    BY <1>1, <1>3 DEF Interrupt, GoTo, wireVars, countVars
  <2>2. /\ LinkPhase(t) # "idle" /\ LinkPhase(t)' = "idle"
        /\ LinkOutcome(t)' = [how |-> "interrupted", of |-> {}]
        /\ \A u \in Threads \ {t} :
             LinkPhase(u)' = LinkPhase(u) /\ LinkOutcome(u)' = LinkOutcome(u)
    BY <2>1 DEF LinkPhase, LinkOutcome, Answered
  <2> QED BY <2>1, <2>2 DEF Link!Fail
<1>4. ASSUME NEW t \in Threads, Finish(t), pc'[t] = "idle" PROVE Link!Next
  <2>1. /\ pc[t] = "finish" /\ pc'[t] = "idle"
        /\ \A u \in Threads \ {t} : pc'[u] = pc[u]
        /\ UNCHANGED <<calls, req, got, runs, result>>
    BY <1>1, <1>4 DEF Finish, GoTo, wireVars, countVars
  <2>2. CASE Answered(t)
    <3>1. runs[req[t].id] > 0 /\ {p.id : p \in got[t]} = {req[t].id}
      <4>1. runs[req[t].id] > 0 /\ \A p \in got[t] : p.id = req[t].id
        BY <1>0, <2>1, <2>2 DEF PhaseInv, MatchedReply
      <4>2. got[t] # {}
        BY <1>1
      <4> QED BY <4>1, <4>2, AnswerFor
    <3>2. /\ LinkPhase(t) = "executed" /\ LinkPhase(t)' = "idle"
          /\ LinkOutcome(t)' = [how |-> result[t], of |-> {req[t].id}]
          /\ \A u \in Threads \ {t} :
               LinkPhase(u)' = LinkPhase(u) /\ LinkOutcome(u)' = LinkOutcome(u)
      BY <2>1, <2>2, <3>1 DEF LinkPhase, LinkOutcome, Answered
    <3>3. ASSUME NEW how, how = result[t] PROVE Link!Return(t, how)
      BY <2>1, <3>2, <3>3 DEF Link!Return
    <3>4. \E how \in Link!Answers : how = result[t]
      BY <2>2 DEF Link!Answers, Answered
    <3> QED BY <3>3, <3>4 DEF Link!Next
  <2>3. CASE ~Answered(t)
    <3>1. result[t] \in {"error", "fallback"}
      BY <1>0, <2>1, <2>3 DEF PhaseInv, Answered
    <3>2. /\ LinkPhase(t) # "idle" /\ LinkPhase(t)' = "idle"
          /\ LinkOutcome(t)' = [how |-> result[t], of |-> {}]
          /\ \A u \in Threads \ {t} :
               LinkPhase(u)' = LinkPhase(u) /\ LinkOutcome(u)' = LinkOutcome(u)
      BY <2>1, <2>3 DEF LinkPhase, LinkOutcome, Answered
    <3>3. ASSUME NEW how, how = result[t] PROVE Link!Fail(t, how)
      BY <2>1, <3>2, <3>3 DEF Link!Fail
    <3>4. \E how \in Link!Failures : how = result[t]
      BY <3>1 DEF Link!Failures
    <3> QED BY <3>3, <3>4 DEF Link!Next
  <2> QED BY <2>2, <2>3
<1>10. ASSUME NEW t \in Threads, Collect(t) PROVE Link!Next
  <2>0. pc[t] = "collect" /\ Readable = rxbuf /\ \E q : rxbuf = {q} /\ Answers(q, t)
    <3>1. pc[t] = "collect" /\ ExchangeInv
      BY <1>10 DEF Collect, LinkInv
    <3> QED BY <3>1, ReadsWhole
  <2>1. /\ pc[t] = "collect" /\ pc'[t] = "idle" /\ got'[t] = rxbuf
        /\ \A u \in Threads \ {t} : pc'[u] = pc[u] /\ got'[u] = got[u]
        /\ UNCHANGED <<calls, req, runs, result>>
    BY <1>1, <1>10, <2>0 DEF Collect, GoTo, transferVars, wireVars, countVars
  <2>2. /\ Answered(t) /\ Answered(t)' /\ runs[req[t].id] > 0
        /\ {p.id : p \in got'[t]} = {req[t].id}
    <3>1. \A p \in rxbuf : p.id = req[t].id
      BY <2>0 DEF Answers
    <3>2. {p.id : p \in rxbuf} = {req[t].id}
      BY <2>0, <3>1, AnswerFor
    <3> QED BY <1>0, <2>1, <3>2 DEF LinkInv, PhaseInv, Answered
  <2>3. /\ LinkPhase(t) = "executed" /\ LinkPhase(t)' = "idle"
        /\ LinkOutcome(t)' = [how |-> result[t], of |-> {req[t].id}]
        /\ \A u \in Threads \ {t} :
             LinkPhase(u)' = LinkPhase(u) /\ LinkOutcome(u)' = LinkOutcome(u)
    BY <2>1, <2>2 DEF LinkPhase, LinkOutcome, Answered
  <2>4. ASSUME NEW how, how = result[t] PROVE Link!Return(t, how)
    BY <2>1, <2>3, <2>4 DEF Link!Return
  <2>5. \E how \in Link!Answers : how = result[t]
    BY <2>2 DEF Link!Answers, Answered
  <2> QED
    BY <2>4, <2>5 DEF Link!Next
<1>5. ASSUME out # <<>>, out' = Tail(out), Executed(Head(out)),
             UNCHANGED <<calls, pc, req, got, result>>
      PROVE  Link!Next \/ UNCHANGED Link!vars
  <2> DEFINE p == Head(out)
  <2>1. p \in Packets /\ p = out[1] /\ 1 \in 1 .. Len(out)
    BY <1>0, <1>5, ServedLemma
  <2>2. \A t \in Threads : req[t].id \in 0 .. MaxCalls
    BY <1>0, NumbersLemma DEF RunsInv
  <2>3. \A n \in 0 .. MaxCalls : runs'[n] = IF n = p.id THEN runs[n] + 1 ELSE runs[n]
    BY <1>0, <1>5 DEF Executed, TypeOK
  <2> HIDE DEF p
  <2>4. CASE p.id = 0
    <3>1. \A t \in Threads : pc[t] # "idle" => runs'[req[t].id] = runs[req[t].id]
      BY <2>2, <2>3, <2>4, <1>0 DEF RunsInv
    <3>2. \A t \in Threads : Still(t)
      BY <3>1, <1>5 DEF Still
    <3> QED BY <3>2, <1>5, StillMaps
  <2>5. CASE p.id # 0
    <3>1. PICK t \in Threads : pc[t] = "wait"
      BY <2>1, <2>5 DEF LinkInv, ExchangeInv, Awaited, InOut
    <3>2. p = req[t] /\ runs[p.id] = 0
      BY <2>1, <2>5, <3>1 DEF LinkInv, ExchangeInv, OwnInv, Own, RunsInv
    <3>3. runs'[req[t].id] = 1
      BY <2>2, <2>3, <3>2
    <3>4. \A u \in Threads \ {t} : pc[u] # "idle" => runs'[req[u].id] = runs[req[u].id]
      BY <2>2, <2>3, <2>5, <3>2, <1>0 DEF RunsInv
    <3>5. \A u \in Threads \ {t} : pc[u] # "idle" => runs[req[u].id] = 0
      <4> SUFFICES ASSUME NEW u \in Threads \ {t}, pc[u] # "idle" PROVE runs[req[u].id] = 0
        OBVIOUS
      <4>1. pc[u] = "lock"
        BY <3>1, <1>0, <1>1 DEF Mutex, Holding, Labels, LinkInv, ExchangeInv, OwnInv, Timely,
           SoleSpi
      <4> QED BY <4>1, <1>0 DEF RunsInv
    <3>6. /\ LinkPhase(t) = "invoked" /\ LinkPhase(t)' = "executed"
          /\ LinkOutcome(t)' = LinkOutcome(t)
      BY <3>1, <3>2, <3>3, <1>5 DEF LinkPhase, LinkOutcome
    <3>7. \A u \in Threads \ {t} : /\ LinkPhase(u)' = LinkPhase(u) /\ LinkPhase(u) # "executed"
                                   /\ LinkOutcome(u)' = LinkOutcome(u)
      BY <3>4, <3>5, <1>5 DEF LinkPhase, LinkOutcome, Answered
    <3>8. Link!Execute(t)
      BY <3>6, <3>7, <1>5 DEF Link!Execute
    <3> QED BY <3>8 DEF Link!Next
  <2> QED BY <2>4, <2>5
<1>6. ASSUME NEW t \in Threads,
             Begin(t) \/ Arm(t) \/ Send(t) \/ SendFail(t) \/ Wake(t) \/ Timeout(t)
               \/ CopyOut(t) \/ (Finish(t) /\ pc'[t] # "idle")
      PROVE  UNCHANGED Link!vars
  <2>2. /\ pc[t] # "idle" /\ pc'[t] # "idle"
        /\ \A u \in Threads \ {t} : pc'[u] = pc[u] /\ got'[u] = got[u] /\ result'[u] = result[u]
        /\ UNCHANGED <<calls, req, runs>>
    BY <1>1, <1>6 DEF Begin, Arm, Send, SendFail, Wake, Timeout, CopyOut, Finish, GoTo,
       transferVars, wireVars, countVars
  <2>3. \A u \in Threads : Still(u)
    BY <2>2 DEF Still
  <2> QED BY <2>2, <2>3, StillMaps
<1>7. ASSUME UNCHANGED <<calls, pc, req, got, result, runs>> PROVE UNCHANGED Link!vars
  BY <1>7, StillMaps DEF Still
<1>8. CASE Serve \/ ServeSilently
  BY <1>5, <1>8 DEF Serve, ServeSilently, threadVars, countVars
<1>9. CASE Handler \/ UartData \/ (\E p \in Commands : SendCommand(p)) \/ UNCHANGED vars
  BY <1>7, <1>9 DEF Handler, Receive, ReceiveError, CopyIn, Disarm, Complete, Resubmit,
     ResubmitFail, UartData, SendCommand, vars, threadVars, wireVars, countVars
<1> QED
  BY <1>2, <1>3, <1>4, <1>6, <1>8, <1>9, <1>10
     DEF Next, InTransfer, Device, Rest, Link!Next, Link!Failures

(* picolink_transfer implements AtomicLink: every call is executed at most *)
(* once, alone, between its invocation and its return, and what it returns *)
(* is its own answer (core.c 371-399).                                     *)
THEOREM TransferImplementsLink == ASSUME Timely PROVE Spec => ImplementsLink
<1>1. LinkInv /\ [Next]_vars => LinkInv'
  BY LinkStep DEF vars
<1>2. LinkInv /\ LinkInv' /\ [Next]_vars => [Link!Next]_(Link!vars)
  BY LinkStepMaps
<1> QED BY LinkInit, LinkInitMaps, <1>1, <1>2, PTL DEF Spec, ImplementsLink, Link!Spec

=============================================================================
