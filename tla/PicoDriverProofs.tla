-------------------------- MODULE PicoDriverProofs --------------------------
(***************************************************************************)
(* Proofs about PicoDriver, for any threads, pins, values, mixes and       *)
(* bounds: its types, memory safety, and what its lists, flags, ranges and *)
(* the end of disconnect agree on.                                         *)
(*                                                                         *)
(* The inductive invariant DriverInv has five parts: types and the places  *)
(* of threads (TypeInv), what keeps writers apart (CauseInv), freed memory *)
(* however writers overlap (MemoryInv), g_spi (SpiInv), and what holds as  *)
(* long as they do not overlap, the UART's port among it (CalmInv).        *)
(***************************************************************************)
EXTENDS PicoDriver, FiniteSetTheorems, TLAPS

-----------------------------------------------------------------------------
(* Commands, and where they may be.                                        *)

Runs == [at : Labels, cmd : Commands \cup Cleanups, mine : 0 .. MaxCommands]

(* What a thread at a label does there, by its command.                    *)
Shape(r) ==
  /\ r.at = "find" => r.cmd.do = "on" /\ r.cmd.what \in {"led", "servo"} /\ r.mine = 0
  /\ r.at = "add" => r.cmd.do = "on" /\ r.cmd.what \in Lists
  /\ r.at = "register" => r.cmd.do = "on" /\ r.cmd.what \in {"led", "adc"}
  /\ r.at = "unlist" => r.cmd.do = "on" /\ r.cmd.what = "led"
  /\ r.at = "send" => r.cmd.what \in {"led", "servo"} \cup Cells
  /\ r.at \in {"take", "remove"} => r.cmd.do # "on" /\ r.cmd.what \in Lists
  /\ r.at = "test" => r.cmd.what \in Cells \cup {"cs"}
  /\ r.at = "probe" => r.cmd.do = "on" /\ r.cmd.what \in Cells
  /\ r.at = "unplug" => r.cmd.do = "off" /\ r.cmd.what \in {"i2c", "uart"}
  /\ r.at \in {"port", "patch"} => r.cmd.do = "on" /\ r.cmd.what = "uart"
  /\ r.at = "select" => r.cmd.what = "cs"

LEMMA CommandFacts ==
  ASSUME NEW c \in Commands \cup Cleanups
  PROVE  /\ c.do \in {"on", "off", "clean"} /\ c.what \in Lists \cup Cells \cup {"cs"}
         /\ c.pin \in Pins \cup {0} /\ c.val \in Values \cup {0}
         /\ c.do # "clean" <=> c \in Commands
         /\ c.do = "clean" => c.what \in Lists
         /\ c.do = "on" /\ c.what = "servo" => c.val \in Values
         /\ c.do = "off" => c.what \in Lists \cup {"i2c", "uart"}
         /\ c.what = "cs" \/ (c.what \in Lists /\ c.do # "clean") => c.pin \in Pins
<1>1. CASE c \in Commands
  BY <1>1 DEF Commands, Lists, Cells
<1>2. CASE c \in Cleanups
  BY <1>2 DEF Cleanups, Commands, Lists, Cells
<1> QED BY <1>1, <1>2

LEMMA EntryShape ==
  ASSUME NEW c \in Commands
  PROVE  /\ Shape([at |-> Entry(c), cmd |-> c, mine |-> 0])
         /\ [at |-> Entry(c), cmd |-> c, mine |-> 0] \in Runs
         /\ Entry(c) # "idle" /\ Entry(c) \notin {"remove", "probe", "unplug", "port", "patch", "select", "unlist", "add"}
         /\ Entry(c) = "register" => c.what = "adc"
         /\ Entry(c) = "send" /\ c.what = "servo" => c.do = "off"
         /\ Entry(c) = "test" => c.what = "cs"
<1>1. /\ c.do \in {"on", "off"} /\ c.what \in Lists \cup Cells \cup {"cs"}
      /\ c.do = "off" => c.what \in Lists \cup {"i2c", "uart"}
  BY CommandFacts
<1>2. Entry(c) \in Labels
  BY <1>1 DEF Entry, Labels
<1>3. 0 \in 0 .. MaxCommands
  BY BoundsAssumption
<1> QED BY <1>1, <1>2, <1>3 DEF Entry, Shape, Runs, Lists, Cells

(* Idle is where no thread has anything to do.                             *)
LEMMA IdleShape == Shape(Idle) /\ Idle \in Runs /\ Idle.at = "idle" /\ NoCommand.do = "on"
<1>1. NoCommand \in Commands
  BY DEF NoCommand, Commands
<1>2. 0 \in 0 .. MaxCommands
  BY BoundsAssumption
<1> QED BY <1>1, <1>2 DEF Idle, NoCommand, Shape, Runs, Labels

RunType == run \in [Threads -> Runs]

(* What GoWith does.                                                       *)
LEMMA GoLemma ==
  ASSUME RunType, NEW t \in Threads, NEW label \in Labels, NEW i \in 0 .. MaxCommands,
         GoWith(t, label, i)
  PROVE  /\ RunType' /\ \A u \in Threads \ {t} : run'[u] = run[u]
         /\ label = "idle" => run'[t] = Idle
         /\ label # "idle" => run'[t].cmd = run[t].cmd /\ run'[t].mine = i
         /\ run'[t].at = label
<1> DEFINE r == IF label = "idle" THEN Idle ELSE [run[t] EXCEPT !.at = label, !.mine = i]
<1>1. run' = [run EXCEPT ![t] = r]
  BY DEF GoWith
<1>2. r \in Runs /\ r.at = label /\ (label # "idle" => r.cmd = run[t].cmd /\ r.mine = i)
  <2>1. CASE label = "idle"
    BY <2>1, IdleShape
  <2>2. CASE label # "idle"
    BY <2>2 DEF RunType, Runs
  <2> QED BY <2>1, <2>2
<1>3. label = "idle" => r = Idle
  OBVIOUS
<1> HIDE DEF r
<1>4. run'[t] = r /\ \A u \in Threads \ {t} : run'[u] = run[u]
  BY <1>1 DEF RunType
<1>5. RunType'
  BY <1>1, <1>2 DEF RunType
<1> QED BY <1>2, <1>3, <1>4, <1>5

-----------------------------------------------------------------------------
(* Types.                                                                  *)

(* The variables' types, by what they describe.                            *)
LifeType == life \in Lives /\ misc \in BOOLEAN /\ base \in BOOLEAN
EntryType ==
  /\ count \in 0 .. MaxCommands
  /\ entry \in [Entries -> [kind : Lists, pin : Pins \cup {0}, range : Values \cup {0}]]
  /\ listed \subseteq 1 .. count /\ exposed \subseteq 1 .. count /\ freed \subseteq 1 .. count
LockType == lock \in [Lists -> Threads \cup {NoThread}]
CellType ==
  /\ registered \subseteq Cells /\ bound \subseteq {"uart", "spi"} /\ selects \subseteq Pins
  /\ children \in [Cells -> Nat]
ToldType == told \in [cells : SUBSET Cells, servo : [Pins -> Values \cup {0}]]
WriteType ==
  fds \subseteq Writers /\ held \subseteq Threads /\ offered \in Mixes /\ commands \in 0 .. MaxCommands
HandlerType ==
  uses \in 0 .. MaxUses /\ handling \in [Handlers -> 0 .. MaxCommands] /\ selfOff \subseteq Handlers
CauseType ==
  /\ causes \subseteq {"writers", "teardown", "probe", "bind", "adc", "lost"}
  /\ wrong \subseteq Lists \cup {"dev", "spi", "uart"}

LEMMA TypeParts ==
  TypeOK <=> /\ LifeType /\ EntryType /\ LockType /\ CellType /\ ToldType /\ RunType
             /\ WriteType /\ HandlerType /\ CauseType
BY DEF TypeOK, LifeType, EntryType, LockType, CellType, ToldType, RunType, Runs, WriteType,
       HandlerType, CauseType

(* A channel that is registered and not yet on its list, and an LED that   *)
(* is on its list and not, or not yet, registered.                         *)
Adding(t) == run[t].at = "add" /\ run[t].cmd.what = "adc"
Registering(t) == run[t].at \in {"register", "unlist"} /\ run[t].cmd.what = "led"

PlaceInv ==
  /\ \A t \in Threads : Shape(run[t])
  /\ \A t \in Writers : run[t].cmd.do # "clean"
  /\ run[Hub].at \in {"idle", "take", "remove"}
  /\ run[Hub].at # "idle" => run[Hub].cmd.do = "clean" /\ life = run[Hub].cmd.what
  /\ \A t \in Writers : Adding(t) \/ Registering(t) => run[t].mine \in 1 .. count

(* The command of the thread may still create an entry.                    *)
CanAdd(t) ==
  \/ run[t].at = "find"
  \/ run[t].at = "add" /\ run[t].cmd.what # "adc"
  \/ run[t].at = "register" /\ run[t].cmd.what = "adc"

Adders == {t \in Writers : CanAdd(t)}

(* A command creates one entry at most.                                    *)
CountInv == count + Cardinality(Adders) <= commands

TypeInv == TypeOK /\ PlaceInv /\ CountInv

LEMMA AddersFinite == IsFiniteSet(Adders) /\ Cardinality(Adders) \in Nat
<1>1. IsFiniteSet(Adders)
  BY ThreadsAssumption, FS_Subset DEF Adders
<1> QED BY <1>1, FS_CardinalityType

(* There is room for what a command creates.                               *)
LEMMA RoomLemma ==
  ASSUME TypeInv, NEW t \in Threads, CanAdd(t)
  PROVE  t \in Adders /\ count \in 0 .. MaxCommands /\ count + 1 \in Entries
<1>1. t \in Adders
  <2>1. t # Hub
    BY DEF CanAdd, TypeInv, PlaceInv
  <2> QED BY <2>1 DEF Adders, Threads
<1>2. Cardinality(Adders) # 0
  BY <1>1, AddersFinite, FS_EmptySet
<1>3. count \in 0 .. MaxCommands /\ commands \in 0 .. MaxCommands /\ MaxCommands \in Nat
  BY TypeParts, BoundsAssumption DEF TypeInv, EntryType, WriteType
<1>4. count + 1 \in Entries
  BY <1>2, <1>3, AddersFinite DEF TypeInv, CountInv, Entries
<1> QED BY <1>1, <1>3, <1>4

(* Steps of the bound on the number of entries.                            *)
LEMMA CountKept ==
  ASSUME TypeInv, Adders' \subseteq Adders, count' = count, commands' = commands
  PROVE  CountInv'
<1>1. IsFiniteSet(Adders') /\ Cardinality(Adders') <= Cardinality(Adders) /\ Cardinality(Adders') \in Nat
  BY AddersFinite, FS_Subset, FS_CardinalityType
<1>2. count \in Nat /\ commands \in Nat /\ Cardinality(Adders) \in Nat
  BY TypeParts, AddersFinite DEF TypeInv, EntryType, WriteType
<1> QED BY <1>1, <1>2 DEF TypeInv, CountInv

LEMMA CountUp ==
  ASSUME TypeInv, NEW t \in Adders, Adders' \subseteq Adders \ {t},
         count' = count + 1, commands' = commands
  PROVE  CountInv'
<1>1. IsFiniteSet(Adders \ {t}) /\ Cardinality(Adders \ {t}) = Cardinality(Adders) - 1
  BY AddersFinite, FS_RemoveElement
<1>2. IsFiniteSet(Adders') /\ Cardinality(Adders') <= Cardinality(Adders) - 1
      /\ Cardinality(Adders') \in Nat
  BY <1>1, FS_Subset, FS_CardinalityType
<1>3. count \in Nat /\ commands \in Nat /\ Cardinality(Adders) \in Nat
  BY TypeParts, AddersFinite DEF TypeInv, EntryType, WriteType
<1> QED BY <1>2, <1>3 DEF TypeInv, CountInv

LEMMA CountWrite ==
  ASSUME TypeInv, NEW t, Adders' \subseteq Adders \cup {t},
         count' = count, commands' = commands + 1
  PROVE  CountInv'
<1>1. /\ IsFiniteSet(Adders \cup {t})
      /\ Cardinality(Adders \cup {t}) = Cardinality(Adders)
         \/ Cardinality(Adders \cup {t}) = Cardinality(Adders) + 1
  BY AddersFinite, FS_AddElement
<1>2. IsFiniteSet(Adders') /\ Cardinality(Adders') <= Cardinality(Adders \cup {t})
      /\ Cardinality(Adders') \in Nat
  BY <1>1, FS_Subset, FS_CardinalityType
<1>3. count \in Nat /\ commands \in Nat /\ Cardinality(Adders) \in Nat
  BY TypeParts, AddersFinite DEF TypeInv, EntryType, WriteType
<1> QED BY <1>1, <1>2, <1>3 DEF TypeInv, CountInv

-----------------------------------------------------------------------------
(* Where each action takes its thread.                                     *)

(* Thread t, in the middle of a command, goes on with it or ends it; no    *)
(* other thread moves.                                                     *)
Went(t) ==
  /\ RunType' /\ \A u \in Threads \ {t} : run'[u] = run[u]
  /\ run[t].at # "idle" /\ Shape(run[t]) /\ Shape(run'[t])
  /\ run'[t].at # "idle" => run'[t].cmd = run[t].cmd
  /\ run[t].cmd.do # "clean" => run'[t].cmd.do # "clean"

LEMMA ThreadFacts ==
  ASSUME TypeInv, NEW t \in Threads
  PROVE  /\ RunType /\ run[t] \in Runs /\ Shape(run[t])
         /\ run[t].at \in Labels /\ run[t].mine \in 0 .. MaxCommands
         /\ run[t].cmd \in Commands \cup Cleanups
         /\ run[t].cmd.what \in Lists \cup Cells \cup {"cs"}
         /\ run[t].cmd.do \in {"on", "off", "clean"}
         /\ t \in Writers => run[t].cmd.do # "clean"
         /\ t # Hub => t \in Writers
         /\ t = Hub => run[t].at \in {"idle", "take", "remove"}
<1>1. run[t] \in Runs /\ RunType
  BY TypeParts DEF TypeInv, RunType
<1>2. run[t].cmd \in Commands \cup Cleanups
  BY <1>1 DEF Runs
<1> QED BY <1>1, <1>2, CommandFacts DEF TypeInv, PlaceInv, Runs, Threads

LEMMA MoveLemma ==
  ASSUME TypeInv, NEW t \in Threads, NEW label \in Labels, NEW i \in 0 .. MaxCommands,
         GoWith(t, label, i), run[t].at # "idle",
         Shape([at |-> label, cmd |-> run[t].cmd, mine |-> i])
  PROVE  /\ Went(t) /\ run'[t].at = label
         /\ label = "idle" => run'[t] = Idle
         /\ label # "idle" => run'[t].cmd = run[t].cmd /\ run'[t].mine = i
<1>1. RunType /\ Shape(run[t])
  BY ThreadFacts
<1>2. /\ RunType' /\ \A u \in Threads \ {t} : run'[u] = run[u]
      /\ label = "idle" => run'[t] = Idle
      /\ label # "idle" => run'[t].cmd = run[t].cmd /\ run'[t].mine = i
      /\ run'[t].at = label
  BY <1>1, GoLemma
<1>3. Shape(run'[t])
  <2>1. CASE label = "idle"
    BY <1>2, <2>1, IdleShape
  <2>2. CASE label # "idle"
    BY <1>2, <2>2 DEF Shape
  <2> QED BY <2>1, <2>2
<1>4. run[t].cmd.do # "clean" => run'[t].cmd.do # "clean"
  BY <1>2, IdleShape DEF Idle
<1> QED BY <1>1, <1>2, <1>3, <1>4 DEF Went

LEMMA GoToLemma ==
  ASSUME TypeInv, NEW t \in Threads, NEW label \in Labels,
         GoTo(t, label), run[t].at # "idle",
         Shape([at |-> label, cmd |-> run[t].cmd, mine |-> run[t].mine])
  PROVE  /\ Went(t) /\ run'[t].at = label
         /\ label = "idle" => run'[t] = Idle
         /\ label # "idle" => run'[t].cmd = run[t].cmd /\ run'[t].mine = run[t].mine
BY MoveLemma, ThreadFacts DEF GoTo

LEMMA FindMoves ==
  ASSUME TypeInv, NEW t \in Threads, Find(t)
  PROVE  /\ Went(t) /\ run[t].at = "find"
         /\ \/ run'[t].at = "add" /\ Matches(t) = {}
            \/ run'[t] = Idle
            \/ run'[t].at = "send" /\ run[t].cmd.what = "servo"
         /\ run'[t].at # "idle" => run'[t].mine = 0
<1> DEFINE label == IF Matches(t) = {} THEN "add"
                    ELSE IF run[t].cmd.what = "led" THEN "idle" ELSE "send"
<1>1. GoTo(t, label) /\ run[t].at = "find" /\ run[t].mine = 0 /\ run[t].cmd.do = "on"
      /\ run[t].cmd.what \in {"led", "servo"}
  BY ThreadFacts DEF Find, Shape
<1>2. /\ \/ label = "add" /\ Matches(t) = {}
         \/ label = "idle"
         \/ label = "send" /\ run[t].cmd.what = "servo"
      /\ label \in Labels
  <2>1. CASE Matches(t) = {}
    BY <2>1 DEF Labels
  <2>2. CASE Matches(t) # {}
    BY <1>1, <2>2 DEF Labels
  <2> QED BY <2>1, <2>2
<1> HIDE DEF label
<1>3. Shape([at |-> label, cmd |-> run[t].cmd, mine |-> run[t].mine])
  BY <1>1, <1>2 DEF Shape, Lists
<1> QED BY <1>1, <1>2, <1>3, GoToLemma

LEMMA AddLedMoves ==
  ASSUME TypeInv, NEW t \in Threads, AddLed(t)
  PROVE  /\ Went(t) /\ run[t].at = "add" /\ run[t].cmd.what = "led" /\ t \in Adders
         /\ count + 1 \in Entries /\ count \in 0 .. MaxCommands
         /\ run'[t].at = "register" /\ run'[t].mine = count + 1
<1>1. GoWith(t, "register", count + 1) /\ run[t].at = "add" /\ run[t].cmd.what = "led"
      /\ CanAdd(t) /\ run[t].cmd.do = "on"
  BY ThreadFacts DEF AddLed, At, New, CanAdd, Shape
<1>2. count + 1 \in Entries /\ count \in 0 .. MaxCommands /\ count + 1 \in 0 .. MaxCommands
      /\ t \in Adders
  BY <1>1, RoomLemma, BoundsAssumption DEF Entries
<1>3. Shape([at |-> "register", cmd |-> run[t].cmd, mine |-> count + 1]) /\ "register" \in Labels
  BY <1>1 DEF Shape, Labels
<1> QED BY <1>1, <1>2, <1>3, MoveLemma

LEMMA RegisterLedMoves ==
  ASSUME TypeInv, NEW t \in Threads, RegisterLed(t)
  PROVE  /\ Went(t) /\ run[t].at = "register" /\ run[t].cmd.what = "led"
         /\ run'[t].mine = run[t].mine
         /\ \/ run'[t].at = "send" /\ exposed' = exposed \cup {run[t].mine}
            \/ run'[t].at = "unlist" /\ exposed' = exposed
<1>1. run[t].at = "register" /\ run[t].cmd.what = "led" /\ run[t].cmd.do = "on"
  BY ThreadFacts DEF RegisterLed, At, Shape
<1>2. CASE exposed' = exposed \cup {run[t].mine} /\ GoTo(t, "send")
  <2>1. Shape([at |-> "send", cmd |-> run[t].cmd, mine |-> run[t].mine]) /\ "send" \in Labels
    BY <1>1 DEF Shape, Labels
  <2> QED BY <1>1, <1>2, <2>1, GoToLemma
<1>3. CASE exposed' = exposed /\ GoTo(t, "unlist")
  <2>1. Shape([at |-> "unlist", cmd |-> run[t].cmd, mine |-> run[t].mine]) /\ "unlist" \in Labels
    BY <1>1 DEF Shape, Labels
  <2> QED BY <1>1, <1>3, <2>1, GoToLemma
<1> QED BY <1>2, <1>3 DEF RegisterLed

(* Nothing keeps a thread from ending its command.                         *)
LEMMA EndLemma ==
  ASSUME TypeInv, NEW t \in Threads, GoTo(t, "idle"), run[t].at # "idle"
  PROVE  Went(t) /\ run'[t] = Idle
<1>1. Shape([at |-> "idle", cmd |-> run[t].cmd, mine |-> run[t].mine]) /\ "idle" \in Labels
  BY DEF Shape, Labels
<1> QED BY <1>1, GoToLemma

LEMMA UnlistLedMoves ==
  ASSUME TypeInv, NEW t \in Threads, UnlistLed(t)
  PROVE  Went(t) /\ run[t].at = "unlist" /\ run[t].cmd.what = "led" /\ run'[t] = Idle
<1>1. run[t].at = "unlist" /\ run[t].cmd.what = "led" /\ GoTo(t, "idle")
  BY ThreadFacts DEF UnlistLed, Shape
<1> QED BY <1>1, EndLemma

LEMMA SendLedMoves ==
  ASSUME TypeInv, NEW t \in Threads, SendLed(t)
  PROVE  Went(t) /\ run[t].at = "send" /\ run[t].cmd.what = "led" /\ run'[t] = Idle
BY EndLemma DEF SendLed, At

LEMMA ConfigServoMoves ==
  ASSUME TypeInv, NEW t \in Threads, ConfigServo(t)
  PROVE  /\ Went(t) /\ run[t].at = "add" /\ run[t].cmd.what = "servo" /\ run[t].cmd.do = "on"
         /\ t \in Adders /\ count + 1 \in Entries /\ count \in 0 .. MaxCommands
         /\ \/ /\ run'[t].at = "send" /\ run'[t].mine \in Matches(t)
               /\ entry' = [entry EXCEPT ![run'[t].mine].range = run[t].cmd.val]
               /\ UNCHANGED <<count, listed, exposed>>
            \/ /\ Matches(t) = {} /\ run'[t].at = "send" /\ run'[t].mine = count + 1
               /\ count' = count + 1
               /\ entry' = [entry EXCEPT ![count + 1] =
                     [kind |-> "servo", pin |-> run[t].cmd.pin, range |-> run[t].cmd.val]]
               /\ listed' = listed \cup {count + 1} /\ exposed' = exposed \cup {count + 1}
            \/ run'[t] = Idle /\ UNCHANGED <<count, entry, listed, exposed>>
<1>1. run[t].at = "add" /\ run[t].cmd.what = "servo" /\ CanAdd(t) /\ run[t].cmd.do = "on"
  BY ThreadFacts DEF ConfigServo, At, CanAdd, Shape
<1>2. count + 1 \in Entries /\ count \in 0 .. MaxCommands /\ count + 1 \in 0 .. MaxCommands
      /\ t \in Adders
  BY <1>1, RoomLemma, BoundsAssumption DEF Entries
<1>3. ASSUME NEW i \in 0 .. MaxCommands, GoWith(t, "send", i)
      PROVE  Went(t) /\ run'[t].at = "send" /\ run'[t].mine = i
  <2>1. Shape([at |-> "send", cmd |-> run[t].cmd, mine |-> i]) /\ "send" \in Labels
    BY <1>1 DEF Shape, Labels
  <2> QED BY <1>1, <1>3, <2>1, MoveLemma
<1>4. CASE /\ Matches(t) # {}
           /\ LET i == CHOOSE j \in Matches(t) : TRUE
              IN  entry' = [entry EXCEPT ![i].range = run[t].cmd.val] /\ GoWith(t, "send", i)
           /\ UNCHANGED <<count, listed, exposed>>
  <2> DEFINE i == CHOOSE j \in Matches(t) : TRUE
  <2>1. i \in Matches(t) /\ entry' = [entry EXCEPT ![i].range = run[t].cmd.val] /\ GoWith(t, "send", i)
    BY <1>4
  <2> HIDE DEF i
  <2>2. i \in 0 .. MaxCommands
    BY <2>1, TypeParts, BoundsAssumption DEF TypeInv, EntryType, Matches
  <2>3. Went(t) /\ run'[t].at = "send" /\ run'[t].mine = i
    BY <1>3, <2>1, <2>2
  <2> QED BY <1>1, <1>2, <1>4, <2>1, <2>3
<1>5. CASE /\ Matches(t) = {}
           /\ New(t, run[t].cmd.val, "send")
           /\ listed' = listed \cup {count + 1} /\ exposed' = exposed \cup {count + 1}
  <2>1. Went(t) /\ run'[t].at = "send" /\ run'[t].mine = count + 1
    BY <1>2, <1>3, <1>5 DEF New
  <2> QED BY <1>1, <1>2, <1>5, <2>1 DEF New
<1>6. CASE GoTo(t, "idle") /\ UNCHANGED <<count, entry, listed, exposed>>
  <2>1. Went(t) /\ run'[t] = Idle
    BY <1>1, <1>6, EndLemma
  <2> QED BY <1>1, <1>2, <1>6, <2>1
<1> QED BY <1>4, <1>5, <1>6 DEF ConfigServo

LEMMA SendServoMoves ==
  ASSUME TypeInv, NEW t \in Threads, SendServo(t)
  PROVE  /\ Went(t) /\ run[t].at = "send" /\ run[t].cmd.what = "servo" /\ run[t].cmd.do = "on"
         /\ run'[t] = Idle
BY EndLemma DEF SendServo, At

LEMMA SendServoOffMoves ==
  ASSUME TypeInv, NEW t \in Threads, SendServoOff(t)
  PROVE  /\ Went(t) /\ run[t].at = "send" /\ run[t].cmd.what = "servo" /\ run[t].cmd.do = "off"
         /\ run'[t].at = "take"
<1>1. run[t].at = "send" /\ run[t].cmd.what = "servo" /\ run[t].cmd.do = "off" /\ GoTo(t, "take")
  BY DEF SendServoOff, At
<1>2. Shape([at |-> "take", cmd |-> run[t].cmd, mine |-> run[t].mine]) /\ "take" \in Labels
  BY <1>1 DEF Shape, Labels, Lists
<1> QED BY <1>1, <1>2, GoToLemma

LEMMA RegisterAdcMoves ==
  ASSUME TypeInv, NEW t \in Threads, RegisterAdc(t)
  PROVE  /\ Went(t) /\ run[t].at = "register" /\ run[t].cmd.what = "adc"
         /\ t \in Adders /\ count + 1 \in Entries /\ count \in 0 .. MaxCommands
         /\ \/ /\ run'[t].at = "add" /\ run'[t].mine = count + 1
               /\ count' = count + 1
               /\ entry' = [entry EXCEPT ![count + 1] =
                     [kind |-> "adc", pin |-> run[t].cmd.pin, range |-> 0]]
               /\ exposed' = exposed \cup {count + 1}
            \/ run'[t] = Idle /\ UNCHANGED <<count, entry, exposed>>
<1>1. run[t].at = "register" /\ run[t].cmd.what = "adc" /\ CanAdd(t) /\ run[t].cmd.do = "on"
  BY ThreadFacts DEF RegisterAdc, At, CanAdd, Shape
<1>2. count + 1 \in Entries /\ count \in 0 .. MaxCommands /\ count + 1 \in 0 .. MaxCommands
      /\ t \in Adders
  BY <1>1, RoomLemma, BoundsAssumption DEF Entries
<1>3. CASE New(t, 0, "add") /\ exposed' = exposed \cup {count + 1}
  <2>1. Shape([at |-> "add", cmd |-> run[t].cmd, mine |-> count + 1]) /\ "add" \in Labels
    BY <1>1 DEF Shape, Labels, Lists
  <2>2. Went(t) /\ run'[t].at = "add" /\ run'[t].mine = count + 1
    BY <1>1, <1>2, <1>3, <2>1, MoveLemma DEF New
  <2> QED BY <1>1, <1>2, <1>3, <2>2 DEF New
<1>4. CASE GoTo(t, "idle") /\ UNCHANGED <<count, entry, exposed>>
  <2>1. Went(t) /\ run'[t] = Idle
    BY <1>1, <1>4, EndLemma
  <2> QED BY <1>1, <1>2, <1>4, <2>1
<1> QED BY <1>3, <1>4 DEF RegisterAdc

LEMMA AddAdcMoves ==
  ASSUME TypeInv, NEW t \in Threads, AddAdc(t)
  PROVE  Went(t) /\ t \in Writers /\ Adding(t) /\ run'[t] = Idle
<1>1. run[t].at = "add" /\ run[t].cmd.what = "adc" /\ GoTo(t, "idle")
  BY DEF AddAdc, At
<1>2. t \in Writers
  BY <1>1, ThreadFacts
<1> QED BY <1>1, <1>2, EndLemma DEF Adding

LEMMA TakeMoves ==
  ASSUME TypeInv, NEW t \in Threads, Take(t)
  PROVE  /\ Went(t) /\ run[t].at = "take" /\ run[t].cmd.what \in Lists
         /\ run'[t].at = "remove"
<1>1. run[t].at = "take" /\ run[t].cmd.do # "on" /\ run[t].cmd.what \in Lists /\ GoTo(t, "remove")
  BY ThreadFacts DEF Take, Shape
<1>2. Shape([at |-> "remove", cmd |-> run[t].cmd, mine |-> run[t].mine]) /\ "remove" \in Labels
  BY <1>1 DEF Shape, Labels
<1> QED BY <1>1, <1>2, GoToLemma

LEMMA RemoveMoves ==
  ASSUME TypeInv, NEW t \in Threads, NEW i \in Entries, Remove(t, i)
  PROVE  /\ Went(t) /\ run[t].at = "remove" /\ run[t].cmd.what \in Lists
         /\ \/ run'[t] = run[t]
            \/ run[t].cmd.what = "led" /\ run[t].cmd.do = "off" /\ run'[t] = Idle
<1>1. run[t].at = "remove" /\ run[t].cmd.what \in Lists
  BY ThreadFacts DEF Remove, Shape
<1>2. CASE run[t].cmd.what = "led" /\ run[t].cmd.do = "off" /\ GoTo(t, "idle")
  BY <1>1, <1>2, EndLemma
<1>3. CASE UNCHANGED run
  <2>1. RunType /\ Shape(run[t])
    BY ThreadFacts
  <2>2. run'[t] = run[t] /\ \A u \in Threads \ {t} : run'[u] = run[u]
    BY <1>3
  <2>3. RunType' /\ Shape(run'[t])
    BY <1>3, <2>1, <2>2 DEF RunType
  <2> QED BY <1>1, <2>1, <2>2, <2>3 DEF Went
<1> QED BY <1>2, <1>3 DEF Remove

LEMMA ReleaseMoves ==
  ASSUME TypeInv, NEW t \in Threads, Release(t)
  PROVE  /\ Went(t) /\ run[t].at = "remove" /\ run[t].cmd.what \in Lists /\ Matches(t) = {}
         /\ run'[t] = Idle
<1>1. run[t].at = "remove" /\ run[t].cmd.what \in Lists
  BY ThreadFacts DEF Release, Shape
<1> QED BY <1>1, EndLemma DEF Release

LEMMA SendCellMoves ==
  ASSUME TypeInv, NEW t \in Threads, SendCell(t)
  PROVE  /\ Went(t) /\ run[t].at = "send" /\ run[t].cmd.what \in Cells
         /\ run'[t].at = "test"
<1>1. run[t].at = "send" /\ run[t].cmd.what \in Cells /\ GoTo(t, "test")
  BY DEF SendCell
<1>2. Shape([at |-> "test", cmd |-> run[t].cmd, mine |-> run[t].mine]) /\ "test" \in Labels
  BY <1>1 DEF Shape, Labels
<1> QED BY <1>1, <1>2, GoToLemma

(* Where the handling of a flag leads.                                     *)
LEMMA AfterMoves ==
  ASSUME TypeInv, NEW t \in Threads, GoTo(t, Onward(run[t].cmd)), run[t].at # "idle"
  PROVE  Went(t) /\ (run'[t] = Idle \/ run'[t].at = "port")
<1>1. CASE run[t].cmd.do = "on" /\ run[t].cmd.what = "uart"
  <2>1. Shape([at |-> "port", cmd |-> run[t].cmd, mine |-> run[t].mine]) /\ "port" \in Labels
    BY <1>1 DEF Shape, Labels
  <2>2. GoTo(t, "port")
    BY <1>1 DEF Onward
  <2> QED BY <2>1, <2>2, GoToLemma
<1>2. CASE ~(run[t].cmd.do = "on" /\ run[t].cmd.what = "uart")
  <2>1. GoTo(t, "idle")
    BY <1>2 DEF Onward
  <2> QED BY <2>1, EndLemma
<1> QED BY <1>1, <1>2

LEMMA TestMoves ==
  ASSUME TypeInv, NEW t \in Threads, Test(t)
  PROVE  /\ Went(t) /\ t \in Writers /\ run[t].at = "test" /\ run[t].cmd.what \in Cells
         /\ \/ /\ run'[t] = Idle \/ run'[t].at = "port"
               /\ (run[t].cmd.do = "on") = (run[t].cmd.what \in registered)
            \/ /\ run'[t].at = "probe" /\ run[t].cmd.do = "on"
               /\ run[t].cmd.what \notin registered
            \/ /\ run'[t].at = "unplug" /\ run[t].cmd.do = "off"
               /\ run[t].cmd.what \in registered
<1>1. run[t].at = "test" /\ run[t].cmd.what \in Cells /\ t \in Writers
      /\ run[t].cmd.do \in {"on", "off"} /\ (run[t].cmd.do = "off" => run[t].cmd.what \in {"i2c", "uart"})
  <2>1. run[t].at = "test" /\ run[t].cmd.what \in Cells
    BY DEF Test
  <2>2. t \in Writers
    BY <2>1, ThreadFacts
  <2>3. run[t].cmd \in Commands \cup Cleanups
    BY ThreadFacts
  <2> QED BY <2>1, <2>2, <2>3, ThreadFacts, CommandFacts DEF Cells, Lists
<1>2. CASE (run[t].cmd.do = "on") = (run[t].cmd.what \in registered)
  <2>1. GoTo(t, Onward(run[t].cmd))
    BY <1>2 DEF Test
  <2> QED BY <1>1, <1>2, <2>1, AfterMoves
<1>3. CASE run[t].cmd.do = "on" /\ run[t].cmd.what \notin registered
  <2>1. GoTo(t, "probe")
    BY <1>3 DEF Test
  <2>2. Shape([at |-> "probe", cmd |-> run[t].cmd, mine |-> run[t].mine]) /\ "probe" \in Labels
    BY <1>1, <1>3 DEF Shape, Labels
  <2> QED BY <1>1, <1>3, <2>1, <2>2, GoToLemma
<1>4. CASE run[t].cmd.do # "on" /\ run[t].cmd.what \in registered
  <2>1. GoTo(t, "unplug")
    BY <1>4 DEF Test
  <2>2. Shape([at |-> "unplug", cmd |-> run[t].cmd, mine |-> run[t].mine]) /\ "unplug" \in Labels
    BY <1>1, <1>4 DEF Shape, Labels
  <2> QED BY <1>1, <1>4, <2>1, <2>2, GoToLemma
<1> QED BY <1>2, <1>3, <1>4

LEMMA ProbeMoves ==
  ASSUME TypeInv, NEW t \in Threads, Probe(t)
  PROVE  /\ Went(t) /\ t \in Writers /\ run[t].at = "probe" /\ run[t].cmd.what \in Cells
         /\ run[t].cmd.do = "on" /\ (run'[t] = Idle \/ run'[t].at = "port")
<1>1. run[t].at = "probe" /\ run[t].cmd.what \in Cells /\ run[t].cmd.do = "on"
  BY ThreadFacts DEF Probe, Shape
<1>2. t \in Writers
  BY <1>1, ThreadFacts
<1> QED BY <1>1, <1>2, AfterMoves DEF Probe

LEMMA UnplugMoves ==
  ASSUME TypeInv, NEW t \in Threads, Unplug(t)
  PROVE  /\ Went(t) /\ t \in Writers /\ run[t].at = "unplug" /\ run[t].cmd.what \in {"i2c", "uart"}
         /\ run[t].cmd.do = "off" /\ run'[t] = Idle
<1>1. run[t].at = "unplug" /\ run[t].cmd.what \in {"i2c", "uart"} /\ run[t].cmd.do = "off"
  BY ThreadFacts DEF Unplug, Shape
<1>2. t \in Writers
  BY <1>1, ThreadFacts
<1> QED BY <1>1, <1>2, EndLemma DEF Unplug

LEMMA PortMoves ==
  ASSUME TypeInv, NEW t \in Threads, Port(t)
  PROVE  /\ Went(t) /\ t \in Writers /\ run[t].at = "port"
         /\ run'[t] = Idle \/ (run'[t].at = "patch" /\ t \in held')
<1>1. run[t].at = "port" /\ run[t].cmd.what = "uart" /\ run[t].cmd.do = "on" /\ t \in Writers
  <2>1. run[t].at = "port"
    BY DEF Port
  <2>2. Shape(run[t]) /\ (t = Hub => run[t].at \in {"idle", "take", "remove"}) /\ (t # Hub => t \in Writers)
    BY ThreadFacts
  <2> QED BY <2>1, <2>2 DEF Shape
<1>2. CASE "uart" \in bound
  <2>1. GoTo(t, "patch") /\ t \in held'
    BY <1>2 DEF Port
  <2>2. Shape([at |-> "patch", cmd |-> run[t].cmd, mine |-> run[t].mine]) /\ "patch" \in Labels
    BY <1>1 DEF Shape, Labels
  <2> QED BY <1>1, <2>1, <2>2, GoToLemma
<1>3. CASE "uart" \notin bound
  <2>1. GoTo(t, "idle")
    BY <1>3 DEF Port
  <2> QED BY <1>1, <2>1, EndLemma
<1> QED BY <1>2, <1>3

LEMMA PatchMoves ==
  ASSUME TypeInv, NEW t \in Threads, Patch(t)
  PROVE  Went(t) /\ t \in Writers /\ run[t].at = "patch" /\ run'[t] = Idle
<1>1. run[t].at = "patch" /\ t \in Writers
  BY ThreadFacts DEF Patch
<1> QED BY <1>1, EndLemma DEF Patch

LEMMA TestSelectMoves ==
  ASSUME TypeInv, NEW t \in Threads, TestSelect(t)
  PROVE  /\ Went(t) /\ run[t].at = "test" /\ run[t].cmd.what = "cs"
         /\ \/ run'[t] = Idle
            \/ run'[t].at = "select" /\ "spi" \in registered
<1>1. run[t].at = "test" /\ run[t].cmd.what = "cs"
  BY DEF TestSelect, At
<1>2. CASE "spi" \in registered
  <2>1. GoTo(t, "select")
    BY <1>2 DEF TestSelect
  <2>2. Shape([at |-> "select", cmd |-> run[t].cmd, mine |-> run[t].mine]) /\ "select" \in Labels
    BY <1>1 DEF Shape, Labels
  <2> QED BY <1>1, <1>2, <2>1, <2>2, GoToLemma
<1>3. CASE "spi" \notin registered
  <2>1. GoTo(t, "idle")
    BY <1>3 DEF TestSelect
  <2>2. Went(t) /\ run'[t] = Idle
    BY <1>1, <2>1, EndLemma
  <2> QED BY <1>1, <2>2
<1> QED BY <1>2, <1>3

LEMMA SelectMoves ==
  ASSUME TypeInv, NEW t \in Threads, Select(t)
  PROVE  /\ Went(t) /\ t \in Writers /\ run[t].at = "select" /\ run[t].cmd.what = "cs"
         /\ run'[t] = Idle
<1>1. run[t].at = "select" /\ run[t].cmd.what = "cs"
  BY DEF Select, At
<1>2. t \in Writers
  BY <1>1, ThreadFacts
<1> QED BY <1>1, <1>2, EndLemma DEF Select

-----------------------------------------------------------------------------
(* What an action does to the entries.                                     *)

KeepsKinds ==
  \A i \in 1 .. count : entry'[i].kind = entry[i].kind /\ entry'[i].pin = entry[i].pin

(* The thread creates an entry only if it could, and then cannot any more. *)
CountStep(t) ==
  \/ count' = count /\ (CanAdd(t)' => CanAdd(t))
  \/ count' = count + 1 /\ t \in Adders /\ ~CanAdd(t)'

Placed(t) == (Adding(t) \/ Registering(t))' => run'[t].mine \in 1 .. count'

EntryStep(t) == Went(t) /\ EntryType' /\ KeepsKinds /\ CountStep(t) /\ Placed(t)

LEMMA NewLemma ==
  ASSUME EntryType, count + 1 \in Entries,
         NEW e \in [kind : Lists, pin : Pins \cup {0}, range : Values \cup {0}],
         count' = count + 1, entry' = [entry EXCEPT ![count + 1] = e]
  PROVE  /\ entry' \in [Entries -> [kind : Lists, pin : Pins \cup {0}, range : Values \cup {0}]]
         /\ entry'[count + 1] = e /\ \A i \in 1 .. count : entry'[i] = entry[i]
         /\ count' \in 0 .. MaxCommands /\ 1 .. count' = (1 .. count) \cup {count + 1}
         /\ count + 1 \notin 1 .. count /\ KeepsKinds
<1>1. count \in 0 .. MaxCommands /\ MaxCommands \in Nat /\ count + 1 <= MaxCommands
  BY BoundsAssumption DEF EntryType, Entries
<1>2. count' \in 0 .. MaxCommands /\ 1 .. count' = (1 .. count) \cup {count + 1}
      /\ count + 1 \notin 1 .. count
  BY <1>1
<1>3. entry \in [Entries -> [kind : Lists, pin : Pins \cup {0}, range : Values \cup {0}]]
  BY DEF EntryType
<1>4. 1 .. count \subseteq Entries
  BY <1>1 DEF Entries
<1>5. entry'[count + 1] = e /\ \A i \in 1 .. count : entry'[i] = entry[i]
  BY <1>1, <1>2, <1>3, <1>4
<1>6. entry' \in [Entries -> [kind : Lists, pin : Pins \cup {0}, range : Values \cup {0}]]
  BY <1>3
<1> QED BY <1>2, <1>5, <1>6 DEF KeepsKinds

LEMMA SameEntries ==
  ASSUME TypeInv, NEW t \in Threads, Went(t), UNCHANGED <<count, entry>>,
         listed' \subseteq 1 .. count, exposed' \subseteq 1 .. count, freed' \subseteq 1 .. count,
         CanAdd(t)' => CanAdd(t), Placed(t)
  PROVE  EntryStep(t)
<1>1. EntryType
  BY TypeParts DEF TypeInv
<1>2. EntryType'
  BY <1>1 DEF EntryType
<1> QED BY <1>2 DEF EntryStep, KeepsKinds, CountStep

LEMMA AddLedEntries == ASSUME TypeInv, NEW t \in Threads, AddLed(t) PROVE EntryStep(t)
<1>1. /\ Went(t) /\ run[t].at = "add" /\ run[t].cmd.what = "led" /\ t \in Adders
      /\ count + 1 \in Entries /\ count \in 0 .. MaxCommands
      /\ run'[t].at = "register" /\ run'[t].mine = count + 1
  BY AddLedMoves
<1>2. EntryType /\ run[t].cmd \in Commands \cup Cleanups
  BY TypeParts, ThreadFacts DEF TypeInv
<1> DEFINE e == [kind |-> "led", pin |-> run[t].cmd.pin, range |-> 0]
<1>3. e \in [kind : Lists, pin : Pins \cup {0}, range : Values \cup {0}]
  BY <1>2, CommandFacts DEF Lists
<1>4. /\ count' = count + 1 /\ entry' = [entry EXCEPT ![count + 1] = e]
      /\ listed' = listed \cup {count + 1} /\ exposed' = exposed /\ freed' = freed
  BY <1>1 DEF AddLed, New
<1> HIDE DEF e
<1>5. /\ entry' \in [Entries -> [kind : Lists, pin : Pins \cup {0}, range : Values \cup {0}]]
      /\ count' \in 0 .. MaxCommands /\ 1 .. count' = (1 .. count) \cup {count + 1} /\ KeepsKinds
  BY <1>1, <1>2, <1>3, <1>4, NewLemma
<1>6. EntryType'
  BY <1>2, <1>4, <1>5 DEF EntryType
<1>7. CountStep(t)
  BY <1>1, <1>4 DEF CountStep, CanAdd, Went
<1>8. Placed(t)
  BY <1>1, <1>5 DEF Placed
<1> QED BY <1>1, <1>5, <1>6, <1>7, <1>8 DEF EntryStep

LEMMA ConfigServoEntries == ASSUME TypeInv, NEW t \in Threads, ConfigServo(t) PROVE EntryStep(t)
<1>1. EntryType /\ run[t].cmd \in Commands \cup Cleanups /\ listed \subseteq 1 .. count
  BY TypeParts, ThreadFacts DEF TypeInv, EntryType
<1>2. /\ Went(t) /\ run[t].at = "add" /\ run[t].cmd.what = "servo" /\ run[t].cmd.do = "on"
      /\ t \in Adders /\ count + 1 \in Entries /\ count \in 0 .. MaxCommands /\ freed' = freed
  BY ConfigServoMoves DEF ConfigServo
<1>3. run[t].cmd.val \in Values /\ run[t].cmd.pin \in Pins
  BY <1>1, <1>2, CommandFacts DEF Lists
<1>4. CanAdd(t)
  BY <1>2 DEF CanAdd
<1>5. CASE /\ run'[t].at = "send" /\ run'[t].mine \in Matches(t)
           /\ entry' = [entry EXCEPT ![run'[t].mine].range = run[t].cmd.val]
           /\ UNCHANGED <<count, listed, exposed>>
  <2>1. PICK i \in 1 .. count : entry' = [entry EXCEPT ![i].range = run[t].cmd.val]
    BY <1>1, <1>5 DEF Matches
  <2>2. i \in Entries /\ \A j \in 1 .. count : j \in Entries
    BY <1>1, <2>1, BoundsAssumption DEF EntryType, Entries
  <2>3. /\ entry' \in [Entries -> [kind : Lists, pin : Pins \cup {0}, range : Values \cup {0}]]
        /\ KeepsKinds
    BY <1>1, <1>3, <2>1, <2>2 DEF EntryType, KeepsKinds
  <2>4. EntryType'
    BY <1>1, <1>2, <1>5, <2>3 DEF EntryType
  <2>5. Placed(t)
    BY <1>5 DEF Placed, Adding, Registering
  <2> QED BY <1>2, <1>4, <1>5, <2>3, <2>4, <2>5 DEF EntryStep, CountStep
<1>6. CASE /\ Matches(t) = {} /\ run'[t].at = "send" /\ run'[t].mine = count + 1
           /\ count' = count + 1
           /\ entry' = [entry EXCEPT ![count + 1] =
                 [kind |-> "servo", pin |-> run[t].cmd.pin, range |-> run[t].cmd.val]]
           /\ listed' = listed \cup {count + 1} /\ exposed' = exposed \cup {count + 1}
  <2> DEFINE e == [kind |-> "servo", pin |-> run[t].cmd.pin, range |-> run[t].cmd.val]
  <2>1. e \in [kind : Lists, pin : Pins \cup {0}, range : Values \cup {0}]
    BY <1>3 DEF Lists
  <2>2. count' = count + 1 /\ entry' = [entry EXCEPT ![count + 1] = e]
    BY <1>6
  <2> HIDE DEF e
  <2>3. /\ entry' \in [Entries -> [kind : Lists, pin : Pins \cup {0}, range : Values \cup {0}]]
        /\ count' \in 0 .. MaxCommands /\ 1 .. count' = (1 .. count) \cup {count + 1} /\ KeepsKinds
    BY <1>1, <1>2, <2>1, <2>2, NewLemma
  <2>4. EntryType'
    BY <1>1, <1>2, <1>6, <2>3 DEF EntryType
  <2>5. Placed(t) /\ ~CanAdd(t)'
    BY <1>6 DEF Placed, Adding, Registering, CanAdd
  <2> QED BY <1>2, <1>6, <2>3, <2>4, <2>5 DEF EntryStep, CountStep
<1>7. CASE run'[t] = Idle /\ UNCHANGED <<count, entry, listed, exposed>>
  <2>1. Placed(t)
    BY <1>7, IdleShape DEF Placed, Adding, Registering
  <2> QED BY <1>1, <1>2, <1>4, <1>7, <2>1, SameEntries DEF EntryType
<1> QED BY <1>5, <1>6, <1>7, ConfigServoMoves

LEMMA RegisterAdcEntries == ASSUME TypeInv, NEW t \in Threads, RegisterAdc(t) PROVE EntryStep(t)
<1>1. EntryType /\ run[t].cmd \in Commands \cup Cleanups
  BY TypeParts, ThreadFacts DEF TypeInv
<1>2. /\ Went(t) /\ run[t].at = "register" /\ run[t].cmd.what = "adc"
      /\ t \in Adders /\ count + 1 \in Entries /\ count \in 0 .. MaxCommands
      /\ freed' = freed /\ listed' = listed
  BY RegisterAdcMoves DEF RegisterAdc
<1>3. CASE /\ run'[t].at = "add" /\ run'[t].mine = count + 1
           /\ count' = count + 1
           /\ entry' = [entry EXCEPT ![count + 1] = [kind |-> "adc", pin |-> run[t].cmd.pin, range |-> 0]]
           /\ exposed' = exposed \cup {count + 1}
  <2> DEFINE e == [kind |-> "adc", pin |-> run[t].cmd.pin, range |-> 0]
  <2>1. e \in [kind : Lists, pin : Pins \cup {0}, range : Values \cup {0}]
    BY <1>1, CommandFacts DEF Lists
  <2>2. count' = count + 1 /\ entry' = [entry EXCEPT ![count + 1] = e]
    BY <1>3
  <2> HIDE DEF e
  <2>3. /\ entry' \in [Entries -> [kind : Lists, pin : Pins \cup {0}, range : Values \cup {0}]]
        /\ count' \in 0 .. MaxCommands /\ 1 .. count' = (1 .. count) \cup {count + 1} /\ KeepsKinds
    BY <1>1, <1>2, <2>1, <2>2, NewLemma
  <2>4. EntryType'
    BY <1>1, <1>2, <1>3, <2>3 DEF EntryType
  <2>5. run'[t].cmd = run[t].cmd
    BY <1>2, <1>3 DEF Went
  <2>6. Placed(t) /\ ~CanAdd(t)'
    BY <1>2, <1>3, <2>3, <2>5 DEF Placed, CanAdd
  <2> QED BY <1>2, <1>3, <2>3, <2>4, <2>6 DEF EntryStep, CountStep
<1>4. CASE run'[t] = Idle /\ UNCHANGED <<count, entry, exposed>>
  <2>1. Placed(t) /\ ~CanAdd(t)'
    BY <1>4, IdleShape DEF Placed, Adding, Registering, CanAdd
  <2> QED BY <1>1, <1>2, <1>4, <2>1, SameEntries DEF EntryType
<1> QED BY <1>3, <1>4, RegisterAdcMoves

(* A command that ended creates nothing.                                   *)
LEMMA IdlePlaced ==
  ASSUME NEW t, run'[t] = Idle
  PROVE  Placed(t) /\ ~CanAdd(t)' /\ ~Adding(t)' /\ ~Registering(t)'
BY IdleShape DEF Placed, Adding, Registering, CanAdd

LEMMA RegisterLedEntries == ASSUME TypeInv, NEW t \in Threads, RegisterLed(t) PROVE EntryStep(t)
<1>1. EntryType /\ (t # Hub => t \in Writers)
  BY TypeParts, ThreadFacts DEF TypeInv
<1>2. /\ Went(t) /\ run[t].at = "register" /\ run[t].cmd.what = "led"
      /\ run'[t].at \in {"send", "unlist"} /\ run'[t].mine = run[t].mine
      /\ exposed' \in {exposed, exposed \cup {run[t].mine}}
      /\ UNCHANGED <<count, entry, listed, freed>>
  BY RegisterLedMoves DEF RegisterLed
<1>3. Registering(t) /\ t \in Writers
  BY <1>1, <1>2, ThreadFacts DEF Registering
<1>4. run[t].mine \in 1 .. count
  BY <1>3 DEF TypeInv, PlaceInv
<1>5. Placed(t) /\ ~CanAdd(t)'
  BY <1>2, <1>4 DEF Placed, CanAdd
<1> QED BY <1>1, <1>2, <1>4, <1>5, SameEntries DEF EntryType

LEMMA UnlistLedEntries == ASSUME TypeInv, NEW t \in Threads, UnlistLed(t) PROVE EntryStep(t)
<1>1. EntryType /\ (t # Hub => t \in Writers)
  BY TypeParts, ThreadFacts DEF TypeInv
<1>2. /\ Went(t) /\ run[t].at = "unlist" /\ run[t].cmd.what = "led" /\ run'[t] = Idle
      /\ UNCHANGED <<count, entry, exposed>>
      /\ listed' = listed \ {run[t].mine} /\ freed' = freed \cup {run[t].mine}
  BY UnlistLedMoves DEF UnlistLed
<1>3. Registering(t) /\ t \in Writers
  BY <1>1, <1>2, ThreadFacts DEF Registering
<1>4. run[t].mine \in 1 .. count
  BY <1>3 DEF TypeInv, PlaceInv
<1> QED BY <1>1, <1>2, <1>4, IdlePlaced, SameEntries DEF EntryType

LEMMA AddAdcEntries == ASSUME TypeInv, NEW t \in Threads, AddAdc(t) PROVE EntryStep(t)
<1>1. EntryType
  BY TypeParts DEF TypeInv
<1>2. /\ Went(t) /\ t \in Writers /\ Adding(t) /\ run'[t] = Idle
      /\ UNCHANGED <<count, entry, exposed, freed>>
      /\ listed' = listed \cup {run[t].mine}
  BY AddAdcMoves DEF AddAdc
<1>3. run[t].mine \in 1 .. count
  BY <1>2 DEF TypeInv, PlaceInv
<1> QED BY <1>1, <1>2, <1>3, IdlePlaced, SameEntries DEF EntryType

LEMMA RemoveEntries ==
  ASSUME TypeInv, NEW t \in Threads, NEW i \in Entries, Remove(t, i)
  PROVE  EntryStep(t)
<1>1. EntryType
  BY TypeParts DEF TypeInv
<1>2. /\ Went(t) /\ run[t].at = "remove" /\ run'[t].at \in {"remove", "idle"}
      /\ UNCHANGED <<count, entry>> /\ i \in listed
      /\ exposed' = exposed \ {i} /\ listed' = listed \ {i} /\ freed' = freed \cup {i}
  BY RemoveMoves, IdleShape DEF Remove, Matches
<1>3. Placed(t) /\ ~CanAdd(t)'
  BY <1>2 DEF Placed, Adding, Registering, CanAdd
<1> QED BY <1>1, <1>2, <1>3, SameEntries DEF EntryType

(* The actions that leave the entries alone.                               *)
Keeping(t) ==
  \/ Find(t) \/ SendLed(t) \/ SendServo(t) \/ SendServoOff(t) \/ Take(t) \/ Release(t)
  \/ SendCell(t) \/ Test(t) \/ Probe(t) \/ Unplug(t) \/ Port(t) \/ Patch(t)
  \/ TestSelect(t) \/ Select(t)

LEMMA KeepingMoves ==
  ASSUME TypeInv, NEW t \in Threads, Keeping(t)
  PROVE  /\ Went(t) /\ UNCHANGED entryVars
         /\ CanAdd(t)' => CanAdd(t)
         /\ ~Adding(t)' /\ ~Registering(t)' /\ ~Adding(t) /\ ~Registering(t)
<1> USE DEF CanAdd, Adding, Registering
<1>1. CASE Find(t)
  <2>1. run[t].cmd.what # "adc"
    BY <1>1, FindMoves, ThreadFacts DEF Shape
  <2> QED BY <1>1, <2>1, FindMoves, IdleShape DEF Find, Went
<1>2. CASE SendLed(t)
  BY <1>2, SendLedMoves, IdleShape DEF SendLed
<1>3. CASE SendServo(t)
  BY <1>3, SendServoMoves, IdleShape DEF SendServo
<1>4. CASE SendServoOff(t)
  BY <1>4, SendServoOffMoves DEF SendServoOff
<1>5. CASE Take(t)
  BY <1>5, TakeMoves DEF Take
<1>6. CASE Release(t)
  BY <1>6, ReleaseMoves, IdleShape DEF Release
<1>7. CASE SendCell(t)
  BY <1>7, SendCellMoves DEF SendCell
<1>8. CASE Test(t)
  BY <1>8, TestMoves, IdleShape DEF Test
<1>9. CASE Probe(t)
  BY <1>9, ProbeMoves, IdleShape DEF Probe
<1>10. CASE Unplug(t)
  BY <1>10, UnplugMoves, IdleShape DEF Unplug
<1>11. CASE TestSelect(t)
  BY <1>11, TestSelectMoves, IdleShape DEF TestSelect
<1>12. CASE Select(t)
  BY <1>12, SelectMoves, IdleShape DEF Select
<1>13. CASE Port(t)
  BY <1>13, PortMoves, IdleShape DEF Port
<1>14. CASE Patch(t)
  BY <1>14, PatchMoves, IdleShape DEF Patch
<1> QED BY <1>1, <1>2, <1>3, <1>4, <1>5, <1>6, <1>7, <1>8, <1>9, <1>10, <1>11, <1>12, <1>13, <1>14
    DEF Keeping

LEMMA ProceedCases ==
  ASSUME NEW t \in Threads, Proceed(t)
  PROVE  \/ Keeping(t) \/ AddLed(t) \/ RegisterLed(t) \/ UnlistLed(t) \/ ConfigServo(t)
         \/ RegisterAdc(t) \/ AddAdc(t) \/ \E i \in Entries : Remove(t, i)
BY DEF Proceed, Keeping

LEMMA ProceedEntries == ASSUME TypeInv, NEW t \in Threads, Proceed(t) PROVE EntryStep(t)
<1>1. CASE Keeping(t)
  <2>1. EntryType
    BY TypeParts DEF TypeInv
  <2>2. UNCHANGED <<count, entry, listed, exposed, freed>>
    BY <1>1, KeepingMoves DEF entryVars
  <2>3. Went(t) /\ Placed(t) /\ (CanAdd(t)' => CanAdd(t))
    BY <1>1, KeepingMoves DEF Placed
  <2> QED BY <2>1, <2>2, <2>3, SameEntries DEF EntryType
<1> QED BY <1>1, ProceedCases, AddLedEntries, RegisterLedEntries, UnlistLedEntries,
           ConfigServoEntries, RegisterAdcEntries, AddAdcEntries, RemoveEntries

-----------------------------------------------------------------------------
(* Types, step by step.                                                    *)

LEMMA ProceedFrame ==
  ASSUME NEW t \in Threads, Proceed(t)
  PROVE  UNCHANGED <<lifeVars, fds, offered, commands, handlerVars>>
BY DEF Proceed, Find, AddLed, RegisterLed, UnlistLed, SendLed, ConfigServo, SendServo, SendServoOff,
       RegisterAdc, AddAdc, Take, Remove, Release, SendCell, Test, Probe, Unplug, Port, Patch,
       TestSelect, Select

(* A command changes the cells and what the device was told by few of its  *)
(* steps.                                                                  *)
LEMMA CellFrame ==
  ASSUME NEW t \in Threads, Proceed(t)
  PROVE  /\ UNCHANGED cellVars \/ Probe(t) \/ Unplug(t) \/ Select(t)
         /\ UNCHANGED told \/ SendServo(t) \/ SendCell(t)
         /\ UNCHANGED causes \/ SendServo(t) \/ SendCell(t) \/ Probe(t) \/ RegisterAdc(t)
         /\ UNCHANGED held \/ Port(t) \/ Patch(t) \/ Unplug(t)
         /\ UNCHANGED lock \/ Take(t) \/ Release(t) \/ \E i \in Entries : Remove(t, i)
BY DEF Proceed, Find, AddLed, RegisterLed, UnlistLed, SendLed, ConfigServo, SendServo, SendServoOff,
       RegisterAdc, AddAdc, Take, Remove, Release, SendCell, Test, Probe, Unplug, Port, Patch,
       TestSelect, Select

LEMMA UseLemma ==
  ASSUME TypeInv, NEW bad, UseDev(bad), bad \subseteq Lists \cup {"dev", "spi", "uart"}
  PROVE  wrong' \subseteq Lists \cup {"dev", "spi", "uart"}
BY TypeParts DEF TypeInv, CauseType, UseDev

LEMMA FreedLemma ==
  ASSUME TypeInv, NEW i \in 1 .. count
  PROVE  Freed(i) \subseteq Lists
<1>1. i \in Entries
  BY TypeParts, BoundsAssumption DEF TypeInv, EntryType, Entries
<1>2. entry[i].kind \in Lists
  BY <1>1, TypeParts DEF TypeInv, EntryType
<1> QED BY <1>2 DEF Freed

(* What was used that was freed, if anything was.                          *)
LEMMA ProceedWrong ==
  ASSUME TypeInv, NEW t \in Threads, Proceed(t)
  PROVE  \/ wrong' = wrong
         \/ t \in Writers /\ UseDev({})
         \/ Registering(t) /\ t \in Writers /\ UseDev(Freed(run[t].mine))
         \/ \E i \in listed : wrong' = wrong \cup Freed(i)
         \/ t \in Writers /\ UseDev({"adc"}) /\ "adc" \in causes'
         \/ Patch(t) /\ t \in Writers /\ t \notin held /\ wrong' = wrong \cup {"uart"}
         \/ Select(t) /\ t \in Writers /\ UseDev(IF "spi" \in bound THEN {} ELSE {"spi"})
<1>1. t \in Writers \/ run[t].at \in {"idle", "take", "remove"}
  BY ThreadFacts
<1>2. CASE Find(t) \/ AddLed(t) \/ AddAdc(t) \/ Take(t) \/ Release(t) \/ Port(t)
  BY <1>2 DEF Find, AddLed, AddAdc, Take, Release, Port
<1>3. CASE RegisterLed(t)
  BY <1>1, <1>3, RegisterLedMoves DEF RegisterLed, Registering
<1>4. CASE UnlistLed(t)
  BY <1>1, <1>4, UnlistLedMoves DEF UnlistLed, Registering
<1>5. CASE SendLed(t) \/ ConfigServo(t) \/ SendServo(t) \/ SendServoOff(t)
  BY <1>1, <1>5 DEF SendLed, ConfigServo, SendServo, SendServoOff, At
<1>6. CASE SendCell(t) \/ Test(t) \/ Probe(t) \/ Unplug(t) \/ TestSelect(t)
  BY <1>1, <1>6 DEF SendCell, Test, Probe, Unplug, TestSelect, At
<1>7. ASSUME NEW i \in Entries, Remove(t, i) PROVE \E j \in listed : wrong' = wrong \cup Freed(j)
  BY <1>7 DEF Remove, Matches
<1>8. CASE Select(t)
  BY <1>8, SelectMoves DEF Select
<1>9. CASE RegisterAdc(t)
  BY <1>1, <1>9 DEF RegisterAdc, At
<1>10. CASE Patch(t)
  BY <1>10, PatchMoves DEF Patch
<1> QED BY <1>2, <1>3, <1>4, <1>5, <1>6, <1>7, <1>8, <1>9, <1>10 DEF Proceed

LEMMA ProceedWrongType ==
  ASSUME TypeInv, NEW t \in Threads, Proceed(t)
  PROVE  wrong' \subseteq Lists \cup {"dev", "spi", "uart"}
<1>1. CASE wrong' = wrong
  BY <1>1, TypeParts DEF TypeInv, CauseType
<1>2. CASE UseDev({})
  BY <1>2, UseLemma
<1>3. CASE Registering(t) /\ t \in Writers /\ UseDev(Freed(run[t].mine))
  <2>1. run[t].mine \in 1 .. count
    BY <1>3 DEF TypeInv, PlaceInv
  <2>2. Freed(run[t].mine) \subseteq Lists
    BY <2>1, FreedLemma
  <2> QED BY <1>3, <2>2, UseLemma
<1>4. ASSUME NEW i \in listed, wrong' = wrong \cup Freed(i)
      PROVE  wrong' \subseteq Lists \cup {"dev", "spi", "uart"}
  <2>1. i \in 1 .. count /\ wrong \subseteq Lists \cup {"dev", "spi", "uart"}
    BY TypeParts DEF TypeInv, EntryType, CauseType
  <2>2. Freed(i) \subseteq Lists
    BY <2>1, FreedLemma
  <2> QED BY <1>4, <2>1, <2>2
<1>5. CASE UseDev(IF "spi" \in bound THEN {} ELSE {"spi"})
  BY <1>5, UseLemma
<1>6. CASE UseDev({"adc"})
  BY <1>6, UseLemma DEF Lists
<1>7. CASE wrong' = wrong \cup {"uart"}
  BY <1>7, TypeParts DEF TypeInv, CauseType
<1> QED BY <1>1, <1>2, <1>3, <1>4, <1>5, <1>6, <1>7, ProceedWrong

LEMMA ProceedCauses ==
  ASSUME TypeInv, NEW t \in Threads, Proceed(t)
  PROVE  causes' \in {causes, causes \cup {"lost"}, causes \cup {"bind"}, causes \cup {"adc"}}
BY CellFrame DEF SendServo, SendCell, Probe, Tell, RegisterAdc

LEMMA ProceedTypes == ASSUME TypeInv, NEW t \in Threads, Proceed(t) PROVE TypeOK'
<1>1. /\ LifeType /\ EntryType /\ LockType /\ CellType /\ ToldType /\ RunType
      /\ WriteType /\ HandlerType /\ CauseType
  BY TypeParts DEF TypeInv
<1>2. LifeType' /\ WriteType' /\ HandlerType'
  <2>1. held' \subseteq Threads
    BY <1>1, CellFrame DEF Port, Patch, Unplug, WriteType
  <2> QED BY <1>1, <2>1, ProceedFrame DEF LifeType, WriteType, HandlerType, lifeVars, handlerVars
<1>3. EntryType' /\ RunType'
  BY ProceedEntries DEF EntryStep, Went
<1>4. LockType'
  <2>1. CASE UNCHANGED lock
    BY <1>1, <2>1 DEF LockType
  <2>2. CASE Take(t)
    BY <1>1, <2>2 DEF Take, LockType
  <2>3. CASE Release(t)
    BY <1>1, <2>3 DEF Release, LockType
  <2>4. ASSUME NEW i \in Entries, Remove(t, i) PROVE LockType'
    BY <1>1, <2>4 DEF Remove, LockType
  <2> QED BY <2>1, <2>2, <2>3, <2>4, CellFrame
<1>5. CellType'
  <2>1. CASE UNCHANGED cellVars
    BY <1>1, <2>1 DEF CellType, cellVars
  <2>2. CASE Probe(t)
    <3>1. run[t].cmd.what \in Cells
      BY <2>2, ProbeMoves
    <3>2. children' \in [Cells -> Nat]
      BY <1>1, <2>2, <3>1 DEF Probe, CellType
    <3> QED BY <1>1, <2>2, <3>1, <3>2 DEF Probe, CellType
  <2>3. CASE Unplug(t)
    <3> DEFINE c == run[t].cmd.what
    <3>1. c \in Cells
      BY <2>3, UnplugMoves DEF Cells
    <3>2. children' = [children EXCEPT ![c] = IF children[c] > 0 THEN children[c] - 1 ELSE 0]
          /\ registered' = registered \ {c} /\ bound' = bound \ {c} /\ selects' = selects
      BY <1>1, <2>3, <3>1 DEF Unplug, CellType
    <3> HIDE DEF c
    <3>3. children' \in [Cells -> Nat]
      <4>1. children[c] \in Nat
        BY <1>1, <3>1 DEF CellType
      <4>2. (IF children[c] > 0 THEN children[c] - 1 ELSE 0) \in Nat
        BY <4>1
      <4> QED BY <1>1, <3>2, <4>2 DEF CellType
    <3> QED BY <1>1, <3>2, <3>3 DEF CellType
  <2>4. CASE Select(t)
    <3>1. run[t].cmd.pin \in Pins
      BY <2>4, SelectMoves, ThreadFacts, CommandFacts
    <3> QED BY <1>1, <2>4, <3>1 DEF Select, CellType
  <2> QED BY <2>1, <2>2, <2>3, <2>4, CellFrame
<1>6. ToldType'
  <2>1. CASE UNCHANGED told
    BY <1>1, <2>1 DEF ToldType
  <2>2. CASE SendServo(t)
    <3>1. run[t].cmd.val \in Values \cup {0}
      BY ThreadFacts, CommandFacts
    <3> QED BY <1>1, <2>2, <3>1 DEF SendServo, Tell, ToldType
  <2>3. CASE SendCell(t)
    <3>1. run[t].cmd.what \in Cells
      BY <2>3, SendCellMoves
    <3> QED BY <1>1, <2>3, <3>1 DEF SendCell, Tell, ToldType
  <2> QED BY <2>1, <2>2, <2>3, CellFrame
<1>7. CauseType'
  BY <1>1, ProceedWrongType, ProceedCauses DEF CauseType
<1> QED BY <1>2, <1>3, <1>4, <1>5, <1>6, <1>7, TypeParts DEF TypeOK, LifeType, EntryType, LockType,
           CellType, ToldType, RunType, Runs, WriteType, HandlerType, CauseType

LEMMA ProceedPlaces == ASSUME TypeInv, NEW t \in Threads, Proceed(t) PROVE PlaceInv' /\ CountInv'
<1>1. EntryStep(t) /\ Went(t) /\ commands' = commands /\ life' = life
  BY ProceedEntries, ProceedFrame DEF EntryStep, lifeVars
<1>2. count' = count \/ count' = count + 1
  BY <1>1 DEF EntryStep, CountStep
<1>3. \A i \in 1 .. count : i \in 1 .. count'
  BY <1>2, TypeParts DEF TypeInv, EntryType
<1>4. \A u \in Threads \ {t} : run'[u] = run[u]
  BY <1>1 DEF Went
<1>5. \A u \in Threads : Shape(run'[u])
  <2>1. ASSUME NEW u \in Threads, u # t PROVE Shape(run'[u])
    <3>1. run'[u] = run[u] /\ Shape(run[u])
      BY <1>4, <2>1, ThreadFacts
    <3> QED BY <3>1
  <2> QED BY <1>1, <2>1 DEF Went
<1>6. \A u \in Writers : run'[u].cmd.do # "clean"
  BY <1>1, <1>4 DEF TypeInv, PlaceInv, Went, Threads
<1>7. /\ run'[Hub].at \in {"idle", "take", "remove"}
      /\ run'[Hub].at # "idle" => run'[Hub].cmd.do = "clean" /\ life' = run'[Hub].cmd.what
  <2>1. CASE t # Hub
    BY <1>1, <1>4, <2>1 DEF TypeInv, PlaceInv, Threads
  <2>2. CASE t = Hub
    <3>1. run[Hub].at \in {"take", "remove"} /\ run[Hub].cmd.do = "clean" /\ life = run[Hub].cmd.what
      BY <1>1, <2>2 DEF TypeInv, PlaceInv, Went
    <3>2. ~Keeping(t) \/ Take(t) \/ Release(t)
      BY <2>2, <3>1, ThreadFacts DEF Keeping, Find, SendLed, SendServo, SendServoOff, SendCell, Test,
         Probe, Unplug, Port, Patch, TestSelect, Select, At
    <3>3. run'[Hub].at \in {"idle", "take", "remove"}
      <4>1. CASE Take(t)
        BY <2>2, <4>1, TakeMoves
      <4>2. CASE Release(t)
        BY <2>2, <4>2, ReleaseMoves, IdleShape
      <4>3. ASSUME NEW i \in Entries, Remove(t, i) PROVE run'[Hub].at \in {"idle", "take", "remove"}
        BY <2>2, <3>1, <4>3, RemoveMoves, IdleShape
      <4>4. ~AddLed(t) /\ ~RegisterLed(t) /\ ~UnlistLed(t) /\ ~ConfigServo(t) /\ ~RegisterAdc(t) /\ ~AddAdc(t)
        BY <2>2, <3>1 DEF AddLed, RegisterLed, UnlistLed, ConfigServo, RegisterAdc, AddAdc, At
      <4> QED BY <3>2, <4>1, <4>2, <4>3, <4>4, ProceedCases
    <3>4. run'[Hub].at # "idle" => run'[Hub].cmd = run[Hub].cmd
      BY <1>1, <2>2 DEF Went
    <3> QED BY <1>1, <3>1, <3>3, <3>4
  <2> QED BY <2>1, <2>2
<1>8. \A u \in Writers : (Adding(u) \/ Registering(u))' => run'[u].mine \in 1 .. count'
  <2>1. ASSUME NEW u \in Writers, u # t, (Adding(u) \/ Registering(u))' PROVE run'[u].mine \in 1 .. count'
    <3>1. run'[u] = run[u]
      BY <1>4, <2>1 DEF Threads
    <3>2. Adding(u) \/ Registering(u)
      BY <2>1, <3>1 DEF Adding, Registering
    <3> QED BY <1>3, <3>1, <3>2 DEF TypeInv, PlaceInv
  <2> QED BY <1>1, <2>1 DEF EntryStep, Placed
<1>9. PlaceInv'
  BY <1>5, <1>6, <1>7, <1>8 DEF PlaceInv
<1>10. \A u \in Writers : CanAdd(u)' /\ u # t => CanAdd(u)
  BY <1>4 DEF CanAdd, Threads
<1>11. CASE count' = count /\ (CanAdd(t)' => CanAdd(t))
  <2>1. Adders' \subseteq Adders
    BY <1>10, <1>11 DEF Adders
  <2> QED BY <1>1, <1>9, <1>11, <2>1, CountKept
<1>12. CASE count' = count + 1 /\ t \in Adders /\ ~CanAdd(t)'
  <2>1. Adders' \subseteq Adders \ {t}
    BY <1>10, <1>12 DEF Adders
  <2> QED BY <1>1, <1>9, <1>12, <2>1, CountUp
<1> QED BY <1>1, <1>11, <1>12 DEF EntryStep, CountStep

LEMMA TypeInit == Init => TypeInv
<1> SUFFICES ASSUME Init PROVE TypeInv
  OBVIOUS
<1>0. \A t \in Threads : run[t] = Idle
  BY DEF Init
<1>1. LifeType /\ LockType /\ CellType /\ WriteType /\ HandlerType /\ CauseType
  <2>1. LifeType /\ LockType /\ CauseType
    BY DEF Init, LifeType, Lives, LockType, CauseType
  <2>2. CellType
    BY DEF Init, CellType
  <2>3. 0 \in 0 .. MaxCommands /\ 0 \in 0 .. MaxUses
    BY BoundsAssumption
  <2>4. WriteType /\ HandlerType
    BY <2>3 DEF Init, WriteType, HandlerType
  <2> QED BY <2>1, <2>2, <2>4
<1>2. EntryType /\ ToldType
  BY BoundsAssumption DEF Init, EntryType, ToldType, Lists
<1>3. RunType
  BY IdleShape DEF Init, RunType
<1>4. PlaceInv
  <2>1. Hub \in Threads /\ \A t \in Writers : t \in Threads
    BY DEF Threads
  <2>2. Idle.cmd.do = "on"
    BY DEF Idle, NoCommand
  <2>3. \A t \in Writers : ~Adding(t) /\ ~Registering(t)
    BY <1>0, <2>1, IdleShape DEF Adding, Registering
  <2>4. \A t \in Threads : Shape(run[t])
    BY <1>0, IdleShape
  <2> QED BY <1>0, <2>1, <2>2, <2>3, <2>4, IdleShape DEF PlaceInv
<1>5. CountInv
  <2>1. Adders = {}
    BY <1>0, IdleShape DEF Adders, CanAdd, Threads
  <2>2. Cardinality(Adders) = 0
    BY <2>1, FS_EmptySet
  <2> QED BY <2>2 DEF Init, CountInv
<1> QED BY <1>1, <1>2, <1>3, <1>4, <1>5, TypeParts DEF TypeInv

(* A new command starts where its kind starts.                             *)
LEMMA WriteMoves ==
  ASSUME TypeInv, NEW t \in Writers, NEW c \in Commands, Write(t, c)
  PROVE  /\ RunType' /\ run[t] = run[t] /\ run[t].at = "idle"
         /\ \A u \in Threads \ {t} : run'[u] = run[u]
         /\ run'[t] = [at |-> Entry(c), cmd |-> c, mine |-> 0]
         /\ run'[t].at = Entry(c) /\ run'[t].cmd = c /\ run'[t].mine = 0
         /\ Shape(run'[t]) /\ ~Adding(t)' /\ ~Registering(t)'
<1> DEFINE r == [at |-> Entry(c), cmd |-> c, mine |-> 0]
<1>1. /\ Shape(r) /\ r \in Runs /\ r.at = Entry(c) /\ r.cmd = c /\ r.mine = 0
      /\ Entry(c) \notin {"unlist", "add"} /\ (Entry(c) = "register" => c.what = "adc")
  BY EntryShape
<1>2. RunType /\ t \in Threads /\ run' = [run EXCEPT ![t] = r] /\ run[t].at = "idle"
  BY TypeParts DEF TypeInv, Write, Threads
<1> HIDE DEF r
<1>3. RunType' /\ run'[t] = r /\ \A u \in Threads \ {t} : run'[u] = run[u]
  BY <1>1, <1>2 DEF RunType
<1>4. ~Adding(t)' /\ ~Registering(t)'
  BY <1>1, <1>3 DEF Adding, Registering
<1>5. Shape(run'[t])
  BY <1>1, <1>3
<1> QED BY <1>1, <1>2, <1>3, <1>4, <1>5 DEF r

LEMMA WriteTypes ==
  ASSUME TypeInv, NEW t \in Writers, NEW c \in Commands, Write(t, c)
  PROVE  TypeInv'
<1>1. /\ LifeType /\ EntryType /\ LockType /\ CellType /\ ToldType /\ RunType
      /\ WriteType /\ HandlerType /\ CauseType
  BY TypeParts DEF TypeInv
<1>2. UNCHANGED <<lifeVars, entryVars, lock, cellVars, told, held, offered, handlerVars>>
      /\ commands' = commands + 1 /\ commands < MaxCommands /\ fds' = fds \cup {t}
  BY DEF Write
<1>3. LifeType' /\ EntryType' /\ LockType' /\ CellType' /\ ToldType' /\ HandlerType'
  BY <1>1, <1>2 DEF LifeType, lifeVars, EntryType, entryVars, LockType, CellType, cellVars,
     ToldType, HandlerType, handlerVars
<1>4. WriteType'
  BY <1>1, <1>2, BoundsAssumption DEF WriteType
<1>5. CauseType'
  <2>1. wrong' \subseteq Lists \cup {"dev", "spi", "uart"}
    BY UseLemma DEF Write
  <2> QED BY <1>1, <2>1 DEF Write, CauseType
<1>6. TypeOK'
  BY <1>3, <1>4, <1>5, WriteMoves, TypeParts DEF TypeOK, LifeType, EntryType, LockType,
     CellType, ToldType, RunType, Runs, WriteType, HandlerType, CauseType
<1>7. /\ \A u \in Threads \ {t} : run'[u] = run[u]
      /\ run'[t].cmd = c /\ Shape(run'[t]) /\ ~Adding(t)' /\ ~Registering(t)'
  BY WriteMoves
<1>8. count' = count /\ life' = life
  BY <1>2 DEF entryVars, lifeVars
<1>9. PlaceInv'
  <2>1. \A u \in Threads : Shape(run'[u])
    <3>1. ASSUME NEW u \in Threads, u # t PROVE Shape(run'[u])
      <4>1. run'[u] = run[u] /\ Shape(run[u])
        BY <1>7, <3>1, ThreadFacts
      <4> QED BY <4>1
    <3> QED BY <1>7, <3>1
  <2>2. \A u \in Writers : run'[u].cmd.do # "clean"
    BY <1>7, CommandFacts DEF TypeInv, PlaceInv, Threads
  <2>3. /\ run'[Hub].at \in {"idle", "take", "remove"}
        /\ run'[Hub].at # "idle" => run'[Hub].cmd.do = "clean" /\ life' = run'[Hub].cmd.what
    <3>1. run'[Hub] = run[Hub]
      BY <1>7, ThreadsAssumption DEF Threads
    <3> QED BY <1>8, <3>1 DEF TypeInv, PlaceInv
  <2>4. \A u \in Writers : (Adding(u) \/ Registering(u))' => run'[u].mine \in 1 .. count'
    <3>1. ASSUME NEW u \in Writers, u # t, (Adding(u) \/ Registering(u))' PROVE run'[u].mine \in 1 .. count'
      <4>1. run'[u] = run[u]
        BY <1>7, <3>1 DEF Threads
      <4>2. Adding(u) \/ Registering(u)
        BY <3>1, <4>1 DEF Adding, Registering
      <4> QED BY <1>8, <4>1, <4>2 DEF TypeInv, PlaceInv
    <3> QED BY <1>7, <3>1
  <2> QED BY <2>1, <2>2, <2>3, <2>4 DEF PlaceInv
<1>10. CountInv'
  <2>1. Adders' \subseteq Adders \cup {t}
    BY <1>7 DEF Adders, CanAdd, Threads
  <2> QED BY <1>2, <1>8, <2>1, CountWrite
<1> QED BY <1>6, <1>9, <1>10 DEF TypeInv

(* Steps that move no thread.                                              *)
LEMMA PlacesKept ==
  ASSUME TypeInv, UNCHANGED <<count, run, commands>>, run[Hub].at # "idle" => life' = life
  PROVE  PlaceInv' /\ CountInv'
<1>1. run' = run /\ count' = count /\ commands' = commands /\ Adders' = Adders
  BY DEF Adders, CanAdd
<1>2. CountInv'
  BY <1>1 DEF TypeInv, CountInv
<1>3. \A t \in Threads : Shape(run'[t])
  <2> SUFFICES ASSUME NEW t \in Threads PROVE Shape(run'[t])
    OBVIOUS
  <2>1. run'[t] = run[t] /\ Shape(run[t])
    BY <1>1, ThreadFacts
  <2> QED BY <2>1
<1>4. \A t \in Writers : (Adding(t) <=> Adding(t)') /\ (Registering(t) <=> Registering(t)')
  BY <1>1 DEF Adding, Registering
<1>5. PlaceInv'
  BY <1>1, <1>3, <1>4 DEF TypeInv, PlaceInv
<1> QED BY <1>2, <1>5

Handles(h) == (\E i \in Entries : StartHandler(h, i)) \/ StartSelfOff(h) \/ EndHandler(h)

LEMMA HandlerTypes ==
  ASSUME TypeInv, NEW h \in Handlers, Handles(h)
  PROVE  TypeInv'
<1>1. /\ LifeType /\ EntryType /\ LockType /\ CellType /\ ToldType /\ RunType
      /\ WriteType /\ HandlerType /\ CauseType
  BY TypeParts DEF TypeInv
<1>2. UNCHANGED <<lifeVars, entryVars, lock, cellVars, told, held, threadVars, causes>>
  BY DEF Handles, StartHandler, StartSelfOff, EndHandler
<1>3. LifeType' /\ EntryType' /\ LockType' /\ CellType' /\ ToldType' /\ RunType' /\ WriteType'
  BY <1>1, <1>2 DEF LifeType, lifeVars, EntryType, entryVars, LockType, CellType, cellVars,
     ToldType, RunType, WriteType, threadVars
<1>4. HandlerType' /\ wrong' \subseteq Lists \cup {"dev", "spi", "uart"}
  <2>1. ASSUME NEW i \in Entries, StartHandler(h, i)
        PROVE  HandlerType' /\ wrong' \subseteq Lists \cup {"dev", "spi", "uart"}
    <3>1. i \in 1 .. count
      BY <1>1, <2>1 DEF StartHandler, EntryType
    <3>2. Freed(i) \subseteq Lists
      BY <3>1, FreedLemma
    <3>3. wrong' \subseteq Lists \cup {"dev", "spi", "uart"}
      BY <2>1, <3>2, UseLemma DEF StartHandler
    <3>4. i \in 0 .. MaxCommands
      BY BoundsAssumption DEF Entries
    <3> QED BY <1>1, <2>1, <3>3, <3>4, BoundsAssumption DEF StartHandler, HandlerType
  <2>2. CASE StartSelfOff(h)
    BY <1>1, <2>2 DEF StartSelfOff, HandlerType, CauseType
  <2>3. CASE EndHandler(h)
    <3>1. handling[h] \in Entries
      BY <1>1, <2>3, BoundsAssumption DEF EndHandler, HandlerType, Entries
    <3>2. entry[handling[h]].kind \in Lists
      BY <1>1, <3>1 DEF EntryType
    <3>3. Freed(handling[h]) \subseteq Lists
      BY <3>2 DEF Freed
    <3>4. wrong' \subseteq Lists \cup {"dev", "spi", "uart"}
      BY <2>3, <3>3, UseLemma DEF EndHandler
    <3>5. 0 \in 0 .. MaxCommands
      BY BoundsAssumption
    <3> QED BY <1>1, <2>3, <3>4, <3>5 DEF EndHandler, HandlerType
  <2> QED BY <2>1, <2>2, <2>3 DEF Handles
<1>5. CauseType'
  BY <1>1, <1>2, <1>4 DEF CauseType
<1>6. TypeOK'
  BY <1>3, <1>4, <1>5, TypeParts DEF TypeOK, LifeType, EntryType, LockType, CellType, ToldType,
     RunType, Runs, WriteType, HandlerType, CauseType
<1>7. PlaceInv' /\ CountInv'
  BY <1>2, PlacesKept DEF entryVars, threadVars, lifeVars
<1> QED BY <1>6, <1>7 DEF TypeInv

(* Probe, disconnect and what follows move the hub's thread at most, and   *)
(* only when it is idle.                                                   *)
Lifecycle == ProbeMisc \/ ProbeCells \/ ProbeUrb \/ Disconnect \/ Leave

(* Clean(k, next) lets the hub's thread take the list of kind k.           *)
CleanStep(k) ==
  /\ life' = k /\ run[Hub].at = "idle"
  /\ RunType' /\ \A u \in Threads \ {Hub} : run'[u] = run[u]
  /\ run'[Hub].at = "take" /\ run'[Hub].cmd.do = "clean" /\ run'[Hub].cmd.what = k
  /\ Shape(run'[Hub])
  /\ UNCHANGED <<misc, base, entryVars, lock, cellVars, told, fds, offered, commands, held, handlerVars, wrong>>

LEMMA CleanLemma ==
  ASSUME TypeInv, NEW k \in Lists, Clean(k, k), run[Hub].at = "idle"
  PROVE  CleanStep(k)
<1> DEFINE c == [do |-> "clean", what |-> k, pin |-> 0, val |-> 0]
           r == [at |-> "take", cmd |-> c, mine |-> 0]
<1>1. c \in Cleanups /\ c.do = "clean" /\ c.what = k
  BY DEF Cleanups
<1>2. run' = [run EXCEPT ![Hub] = r]
  BY DEF Clean
<1> HIDE DEF c
<1>3. r \in Runs /\ Shape(r) /\ r.at = "take" /\ r.cmd = c
  BY <1>1, BoundsAssumption DEF Runs, Labels, Shape
<1> HIDE DEF r
<1>4. Hub \in Threads /\ RunType
  BY TypeParts DEF TypeInv, Threads
<1>5. RunType' /\ run'[Hub] = r /\ \A u \in Threads \ {Hub} : run'[u] = run[u]
  BY <1>2, <1>3, <1>4 DEF RunType
<1>6. Shape(run'[Hub])
  BY <1>3, <1>5
<1> QED BY <1>1, <1>3, <1>5, <1>6 DEF CleanStep, Clean

(* The stages of the device's life.                                        *)
LEMMA LifecycleCases ==
  ASSUME TypeInv, Lifecycle
  PROVE  \/ /\ life \in {"probe", "cells", "urb"} /\ life' \in {"cells", "urb", "ready", "gone"}
            /\ life # life' /\ (life \in {"cells", "urb"} => life' # "cells")
            /\ misc' \in BOOLEAN /\ base' \in BOOLEAN
            /\ causes' \in {causes, causes \cup {"probe"}}
            /\ life' = "gone" /\ life # "probe" => "probe" \in causes'
            /\ life = "probe" => causes' = causes /\ base' = base
            /\ UNCHANGED <<entryVars, lock, cellVars, told, held, threadVars, handlerVars, wrong>>
         \/ life = "ready" /\ CleanStep("servo") /\ Teardown
         \/ life = "servo" /\ CleanStep("led") /\ causes' = causes
         \/ life = "led" /\ CleanStep("adc") /\ causes' = causes
         \/ RemoveChildren \/ RemoveMisc \/ FreeDev
<1>1. CASE ProbeMisc
  BY <1>1, TypeParts DEF ProbeMisc, TypeInv, LifeType
<1>2. CASE ProbeCells
  BY <1>2, TypeParts DEF ProbeCells, FailProbe, TypeInv, LifeType
<1>3. CASE ProbeUrb
  BY <1>3, TypeParts DEF ProbeUrb, FailProbe, TypeInv, LifeType
<1>4. CASE Disconnect
  <2>1. run[Hub].at = "idle"
    <3>1. run[Hub].cmd.what \in Lists \/ run[Hub].at = "idle"
      BY ThreadFacts DEF Shape, Threads
    <3> QED BY <1>4, <3>1 DEF Disconnect, TypeInv, PlaceInv, Lists
  <2> QED BY <1>4, <2>1, CleanLemma DEF Disconnect, Lists
<1>5. CASE CleanLeds
  BY <1>5, CleanLemma DEF CleanLeds, Lists
<1>6. CASE CleanAdcs
  BY <1>6, CleanLemma DEF CleanAdcs, Lists
<1> QED BY <1>1, <1>2, <1>3, <1>4, <1>5, <1>6 DEF Lifecycle, Leave

LEMMA CleanTypes ==
  ASSUME TypeInv, NEW k \in Lists, CleanStep(k),
         causes' \subseteq {"writers", "teardown", "probe", "bind", "adc", "lost"}
  PROVE  TypeInv'
<1>1. /\ LifeType /\ EntryType /\ LockType /\ CellType /\ ToldType
      /\ WriteType /\ HandlerType /\ CauseType
  BY TypeParts DEF TypeInv
<1>2. EntryType' /\ LockType' /\ CellType' /\ ToldType' /\ WriteType' /\ HandlerType'
  BY <1>1 DEF CleanStep, EntryType, entryVars, LockType, CellType, cellVars, ToldType,
     WriteType, HandlerType, handlerVars
<1>3. LifeType' /\ CauseType' /\ RunType'
  BY <1>1 DEF CleanStep, LifeType, Lives, Lists, CauseType
<1>4. TypeOK'
  BY <1>2, <1>3 DEF TypeOK, LifeType, EntryType, LockType, CellType, ToldType, RunType, Runs,
     WriteType, HandlerType, CauseType
<1>5. \A u \in Writers : u \in Threads \ {Hub} /\ run'[u] = run[u]
  BY ThreadsAssumption DEF CleanStep, Threads
<1>6. count' = count /\ commands' = commands
  BY DEF CleanStep, entryVars
<1>7. \A u \in Threads : Shape(run'[u])
  <2>1. ASSUME NEW u \in Threads \ {Hub} PROVE Shape(run'[u])
    <3>1. run'[u] = run[u] /\ Shape(run[u])
      BY ThreadFacts DEF CleanStep
    <3> QED BY <3>1
  <2> QED BY <2>1 DEF CleanStep
<1>8. \A u \in Writers : (Adding(u)' <=> Adding(u)) /\ (Registering(u)' <=> Registering(u))
                         /\ (CanAdd(u)' <=> CanAdd(u))
  BY <1>5 DEF Adding, Registering, CanAdd
<1>9. PlaceInv'
  BY <1>5, <1>6, <1>7, <1>8 DEF TypeInv, PlaceInv, CleanStep
<1>10. Adders' \subseteq Adders
  BY <1>8 DEF Adders
<1>11. CountInv'
  BY <1>6, <1>10, CountKept
<1> QED BY <1>4, <1>9, <1>11 DEF TypeInv

LEMMA LifecycleTypes == ASSUME TypeInv, Lifecycle PROVE TypeInv'
<1>1. /\ LifeType /\ EntryType /\ LockType /\ CellType /\ ToldType /\ RunType
      /\ WriteType /\ HandlerType /\ CauseType
  BY TypeParts DEF TypeInv
<1>2. run[Hub].at # "idle" => life \in Lists
  BY ThreadFacts DEF TypeInv, PlaceInv, Shape, Threads
<1>3. ASSUME life' \in Lives, misc' \in BOOLEAN, base' \in BOOLEAN,
             causes' \in {causes, causes \cup {"probe"}}, run[Hub].at = "idle",
             registered' = registered, children' \in [Cells -> Nat],
             bound' \subseteq bound, selects' \subseteq selects,
             held' \subseteq held, UNCHANGED <<entryVars, lock, told, threadVars, handlerVars, wrong>>
      PROVE  TypeInv'
  <2>1. LifeType' /\ CauseType' /\ CellType'
    BY <1>1, <1>3 DEF LifeType, CauseType, CellType
  <2>2. EntryType' /\ LockType' /\ ToldType' /\ RunType' /\ WriteType' /\ HandlerType'
    BY <1>1, <1>3 DEF EntryType, entryVars, LockType, ToldType, RunType, WriteType, threadVars,
       HandlerType, handlerVars
  <2>3. TypeOK'
    BY <2>1, <2>2 DEF TypeOK, LifeType, EntryType, LockType, CellType, ToldType, RunType, Runs,
       WriteType, HandlerType, CauseType
  <2>4. PlaceInv' /\ CountInv'
    BY <1>3, PlacesKept DEF entryVars, threadVars
  <2> QED BY <2>3, <2>4 DEF TypeInv
<1>4. CASE /\ life \in {"probe", "cells", "urb"} /\ life' \in {"cells", "urb", "ready", "gone"}
           /\ misc' \in BOOLEAN /\ base' \in BOOLEAN
           /\ causes' \in {causes, causes \cup {"probe"}}
           /\ UNCHANGED <<entryVars, lock, cellVars, told, held, threadVars, handlerVars, wrong>>
  BY <1>1, <1>2, <1>3, <1>4 DEF Lives, cellVars, CellType, Lists
<1>5. ASSUME NEW k \in {"servo", "led", "adc"}, CleanStep(k), causes' = causes \/ Teardown
      PROVE  TypeInv'
  <2>1. causes' \subseteq {"writers", "teardown", "probe", "bind", "adc", "lost"}
    BY <1>1, <1>5 DEF Teardown, CauseType
  <2> QED BY <1>5, <2>1, CleanTypes DEF Lists
<1>6. CASE RemoveChildren
  <2>1. children' \in [Cells -> Nat]
    BY <1>6 DEF RemoveChildren
  <2> QED BY <1>1, <1>3, <1>6, <2>1 DEF RemoveChildren, Lives, LifeType
<1>7. CASE RemoveMisc
  BY <1>1, <1>2, <1>3, <1>7 DEF RemoveMisc, Lives, LifeType, cellVars, CellType, Lists
<1>8. CASE FreeDev
  BY <1>1, <1>2, <1>3, <1>8 DEF FreeDev, Lives, LifeType, cellVars, CellType, Lists
<1> QED BY <1>4, <1>5, <1>6, <1>7, <1>8, LifecycleCases

LEMMA NextCases ==
  ASSUME Next
  PROVE  \/ \E t \in Writers, c \in Commands : Write(t, c)
         \/ \E t \in Threads : Proceed(t)
         \/ \E h \in Handlers : Handles(h)
         \/ Lifecycle
BY DEF Next, Handles, Lifecycle

LEMMA TypeStep == ASSUME TypeInv, [Next]_vars PROVE TypeInv'
<1>1. ASSUME NEW t \in Threads, Proceed(t) PROVE TypeInv'
  BY <1>1, ProceedTypes, ProceedPlaces DEF TypeInv
<1>2. CASE UNCHANGED vars
  <2>1. TypeOK'
    BY <1>2 DEF vars, lifeVars, entryVars, cellVars, threadVars, handlerVars, TypeInv, TypeOK
  <2>2. PlaceInv' /\ CountInv'
    BY <1>2, PlacesKept DEF vars, lifeVars, entryVars, threadVars
  <2> QED BY <2>1, <2>2 DEF TypeInv
<1> QED BY <1>1, <1>2, WriteTypes, HandlerTypes, LifecycleTypes, NextCases

(* Types: the indices of entries, threads and attributes stay within       *)
(* bounds, and no count of children falls below zero.                      *)
THEOREM DriverTypeCorrect == Spec => []TypeOK
<1>1. TypeInv => TypeOK
  BY DEF TypeInv
<1> QED BY <1>1, TypeInit, TypeStep, PTL DEF Spec

-----------------------------------------------------------------------------
(* What the driver does not guard against, and what it keeps out as long   *)
(* as that does not happen.                                                *)

Working(t) == run[t].at # "idle"

(* Writers work one at a time.                                             *)
OneWriter == "writers" \notin causes => \A t, u \in Writers : Working(t) /\ Working(u) => t = u

(* They work on a device that is there.                                    *)
Undisturbed ==
  causes \cap {"teardown", "probe"} = {} /\ life \notin {"cells", "urb", "ready"} =>
    \A t \in Writers : ~Working(t)

ProbeFailed == "probe" \in causes => life = "gone"

(* Nothing happens before /dev/picolink exists.                            *)
NothingYet ==
  life = "probe" =>
    /\ fds = {} /\ ~misc /\ ~base /\ count = 0 /\ registered = {}
    /\ \A c \in Cells : children[c] = 0
    /\ \A t \in Writers : ~Working(t)

CauseInv == OneWriter /\ Undisturbed /\ ProbeFailed /\ NothingYet

LEMMA CauseInit == Init => CauseInv
<1> SUFFICES ASSUME Init PROVE CauseInv
  OBVIOUS
<1>1. \A t \in Writers : ~Working(t)
  BY IdleShape DEF Init, Working, Threads
<1> QED BY <1>1 DEF Init, CauseInv, OneWriter, Undisturbed, ProbeFailed, NothingYet

(* No other thread moves.                                                  *)
LEMMA Others ==
  ASSUME NEW t \in Threads, Went(t), NEW u \in Threads, u # t
  PROVE  /\ run'[u] = run[u]
         /\ Adding(u)' <=> Adding(u)
         /\ Registering(u)' <=> Registering(u)
         /\ Working(u)' <=> Working(u)
<1>1. run'[u] = run[u]
  BY DEF Went
<1> QED BY <1>1 DEF Adding, Registering, Working

LEMMA CauseProceed == ASSUME TypeInv, CauseInv, NEW t \in Threads, Proceed(t) PROVE CauseInv'
<1>1. Went(t) /\ Working(t)
  BY ProceedEntries DEF EntryStep, Went, Working
<1>2. \A u \in Writers : Working(u)' => Working(u)
  BY <1>1, Others DEF Threads
<1>3. life' = life /\ causes' \in {causes, causes \cup {"lost"}, causes \cup {"bind"}, causes \cup {"adc"}}
  BY ProceedFrame, ProceedCauses DEF lifeVars
<1>4. OneWriter'
  BY <1>2, <1>3 DEF CauseInv, OneWriter
<1>5. Undisturbed'
  BY <1>2, <1>3 DEF CauseInv, Undisturbed
<1>6. ProbeFailed'
  BY <1>3 DEF CauseInv, ProbeFailed
<1>7. life # "probe"
  BY <1>1 DEF CauseInv, NothingYet, TypeInv, PlaceInv, Threads, Working, Shape, Lists
<1> QED BY <1>3, <1>4, <1>5, <1>6, <1>7 DEF CauseInv, NothingYet

LEMMA CauseWrite ==
  ASSUME TypeInv, CauseInv, NEW t \in Writers, NEW c \in Commands, Write(t, c)
  PROVE  CauseInv'
<1>1. \A u \in Writers : u # t => run'[u] = run[u]
  BY WriteMoves DEF Threads
<1>2. \A u \in Writers : u # t => (Working(u)' <=> Working(u))
  BY <1>1 DEF Working
<1>3. life' = life /\ life # "probe"
  BY DEF Write, lifeVars, CauseInv, NothingYet
<1>4. /\ causes \subseteq causes'
      /\ "probe" \in causes' => "probe" \in causes
      /\ "writers" \notin causes' => \A u \in Writers : ~Working(u)
      /\ "teardown" \notin causes' => life \in {"probe", "cells", "urb", "ready"}
  BY DEF Write, Busy, Working, Disconnected
<1>5. OneWriter'
  BY <1>2, <1>4 DEF OneWriter
<1>6. Undisturbed'
  BY <1>3, <1>4 DEF Undisturbed
<1>7. ProbeFailed'
  BY <1>3, <1>4 DEF CauseInv, ProbeFailed
<1> QED BY <1>3, <1>5, <1>6, <1>7 DEF CauseInv, NothingYet

LEMMA CauseKept ==
  ASSUME CauseInv, life' = life, causes' = causes,
         \A u \in Writers : run'[u] = run[u],
         UNCHANGED <<fds, misc, base, count, registered, children>>
  PROVE  CauseInv'
<1>1. \A u \in Writers : Working(u)' <=> Working(u)
  BY DEF Working
<1> QED BY <1>1 DEF CauseInv, OneWriter, Undisturbed, ProbeFailed, NothingYet

LEMMA CauseHandler == ASSUME CauseInv, NEW h \in Handlers, Handles(h) PROVE CauseInv'
BY CauseKept DEF Handles, StartHandler, StartSelfOff, EndHandler, lifeVars, entryVars, cellVars,
   threadVars

LEMMA CauseLifecycle == ASSUME TypeInv, CauseInv, Lifecycle PROVE CauseInv'
<1>1. ASSUME NEW k \in Lists, CleanStep(k) PROVE \A u \in Writers : run'[u] = run[u]
  BY <1>1, ThreadsAssumption DEF CleanStep, Threads
<1>2. ASSUME \A u \in Writers : run'[u] = run[u], life' # "probe",
             causes' \in {causes, causes \cup {"probe"}, causes \cup {"teardown"}},
             life' \in {"cells", "urb", "ready"} \/ life \notin {"cells", "urb", "ready"}
               \/ "probe" \in causes' \/ (life = "ready" /\ Teardown),
             "probe" \in causes' => life' = "gone"
      PROVE  CauseInv'
  <2>1. \A u \in Writers : Working(u)' <=> Working(u)
    BY <1>2 DEF Working
  <2>2. OneWriter'
    BY <1>2, <2>1 DEF CauseInv, OneWriter
  <2>3. Undisturbed'
    <3>1. SUFFICES ASSUME causes' \cap {"teardown", "probe"} = {}, life' \notin {"cells", "urb", "ready"}
                   PROVE  \A u \in Writers : ~Working(u)
      BY <2>1 DEF Undisturbed
    <3>2. CASE life \notin {"cells", "urb", "ready"}
      BY <1>2, <3>1, <3>2 DEF CauseInv, Undisturbed
    <3>3. CASE life = "ready" /\ Teardown
      BY <3>1, <3>3 DEF Teardown, Busy, Working
    <3> QED BY <1>2, <3>1, <3>2, <3>3
  <2> QED BY <1>2, <2>2, <2>3 DEF CauseInv, ProbeFailed, NothingYet
<1>3. "probe" \in causes => life = "gone"
  BY DEF CauseInv, ProbeFailed
<1>4. CASE /\ life \in {"probe", "cells", "urb"} /\ life' \in {"cells", "urb", "ready", "gone"}
           /\ life # life' /\ causes' \in {causes, causes \cup {"probe"}}
           /\ life' = "gone" /\ life # "probe" => "probe" \in causes'
           /\ life = "probe" => causes' = causes /\ base' = base
           /\ UNCHANGED <<entryVars, lock, cellVars, told, held, threadVars, handlerVars, wrong>>
           /\ Lifecycle
  <2>1. "probe" \in causes' => life' = "gone"
    BY <1>3, <1>4 DEF Lifecycle, ProbeMisc, ProbeCells, ProbeUrb, FailProbe, Disconnect, Teardown, Leave,
       CleanLeds, CleanAdcs, RemoveChildren, RemoveMisc, FreeDev
  <2> QED BY <1>2, <1>4, <2>1 DEF threadVars
<1>5. CASE life = "ready" /\ CleanStep("servo") /\ Teardown
  BY <1>1, <1>2, <1>3, <1>5 DEF CleanStep, Teardown, Lists
<1>6. CASE life = "servo" /\ CleanStep("led") /\ causes' = causes
  BY <1>1, <1>2, <1>3, <1>6 DEF CleanStep, Lists
<1>7. CASE life = "led" /\ CleanStep("adc") /\ causes' = causes
  BY <1>1, <1>2, <1>3, <1>7 DEF CleanStep, Lists
<1>8. CASE RemoveChildren \/ RemoveMisc \/ FreeDev
  BY <1>2, <1>3, <1>8 DEF RemoveChildren, RemoveMisc, FreeDev, threadVars
<1> QED BY <1>4, <1>5, <1>6, <1>7, <1>8, LifecycleCases

LEMMA CauseStep == ASSUME TypeInv, CauseInv, [Next]_vars PROVE CauseInv'
<1>1. CASE UNCHANGED vars
  BY <1>1, CauseKept DEF vars, lifeVars, entryVars, cellVars, threadVars
<1> QED BY <1>1, NextCases, CauseProceed, CauseWrite, CauseHandler, CauseLifecycle

-----------------------------------------------------------------------------
(* Memory that was freed, whatever overlaps.                               *)

(* Servos and channels are freed after they left their list and sysfs and  *)
(* their handlers ended.                                                   *)
FreedIsGone ==
  \A i \in freed : entry[i].kind # "led" =>
    i \notin listed \cup exposed /\ \A h \in Handlers : handling[h] # i

(* A channel on its way to the list is the thread's own.                   *)
AddingOwn ==
  /\ \A t \in Writers : Adding(t) =>
       /\ run[t].mine \in exposed /\ run[t].mine \notin listed \cup freed
       /\ entry[run[t].mine].kind = "adc"
  /\ \A t, u \in Writers : Adding(t) /\ Adding(u) /\ run[t].mine = run[u].mine => t = u

RegisteringLed == \A t \in Writers : Registering(t) => entry[run[t].mine].kind = "led"

HandledExist == \A h \in Handlers : handling[h] \in 0 .. count

MemoryInv == FreedIsGone /\ AddingOwn /\ RegisteringLed /\ HandledExist /\ OneServoPerPin

LEMMA MemoryInit == Init => MemoryInv
<1> SUFFICES ASSUME Init PROVE MemoryInv
  OBVIOUS
<1>1. \A t \in Writers : ~Adding(t) /\ ~Registering(t)
  BY IdleShape DEF Init, Adding, Registering, Threads
<1> QED BY <1>1 DEF Init, MemoryInv, FreedIsGone, AddingOwn, RegisteringLed, HandledExist, OneServoPerPin

(* Steps that change no entry.                                             *)
LEMMA MemoryKept ==
  ASSUME MemoryInv, UNCHANGED <<count, entry, listed, exposed, freed>>,
         \A u \in Writers : Adding(u)' => Adding(u) /\ run'[u] = run[u],
         \A u \in Writers : Registering(u)' => Registering(u) /\ run'[u] = run[u],
         \A h \in Handlers : handling'[h] \in {0, handling[h]} \cup (exposed \cap 1 .. count),
         0 \notin freed, count \in Nat
  PROVE  MemoryInv'
<1> USE DEF MemoryInv
<1>1. FreedIsGone'
  BY DEF FreedIsGone
<1>2. AddingOwn'
  BY DEF AddingOwn
<1>3. RegisteringLed'
  BY DEF RegisteringLed
<1>4. HandledExist'
  BY DEF HandledExist
<1>5. OneServoPerPin'
  BY DEF OneServoPerPin
<1> QED BY <1>1, <1>2, <1>3, <1>4, <1>5

LEMMA EntryFacts ==
  ASSUME TypeInv
  PROVE  /\ count \in Nat /\ 0 \notin 1 .. count /\ 1 .. count \subseteq Entries
         /\ listed \subseteq 1 .. count /\ exposed \subseteq 1 .. count /\ freed \subseteq 1 .. count
         /\ \A i \in 1 .. count : entry[i].kind \in Lists
         /\ count + 1 \notin 1 .. count /\ count + 1 # 0 /\ count + 1 \notin 0 .. count
<1>1. EntryType
  BY TypeParts DEF TypeInv
<1>2. count \in Nat /\ 1 .. count \subseteq Entries
  BY <1>1, BoundsAssumption DEF EntryType, Entries
<1> QED BY <1>1, <1>2 DEF EntryType

LEMMA MemoryKeeping ==
  ASSUME TypeInv, MemoryInv, NEW t \in Threads, Keeping(t)
  PROVE  MemoryInv'
<1>1. Went(t) /\ UNCHANGED entryVars /\ ~Adding(t)' /\ ~Registering(t)'
  BY KeepingMoves
<1>2. handling' = handling
  BY ProceedFrame DEF Keeping, Proceed, handlerVars
<1>3. \A u \in Writers : (Adding(u)' => Adding(u) /\ run'[u] = run[u])
                         /\ (Registering(u)' => Registering(u) /\ run'[u] = run[u])
  BY <1>1, Others DEF Threads
<1>4. 0 \notin freed /\ count \in Nat
  BY EntryFacts
<1> QED BY <1>1, <1>2, <1>3, <1>4, MemoryKept DEF entryVars

(* What the steps that change entries have in common.                      *)
LEMMA EntryChange ==
  ASSUME TypeInv, NEW t \in Threads, Proceed(t)
  PROVE  /\ EntryStep(t) /\ Went(t) /\ handling' = handling
         /\ \A i \in 1 .. count : entry'[i].kind = entry[i].kind /\ entry'[i].pin = entry[i].pin
         /\ \A u \in Writers : u # t =>
              /\ run'[u] = run[u]
              /\ Adding(u)' <=> Adding(u)
              /\ Registering(u)' <=> Registering(u)
         /\ \A u \in Writers : Adding(u) \/ Registering(u) => run[u].mine \in 1 .. count
<1>1. EntryStep(t) /\ Went(t) /\ handling' = handling
  BY ProceedEntries, ProceedFrame DEF EntryStep, handlerVars
<1>2. \A u \in Writers : u # t =>
        run'[u] = run[u] /\ (Adding(u)' <=> Adding(u)) /\ (Registering(u)' <=> Registering(u))
  BY <1>1, Others DEF Threads
<1> QED BY <1>1, <1>2 DEF EntryStep, KeepsKinds, TypeInv, PlaceInv

LEMMA MemoryAddLed == ASSUME TypeInv, MemoryInv, NEW t \in Threads, AddLed(t) PROVE MemoryInv'
<1> USE DEF MemoryInv
<1>1. Proceed(t)
  BY DEF Proceed
<1>2. /\ run'[t].at = "register" /\ run'[t].cmd = run[t].cmd /\ run'[t].mine = count + 1
      /\ run[t].cmd.what = "led" /\ ~Adding(t)'
      /\ count + 1 \in Entries
  BY AddLedMoves DEF Went, Adding
<1>3. /\ count' = count + 1 /\ listed' = listed \cup {count + 1}
      /\ exposed' = exposed /\ freed' = freed
      /\ entry' = [entry EXCEPT ![count + 1] =
                     [kind |-> run[t].cmd.what, pin |-> run[t].cmd.pin, range |-> 0]]
  BY DEF AddLed, New
<1>4. entry'[count + 1].kind = "led"
  BY <1>2, <1>3, TypeParts DEF TypeInv, EntryType
<1> HIDE DEF MemoryInv
<1>5. FreedIsGone'
  BY <1>1, <1>3, EntryChange, EntryFacts DEF FreedIsGone, MemoryInv
<1>6. AddingOwn'
  BY <1>1, <1>2, <1>3, EntryChange, EntryFacts DEF AddingOwn, MemoryInv
<1>7. RegisteringLed'
  BY <1>1, <1>2, <1>4, EntryChange DEF RegisteringLed, MemoryInv
<1>8. HandledExist'
  BY <1>1, <1>3, EntryChange, EntryFacts DEF HandledExist, MemoryInv
<1>9. OneServoPerPin'
  BY <1>1, <1>3, <1>4, EntryChange, EntryFacts DEF OneServoPerPin, MemoryInv
<1> QED BY <1>5, <1>6, <1>7, <1>8, <1>9 DEF MemoryInv

LEMMA MemoryRegisterLed ==
  ASSUME TypeInv, MemoryInv, NEW t \in Threads, RegisterLed(t)
  PROVE  MemoryInv'
<1>1. Proceed(t)
  BY DEF Proceed
<1>2. /\ t \in Writers /\ Registering(t) /\ ~Adding(t)' /\ run'[t].mine = run[t].mine
      /\ exposed' = exposed \cup {run[t].mine} \/ exposed' = exposed
      /\ UNCHANGED <<count, entry, listed, freed>>
  BY RegisterLedMoves, ThreadFacts DEF Registering, Adding, RegisterLed
<1>3. run[t].mine \in 1 .. count /\ entry[run[t].mine].kind = "led"
  BY <1>2, EntryChange, <1>1 DEF MemoryInv, RegisteringLed
<1>4. FreedIsGone'
  BY <1>1, <1>2, <1>3, EntryChange DEF FreedIsGone, MemoryInv
<1>5. AddingOwn'
  BY <1>1, <1>2, EntryChange DEF AddingOwn, MemoryInv
<1>6. RegisteringLed'
  BY <1>1, <1>2, <1>3, EntryChange DEF RegisteringLed, MemoryInv
<1>7. HandledExist' /\ OneServoPerPin'
  BY <1>1, <1>2, EntryChange DEF HandledExist, OneServoPerPin, MemoryInv
<1> QED BY <1>4, <1>5, <1>6, <1>7 DEF MemoryInv

LEMMA MemoryUnlistLed ==
  ASSUME TypeInv, MemoryInv, NEW t \in Threads, UnlistLed(t)
  PROVE  MemoryInv'
<1>1. Proceed(t)
  BY DEF Proceed
<1>2. /\ t \in Writers /\ Registering(t) /\ ~Adding(t)' /\ ~Registering(t)'
      /\ listed' = listed \ {run[t].mine} /\ freed' = freed \cup {run[t].mine}
      /\ UNCHANGED <<count, entry, exposed>>
  BY UnlistLedMoves, IdlePlaced, ThreadFacts DEF Registering, UnlistLed
<1>3. run[t].mine \in 1 .. count /\ entry[run[t].mine].kind = "led"
  BY <1>2, EntryChange, <1>1 DEF MemoryInv, RegisteringLed
<1>4. FreedIsGone'
  BY <1>1, <1>2, <1>3, EntryChange DEF FreedIsGone, MemoryInv
<1>5. AddingOwn'
  BY <1>1, <1>2, <1>3, EntryChange DEF AddingOwn, MemoryInv
<1>6. RegisteringLed'
  BY <1>1, <1>2, <1>3, EntryChange DEF RegisteringLed, MemoryInv
<1>7. HandledExist' /\ OneServoPerPin'
  BY <1>1, <1>2, EntryChange DEF HandledExist, OneServoPerPin, MemoryInv
<1> QED BY <1>4, <1>5, <1>6, <1>7 DEF MemoryInv

LEMMA MemoryConfigServo ==
  ASSUME TypeInv, MemoryInv, NEW t \in Threads, ConfigServo(t)
  PROVE  MemoryInv'
<1>1. Proceed(t)
  BY DEF Proceed
<1>2. Went(t) /\ run[t].at = "add" /\ run[t].cmd.what = "servo" /\ freed' = freed
      /\ run[t].cmd.do = "on" /\ count + 1 \in Entries
  BY ConfigServoMoves DEF ConfigServo
<1>3. CASE /\ run'[t].at = "send" /\ run'[t].mine \in Matches(t)
           /\ entry' = [entry EXCEPT ![run'[t].mine].range = run[t].cmd.val]
           /\ UNCHANGED <<count, listed, exposed>>
  <2>1. ~Adding(t)' /\ ~Registering(t)'
    BY <1>3 DEF Adding, Registering
  <2>2. FreedIsGone'
    BY <1>1, <1>2, <1>3, EntryChange, EntryFacts DEF FreedIsGone, MemoryInv
  <2>3. AddingOwn'
    BY <1>1, <1>2, <1>3, <2>1, EntryChange DEF AddingOwn, MemoryInv
  <2>4. RegisteringLed'
    BY <1>1, <2>1, EntryChange DEF RegisteringLed, MemoryInv
  <2>5. HandledExist'
    BY <1>1, <1>3, EntryChange DEF HandledExist, MemoryInv
  <2>6. OneServoPerPin'
    BY <1>1, <1>3, EntryChange, EntryFacts DEF OneServoPerPin, MemoryInv
  <2> QED BY <2>2, <2>3, <2>4, <2>5, <2>6 DEF MemoryInv
<1>4. CASE /\ Matches(t) = {} /\ run'[t].at = "send" /\ run'[t].mine = count + 1
           /\ count' = count + 1
           /\ entry' = [entry EXCEPT ![count + 1] =
                 [kind |-> "servo", pin |-> run[t].cmd.pin, range |-> run[t].cmd.val]]
           /\ listed' = listed \cup {count + 1} /\ exposed' = exposed \cup {count + 1}
  <2>1. ~Adding(t)' /\ ~Registering(t)'
    BY <1>4 DEF Adding, Registering
  <2>2. entry'[count + 1].kind = "servo" /\ entry'[count + 1].pin = run[t].cmd.pin
    BY <1>2, <1>4, TypeParts DEF TypeInv, EntryType
  <2>3. FreedIsGone'
    BY <1>1, <1>2, <1>4, EntryChange, EntryFacts DEF FreedIsGone, MemoryInv, HandledExist
  <2>4. AddingOwn'
    BY <1>1, <1>2, <1>4, <2>1, EntryChange, EntryFacts DEF AddingOwn, MemoryInv
  <2>5. RegisteringLed'
    BY <1>1, <2>1, EntryChange DEF RegisteringLed, MemoryInv
  <2>6. HandledExist'
    BY <1>1, <1>4, EntryChange, EntryFacts DEF HandledExist, MemoryInv
  <2>7. \A i \in listed : entry[i].kind = "servo" => entry[i].pin # run[t].cmd.pin
    BY <1>2, <1>4 DEF Matches
  <2>8. OneServoPerPin'
    BY <1>1, <1>4, <2>2, <2>7, EntryChange, EntryFacts DEF OneServoPerPin, MemoryInv
  <2> QED BY <2>3, <2>4, <2>5, <2>6, <2>8 DEF MemoryInv
<1>5. CASE run'[t] = Idle /\ UNCHANGED <<count, entry, listed, exposed>>
  <2>1. \A u \in Writers : (Adding(u)' => Adding(u) /\ run'[u] = run[u])
                           /\ (Registering(u)' => Registering(u) /\ run'[u] = run[u])
    BY <1>1, <1>5, IdlePlaced, EntryChange
  <2> QED BY <1>1, <1>2, <1>5, <2>1, EntryChange, EntryFacts, MemoryKept
<1> QED BY <1>3, <1>4, <1>5, ConfigServoMoves

LEMMA MemoryRegisterAdc ==
  ASSUME TypeInv, MemoryInv, NEW t \in Threads, RegisterAdc(t)
  PROVE  MemoryInv'
<1>1. Proceed(t)
  BY DEF Proceed
<1>2. Went(t) /\ run[t].at = "register" /\ run[t].cmd.what = "adc" /\ freed' = freed
      /\ listed' = listed /\ count + 1 \in Entries
  BY RegisterAdcMoves DEF RegisterAdc
<1>3. CASE /\ run'[t].at = "add" /\ run'[t].mine = count + 1
           /\ count' = count + 1
           /\ entry' = [entry EXCEPT ![count + 1] = [kind |-> "adc", pin |-> run[t].cmd.pin, range |-> 0]]
           /\ exposed' = exposed \cup {count + 1}
  <2>1. ~Registering(t)'
    BY <1>3 DEF Registering
  <2>2. entry'[count + 1].kind = "adc"
    BY <1>2, <1>3, TypeParts DEF TypeInv, EntryType
  <2>3. FreedIsGone'
    BY <1>1, <1>2, <1>3, EntryChange, EntryFacts DEF FreedIsGone, MemoryInv
  <2>4. AddingOwn'
    BY <1>1, <1>2, <1>3, <2>2, EntryChange, EntryFacts DEF AddingOwn, MemoryInv
  <2>5. RegisteringLed'
    BY <1>1, <2>1, EntryChange DEF RegisteringLed, MemoryInv
  <2>6. HandledExist'
    BY <1>1, <1>3, EntryChange, EntryFacts DEF HandledExist, MemoryInv
  <2>7. OneServoPerPin'
    BY <1>1, <1>2, EntryChange, EntryFacts DEF OneServoPerPin, MemoryInv
  <2> QED BY <2>3, <2>4, <2>5, <2>6, <2>7 DEF MemoryInv
<1>4. CASE run'[t] = Idle /\ UNCHANGED <<count, entry, exposed>>
  <2>1. \A u \in Writers : (Adding(u)' => Adding(u) /\ run'[u] = run[u])
                           /\ (Registering(u)' => Registering(u) /\ run'[u] = run[u])
    BY <1>1, <1>4, IdlePlaced, EntryChange
  <2> QED BY <1>1, <1>2, <1>4, <2>1, EntryChange, EntryFacts, MemoryKept
<1> QED BY <1>3, <1>4, RegisterAdcMoves

LEMMA MemoryAddAdc ==
  ASSUME TypeInv, MemoryInv, NEW t \in Threads, AddAdc(t)
  PROVE  MemoryInv'
<1>1. Proceed(t)
  BY DEF Proceed
<1>2. /\ t \in Writers /\ Adding(t) /\ ~Adding(t)' /\ ~Registering(t)'
      /\ listed' = listed \cup {run[t].mine} /\ UNCHANGED <<count, entry, exposed, freed>>
  BY AddAdcMoves, IdlePlaced DEF AddAdc
<1>3. /\ run[t].mine \in 1 .. count /\ entry[run[t].mine].kind = "adc" /\ run[t].mine \notin freed
      /\ \A u \in Writers : Adding(u) /\ run[u].mine = run[t].mine => u = t
  BY <1>1, <1>2, EntryChange DEF MemoryInv, AddingOwn
<1>4. FreedIsGone'
  BY <1>1, <1>2, <1>3, EntryChange DEF FreedIsGone, MemoryInv
<1>5. AddingOwn'
  BY <1>1, <1>2, <1>3, EntryChange DEF AddingOwn, MemoryInv
<1>6. RegisteringLed' /\ HandledExist'
  BY <1>1, <1>2, EntryChange DEF RegisteringLed, HandledExist, MemoryInv
<1>7. OneServoPerPin'
  BY <1>1, <1>2, <1>3, EntryChange DEF OneServoPerPin, MemoryInv
<1> QED BY <1>4, <1>5, <1>6, <1>7 DEF MemoryInv

LEMMA MemoryRemove ==
  ASSUME TypeInv, MemoryInv, NEW t \in Threads, NEW i \in Entries, Remove(t, i)
  PROVE  MemoryInv'
<1>1. Proceed(t)
  BY DEF Proceed
<1>2. /\ i \in listed /\ \A h \in Handlers : handling[h] # i
      /\ exposed' = exposed \ {i} /\ listed' = listed \ {i} /\ freed' = freed \cup {i}
      /\ UNCHANGED <<count, entry>>
  BY DEF Remove, Matches, Drained
<1>3. ~Adding(t)' /\ ~Registering(t)'
  BY RemoveMoves, IdleShape DEF Adding, Registering
<1>4. FreedIsGone'
  BY <1>1, <1>2, EntryChange DEF FreedIsGone, MemoryInv
<1>5. AddingOwn'
  BY <1>1, <1>2, <1>3, EntryChange DEF AddingOwn, MemoryInv
<1>6. RegisteringLed' /\ HandledExist'
  BY <1>1, <1>2, <1>3, EntryChange DEF RegisteringLed, HandledExist, MemoryInv
<1>7. OneServoPerPin'
  BY <1>2 DEF OneServoPerPin, MemoryInv
<1> QED BY <1>4, <1>5, <1>6, <1>7 DEF MemoryInv

LEMMA MemoryProceed == ASSUME TypeInv, MemoryInv, NEW t \in Threads, Proceed(t) PROVE MemoryInv'
BY ProceedCases, MemoryKeeping, MemoryAddLed, MemoryRegisterLed, MemoryUnlistLed, MemoryConfigServo,
   MemoryRegisterAdc, MemoryAddAdc, MemoryRemove

(* An attribute is handled only of an entry that sysfs shows.              *)
LEMMA HandlerMoves ==
  ASSUME TypeInv, NEW h \in Handlers, Handles(h)
  PROVE  \A g \in Handlers : handling'[g] \in {0, handling[g]} \cup exposed
<1>1. HandlerType
  BY TypeParts DEF TypeInv
<1> QED BY <1>1 DEF Handles, StartHandler, StartSelfOff, EndHandler, HandlerType

LEMMA MemoryOther ==
  ASSUME TypeInv, MemoryInv, UNCHANGED entryVars,
         \A u \in Writers : Adding(u)' => Adding(u) /\ run'[u] = run[u],
         \A u \in Writers : Registering(u)' => Registering(u) /\ run'[u] = run[u],
         \A h \in Handlers : handling'[h] \in {0, handling[h]} \cup exposed
  PROVE  MemoryInv'
<1>1. \A h \in Handlers : handling'[h] \in {0, handling[h]} \cup (exposed \cap 1 .. count)
  BY EntryFacts
<1>2. 0 \notin freed /\ count \in Nat
  BY EntryFacts
<1> QED BY <1>1, <1>2, MemoryKept DEF entryVars

LEMMA MemoryStep == ASSUME TypeInv, MemoryInv, [Next]_vars PROVE MemoryInv'
<1>1. ASSUME UNCHANGED run, UNCHANGED entryVars,
             \A h \in Handlers : handling'[h] \in {0, handling[h]} \cup exposed
      PROVE  MemoryInv'
  <2>1. \A u \in Writers : (Adding(u)' <=> Adding(u)) /\ (Registering(u)' <=> Registering(u))
                           /\ run'[u] = run[u]
    BY <1>1 DEF Adding, Registering
  <2> QED BY <1>1, <2>1, MemoryOther
<1>2. ASSUME NEW t \in Writers, NEW c \in Commands, Write(t, c) PROVE MemoryInv'
  <2>1. /\ ~Adding(t)' /\ ~Registering(t)' /\ UNCHANGED <<entryVars, handling>>
        /\ \A u \in Writers : u # t => run'[u] = run[u]
    BY <1>2, WriteMoves DEF Write, handlerVars, Threads
  <2>2. \A u \in Writers : (Adding(u)' => Adding(u) /\ run'[u] = run[u])
                           /\ (Registering(u)' => Registering(u) /\ run'[u] = run[u])
    <3> SUFFICES ASSUME NEW u \in Writers
                 PROVE  (Adding(u)' => Adding(u) /\ run'[u] = run[u])
                        /\ (Registering(u)' => Registering(u) /\ run'[u] = run[u])
      OBVIOUS
    <3>1. CASE u = t
      BY <2>1, <3>1
    <3>2. CASE u # t
      BY <2>1, <3>2 DEF Adding, Registering
    <3> QED BY <3>1, <3>2
  <2> QED BY <2>1, <2>2, MemoryOther
<1>3. ASSUME NEW h \in Handlers, Handles(h) PROVE MemoryInv'
  <2>1. UNCHANGED <<run, entryVars>>
    BY <1>3 DEF Handles, StartHandler, StartSelfOff, EndHandler, threadVars
  <2> QED BY <1>1, <1>3, <2>1, HandlerMoves
<1>4. CASE Lifecycle
  <2>1. UNCHANGED <<entryVars, handling>>
    BY <1>4, LifecycleCases DEF CleanStep, handlerVars, RemoveChildren, RemoveMisc, FreeDev
  <2>2. CASE UNCHANGED run
    BY <1>1, <2>1, <2>2
  <2>3. ASSUME NEW k \in Lists, CleanStep(k) PROVE MemoryInv'
    <3>1. \A u \in Writers : run'[u] = run[u]
      BY <2>3, ThreadsAssumption DEF CleanStep, Threads
    <3>2. \A u \in Writers : (Adding(u)' <=> Adding(u)) /\ (Registering(u)' <=> Registering(u))
      BY <3>1 DEF Adding, Registering
    <3> QED BY <2>1, <3>1, <3>2, MemoryOther
  <2> QED BY <1>4, <2>2, <2>3, LifecycleCases DEF threadVars, RemoveChildren, RemoveMisc, FreeDev, Lists
<1>5. CASE UNCHANGED vars
  BY <1>1, <1>5 DEF vars, threadVars, handlerVars
<1>6. ASSUME NEW t \in Threads, Proceed(t) PROVE MemoryInv'
  BY <1>6, MemoryProceed
<1> QED BY <1>2, <1>3, <1>4, <1>5, <1>6, NextCases

(* However writers overlap, a pin has one servo at most: the lookup and    *)
(* the creation share one critical section (mfd-pwm.c 124-157).            *)
THEOREM OneServo == Spec => []OneServoPerPin
<1>1. Init => TypeInv /\ MemoryInv
  BY TypeInit, MemoryInit
<1>2. TypeInv /\ MemoryInv /\ [Next]_vars => (TypeInv /\ MemoryInv)'
  BY TypeStep, MemoryStep
<1>3. MemoryInv => OneServoPerPin
  BY DEF MemoryInv
<1> QED BY <1>1, <1>2, <1>3, PTL DEF Spec

-----------------------------------------------------------------------------
(* g_spi is set as long as the SPI child's probe succeeded.                *)

SpiBound ==
  "bind" \notin causes /\ "spi" \in registered /\ life \notin {"children", "misc", "gone"} =>
    "spi" \in bound

SelectAfterProbe == \A t \in Writers : run[t].at = "select" => "spi" \in registered

SpiInv == SpiBound /\ SelectAfterProbe

LEMMA SpiInit == Init => SpiInv
<1> SUFFICES ASSUME Init PROVE SpiInv
  OBVIOUS
<1>1. \A t \in Writers : run[t].at = "idle"
  BY IdleShape DEF Init, Threads
<1> QED BY <1>1 DEF Init, SpiInv, SpiBound, SelectAfterProbe

LEMMA SpiProceed == ASSUME TypeInv, SpiInv, NEW t \in Threads, Proceed(t) PROVE SpiInv'
<1>1. Went(t) /\ life' = life
  BY ProceedEntries, ProceedFrame DEF EntryStep, lifeVars
<1>2. \A u \in Writers : u # t => run'[u] = run[u]
  BY <1>1, Others DEF Threads
<1>3. CASE Probe(t)
  <2>1. /\ run'[t].at # "select" /\ registered \subseteq registered'
        /\ bound \subseteq bound' /\ causes \subseteq causes'
        /\ "spi" \in registered' => "spi" \in registered \cup bound' \/ "bind" \in causes'
    BY <1>3, ProbeMoves, IdleShape DEF Probe, Cells
  <2> QED BY <1>1, <1>2, <2>1 DEF SpiInv, SpiBound, SelectAfterProbe
<1>4. CASE Unplug(t)
  <2>1. /\ run'[t].at = "idle" /\ causes' = causes
        /\ "spi" \in registered' <=> "spi" \in registered
        /\ "spi" \in bound' <=> "spi" \in bound
    BY <1>4, UnplugMoves, IdleShape DEF Unplug
  <2> QED BY <1>1, <1>2, <2>1 DEF SpiInv, SpiBound, SelectAfterProbe
<1>5. CASE ~Probe(t) /\ ~Unplug(t)
  <2>1. registered' = registered /\ bound' = bound
    BY <1>5, CellFrame DEF cellVars, Select
  <2>2. causes \subseteq causes'
    BY ProceedCauses
  <2>3. run'[t].at = "select" => "spi" \in registered
    <3>1. CASE Keeping(t)
      BY <1>5, <3>1, FindMoves, SendLedMoves, SendServoMoves, SendServoOffMoves, TakeMoves, ReleaseMoves,
         SendCellMoves, TestMoves, PortMoves, PatchMoves, TestSelectMoves, SelectMoves, IdleShape DEF Keeping
    <3>2. CASE AddLed(t) \/ RegisterLed(t) \/ UnlistLed(t)
      BY <3>2, AddLedMoves, RegisterLedMoves, UnlistLedMoves, IdleShape
    <3>3. CASE ConfigServo(t) \/ RegisterAdc(t) \/ AddAdc(t)
      BY <3>3, ConfigServoMoves, RegisterAdcMoves, AddAdcMoves, IdleShape
    <3>4. ASSUME NEW i \in Entries, Remove(t, i) PROVE run'[t].at # "select"
      BY <3>4, RemoveMoves, IdleShape
    <3> QED BY <3>1, <3>2, <3>3, <3>4, ProceedCases
  <2> QED BY <1>1, <1>2, <2>1, <2>2, <2>3 DEF SpiInv, SpiBound, SelectAfterProbe
<1> QED BY <1>3, <1>4, <1>5

LEMMA SpiStep == ASSUME TypeInv, SpiInv, [Next]_vars PROVE SpiInv'
<1>1. ASSUME \A u \in Writers : run'[u].at = "select" => run'[u] = run[u],
             registered' = registered, causes \subseteq causes',
             \/ life' = life /\ bound' = bound
             \/ life' \in {"children", "misc", "gone"}
             \/ life \notin {"children", "misc", "gone"} /\ bound' = bound
      PROVE  SpiInv'
  BY <1>1 DEF SpiInv, SpiBound, SelectAfterProbe
<1>2. ASSUME NEW t \in Writers, NEW c \in Commands, Write(t, c) PROVE SpiInv'
  <2>1. /\ life' = life /\ bound' = bound /\ registered' = registered /\ causes \subseteq causes'
        /\ run'[t].at # "select" /\ \A u \in Writers : u # t => run'[u] = run[u]
    BY <1>2, WriteMoves, EntryShape DEF Write, lifeVars, cellVars, Threads
  <2> QED BY <1>1, <2>1
<1>3. ASSUME NEW h \in Handlers, Handles(h) PROVE SpiInv'
  BY <1>1, <1>3 DEF Handles, StartHandler, StartSelfOff, EndHandler, lifeVars, cellVars, threadVars
<1>4. CASE Lifecycle
  <2>1. ASSUME NEW k \in Lists, CleanStep(k), life \notin {"children", "misc", "gone"},
               causes \subseteq causes'
        PROVE  SpiInv'
    BY <1>1, <2>1, ThreadsAssumption DEF CleanStep, Threads, cellVars
  <2>2. CASE RemoveChildren \/ RemoveMisc \/ FreeDev
    <3>1. run' = run /\ registered' = registered /\ causes' = causes
          /\ life' \in {"children", "misc", "gone"}
      BY <2>2 DEF RemoveChildren, RemoveMisc, FreeDev, threadVars, cellVars
    <3> QED BY <1>1, <3>1
  <2>3. CASE /\ life \in {"probe", "cells", "urb"}
             /\ causes' \in {causes, causes \cup {"probe"}}
             /\ UNCHANGED <<entryVars, lock, cellVars, told, held, threadVars, handlerVars, wrong>>
    BY <1>1, <2>3 DEF threadVars, cellVars
  <2> QED BY <1>4, <2>1, <2>2, <2>3, LifecycleCases DEF Lists, Teardown
<1>5. CASE UNCHANGED vars
  BY <1>1, <1>5 DEF vars, lifeVars, cellVars, threadVars
<1> QED BY <1>2, <1>3, <1>4, <1>5, SpiProceed, NextCases

-----------------------------------------------------------------------------
(* What holds as long as writers do not overlap each other or the removal  *)
(* of the device, and no probe failed late.                                *)

Calm == causes \cap {"writers", "teardown", "probe"} = {}

(* Then one thread at most is in the middle of something.                  *)
LEMMA Alone ==
  ASSUME TypeInv, CauseInv, Calm, NEW t \in Threads, Working(t)
  PROVE  /\ \A u \in Threads : u # t => ~Working(u)
         /\ \A u \in Writers : u # t => ~Working(u) /\ ~Adding(u) /\ ~Registering(u)
         /\ t \in Writers => life \in {"cells", "urb", "ready"}
<1>1. Working(Hub) => life \in Lists
  BY ThreadFacts DEF TypeInv, PlaceInv, Shape, Threads, Working
<1>2. t \in Writers => life \in {"cells", "urb", "ready"}
  BY DEF Calm, CauseInv, Undisturbed
<1>3. \A u \in Threads : u # t => ~Working(u)
  BY <1>1, <1>2 DEF Calm, CauseInv, OneWriter, Undisturbed, Lists, Threads
<1>4. \A u \in Writers : u # t => ~Adding(u) /\ ~Registering(u)
  BY <1>3 DEF Working, Adding, Registering, Threads
<1> QED BY <1>2, <1>3, <1>4 DEF Threads

(* The common part of the steps of the thread that works.                  *)
LEMMA CalmChange ==
  ASSUME TypeInv, CauseInv, Calm', NEW t \in Threads, Proceed(t)
  PROVE  /\ Calm /\ Went(t) /\ handling' = handling /\ life' = life /\ base' = base
         /\ t \in Writers => life \in {"cells", "urb", "ready"} /\ ~Disconnected
         /\ t \notin Writers => t = Hub
         /\ \A i \in 1 .. count : entry'[i].kind = entry[i].kind /\ entry'[i].pin = entry[i].pin
         /\ \A u \in Writers : u # t =>
              /\ run'[u] = run[u] /\ ~Working(u) /\ run[u].at = "idle"
              /\ ~Adding(u)' /\ ~Adding(u) /\ ~Registering(u)' /\ ~Registering(u)
         /\ \A u \in Writers : Adding(u) \/ Registering(u) => run[u].mine \in 1 .. count
<1>1. Calm
  BY ProceedCauses DEF Calm
<1>2. Working(t)
  BY ProceedEntries DEF EntryStep, Went, Working
<1>3. life' = life /\ base' = base
  BY ProceedFrame DEF lifeVars
<1>4. t \notin Writers => t = Hub
  BY DEF Threads
<1>5. t \in Writers => life \in {"cells", "urb", "ready"} /\ ~Disconnected
  BY <1>1, <1>2, Alone DEF Disconnected
<1>6. \A u \in Writers : u # t => ~Working(u) /\ ~Adding(u) /\ ~Registering(u)
  BY <1>1, <1>2, Alone
<1>7. \A u \in Writers : ~Working(u) => run[u].at = "idle"
  BY DEF Working
<1> QED BY <1>1, <1>3, <1>4, <1>5, <1>6, <1>7, EntryChange

(* Lists and sysfs show the same entries but for the one under way, and    *)
(* memory is freed exactly of what is in neither.                          *)
ListsInv ==
  Calm =>
    /\ \A i \in 1 .. count : i \in freed <=> i \notin listed \cup exposed
    /\ \A i \in listed \ exposed : \E t \in Writers : Registering(t) /\ run[t].mine = i
    /\ \A i \in exposed \ listed : \E t \in Writers : Adding(t) /\ run[t].mine = i
    /\ \A t \in Writers : Registering(t) => run[t].mine \in listed \ exposed
    /\ \A h \in Handlers : handling[h] = 0 \/ handling[h] \in exposed

LEMMA ListsInit == Init => ListsInv
<1> SUFFICES ASSUME Init PROVE ListsInv
  OBVIOUS
<1>1. \A t \in Writers : ~Adding(t) /\ ~Registering(t)
  BY IdleShape DEF Init, Adding, Registering, Threads
<1> QED BY <1>1 DEF Init, ListsInv

LEMMA ListsProceed ==
  ASSUME TypeInv, CauseInv, MemoryInv, ListsInv, NEW t \in Threads, Proceed(t)
  PROVE  ListsInv'
<1> SUFFICES ASSUME Calm' PROVE ListsInv'
  BY DEF ListsInv
<1> DEFINE Before ==
      /\ \A i \in 1 .. count : i \in freed <=> i \notin listed \cup exposed
      /\ \A i \in listed \ exposed : t \in Writers /\ Registering(t) /\ run[t].mine = i
      /\ \A i \in exposed \ listed : t \in Writers /\ Adding(t) /\ run[t].mine = i
      /\ t \in Writers /\ Registering(t) => run[t].mine \in listed \ exposed
      /\ \A h \in Handlers : handling[h] = 0 \/ handling[h] \in exposed
    After ==
      /\ \A i \in 1 .. count' : i \in freed' <=> i \notin listed' \cup exposed'
      /\ \A i \in listed' \ exposed' : t \in Writers /\ Registering(t)' /\ run'[t].mine = i
      /\ \A i \in exposed' \ listed' : t \in Writers /\ Adding(t)' /\ run'[t].mine = i
      /\ t \in Writers /\ Registering(t)' => run'[t].mine \in listed' \ exposed'
      /\ \A h \in Handlers : handling[h] = 0 \/ handling[h] \in exposed'
<1>1. Before
  BY CalmChange DEF ListsInv
<1>2. SUFFICES After
  <2>1. handling' = handling /\ \A u \in Writers : u # t => ~Registering(u)'
    BY CalmChange
  <2> QED BY <2>1 DEF ListsInv
<1> HIDE DEF Before, After
<1>3. CASE Keeping(t)
  BY <1>1, <1>3, KeepingMoves DEF entryVars, Before, After
<1>4. CASE AddLed(t)
  <2>1. /\ run'[t].at = "register" /\ run'[t].cmd = run[t].cmd /\ run'[t].mine = count + 1
        /\ run[t].cmd.what = "led" /\ run[t].at = "add" /\ t \in Writers
    BY <1>4, AddLedMoves DEF Went, Adders
  <2>2. Registering(t)' /\ ~Adding(t)' /\ ~Adding(t) /\ ~Registering(t)
    BY <2>1 DEF Adding, Registering
  <2>3. /\ count' = count + 1 /\ listed' = listed \cup {count + 1}
        /\ exposed' = exposed /\ freed' = freed
    BY <1>4 DEF AddLed, New
  <2> QED BY <1>1, <2>1, <2>2, <2>3, EntryFacts DEF Before, After
<1>5. CASE RegisterLed(t)
  <2>1. /\ Registering(t) /\ t \in Writers /\ ~Adding(t)' /\ ~Adding(t) /\ run'[t].mine = run[t].mine
        /\ run'[t].cmd = run[t].cmd /\ run[t].cmd.what = "led"
        /\ \/ run'[t].at = "send" /\ exposed' = exposed \cup {run[t].mine}
           \/ run'[t].at = "unlist" /\ exposed' = exposed
        /\ UNCHANGED <<count, entry, listed, freed>>
    BY <1>5, RegisterLedMoves, ThreadFacts DEF Registering, Adding, RegisterLed, Went
  <2>2. \/ ~Registering(t)' /\ exposed' = exposed \cup {run[t].mine}
        \/ Registering(t)' /\ exposed' = exposed
    BY <2>1 DEF Registering
  <2> QED BY <1>1, <2>1, <2>2 DEF Before, After
<1>6. CASE UnlistLed(t)
  <2>1. /\ t \in Writers /\ Registering(t) /\ ~Adding(t) /\ ~Adding(t)' /\ ~Registering(t)'
        /\ listed' = listed \ {run[t].mine} /\ freed' = freed \cup {run[t].mine}
        /\ UNCHANGED <<count, entry, exposed>>
    BY <1>6, UnlistLedMoves, IdlePlaced, ThreadFacts DEF Registering, Adding, UnlistLed
  <2> QED BY <1>1, <2>1 DEF Before, After
<1>7. CASE ConfigServo(t)
  <2>1. ~Adding(t) /\ ~Registering(t) /\ ~Adding(t)' /\ ~Registering(t)' /\ freed' = freed
    BY <1>7, ConfigServoMoves, IdleShape DEF Adding, Registering, Went, ConfigServo
  <2>2. \/ UNCHANGED <<count, listed, exposed>>
        \/ count' = count + 1 /\ listed' = listed \cup {count + 1} /\ exposed' = exposed \cup {count + 1}
    BY <1>7, ConfigServoMoves
  <2> QED BY <1>1, <2>1, <2>2, EntryFacts DEF Before, After
<1>8. CASE RegisterAdc(t)
  <2>1. /\ ~Adding(t) /\ ~Registering(t) /\ t \in Writers /\ freed' = freed /\ listed' = listed
        /\ \/ /\ run'[t].at = "add" /\ run'[t].cmd = run[t].cmd /\ run[t].cmd.what = "adc"
              /\ run'[t].mine = count + 1
              /\ count' = count + 1 /\ exposed' = exposed \cup {count + 1}
           \/ run'[t].at = "idle" /\ UNCHANGED <<count, exposed>>
    BY <1>8, RegisterAdcMoves, IdleShape DEF Adding, Registering, Went, RegisterAdc, Adders
  <2>2. ~Registering(t)'
    BY <2>1 DEF Registering
  <2>3. \/ /\ Adding(t)' /\ run'[t].mine = count + 1
           /\ count' = count + 1 /\ exposed' = exposed \cup {count + 1}
        \/ ~Adding(t)' /\ UNCHANGED <<count, exposed>>
    BY <2>1 DEF Adding
  <2> QED BY <1>1, <2>1, <2>2, <2>3, EntryFacts DEF Before, After
<1>9. CASE AddAdc(t)
  <2>1. /\ t \in Writers /\ Adding(t) /\ ~Registering(t) /\ ~Adding(t)' /\ ~Registering(t)'
        /\ listed' = listed \cup {run[t].mine} /\ UNCHANGED <<count, entry, exposed, freed>>
    BY <1>9, AddAdcMoves, IdlePlaced DEF AddAdc, Adding, Registering
  <2>2. run[t].mine \in exposed
    BY <2>1 DEF MemoryInv, AddingOwn
  <2> QED BY <1>1, <2>1, <2>2 DEF Before, After
<1>10. ASSUME NEW i \in Entries, Remove(t, i) PROVE After
  <2>1. /\ i \in listed /\ \A h \in Handlers : handling[h] # i
        /\ exposed' = exposed \ {i} /\ listed' = listed \ {i} /\ freed' = freed \cup {i}
        /\ UNCHANGED <<count, entry>>
    BY <1>10 DEF Remove, Matches, Drained
  <2>2. ~Adding(t)' /\ ~Registering(t)' /\ ~Adding(t) /\ ~Registering(t)
    BY <1>10, RemoveMoves, IdleShape DEF Adding, Registering
  <2> QED BY <1>1, <2>1, <2>2 DEF Before, After
<1> QED BY <1>3, <1>4, <1>5, <1>6, <1>7, <1>8, <1>9, <1>10, ProceedCases

(* A pin has one LED at most, and one that is to be added has none yet.    *)
LedsInv ==
  Calm =>
    /\ \A i, j \in listed :
         entry[i].kind = "led" /\ entry[j].kind = "led" /\ entry[i].pin = entry[j].pin => i = j
    /\ \A t \in Writers : run[t].at = "add" /\ run[t].cmd.what = "led" =>
         \A i \in listed : entry[i].kind = "led" => entry[i].pin # run[t].cmd.pin

LEMMA LedsInit == Init => LedsInv
<1> SUFFICES ASSUME Init PROVE LedsInv
  OBVIOUS
<1>1. listed = {}
  BY DEF Init
<1> QED BY <1>1 DEF LedsInv

LEMMA LedsProceed ==
  ASSUME TypeInv, CauseInv, MemoryInv, LedsInv, NEW t \in Threads, Proceed(t)
  PROVE  LedsInv'
<1> SUFFICES ASSUME Calm' PROVE LedsInv'
  BY DEF LedsInv
<1>1. /\ Calm /\ Went(t)
      /\ \A i \in 1 .. count : entry'[i].kind = entry[i].kind /\ entry'[i].pin = entry[i].pin
      /\ \A u \in Writers : u # t => run'[u] = run[u] /\ run[u].at = "idle"
  BY CalmChange
<1>2. /\ listed \subseteq 1 .. count /\ count + 1 \notin 1 .. count
      /\ \A i, j \in listed :
           entry[i].kind = "led" /\ entry[j].kind = "led" /\ entry[i].pin = entry[j].pin => i = j
      /\ t \in Writers /\ run[t].at = "add" /\ run[t].cmd.what = "led" =>
           \A i \in listed : entry[i].kind = "led" => entry[i].pin # run[t].cmd.pin
  BY <1>1, EntryFacts DEF LedsInv
<1>3. ASSUME \A i \in listed' : i \in listed \/ entry'[i].kind # "led",
             run'[t].at # "add" \/ run'[t].cmd.what # "led"
      PROVE  LedsInv'
  <2>1. \A i \in listed' : entry'[i].kind = "led" =>
          i \in listed /\ entry[i].kind = "led" /\ entry'[i].pin = entry[i].pin
    BY <1>1, <1>2, <1>3
  <2>2. \A u \in Writers : ~(run'[u].at = "add" /\ run'[u].cmd.what = "led")
    BY <1>1, <1>3
  <2>3. ASSUME NEW i \in listed', NEW j \in listed', entry'[i].kind = "led", entry'[j].kind = "led",
               entry'[i].pin = entry'[j].pin
        PROVE  i = j
    BY <1>2, <2>1, <2>3
  <2> QED BY <2>2, <2>3 DEF LedsInv
<1>4. CASE Find(t)
  <2>1. /\ UNCHANGED <<entry, listed>>
        /\ run'[t].at # "idle" => run'[t].cmd = run[t].cmd
        /\ run[t].cmd.do = "on" /\ run[t].at = "find"
        /\ run'[t].at = "add" => Matches(t) = {}
    BY <1>1, <1>4, FindMoves, ThreadFacts, IdleShape DEF Find, entryVars, Went, Shape
  <2>2. run'[t].at = "add" /\ run'[t].cmd.what = "led" =>
          \A i \in listed : entry[i].kind = "led" => entry[i].pin # run'[t].cmd.pin
    BY <2>1 DEF Matches
  <2> QED BY <1>1, <1>2, <2>1, <2>2 DEF LedsInv
<1>5. CASE Keeping(t) /\ ~Find(t)
  <2>1. run'[t].at # "add" /\ listed' = listed
    BY <1>5, SendLedMoves, SendServoMoves, SendServoOffMoves, TakeMoves, ReleaseMoves,
       SendCellMoves, TestMoves, ProbeMoves, UnplugMoves, PortMoves, PatchMoves, TestSelectMoves,
       SelectMoves, KeepingMoves, IdleShape DEF Keeping, entryVars
  <2> QED BY <1>3, <2>1
<1>6. CASE AddLed(t)
  <2>1. /\ run'[t].at = "register" /\ run[t].cmd.what = "led" /\ run[t].at = "add" /\ t \in Writers
        /\ count + 1 \in Entries /\ listed' = listed \cup {count + 1}
        /\ entry' = [entry EXCEPT ![count + 1] =
                       [kind |-> run[t].cmd.what, pin |-> run[t].cmd.pin, range |-> 0]]
    BY <1>6, AddLedMoves DEF AddLed, New, Adders
  <2>2. entry'[count + 1].kind = "led" /\ entry'[count + 1].pin = run[t].cmd.pin
    BY <2>1, TypeParts DEF TypeInv, EntryType
  <2> QED BY <1>1, <1>2, <2>1, <2>2 DEF LedsInv
<1>7. CASE RegisterLed(t) \/ UnlistLed(t)
  BY <1>3, <1>7, RegisterLedMoves, UnlistLedMoves, IdleShape DEF RegisterLed, UnlistLed
<1>8. CASE ConfigServo(t)
  <2>1. run'[t].at # "add" /\ run[t].cmd.what = "servo" /\ count + 1 \in Entries
    BY <1>8, ConfigServoMoves, IdleShape
  <2>2. \/ listed' = listed
        \/ /\ listed' = listed \cup {count + 1}
           /\ entry' = [entry EXCEPT ![count + 1] =
                 [kind |-> "servo", pin |-> run[t].cmd.pin, range |-> run[t].cmd.val]]
    BY <1>8, ConfigServoMoves
  <2>3. count + 1 \in listed' => count + 1 \in listed \/ entry'[count + 1].kind = "servo"
    BY <2>1, <2>2, TypeParts DEF TypeInv, EntryType
  <2> QED BY <1>3, <2>1, <2>2, <2>3
<1>9. CASE RegisterAdc(t)
  <2>1. listed' = listed /\ (run'[t].at # "idle" => run'[t].cmd.what = "adc")
    BY <1>1, <1>9, RegisterAdcMoves DEF RegisterAdc, Went
  <2> QED BY <1>3, <2>1, IdleShape
<1>10. CASE AddAdc(t)
  <2>1. /\ run'[t].at # "add" /\ listed' = listed \cup {run[t].mine} /\ entry' = entry
        /\ t \in Writers /\ Adding(t)
    BY <1>10, AddAdcMoves, IdleShape DEF AddAdc
  <2>2. entry[run[t].mine].kind = "adc"
    BY <2>1 DEF MemoryInv, AddingOwn
  <2> QED BY <1>3, <2>1, <2>2
<1>11. ASSUME NEW i \in Entries, Remove(t, i) PROVE LedsInv'
  <2>1. run'[t].at # "add" /\ listed' \subseteq listed
    BY <1>11, RemoveMoves, IdleShape DEF Remove
  <2> QED BY <1>3, <2>1
<1> QED BY <1>4, <1>5, <1>6, <1>7, <1>8, <1>9, <1>10, <1>11, ProceedCases

(* What disconnect cleared stays clear.                                    *)
Cleared(k) == \A i \in listed : entry[i].kind # k

ClearedInv ==
  Calm =>
    /\ (life = "servo" /\ ~Working(Hub)) \/ life \in {"led", "adc", "children", "misc", "gone"} =>
         Cleared("servo")
    /\ (life = "led" /\ ~Working(Hub)) \/ life \in {"adc", "children", "misc", "gone"} =>
         Cleared("led")
    /\ (life = "adc" /\ ~Working(Hub)) \/ life \in {"children", "misc", "gone"} =>
         Cleared("adc")

LEMMA ClearedInit == Init => ClearedInv
BY DEF Init, ClearedInv, Cleared

LEMMA ClearedProceed ==
  ASSUME TypeInv, CauseInv, ClearedInv, NEW t \in Threads, Proceed(t)
  PROVE  ClearedInv'
<1> SUFFICES ASSUME Calm' PROVE ClearedInv'
  BY DEF ClearedInv
<1>1. /\ Calm /\ Went(t) /\ life' = life
      /\ t \in Writers => life \in {"cells", "urb", "ready"}
      /\ t \notin Writers => t = Hub
  BY CalmChange
<1>2. CASE t \in Writers
  BY <1>1, <1>2 DEF ClearedInv
<1>3. CASE t = Hub
  <2>1. /\ run[Hub].at \in {"take", "remove"} /\ run[Hub].cmd.do = "clean"
        /\ life = run[Hub].cmd.what /\ Working(Hub) /\ life \in Lists
    BY <1>1, <1>3, ThreadFacts DEF TypeInv, PlaceInv, Went, Shape, Working
  <2>2. ~AddLed(t) /\ ~RegisterLed(t) /\ ~UnlistLed(t) /\ ~ConfigServo(t) /\ ~RegisterAdc(t) /\ ~AddAdc(t)
    BY <1>3, <2>1 DEF AddLed, RegisterLed, UnlistLed, ConfigServo, RegisterAdc, AddAdc, At
  <2>3. ~Keeping(t) \/ Take(t) \/ Release(t)
    BY <1>3, <2>1 DEF Keeping, Find, SendLed, SendServo, SendServoOff, SendCell, Test,
       Probe, Unplug, Port, Patch, TestSelect, Select, At
  <2>4. CASE Take(t)
    <3>1. UNCHANGED <<listed, entry>> /\ Working(Hub)'
      BY <1>3, <2>4, TakeMoves DEF Take, entryVars, Working
    <3> QED BY <1>1, <2>1, <3>1 DEF ClearedInv, Cleared
  <2>5. CASE Release(t)
    <3>1. UNCHANGED <<listed, entry>> /\ Matches(Hub) = {}
      BY <1>3, <2>5 DEF Release, entryVars
    <3>2. Cleared(life)
      BY <2>1, <3>1 DEF Cleared, Matches
    <3> QED BY <1>1, <2>1, <3>1, <3>2 DEF ClearedInv, Cleared, Lists
  <2>6. ASSUME NEW i \in Entries, Remove(t, i) PROVE ClearedInv'
    <3>1. listed' \subseteq listed /\ entry' = entry /\ Working(Hub)'
      BY <1>3, <2>1, <2>6, RemoveMoves DEF Remove, Working
    <3> QED BY <1>1, <2>1, <3>1 DEF ClearedInv, Cleared
  <2> QED BY <2>2, <2>3, <2>4, <2>5, <2>6, ProceedCases
<1> QED BY <1>1, <1>2, <1>3

(* A thread that is about to store pins has looked at a port that is still *)
(* there.                                                                  *)
PortInv == Calm => \A t \in Writers : run[t].at = "patch" => t \in held

LEMMA PortInit == Init => PortInv
<1> SUFFICES ASSUME Init PROVE PortInv
  OBVIOUS
<1>1. \A t \in Writers : run[t].at = "idle"
  BY IdleShape DEF Init, Threads
<1> QED BY <1>1 DEF PortInv

(* A flag is set when there is a child, and there is one; RemoveChildren   *)
(* leaves the flags.                                                       *)
FlagsInv ==
  Calm =>
    /\ life \notin {"children", "misc", "gone"} =>
         \A c \in Cells : children[c] = IF c \in registered THEN 1 ELSE 0
    /\ life \in {"children", "misc", "gone"} => ~base /\ \A c \in Cells : children[c] = 0
    /\ \A t \in Writers : /\ run[t].at = "probe" => run[t].cmd.what \notin registered
                          /\ run[t].at = "unplug" => run[t].cmd.what \in registered

LEMMA FlagsInit == Init => FlagsInv
<1> SUFFICES ASSUME Init PROVE FlagsInv
  OBVIOUS
<1>1. \A t \in Writers : run[t].at = "idle"
  BY IdleShape DEF Init, Threads
<1> QED BY <1>1 DEF Init, FlagsInv

(* Only a writer works on the cells.                                       *)
LEMMA CellWriter ==
  ASSUME TypeInv, NEW t \in Threads, Probe(t) \/ Unplug(t) \/ SendCell(t) \/ SendServo(t) \/ Test(t)
  PROVE  t \in Writers
<1>1. run[t].at \in {"probe", "unplug", "send", "test"}
  BY DEF Probe, Unplug, SendCell, SendServo, Test, At
<1> QED BY <1>1, ThreadFacts

(* Only Test leads to probing and unplugging, only Port to the patch.      *)
LEMMA LabelLemma ==
  ASSUME TypeInv, NEW t \in Threads, Proceed(t)
  PROVE  /\ run'[t].at \in {"probe", "unplug"} => Test(t)
         /\ run'[t].at = "patch" => Port(t)
         /\ run'[t].at = "test" => SendCell(t)
         /\ run'[t].at = "send" /\ run[t].cmd.what = "servo" => Find(t) \/ ConfigServo(t)
<1>1. CASE Keeping(t) /\ ~Find(t) /\ ~Test(t) /\ ~SendCell(t)
  BY <1>1, SendLedMoves, SendServoMoves, SendServoOffMoves, TakeMoves, ReleaseMoves,
     ProbeMoves, UnplugMoves, PortMoves, PatchMoves, TestSelectMoves, SelectMoves, IdleShape DEF Keeping
<1>2. CASE Find(t)
  BY <1>2, FindMoves, IdleShape
<1>3. CASE Test(t)
  BY <1>3, TestMoves, IdleShape
<1>4. CASE SendCell(t)
  BY <1>4, SendCellMoves
<1>5. CASE AddLed(t) \/ RegisterLed(t) \/ UnlistLed(t)
  BY <1>5, AddLedMoves, RegisterLedMoves, UnlistLedMoves, IdleShape
<1>6. CASE ConfigServo(t) \/ RegisterAdc(t) \/ AddAdc(t)
  BY <1>6, ConfigServoMoves, RegisterAdcMoves, AddAdcMoves, IdleShape
<1>7. ASSUME NEW i \in Entries, Remove(t, i) PROVE run'[t].at \notin {"probe", "unplug", "patch", "test", "send"}
  BY <1>7, RemoveMoves, IdleShape
<1> QED BY <1>1, <1>2, <1>3, <1>4, <1>5, <1>6, <1>7, ProceedCases

LEMMA PortProceed ==
  ASSUME TypeInv, CauseInv, PortInv, NEW t \in Threads, Proceed(t)
  PROVE  PortInv'
<1> SUFFICES ASSUME Calm' PROVE \A u \in Writers : run'[u].at = "patch" => u \in held'
  BY DEF PortInv
<1>1. \A u \in Writers : u # t => run'[u] = run[u] /\ run[u].at = "idle"
  BY CalmChange
<1>2. run'[t].at = "patch" => t \in held'
  BY LabelLemma, PortMoves, IdleShape
<1> QED BY <1>1, <1>2

LEMMA FlagsProceed ==
  ASSUME TypeInv, CauseInv, FlagsInv, NEW t \in Threads, Proceed(t)
  PROVE  FlagsInv'
<1> SUFFICES ASSUME Calm' PROVE FlagsInv'
  BY DEF FlagsInv
<1>1. /\ Calm /\ Went(t) /\ life' = life /\ base' = base
      /\ t \in Writers => life \in {"cells", "urb", "ready"}
      /\ \A u \in Writers : u # t => run'[u] = run[u] /\ run[u].at = "idle"
  BY CalmChange
<1>2. children \in [Cells -> Nat]
  BY TypeParts DEF TypeInv, CellType
<1>3. CASE Probe(t)
  <2>1. /\ run'[t].at \notin {"probe", "unplug"} /\ run[t].at = "probe" /\ t \in Writers
        /\ run[t].cmd.what \in Cells
        /\ \/ /\ children' = [children EXCEPT ![run[t].cmd.what] = @ + 1]
              /\ registered' = registered \cup {run[t].cmd.what}
           \/ UNCHANGED <<children, registered>>
    BY <1>3, ProbeMoves, IdleShape DEF Probe
  <2>2. run[t].cmd.what \notin registered
    BY <1>1, <2>1 DEF FlagsInv
  <2>3. \A c \in Cells : children'[c] = IF c \in registered' THEN 1 ELSE 0
    BY <1>1, <1>2, <2>1, <2>2 DEF FlagsInv
  <2> QED BY <1>1, <2>1, <2>3 DEF FlagsInv
<1>4. CASE Unplug(t)
  <2>1. /\ run'[t].at = "idle" /\ run[t].at = "unplug" /\ t \in Writers /\ run[t].cmd.what \in Cells
        /\ children' = [children EXCEPT ![run[t].cmd.what] = IF @ > 0 THEN @ - 1 ELSE 0]
        /\ registered' = registered \ {run[t].cmd.what}
    BY <1>4, UnplugMoves, IdleShape DEF Unplug, Cells
  <2>2. run[t].cmd.what \in registered /\ children[run[t].cmd.what] = 1
    BY <1>1, <2>1 DEF FlagsInv
  <2>3. \A c \in Cells : children'[c] = IF c \in registered' THEN 1 ELSE 0
    BY <1>1, <1>2, <2>1, <2>2 DEF FlagsInv
  <2> QED BY <1>1, <2>1, <2>3 DEF FlagsInv
<1>5. CASE ~Probe(t) /\ ~Unplug(t)
  <2>1. children' = children /\ registered' = registered
    BY <1>5, CellFrame DEF cellVars, Select
  <2>2. /\ run'[t].at = "probe" => run'[t].cmd.what \notin registered
        /\ run'[t].at = "unplug" => run'[t].cmd.what \in registered
    BY <1>1, LabelLemma, TestMoves, IdleShape DEF Went
  <2> QED BY <1>1, <2>1, <2>2 DEF FlagsInv
<1> QED BY <1>3, <1>4, <1>5

(* The bus of a child was set up in the device, unless that packet was     *)
(* lost or the child is about to be removed.                               *)
Told(c) == c \in told.cells \/ "lost" \in causes

Disabling(t, c) ==
  run[t].at \in {"test", "unplug"} /\ run[t].cmd.what = c /\ run[t].cmd.do = "off"

ToldInv ==
  Calm =>
    /\ \A c \in registered : Told(c) \/ \E t \in Writers : Disabling(t, c)
    /\ \A t \in Writers :
         run[t].at \in {"test", "probe"} /\ run[t].cmd.do = "on" /\ run[t].cmd.what \in Cells =>
           Told(run[t].cmd.what)

LEMMA ToldInit == Init => ToldInv
<1> SUFFICES ASSUME Init PROVE ToldInv
  OBVIOUS
<1>1. \A t \in Writers : run[t].at = "idle"
  BY IdleShape DEF Init, Threads
<1> QED BY <1>1 DEF Init, ToldInv

LEMMA ToldProceed ==
  ASSUME TypeInv, CauseInv, ToldInv, NEW t \in Threads, Proceed(t)
  PROVE  ToldInv'
<1> SUFFICES ASSUME Calm' PROVE ToldInv'
  BY DEF ToldInv
<1>1. /\ Calm /\ Went(t)
      /\ t \in Writers => ~Disconnected
      /\ \A u \in Writers : u # t => run'[u] = run[u] /\ run[u].at = "idle"
  BY CalmChange
<1>2. /\ \A c \in registered : Told(c) \/ (t \in Writers /\ Disabling(t, c))
      /\ t \in Writers /\ run[t].at \in {"test", "probe"} /\ run[t].cmd.do = "on"
           /\ run[t].cmd.what \in Cells => Told(run[t].cmd.what)
  BY <1>1 DEF ToldInv, Disabling
<1>3. ASSUME \A c \in registered' : Told(c)' \/ (t \in Writers /\ Disabling(t, c)'),
             t \in Writers /\ run'[t].at \in {"test", "probe"} /\ run'[t].cmd.do = "on"
               /\ run'[t].cmd.what \in Cells => Told(run[t].cmd.what)' /\ run'[t].cmd = run[t].cmd
      PROVE  ToldInv'
  BY <1>1, <1>3 DEF ToldInv, Told
<1>4. causes' \in {causes, causes \cup {"lost"}, causes \cup {"bind"}, causes \cup {"adc"}}
  BY ProceedCauses
<1>5. CASE SendCell(t)
  <2>1. /\ t \in Writers /\ run'[t].at = "test" /\ run'[t].cmd = run[t].cmd
        /\ run[t].cmd.what \in Cells /\ run[t].at = "send" /\ run[t].cmd.do \in {"on", "off"}
    BY <1>5, SendCellMoves, CellWriter, ThreadFacts DEF Went
  <2>2. registered' = registered /\ ~Disconnected /\ told \in [cells : SUBSET Cells, servo : [Pins -> Values \cup {0}]]
    BY <1>1, <1>5, <2>1, TypeParts DEF SendCell, cellVars, TypeInv, ToldType
  <2>3. \A c \in registered : Told(c)
    BY <1>2, <2>1 DEF Disabling
  <2>4. CASE causes' = causes \cup {"lost"}
    BY <1>3, <2>1, <2>4 DEF Told
  <2>5. CASE /\ causes' = causes
             /\ told' = [told EXCEPT !.cells = IF run[t].cmd.do = "on" THEN @ \cup {run[t].cmd.what}
                                               ELSE @ \ {run[t].cmd.what}]
    <3>1. CASE run[t].cmd.do = "on"
      <4>1. told'.cells = told.cells \cup {run[t].cmd.what}
        BY <2>2, <2>5, <3>1
      <4> QED BY <1>3, <2>1, <2>2, <2>3, <2>5, <4>1 DEF Told
    <3>2. CASE run[t].cmd.do = "off"
      <4>1. told'.cells = told.cells \ {run[t].cmd.what}
        BY <2>2, <2>5, <3>2
      <4> QED BY <1>3, <2>1, <2>2, <2>3, <2>5, <3>2, <4>1 DEF Told, Disabling
    <3> QED BY <2>1, <3>1, <3>2
  <2> QED BY <1>5, <2>2, <2>4, <2>5 DEF SendCell, Tell
<1>6. CASE SendServo(t)
  <2>1. /\ run'[t].at = "idle" /\ run[t].at = "send" /\ registered' = registered
        /\ told \in [cells : SUBSET Cells, servo : [Pins -> Values \cup {0}]]
    BY <1>6, SendServoMoves, IdleShape, TypeParts DEF SendServo, cellVars, TypeInv, ToldType
  <2>2. told'.cells = told.cells
    BY <1>6, <2>1 DEF SendServo, Tell
  <2> QED BY <1>2, <1>3, <1>4, <2>1, <2>2 DEF Told, Disabling
<1>7. CASE Test(t)
  <2>1. /\ told' = told /\ registered' = registered /\ causes' = causes
        /\ run[t].at = "test" /\ t \in Writers
        /\ \/ run'[t].at \in {"idle", "port"}
              /\ (run[t].cmd.do = "on") = (run[t].cmd.what \in registered)
           \/ run'[t].at = "probe" /\ run[t].cmd.do = "on" /\ run'[t].cmd = run[t].cmd
           \/ run'[t].at = "unplug" /\ run[t].cmd.do = "off" /\ run'[t].cmd = run[t].cmd
        /\ run[t].cmd.what \in Cells
    BY <1>1, <1>7, TestMoves, IdleShape DEF Test, Went, cellVars
  <2> QED BY <1>2, <1>3, <2>1 DEF Told, Disabling
<1>8. CASE Probe(t)
  <2>1. /\ told' = told /\ run[t].at = "probe" /\ run[t].cmd.do = "on" /\ run[t].cmd.what \in Cells
        /\ t \in Writers /\ run'[t].at \in {"idle", "port"}
        /\ registered' \subseteq registered \cup {run[t].cmd.what}
    BY <1>8, ProbeMoves, IdleShape DEF Probe
  <2> QED BY <1>2, <1>3, <1>4, <2>1 DEF Told, Disabling
<1>9. CASE Unplug(t)
  <2>1. /\ told' = told /\ causes' = causes /\ run'[t].at = "idle"
        /\ registered' = registered \ {run[t].cmd.what}
    BY <1>9, UnplugMoves, IdleShape DEF Unplug
  <2> QED BY <1>2, <1>3, <2>1 DEF Told, Disabling
<1>10. CASE ~SendCell(t) /\ ~SendServo(t) /\ ~Test(t) /\ ~Probe(t) /\ ~Unplug(t)
  <2>1. told' = told /\ registered' = registered /\ causes \subseteq causes'
    BY <1>4, <1>10, CellFrame DEF cellVars, Select
  <2>2. run'[t].at \notin {"test", "probe"}
    BY <1>10, LabelLemma
  <2>3. \A c \in registered : ~Disabling(t, c)
    <3> SUFFICES ASSUME NEW c \in registered, Disabling(t, c) PROVE FALSE
      OBVIOUS
    <3>1. c \in Cells
      BY TypeParts DEF TypeInv, CellType
    <3>2. run[t].at \in {"test", "unplug"} /\ run[t].cmd.what \in Cells
      BY <3>1 DEF Disabling
    <3>3. ~Keeping(t) \/ TestSelect(t)
      BY <1>10, <3>2 DEF Keeping, Find, SendLed, SendServoOff, Take, Release, Port, Patch, Select, At
    <3>4. ~TestSelect(t)
      BY <3>2 DEF TestSelect, At, Cells
    <3>5. ~AddLed(t) /\ ~RegisterLed(t) /\ ~UnlistLed(t) /\ ~ConfigServo(t) /\ ~RegisterAdc(t) /\ ~AddAdc(t)
      BY <3>2 DEF AddLed, RegisterLed, UnlistLed, ConfigServo, RegisterAdc, AddAdc, At
    <3>6. ASSUME NEW i \in Entries PROVE ~Remove(t, i)
      BY <3>2 DEF Remove
    <3> QED BY <3>3, <3>4, <3>5, <3>6, ProceedCases
  <2> QED BY <1>2, <1>3, <2>1, <2>2, <2>3 DEF Told
<1> QED BY <1>5, <1>6, <1>7, <1>8, <1>9, <1>10

(* The device was told the range of a servo, or is about to be.            *)
Ranged(i) == told.servo[entry[i].pin] = entry[i].range

Configuring(t) == At(t, "send", "servo") /\ run[t].cmd.do = "on"

ToTell(t, i) ==
  /\ Configuring(t) /\ run[t].mine = i
  /\ run[t].cmd.pin = entry[i].pin /\ run[t].cmd.val = entry[i].range

RangeInv ==
  Calm /\ "lost" \notin causes =>
    /\ \A i \in listed : entry[i].kind = "servo" =>
         entry[i].pin \in Pins /\ (Ranged(i) \/ \E t \in Writers : ToTell(t, i))
    /\ \A t \in Writers : Configuring(t) /\ run[t].mine # 0 =>
         /\ run[t].mine \in listed /\ entry[run[t].mine].kind = "servo"
         /\ ToTell(t, run[t].mine)

LEMMA RangeInit == Init => RangeInv
<1> SUFFICES ASSUME Init PROVE RangeInv
  OBVIOUS
<1>1. \A t \in Writers : run[t].at = "idle"
  BY IdleShape DEF Init, Threads
<1> QED BY <1>1 DEF Init, RangeInv, Configuring, At

LEMMA RangeProceed ==
  ASSUME TypeInv, CauseInv, MemoryInv, RangeInv, NEW t \in Threads, Proceed(t)
  PROVE  RangeInv'
<1> SUFFICES ASSUME Calm', "lost" \notin causes' PROVE RangeInv'
  BY DEF RangeInv
<1>1. /\ Calm /\ Went(t) /\ "lost" \notin causes
      /\ t \in Writers => ~Disconnected
      /\ \A i \in 1 .. count : entry'[i].kind = entry[i].kind /\ entry'[i].pin = entry[i].pin
      /\ \A u \in Writers : u # t => run'[u] = run[u] /\ run[u].at = "idle"
  BY CalmChange, ProceedCauses
<1>2. /\ listed \subseteq 1 .. count /\ 0 \notin listed /\ count + 1 \notin 1 .. count
      /\ told \in [cells : SUBSET Cells, servo : [Pins -> Values \cup {0}]]
  BY EntryFacts, TypeParts DEF TypeInv, ToldType
<1>3. /\ \A i \in listed : entry[i].kind = "servo" =>
           entry[i].pin \in Pins /\ (Ranged(i) \/ (t \in Writers /\ ToTell(t, i)))
      /\ t \in Writers /\ Configuring(t) /\ run[t].mine # 0 =>
           /\ run[t].mine \in listed /\ entry[run[t].mine].kind = "servo"
           /\ ToTell(t, run[t].mine)
  BY <1>1 DEF RangeInv, ToTell, Configuring, At
<1>4. \A u \in Writers : u # t => ~Configuring(u)'
  BY <1>1 DEF Configuring, At
<1>5. SUFFICES
        /\ \A i \in listed' : entry'[i].kind = "servo" =>
             entry'[i].pin \in Pins /\ (Ranged(i)' \/ (t \in Writers /\ ToTell(t, i)'))
        /\ t \in Writers /\ Configuring(t)' /\ run'[t].mine # 0 =>
             /\ run'[t].mine \in listed' /\ entry'[run'[t].mine].kind = "servo"
             /\ ToTell(t, run[t].mine)'
  BY <1>4 DEF RangeInv
<1>6. t \notin Writers => ~Configuring(t)
  BY ThreadFacts DEF Configuring, At
<1>7. ASSUME told'.servo = told.servo,
             \A i \in listed' : (i \in listed /\ entry'[i] = entry[i]) \/ entry'[i].kind # "servo",
             ~Configuring(t), ~Configuring(t)' \/ run'[t].mine = 0
      PROVE  /\ \A i \in listed' : entry'[i].kind = "servo" => entry'[i].pin \in Pins /\ Ranged(i)'
             /\ ~Configuring(t)' \/ run'[t].mine = 0
  BY <1>3, <1>7 DEF Ranged, ToTell
<1>8. CASE Keeping(t) /\ ~SendServo(t)
  <2>1. UNCHANGED <<listed, entry>>
    BY <1>8, KeepingMoves DEF entryVars
  <2>2. told'.servo = told.servo
    BY <1>2, <1>8, CellFrame DEF SendCell, Tell
  <2>3. ~Configuring(t)
    BY <1>8, FindMoves, SendLedMoves, SendServoOffMoves, TakeMoves, ReleaseMoves, SendCellMoves,
       TestMoves, ProbeMoves, UnplugMoves, PortMoves, PatchMoves, TestSelectMoves, SelectMoves
       DEF Keeping, Configuring, At, Cells
  <2>4. ~Configuring(t)' \/ run'[t].mine = 0
    <3>1. CASE Find(t)
      BY <3>1, FindMoves, IdleShape DEF Configuring, At
    <3>2. CASE ~Find(t)
      <4>1. ~ConfigServo(t)
        BY <1>8, KeepingMoves DEF Keeping, ConfigServo, Find, SendLed, SendServo, SendServoOff, Take,
           Release, SendCell, Test, Probe, Unplug, Port, Patch, TestSelect, Select, At
      <4> QED BY <1>1, <3>2, <4>1, LabelLemma DEF Configuring, At, Went
    <3> QED BY <3>1, <3>2
  <2> QED BY <1>7, <2>1, <2>2, <2>3, <2>4
<1>9. CASE SendServo(t)
  <2>1. /\ Configuring(t) /\ t \in Writers /\ run'[t].at = "idle" /\ UNCHANGED <<listed, entry>>
        /\ IF run[t].mine = 0 THEN told' = told
           ELSE told' = [told EXCEPT !.servo[run[t].cmd.pin] = run[t].cmd.val]
    BY <1>1, <1>6, <1>9, SendServoMoves, IdleShape DEF SendServo, Tell, Configuring, entryVars
  <2>2. ~Configuring(t)'
    BY <2>1 DEF Configuring, At
  <2>3. CASE run[t].mine = 0
    <3>1. \A i \in listed : ~ToTell(t, i)
      BY <1>2, <2>3 DEF ToTell
    <3> QED BY <1>3, <2>1, <2>2, <2>3, <3>1 DEF Ranged
  <2>4. CASE run[t].mine # 0
    <3>1. PICK m \in listed :
            /\ m = run[t].mine /\ entry[m].kind = "servo" /\ entry[m].pin \in Pins
            /\ run[t].cmd.pin = entry[m].pin /\ run[t].cmd.val = entry[m].range
      BY <1>3, <2>1, <2>4 DEF ToTell
    <3>2. told'.servo = [told.servo EXCEPT ![entry[m].pin] = entry[m].range]
      BY <1>2, <2>1, <2>4, <3>1
    <3>3. told.servo \in [Pins -> Values \cup {0}]
      BY <1>2
    <3>4. Ranged(m)'
      BY <2>1, <3>1, <3>2, <3>3 DEF Ranged
    <3>5. ASSUME NEW i \in listed, entry[i].kind = "servo", i # m
          PROVE  entry[i].pin \in Pins /\ Ranged(i)'
      <4>1. entry[i].pin # entry[m].pin
        BY <3>1, <3>5 DEF MemoryInv, OneServoPerPin
      <4>2. entry[i].pin \in Pins /\ Ranged(i)
        BY <1>3, <3>1, <3>5 DEF ToTell
      <4> QED BY <2>1, <3>1, <3>2, <3>3, <4>1, <4>2 DEF Ranged
    <3> QED BY <2>1, <2>2, <3>1, <3>4, <3>5
  <2> QED BY <2>3, <2>4
<1>10. CASE ConfigServo(t)
  <2>1. /\ run[t].at = "add" /\ run[t].cmd.what = "servo" /\ run[t].cmd.do = "on" /\ told' = told
        /\ count + 1 \in Entries /\ t \in Writers
    BY <1>10, ConfigServoMoves DEF ConfigServo, Adders
  <2>2. entry \in [Entries -> [kind : Lists, pin : Pins \cup {0}, range : Values \cup {0}]]
    BY TypeParts DEF TypeInv, EntryType
  <2>3. \A i \in listed : entry[i].kind = "servo" => entry[i].pin \in Pins /\ Ranged(i)
    BY <1>3, <2>1 DEF ToTell, Configuring, At
  <2>4. run[t].cmd.pin \in Pins
    BY <2>1, ThreadFacts, CommandFacts DEF Lists
  <2>5. ASSUME NEW m \in Entries, run'[t].at = "send", run'[t].mine = m,
               entry'[m].kind = "servo", entry'[m].pin = run[t].cmd.pin, entry'[m].range = run[t].cmd.val,
               \A i \in listed : i # m => entry'[i] = entry[i], listed' = listed \cup {m}
        PROVE  /\ \A i \in listed' : entry'[i].kind = "servo" =>
                    entry'[i].pin \in Pins /\ (Ranged(i)' \/ ToTell(t, i)')
               /\ run'[t].mine \in listed' /\ entry'[run'[t].mine].kind = "servo"
               /\ ToTell(t, run[t].mine)'
    <3>1. run'[t].cmd = run[t].cmd
      BY <1>1, <2>5 DEF Went
    <3>2. ToTell(t, m)'
      BY <2>1, <2>5, <3>1 DEF ToTell, Configuring, At
    <3>3. \A i \in listed : i # m /\ entry'[i].kind = "servo" => entry'[i].pin \in Pins /\ Ranged(i)'
      BY <2>1, <2>3, <2>5 DEF Ranged
    <3>4. ToTell(t, run[t].mine)'
      BY <2>5, <3>2 DEF ToTell
    <3> QED BY <2>4, <2>5, <3>2, <3>3, <3>4
  <2>6. CASE /\ run'[t].at = "send" /\ run'[t].mine \in Matches(t)
             /\ entry' = [entry EXCEPT ![run'[t].mine].range = run[t].cmd.val]
             /\ UNCHANGED <<count, listed, exposed>>
    <3>1. PICK m \in listed : m = run'[t].mine /\ entry[m].kind = "servo" /\ entry[m].pin = run[t].cmd.pin
      BY <2>1, <2>6 DEF Matches
    <3>2. m \in Entries
      BY <1>2, EntryFacts
    <3>3. /\ entry'[m].kind = "servo" /\ entry'[m].pin = run[t].cmd.pin /\ entry'[m].range = run[t].cmd.val
          /\ \A i \in listed : i # m => entry'[i] = entry[i]
      BY <1>2, <2>2, <2>6, <3>1, <3>2, EntryFacts
    <3> QED BY <2>1, <2>5, <2>6, <3>1, <3>2, <3>3
  <2>7. CASE /\ Matches(t) = {} /\ run'[t].at = "send" /\ run'[t].mine = count + 1
             /\ count' = count + 1
             /\ entry' = [entry EXCEPT ![count + 1] =
                   [kind |-> "servo", pin |-> run[t].cmd.pin, range |-> run[t].cmd.val]]
             /\ listed' = listed \cup {count + 1} /\ exposed' = exposed \cup {count + 1}
    <3>1. PICK m \in Entries : m = count + 1
      BY <2>1
    <3>2. /\ entry'[m].kind = "servo" /\ entry'[m].pin = run[t].cmd.pin /\ entry'[m].range = run[t].cmd.val
          /\ \A i \in listed : i # m => entry'[i] = entry[i]
      BY <1>2, <2>2, <2>7, <3>1, EntryFacts
    <3> QED BY <2>1, <2>5, <2>7, <3>1, <3>2
  <2>8. CASE run'[t] = Idle /\ UNCHANGED <<count, entry, listed, exposed>>
    <3>1. ~Configuring(t)'
      BY <2>8, IdleShape DEF Configuring, At
    <3> QED BY <1>7, <2>1, <2>8, <3>1 DEF Configuring, At
  <2> QED BY <2>1, <2>6, <2>7, <2>8, <1>10, ConfigServoMoves
<1>11. (~Configuring(t) /\ ~Configuring(t)') \/ Keeping(t) \/ ConfigServo(t)
  <2>1. CASE AddLed(t) \/ RegisterLed(t) \/ UnlistLed(t)
    BY <2>1, AddLedMoves, RegisterLedMoves, UnlistLedMoves, IdleShape DEF Configuring, At, Went
  <2>2. CASE RegisterAdc(t) \/ AddAdc(t)
    BY <2>2, RegisterAdcMoves, AddAdcMoves, IdleShape DEF Configuring, At, Adding
  <2>3. ASSUME NEW i \in Entries, Remove(t, i) PROVE ~Configuring(t) /\ ~Configuring(t)'
    BY <2>3, RemoveMoves, IdleShape DEF Configuring, At
  <2> QED BY <2>1, <2>2, <2>3, ProceedCases
<1>12. CASE ~Keeping(t) /\ ~ConfigServo(t)
  <2>1. ~Configuring(t) /\ ~Configuring(t)'
    BY <1>11, <1>12
  <2>2. told' = told
    BY <1>12, CellFrame DEF Keeping
  <2>3. ASSUME NEW i \in listed'
        PROVE  (i \in listed /\ entry'[i] = entry[i]) \/ entry'[i].kind # "servo"
    <3>1. entry \in [Entries -> [kind : Lists, pin : Pins \cup {0}, range : Values \cup {0}]]
      BY TypeParts DEF TypeInv, EntryType
    <3>2. CASE AddLed(t)
      <4>1. /\ run[t].cmd.what = "led" /\ count + 1 \in Entries /\ listed' = listed \cup {count + 1}
            /\ entry' = [entry EXCEPT ![count + 1] =
                           [kind |-> run[t].cmd.what, pin |-> run[t].cmd.pin, range |-> 0]]
        BY <3>2, AddLedMoves DEF AddLed, New
      <4> QED BY <1>2, <2>3, <3>1, <4>1, EntryFacts
    <3>3. CASE RegisterAdc(t)
      <4>1. /\ count + 1 \in Entries /\ listed' = listed
            /\ entry' = entry \/ entry' = [entry EXCEPT ![count + 1] =
                           [kind |-> "adc", pin |-> run[t].cmd.pin, range |-> 0]]
        BY <3>3, RegisterAdcMoves DEF RegisterAdc
      <4> QED BY <1>2, <2>3, <3>1, <4>1, EntryFacts
    <3>4. CASE AddAdc(t)
      <4>1. entry[run[t].mine].kind = "adc" /\ listed' = listed \cup {run[t].mine} /\ entry' = entry
        BY <3>4, AddAdcMoves DEF AddAdc, MemoryInv, AddingOwn
      <4> QED BY <2>3, <4>1
    <3>5. CASE RegisterLed(t) \/ UnlistLed(t) \/ \E j \in Entries : Remove(t, j)
      BY <2>3, <3>5 DEF RegisterLed, UnlistLed, Remove
    <3> QED BY <1>12, <3>2, <3>3, <3>4, <3>5, ProceedCases
  <2> QED BY <1>7, <2>1, <2>2, <2>3
<1> QED BY <1>8, <1>9, <1>10, <1>12

-----------------------------------------------------------------------------
(* All of it, for the steps that are no step of a command.                 *)

CalmInv == ListsInv /\ LedsInv /\ ClearedInv /\ PortInv /\ FlagsInv /\ ToldInv /\ RangeInv

(* The writer goes on with nothing, or starts a command.                   *)
Starting(u) ==
  \/ run'[u] = run[u]
  \/ /\ run[u].at = "idle" /\ run'[u].at \notin {"add", "probe", "unplug", "patch", "unlist"}
     /\ run'[u].at = "register" => run'[u].cmd.what # "led"
     /\ run'[u].at = "test" => run'[u].cmd.what \notin Cells
     /\ run'[u].at = "send" /\ run'[u].cmd.what = "servo" => run'[u].cmd.do # "on"

LEMMA StartingFacts ==
  ASSUME NEW u, Starting(u)
  PROVE  /\ Adding(u) \/ Adding(u)' \/ Registering(u) \/ Registering(u)' => run'[u] = run[u]
         /\ Configuring(u) \/ Configuring(u)' => run'[u] = run[u]
BY DEF Starting, Adding, Registering, Configuring, At

LEMMA CalmKept ==
  ASSUME CalmInv, UNCHANGED <<count, entry, listed, exposed, freed, registered, told>>, causes \subseteq causes',
         \A u \in Writers : Starting(u),
         \A h \in Handlers : handling'[h] \in {0, handling[h]} \cup exposed
  PROVE  ListsInv' /\ LedsInv' /\ ToldInv' /\ RangeInv'
<1>1. Calm' => Calm
  BY DEF Calm
<1>2. ASSUME NEW u \in Writers
      PROVE  /\ Adding(u) => run'[u] = run[u] /\ Adding(u)'
             /\ Adding(u)' => run'[u] = run[u] /\ Adding(u)
             /\ Registering(u) => run'[u] = run[u] /\ Registering(u)'
             /\ Registering(u)' => run'[u] = run[u] /\ Registering(u)
             /\ Configuring(u) => run'[u] = run[u] /\ Configuring(u)'
             /\ Configuring(u)' => run'[u] = run[u] /\ Configuring(u)
  BY StartingFacts DEF Adding, Registering, Configuring, At
<1>3. ListsInv'
  <2> SUFFICES ASSUME Calm' PROVE ListsInv'
    BY DEF ListsInv
  <2>1. /\ \A i \in 1 .. count : i \in freed <=> i \notin listed \cup exposed
        /\ \A i \in listed \ exposed : \E t \in Writers : Registering(t) /\ run[t].mine = i
        /\ \A i \in exposed \ listed : \E t \in Writers : Adding(t) /\ run[t].mine = i
        /\ \A t \in Writers : Registering(t) => run[t].mine \in listed \ exposed
        /\ \A h \in Handlers : handling[h] = 0 \/ handling[h] \in exposed
    BY <1>1 DEF CalmInv, ListsInv
  <2>2. \A i \in listed \ exposed : \E t \in Writers : Registering(t)' /\ run'[t].mine = i
    BY <1>2, <2>1
  <2>3. \A i \in exposed \ listed : \E t \in Writers : Adding(t)' /\ run'[t].mine = i
    BY <1>2, <2>1
  <2>4. \A t \in Writers : Registering(t)' => run'[t].mine \in listed \ exposed
    BY <1>2, <2>1
  <2>5. \A h \in Handlers : handling'[h] = 0 \/ handling'[h] \in exposed
    BY <2>1
  <2> QED BY <2>1, <2>2, <2>3, <2>4, <2>5 DEF ListsInv
<1>4. LedsInv'
  BY <1>1 DEF CalmInv, LedsInv, Starting
<1>5. ToldInv'
  <2> SUFFICES ASSUME Calm' PROVE ToldInv'
    BY DEF ToldInv
  <2>1. \A c \in Cells : Told(c) => Told(c)'
    BY DEF Told
  <2>2. ASSUME NEW c \in registered PROVE Told(c)' \/ \E t \in Writers : Disabling(t, c)'
    <3>1. Told(c) \/ \E t \in Writers : Disabling(t, c)
      BY <1>1 DEF CalmInv, ToldInv
    <3>2. \A t \in Writers : Disabling(t, c) => Disabling(t, c)'
      BY DEF Disabling, Starting
    <3>3. Told(c) => Told(c)'
      BY DEF Told
    <3> QED BY <3>1, <3>2, <3>3
  <2>3. ASSUME NEW t \in Writers, run'[t].at \in {"test", "probe"}, run'[t].cmd.do = "on",
               run'[t].cmd.what \in Cells
        PROVE  Told(run[t].cmd.what)'
    <3>1. run'[t] = run[t]
      BY <2>3 DEF Starting
    <3> QED BY <1>1, <2>3, <3>1 DEF CalmInv, ToldInv, Told
  <2> QED BY <2>2, <2>3 DEF ToldInv
<1>6. RangeInv'
  <2> SUFFICES ASSUME Calm', "lost" \notin causes' PROVE RangeInv'
    BY DEF RangeInv
  <2>1. Calm /\ "lost" \notin causes
    BY <1>1
  <2>2. ASSUME NEW t \in Writers, NEW i, ToTell(t, i) PROVE ToTell(t, i)'
    BY <1>2, <2>2 DEF ToTell
  <2>3. ASSUME NEW t \in Writers, Configuring(t)', run'[t].mine # 0
        PROVE  /\ run'[t].mine \in listed' /\ entry'[run'[t].mine].kind = "servo"
               /\ ToTell(t, run[t].mine)'
    <3>1. run'[t] = run[t] /\ Configuring(t)
      BY <1>2, <2>3
    <3> QED BY <2>1, <2>3, <3>1 DEF CalmInv, RangeInv, ToTell
  <2>4. ASSUME NEW i \in listed, entry[i].kind = "servo"
        PROVE  entry[i].pin \in Pins /\ (Ranged(i)' \/ \E t \in Writers : ToTell(t, i)')
    <3>1. entry[i].pin \in Pins /\ (Ranged(i) \/ \E t \in Writers : ToTell(t, i))
      BY <2>1, <2>4 DEF CalmInv, RangeInv
    <3>2. Ranged(i) => Ranged(i)'
      BY DEF Ranged
    <3> QED BY <2>2, <3>1, <3>2
  <2> QED BY <2>3, <2>4 DEF RangeInv
<1> QED BY <1>3, <1>4, <1>5, <1>6

LEMMA PortKept ==
  ASSUME CalmInv, causes \subseteq causes', held' = held, \A u \in Writers : Starting(u)
  PROVE  PortInv'
BY DEF CalmInv, PortInv, Calm, Starting

LEMMA LifeKept ==
  ASSUME CalmInv, UNCHANGED <<life, base, entry, listed, registered, children>>, causes \subseteq causes',
         Working(Hub)' <=> Working(Hub), \A u \in Writers : Starting(u)
  PROVE  ClearedInv' /\ FlagsInv'
<1>1. Calm' => Calm
  BY DEF Calm
<1>2. ClearedInv'
  <2>1. \A k : Cleared(k) => Cleared(k)'
    BY DEF Cleared
  <2> QED BY <1>1, <2>1 DEF CalmInv, ClearedInv
<1>3. FlagsInv'
  BY <1>1 DEF CalmInv, FlagsInv, Starting
<1> QED BY <1>2, <1>3

LEMMA CalmWrite ==
  ASSUME TypeInv, CalmInv, NEW t \in Writers, NEW c \in Commands, Write(t, c)
  PROVE  CalmInv'
<1>1. /\ UNCHANGED <<life, base, count, entry, listed, exposed, freed, registered, children, told, held,
                      handling>>
      /\ causes \subseteq causes'
  BY DEF Write, lifeVars, entryVars, cellVars, handlerVars
<1>2. \A u \in Threads : u # t => run'[u] = run[u]
  BY WriteMoves
<1>3. \A u \in Writers : Starting(u)
  <2>1. run[t].at = "idle" /\ run'[t].at = Entry(c) /\ run'[t].cmd = c
    BY WriteMoves
  <2>2. /\ Entry(c) \notin {"add", "probe", "unplug", "patch", "unlist"}
        /\ Entry(c) = "register" => c.what = "adc"
        /\ Entry(c) = "send" /\ c.what = "servo" => c.do = "off"
        /\ Entry(c) = "test" => c.what = "cs"
    BY EntryShape
  <2>3. Starting(t)
    BY <2>1, <2>2 DEF Starting, Cells
  <2> QED BY <1>2, <2>3 DEF Threads, Starting
<1>4. Working(Hub)' <=> Working(Hub)
  BY <1>2, ThreadsAssumption DEF Threads, Working
<1> QED BY <1>1, <1>3, <1>4, CalmKept, LifeKept, PortKept DEF CalmInv

LEMMA CalmHandler ==
  ASSUME TypeInv, CalmInv, NEW h \in Handlers, Handles(h)
  PROVE  CalmInv'
<1>1. UNCHANGED <<life, base, count, entry, listed, exposed, freed, registered, children, told, held, run,
                  causes>>
  BY DEF Handles, StartHandler, StartSelfOff, EndHandler, lifeVars, entryVars, cellVars, threadVars
<1>2. \A u \in Writers : Starting(u)
  BY <1>1 DEF Starting
<1>3. Working(Hub)' <=> Working(Hub)
  BY <1>1 DEF Working
<1> QED BY <1>1, <1>2, <1>3, HandlerMoves, CalmKept, LifeKept, PortKept DEF CalmInv

LEMMA CalmLifecycle == ASSUME TypeInv, CauseInv, CalmInv, Lifecycle PROVE CalmInv'
<1>1. UNCHANGED <<count, entry, listed, exposed, freed, registered, told, handling>> /\ causes \subseteq causes'
  BY LifecycleCases DEF CleanStep, handlerVars, RemoveChildren, RemoveMisc, FreeDev, entryVars, cellVars,
     Teardown
<1>2. \A u \in Writers : run'[u] = run[u]
  BY LifecycleCases, ThreadsAssumption DEF CleanStep, Threads, RemoveChildren, RemoveMisc, FreeDev, threadVars
<1>3. \A u \in Writers : Starting(u)
  BY <1>2 DEF Starting
<1>4. ListsInv' /\ LedsInv' /\ ToldInv' /\ RangeInv'
  BY <1>1, <1>3, CalmKept
<1>5. Calm' => Calm
  BY <1>1 DEF Calm
<1>6. \A k : Cleared(k) => Cleared(k)'
  BY <1>1 DEF Cleared
<1>7. life = "probe" => listed = {}
  BY EntryFacts DEF CauseInv, NothingYet
<1>8. ClearedInv'
  <2> SUFFICES ASSUME Calm' PROVE ClearedInv'
    BY DEF ClearedInv
  <2>1. CASE /\ life \in {"probe", "cells", "urb"} /\ life' \in {"cells", "urb", "ready", "gone"}
             /\ life' = "gone" /\ life # "probe" => "probe" \in causes'
    <3>1. life' = "gone" => life = "probe"
      BY <2>1 DEF Calm
    <3>2. life = "probe" => \A k : Cleared(k)'
      BY <1>1, <1>7 DEF Cleared
    <3> QED BY <2>1, <3>1, <3>2 DEF ClearedInv
  <2>2. ASSUME NEW k \in Lists, CleanStep(k) PROVE life' = k /\ Working(Hub)' /\ ~Working(Hub)
    BY <2>2 DEF CleanStep, Working
  <2>3. CASE life = "ready" /\ CleanStep("servo")
    BY <2>2, <2>3 DEF ClearedInv, Lists
  <2>4. CASE life = "servo" /\ CleanStep("led")
    BY <1>5, <1>6, <2>2, <2>4 DEF CalmInv, ClearedInv, Lists
  <2>5. CASE life = "led" /\ CleanStep("adc")
    BY <1>5, <1>6, <2>2, <2>5 DEF CalmInv, ClearedInv, Lists
  <2>6. CASE RemoveChildren \/ RemoveMisc \/ FreeDev
    BY <1>5, <1>6, <2>6 DEF CalmInv, ClearedInv, RemoveChildren, RemoveMisc, FreeDev, Working
  <2> QED BY <2>1, <2>3, <2>4, <2>5, <2>6, LifecycleCases
<1>9. FlagsInv'
  <2> SUFFICES ASSUME Calm' PROVE FlagsInv'
    BY DEF FlagsInv
  <2>1. CASE /\ life \in {"probe", "cells", "urb"} /\ life' \in {"cells", "urb", "ready", "gone"}
             /\ life' = "gone" /\ life # "probe" => "probe" \in causes'
             /\ life = "probe" => base' = base
             /\ UNCHANGED cellVars
    <3>1. life' = "gone" => life = "probe"
      BY <2>1 DEF Calm
    <3>2. UNCHANGED <<registered, children>>
      BY <2>1 DEF cellVars
    <3> QED BY <1>2, <1>5, <2>1, <3>1, <3>2 DEF CalmInv, FlagsInv, CauseInv, NothingYet
  <2>2. ASSUME NEW k \in Lists, CleanStep(k), life \notin {"children", "misc", "gone"} PROVE FlagsInv'
    BY <1>2, <1>5, <2>2 DEF CalmInv, FlagsInv, CleanStep, cellVars, Lists
  <2>3. CASE RemoveChildren
    BY <1>2, <1>5, <2>3 DEF CalmInv, FlagsInv, RemoveChildren
  <2>4. CASE RemoveMisc \/ FreeDev
    BY <1>2, <1>5, <2>4 DEF CalmInv, FlagsInv, RemoveMisc, FreeDev, cellVars
  <2> QED BY <2>1, <2>2, <2>3, <2>4, LifecycleCases DEF Lists
<1>10. PortInv'
  <2>1. CASE held' = held
    BY <1>1, <1>3, <2>1, PortKept
  <2>2. CASE RemoveChildren
    <3> SUFFICES ASSUME Calm' PROVE \A u \in Writers : run'[u].at # "patch"
      BY DEF PortInv
    <3>1. \A u \in Writers : run[u].at = "idle"
      BY <1>5, <2>2 DEF Calm, CauseInv, Undisturbed, Working, RemoveChildren
    <3> QED BY <1>2, <3>1
  <2> QED BY <2>1, <2>2, LifecycleCases DEF CleanStep, RemoveMisc, FreeDev
<1> QED BY <1>4, <1>8, <1>9, <1>10 DEF CalmInv

LEMMA CalmStep ==
  ASSUME TypeInv, CauseInv, MemoryInv, CalmInv, [Next]_vars
  PROVE  CalmInv'
<1>1. CASE UNCHANGED vars
  <2>1. /\ UNCHANGED <<life, base, count, entry, listed, exposed, freed, registered, children, told, held, run,
                      causes>>
        /\ \A h \in Handlers : handling'[h] \in {0, handling[h]} \cup exposed
    BY <1>1 DEF vars, lifeVars, entryVars, cellVars, threadVars, handlerVars
  <2>2. (\A u \in Writers : Starting(u)) /\ (Working(Hub)' <=> Working(Hub))
    BY <2>1 DEF Starting, Working
  <2> QED BY <2>1, <2>2, CalmKept, LifeKept, PortKept DEF CalmInv
<1>2. ASSUME NEW t \in Threads, Proceed(t) PROVE CalmInv'
  BY <1>2, ListsProceed, LedsProceed, ClearedProceed, PortProceed, FlagsProceed, ToldProceed, RangeProceed
     DEF CalmInv
<1> QED BY <1>1, <1>2, CalmWrite, CalmHandler, CalmLifecycle, NextCases

LEMMA CalmInit == Init => CalmInv
BY ListsInit, LedsInit, ClearedInit, PortInit, FlagsInit, ToldInit, RangeInit DEF CalmInv

-----------------------------------------------------------------------------
(* What is used.                                                           *)

(* The steps' additions to wrong that MemorySafe allows.                   *)
Excused(bad) ==
  /\ Calm' => bad \cap {"led", "dev", "uart"} = {}
  /\ "bind" \notin causes' => "spi" \notin bad
  /\ "adc" \notin causes' => "adc" \notin bad
  /\ "servo" \notin bad

LEMMA ExcusedStep ==
  ASSUME MemorySafe, causes \subseteq causes', NEW bad, wrong' \subseteq wrong \cup bad,
         causes' \cap {"teardown", "probe"} = {} => Excused(bad)
  PROVE  MemorySafe'
BY DEF MemorySafe, Excused, Calm

(* Entries in use are not freed, but for LEDs of overlapping writers.      *)
LEMMA FreedExcused ==
  ASSUME TypeInv, MemoryInv, CalmInv, NEW i \in 1 .. count,
         \/ i \in listed \cup exposed
         \/ \E h \in Handlers : handling[h] = i
         \/ \E t \in Writers : Registering(t) /\ run[t].mine = i
  PROVE  Freed(i) \subseteq {"led"} /\ (Calm => Freed(i) = {})
<1>1. CASE i \in freed
  <2>1. entry[i].kind = "led"
    BY <1>1 DEF MemoryInv, FreedIsGone, RegisteringLed
  <2>2. ~Calm
    <3> SUFFICES ASSUME Calm PROVE FALSE
      OBVIOUS
    <3>1. i \notin listed \cup exposed /\ 0 \notin 1 .. count
      BY <1>1, EntryFacts DEF CalmInv, ListsInv
    <3>2. \A h \in Handlers : handling[h] # i
      BY <3>1 DEF CalmInv, ListsInv
    <3>3. \A t \in Writers : Registering(t) => run[t].mine # i
      BY <3>1 DEF CalmInv, ListsInv
    <3> QED BY <3>1, <3>2, <3>3
  <2> QED BY <2>1, <2>2 DEF Freed
<1>2. CASE i \notin freed
  BY <1>2 DEF Freed
<1> QED BY <1>1, <1>2

(* Nobody uses dev once it is freed.                                       *)
LEMMA GoneIsEmpty ==
  ASSUME TypeInv, CauseInv, MemoryInv, CalmInv, Calm, life = "gone"
  PROVE  listed = {} /\ exposed = {} /\ freed = 1 .. count /\ \A h \in Handlers : handling[h] = 0
<1>1. listed = {}
  <2>1. \A i \in listed : entry[i].kind \notin Lists
    BY DEF CalmInv, ClearedInv, Cleared, Lists
  <2> QED BY <2>1, EntryFacts
<1>2. exposed = {}
  <2>1. \A t \in Writers : ~Adding(t)
    BY DEF CauseInv, Undisturbed, Calm, Working, Adding
  <2> QED BY <1>1, <2>1 DEF CalmInv, ListsInv
<1>3. freed = 1 .. count
  BY <1>1, <1>2, EntryFacts DEF CalmInv, ListsInv
<1> QED BY <1>1, <1>2, <1>3 DEF CalmInv, ListsInv

LEMMA SafeProceed ==
  ASSUME TypeInv, CauseInv, MemoryInv, SpiInv, CalmInv, MemorySafe, NEW t \in Threads, Proceed(t)
  PROVE  MemorySafe'
<1>1. causes \subseteq causes'
  BY ProceedCauses
<1>2. Calm' => Calm
  BY <1>1 DEF Calm
<1>3. Working(t)
  BY ProceedEntries DEF EntryStep, Went, Working
<1>4. t \in Writers /\ causes' \cap {"teardown", "probe"} = {} => life \in {"cells", "urb", "ready"}
  BY <1>1, <1>3 DEF CauseInv, Undisturbed
<1>5. CASE wrong' = wrong
  BY <1>1, <1>5 DEF MemorySafe
<1>6. CASE t \in Writers /\ UseDev({})
  <2>1. causes' \cap {"teardown", "probe"} = {} => wrong' = wrong
    BY <1>4, <1>6 DEF UseDev, DevFreed
  <2> QED BY <1>1, <2>1 DEF MemorySafe
<1>7. CASE Registering(t) /\ t \in Writers /\ UseDev(Freed(run[t].mine))
  <2>1. run[t].mine \in 1 .. count
    BY <1>7 DEF TypeInv, PlaceInv
  <2>2. Freed(run[t].mine) \subseteq {"led"} /\ (Calm => Freed(run[t].mine) = {})
    BY <1>7, <2>1, FreedExcused
  <2>3. causes' \cap {"teardown", "probe"} = {} => wrong' = wrong \cup Freed(run[t].mine)
    BY <1>4, <1>7 DEF UseDev, DevFreed
  <2>4. Excused(Freed(run[t].mine))
    BY <1>2, <2>2 DEF Excused
  <2> HIDE DEF Excused
  <2> QED BY <1>1, <2>3, <2>4, ExcusedStep DEF MemorySafe
<1>8. ASSUME NEW i \in listed, wrong' = wrong \cup Freed(i) PROVE MemorySafe'
  <2>1. Freed(i) \subseteq {"led"} /\ (Calm => Freed(i) = {})
    BY EntryFacts, FreedExcused
  <2>2. Excused(Freed(i))
    BY <1>2, <2>1 DEF Excused
  <2> QED BY <1>1, <1>8, <2>2, ExcusedStep
<1>9. CASE Select(t) /\ t \in Writers /\ UseDev(IF "spi" \in bound THEN {} ELSE {"spi"})
  <2> DEFINE bad == IF "spi" \in bound THEN {} ELSE {"spi"}
  <2>1. "spi" \in registered
    BY <1>9 DEF Select, At, SpiInv, SelectAfterProbe
  <2>2. causes' \cap {"teardown", "probe"} = {} => Excused(bad) /\ wrong' = wrong \cup bad
    BY <1>1, <1>4, <1>9, <2>1 DEF Excused, SpiInv, SpiBound, UseDev, DevFreed
  <2> HIDE DEF bad
  <2> QED BY <1>1, <2>2, ExcusedStep DEF MemorySafe
<1>10. CASE t \in Writers /\ UseDev({"adc"}) /\ "adc" \in causes'
  <2>1. causes' \cap {"teardown", "probe"} = {} => wrong' = wrong \cup {"adc"}
    BY <1>4, <1>10 DEF UseDev, DevFreed
  <2>2. Excused({"adc"})
    BY <1>10 DEF Excused
  <2> HIDE DEF Excused
  <2> QED BY <1>1, <2>1, <2>2, ExcusedStep DEF MemorySafe
<1>11. CASE Patch(t) /\ t \in Writers /\ t \notin held /\ wrong' = wrong \cup {"uart"}
  <2>1. ~Calm
    BY <1>11 DEF Patch, CalmInv, PortInv
  <2>2. Excused({"uart"})
    BY <1>2, <2>1 DEF Excused
  <2> QED BY <1>1, <1>11, <2>2, ExcusedStep
<1> QED BY <1>5, <1>6, <1>7, <1>8, <1>9, <1>10, <1>11, ProceedWrong

LEMMA SafeHandler ==
  ASSUME TypeInv, CauseInv, MemoryInv, CalmInv, MemorySafe, NEW h \in Handlers, Handles(h)
  PROVE  MemorySafe'
<1>1. causes' = causes /\ (Calm' <=> Calm)
  BY DEF Handles, StartHandler, StartSelfOff, EndHandler, Calm
<1>2. ASSUME NEW i \in 1 .. count, UseDev(Freed(i)),
             i \in exposed \/ handling[h] = i
      PROVE  MemorySafe'
  <2>1. Freed(i) \subseteq {"led"} /\ (Calm => Freed(i) = {})
    BY <1>2, FreedExcused
  <2>2. Calm => ~DevFreed
    BY <1>2, GoneIsEmpty, EntryFacts DEF DevFreed
  <2> DEFINE bad == Freed(i) \cup IF DevFreed THEN {"dev"} ELSE {}
  <2>3. Excused(bad) /\ wrong' = wrong \cup bad
    BY <1>1, <1>2, <2>1, <2>2 DEF Excused, UseDev
  <2> HIDE DEF bad
  <2> QED BY <1>1, <2>3, ExcusedStep
<1>3. ASSUME NEW i \in Entries, StartHandler(h, i) PROVE MemorySafe'
  BY <1>2, <1>3, EntryFacts DEF StartHandler
<1>4. CASE StartSelfOff(h)
  BY <1>4 DEF StartSelfOff, MemorySafe
<1>5. CASE EndHandler(h)
  <2>1. handling[h] \in 1 .. count
    BY <1>5, EntryFacts DEF EndHandler, MemoryInv, HandledExist
  <2> QED BY <1>2, <1>5, <2>1 DEF EndHandler
<1> QED BY <1>3, <1>4, <1>5 DEF Handles

LEMMA SafeWrite ==
  ASSUME MemorySafe, NEW t \in Writers, NEW c \in Commands, Write(t, c)
  PROVE  MemorySafe'
<1>1. /\ causes \subseteq causes'
      /\ "teardown" \notin causes' => ~DevFreed
      /\ UseDev({})
  BY DEF Write, Disconnected, DevFreed
<1>2. causes' \cap {"teardown", "probe"} = {} => wrong' = wrong
  BY <1>1 DEF UseDev
<1> QED BY <1>1, <1>2 DEF MemorySafe

LEMMA SafeStep ==
  ASSUME TypeInv, CauseInv, MemoryInv, SpiInv, CalmInv, MemorySafe, [Next]_vars
  PROVE  MemorySafe'
<1>1. CASE Lifecycle
  <2>1. wrong' = wrong /\ causes \subseteq causes'
    BY <1>1, LifecycleCases DEF CleanStep, RemoveChildren, RemoveMisc, FreeDev, Teardown
  <2> QED BY <2>1 DEF MemorySafe
<1>2. CASE UNCHANGED vars
  BY <1>2 DEF vars, MemorySafe
<1> QED BY <1>1, <1>2, SafeProceed, SafeHandler, SafeWrite, NextCases

-----------------------------------------------------------------------------
(* The theorems.                                                           *)

DriverInv == TypeInv /\ CauseInv /\ MemoryInv /\ SpiInv /\ CalmInv /\ MemorySafe

LEMMA DriverInvariant == Spec => []DriverInv
<1>1. Init => DriverInv
  <2>1. Init => MemorySafe
    BY DEF Init, MemorySafe
  <2> QED BY <2>1, TypeInit, CauseInit, MemoryInit, SpiInit, CalmInit DEF DriverInv
<1>2. DriverInv /\ [Next]_vars => DriverInv'
  BY TypeStep, CauseStep, MemoryStep, SpiStep, CalmStep, SafeStep DEF DriverInv
<1> QED BY <1>1, <1>2, PTL DEF Spec

(* Unless a writer overlaps the removal of the device or a probe fails     *)
(* late, servos are never used after they were freed, and an ADC channel   *)
(* only when it could not be registered; LEDs, the UART's port and dev     *)
(* neither unless writers overlap, and g_spi is set when it is used unless *)
(* the child's probe failed (mfd-pwm.c 300-309, 341-346; core.c 220-223,   *)
(* 262-265, 540; mfd-spi.c 132).                                           *)
THEOREM MemoryIsSafe == Spec => []MemorySafe
<1>1. DriverInv => MemorySafe
  BY DEF DriverInv
<1> QED BY <1>1, DriverInvariant, PTL

(* No writer works between commands.                                       *)
LEMMA QuietFacts ==
  ASSUME DriverInv, Quiet, causes \cap {"writers", "teardown"} = {}
  PROVE  Calm /\ \A t \in Writers : ~Working(t) /\ ~Adding(t) /\ ~Registering(t) /\ ~Configuring(t)
<1>1. Calm
  BY DEF Quiet, Calm, DriverInv, CauseInv, ProbeFailed
<1>2. \A t \in Writers : run[t].at = "idle"
  BY DEF Quiet, Busy
<1> QED BY <1>1, <1>2 DEF Working, Adding, Registering, Configuring, At

(* Between commands, the driver's lists and sysfs show the same entries,   *)
(* the memory of all others is freed, and there is one LED and one servo   *)
(* for a pin at most (mfd-pwm.c 271-346, 119-157; core.c 233-271).         *)
THEOREM ListsMatchSysfs == Spec => []ListsAgree
<1>1. DriverInv => ListsAgree
  <2> SUFFICES ASSUME DriverInv, Quiet, causes \cap {"writers", "teardown"} = {}
               PROVE  /\ listed = exposed /\ listed = (1 .. count) \ freed
                      /\ \A i, j \in listed :
                           entry[i].kind = entry[j].kind /\ entry[i].pin = entry[j].pin
                             /\ entry[i].kind # "adc" => i = j
    BY DEF ListsAgree
  <2>1. Calm /\ \A t \in Writers : ~Adding(t) /\ ~Registering(t)
    BY QuietFacts
  <2>2. TypeInv /\ ListsInv /\ LedsInv /\ OneServoPerPin
    BY DEF DriverInv, CalmInv, MemoryInv
  <2>3. listed = exposed
    BY <2>1, <2>2 DEF ListsInv
  <2>4. listed = (1 .. count) \ freed
    BY <2>1, <2>2, <2>3, EntryFacts DEF ListsInv
  <2>5. ASSUME NEW i \in listed, NEW j \in listed, entry[i].kind = entry[j].kind,
               entry[i].pin = entry[j].pin, entry[i].kind # "adc"
        PROVE  i = j
    <3>1. entry[i].kind \in Lists
      BY <2>2, EntryFacts
    <3> QED BY <2>1, <2>2, <2>5, <3>1 DEF LedsInv, OneServoPerPin, Lists
  <2> QED BY <2>3, <2>4, <2>5
<1> QED BY <1>1, DriverInvariant, PTL

(* Between commands, the range the driver has for a servo is the one the   *)
(* device was told, unless a packet was lost (mfd-pwm.c 124-171).          *)
THEOREM RangesMatchDevice == Spec => []RangesAgree
<1>1. DriverInv => RangesAgree
  <2> SUFFICES ASSUME DriverInv, Quiet, causes \cap {"writers", "teardown", "lost"} = {},
                      NEW i \in listed, entry[i].kind = "servo"
               PROVE  told.servo[entry[i].pin] = entry[i].range
    BY DEF RangesAgree
  <2>1. Calm /\ \A t \in Writers : ~Configuring(t)
    BY QuietFacts
  <2> QED BY <2>1 DEF DriverInv, CalmInv, RangeInv, Ranged, ToTell
<1> QED BY <1>1, DriverInvariant, PTL

(* Between commands, a flag says whether the child is there; no child is   *)
(* there twice, and the device was told to set up its bus unless that      *)
(* packet was lost (core.c 178-232, 272-292).                              *)
THEOREM FlagsMatchChildren == Spec => []FlagsAgree
<1>1. DriverInv => FlagsAgree
  <2> SUFFICES ASSUME DriverInv, Quiet, causes \cap {"writers", "teardown"} = {}, NEW c \in Cells
               PROVE  /\ children[c] = IF c \in registered THEN 1 ELSE 0
                      /\ c \in registered => c \in told.cells \/ "lost" \in causes
    BY DEF FlagsAgree
  <2>1. Calm /\ \A t \in Writers : run[t].at = "idle"
    BY QuietFacts DEF Working
  <2>2. life = "ready"
    BY DEF Quiet
  <2> QED BY <2>1, <2>2 DEF DriverInv, CalmInv, FlagsInv, ToldInv, Told, Disabling
<1> QED BY <1>1, DriverInvariant, PTL

(* After disconnect no entry is on a list or in sysfs, no child is left,   *)
(* and the memory of every entry was freed (core.c 503-545).               *)
THEOREM NothingIsLeft == Spec => []NothingLeft
<1>1. DriverInv => NothingLeft
  <2> SUFFICES ASSUME DriverInv, life = "gone", causes \subseteq {"bind", "adc", "lost"} PROVE NothingLeft
    BY DEF NothingLeft, DevFreed
  <2>1. Calm
    BY DEF Calm
  <2>2. listed = {} /\ exposed = {} /\ freed = 1 .. count
    BY <2>1, GoneIsEmpty DEF DriverInv
  <2>3. ~base /\ \A c \in Cells : children[c] = 0
    BY <2>1 DEF DriverInv, CalmInv, FlagsInv
  <2> QED BY <2>2, <2>3 DEF NothingLeft
<1> QED BY <1>1, DriverInvariant, PTL

=============================================================================
