----------------------------- MODULE PicoDriver -----------------------------
(***************************************************************************)
(* The host driver's registry: what /dev/picolink commands create and      *)
(* remove (LEDs, servos, ADC channels, and the I2C, UART and SPI           *)
(* children), from the probe of the device to its disconnect.              *)
(*                                                                         *)
(* Threads: writers of /dev/picolink, the USB hub's thread (probe and      *)
(* disconnect), and the handlers of sysfs attributes.  Each list has a     *)
(* mutex; the flags of the children have none.  Unregistering a device     *)
(* waits for the handlers of its attributes and, as nothing else in the    *)
(* driver counts references, memory is freed right after.                  *)
(***************************************************************************)
EXTENDS Integers, FiniteSets

CONSTANTS
  Writers,      \* threads that write to /dev/picolink
  Handlers,     \* threads that run attribute handlers
  Hub,          \* the thread of probe and disconnect
  NoThread,     \* a free mutex
  Pins,
  Values,       \* the number in "servo<pin> <number>": a range or an angle
  Mixes,        \* bound: the kinds of commands written in one behaviour
  MaxCommands,  \* bound: commands written
  MaxUses       \* bound: attribute handlers started

Threads == Writers \cup {Hub}

ASSUME ThreadsAssumption == Hub \notin Writers /\ NoThread \notin Threads /\ IsFiniteSet(Writers)
ASSUME ValuesAssumption == Values \subseteq Nat \ {0}
ASSUME BoundsAssumption == MaxCommands \in Nat /\ MaxUses \in Nat

VARIABLES
  life,        \* where probe or disconnect is; "gone": dev is freed
  misc,        \* /dev/picolink exists
  base,        \* the gpio, adc and pwm children exist
  count,       \* entries allocated so far
  entry,       \* what each is
  listed,      \* entries in the driver's lists
  exposed,     \* entries with a device in sysfs
  freed,       \* entries whose memory was freed
  lock,        \* leds_lock, servos_lock, adcs_lock
  registered,  \* the flags dev->i2c_registered and so on
  children,    \* the children of each name
  bound,       \* uart_instance, g_spi: set by a probe that succeeded
  selects,     \* g_spi->cs_devs: chip selects with a device
  held,        \* threads that read uart_instance, as long as that port exists
  told,        \* what the device was told: cells set up, servo ranges
  fds,         \* writers that have /dev/picolink open
  run,         \* where a thread is in its command, and its entry
  offered,     \* the kinds of commands of this behaviour
  commands, uses,
  handling,    \* the entry whose attribute a handler serves, 0: none
  selfOff,     \* handlers in disable_store: they wait for themselves
  causes,      \* what happened that the driver does not guard against
  wrong        \* freed or missing memory that was used: of what

lifeVars == <<life, misc, base>>
entryVars == <<count, entry, listed, exposed, freed>>
cellVars == <<registered, children, bound, selects>>
threadVars == <<fds, run, offered, commands>>
handlerVars == <<uses, handling, selfOff>>
vars == <<lifeVars, entryVars, lock, cellVars, told, threadVars, held, handlerVars, causes, wrong>>

Lists == {"led", "servo", "adc"}
Cells == {"i2c", "uart", "spi"}
Entries == 1 .. MaxCommands

(* There is no command that disables SPI.                                  *)
Commands ==
       [do : {"on", "off"}, what : {"led", "adc"}, pin : Pins, val : {0}]
  \cup [do : {"on"}, what : {"servo"}, pin : Pins, val : Values]
  \cup [do : {"off"}, what : {"servo"}, pin : Pins, val : {0}]
  \cup [do : {"on", "off"}, what : {"i2c", "uart"}, pin : {0}, val : {0}]
  \cup [do : {"on"}, what : {"spi"}, pin : {0}, val : {0}]
  \cup [do : {"on"}, what : {"cs"}, pin : Pins, val : {0}]

(* What disconnect does for each list.                                     *)
Cleanups == [do : {"clean"}, what : Lists, pin : {0}, val : {0}]

Labels == {"idle", "find", "add", "register", "unlist", "send", "take", "remove", "test",
           "probe", "unplug", "port", "patch", "select"}
NoCommand == [do |-> "on", what |-> "spi", pin |-> 0, val |-> 0]
Idle == [at |-> "idle", cmd |-> NoCommand, mine |-> 0]

Lives == {"probe", "cells", "urb", "ready", "servo", "led", "adc", "children", "misc", "free", "gone"}

TypeOK ==
  /\ life \in Lives /\ misc \in BOOLEAN /\ base \in BOOLEAN
  /\ count \in 0 .. MaxCommands
  /\ entry \in [Entries -> [kind : Lists, pin : Pins \cup {0}, range : Values \cup {0}]]
  /\ listed \subseteq 1 .. count /\ exposed \subseteq 1 .. count /\ freed \subseteq 1 .. count
  /\ lock \in [Lists -> Threads \cup {NoThread}]
  /\ registered \subseteq Cells /\ bound \subseteq {"uart", "spi"} /\ selects \subseteq Pins
  /\ children \in [Cells -> Nat]
  /\ told \in [cells : SUBSET Cells, servo : [Pins -> Values \cup {0}]]
  /\ fds \subseteq Writers /\ held \subseteq Threads
  /\ run \in [Threads -> [at : Labels, cmd : Commands \cup Cleanups, mine : 0 .. MaxCommands]]
  /\ offered \in Mixes /\ commands \in 0 .. MaxCommands /\ uses \in 0 .. MaxUses
  /\ handling \in [Handlers -> 0 .. MaxCommands] /\ selfOff \subseteq Handlers
  /\ causes \subseteq {"writers", "teardown", "probe", "bind", "adc", "lost"}
  /\ wrong \subseteq Lists \cup {"dev", "spi", "uart"}

Init ==
  /\ life = "probe" /\ misc = FALSE /\ base = FALSE
  /\ count = 0 /\ entry = [i \in Entries |-> [kind |-> "led", pin |-> 0, range |-> 0]]
  /\ listed = {} /\ exposed = {} /\ freed = {}
  /\ lock = [k \in Lists |-> NoThread]
  /\ registered = {} /\ bound = {} /\ selects = {} /\ held = {} /\ children = [c \in Cells |-> 0]
  /\ told = [cells |-> {}, servo |-> [p \in Pins |-> 0]]
  /\ fds = {} /\ run = [t \in Threads |-> Idle]
  /\ offered \in Mixes /\ commands = 0 /\ uses = 0
  /\ handling = [h \in Handlers |-> 0] /\ selfOff = {}
  /\ causes = {} /\ wrong = {}

-----------------------------------------------------------------------------

GoWith(t, label, i) ==
  run' = [run EXCEPT ![t] = IF label = "idle" THEN Idle ELSE [@ EXCEPT !.at = label, !.mine = i]]

GoTo(t, label) == GoWith(t, label, run[t].mine)

At(t, label, w) == run[t].at = label /\ run[t].cmd.what = w

Busy == {t \in Writers : run[t].at # "idle"}

DevFreed == life = "gone"

Disconnected == life \notin {"probe", "cells", "urb", "ready"}

(* The thread uses dev.                                                    *)
UseDev(bad) == wrong' = wrong \cup bad \cup IF DevFreed THEN {"dev"} ELSE {}

(* The thread uses the memory of entry i.                                  *)
Freed(i) == IF i \in freed THEN {entry[i].kind} ELSE {}

(* The entries of the list that the thread's command is about.             *)
Matches(t) ==
  {i \in listed : /\ entry[i].kind = run[t].cmd.what
                  /\ run[t].cmd.do = "clean" \/ entry[i].pin = run[t].cmd.pin}

Free(k) == lock[k] = NoThread

(* Where a command starts.                                                 *)
Entry(c) ==
  CASE c.what \in {"led", "servo"} /\ c.do = "on" -> "find"
    [] c.what = "adc" /\ c.do = "on" -> "register"
    [] c.what \in {"led", "adc"} /\ c.do = "off" -> "take"
    [] c.what = "cs" -> "test"
    [] OTHER -> "send"

(* A writer opens /dev/picolink, unless it still has it open: a file stays *)
(* open when the device is removed.                                        *)
Write(t, c) ==
  /\ run[t].at = "idle"
  /\ misc \/ t \in fds
  /\ commands < MaxCommands /\ c.what \in offered
  /\ commands' = commands + 1
  /\ fds' = fds \cup {t}
  /\ run' = [run EXCEPT ![t] = [at |-> Entry(c), cmd |-> c, mine |-> 0]]
  /\ UseDev({})
  /\ causes' = causes \cup (IF Busy # {} THEN {"writers"} ELSE {})
                      \cup (IF Disconnected THEN {"teardown"} ELSE {})
  /\ UNCHANGED <<lifeVars, entryVars, lock, cellVars, told, offered, held, handlerVars>>

-----------------------------------------------------------------------------
(* LEDs and servos.                                                        *)

(* "led 5": is there one?  "servo3 90": is it there, so that 90 is an      *)
(* angle?  The lock is released again.                                     *)
Find(t) ==
  /\ run[t].at = "find" /\ Free(run[t].cmd.what)
  /\ GoTo(t, IF Matches(t) = {} THEN "add"
             ELSE IF run[t].cmd.what = "led" THEN "idle" ELSE "send")
  /\ UNCHANGED <<lifeVars, entryVars, lock, cellVars, told, fds, offered, commands, held, handlerVars, causes, wrong>>

New(t, range, label) ==
  /\ count' = count + 1
  /\ entry' = [entry EXCEPT ![count + 1] = [kind |-> run[t].cmd.what, pin |-> run[t].cmd.pin, range |-> range]]
  /\ GoWith(t, label, count + 1)

(* The LED is put on the list before it is registered.                     *)
AddLed(t) ==
  /\ At(t, "add", "led") /\ Free("led")
  /\ New(t, 0, "register")
  /\ listed' = listed \cup {count + 1}
  /\ UNCHANGED <<lifeVars, exposed, freed, lock, cellVars, told, fds, offered, commands, held, handlerVars, causes, wrong>>

RegisterLed(t) ==
  /\ At(t, "register", "led")
  /\ UseDev(Freed(run[t].mine))
  /\ \/ exposed' = exposed \cup {run[t].mine} /\ GoTo(t, "send")
     \/ exposed' = exposed /\ GoTo(t, "unlist")
  /\ UNCHANGED <<lifeVars, count, entry, listed, freed, lock, cellVars, told, fds, offered, commands, held, handlerVars, causes>>

(* Mutant of UnlistLed: the LED that failed stays on the list.             *)
UnlistLedNot(t) ==
  /\ run[t].at = "unlist" /\ Free("led")
  /\ UseDev(Freed(run[t].mine))
  /\ freed' = freed \cup {run[t].mine}
  /\ GoTo(t, "idle")
  /\ UNCHANGED <<lifeVars, count, entry, listed, exposed, lock, cellVars, told, fds, offered, commands, held, handlerVars, causes>>

UnlistLed(t) ==
  /\ run[t].at = "unlist" /\ Free("led")
  /\ UseDev(Freed(run[t].mine))
  /\ listed' = listed \ {run[t].mine}
  /\ freed' = freed \cup {run[t].mine}
  /\ GoTo(t, "idle")
  /\ UNCHANGED <<lifeVars, count, entry, exposed, lock, cellVars, told, fds, offered, commands, held, handlerVars, causes>>

(* Mutant of ConfigServo: what Find found is believed.                     *)
ConfigServoBlindly(t) ==
  /\ At(t, "add", "servo") /\ Free("servo")
  /\ \/ /\ New(t, run[t].cmd.val, "send")
        /\ listed' = listed \cup {count + 1} /\ exposed' = exposed \cup {count + 1}
     \/ GoTo(t, "idle") /\ UNCHANGED <<count, entry, listed, exposed>>
  /\ UseDev({})
  /\ UNCHANGED <<lifeVars, freed, lock, cellVars, told, fds, offered, commands, held, handlerVars, causes>>

(* picolink_servo_cmd_config looks again, and creates the servo under the  *)
(* same lock unless the device cannot be created.                          *)
ConfigServo(t) ==
  /\ At(t, "add", "servo") /\ Free("servo")
  /\ \/ /\ Matches(t) # {}
        /\ LET i == CHOOSE j \in Matches(t) : TRUE
           IN  entry' = [entry EXCEPT ![i].range = run[t].cmd.val] /\ GoWith(t, "send", i)
        /\ UNCHANGED <<count, listed, exposed>>
     \/ /\ Matches(t) = {}
        /\ New(t, run[t].cmd.val, "send")
        /\ listed' = listed \cup {count + 1} /\ exposed' = exposed \cup {count + 1}
     \/ /\ Matches(t) = {}
        /\ GoTo(t, "idle") /\ UNCHANGED <<count, entry, listed, exposed>>
  /\ UseDev({})
  /\ UNCHANGED <<lifeVars, freed, lock, cellVars, told, fds, offered, commands, held, handlerVars, causes>>

(* A packet is sent; nobody looks whether that succeeds.                   *)
Tell(new) ==
  \/ told' = new /\ causes' = causes
  \/ told' = told /\ causes' = causes \cup {"lost"}

SendLed(t) ==
  /\ At(t, "send", "led")
  /\ UseDev({})
  /\ GoTo(t, "idle")
  /\ UNCHANGED <<lifeVars, entryVars, lock, cellVars, told, fds, offered, commands, held, handlerVars, causes>>

(* Mutant of SendServo: a servo that was found is configured again.        *)
SendServoConfig(t) ==
  /\ At(t, "send", "servo") /\ run[t].cmd.do = "on"
  /\ IF Disconnected THEN UNCHANGED <<told, causes>>
     ELSE Tell([told EXCEPT !.servo[run[t].cmd.pin] = run[t].cmd.val])
  /\ UseDev({})
  /\ GoTo(t, "idle")
  /\ UNCHANGED <<lifeVars, entryVars, lock, cellVars, fds, offered, commands, held, handlerVars>>

(* A servo's configuration, or the angle of one that was found.  Nothing   *)
(* is sent once the device is gone.                                        *)
SendServo(t) ==
  /\ At(t, "send", "servo") /\ run[t].cmd.do = "on"
  /\ IF Disconnected \/ run[t].mine = 0 THEN UNCHANGED <<told, causes>>
     ELSE Tell([told EXCEPT !.servo[run[t].cmd.pin] = run[t].cmd.val])
  /\ UseDev({})
  /\ GoTo(t, "idle")
  /\ UNCHANGED <<lifeVars, entryVars, lock, cellVars, fds, offered, commands, held, handlerVars>>

(* "servo3 disable": the packet first, which the firmware ignores.         *)
SendServoOff(t) ==
  /\ At(t, "send", "servo") /\ run[t].cmd.do = "off"
  /\ UseDev({})
  /\ GoTo(t, "take")
  /\ UNCHANGED <<lifeVars, entryVars, lock, cellVars, told, fds, offered, commands, held, handlerVars, causes>>

-----------------------------------------------------------------------------
(* ADC channels: registered first, then put on the list; any number of     *)
(* them for a pin.                                                         *)

(* A channel that cannot be registered is freed, and read once more for    *)
(* the result.                                                             *)
RegisterAdc(t) ==
  /\ At(t, "register", "adc")
  /\ \/ /\ New(t, 0, "add") /\ exposed' = exposed \cup {count + 1}
        /\ UseDev({}) /\ causes' = causes
     \/ /\ GoTo(t, "idle") /\ UNCHANGED <<count, entry, exposed>>
        /\ UseDev({"adc"}) /\ causes' = causes \cup {"adc"}
  /\ UNCHANGED <<lifeVars, listed, freed, lock, cellVars, told, fds, offered, commands, held, handlerVars>>

AddAdc(t) ==
  /\ At(t, "add", "adc") /\ Free("adc")
  /\ listed' = listed \cup {run[t].mine}
  /\ GoTo(t, "idle")
  /\ UNCHANGED <<lifeVars, count, entry, exposed, freed, lock, cellVars, told, fds, offered, commands, held, handlerVars, causes, wrong>>

-----------------------------------------------------------------------------
(* Removal from a list, by "disable" and by disconnect.                    *)

Take(t) ==
  /\ run[t].at = "take" /\ Free(run[t].cmd.what)
  /\ lock' = [lock EXCEPT ![run[t].cmd.what] = t]
  /\ GoTo(t, "remove")
  /\ UNCHANGED <<lifeVars, entryVars, cellVars, told, fds, offered, commands, held, handlerVars, causes, wrong>>

(* No handler serves an attribute of the entry.                            *)
Drained(i) == \A h \in Handlers : handling[h] # i

(* Mutant of Remove: leds_lock is not released at the first.               *)
RemoveLocked(t, i) ==
  /\ run[t].at = "remove"
  /\ i \in Matches(t) /\ Drained(i)
  /\ exposed' = exposed \ {i}
  /\ listed' = listed \ {i}
  /\ freed' = freed \cup {i}
  /\ wrong' = wrong \cup Freed(i)
  /\ IF run[t].cmd.what = "led" /\ run[t].cmd.do = "off" THEN GoTo(t, "idle") ELSE UNCHANGED run
  /\ UNCHANGED <<lifeVars, count, entry, lock, cellVars, told, fds, offered, commands, held, handlerVars, causes>>

(* Unregistered, taken off the list and freed.  "led 5 disable" stops at   *)
(* the first.                                                              *)
Remove(t, i) ==
  /\ run[t].at = "remove"
  /\ i \in Matches(t) /\ Drained(i)
  /\ exposed' = exposed \ {i}
  /\ listed' = listed \ {i}
  /\ freed' = freed \cup {i}
  /\ wrong' = wrong \cup Freed(i)
  /\ IF run[t].cmd.what = "led" /\ run[t].cmd.do = "off"
       THEN GoTo(t, "idle") /\ lock' = [lock EXCEPT !["led"] = NoThread]
       ELSE UNCHANGED <<run, lock>>
  /\ UNCHANGED <<lifeVars, count, entry, cellVars, told, fds, offered, commands, held, handlerVars, causes>>

Release(t) ==
  /\ run[t].at = "remove" /\ Matches(t) = {}
  /\ lock' = [lock EXCEPT ![run[t].cmd.what] = NoThread]
  /\ GoTo(t, "idle")
  /\ UNCHANGED <<lifeVars, entryVars, cellVars, told, fds, offered, commands, held, handlerVars, causes, wrong>>

-----------------------------------------------------------------------------
(* The I2C, UART and SPI children.                                         *)

SendCell(t) ==
  /\ run[t].at = "send" /\ run[t].cmd.what \in Cells
  /\ UseDev({})
  /\ IF Disconnected THEN UNCHANGED <<told, causes>>
     ELSE Tell([told EXCEPT !.cells = IF run[t].cmd.do = "on" THEN @ \cup {run[t].cmd.what}
                                      ELSE @ \ {run[t].cmd.what}])
  /\ GoTo(t, "test")
  /\ UNCHANGED <<lifeVars, entryVars, lock, cellVars, fds, offered, commands, held, handlerVars>>

(* Where the handling of the flag leads: "uart 0 1" goes on to the port.   *)
Onward(c) == IF c.do = "on" /\ c.what = "uart" THEN "port" ELSE "idle"

Test(t) ==
  /\ run[t].at = "test" /\ run[t].cmd.what \in Cells
  /\ UseDev({})
  /\ GoTo(t, IF (run[t].cmd.do = "on") = (run[t].cmd.what \in registered) THEN Onward(run[t].cmd)
             ELSE IF run[t].cmd.do = "on" THEN "probe" ELSE "unplug")
  /\ UNCHANGED <<lifeVars, entryVars, lock, cellVars, told, fds, offered, commands, held, handlerVars, causes>>

(* mfd_add_devices and the flag.  The child stays when its driver's probe  *)
(* fails; mfd_add_devices itself may fail, too.                            *)
Probe(t) ==
  /\ run[t].at = "probe"
  /\ UseDev({})
  /\ \/ /\ children' = [children EXCEPT ![run[t].cmd.what] = @ + 1]
        /\ registered' = registered \cup {run[t].cmd.what}
        /\ \/ bound' = bound \cup ({run[t].cmd.what} \cap {"uart", "spi"}) /\ causes' = causes
           \/ bound' = bound /\ causes' = causes \cup {"bind"}
     \/ UNCHANGED <<children, registered, bound, causes>>
  /\ GoTo(t, Onward(run[t].cmd))
  /\ UNCHANGED <<lifeVars, entryVars, lock, selects, told, fds, offered, commands, held, handlerVars>>

(* Mutant of Unplug: the flag stays.                                       *)
UnplugOnly(t) ==
  /\ run[t].at = "unplug"
  /\ UseDev({})
  /\ children' = [children EXCEPT ![run[t].cmd.what] = IF @ > 0 THEN @ - 1 ELSE 0]
  /\ bound' = bound \ {run[t].cmd.what}
  /\ held' = IF run[t].cmd.what = "uart" THEN {} ELSE held
  /\ GoTo(t, "idle")
  /\ UNCHANGED <<lifeVars, entryVars, lock, registered, selects, told, fds, offered, commands, handlerVars, causes>>

(* Mutant of Unplug: there always is a child to remove.                    *)
UnplugAny(t) ==
  /\ run[t].at = "unplug"
  /\ UseDev({})
  /\ children' = [children EXCEPT ![run[t].cmd.what] = @ - 1]
  /\ registered' = registered \ {run[t].cmd.what}
  /\ bound' = bound \ {run[t].cmd.what}
  /\ held' = IF run[t].cmd.what = "uart" THEN {} ELSE held
  /\ GoTo(t, "idle")
  /\ UNCHANGED <<lifeVars, entryVars, lock, selects, told, fds, offered, commands, handlerVars, causes>>

(* picolink_remove_subdev removes the first child of that name, if there   *)
(* is one.                                                                 *)
Unplug(t) ==
  /\ run[t].at = "unplug"
  /\ UseDev({})
  /\ children' = [children EXCEPT ![run[t].cmd.what] = IF @ > 0 THEN @ - 1 ELSE 0]
  /\ registered' = registered \ {run[t].cmd.what}
  /\ bound' = bound \ {run[t].cmd.what}
  /\ held' = IF run[t].cmd.what = "uart" THEN {} ELSE held
  /\ GoTo(t, "idle")
  /\ UNCHANGED <<lifeVars, entryVars, lock, selects, told, fds, offered, commands, handlerVars, causes>>

(* "uart 0 1" ends with a look at uart_instance, whether or not it added   *)
(* the child...                                                            *)
Port(t) ==
  /\ run[t].at = "port"
  /\ held' = IF "uart" \in bound THEN held \cup {t} ELSE held
  /\ GoTo(t, IF "uart" \in bound THEN "patch" ELSE "idle")
  /\ UNCHANGED <<lifeVars, entryVars, lock, cellVars, told, fds, offered, commands, handlerVars, causes, wrong>>

(* ... and, when there was a port, the pins are stored in it.              *)
Patch(t) ==
  /\ run[t].at = "patch"
  /\ wrong' = IF t \in held THEN wrong ELSE wrong \cup {"uart"}
  /\ held' = held \ {t}
  /\ GoTo(t, "idle")
  /\ UNCHANGED <<lifeVars, entryVars, lock, cellVars, told, fds, offered, commands, handlerVars, causes>>

(* Mutant of TestSelect: the flag is not looked at.                        *)
TestSelectNot(t) ==
  /\ At(t, "test", "cs")
  /\ UseDev({})
  /\ GoTo(t, "select")
  /\ UNCHANGED <<lifeVars, entryVars, lock, cellVars, told, fds, offered, commands, held, handlerVars, causes>>

(* "spi cs 0 5" needs the flag.                                            *)
TestSelect(t) ==
  /\ At(t, "test", "cs")
  /\ UseDev({})
  /\ GoTo(t, IF "spi" \in registered THEN "select" ELSE "idle")
  /\ UNCHANGED <<lifeVars, entryVars, lock, cellVars, told, fds, offered, commands, held, handlerVars, causes>>

(* picolink_spi_add_device uses g_spi before it compares it with NULL; it  *)
(* refuses an index that has a device.                                     *)
Select(t) ==
  /\ At(t, "select", "cs")
  /\ UseDev(IF "spi" \in bound THEN {} ELSE {"spi"})
  /\ selects' = IF "spi" \in bound THEN selects \cup {run[t].cmd.pin} ELSE selects
  /\ GoTo(t, "idle")
  /\ UNCHANGED <<lifeVars, entryVars, lock, registered, children, bound, told, fds, offered, commands, held, handlerVars, causes>>

-----------------------------------------------------------------------------
(* Attribute handlers: brightness, angle, value.                           *)

StartHandler(h, i) ==
  /\ uses < MaxUses /\ handling[h] = 0
  /\ i \in exposed
  /\ uses' = uses + 1
  /\ handling' = [handling EXCEPT ![h] = i]
  /\ UseDev(Freed(i))
  /\ UNCHANGED <<lifeVars, entryVars, lock, cellVars, told, held, threadVars, selfOff, causes>>

(* disable_store of an LED: led_classdev_unregister waits for the handlers *)
(* of the attributes of the LED, of which this is one.                     *)
StartSelfOff(h) ==
  /\ handling[h] # 0 /\ h \notin selfOff /\ entry[handling[h]].kind = "led"
  /\ selfOff' = selfOff \cup {h}
  /\ UNCHANGED <<lifeVars, entryVars, lock, cellVars, told, held, threadVars, uses, handling, causes, wrong>>

(* A packet is sent or, by the ADC's, exchanged.                           *)
EndHandler(h) ==
  /\ handling[h] # 0 /\ h \notin selfOff
  /\ handling' = [handling EXCEPT ![h] = 0]
  /\ UseDev(Freed(handling[h]))
  /\ UNCHANGED <<lifeVars, entryVars, lock, cellVars, told, held, threadVars, uses, selfOff, causes>>

-----------------------------------------------------------------------------
(* Probe and disconnect.                                                   *)

(* Disconnect starts while some writer is in the middle of a command.      *)
Teardown == causes' = IF Busy # {} THEN causes \cup {"teardown"} ELSE causes

(* dev is freed, and nothing else undone but /dev/picolink; what writers   *)
(* created through it in the meantime stays.                               *)
FailProbe == life' = "gone" /\ misc' = FALSE /\ causes' = causes \cup {"probe"}

(* /dev/picolink exists before the children do.                            *)
ProbeMisc ==
  /\ life = "probe"
  /\ \/ misc' = TRUE /\ life' = "cells"
     \/ misc' = misc /\ life' = "gone"
  /\ UNCHANGED <<base, entryVars, lock, cellVars, told, threadVars, held, handlerVars, causes, wrong>>

ProbeCells ==
  /\ life = "cells"
  /\ \/ base' = TRUE /\ life' = "urb" /\ UNCHANGED <<misc, causes>>
     \/ base' = base /\ FailProbe
  /\ UNCHANGED <<entryVars, lock, cellVars, told, threadVars, held, handlerVars, wrong>>

(* When the read URB cannot be submitted, the children stay.               *)
ProbeUrb ==
  /\ life = "urb"
  /\ \/ life' = "ready" /\ UNCHANGED <<misc, causes>>
     \/ FailProbe
  /\ UNCHANGED <<base, entryVars, lock, cellVars, told, threadVars, held, handlerVars, wrong>>

(* The lists are cleared one after the other.                              *)
Clean(k, next) ==
  /\ life' = next
  /\ run' = [run EXCEPT ![Hub] =
       [at |-> "take", cmd |-> [do |-> "clean", what |-> k, pin |-> 0, val |-> 0], mine |-> 0]]
  /\ UNCHANGED <<misc, base, entryVars, lock, cellVars, told, fds, offered, commands, held, handlerVars, wrong>>

Disconnect ==
  /\ life = "ready"
  /\ Clean("servo", "servo")
  /\ Teardown

(* Mutant of CleanLeds: the LEDs are left to the driver's remove.          *)
CleanLedsNot ==
  /\ life = "servo" /\ run[Hub].at = "idle" /\ Clean("servo", "led") /\ causes' = causes

CleanLeds == life = "servo" /\ run[Hub].at = "idle" /\ Clean("led", "led") /\ causes' = causes

CleanAdcs == life = "led" /\ run[Hub].at = "idle" /\ Clean("adc", "adc") /\ causes' = causes

RemoveChildren ==
  /\ life = "adc" /\ run[Hub].at = "idle"
  /\ life' = "children"
  /\ base' = FALSE
  /\ children' = [c \in Cells |-> 0] /\ bound' = {} /\ selects' = {} /\ held' = {}
  /\ UNCHANGED <<misc, entryVars, lock, registered, told, threadVars, handlerVars, causes, wrong>>

RemoveMisc ==
  /\ life = "children"
  /\ life' = "misc"
  /\ misc' = FALSE
  /\ UNCHANGED <<base, entryVars, lock, cellVars, told, threadVars, held, handlerVars, causes, wrong>>

FreeDev ==
  /\ life = "misc"
  /\ life' = "gone"
  /\ UNCHANGED <<misc, base, entryVars, lock, cellVars, told, threadVars, held, handlerVars, causes, wrong>>

-----------------------------------------------------------------------------

(* The rest of a command.                                                  *)
Proceed(t) ==
  \/ Find(t) \/ AddLed(t) \/ RegisterLed(t) \/ UnlistLed(t) \/ SendLed(t)
  \/ ConfigServo(t) \/ SendServo(t) \/ SendServoOff(t)
  \/ RegisterAdc(t) \/ AddAdc(t)
  \/ Take(t) \/ (\E i \in Entries : Remove(t, i)) \/ Release(t)
  \/ SendCell(t) \/ Test(t) \/ Probe(t) \/ Unplug(t) \/ Port(t) \/ Patch(t) \/ TestSelect(t) \/ Select(t)

Leave == CleanLeds \/ CleanAdcs \/ RemoveChildren \/ RemoveMisc \/ FreeDev

Next ==
  \/ \E t \in Writers, c \in Commands : Write(t, c)
  \/ \E t \in Threads : Proceed(t)
  \/ \E h \in Handlers : \/ \E i \in Entries : StartHandler(h, i)
                         \/ StartSelfOff(h)
                         \/ EndHandler(h)
  \/ ProbeMisc \/ ProbeCells \/ ProbeUrb
  \/ Disconnect \/ Leave

Spec == Init /\ [][Next]_vars

(* As long as some thread can go on one does (a handler's transfer times   *)
(* out): with a bounded number of commands no more is needed.              *)
Fairness ==
  WF_vars((\E t \in Threads : Proceed(t)) \/ (\E h \in Handlers : EndHandler(h)) \/ Leave)

FairSpec == Spec /\ Fairness

-----------------------------------------------------------------------------
(* Properties.                                                             *)

(* Nothing freed or missing is used unless writers overlapped, one of them *)
(* overlapped the removal of the device or used a file it still had open,  *)
(* or a probe failed.  Writers that overlap endanger LEDs (one that        *)
(* escapes removal outlives dev) and the UART's port; a child's failed     *)
(* probe only g_spi; the failed registration of an ADC channel, even when  *)
(* nothing overlaps, that channel (mfd-pwm.c 300-309, 341-346; core.c      *)
(* 220-223, 262-265, 540; mfd-spi.c 132).                                  *)
MemorySafe ==
  causes \cap {"teardown", "probe"} = {} =>
    /\ "writers" \notin causes => wrong \cap {"led", "dev", "uart"} = {}
    /\ "bind" \notin causes => "spi" \notin wrong
    /\ "adc" \notin causes => "adc" \notin wrong
    /\ "servo" \notin wrong

Quiet == Busy = {} /\ life = "ready"

(* Between commands, lists and sysfs show the same entries, and memory is  *)
(* held for no other; there is one LED and one servo for a pin at most     *)
(* (mfd-pwm.c 271-346, 119-157; core.c 233-271).                           *)
ListsAgree ==
  Quiet /\ causes \cap {"writers", "teardown"} = {} =>
    /\ listed = exposed /\ listed = (1 .. count) \ freed
    /\ \A i, j \in listed :
         entry[i].kind = entry[j].kind /\ entry[i].pin = entry[j].pin /\ entry[i].kind # "adc" => i = j

(* Also when writers overlap, a pin has one servo at most (mfd-pwm.c       *)
(* 124-157).                                                               *)
OneServoPerPin ==
  \A i, j \in listed :
    entry[i].kind = "servo" /\ entry[j].kind = "servo" /\ entry[i].pin = entry[j].pin => i = j

(* Between commands, the range the driver has for a servo is the one the   *)
(* device was told, unless the packet was lost (mfd-pwm.c 124-171).        *)
RangesAgree ==
  Quiet /\ causes \cap {"writers", "teardown", "lost"} = {} =>
    \A i \in listed : entry[i].kind = "servo" => told.servo[entry[i].pin] = entry[i].range

(* Between commands a flag says whether there is a child; there is no      *)
(* second one, and the bus of a child was set up in the device unless that *)
(* packet was lost (core.c 178-232, 272-292).                              *)
FlagsAgree ==
  Quiet /\ causes \cap {"writers", "teardown"} = {} =>
    \A c \in Cells : /\ children[c] = IF c \in registered THEN 1 ELSE 0
                     /\ c \in registered => c \in told.cells \/ "lost" \in causes

(* After disconnect the lists and sysfs have no entry and the interface no *)
(* child, and every entry's memory was freed (core.c 503-545).             *)
NothingLeft ==
  DevFreed /\ causes \subseteq {"bind", "adc", "lost"} =>
    /\ listed = {} /\ exposed = {} /\ freed = 1 .. count
    /\ ~base /\ \A c \in Cells : children[c] = 0

(* Commands, handlers and disconnect end, unless an LED is disabled        *)
(* through its own attribute: as their number is bounded, in the end       *)
(* nothing is under way (core.c 138-369, 503-545).                         *)
AllEnds ==
  [](selfOff = {}) =>
    <>[](Busy = {} /\ life \in {"probe", "cells", "urb", "ready", "gone"}
         /\ \A h \in Handlers : handling[h] = 0)

(* Every handler of an attribute ends, that of "disable" included          *)
(* (mfd-pwm.c 241).                                                        *)
HandlersEnd == \A h \in Handlers : handling[h] # 0 ~> handling[h] = 0

=============================================================================
