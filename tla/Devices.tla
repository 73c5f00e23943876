------------------------------- MODULE Devices -------------------------------
(***************************************************************************)
(* .device units: the manager subscribes to the kernel's uevents, walks      *)
(* sysfs, and then applies the events, while devices come and go.  A device  *)
(* is its sysfs path; a rename gives it another one.                         *)
(***************************************************************************)
EXTENDS Naturals, Sequences, FiniteSets, SequencesExt

CONSTANTS
  Devs,        \* sysfs paths
  QueueMax,    \* events the socket buffer holds
  MaxHotplug   \* bound: changes of the device tree

ASSUME DevicesAssumption == QueueMax \in Nat /\ MaxHotplug \in Nat

VARIABLES
  present,   \* the device tree
  moved,     \* paths a rename took away
  hotplug,   \* how many changes there were
  monitor,   \* "closed", "open" or "unavailable"
  uevents,   \* the socket's buffer
  overrun,   \* the kernel dropped an event
  walk,      \* the walk: its phase, the paths still to visit and those found
  udev_devices,
  device_units  \* by name: "absent", "active" or "inactive"

devicesVars == <<present, moved, hotplug, monitor, uevents, overrun, walk,
                 udev_devices, device_units>>
kernel == <<present, moved, hotplug>>

\* unit_names: the path with dashes, and the subsystem with the device's name
unit_names(d) == {<<"path", d>>, <<"subsystem", d>>}
DeviceNames == UNION {unit_names(d) : d \in Devs}

DevicesInit ==
  /\ present \in SUBSET Devs
  /\ moved = {} /\ hotplug = 0
  /\ monitor = "closed" /\ uevents = <<>> /\ overrun = FALSE
  /\ walk = [phase |-> "before", left |-> {}, found |-> {}]
  /\ udev_devices = {}
  /\ device_units = [n \in DeviceNames |-> "absent"]

-----------------------------------------------------------------------------
(* The kernel.                                                             *)

\* A message to the subscribers; without room it is dropped
Uevent(action, d) ==
  /\ hotplug < MaxHotplug
  /\ hotplug' = hotplug + 1
  /\ IF monitor = "open" /\ Len(uevents) < QueueMax
     THEN uevents' = Append(uevents, [action |-> action, dev |-> d]) /\ UNCHANGED overrun
     ELSE overrun' = (overrun \/ monitor = "open") /\ UNCHANGED uevents
  /\ UNCHANGED <<monitor, walk, udev_devices, device_units>>

PlugIn(d) ==
  /\ d \notin present
  /\ present' = present \cup {d} /\ moved' = moved \ {d}
  /\ Uevent("add", d)

Unplug(d) ==
  /\ d \in present
  /\ present' = present \ {d} /\ UNCHANGED moved
  /\ Uevent("remove", d)

\* change, or one that is not about the tree: bind, online
Report(d) ==
  /\ d \in present
  /\ UNCHANGED <<present, moved>>
  /\ \E action \in {"change", "bind"} : Uevent(action, d)

Rename(d, e) ==
  /\ d \in present /\ e \notin present
  /\ present' = (present \ {d}) \cup {e}
  /\ moved' = (moved \cup {d}) \ {e}
  /\ Uevent("move", e)

-----------------------------------------------------------------------------
(* The manager.                                                            *)

\* A unit that is already there is left alone
udev_register(tables, d) ==
  [devs |-> tables.devs \cup {d},
   units |-> [n \in DeviceNames |->
                IF n \in unit_names(d) /\ tables.units[n] = "absent" THEN "active"
                ELSE tables.units[n]]]

udev_remove(tables, d) ==
  [devs |-> tables.devs \ {d},
   units |-> [n \in DeviceNames |-> IF n \in unit_names(d) THEN "absent"
                                    ELSE tables.units[n]]]

Apply(tables, event) ==
  CASE event.action \in {"add", "change", "move"} -> udev_register(tables, event.dev)
    [] event.action = "remove" -> udev_remove(tables, event.dev)
    [] OTHER -> tables

Tables == [devs |-> udev_devices, units |-> device_units]

Become(tables) == udev_devices' = tables.devs /\ device_units' = tables.units

\* UdevMonitor::new
Subscribe ==
  /\ monitor = "closed"
  /\ monitor' \in {"open", "unavailable"}
  /\ UNCHANGED <<kernel, uevents, overrun, walk, udev_devices, device_units>>

\* Mutant: the walk does not wait for the subscription
WalkAtOnce == walk.phase = "before"

\* udev_init subscribes and then enumerates
WalkBegins == walk.phase = "before" /\ monitor # "closed"

StartWalk ==
  /\ WalkBegins
  /\ walk' = [phase |-> "walking", left |-> Devs, found |-> {}]
  /\ UNCHANGED <<kernel, monitor, uevents, overrun, udev_devices, device_units>>

\* walk_sysfs, one directory at a time
Visit(d) ==
  /\ d \in walk.left
  /\ walk' = [phase |-> IF walk.left = {d} THEN "walked" ELSE "walking",
              left |-> walk.left \ {d}, found |-> walk.found \cup ({d} \cap present)]
  /\ UNCHANGED <<kernel, monitor, uevents, overrun, udev_devices, device_units>>

\* The rest of udev_init: what the walk found, then the events so far
udev_init ==
  /\ walk.phase = "walked" /\ monitor # "closed"
  /\ Become(FoldLeft(Apply,
       [devs |-> walk.found,
        units |-> [n \in DeviceNames |->
                     IF \E d \in walk.found : n \in unit_names(d) THEN "active"
                     ELSE device_units[n]]],
       uevents))
  /\ uevents' = <<>>
  /\ walk' = [walk EXCEPT !.phase = "done", !.found = {}]
  /\ UNCHANGED <<kernel, monitor, overrun>>

udev_process ==
  /\ walk.phase = "done" /\ uevents # <<>>
  /\ Become(FoldLeft(Apply, Tables, uevents))
  /\ uevents' = <<>>
  /\ UNCHANGED <<kernel, monitor, overrun, walk>>

\* Mutant: a reload forgets the devices
ReloadedDropped == [n \in DeviceNames |-> "absent"]

\* load_all makes the unit table anew and registers the known devices in it
Reloaded == [n \in DeviceNames |->
               IF \E d \in udev_devices : n \in unit_names(d) THEN "active" ELSE "absent"]

ReloadDevices ==
  /\ walk.phase = "done"
  /\ device_units' = Reloaded
  /\ UNCHANGED <<kernel, monitor, uevents, overrun, walk, udev_devices>>

\* DeviceUnit::stop and start, of a unit that is there
StopDevice(n) ==
  /\ device_units[n] = "active"
  /\ device_units' = [device_units EXCEPT ![n] = "inactive"]
  /\ UNCHANGED <<kernel, monitor, uevents, overrun, walk, udev_devices>>

StartDevice(n) ==
  /\ device_units[n] = "inactive"
  /\ device_units' = [device_units EXCEPT ![n] = "active"]
  /\ UNCHANGED <<kernel, monitor, uevents, overrun, walk, udev_devices>>

DevicesNext ==
  \/ \E d \in Devs : PlugIn(d) \/ Unplug(d) \/ Report(d) \/ Visit(d)
  \/ \E d, e \in Devs : Rename(d, e)
  \/ Subscribe \/ StartWalk \/ udev_init \/ udev_process \/ ReloadDevices
  \/ \E n \in DeviceNames : StopDevice(n) \/ StartDevice(n)

-----------------------------------------------------------------------------
(* Properties.                                                             *)

\* Whenever the manager has applied the events it was sent, it knows every
\* device there is, and what else it knows was renamed away (a move event
\* does not name the old path); so no device is missed however its arrival
\* falls between the subscription, the walk and the drain (udev_init).
DevicesTracked ==
  walk.phase = "done" /\ monitor = "open" /\ uevents = <<>> /\ ~overrun =>
    present \subseteq udev_devices /\ udev_devices \subseteq present \cup moved

\* The units in the table are those of the known devices, through hotplug and
\* reloads (udev_register, udev_remove, load_all).
DeviceUnitsMatch ==
  {n \in DeviceNames : device_units[n] # "absent"} = UNION {unit_names(d) : d \in udev_devices}

\* Between the tree, what the manager knows of it and the unit table nothing
\* gets lost.
DevicesFollowed == DevicesTracked /\ DeviceUnitsMatch
=============================================================================
