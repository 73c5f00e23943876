------------------------------ MODULE BusBridge ------------------------------
(***************************************************************************)
(* The D-Bus bridge: a monitor thread that watches bus names and serves      *)
(* objects for the units, method handlers on threads of their own, and the   *)
(* manager, which drains their channels once per turn of its loop.  What is   *)
(* activated is a Type=dbus service with a BusName=.                         *)
(***************************************************************************)
EXTENDS Naturals, Sequences, FiniteSets, SequencesExt

CONSTANTS
  Extra,          \* other units that may be loaded
  Restarts,       \* does Restart= apply when the service is killed?
  MaxStarts,      \* bound: processes the service ever has
  MaxErrors,      \* bound: lookups that fail
  MaxCalls,       \* bound: method calls
  MaxWork         \* bound: processes and method calls together

ASSUME BusAssumption == Restarts \in BOOLEAN /\ {MaxStarts, MaxErrors, MaxCalls, MaxWork} \subseteq Nat

VARIABLES
  unit,         \* the service: active, sub and main_pid, 0 for none
  lastpid,      \* processes are numbered
  alive,        \* those that run
  owner,        \* the process that owns the bus name, 0 for none
  had,          \* the processes that have taken the name (bound: once each)
  timedout,     \* the service's start has timed out before
  pending,      \* pending_bus_names has the name
  watch_rx,     \* DbWatch messages under way
  watched,      \* the monitor's entry for the name: "none", "free" or "owned"
  errors,       \* lookups that failed
  events,       \* NameAcquired messages under way
  bridge,       \* is the bus there, and is the systemd1 name ours?
  loaded,       \* the other units in the table
  snapshot,     \* the newest snapshot under way, by unit; NoSnapshot
  objects,      \* what the served objects show, by unit
  commands,     \* requests under way: the call's number, its operation and its caller
  turn,         \* what drain_dbus has collected and not yet handled: requests and events
  call          \* the newest call: how it stands, and the operation it was answered about

unitVars == <<unit, lastpid, alive, owner, had, timedout, pending, loaded>>
monitorVars == <<watched, errors, snapshot, objects, bridge>>
callVars == <<commands, call, turn>>
busVars == <<unitVars, watch_rx, events, monitorVars, callVars>>

NoSnapshot == <<>>
Service == "service"
Mutating == {"StartUnit", "StopUnit"}
Ops == {"Query", "LoadUnit"} \cup Mutating
NoCall == [id |-> 0, op |-> "none", st |-> "none", got |-> "none"]

State(active, sub, pid) == [active |-> active, sub |-> sub, main_pid |-> pid]

View == [u \in {Service} \cup loaded |-> IF u = Service THEN unit.active ELSE "inactive"]

BusInit ==
  /\ unit = State("inactive", "dead", 0)
  /\ lastpid = 0 /\ alive = {} /\ owner = 0 /\ had = {} /\ timedout = FALSE
  /\ pending = FALSE /\ watch_rx = <<>> /\ events = <<>>
  /\ watched = "none" /\ errors = 0
  /\ bridge \in {[up |-> FALSE, systemd1 |-> FALSE], [up |-> TRUE, systemd1 |-> FALSE],
                 [up |-> TRUE, systemd1 |-> TRUE]}
  /\ loaded = {} /\ snapshot = NoSnapshot /\ objects = <<>>
  /\ commands = <<>> /\ turn = [commands |-> 0, events |-> 0]
  /\ call = NoCall

-----------------------------------------------------------------------------
(* The service, on the manager's side.                                     *)

\* The manager is not in the middle of drain_dbus
Elsewhere == turn = [commands |-> 0, events |-> 0]

Send(msgs) == watch_rx' = IF bridge.up THEN watch_rx \o msgs ELSE watch_rx

\* Start: begin_bus_name_wait and watch_bus_name once the process is there
Spawn ==
  /\ lastpid < MaxStarts /\ lastpid + call.id < MaxWork
  /\ lastpid' = lastpid + 1
  /\ alive' = alive \cup {lastpid + 1}
  /\ unit' = State("activating", "waiting-for-bus", lastpid + 1)
  /\ pending' = TRUE
  /\ Send(<<"Add">>)
  /\ UNCHANGED <<owner, had, timedout, loaded>>

\* release_bus_name_watch
Release == <<FALSE, IF pending THEN <<"Remove">> ELSE <<>> >>

Released ==
  /\ pending' = Release[1]
  /\ Send(Release[2])

StopService ==
  \/ /\ unit.active \in {"active", "activating"} /\ unit.main_pid # 0
     /\ unit' = [unit EXCEPT !.active = "deactivating", !.sub = "stop-sigterm"]
     /\ UNCHANGED <<lastpid, alive, owner, had, timedout, pending, loaded, watch_rx>>
  \/ /\ unit.active \in {"active", "activating"} /\ unit.main_pid = 0
     /\ unit' = State("inactive", "dead", 0)
     /\ Released
     /\ UNCHANGED <<lastpid, alive, owner, had, timedout, loaded>>

\* An operation of a client of the control socket, or the restart timer
Start ==
  /\ Elsewhere
  /\ unit.active \in {"inactive", "failed"} \/ unit.sub = "auto-restart"
  /\ Spawn
  /\ UNCHANGED <<events, monitorVars, callVars>>

Stop == Elsewhere /\ StopService /\ UNCHANGED <<events, monitorVars, callVars>>

\* main_exit, of whichever process: the unit is not asked which one it is
\* running.  What the sweep of its group kills exits later.
MainExit(ok) ==
  LET To(active, sub) == unit' = State(active, sub, 0)
      Over == IF ok THEN To("inactive", "dead") ELSE To("failed", "failed") IN
  CASE unit.active = "deactivating" -> To("inactive", "dead") /\ Released
    [] unit.active = "activating" -> Over /\ Released
    [] OTHER ->
         /\ IF Restarts /\ ~ok THEN To("activating", "auto-restart") ELSE Over
         /\ UNCHANGED <<pending, watch_rx>>

\* A process dies, reap finds its unit and handle_process_exit ends it; the bus
\* lets go of its name.  One that a timeout has killed may be late: the unit has
\* been started anew by then, or stopped.
Exits(p, ok) ==
  /\ Elsewhere /\ p \in alive
  /\ alive' = alive \ {p}
  /\ owner' = IF owner = p THEN 0 ELSE owner
  /\ MainExit(ok)
  /\ UNCHANGED <<lastpid, had, timedout, loaded, events, monitorVars, callVars>>

\* fail_unit leaves the watch where it is; the kill is on its way
StartTimeout ==
  /\ Elsewhere /\ unit.active = "activating"
  /\ unit' = [unit EXCEPT !.active = "failed", !.sub = "failed"]
  /\ timedout' = TRUE
  /\ UNCHANGED <<lastpid, alive, owner, had, pending, loaded, watch_rx, events, monitorVars, callVars>>

\* A process of the service takes the name, and may give it up
TakesName(p) ==
  /\ p \in alive \ had /\ owner = 0
  /\ owner' = p /\ had' = had \cup {p}
  /\ UNCHANGED <<unit, lastpid, alive, timedout, pending, loaded, watch_rx, events, monitorVars,
                 callVars>>

GivesItUp ==
  /\ owner # 0 /\ owner' = 0
  /\ UNCHANGED <<unit, lastpid, alive, had, timedout, pending, loaded, watch_rx, events, monitorVars,
                 callVars>>

\* A daemon-reload drops the units without a file
Reload ==
  /\ Elsewhere /\ loaded' \in SUBSET loaded
  /\ UNCHANGED <<unit, lastpid, alive, owner, had, timedout, pending, watch_rx, events, monitorVars,
                 callVars>>

-----------------------------------------------------------------------------
(* The monitor thread.                                                     *)

Owned == IF owner # 0 THEN "owned" ELSE "free"

\* Mutant: what the name is when the watch arrives goes unnoticed
AddNoted == <<>>

\* Add looks at once, in case the name was taken before the watch arrived
AddEvents == IF Owned = "owned" THEN <<"NameAcquired">> ELSE <<>>

TakeWatch ==
  /\ bridge.up /\ watch_rx # <<>>
  /\ watch_rx' = Tail(watch_rx)
  /\ \/ /\ Head(watch_rx) = "Remove"
        /\ watched' = "none"
        /\ UNCHANGED <<events, errors>>
     \/ /\ Head(watch_rx) = "Add"
        /\ watched' = Owned
        /\ events' = events \o AddEvents
        /\ UNCHANGED errors
     \/ /\ Head(watch_rx) = "Add" /\ errors < MaxErrors  \* no entry is made
        /\ errors' = errors + 1
        /\ UNCHANGED <<watched, events>>
  /\ UNCHANGED <<unitVars, snapshot, objects, bridge, callVars>>

\* Every 100 ms; a lookup that fails leaves the entry
PollName ==
  /\ bridge.up /\ watched # "none"
  /\ watched' = Owned
  /\ events' = IF watched = "free" /\ Owned = "owned" THEN Append(events, "NameAcquired") ELSE events
  /\ UNCHANGED <<unitVars, watch_rx, errors, snapshot, objects, bridge, callVars>>

\* Mutant: an object keeps what it showed first
ShownFirst(u) == IF u \in DOMAIN objects THEN objects[u] ELSE snapshot[u]

Shown(u) == snapshot[u]

\* apply_unit_snapshot: objects come, change and go
ApplySnapshot ==
  /\ snapshot # NoSnapshot
  /\ objects' = [u \in DOMAIN snapshot |-> Shown(u)]
  /\ snapshot' = NoSnapshot
  /\ UNCHANGED <<unitVars, watch_rx, watched, errors, events, bridge, callVars>>

-----------------------------------------------------------------------------
(* Method calls.                                                           *)

\* Mutant: everybody may
AnyUid(uid) == TRUE

uid_allowed(uid) == uid \in {"manager", "root"}

\* authorize comes before the request is sent; queries need no leave.  A call
\* does not wait for the one before when that has timed out.
Call ==
  /\ bridge.up /\ call.st # "sent" /\ call.id < MaxCalls /\ lastpid + call.id < MaxWork
  /\ \E op \in {o \in Ops : o = "LoadUnit" => bridge.systemd1}, uid \in {"manager", "other"} :
       LET sent == op \notin Mutating \/ uid_allowed(uid) IN
       /\ call' = [id |-> call.id + 1, op |-> op, got |-> "none",
                   st |-> IF sent THEN "sent" ELSE "denied"]
       /\ commands' = IF sent THEN Append(commands, [id |-> call.id + 1, op |-> op, uid |-> uid])
                      ELSE commands
  /\ UNCHANGED <<unitVars, watch_rx, events, monitorVars, turn>>

\* After five seconds the caller is told so; the request stays in the channel
CallTimesOut ==
  /\ call.st = "sent"
  /\ call' = [call EXCEPT !.st = "timeout"]
  /\ UNCHANGED <<unitVars, watch_rx, events, monitorVars, commands, turn>>

\* Mutant: the replies of all calls go through one channel
SharedReply(req) == TRUE

\* A request carries its own reply channel, dropped when its call timed out
ReplyTo(req) == req.id = call.id

Answer(req) ==
  call' = IF call.st = "sent" /\ ReplyTo(req)
          THEN [call EXCEPT !.st = "answered", !.got = req.op] ELSE call

\* drain_dbus collects what has arrived and sends a snapshot, at every turn; the
\* monitor drops it when it does not serve the systemd1 surface
DrainBegins ==
  /\ bridge.up /\ Elsewhere
  /\ turn' = [commands |-> Len(commands), events |-> Len(events)]
  /\ snapshot' = IF bridge.systemd1 THEN View ELSE NoSnapshot
  /\ UNCHANGED <<unitVars, watch_rx, events, watched, errors, objects, bridge, commands, call>>

\* handle_dbus_op, for the requests it collected
HandleOp ==
  /\ turn.commands > 0
  /\ turn' = [turn EXCEPT !.commands = @ - 1]
  /\ commands' = Tail(commands)
  /\ Answer(Head(commands))
  /\ LET op == Head(commands).op IN
     \/ op = "Query" /\ UNCHANGED <<unitVars, watch_rx>>
     \/ /\ op = "LoadUnit"
        /\ loaded' \in {loaded \cup {u} : u \in Extra}
        /\ UNCHANGED <<unit, lastpid, alive, owner, had, timedout, pending, watch_rx>>
     \/ /\ op = "StartUnit"
        /\ IF unit.active \in {"inactive", "failed"} /\ lastpid < MaxStarts /\ lastpid + call.id < MaxWork THEN Spawn
           ELSE UNCHANGED <<unitVars, watch_rx>>
     \/ /\ op = "StopUnit"
        /\ IF unit.active \in {"active", "activating"} THEN StopService
           ELSE UNCHANGED <<unitVars, watch_rx>>
  /\ UNCHANGED <<events, monitorVars>>

\* Mutant: the state is as it was when the watch was registered
StillKnown == TRUE

still_activating == unit.active = "activating"

\* handle_dbus_event, once those requests are served: the unit that is still
\* activating becomes active
HandleEvent ==
  /\ turn.commands = 0 /\ turn.events > 0
  /\ turn' = [turn EXCEPT !.events = @ - 1]
  /\ events' = Tail(events)
  /\ pending' = FALSE
  /\ Send(IF pending THEN <<"Remove">> ELSE <<>>)
  /\ unit' = IF pending /\ still_activating
             THEN [unit EXCEPT !.active = "active", !.sub = "running"] ELSE unit
  /\ UNCHANGED <<lastpid, alive, owner, had, timedout, loaded, monitorVars, commands, call>>

BusNext ==
  \/ Start \/ Stop \/ StartTimeout \/ Reload
  \/ \E p \in 1 .. MaxStarts : TakesName(p) \/ \E ok \in BOOLEAN : Exits(p, ok)
  \/ GivesItUp
  \/ TakeWatch \/ PollName \/ ApplySnapshot
  \/ Call \/ CallTimesOut
  \/ DrainBegins \/ HandleOp \/ HandleEvent

\* Both threads loop
BusSpec ==
  /\ BusInit /\ [][BusNext]_busVars
  /\ WF_busVars(TakeWatch) /\ WF_busVars(PollName)
  /\ WF_busVars(HandleOp) /\ WF_busVars(HandleEvent)
  /\ WF_busVars(DrainBegins) /\ WF_busVars(ApplySnapshot)

-----------------------------------------------------------------------------
(* Properties.                                                             *)

WaitsForName == unit.active = "activating" /\ unit.sub = "waiting-for-bus"

\* A service that has taken its name does not go on waiting for it, however
\* the name's arrival falls around the registration of the watch, unless a
\* lookup failed (the monitor makes no entry then).
NameEndsTheWait ==
  (bridge.up /\ WaitsForName /\ owner = unit.main_pid)
    ~> (~WaitsForName \/ owner # unit.main_pid \/ errors > 0)

\* A name does not revive a unit that no longer waits for it: one that is being
\* stopped, or whose process died, while the event was under way (main_exit and
\* finalize_stop drop the watch).  Excepted is a unit whose start timed out.
NotRevived ==
  [][unit'.active = "active" /\ unit.active # "active" => WaitsForName \/ timedout]_busVars

\* Nothing but what the manager's owner or root asked for is on its way to be
\* started or stopped, whatever is queued beside it.
OnlyAllowedRun ==
  \A i \in DOMAIN commands : commands[i].op \in Mutating => commands[i].uid \in {"manager", "root"}

\* A caller is answered about its own request, once that was served, although
\* the requests of calls that timed out are served later (each request has its
\* reply channel).
AnswerIsOwn ==
  call.st = "answered" =>
    call.got = call.op /\ \A i \in DOMAIN commands : commands[i].id # call.id

\* A call is authorised before it has an effect, and answered about itself.
CallsInOrder == OnlyAllowedRun /\ AnswerIsOwn

\* The served objects do not stay behind the manager's units: they show what
\* the manager has, or it has moved on, again and again (the monitor keeps the
\* newest snapshot, and the objects read shared state).
SurfaceCatchesUp ==
  bridge.systemd1 => \A u \in {Service} \cup Extra :
    []<>(IF u \in DOMAIN View THEN u \in DOMAIN objects /\ objects[u] = View[u]
         ELSE u \notin DOMAIN objects)

\* "drop the pending watch so the name can't revive the unit": an active unit
\* has a process.
ActiveHasProcess == unit.active = "active" => unit.main_pid # 0
=============================================================================
