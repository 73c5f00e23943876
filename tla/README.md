# TLA+ models of rystemd

rystemd is a service manager compatible with systemd's unit files: it runs as
PID 1 or as a user manager, reads unit files, starts and stops units over their
dependencies, supervises their processes and answers clients over a control
socket and D-Bus. This directory holds TLA+ models of it, TLC configurations
that check them on small instances, and proofs that TLAPS checks for every
value of the constants. All paths below are under `src/`.

## Inventory

| component | source | state it keeps | operations |
|---|---|---|---|
| job engine | `rystemd/src/manager/mod.rs` | `jobs`, `unit_job`, `next_job`, `completed_jobs` | start, stop, restart, start ignoring dependencies, expansion of a start over its dependencies, `process_jobs`, `finish_job`, `on_job_completed`, `cancel_job` |
| service units | `manager/mod.rs`, `unit_type.rs`, `state.rs` | active and sub state, main, control and group pid, stage index, start window | spawn of a stage, exit of a main or control process, restart policy, timeouts, `do_stop`, `finalize_stop` |
| targets | `unit_type.rs` | active state | active when started |
| dependency graph | `manager/deps.rs` | none | closures over Requires=, Wants=, Requisite=, Conflicts=, reverse Requires= |
| event loop | `Manager::run`, `tick`, `reap` | poll set, clients, wheel | one event at a time, each handler run to the end |
| timer wheel | `manager/timer.rs` | heap of (when, id), map from id to entry | schedule, cancel, `next_deadline`, `pop_due` |
| shutdown, isolate, reload | `manager/mod.rs`, `ops.rs` | `shutting_down` | stop everything; stop all but one; read the unit files again |
| socket, path, mount, device, timer units | `manager/mod.rs`, `manager/socket.rs`, `platform/` | listeners, armed mtimes, known devices, next elapse | activation, hotplug, triggers |
| control clients | `ipc.rs`, `control.rs`, `manager/mod.rs`, `rystemctl/src/cli.rs` | per-connection buffers | partial reads and writes, client and size limits, wait loops |
| D-Bus | `dbus.rs`, `manager/mod.rs` | name watches, channels, the published objects | method calls, name readiness, snapshots |
| journal and log ring | `journal.rs`, `log.rs` | segments, ring | append, rotate, read, follow |
| unit files | `paths.rs`, `enable.rs`, `repo/` | links and files | lookup order, drop-ins, enable, mask, atomic write |
| child of a spawn | `platform/process.rs`, `platform/sandbox.rs` | credentials, mounts, filter of the child | the steps between fork and exec |
| parser, calendar, time spans | `unit/`, `calendar.rs`, `timespan.rs` | none | pure functions |
| boot, rystemd-tui, Windows port | `platform/boot.rs`, `rystemd-tui/`, `platform/windows*` | none | see Not modelled |

The manager is one thread. Its parts call each other directly and often
re-entrantly: the exit of a process finishes a job, which releases jobs that
wait for its unit, which start units, which may fail at once and fail the jobs
that wait for them, all below the first call. Clients, children, timers,
datagrams, the kernel's events and the D-Bus threads meet the manager only
between such calls. What is hard is therefore (1) calls that change the job
table while an outer call walks it, (2) the order in which requests, exits,
reaping, timeouts and messages arrive, (3) what each of them may assume about
state that an earlier event left: a pid, an armed timer, a pending job, a bus
name watch, a listener, a unit whose file is gone, and (4) the sequences in
which one step of several fails: a socket unit's binds, a unit file's write, a
child's setup. `PROJECT.json` lists these as hazards, each at its line.

What makes the parts correct:

* job engine: the index from units to jobs is exact; a job resolves once and its
  result stays; no job waits for something that will not happen; a unit goes to
  work only after what it requires and is ordered after.
* services: a unit in a transient state has something that will move it on; a
  recorded pid is a child of that unit; a stop that is reported done is done.
* shutdown: it starts nothing, leaves nothing running, and ends.
* timer wheel: no deadline is lost, fired early or slept past.
* clients: a request has one effect, its answer arrives whole, a wait that
  reports success saw every job succeed, and every command ends.
* D-Bus: a name ends the wait for it and revives nothing; a call is authorised
  and answered about itself.
* activation and devices: every open listener has somebody who accepts from it;
  a change fires once and is not missed; no device is missed.
* journal: what was captured is read back whole, in order and once.
* unit files: what an operation reports is what the search path then shows; no
  reader sees half a file.
* child: a service that runs has every restriction, the identity and the
  descriptors its unit describes.

## Modules

```
ManagerState   constants, state, records, dependency closures, calls
  JobEngine    start/stop requests, expansion, process_jobs, completion
    ServiceUnit  stages, spawn, do_start, do_stop, finalize_stop, exits
      Manager      requests, timers, reaping, datagrams, tick, Spec, FairSpec
        ManagerProperties   what is checked; Ledger == INSTANCE JobLedger
          MCManager           unit configurations for TLC
          ManagerProofs       TypeOK, recorded pids, job index, refinement of
                              JobLedger, waits, shutdown
            UnitProofs        units without dependencies, units that are
                              never stuck, what a shutdown leaves running
JobLedger      abstract: what clients of job_status rely on
TimerWheel     the wheel and the event loop around it
  TimerWheelProofs
ControlApi     the requests of ipc.rs over a manager reduced to jobs and states
  ControlClients   connections and rystemctl processes      MCControl
    ControlProofs    ControlInv
BusBridge      D-Bus monitor thread, method calls, a Type=dbus service
Journal, Devices, SocketUnits, PathUnits, MountUnits
  EventSources     one specification over the five          MCEventSources
    EventProofs      all five, and BusBridge
UnitFiles      search path, repository, enable and mask, load_all   MCUnitFiles
  UnitFileProofs   FileInv
Seccomp        the filter program: build and its evaluation
  Sandbox          plan and the child's steps               MCSandbox
    SandboxProofs
FoldLemmas     folds and recursive functions: used by ControlProofs,
               EventProofs, UnitFileProofs
```

**ManagerState to Manager.** `units`, `jobs`, `unit_job`, `next_job`,
`completed_jobs`, `shutting_down` are the fields of `Manager`. `armed` is the
set of live StartTimeout, StopTimeout and RestartDelay entries of the wheel.
`procs` is the kernel's and `pid_unit`'s view of the children: free, running,
sent SIGTERM, sent SIGKILL, or ended and not yet reaped. `notify` holds READY=1
datagrams in flight. `stack` holds the calls still to be made, innermost first,
as records; this is how re-entrant functions become one action per function (or
per half of a function where it calls others in the middle, such as
`expand_start_job`, whose waiting list is local until it is committed). A
function's loop over units or jobs is a call with a `todo` set. Events are
taken only when the stack is empty, as in the code.

`process_jobs` and the loops over hash maps visit in any order, which the code
does not fix. In the expansion of a start, required units come before wanted
ones, in any order within each group. A handler is atomic to everything outside
the manager: a child that exits while a handler runs is seen only at the next
reap, so `ChildExits` is an action of the quiescent manager and nothing is lost
by it. Between `FireTimer` and the `process_jobs` that ends a tick the model
lets a request in, which the code does not; it only adds behaviours.
Abstractions: KillMode=control-group; Type=simple, exec and idle (one
`"simple"`), notify, oneshot and forking. Conditions and asserts have any of the
outcomes the configuration lists. The start window has passed or not,
nondeterministically. A set `armed` merges two RestartDelay entries of one unit,
which the wheel keeps apart; firing the second finds the unit no longer in
auto-restart. Exit statuses are success, failure and signal.

**TimerWheel.** `heap`, `entries` and `next_id` are the wheel's; `pc` is where
the loop is (computing its deadline, in `poll`, popping, firing a batch,
re-arming). `Rearm` is the re-arming of timer units after the batch, `Handle`
what another event does to the wheel. A calendar's next elapse is a delay.

**ControlApi, ControlClients.** `mgr` is what clients can tell of the manager.
How jobs end is left open: the guarantees of the job table are proved where it
is modelled. So is which units have processes when a `kill` asks
(`unit_has_processes`, the parameter `live`): the model of the clients has no
processes. `conn` is the kernel's side of a connection, `control_clients`
the manager's (`buffer`, `out`); sizes are counted in pieces, so a message is
read and written in any division. A client is a `rystemctl` process: `Connect`,
`Write`, `Read`, then the wait loop over `job_status` (`wait_for_jobs`) or over
the unit's state (`wait_for_units`,
`wait_for_terminating_units`), each ended by its deadline. A client may be
interrupted at any point. `EachUnit` is the loop of ipc.rs over the units of a
request (`UnitCall` for one of them), `accept_connections` the loop over the
backlog; both are folds, so that they can be proved about.

**BusBridge.** Two threads and callers. `watch_rx`, `events`, `commands` and
`snapshot` are the channels between the monitor and the manager, `watched` the
monitor's name table, `objects` what the served objects show, `turn` what
`drain_dbus` collected before it handles it. The service's process takes, gives
up and loses its name at any time. `Exits` hands the exit of any process to
`MainExit`, which does not ask whether it is the one the unit is running: one that
a timeout has killed may be late and end or restart the unit started anew. A method call may time out while its request
stays queued. Jobs are left out: a start or a stop acts at once.

**EventSources.** The five sources share no state in the code, so a behaviour
is about one of them (`source`); what all five have in common, the loop's
turn, is the fairness. *Journal*: a pipe, the ring and the segment files, with
a follower process. *Devices*: the kernel's device tree, the uevent buffer that
may overflow, and the walk of sysfs one path at a time between subscription and
drain. *SocketUnits*: every listener kind with the binds that can fail,
listeners numbered by their bind so that a rebound path is a different one.
*PathUnits*: mtimes that go up, vanish and come back. *MountUnits*: a stack of
mounts on one mount point that others use and mount over.

**UnitFiles.** `fs` maps a directory and a name to what is there: nothing, a
regular file, a link to another entry or to /dev/null. `links` are the
`.wants` and `.requires` links, `staged` a temporary file of the repository.
`rystemctl` edits from its own process, so an edit and the `daemon_reload` that
shows it are separate actions, and a repository write is three (`Stage`,
`Written`, `Rename`) with a crash possible between any two. A file's text is a record: whether
it parses and its [Install] section.

**Seccomp, Sandbox.** `build` lays out the program instruction by instruction,
with its forward references and their offsets cut to a byte, and `RunFilter`
evaluates it. Sandbox parses a unit's directives (`parse_sandbox`), plans
(`plan`) and runs the child's steps one by one; each of them may be refused by
the kernel and the filter applies to the steps after it. `present` are the paths
the machine has, `Inside` which of them lie below which directory, and `Visible`
what is left for the child to see under the empty file systems it has mounted: a
tmpfs needs its directory, a read-only bind skips an absent path, `/dev` and the
working directory must be visible when their step comes.

**Mutants.** Operators marked `Mutant` are plausible bugs of the definition that
follows them. They are not used by the specifications; each property is shown
to fail when one of them takes the definition's place.

## Runs

Deadlock is not checked: a manager without requests, a client table without
clients or a finished child may rest for ever, except in TimerWheel, whose loop
always has a step.

| run | instance | shows |
|---|---|---|
| Services | one service of five: simple, notify and forking with restarts and both timeouts; a oneshot with every stage; a oneshot whose commands fail, fail to spawn and are ignored. 3 requests of seven kinds, 3 pids, cgroups | TypeOK; no unit stuck in a transient state; no job orphaned or without a unit that moves; no stale pid although pids are reused at once; no stop reported early |
| Liveness | two services with stop timeouts, one requiring the other, start and shutdown | every job ends, shutdown ends, starts nothing, leaves nothing running |
| Transactions | two sets of units. Three notify services with Requires=, Requisite=, Conflicts=, Before=, OnFailure=, failing conditions and spawns; a target wanting two notify services, one After= the other, and a service requiring one of them. Restarts, ignore-dependencies starts, kills, daemon-reload with a deleted file | job table consistent; no dangling wait; refines JobLedger; with the target loaded, requirement and order hold; a datagram that names a process readies its sender only |
| TimerWheel | one service, one timer unit, time to 2, 3 ids | no deadline lost, early or slept past; none of a service after shutdown; every deadline served |
| Clients | two commands, one of them any of 26 command lines and impatient; one place in the client table, requests and answers of up to 3 pieces, one too large of each | one effect per connection, whole answers, success means done, every command ends |
| BusBridge | a Type=dbus service with Restart=, two processes, one other unit, two calls, one failed lookup | name readiness, calls and surface |
| EventSources | 5 pieces of output, read two at a time into files of two records; two devices; two socket units with two listeners each that compete for a path; three watched paths; three mounts | `OutputKept`, `DevicesFollowed`, `ListenersServed`, `ConnectionActivates`, `FiresOncePerChange`, `ChangeIsSeen`, `MountedOnce` |
| UnitFiles | two directories, seven names: a template with an instance that names it in Also=, a file with an alias, a socket unit, two built-in targets; five contents, one malformed; 3 operations | is-enabled agrees with enable and disable, mask round-trips, no torn file, a reload loads what is there |
| Sandbox | every pair of 33 directive settings, and allow-lists with the setup calls; four sets of attributes; manager as root or user, a kernel that refuses anything or only what it must; a machine with every directory and one without /run/user, /var/tmp, /dev and /srv | the filter decides as configured, what runs is as described, what nothing refuses and whose directories are there and not hidden runs |
| JournalRotation | violation: three segments of one record | below |
| BusRevival | violation: one service, two processes | below |
| JobPanic | violation: a oneshot with an ExecStop= that cannot be spawned and the target that requires it, two requests | below |

`Services` starts with one of the five units loaded and the action constraint
`Named` leaves out requests about units without a file, which change nothing
but the number of requests left; so the five services are checked in one run
and each under every interleaving of its own. `Transactions` does the same with its
two sets of units and the constraint `OfOneSet`. `TargetOrderHeld` asks for order
only of the target's set, which has neither restarts nor failing requirements:
the start half of a restart and a start that ignores dependencies go to work
without looking at the units they are ordered after. The instances are small and every
interesting case needs few parts: a race of this manager is between two or three
events about one unit, or between a unit and one dependency. Bounds were raised
until the next step took TLC beyond minutes.

**Bounds.** `MaxRequests` bounds what clients ask; three requests are enough to
start, disturb and undo. `Pids` bounds the processes alive or unreaped at a time
and makes the kernel reuse ids soon. `StartLimit` is 2 in place of 5, so that it
is reached. One READY=1 datagram per service is in flight. `MaxTime` and
`MaxIds` bound the wheel between two resets; the proofs have no bound. In
Clients a wait polls `MaxPolls` times before its deadline, and the limits of
connections, request and answer are 1, 3 and 3 in place of 1024, 16 KiB and 1 MiB
so that each is exceeded. `MaxWork` bounds processes and calls together in
BusBridge, since a call and a restart are independent beyond one of each.
`MaxOps`, `MaxPieces`, `MaxHotplug`, `MaxBinds`, `MaxMtime` and `MaxMounts`
bound what the environment does to each source; a rotation, an overflow, a
rebind and a refused unmount all happen below them.

**Fairness.** `Manager!FairSpec`: the loop wakes at least every second
(MAX_POLL_MS) and runs each handler to its end, so the calls are weakly fair;
every turn of it looks at the due timers, the zombies and the exit condition,
so serving one of them, or the death of a process that got SIGKILL, is strongly
fair (`Served`; a tick between them disables them only for its own duration).
This is less than the code gives, which serves all of them each turn. Nothing is
assumed of a process that got SIGTERM or none, of clients, or of datagrams.
`TimerWheel!FairSpec`: the same for the turns of the loop, and strong fairness
for the clock's advance and the end of a turn, since `poll` may return early
any number of times, not for ever. `ControlClients!FairSpec`: the manager
accepts, reads and writes whenever it can, each client's process runs; how jobs
end is not fair, so `CommandsEnd` rests on the deadlines. `BusBridge!BusSpec`: each
thread goes on with what its channel holds and the monitor polls names (it
sleeps 100 ms between two rounds). `EventSources!Spec`: a turn of the loop
serves a ready listener and checks the paths. `Sandbox!Spec`: the child runs.

## Findings

Three runs show the code doing what a comment or a review note of it denies
(`findings` in PROJECT.json quotes them):

* JournalRotation. `rotate` renames `.i+1` to `.i` where it should rename `.i` to
  `.i+1`, so each rotation overwrites `.1` and one rotated file is ever kept,
  whatever `max_segments` says. journal.rs:58 against journal.rs:10.
* BusRevival. The start timeout of a Type=dbus service leaves its name watch
  registered. When the process it killed is restarted and the name is taken
  late, the event finds the unit activating (auto-restart) and marks it active
  without a process. mod.rs:3046 against mod.rs:2336.
* JobPanic. `process_jobs` indexes the table with a job's own id. When the walk
  starts a Stop job whose ExecStop= cannot be spawned, `fail_unit` calls
  `process_jobs` again below it, which finishes a Stop job that the outer walk
  has still to visit; `maybe_stop_job` then aborts the manager. mod.rs:1534
  against REVIEW.md:479, which calls the unwraps on the jobs map invariants.

The other behaviours below were met while modelling. The actions contain
them unless stated otherwise; a property that one of them breaks is checked on
an instance, or with an exception stated in the property, that leaves it out.

Jobs and services:

* `shutdown` empties the wheel and relies on stop timeouts being re-armed as
  units stop (mod.rs:1126, the comment at 1123). A unit that is stopping already
  is not stopped again, so its timeout is gone: if it ignores SIGTERM the
  manager never exits. `ShutdownEnds` is checked without stop requests.
* A notify or forking service that exits with 0 before it is ready becomes
  inactive and its Start job stays (mod.rs:2340); a later shutdown never becomes
  idle. This is the exception in `JobsFinish`, and why Liveness has simple
  services.
* daemon-reload drops a unit whose file was deleted, with a child still alive;
  its exit indexes the unit table and aborts the manager (mod.rs:2306). It is
  the step `Panic` of Manager, taken in Transactions. `unit_has_processes`
  (mod.rs:1051) indexes the table in the same way.
* `expand_start_job` enqueues the stop of a conflicting unit and does not wait
  for it, so both run for a while (mod.rs:1327, against deps.rs:5).
* `main_exit` does not compare the pid it is called for with `main_pid`
  (mod.rs:2330). A process of the previous run reaped after the restart, also a
  control process that a start timeout killed, is taken for the new main
  process, and its group is swept with SIGKILL (the comment at 2371 has another
  case in mind). At shutdown this leaves a process behind, also of a unit without
  dependencies: start, stop, and the stop timeout gives the killed process up;
  start again, shut down, and the late exit of the first process finishes the stop
  of the second, which has been sent SIGTERM only, so the manager exits while it
  runs. In a cgroup the sweep reaches it. This breaks `NothingLeftRunning`;
  Liveness makes no stop request, and `Tidy` asks for the cgroup.
* READY=1 does not cancel the start timeout. If the service then fails and waits
  in activating/auto-restart, the old timeout fails it and the restart is lost
  (mod.rs:3046, timer.rs:67).
* Starting a unit whose requirement is still stopping makes a Start job for the
  requirement that replaces the index entry of its Stop job; that one is never
  finished (mod.rs:1377). `JobsFinish` is checked with units that have no
  dependencies. If its ExecStop= was running, the exit of that finds no Stop job and
  the unit stays deactivating without a process (mod.rs:2150).
* A datagram without MAINPID= that is not attributed by its sender goes to any
  starting notify service (mod.rs:3577); `ReadyIsOwn` is about those that name
  a process.
* The start half of a restart pending at shutdown makes a new Start job
  (mod.rs:1677). `NoStartInShutdown` is checked without restarts.
* Restarting a required unit that is still starting releases the jobs waiting
  for it when its stop ends (mod.rs:1676). A target that lists a unit before the
  one it is ordered after starts it without waiting: After= looks only at jobs
  that exist by then (mod.rs:1390).
* `isolate` stops also what the isolated unit requires and starts it again
  (ops.rs:331; the comment at 326 says what is required is kept).
* An ExecStop= that cannot be spawned fails the unit and leaves its Stop job
  started for ever (mod.rs:2067, 2071); an ignored ExecStartPost= that cannot be
  spawned leaves the unit activating (mod.rs:2109). The instances with failing
  spawns have neither command.
* A service killed by its stop timeout is reaped after `finalize_stop` and
  restarted by its Restart= policy (mod.rs:2435). daemon-reload replaces the
  wheel and drops the RestartDelay of a unit in auto-restart, which stays
  activating (mod.rs:2886).
* When the dependent of a restarted service cannot spawn its ExecStop=, the nested
  `process_jobs` of JobPanic begins the stop of the service, whose process gets
  SIGTERM; back in `enqueue_stop`, `maybe_stop_job` finds the unit deactivating,
  which is not operational, and finishes the Stop job as done, so the start half
  runs beside the old process (mod.rs:1535, against mod.rs:187, "unit to start
  once the stop completes"). It breaks `StopMeansStopped`, which is checked with
  units that have no dependencies.
* `tick` fires what `pop_due` returned (timer.rs:87), also an entry that an
  earlier one of the batch has cancelled: when a RestartDelay and the start timeout
  left by the previous start fall due together, the restart re-arms the timeout,
  whose old entry then fails the new start at once. `BatchDue` says only that
  nothing pops early.
* A start that ignores dependencies over a pending Stop job leaves the unit
  deactivating. A restart withdraws a pending start without a result;
  `job_status` then knows nothing of it and a waiting client counts it as done.
* A start during shutdown answers without an error and without a job
  (mod.rs:906). `completed_jobs` is never pruned (mod.rs:1639).

Around the engine:

* One unit file that does not parse makes `Repo::list` fail, and
  `discover_names` goes on as if there were no unit file at all (repo/mod.rs:34,
  mod.rs:517): a daemon-reload then drops every unit that is not built in.
  `ReloadIsComplete` excludes that case.
* A unit's drop-ins are sorted by their whole path, so which directory has
  precedence depends on its name (paths.rs:211). Not in the model, where a name
  has drop-ins or has none. A masked unit can still be pulled in by a
  dependency, since only the request checks the mask.
* After the uevent socket overflowed nothing brings the known devices back in
  line but a restart of the manager; `DevicesFollowed` excludes that time.
* `bind_unix` removes whatever is at its path (socket.rs:82), so a second socket
  unit on the same path takes it from the first, whose listener stays open and
  unreachable.
* Changing Where= of a mounted unit and reloading leaves the old mount to nobody.
* `rystemctl start` of several units stops at the first error; the jobs made
  before it stay, and the client does not learn of them (ipc.rs:62).
* `journal -f` asks for seconds after the last one shown and misses later
  records of that second (cli.rs:920). `finalize_stop` closes the pipe of a
  unit without reading what is left (mod.rs:2794); Journal's `dropped` counts
  that. The loop looks only at POLLIN of output pipes (mod.rs:3327).
* Two units with the same BusName= share one entry of `pending_bus_names`
  (mod.rs:3911), and a failed ownership lookup loses the watch (dbus.rs:719),
  the exception in `NameEndsTheWait`.
* A RestrictAddressFamilies= of several families decides all of them by the
  first one compared: its non-match already takes the default
  (sandbox.rs:968). The instances have one family.
* With an allow-list that does not name `mmap` and `mprotect`,
  MemoryDenyWriteExecute= refuses them entirely, although ALLOW_BASE is meant to
  allow them: the gate asks the unit's own list. And RestrictRealtime=,
  LockPersonality= and RestrictSUIDSGID= do nothing about the calls that an
  allow-list names (sandbox.rs:788; the comment at 737 has them always denied).
  `Decidable` says which units are free of all this; MCSandbox has only such
  units (`Consistent`).
* The comment at sandbox.rs:732 lets a process of a foreign architecture through;
  the program refuses its calls (sandbox.rs:865), and `Decision` says so.
* When user namespaces are refused, a user manager skips the whole rest of the
  plan, the operations that need no namespace included (sandbox.rs:249);
  `RunsAsDescribed` leaves `skipped` children out of its first part.

* PrivateTmp= and ProtectHome=tmpfs mount on their directories without asking
  whether they are there, as a read-only bind does (sandbox.rs:274, 291): on a
  machine without /var/tmp or /run/user the mount fails and the service does not
  start. ProtectHome=tmpfs also hides a WorkingDirectory= below /home, so the
  `chdir` that comes later fails (process.rs:311), and a ReadOnlyPaths= there is
  skipped as absent. `Startable` excepts the units whose directories are absent or
  hidden (`Reachable`).
* PrivateDevices= and AmbientCapabilities= are best effort: a device that cannot
  be made or a capability that cannot be raised is left out without an error.
  `RunsAsDescribed` claims neither.

## Proofs

The constants are arbitrary: any units and dependencies of the declared types
(`ConfigAssumption`), any set of pids, any number of requests, any number of
services and timer units on the wheel and any time, any socket units with any
lists of addresses (`SocketsAssumption`), any paths, any number of D-Bus calls,
any unit file whose ReadOnlyPaths= is a list (`RawsAssumption`) and any listeners
of a service that are different and none of them 0 to 2 (`AttrsAssumption`: they
are the keys of `socket_triggers`, and the standard descriptors are open), any
machine, whatever paths it has and whatever lies below them, any
device nodes and any bound on the uevent buffer (`DevicesAssumption`), any number
of pieces of output, seconds and lines, any size of the read buffer and the
segments and any number of segments, all of them at least 1 (`JournalAssumption`),
any finite
set of unit names, any search path whose first directory is the configuration
directory, any contents and any files on disk at the start
(`UnitFilesAssumption`: a template or a service of a name is a name, and a whole
file is not a torn one), any
processes of rystemctl with any command lines (`MenuAssumption`: a request and
its answer have at least one piece) and any caps (`ControlAssumption`).

* `ManagerProofs!TypeCorrect`: `Spec => []TypeOK`. One lemma per action. TypeOK is
  inductive because a pending call's record says which operations name a unit
  (`Frame`): without that, a call popped from the stack could be about nothing.
* `ManagerProofs!JobIndexCorrect`: the index never dangles. The inductive
  invariant `IndexInv` adds that every id in the table was handed out
  (`1 .. next_job`): a fresh id could otherwise hit an indexed job. For the
  lookups through `unit_job` this is what REVIEW.md:479 says of the unwraps on
  the jobs map, that they are "tighter invariants"; JobPanic shows a lookup by a
  job's own id for which it is not so.
* `ManagerProofs!LedgerRefinement`: `Spec => Ledger!Spec`, every step of the
  manager is a step of JobLedger or a stutter. `ManagerProofs!LedgerFinal`,
  from the invariant that a job is pending or done and not both, gives
  `ResultsFinalCorrect` through it.
* `ManagerProofs!NoDanglingWaitCorrect`, in every configuration. While calls
  are under way a job may wait for a unit that has no job, so the property is
  not inductive. `WaitInv` says what is then still to come: the stop of that unit
  is on the stack to be enqueued, or the unit's `completed` call is and has the
  waiting job still to visit, or the waiting job has failed. The steps
  that matter are the ones that drop an index entry: `finish_job`,
  `cancel_job`, the restart that replaces a Stop job, and a reload.
* `ManagerProofs!NoStartInShutdownCorrect`, in every configuration whose
  clients ask for no restart and no start that ignores dependencies: the two
  requests that the code does not refuse during shutdown. `ShutdownInv`: no
  pending call makes a Start job once shutdown has begun, and no job is to be
  followed by a start. Shutdown is a request like any other, so the expansion
  of an earlier start is over when it is taken; what is left, and proved, is
  that its own calls (stops, ends, OnFailure=) start nothing.
* `ManagerProofs!NoStalePidCorrect`: with `PidInv`, which adds that a unit's
  main and control pid differ (when one is reaped the other stays). The steps
  that matter are the reaping of a main, a control and a daemon process.
* `UnitProofs!StandaloneInvariant` and what follows from it, for a unit without
  dependencies in either direction (`Standalone`) among any other units, when no
  client asks for a reload, a start that ignores dependencies or a
  daemon-reload (`OrdinaryRequests`). `LoneInv` says where the one job of such a
  unit is: in the hands of a pending call that will go on with it, or with the
  unit `AtWork`: a process, a timer or a notification is still to come that ends
  it. No other call touches it (`Quiet`), which is what each action of
  another unit is shown to keep. `StandaloneUnderway` and `StandaloneStops` say it of
  each such unit; `StandaloneJobsFinish` and `StandaloneStopMeansStopped` are
  JobsFinish and StopMeansStopped where every unit is one; `NotifiersReady` is ReadyIsOwn
  where the notify services are. The other clauses of `Standalone` name what the code
  forgets even without dependencies: a failing ExecStop=, an ignored ExecStartPost=
  that cannot run, and, in a start that runs commands first, a process left by a
  timeout or an automatic restart. With dependencies the three properties are
  false of the code in general (Findings): a start made by a dependency replaces
  a Stop job that still waits.
* `UnitProofs!SteadyMoves`, and `NoStuckUnitCorrect` where it is true of every unit:
  between events a starting or stopping unit without an ExecStop= has
  a child whose exit goes on with it, or an armed restart. Nothing is asked of its
  dependencies or of the other units, and any request may come at any time.
  `MoveInv` follows the calls in between: the one that takes a unit through a start or
  out of a stop (`StepOps`) is made last and runs at once (`DirectCalls`), so a unit
  without a child is the one whose step is on top (`Due`); and a child that an
  ExecReload= left does not count for a start, whose own child is then still there
  (`Attended`). Each clause of `Steady` excludes a way in which the code does leave
  a unit stuck: the exit of an ExecStop= whose Stop job was replaced by a
  dependency's Start job (mod.rs:2150), an ignored ExecStartPost= that cannot be
  spawned (mod.rs:2109), and a reload or a shutdown, which empty the wheel under
  a unit waiting to be restarted (mod.rs:1126).
* `UnitProofs!TidyUnitsEnd`, and `NothingLeftRunningCorrect` where every unit is
  `Tidy`: when the manager exits, no process of such a unit is running or was only
  asked to end. `Tidy` is `Standalone`, simple or oneshot, and, where a stop timeout
  can give a process up before it has ended, in a cgroup and without Restart=.
  Reloads, starts that ignore dependencies and restarts are not asked for: the
  start half of a restart is what shutdown does not refuse (Findings). The other
  units may be anything. `EndInv` says of each
  such unit why it will be stopped. From the moment of `shutdown` on, either
  nothing is left that its stop has to end (`Watched`), or it is being stopped, or a
  pending call will stop it (`Sought`: `stop_all` has it still to do, its
  `enqueue_stop` is on the stack, its Stop job is about to be started); and nothing
  takes it up again (`Sinking`). For the exit of a main process to finish the
  right stop, a unit without a starting phase needs `Accounted`: what its stop has to
  end is the one process it has on record. The steps that matter are the ones
  where a call that will stop the unit is made: it goes on to the next, signals the
  processes, or finds none (`EngineSought`, `DoStopEnds`); the exits
  (`MainEnds`); and a Start job that shutdown meets half done (`NotStarted`).
  The two services of Liveness depend on each other and have stop timeouts without
  a cgroup: they are outside these hypotheses, and NothingLeftRunning of them is
  what that run shows.
* `TimerWheelProofs`: `WheelConsistentCorrect` (every live entry has its slot in
  the heap, no slot's id is reused, one live deadline per unit and kind),
  `TimerWheelTypeCorrect`, `NeverOverdueCorrect`, `BatchDueCorrect` and
  `NoServiceTimersCorrect`, from one invariant `LoopInv`: the wheel is consistent
  and its ids fresh, the deadline the loop sleeps on is at or before every live
  entry, the batch is due, and no timer unit is still to be re-armed while the
  loop fires or sleeps. A weaker one is not inductive: an entry scheduled under
  a reused id would get the slot of an earlier deadline, and one scheduled while
  the loop sleeps would be slept past.
* `EventProofs`: `MountedOnceCorrect`, with `MountInv`: a unit whose file is not
  complete has mounted nothing, or a stop that skips its unmount would leave one.
  `FiresOnceCorrect`, with `PathInv`: a path that is about to fire has one change
  more than it has fired for; only the next look uses it up, and a reload, which
  forgets the armed mtime, makes that look record instead of fire.
  `ListenersServedCorrect`, with `SocketInv`: a listener belongs to a unit of
  the configuration and keeps it; a start beside a running service makes the
  unit late, a restart takes the service along.
  `DevicesFollowedCorrect`, with `DeviceInv`: while messages are queued and the walk
  of sysfs is under way the tables lag behind the tree, so the invariant speaks of
  what they will be. For each device (`Followed`), draining the queue from what is
  known now (`KnownAfter`: the last message about the device decides), with the walk
  having passed it or still to come to it, gives what the kernel has. The drain is a
  fold over the queue; `FoldMatches` shows that it computes `KnownAfter` of every
  device and keeps the unit table in step with the known devices.
  `OutputKeptCorrect`, with `JournalInv`: what is in the pipe comes right after
  what was read, the ring and the files have that up to its last piece without
  a gap (`RingTo`, `FilesTo`), and what a follower showed is older than every
  record it will ask for (`FollowTo`). The last is why it matters that a follower
  asks for whole seconds: of two records of different seconds the earlier was
  written first (`OneWasFirst`). Reading, rotating, splitting a read into buffers and a
  buffer into lines are loops; each has a lemma that what one pass keeps
  the loop keeps (`ReadFile`, `RotateReplaces`, `PushChunkKeeps`,
  `ReadKeepsRing`, `ReadKeepsFiles`). Since rotate moves `.i+1` to `.i`, nothing
  is ever above `.1` (`TwoFiles`), so the proof also shows how much JournalRotation's
  finding costs: a reader has two segments, whatever max_segments is.
  For the bus: `NotRevivedCorrect`, with `WatchInv`: where the unit is not
  waiting for its name the watch is gone, or a start has timed out (BusRevival
  shows what then happens). `CallsInOrderCorrect`, with `CallInv`: queued
  requests have different numbers, none above the newest call's, and the one
  with its number asks what it asked.
* `ControlProofs`: `ConnectionServedCorrect` and `SuccessMeansDoneCorrect`, from
  one invariant `ControlInv` (`ControlInvariant`). Between the ends of a connection,
  `ConnInv` and `EntryInv`: until its line has run, what the manager has of it and
  what is on its way are what the process wrote; after that, what was read,
  what is on its way and what is left to write are the answer; and the answer still
  says of the manager what the process will take it to say (`Tells`). That last
  part is what time could break: an answer of job_status read late, after
  other clients cancelled, replaced or withdrew the jobs. It does not, because
  of `Follows`: ids are given out once, and a job that left the table stays
  as it ended, which every request and every end of a job keeps. The loops over the
  units of a request and over the backlog are folds.
* `UnitFileProofs`: `NoTornFileCorrect`, `MaskRoundTripCorrect` and
  `ReloadIsCompleteCorrect`, from one invariant `FileInv` (`FileInvariant`): every
  entry is one of the forms a program writes, every link of a `.wants` or
  `.requires` directory points into the search path, and a staged file is either
  cut short or has all of its text. Enable and disable follow Also= from unit to unit:
  `EnableFollows` and `DisableFollows` show that each unit's step hands on
  directories of that form, wherever the chain ends, in an error or in the
  overflow of the stack of a cyclic one. `FirstDirIsFirst` is the precedence of
  the search path, on which a complete reload rests.
* `FoldLemmas`: `FoldExists` and `FoldKeeps` say of any fold over a sequence that it
  is defined and that it has what each of its steps keeps; `IterateExists` and
  `IterateKeeps` say the same of a function that steps from one number to the next.
  Both go by the least number for which it would not be so.
* `SandboxProofs!FilterDecidesCorrect`: every call is answered as the directives
  say, for any set of unit files that are `Decidable`: one address family at most
  unless all are named, an allow-list without calls that another directive
  refuses and, under MemoryDenyWriteExecute=, with mmap and mprotect, and a
  program no longer than a jump is wide. Each part excludes a behaviour that
  Findings describes, and MCSandbox has TLC evaluate that its units fulfil them.
  `Layout` says where each block of the program begins (`Laid`, `Placed`) and
  `OffsetLeads` that a jump cut to a byte still arrives at its target, because
  the program is short enough. Every jump goes forward, so the evaluation is
  defined on the whole program (`Forward`, `RunTraced`: the first
  instruction from the end where it would not be is the contradiction). `Chain` says what a run of comparisons decides,
  whatever its length; with it each block is settled on its own
  (`PlainDecides`, `WxDecides`, `FamilyDecides`, `GatedDecides`), and
  `BuiltDecides` puts them together. `FilterInv`: a child has no filter or the one
  built from its own unit.
* `SandboxProofs!RunsAsDescribedCorrect`, for any unit files, attributes and
  paths, as root or not, whatever is refused. `ChildInv`: each operation that the
  configuration asks for is still in the plan or has been done, nothing is
  mounted before the namespace is private, and each attribute is set from its
  step on. What a later mount hides is visible no more (`VisibleLess`), so a
  read-only path that is still seen when the service runs was seen at its own step.
  Behind it are lemmas on the plan (every operation is
  in it, the namespace comes first: `PlanProperties`), on the program that is
  built (`BuildNotEmpty`), and on the loop over dup2 (`DupAllMoves`): since the
  descriptors are sorted and none is a standard one, the k-th is at or above its
  place 2 + k (`AscAbovePlace`), so no move overwrites a listener that is still
  to be moved.

Only model-checked: the liveness properties (`JobsEnd`, `ShutdownEnds`,
`DeadlinesServed`, `CommandsEnd`, `NameEndsTheWait`, `SurfaceCatchesUp`,
`ConnectionActivates`, `ChangeIsSeen`, `StartableRuns`), since the prover does
not do fairness or ENABLED; the properties that hold of some configurations only
(`TargetOrderHeld`; `NothingLeftRunning`, `JobsFinish`, `ReadyIsOwn` and
`StopMeansStopped` of units with dependencies, `NoStuckUnit` of units with an
ExecStop=: Findings has a behaviour that breaks each in some other
configuration); and `InstallIsSeen`, which is not true of every directory: a
unit's Alias= may be the name of another unit and shadow it.

## Not modelled

* The unit file parser, calendar expressions and time spans: pure functions
  over text and dates without state. What a unit means is a constant of the
  models, a calendar's next elapse a delay.
* Boot as PID 1: a straight line of mounts and other system calls before the
  loop starts. rystemd-tui and the formatting half of rystemctl: no state of
  their own. The Windows port: the same interfaces over Win32.
* KillMode=process and mixed, RuntimeDirectory= and the like, the format of
  D-Bus arguments, the order of drop-ins, hangups of output pipes, the ignored
  `-` of WorkingDirectory=, the gid kept when User= has no Group=.

## Next

Theorems: `InstallIsSeen` where no unit has an Alias=; `NothingLeftRunning` of units
with dependencies and of notify and forking services. Models: KillMode=process and mixed in ServiceUnit, drop-in order in
UnitFiles, and ControlApi's job table shown to be a JobLedger, as Manager's is.
