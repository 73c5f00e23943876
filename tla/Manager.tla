------------------------------- MODULE Manager -------------------------------
(***************************************************************************)
(* The manager: the events its loop takes, one at a time and each run to   *)
(* completion over the calls of JobEngine and ServiceUnit, and the child   *)
(* processes, which end when they like.                                    *)
(***************************************************************************)
EXTENDS ServiceUnit

CONSTANTS
  Requests,       \* the kinds of requests clients make
  MaxRequests     \* bound: requests made

VARIABLE requests \* how many were made

RequestKinds == {"start", "stop", "stop-irreversibly", "restart", "reload",
                 "start-ignore-dependencies", "isolate", "reset-failed", "kill",
                 "daemon-reload", "shutdown"}

ASSUME RequestsAssumption == Requests \subseteq RequestKinds /\ MaxRequests \in Nat

managerVars == <<vars, requests>>

\* The event loop turns: nothing is being called
Quiescent == stack = <<>> /\ status = "running"

Request(kind) ==
  /\ Quiescent
  /\ kind \in Requests
  /\ requests < MaxRequests
  /\ requests' = requests + 1

\* Manager::new: no job, no child, nothing armed
Idle ==
  /\ jobs = [i \in {} |-> i]
  /\ unit_job = [u \in Units |-> 0]
  /\ next_job = 0
  /\ completed_jobs = [i \in {} |-> i]
  /\ armed = {}
  /\ procs = [p \in Pids |-> [st |-> "free", unit |-> NoUnit]]
  /\ notify = {}
  /\ stack = <<>>
  /\ shutting_down = FALSE
  /\ status = "running"
  /\ requests = 0

Init == Idle /\ units = [u \in Units |-> NewUnit(u \notin Missing)]

-----------------------------------------------------------------------------
(* Requests.                                                               *)

RequestStart(u) ==
  /\ Request("start")
  /\ stack' = <<UnitCall("start", u)>>
  /\ UNCHANGED <<engineVars, units, outside>>

RequestStop(u) ==
  /\ \E irreversible \in BOOLEAN :
       /\ Request(IF irreversible THEN "stop-irreversibly" ELSE "stop")
       /\ stack' = <<Stop(u, irreversible)>>
  /\ UNCHANGED <<engineVars, units, outside>>

\* restart: a pending start is dropped without a result; the stop that follows
\* starts the unit again
RequestRestart(u) ==
  /\ Request("restart")
  /\ units[u].loaded
  /\ IF ~unit_operational(u)
     THEN stack' = <<UnitCall("start", u)>> /\ UNCHANGED engineVars
     ELSE /\ stack' = <<EnqueueStop(u, TRUE, FALSE), Process>>
          /\ IF PendingStart(u)
             THEN /\ jobs' = [i \in DOMAIN jobs \ {unit_job[u]} |-> jobs[i]]
                  /\ unit_job' = [unit_job EXCEPT ![u] = 0]
             ELSE UNCHANGED <<jobs, unit_job>>
          /\ UNCHANGED <<next_job, completed_jobs>>
  /\ UNCHANGED <<units, outside>>

\* start_ignore_dependencies: the unit's job is dropped and nobody waits for it
RequestStartIgnore(u) ==
  LET id == next_job + 1
      old == DOMAIN jobs \ {unit_job[u]}
      Freed(job) == IF unit_job[u] = 0 THEN job
                    ELSE [job EXCEPT !.waiting = {w \in @ : w.unit # u}] IN
  /\ Request("start-ignore-dependencies")
  /\ units[u].loaded
  /\ ~unit_active(u)
  /\ next_job' = id
  /\ jobs' = [i \in old \cup {id} |->
                IF i = id
                THEN [unit |-> u, kind |-> "Start", irreversible |-> FALSE,
                      waiting |-> {}, started |-> FALSE, failed |-> FALSE,
                      start_after_stop |-> FALSE, expanding |-> FALSE]
                ELSE Freed(jobs[i])]
  /\ unit_job' = [unit_job EXCEPT ![u] = id]
  /\ stack' = <<JobCall("maybe_start", id), Process>>
  /\ UNCHANGED <<completed_jobs, units, outside>>

RequestReload(u) ==
  /\ Request("reload")
  /\ units[u].loaded /\ u \notin Targets
  /\ ExecCount[u]["Reload"] > 0
  /\ stack' = <<Spawn(u, "Reload", 0)>>
  /\ UNCHANGED <<engineVars, units, outside>>

\* isolate stops every other service that is not inactive, then starts u
RequestIsolate(u) ==
  LET others == {n \in Units \ (Targets \cup {u}) : units[n].active # "inactive"} IN
  /\ Request("isolate")
  /\ stack' = <<Loop("stop_all", NoUnit, 0, others, {}), UnitCall("start", u)>>
  /\ UNCHANGED <<engineVars, units, outside>>

RequestResetFailed(u) ==
  /\ Request("reset-failed")
  /\ units[u].active = "failed"
  /\ units' = [units EXCEPT ![u] = Set(@, "inactive", "dead")]
  /\ UNCHANGED <<engineVars, stack, outside>>

\* kill looks the unit up with an index that panics
RequestKill(u) ==
  /\ Request("kill")
  /\ \/ /\ ~units[u].loaded
        /\ Panic
     \/ /\ units[u].loaded /\ unit_has_processes(u)
        /\ \E st \in {"termed", "killed"} : procs' = Signalled(Tree(u), st)
        /\ UNCHANGED <<engineVars, units, armed, notify, stack, shutting_down, status>>

\* load_all: units are read again from disk, some of whose files are gone; a
\* unit that is not inactive keeps its state and its processes.  The wheel is
\* emptied by rearm_all_timers
DaemonReload ==
  /\ Request("daemon-reload")
  /\ \E gone \in SUBSET Removable :
       units' = [u \in Units |->
         IF u \in gone \cup Missing THEN NewUnit(FALSE)
         ELSE IF units[u].active = "inactive" THEN NewUnit(TRUE)
         ELSE [units[u] EXCEPT !.cmd_index = 0, !.start_window = 0]]
  /\ armed' = {}
  /\ UNCHANGED <<engineVars, procs, notify, stack, shutting_down, status>>

\* shutdown, on SIGTERM or a poweroff request
Shutdown ==
  /\ Request("shutdown")
  /\ ~shutting_down
  /\ shutting_down' = TRUE
  /\ armed' = {}
  /\ stack' = <<Loop("stop_all", NoUnit, 0,
                     {u \in Units : units[u].active # "inactive"}, {}), Process>>
  /\ UNCHANGED <<engineVars, units, procs, notify, status>>

RequestNext ==
  \/ \E u \in Units :
       \/ RequestStart(u) \/ RequestStop(u) \/ RequestRestart(u)
       \/ RequestStartIgnore(u) \/ RequestReload(u) \/ RequestIsolate(u)
       \/ RequestResetFailed(u) \/ RequestKill(u)
  \/ DaemonReload
  \/ Shutdown

-----------------------------------------------------------------------------
(* Timers, children and notifications.                                     *)

\* fire_service_timer
FireTimer(u, kind) ==
  LET rec == units[u] IN
  /\ Quiescent
  /\ <<u, kind>> \in armed
  /\ armed' = armed \ {<<u, kind>>}
  /\ \/ /\ kind = "RestartDelay" /\ rec.sub = "auto-restart"
        /\ stack' = <<UnitCall("do_start", u), Process>>
        /\ UNCHANGED <<units, procs>>
     \/ /\ kind = "StartTimeout" /\ rec.active = "activating"
        /\ procs' = Signalled(Tree(u), "killed")
        /\ MarkFailed(u)
        /\ stack' = FailCalls(u)
     \/ /\ kind = "StopTimeout" /\ rec.active = "deactivating"
        /\ procs' = Signalled(Tree(u), "killed")
        /\ stack' = <<UnitCall("finalize", u)>>
        /\ UNCHANGED units
     \/ /\ ~ \/ kind = "RestartDelay" /\ rec.sub = "auto-restart"
             \/ kind = "StartTimeout" /\ rec.active = "activating"
             \/ kind = "StopTimeout" /\ rec.active = "deactivating"
        /\ UNCHANGED <<units, procs, stack>>
  /\ UNCHANGED <<engineVars, notify, shutting_down, status, requests>>

\* A child ends, of itself or of a signal
ChildExits(p, exit) ==
  /\ Quiescent
  /\ procs[p].st \in Alive
  /\ procs' = [procs EXCEPT ![p].st = exit]
  /\ UNCHANGED <<engineVars, units, armed, notify, stack, shutting_down, status,
                 requests>>

\* reap of one child: pid_unit.remove, then handle_process_exit
Reap(p) ==
  LET u == procs[p].unit
      exit == procs[p].st
      ps == [procs EXCEPT ![p] = [st |-> "free", unit |-> NoUnit]] IN
  /\ Quiescent
  /\ exit \in Exits
  /\ IF ~units[u].loaded
     THEN Panic
     ELSE /\ IF units[u].control_pid = p
             THEN \/ ControlExit(u, ps, exit)
                  \/ \E d \in Pids \ {p} : ForkedDaemon(u, ps, d)
             ELSE MainExit(u, ps, exit)
          /\ UNCHANGED <<engineVars, notify, shutting_down, status>>
  /\ UNCHANGED requests

\* The main process of a Type=notify service reports READY=1, perhaps with
\* its MAINPID (bound: one datagram of a service in flight)
SendReady(p, mainpid) ==
  LET u == procs[p].unit IN
  /\ Quiescent
  /\ procs[p].st \in {"running", "termed"}
  /\ ServiceType[u] = "notify"
  /\ units[u].main_pid = p
  /\ units[u].active \in {"activating", "deactivating"}
  /\ \A m \in notify : m.unit # u
  /\ notify' = notify \cup {[unit |-> u, pid |-> mainpid]}
  /\ UNCHANGED <<engineVars, units, armed, procs, stack, shutting_down, status,
                 requests>>

\* handle_notify_datagram: the datagram goes to the unit MAINPID= names, else
\* to the first candidate of the unit table
Candidates ==
  {u \in Units \ Targets : /\ units[u].loaded /\ ServiceType[u] = "notify"
                           /\ unit_operational(u)}

\* Mutant: MAINPID= is not looked at
ReadyTargetsAny(m) == Candidates

ReadyTargets(m) ==
  LET named == {u \in Candidates : m.pid # NoPid /\ procs[m.pid].unit = u} IN
  IF named # {} THEN named ELSE Candidates

HandleNotify(m) ==
  /\ Quiescent
  /\ m \in notify
  /\ notify' = notify \ {m}
  /\ \/ /\ ReadyTargets(m) = {}
        /\ UNCHANGED <<units, stack>>
     \/ \E u \in ReadyTargets(m) :
          IF units[u].active = "activating"
          THEN /\ units' = [units EXCEPT ![u] = Set(@, "active", "running")]
               /\ stack' = CompleteStart(u)
          ELSE UNCHANGED <<units, stack>>
  /\ UNCHANGED <<engineVars, armed, procs, shutting_down, status, requests>>

\* tick ends with process_jobs (which does nothing without jobs)
Tick ==
  /\ Quiescent
  /\ DOMAIN jobs # {}
  /\ stack' = <<Process>>
  /\ UNCHANGED <<engineVars, units, outside, requests>>

\* Mutant: idle() does not look at the jobs
ExitEarly ==
  /\ Quiescent
  /\ shutting_down
  /\ status' = "exited"
  /\ UNCHANGED <<engineVars, units, armed, procs, notify, stack, shutting_down,
                 requests>>

\* run breaks out of its loop when shutdown has nothing left to do
Exit ==
  /\ Quiescent
  /\ shutting_down
  /\ DOMAIN jobs = {}
  /\ status' = "exited"
  /\ UNCHANGED <<engineVars, units, armed, procs, notify, stack, shutting_down,
                 requests>>

EventNext ==
  \/ \E u \in Units, kind \in TimerKinds : FireTimer(u, kind)
  \/ \E p \in Pids, exit \in Exits : ChildExits(p, exit)
  \/ \E p \in Pids : Reap(p)
  \/ \E p \in Pids : \E mainpid \in {p, NoPid} : SendReady(p, mainpid)
  \/ \E m \in notify : HandleNotify(m)
  \/ Tick
  \/ Exit

CallNext == (EngineNext \/ ServiceNext) /\ UNCHANGED requests

Next == RequestNext \/ EventNext \/ CallNext

Spec == Init /\ [][Next]_managerVars

\* What is there to be served: a due timer, a zombie, a finished shutdown, or
\* the kernel's to do, the death of what got SIGKILL
Served ==
  \/ \E u \in Units, kind \in TimerKinds : FireTimer(u, kind)
  \/ \E p \in Pids : Reap(p)
  \/ \E p \in Pids : procs[p].st = "killed" /\ ChildExits(p, "signal")
  \/ Exit

\* The loop wakes at least every second and runs every handler it calls to the
\* end; its turns serve what is there, however many ticks come between
Fairness == WF_managerVars(CallNext) /\ SF_managerVars(Served)

FairSpec == Spec /\ Fairness
=============================================================================
