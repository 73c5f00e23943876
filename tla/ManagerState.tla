---------------------------- MODULE ManagerState ----------------------------
(***************************************************************************)
(* The state of rystemd's Manager: its table of units, its job table, the  *)
(* armed start, stop and restart timers, and the child processes as the    *)
(* kernel sees them.                                                       *)
(*                                                                         *)
(* The manager is one thread whose functions call each other re-entrantly  *)
(* (finishing a job can start, fail or finish others).  `stack' holds the  *)
(* calls still to be made, innermost first; an event from outside (a       *)
(* request, a timer, a reaped child) is taken only when it is empty.       *)
(***************************************************************************)
EXTENDS Naturals, Sequences, FiniteSets

CONSTANTS
  Units,          \* unit names
  NoUnit,
  Pids,           \* bound: process ids the kernel hands out
  NoPid,
  Missing,        \* names that have no unit file
  Removable,      \* units whose file may be deleted before a daemon-reload
  Targets,        \* units without a process (.target, .timer, .path, .device)
  Requires, Wants, Requisite, Conflicts, After, Before, OnFailure,
                  \* [Unit] dependencies: [Units -> SUBSET Units]
  Conditions,     \* outcomes Condition*= and Assert*= can have, per unit
  ServiceType,    \* Type=: [Units -> ServiceTypes]
  ExecCount,      \* commands per stage: [Units -> [ControlCommand -> Nat]]
  IgnoreFailure,  \* units whose commands have the `-' prefix
  SpawnFails,     \* units whose commands may fail to spawn
  Restart,        \* Restart=: [Units -> RestartPolicy]
  RemainAfterExit,
  StartTimeouts, StopTimeouts,  \* units whose timeouts are not infinity
  UseCgroup,      \* cgroup v2 is available
  StartLimit      \* starts per window (5 in 10 s)

VARIABLES
  units,          \* Units -> runtime record of the unit
  jobs,           \* job id -> Job
  unit_job,       \* Units -> current job id, 0 when there is none
  next_job,
  completed_jobs, \* job id -> whether it succeeded
  armed,          \* {<<unit, kind>>}: live entries of the timer wheel
  procs,          \* Pids -> [st, unit]: children not yet reaped, and pid_unit
  notify,         \* READY=1 datagrams not yet read: {[unit, pid]}
  stack,          \* pending calls, innermost first
  shutting_down,
  status          \* of the manager process: running, exited or panicked

engineVars == <<jobs, unit_job, next_job, completed_jobs>>
vars == <<units, jobs, unit_job, next_job, completed_jobs, armed, procs, notify,
          stack, shutting_down, status>>

ServiceTypes == {"simple", "notify", "oneshot", "forking"}
ControlCommand == {"StartPre", "Start", "StartPost", "Stop", "Reload"}
NoCommand == "none"
RestartPolicy == {"no", "always", "on-success", "on-failure", "on-abnormal"}
ActiveState == {"inactive", "activating", "active", "deactivating", "failed"}
SubState == {"dead", "start-pre", "start", "running", "exited", "auto-restart",
             "stop", "stop-sigterm", "failed"}
TimerKinds == {"StartTimeout", "StopTimeout", "RestartDelay"}
Exits == {"ok", "fail", "signal"}     \* how a child ended

ASSUME UnitsAssumption == NoUnit \notin Units /\ NoPid \notin Pids

ASSUME ConfigAssumption ==
  /\ Missing \subseteq Units /\ Removable \subseteq Units
  /\ Targets \subseteq Units
  /\ \A E \in {Requires, Wants, Requisite, Conflicts, After, Before, OnFailure} :
       E \in [Units -> SUBSET Units]
  /\ ServiceType \in [Units -> ServiceTypes]
  /\ ExecCount \in [Units -> [ControlCommand -> Nat]]
  /\ Restart \in [Units -> RestartPolicy]
  /\ UseCgroup \in BOOLEAN
  /\ StartLimit \in Nat

\* A child process: free, alive (perhaps signalled), or ended and unreaped
Alive == {"running", "termed", "killed"}
ProcState == Alive \cup Exits \cup {"free"}
Proc == {pr \in [st : ProcState, unit : Units \cup {NoUnit}] :
           pr.st = "free" \/ pr.unit \in Units}

UnitRec ==
  [loaded : BOOLEAN, active : ActiveState, sub : SubState,
   main_pid : Pids \cup {NoPid}, control_pid : Pids \cup {NoPid},
   control_command : ControlCommand \cup {NoCommand},
   group_pid : Pids \cup {NoPid}, cgroup : BOOLEAN,
   cmd_index : Nat, start_window : Nat]

\* Unit::new, for a unit that was loaded from its file or is not loaded
NewUnit(loaded) ==
  [loaded |-> loaded, active |-> "inactive", sub |-> "dead",
   main_pid |-> NoPid, control_pid |-> NoPid, control_command |-> NoCommand,
   group_pid |-> NoPid, cgroup |-> FALSE, cmd_index |-> 0, start_window |-> 0]

\* Mutant: the two states are exchanged
SetSwapped(rec, active, sub) == [rec EXCEPT !.active = sub, !.sub = active]

\* Unit::set_active
Set(rec, active, sub) == [rec EXCEPT !.active = active, !.sub = sub]

WaitEntry == [unit : Units, required : BOOLEAN]
Job == [unit : Units, kind : {"Start", "Stop"}, irreversible : BOOLEAN,
        waiting : SUBSET WaitEntry, started : BOOLEAN, failed : BOOLEAN,
        start_after_stop : BOOLEAN, expanding : BOOLEAN]

\* Calls about a unit, and the others
UnitOps == {"start", "stop", "enqueue_start", "conflicts", "open", "commit",
            "enqueue_stop", "stop_deps", "completed", "poke", "on_failure",
            "do_start", "spawn", "finalize", "set_exited"}
Ops == UnitOps \cup {"process", "advance", "stop_all", "maybe_start",
                     "maybe_stop", "finish"}

Frame ==
  {f \in [op : Ops, unit : Units \cup {NoUnit}, id : Nat, ok : BOOLEAN,
          irreversible : BOOLEAN, cmd : ControlCommand \cup {NoCommand},
          ids : SUBSET Nat, todo : SUBSET Units, waiting : SUBSET WaitEntry] :
     f.op \in UnitOps => f.unit \in Units}

-----------------------------------------------------------------------------
(* Pending calls.                                                          *)

Frm(op, u, id, ok, irreversible, cmd, ids, todo, waiting) ==
  [op |-> op, unit |-> u, id |-> id, ok |-> ok, irreversible |-> irreversible,
   cmd |-> cmd, ids |-> ids, todo |-> todo, waiting |-> waiting]

UnitCall(op, u) == Frm(op, u, 0, FALSE, FALSE, NoCommand, {}, {}, {})
JobCall(op, id) == Frm(op, NoUnit, id, FALSE, FALSE, NoCommand, {}, {}, {})
Finish(id, ok) == Frm("finish", NoUnit, id, ok, FALSE, NoCommand, {}, {}, {})
Loop(op, u, id, todo, waiting) ==
  Frm(op, u, id, FALSE, FALSE, NoCommand, {}, todo, waiting)
Spawn(u, cmd, idx) == Frm("spawn", u, idx, FALSE, FALSE, cmd, {}, {}, {})
Stop(u, irreversible) == Frm("stop", u, 0, FALSE, irreversible, NoCommand, {}, {}, {})
EnqueueStop(u, after, irreversible) ==
  Frm("enqueue_stop", u, 0, after, irreversible, NoCommand, {}, {}, {})
Process == JobCall("process", 0)

Top == Head(stack)
Return == Tail(stack)
Calling(op) == status = "running" /\ stack # <<>> /\ Top.op = op

\* The manager is built with panic = "abort"
Panic ==
  /\ status' = "panicked"
  /\ UNCHANGED <<units, jobs, unit_job, next_job, completed_jobs, armed, procs,
                 notify, stack, shutting_down>>

-----------------------------------------------------------------------------
(* Reading the state.                                                      *)

unit_active(u) == units[u].active = "active"
unit_operational(u) == units[u].active \in {"active", "activating"}

PendingStart(u) == unit_job[u] # 0 /\ jobs[unit_job[u]].kind = "Start"
PendingStop(u) == unit_job[u] # 0 /\ jobs[unit_job[u]].kind = "Stop"

Waiters(u) ==
  {id \in DOMAIN jobs : \E w \in jobs[id].waiting : w.unit = u}

\* Mutant: every dependency counts as wanted
RequiresWaitNever(id, u) == FALSE

RequiresWait(id, u) == \E w \in jobs[id].waiting : w.unit = u /\ w.required

\* deps.rs closure: what is reachable over the edges of loaded units
Edges(E, u) == IF units[u].loaded THEN E[u] \ {u} ELSE {}
Closure(E, u) ==
  {d \in Units :
     \A S \in SUBSET Units :
       /\ Edges(E, u) \subseteq S
       /\ \A x \in S : Edges(E, x) \subseteq S
       => d \in S}

\* stop_propagate: who requires u
Dependents(u) == {d \in Units \ {u} : units[d].loaded /\ u \in Requires[d]}

-----------------------------------------------------------------------------
(* The job table.                                                          *)

\* Mutant: ids are numbered by the jobs in the table
NewJobReused(u, kind, irreversible, after, failed, expanding) ==
  LET id == Cardinality(DOMAIN jobs) + 1 IN
  /\ next_job' = id
  /\ jobs' = [i \in DOMAIN jobs \cup {id} |->
                IF i = id
                THEN [unit |-> u, kind |-> kind, irreversible |-> irreversible,
                      waiting |-> {}, started |-> FALSE, failed |-> failed,
                      start_after_stop |-> after, expanding |-> expanding]
                ELSE jobs[i]]
  /\ unit_job' = [unit_job EXCEPT ![u] = id]
  /\ UNCHANGED completed_jobs

NewJob(u, kind, irreversible, after, failed, expanding) ==
  LET id == next_job + 1 IN
  /\ next_job' = id
  /\ jobs' = [i \in DOMAIN jobs \cup {id} |->
                IF i = id
                THEN [unit |-> u, kind |-> kind, irreversible |-> irreversible,
                      waiting |-> {}, started |-> FALSE, failed |-> failed,
                      start_after_stop |-> after, expanding |-> expanding]
                ELSE jobs[i]]
  /\ unit_job' = [unit_job EXCEPT ![u] = id]
  /\ UNCHANGED completed_jobs

\* Mutant: the unit keeps pointing to the job
RemoveJobIndexed(id, ok) ==
  /\ completed_jobs' = [i \in DOMAIN completed_jobs \cup {id} |->
                          IF i = id THEN ok ELSE completed_jobs[i]]
  /\ jobs' = [i \in DOMAIN jobs \ {id} |-> jobs[i]]
  /\ UNCHANGED <<unit_job, next_job>>

\* Mutant: the job stays in the table
RemoveJobKept(id, ok) ==
  /\ completed_jobs' = [i \in DOMAIN completed_jobs \cup {id} |->
                          IF i = id THEN ok ELSE completed_jobs[i]]
  /\ unit_job' = [unit_job EXCEPT ![jobs[id].unit] = 0]
  /\ UNCHANGED <<jobs, next_job>>

\* record_job_result, then out of both tables
RemoveJob(id, ok) ==
  LET u == jobs[id].unit IN
  /\ completed_jobs' = [i \in DOMAIN completed_jobs \cup {id} |->
                          IF i = id THEN ok ELSE completed_jobs[i]]
  /\ jobs' = [i \in DOMAIN jobs \ {id} |-> jobs[i]]
  /\ unit_job' = IF unit_job[u] = id THEN [unit_job EXCEPT ![u] = 0] ELSE unit_job
  /\ UNCHANGED next_job

\* on_job_completed and poke_failed visit the jobs that wait for u
Completed(u, ok) ==
  Frm("completed", u, 0, ok, FALSE, NoCommand, Waiters(u), {}, {})
Poke(u) == Frm("poke", u, 0, FALSE, FALSE, NoCommand, Waiters(u), {}, {})
=============================================================================
