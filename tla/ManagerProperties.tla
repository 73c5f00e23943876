------------------------- MODULE ManagerProperties -------------------------
(***************************************************************************)
(* What the manager must and must not do.  Which of these hold of which    *)
(* unit configurations, and which fail, is what the runs show.             *)
(***************************************************************************)
EXTENDS Manager

\* The part of TypeOK about the job table
JobsTypeOK ==
  /\ DOMAIN jobs \subseteq Nat \ {0}
  /\ \A id \in DOMAIN jobs : jobs[id] \in Job
  /\ unit_job \in [Units -> Nat]
  /\ next_job \in Nat
  /\ DOMAIN completed_jobs \subseteq Nat
  /\ \A id \in DOMAIN completed_jobs : completed_jobs[id] \in BOOLEAN

\* Every variable holds a value of its type: the tables of the Manager struct
\* only hold records of the declared shapes, and every call is about a unit.
TypeOK ==
  /\ units \in [Units -> UnitRec]
  /\ JobsTypeOK
  /\ armed \subseteq Units \X TimerKinds
  /\ procs \in [Pids -> Proc]
  /\ notify \subseteq [unit : Units, pid : Pids \cup {NoPid}]
  /\ stack \in Seq(Frame)
  /\ shutting_down \in BOOLEAN
  /\ status \in {"running", "exited", "panicked"}
  /\ requests \in Nat

-----------------------------------------------------------------------------
(* Jobs.                                                                   *)

\* The index from units to jobs never dangles: wherever the engine follows
\* `self.jobs[&jid]' from unit_job, the job exists and is that unit's.
JobIndex ==
  \A u \in Units : unit_job[u] # 0 =>
    /\ unit_job[u] \in DOMAIN jobs
    /\ jobs[unit_job[u]].unit = u

\* The lookups by a job's own id do not dangle either: maybe_start_job and
\* maybe_stop_job run for jobs that are in the table (`self.jobs[&id]').
JobLookups ==
  Calling("maybe_start") \/ Calling("maybe_stop") => Top.id \in DOMAIN jobs

\* The job table, read as job_status reads it, is a JobLedger: no id is reused,
\* and no job is ever pending again, or given another result, once it is done.
Ledger == INSTANCE JobLedger WITH last <- next_job, pending <- DOMAIN jobs,
                                  result <- completed_jobs
JobsLedger == Ledger!Spec

\* The answer job_status gives for a finished job never changes again, also
\* when its unit is stopped, restarted or started over its dependencies.
ResultsFinal == Ledger!Final

\* Between events, every job that waits (and did not fail) waits for units
\* that still have a job, whose end will release it.
NoDanglingWait ==
  Quiescent =>
    \A id \in DOMAIN jobs :
      jobs[id].failed \/ \A w \in jobs[id].waiting : unit_job[w.unit] # 0

\* Where a unit may be while its start is under way: a service that has to say
\* it is ready leaves its Start job behind when it ends before it did (main_exit
\* finishes no job), or when a process of its previous run is reaped late
StartStates(u) ==
  {"activating"} \cup IF ServiceType[u] \in {"notify", "forking"}
                      THEN {"inactive", "failed"} ELSE {}

\* Between events, a started job's unit is on its way to what the job asked
\* for, so that the end of the start or stop will finish the job.
JobsProgress ==
  Quiescent =>
    \A id \in DOMAIN jobs :
      LET u == jobs[id].unit IN
      jobs[id].started =>
        units[u].active \in IF jobs[id].kind = "Start" THEN StartStates(u)
                                                       ELSE {"deactivating"}

\* Between events, every job in the table is its unit's current job: none is
\* left behind that no later event would finish.
NoOrphanJob ==
  Quiescent => \A id \in DOMAIN jobs : unit_job[jobs[id].unit] = id

\* So something finishes every job: between events it is its unit's current
\* one, and a started one has a unit that is on its way.
JobsFinish == NoOrphanJob /\ JobsProgress

\* A Stop job that is reported done left its unit without a running service.
StopMeansStopped ==
  [][\A id \in DOMAIN jobs :
       /\ jobs[id].kind = "Stop"
       /\ id \in DOMAIN completed_jobs'
       /\ completed_jobs'[id]
       => units[jobs[id].unit].active \in {"inactive", "failed"}]_managerVars

\* Every job ends: it succeeds, fails, is cancelled or is replaced.
MaxJobIds == 3 * MaxRequests * Cardinality(Units)
JobsEnd ==
  \A id \in 1 .. MaxJobIds : id \in DOMAIN jobs ~> id \notin DOMAIN jobs

-----------------------------------------------------------------------------
(* Units and processes.                                                    *)

\* A recorded main, control or group process is a child of that unit that was
\* not reaped yet, so a signal never goes to a recycled process id.
NoStalePid ==
  \A u \in Units :
    \A p \in {units[u].main_pid, units[u].control_pid, units[u].group_pid} \ {NoPid} :
      procs[p].st # "free" /\ procs[p].unit = u

Unreaped(u) == {p \in Pids : procs[p].unit = u /\ procs[p].st # "free"}

\* A unit on its way to be started or stopped has something that takes it on
NotStuck(u) ==
  /\ units[u].active = "activating" =>
       \/ units[u].sub = "auto-restart" /\ <<u, "RestartDelay">> \in armed
       \/ units[u].sub # "auto-restart" /\ Unreaped(u) # {}
  /\ units[u].active = "deactivating" => Unreaped(u) # {}

\* Between events, a unit in a transient state has something that will move it
\* on: an armed restart, or a child whose exit is still to be handled.
NoStuckUnit == Quiescent => \A u \in Units : NotStuck(u)

\* A Type=notify service becomes active by a datagram of its own, or by one that
\* names no process: one that names a process its sender still has, while that
\* is starting or running, makes no other service ready.
ReadyIsOwn ==
  [][\A u \in Units :
       /\ ServiceType[u] = "notify"
       /\ units[u].active = "activating" /\ units'[u].active = "active"
       => \E m \in notify \ notify' :
            \/ m.unit = u
            \/ m.pid = NoPid
            \/ m.unit \notin Candidates
            \/ procs[m.pid].unit # m.unit]_managerVars

-----------------------------------------------------------------------------
(* Dependencies.                                                           *)

\* The Start job of this id goes to work in this step
StartsNow(id) ==
  /\ jobs[id].kind = "Start" /\ ~jobs[id].started
  /\ id \in DOMAIN jobs' /\ jobs'[id].started /\ ~jobs'[id].failed

\* A job that goes to work does so after those of its unit's dependencies
InOrder(id) ==
  StartsNow(id) =>
    /\ \A d \in Requires[jobs[id].unit] : unit_active(d)
    /\ \A d \in After[jobs[id].unit] : ~PendingStart(d)

-----------------------------------------------------------------------------
(* Shutdown.                                                               *)

\* Once shutdown has begun, no new Start job is made.
NoStartInShutdown ==
  [][shutting_down =>
       \A id \in DOMAIN jobs' : id \in DOMAIN jobs \/ jobs'[id].kind = "Stop"
    ]_managerVars

\* When the manager has left its loop, every process it started has ended or
\* got SIGKILL: the exit did not overtake a stop still waiting for one.
NothingLeftRunning ==
  status = "exited" => \A p \in Pids : procs[p].st \notin {"running", "termed"}

\* A shutdown ends with the manager's exit.
ShutdownEnds == shutting_down ~> status = "exited"
=============================================================================
