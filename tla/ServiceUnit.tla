----------------------------- MODULE ServiceUnit -----------------------------
(***************************************************************************)
(* What starting and stopping a unit does: the ServiceUnit and TargetUnit  *)
(* dispatch, spawning the command of a stage, the exit of a control or a   *)
(* main process, restart policy, and the end of a stop.                    *)
(***************************************************************************)
EXTENDS JobEngine

ArmStart(u) == armed \cup (IF u \in StartTimeouts THEN {<<u, "StartTimeout">>} ELSE {})

\* Mutant: no stop timeout
ArmStopNot(u) == armed

ArmStop(u) == armed \cup (IF u \in StopTimeouts THEN {<<u, "StopTimeout">>} ELSE {})

\* Members of the unit's process tree that a signal reaches: its cgroup, or
\* the process group of group_pid
Tree(u) ==
  IF units[u].cgroup
  THEN {p \in Pids : procs[p].unit = u /\ procs[p].st \in Alive}
  ELSE {p \in Pids : p = units[u].group_pid /\ procs[p].st \in Alive}

Signalled(P, st) ==
  [p \in Pids |-> IF p \in P /\ procs[p].st \in {"running", "termed"}
                  THEN [procs[p] EXCEPT !.st = st] ELSE procs[p]]

unit_has_processes(u) ==
  \/ units[u].main_pid # NoPid
  \/ units[u].group_pid # NoPid
  \/ units[u].cgroup /\ \E p \in Pids : procs[p].unit = u /\ procs[p].st \in Alive

\* oneshot_done: the state a unit is left in when its commands are done
Ended(rec, u) ==
  IF u \in RemainAfterExit THEN Set(rec, "active", "exited")
                           ELSE Set(rec, "inactive", "dead")

-----------------------------------------------------------------------------
(* Start.                                                                  *)

DoStart ==
  /\ Calling("do_start")
  /\ LET u == Top.unit IN
     \/ \* "unit vanished between dispatch and vtable": logged, nothing done
        /\ ~units[u].loaded
        /\ stack' = Return
        /\ UNCHANGED units
     \/ /\ units[u].loaded /\ u \in Targets
        /\ units' = [units EXCEPT ![u] = Set(@, "active", "dead")]
        /\ Call(CompleteStart(u))
     \/ /\ units[u].loaded /\ u \notin Targets
        /\ units' = [units EXCEPT ![u] =
             [Set(@, "activating", "start-pre") EXCEPT
                !.main_pid = NoPid, !.group_pid = NoPid, !.control_pid = NoPid,
                !.control_command = NoCommand, !.cmd_index = 0]]
        /\ Call(<<Spawn(u, IF ExecCount[u]["StartPre"] > 0 THEN "StartPre"
                           ELSE "Start", 0)>>)
  /\ UNCHANGED <<engineVars, outside>>

\* stage_done, when a stage has no (further) command
StageDone(rec, u, cmd) ==
  /\ units' = [units EXCEPT ![u] = IF cmd = "Start" THEN Ended(rec, u) ELSE rec]
  /\ Call(CASE cmd = "StartPre" -> <<Spawn(u, "Start", 0)>>
            [] cmd = "Start" -> CompleteStart(u)
            [] cmd = "Stop" -> <<UnitCall("finalize", u)>>
            [] OTHER -> <<>>)
  /\ UNCHANGED <<armed, procs>>

\* A start that is done as soon as its process exists
ActiveAtOnce(u, cmd) == cmd = "Start" /\ ServiceType[u] = "simple"

\* The child exists: who it is to the unit, and what the unit waits for now
Spawned(u, cmd, p) ==
  LET rec == [units[u] EXCEPT !.group_pid = p, !.cgroup = UseCgroup] IN
  /\ procs' = [procs EXCEPT ![p] = [st |-> "running", unit |-> u]]
  /\ IF ActiveAtOnce(u, cmd)
     THEN /\ units' = [units EXCEPT ![u] =
               [Set(rec, "active", "running") EXCEPT
                  !.main_pid = p, !.control_pid = NoPid,
                  !.control_command = NoCommand]]
          /\ Call(CompleteStart(u))
          /\ UNCHANGED armed
     ELSE /\ units' = [units EXCEPT ![u] =
               IF cmd = "Start" /\ ServiceType[u] = "notify"
               THEN [rec EXCEPT !.main_pid = p, !.control_pid = NoPid,
                                !.control_command = NoCommand]
               ELSE [rec EXCEPT !.control_pid = p, !.control_command = cmd,
                       !.sub = IF cmd = "Start" /\ ServiceType[u] = "oneshot"
                               THEN "start" ELSE @]]
          /\ armed' = ArmStart(u)
          /\ stack' = Return

\* spawn_control.  ensure_cgroup runs before the spawn and keeps what it made
SpawnControl ==
  /\ Calling("spawn")
  /\ LET u == Top.unit
         cmd == Top.cmd
         free == {p \in Pids : procs[p].st = "free"}
         ignored == u \in IgnoreFailure /\ cmd # "Stop"
         rec == [units[u] EXCEPT !.cgroup = UseCgroup] IN
     \/ /\ ExecCount[u][cmd] <= Top.id
        /\ StageDone(units[u], u, cmd)
     \/ /\ ExecCount[u][cmd] > Top.id
        /\ free # {}
        /\ Spawned(u, cmd, CHOOSE p \in free : TRUE)
     \/ \* spawn failed
        /\ ExecCount[u][cmd] > Top.id
        /\ u \in SpawnFails \/ free = {}
        /\ IF ignored THEN StageDone(rec, u, cmd)
           ELSE /\ units' = [units EXCEPT ![u] = Set(rec, "failed", "failed")]
                /\ Call(FailCalls(u))
                /\ UNCHANGED <<armed, procs>>
     \/ \* the user, group or directories of the command could not be set up
        /\ ExecCount[u][cmd] > Top.id
        /\ u \in SpawnFails
        /\ MarkFailed(u)
        /\ Call(FailCalls(u))
        /\ UNCHANGED <<armed, procs>>
  /\ UNCHANGED <<engineVars, notify, shutting_down, status>>

-----------------------------------------------------------------------------
(* Stop.                                                                   *)

\* do_stop: signal what runs, else run ExecStop=, else the stop is done
DoStop(u) ==
  IF u \notin Targets /\ unit_has_processes(u)
  THEN /\ units' = [units EXCEPT ![u] = Set(@, "deactivating", "stop-sigterm")]
       /\ procs' = Signalled(Tree(u), "termed")
       /\ armed' = ArmStop(u)
       /\ stack' = Return
  ELSE /\ units' = [units EXCEPT ![u] = Set(@, "deactivating", "stop")]
       /\ Call(<<IF u \in Targets \/ ExecCount[u]["Stop"] = 0
                 THEN UnitCall("finalize", u) ELSE Spawn(u, "Stop", 0)>>)
       /\ UNCHANGED <<procs, armed>>

\* maybe_stop_job
MaybeStopJob ==
  /\ Calling("maybe_stop")
  /\ LET id == Top.id IN
     IF id \notin DOMAIN jobs THEN Panic
     ELSE LET u == jobs[id].unit IN
       \/ /\ ~unit_operational(u)
          /\ Call(<<Finish(id, TRUE)>>)
          /\ UNCHANGED <<engineVars, units, outside>>
       \/ /\ unit_operational(u) /\ jobs[id].started
          /\ stack' = Return
          /\ UNCHANGED <<engineVars, units, outside>>
       \/ /\ unit_operational(u) /\ ~jobs[id].started
          /\ unit_job' = [unit_job EXCEPT ![u] = id]
          /\ UpdateJob(id, [jobs[id] EXCEPT !.started = TRUE])
          /\ DoStop(u)
          /\ UNCHANGED <<next_job, completed_jobs, notify, shutting_down, status>>

\* Mutant: the unit's state is left as it is
FinalizeStopKept ==
  /\ Calling("finalize")
  /\ LET u == Top.unit IN
     Call(IF PendingStop(u) THEN <<Finish(unit_job[u], TRUE)>> ELSE <<>>)
  /\ UNCHANGED <<units, engineVars, outside>>

\* finalize_stop
FinalizeStop ==
  /\ Calling("finalize")
  /\ LET u == Top.unit IN
     /\ units' = [units EXCEPT ![u] =
          [Set(@, "inactive", "dead") EXCEPT
             !.main_pid = NoPid, !.group_pid = NoPid, !.cgroup = FALSE,
             !.control_pid = NoPid, !.control_command = NoCommand,
             !.cmd_index = 0]]
     /\ Call(IF PendingStop(u) THEN <<Finish(unit_job[u], TRUE)>> ELSE <<>>)
  /\ UNCHANGED <<engineVars, outside>>

-----------------------------------------------------------------------------
(* The exit of a child, taken off `procs' by reap.  `ps' is the process    *)
(* table without it.                                                       *)

Policy(u, exit) ==
  CASE Restart[u] = "always" -> TRUE
    [] Restart[u] = "on-success" -> exit = "ok"
    [] Restart[u] = "on-failure" -> exit # "ok"
    [] Restart[u] = "on-abnormal" -> exit = "signal"
    [] OTHER -> FALSE

\* handle_active_exit, on the record `rec' that main_exit left
HandleActiveExit(u, rec, exit) ==
  \/ /\ Policy(u, exit)
     /\ \E recent \in RecentStarts(rec) :
          IF recent >= StartLimit
          THEN /\ units' = [units EXCEPT ![u] =
                    [Set(rec, "failed", "failed") EXCEPT !.start_window = recent]]
               /\ stack' = <<Poke(u)>>
               /\ UNCHANGED armed
          ELSE /\ units' = [units EXCEPT ![u] =
                    [Set(rec, "activating", "auto-restart") EXCEPT
                       !.start_window = recent + 1]]
               /\ armed' = armed \cup {<<u, "RestartDelay">>}
               /\ stack' = <<>>
  \/ /\ ~Policy(u, exit) /\ exit = "ok"
     /\ units' = [units EXCEPT ![u] = Ended(rec, u)]
     /\ stack' = CompleteStart(u)
     /\ UNCHANGED armed
  \/ /\ ~Policy(u, exit) /\ exit # "ok"
     /\ units' = [units EXCEPT ![u] = Set(rec, "failed", "failed")]
     /\ stack' = <<Poke(u), Loop("on_failure", u, 0, OnFailure[u], {})>>
     /\ UNCHANGED armed

MainGone(rec) == [rec EXCEPT !.main_pid = NoPid, !.group_pid = NoPid]

\* Mutant: the process group outlives its leader
ControlGoneGroup(rec) == [rec EXCEPT !.control_pid = NoPid,
                                     !.control_command = NoCommand]

ControlGone(rec) == [rec EXCEPT !.control_pid = NoPid, !.group_pid = NoPid,
                                !.control_command = NoCommand]

\* A running foreground service whose main process is gone gets its process
\* group swept; a stop kills what is left of the cgroup
Swept(u, ps) ==
  IF units[u].active = "active" /\ ServiceType[u] # "forking"
  THEN {units[u].group_pid}
  ELSE IF units[u].active = "deactivating" /\ units[u].cgroup
  THEN {p \in Pids : ps[p].unit = u} ELSE {}

\* main_exit
MainExit(u, ps, exit) ==
  LET old == units[u]
      rec == MainGone(old) IN
  /\ procs' = [p \in Pids |-> IF p \in Swept(u, ps) /\ ps[p].st \in Alive
                              THEN [ps[p] EXCEPT !.st = "killed"] ELSE ps[p]]
  /\ \/ /\ old.active = "deactivating"
        /\ units' = [units EXCEPT ![u] = rec]
        /\ stack' = <<UnitCall("finalize", u)>>
        /\ UNCHANGED armed
     \/ /\ old.active = "activating" /\ exit = "ok"
        /\ units' = [units EXCEPT ![u] = Set(rec, "inactive", "dead")]
        /\ stack' = <<>>
        /\ UNCHANGED armed
     \/ /\ old.active = "activating" /\ exit # "ok"
        /\ units' = [units EXCEPT ![u] = Set(rec, "failed", "failed")]
        /\ stack' = FailCalls(u)
        /\ UNCHANGED armed
     \/ /\ old.active \in {"active", "inactive", "failed"}
        /\ HandleActiveExit(u, rec, exit)

\* handle_control_exit: the next stage, or the end of the start or stop
ControlExit(u, ps, exit) ==
  LET old == units[u]
      ccmd == old.control_command
      rec == ControlGone(old)
      ok == exit = "ok" \/ (ccmd = "Start" /\ u \in IgnoreFailure)
      next == old.cmd_index + 1
      To(r, calls) == units' = [units EXCEPT ![u] = r] /\ stack' = calls IN
  /\ \/ /\ ccmd = "Stop" /\ ~PendingStop(u)
        /\ To(rec, <<>>)
     \/ /\ ccmd # "Stop" \/ PendingStop(u)
        /\ old.active = "deactivating" \/ ccmd = "Stop"
        /\ To(rec, <<UnitCall("finalize", u)>>)
     \/ /\ old.active # "deactivating"
        /\ \/ /\ ccmd = "StartPre" /\ ok
              /\ To(rec, <<Spawn(u, "Start", 0)>>)
           \/ /\ ccmd = "Start" /\ ServiceType[u] = "oneshot" /\ ok
              /\ next < ExecCount[u]["Start"]
              /\ To([rec EXCEPT !.cmd_index = next], <<Spawn(u, "Start", next)>>)
           \/ /\ ccmd = "Start" /\ ServiceType[u] = "oneshot" /\ ok
              /\ next >= ExecCount[u]["Start"]
              /\ IF ExecCount[u]["StartPost"] > 0
                 THEN To([rec EXCEPT !.cmd_index = 0], <<Spawn(u, "StartPost", 0)>>)
                 ELSE To([Ended(rec, u) EXCEPT !.cmd_index = 0], CompleteStart(u))
           \/ /\ ccmd = "StartPre" \/ (ccmd = "Start" /\ ServiceType[u] = "oneshot")
              /\ ~ok
              /\ To(Set(rec, "failed", "failed"), FailCalls(u))
           \/ /\ ccmd = "StartPost"
              /\ To(Ended(rec, u), CompleteStart(u))
           \/ /\ ccmd = "Reload"
              /\ To(rec, <<>>)
           \/ /\ ccmd = "Start" /\ ServiceType[u] = "forking"
              /\ To(Set(rec, "active", "running"), CompleteStart(u))
  /\ procs' = ps
  /\ UNCHANGED armed

\* Type=forking with a PIDFile=: the daemon it names becomes the main process
ForkedDaemon(u, ps, d) ==
  /\ units[u].control_command = "Start" /\ ServiceType[u] = "forking"
  /\ units[u].active # "deactivating"
  /\ ps[d].st = "free"
  /\ units' = [units EXCEPT ![u] =
       [Set(ControlGone(@), "active", "running") EXCEPT !.main_pid = d]]
  /\ procs' = [ps EXCEPT ![d] = [st |-> "running", unit |-> u]]
  /\ stack' = CompleteStart(u)
  /\ UNCHANGED armed

ServiceNext == DoStart \/ SpawnControl \/ MaybeStopJob \/ FinalizeStop
=============================================================================
