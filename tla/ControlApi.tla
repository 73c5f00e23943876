----------------------------- MODULE ControlApi -----------------------------
(***************************************************************************)
(* The requests of the control protocol and what each does to the manager:  *)
(* ipc.rs over a manager reduced to what clients can tell apart, the active *)
(* state of a unit and the table of jobs.  How jobs end is left open, and so *)
(* is which units have processes, `live': main_pid, group_pid and cgroup come *)
(* and go on their own.                                                     *)
(***************************************************************************)
EXTENDS Naturals, Sequences, FiniteSets, SequencesExt

CONSTANT Units     \* the units the manager has loaded; other names are unknown

NewManager(active) ==
  [active |-> active,
   jobs |-> [i \in {} |-> i], unit_job |-> [u \in Units |-> 0],
   completed |-> [i \in {} |-> i], last |-> 0,
   masked |-> {}, shutting_down |-> FALSE, status |-> "running"]

\* "running" and "exited" are the active states
unit_active(m, u) == m.active[u] \in {"running", "exited"}
unit_operational(m, u) == unit_active(m, u) \/ m.active[u] = "activating"

-----------------------------------------------------------------------------
(* Calls into the manager.  A call returns the manager, an error or not,    *)
(* and the jobs it hands out.                                              *)

Ret(m, jobs) == [m |-> m, err |-> FALSE, jobs |-> jobs]
Fail(m) == [m |-> m, err |-> TRUE, jobs |-> {}]

PendingKind(m, u) ==
  IF m.unit_job[u] = 0 THEN "none" ELSE m.jobs[m.unit_job[u]].kind

Drop(m, id) ==
  [m EXCEPT !.jobs = [i \in DOMAIN @ \ {id} |-> @[i]],
            !.unit_job = [u \in Units |-> IF @[u] = id THEN 0 ELSE @[u]]]

Record(m, id, ok) ==
  [Drop(m, id) EXCEPT !.completed =
     [i \in DOMAIN @ \cup {id} |-> IF i = id THEN ok ELSE @[i]]]

cancel_job(m, id) == Record(m, id, FALSE)

new_job(m, u, kind, irreversible, again) ==
  [m EXCEPT !.last = @ + 1,
            !.unit_job[u] = m.last + 1,
            !.jobs = [i \in DOMAIN @ \cup {m.last + 1} |->
                        IF i \in DOMAIN @ THEN @[i]
                        ELSE [unit |-> u, kind |-> kind,
                              irreversible |-> irreversible, again |-> again]]]

start_with_mode(m, u) ==
  IF u \notin Units THEN Fail(m)
  ELSE IF m.shutting_down \/ unit_active(m, u) THEN Ret(m, {})
  ELSE LET id == m.unit_job[u] IN
       CASE PendingKind(m, u) = "Start" -> Ret(m, {id})
         [] PendingKind(m, u) = "Stop" ->
              IF m.jobs[id].irreversible THEN Fail(m)
              ELSE Ret([cancel_job(m, id) EXCEPT !.active[u] = "exited"], {})
         [] OTHER -> Ret(new_job(m, u, "Start", FALSE, FALSE), {m.last + 1})

\* The unit's job goes without a result
start_ignore_dependencies(m, u) ==
  IF u \notin Units THEN Fail(m)
  ELSE IF unit_active(m, u) THEN Ret(m, {})
  ELSE Ret(new_job(Drop(m, m.unit_job[u]), u, "Start", FALSE, FALSE), {})

stop_with_mode(m, u, mode) ==
  LET irreversible == mode = "replace-irreversibly" IN
  IF u \notin Units THEN Fail(m)
  ELSE IF ~unit_operational(m, u) THEN Ret(m, {})
  ELSE LET id == m.unit_job[u] IN
       CASE PendingKind(m, u) = "Stop" ->
              Ret(IF irreversible THEN [m EXCEPT !.jobs[id].irreversible = TRUE] ELSE m, {id})
         [] PendingKind(m, u) = "Start" ->
              Ret(new_job(cancel_job(m, id), u, "Stop", irreversible, FALSE), {m.last + 1})
         [] OTHER -> Ret(new_job(m, u, "Stop", irreversible, FALSE), {m.last + 1})

\* A pending start goes without a result; a pending stop is left behind
restart(m, u) ==
  IF u \notin Units THEN Fail(m)
  ELSE IF ~unit_operational(m, u) THEN [start_with_mode(m, u) EXCEPT !.jobs = {}]
  ELSE Ret(new_job(IF PendingKind(m, u) = "Start" THEN Drop(m, m.unit_job[u]) ELSE m,
                   u, "Stop", FALSE, TRUE), {})

try_restart(m, u) ==
  IF u \in Units /\ unit_operational(m, u) THEN restart(m, u) ELSE Ret(m, {})

restart_or_start(m, u) ==
  IF u \in Units /\ unit_operational(m, u) THEN restart(m, u)
  ELSE [start_with_mode(m, u) EXCEPT !.jobs = {}]

reset_failed(m, u) ==
  IF u \notin Units THEN Fail(m)
  ELSE Ret(IF m.active[u] = "failed" THEN [m EXCEPT !.active[u] = "inactive"] ELSE m, {})

\* unit_has_processes indexes the table of units with the name it is given; the
\* state of the unit plays no part, one that has failed may still be signalled
kill(m, u, live) ==
  IF u \notin Units THEN Ret([m EXCEPT !.status = "panicked"], {})
  ELSE IF u \in live THEN Ret(m, {}) ELSE Fail(m)

shutdown(m) == [m EXCEPT !.shutting_down = TRUE]

-----------------------------------------------------------------------------
(* ipc.rs: one request, one response.                                      *)

Reply(ok, data) == [ok |-> ok, data |-> data]

req_job_mode(mode) == mode \in {"replace", "replace-irreversibly"}

\* What a request does for one of its units
UnitCall(m, u, req) ==
  CASE req.op = "start" ->
         IF u \in m.masked THEN Fail(m) ELSE start_with_mode(m, u)
    [] req.op = "start_ignore_dependencies" ->
         IF u \in m.masked THEN Fail(m) ELSE start_ignore_dependencies(m, u)
    [] req.op = "stop" -> stop_with_mode(m, u, req.mode)
    [] req.op = "restart" -> restart(m, u)
    [] req.op = "try_restart" -> try_restart(m, u)
    [] req.op = "restart_or_start" -> restart_or_start(m, u)
    [] OTHER -> reset_failed(m, u)

\* The first error ends the request, and what was done for the units before it
\* stays done
NextUnit(acc, u, req) ==
  IF acc.err THEN acc
  ELSE LET r == UnitCall(acc.m, u, req) IN [r EXCEPT !.jobs = @ \cup acc.jobs]

EachUnit(m, req) == FoldLeft(LAMBDA acc, u : NextUnit(acc, u, req), Ret(m, {}), req.units)

\* {"jobs": [...]} for start and stop, null for the others
OpJobs(m, req) ==
  LET r == IF req_job_mode(req.mode) THEN EachUnit(m, req) ELSE Fail(m) IN
  [m |-> r.m, reply |-> Reply(~r.err, IF r.err THEN {} ELSE r.jobs)]

OpUnits(m, req) ==
  LET r == EachUnit(m, req) IN [m |-> r.m, reply |-> Reply(~r.err, {})]

\* The worst state decides the exit status
IsActiveExit(m, us) ==
  IF \E u \in us : m.active[u] = "failed" THEN 4
  ELSE IF \E u \in us : m.active[u] = "inactive" THEN 3 ELSE 0

OpIsActive(m, req) ==
  LET us == Range(req.units) IN
  [m |-> m, reply |-> IF us \subseteq Units THEN Reply(TRUE, IsActiveExit(m, us))
                      ELSE Reply(FALSE, 0)]

\* The first unit that is not failed answers before an unknown one is met
OpIsFailed(m, req) ==
  LET us == req.units
      stops == {i \in DOMAIN us : us[i] \notin Units \/ m.active[us[i]] # "failed"}
      first == CHOOSE i \in stops : \A j \in stops : i <= j IN
  [m |-> m, reply |-> IF stops = {} THEN Reply(TRUE, 0)
                      ELSE IF us[first] \in Units THEN Reply(TRUE, 1) ELSE Reply(FALSE, 1)]

OpIsSystemRunning(m) ==
  [m |-> m, reply |-> Reply(TRUE, IF \E u \in Units : m.active[u] = "failed" THEN 1 ELSE 0)]

\* job_status: a row for each id that is pending or done, none for the others
OpJobStatus(m, req) ==
  [m |-> m, reply |-> Reply(TRUE,
     [id \in req.ids \cap (DOMAIN m.jobs \cup DOMAIN m.completed) |->
        IF id \in DOMAIN m.jobs THEN "pending"
        ELSE IF m.completed[id] THEN "done" ELSE "failed"])]

OpListJobs(m) ==
  [m |-> m, reply |-> Reply(TRUE, {m.jobs[id].unit : id \in DOMAIN m.jobs})]

\* show: rows for the units that exist
OpShow(m, req) ==
  [m |-> m, reply |-> Reply(TRUE, {m.active[u] : u \in Range(req.units) \cap Units})]

\* The other queries change nothing and answer with data nobody acts on
OpQuery(m) == [m |-> m, reply |-> Reply(TRUE, {})]

OpMask(m, req) ==
  [m |-> [m EXCEPT !.masked = @ \cup Range(req.units)], reply |-> Reply(TRUE, {})]

OpUnmask(m, req) ==
  [m |-> [m EXCEPT !.masked = @ \ Range(req.units)], reply |-> Reply(TRUE, {})]

\* Only the first unit is signalled
OpKill(m, req, live) ==
  LET r == IF req.units = <<>> THEN Fail(m) ELSE kill(m, Head(req.units), live) IN
  [m |-> r.m, reply |-> Reply(~r.err, {})]

UnitVerbs == {"start_ignore_dependencies", "restart", "try_restart", "restart_or_start",
              "reset_failed"}

dispatch(m, req, live) ==
  CASE req.op \in {"start", "stop"} -> OpJobs(m, req)
    [] req.op \in UnitVerbs -> OpUnits(m, req)
    [] req.op = "kill" -> OpKill(m, req, live)
    [] req.op = "is_active" -> OpIsActive(m, req)
    [] req.op = "is_failed" -> OpIsFailed(m, req)
    [] req.op = "is_system_running" -> OpIsSystemRunning(m)
    [] req.op = "job_status" -> OpJobStatus(m, req)
    [] req.op = "list_jobs" -> OpListJobs(m)
    [] req.op = "show" -> OpShow(m, req)
    [] req.op = "mask" -> OpMask(m, req)
    [] req.op = "unmask" -> OpUnmask(m, req)
    [] req.op = "shutdown" -> [m |-> shutdown(m), reply |-> Reply(TRUE, {})]
    [] req.op \in {"list_units", "daemon_reload"} -> OpQuery(m)
    [] OTHER -> [m |-> m, reply |-> Reply(FALSE, {})]
=============================================================================
