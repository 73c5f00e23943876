------------------------------ MODULE JobEngine ------------------------------
(***************************************************************************)
(* The job engine of the Manager: requests become Start and Stop jobs, a   *)
(* Start job is expanded over the unit's dependencies and waits for their  *)
(* jobs, and a finished job releases or fails the jobs that wait for it.   *)
(* One action per function; a call whose result the caller goes on from is *)
(* pushed on the stack.                                                    *)
(***************************************************************************)
EXTENDS ManagerState

Call(frames) == stack' = frames \o Return

unitVars == <<units, armed, procs, notify>>
outside == <<armed, procs, notify, shutting_down, status>>

UpdateJob(id, job) == jobs' = [jobs EXCEPT ![id] = job]

\* Mutant: looks for a Stop job
CompleteStartStop(u) ==
  IF PendingStop(u) THEN <<Finish(unit_job[u], TRUE)>> ELSE <<>>

\* complete_start_job: the call that ends the unit's Start job, if it has one
CompleteStart(u) ==
  IF PendingStart(u) THEN <<Finish(unit_job[u], TRUE)>> ELSE <<>>

\* fail_unit, once the unit is marked failed
FailCalls(u) ==
  <<IF PendingStart(u) THEN Finish(unit_job[u], FALSE) ELSE Poke(u),
    Loop("on_failure", u, 0, OnFailure[u], {})>>

-----------------------------------------------------------------------------
(* process_jobs visits the jobs in hash order until none can advance.      *)

Advanceable(id) ==
  \/ /\ jobs[id].kind = "Start"
     /\ ~jobs[id].expanding
     /\ jobs[id].failed \/ (jobs[id].waiting = {} /\ ~jobs[id].started)
  \/ /\ jobs[id].kind = "Stop"
     /\ ~jobs[id].started

ProcessJobs ==
  /\ Calling("process")
  /\ IF \E id \in DOMAIN jobs : Advanceable(id)
     THEN \E id \in DOMAIN jobs :
            /\ Advanceable(id)
            /\ stack' = <<JobCall("advance", id)>> \o stack
     ELSE stack' = Return
  /\ UNCHANGED <<engineVars, unitVars, shutting_down, status>>

TryAdvanceJob ==
  /\ Calling("advance")
  /\ LET id == Top.id IN
     IF id \notin DOMAIN jobs \/ ~Advanceable(id)
     THEN stack' = Return
     ELSE Call(<<IF jobs[id].kind = "Stop" THEN JobCall("maybe_stop", id)
                 ELSE IF jobs[id].failed THEN Finish(id, FALSE)
                 ELSE JobCall("maybe_start", id)>>)
  /\ UNCHANGED <<engineVars, unitVars, shutting_down, status>>

-----------------------------------------------------------------------------
(* Requests.                                                               *)

\* Mutant: a shutdown does not refuse starts
StartRefusedLate(u) ==
  \/ unit_active(u)
  \/ PendingStart(u)
  \/ PendingStop(u) /\ jobs[unit_job[u]].irreversible

\* start_with_mode's early returns, once the unit is loaded
StartRefused(u) ==
  \/ shutting_down
  \/ unit_active(u)
  \/ PendingStart(u)
  \/ PendingStop(u) /\ jobs[unit_job[u]].irreversible

\* start_with_mode
StartUnit ==
  /\ Calling("start")
  /\ LET u == Top.unit
         jid == unit_job[u] IN
     \/ \* ensure_unit_loaded finds no file
        /\ ~units[u].loaded
        /\ u \in Missing \cup Removable
        /\ stack' = Return
        /\ UNCHANGED <<engineVars, units>>
     \/ \* ensure_unit_loaded loads it; go on
        /\ ~units[u].loaded
        /\ u \notin Missing
        /\ units' = [units EXCEPT ![u] = NewUnit(TRUE)]
        /\ UNCHANGED <<engineVars, stack>>
     \/ /\ units[u].loaded /\ StartRefused(u)
        /\ stack' = Return
        /\ UNCHANGED <<engineVars, units>>
     \/ \* a start replaces a stop: cancel it and call the unit active again
        /\ units[u].loaded /\ ~StartRefused(u)
        /\ PendingStop(u)
        /\ RemoveJob(jid, FALSE)
        /\ Call(<<Completed(u, FALSE), UnitCall("set_exited", u)>>)
        /\ UNCHANGED units
     \/ /\ units[u].loaded /\ ~StartRefused(u)
        /\ ~PendingStop(u)
        /\ Call(<<UnitCall("enqueue_start", u), Process>>)
        /\ UNCHANGED <<engineVars, units>>
  /\ UNCHANGED outside

SetExited ==
  /\ Calling("set_exited")
  /\ units' = [units EXCEPT ![Top.unit] = Set(@, "active", "exited")]
  /\ stack' = Return
  /\ UNCHANGED <<engineVars, outside>>

\* stop_with_mode
StopUnit ==
  /\ Calling("stop")
  /\ LET u == Top.unit
         jid == unit_job[u]
         enqueue == <<EnqueueStop(u, FALSE, Top.irreversible), Process>> IN
     \/ /\ ~unit_operational(u)
        /\ stack' = Return
        /\ UNCHANGED engineVars
     \/ /\ unit_operational(u)
        /\ PendingStop(u)
        /\ UpdateJob(jid, [jobs[jid] EXCEPT !.irreversible = @ \/ Top.irreversible])
        /\ stack' = Return
        /\ UNCHANGED <<unit_job, next_job, completed_jobs>>
     \/ \* cancel the pending start and stop instead
        /\ unit_operational(u)
        /\ PendingStart(u)
        /\ RemoveJob(jid, FALSE)
        /\ Call(<<Completed(u, FALSE)>> \o enqueue)
     \/ /\ unit_operational(u)
        /\ unit_job[u] = 0
        /\ Call(enqueue)
        /\ UNCHANGED engineVars
  /\ UNCHANGED <<units, outside>>

\* The loops of shutdown and isolate over a list of units
StopAll ==
  /\ Calling("stop_all")
  /\ IF Top.todo = {} THEN stack' = Return
     ELSE \E u \in Top.todo :
            Call(<<Stop(u, FALSE), Loop("stop_all", NoUnit, 0, Top.todo \ {u}, {})>>)
  /\ UNCHANGED <<engineVars, unitVars, shutting_down, status>>

-----------------------------------------------------------------------------
(* expand_start_job, after new_job.                                        *)

MarkFailed(u) == units' = [units EXCEPT ![u] = Set(@, "failed", "failed")]

EnqueueStart ==
  /\ Calling("enqueue_start")
  /\ LET u == Top.unit
         id == next_job + 1
         requisite == {r \in Closure(Requisite, u) : ~unit_active(r)} IN
     \/ \* unit not found
        /\ ~units[u].loaded
        /\ NewJob(u, "Start", FALSE, FALSE, TRUE, FALSE)
        /\ Call(<<Finish(id, FALSE)>>)
        /\ UNCHANGED units
     \/ \* a failed condition satisfies the job and leaves the unit inactive
        /\ units[u].loaded /\ "skip" \in Conditions[u]
        /\ NewJob(u, "Start", FALSE, FALSE, FALSE, FALSE)
        /\ Call(<<Finish(id, TRUE)>>)
        /\ UNCHANGED units
     \/ \* a failed assert fails the unit
        /\ units[u].loaded /\ "assert" \in Conditions[u]
        /\ NewJob(u, "Start", FALSE, FALSE, FALSE, FALSE)
        /\ MarkFailed(u)
        /\ Call(<<Finish(id, FALSE), Loop("on_failure", u, 0, OnFailure[u], {})>>)
     \/ \* a requisite unit is neither active nor starting
        /\ units[u].loaded /\ "pass" \in Conditions[u]
        /\ \E r \in requisite : r # u /\ ~PendingStart(r)
        /\ NewJob(u, "Start", FALSE, FALSE, TRUE, TRUE)
        /\ Call(<<Finish(id, FALSE)>>)
        /\ UNCHANGED units
     \/ /\ units[u].loaded /\ "pass" \in Conditions[u]
        /\ \A r \in requisite : r = u \/ PendingStart(r)
        /\ NewJob(u, "Start", FALSE, FALSE, FALSE, TRUE)
        /\ Call(<<Loop("conflicts", u, id, Closure(Conflicts, u),
                       {[unit |-> r, required |-> TRUE] : r \in requisite})>>)
        /\ UNCHANGED units
  /\ UNCHANGED outside

\* Stop each conflicting unit that runs and is not being stopped
ExpandConflicts ==
  /\ Calling("conflicts")
  /\ LET f == Top IN
     IF f.todo = {}
     THEN Call(<<Loop("open", f.unit, f.id,
                      Closure(Requires, f.unit) \cup Closure(Wants, f.unit),
                      f.waiting)>>)
     ELSE \E c \in f.todo :
            LET rest == Loop("conflicts", f.unit, f.id, f.todo \ {c}, f.waiting) IN
            Call(IF unit_operational(c) /\ ~PendingStop(c)
                 THEN <<EnqueueStop(c, FALSE, FALSE), rest>> ELSE <<rest>>)
  /\ UNCHANGED <<engineVars, unitVars, shutting_down, status>>

\* What is required comes before what is wanted
FirstNeeds(todo, u) ==
  LET needs == todo \cap Closure(Requires, u) IN
  IF needs # {} THEN needs ELSE todo

\* Pull in what the unit requires and wants, and wait for it
ExpandOpen ==
  /\ Calling("open")
  /\ LET f == Top IN
     \/ /\ f.todo = {}
        /\ Call(<<Loop("commit", f.unit, f.id, {}, f.waiting)>>)
        /\ UNCHANGED engineVars
     \/ \E d \in FirstNeeds(f.todo, f.unit) :
          LET required == d \in Closure(Requires, f.unit)
              skip == Loop("open", f.unit, f.id, f.todo \ {d}, f.waiting)
              wait == Loop("open", f.unit, f.id, f.todo \ {d},
                           f.waiting \cup {[unit |-> d, required |-> required]}) IN
          \/ /\ unit_active(d) \/ (~units[d].loaded /\ ~required)
             /\ Call(<<skip>>)
             /\ UNCHANGED engineVars
          \/ \* a required unit that does not exist fails the job
             /\ ~units[d].loaded /\ required
             /\ jobs' = [i \in DOMAIN jobs |->
                           IF i = f.id THEN [jobs[i] EXCEPT !.failed = TRUE]
                                       ELSE jobs[i]]
             /\ Call(<<JobCall("maybe_start", f.id)>>)
             /\ UNCHANGED <<unit_job, next_job, completed_jobs>>
          \/ /\ units[d].loaded /\ ~unit_active(d)
             /\ Call(IF PendingStart(d) THEN <<wait>>
                     ELSE <<UnitCall("enqueue_start", d), wait>>)
             /\ UNCHANGED engineVars
  /\ UNCHANGED <<unitVars, shutting_down, status>>

\* Mutant: only the Before= of other units orders
OrderedBefore(u, waiting) ==
  {a \in Units \ {u} : /\ units[a].loaded /\ u \in Before[a]
                       /\ ~unit_active(a) /\ PendingStart(a)
                       /\ \A w \in waiting : w.unit # a}

\* After= and Before= order a unit against starts that are pending
Ordered(u, waiting) ==
  LET before == {b \in Units \ {u} : units[b].loaded /\ u \in Before[b]} IN
  {a \in After[u] \cup before : /\ ~unit_active(a) /\ PendingStart(a)
                                /\ \A w \in waiting : w.unit # a}

\* Dependencies that were resolved during the expansion are dropped, or fail
\* the job
ExpandCommit ==
  /\ Calling("commit")
  /\ LET u == Top.unit
         id == Top.id
         waiting == Top.waiting \cup
                      {[unit |-> a, required |-> FALSE] : a \in Ordered(u, Top.waiting)}
         sync_failed == \E w \in waiting : /\ w.required
                                           /\ unit_job[w.unit] = 0
                                           /\ ~unit_active(w.unit) IN
     /\ IF id \in DOMAIN jobs
        THEN UpdateJob(id, [jobs[id] EXCEPT
                              !.failed = @ \/ sync_failed,
                              !.waiting = {w \in waiting : unit_job[w.unit] # 0},
                              !.expanding = FALSE])
        ELSE UNCHANGED jobs
     /\ Call(<<JobCall("maybe_start", id)>>)
  /\ UNCHANGED <<unit_job, next_job, completed_jobs, unitVars, shutting_down, status>>

\* check_start_limit keeps some of the unit's recent starts
RecentStarts(rec) == 0 .. rec.start_window

\* maybe_start_job
MaybeStartJob ==
  /\ Calling("maybe_start")
  /\ LET id == Top.id IN
     IF id \notin DOMAIN jobs THEN Panic
     ELSE LET u == jobs[id].unit IN
       \/ /\ jobs[id].failed
          /\ Call(<<Finish(id, FALSE)>>)
          /\ UNCHANGED <<engineVars, units, outside>>
       \/ /\ ~jobs[id].failed
          /\ jobs[id].waiting # {} \/ jobs[id].started
          /\ stack' = Return
          /\ UNCHANGED <<engineVars, units, outside>>
       \/ /\ ~jobs[id].failed /\ jobs[id].waiting = {} /\ ~jobs[id].started
          /\ ~units[u].loaded
          /\ Panic
       \/ /\ ~jobs[id].failed /\ jobs[id].waiting = {} /\ ~jobs[id].started
          /\ units[u].loaded
          /\ \E recent \in RecentStarts(units[u]) :
               LET hit == recent >= StartLimit IN
               /\ units' = [units EXCEPT ![u].start_window =
                              IF hit THEN recent ELSE recent + 1]
               /\ UpdateJob(id, [jobs[id] EXCEPT !.started = TRUE, !.failed = hit])
               /\ Call(<<IF hit THEN Finish(id, FALSE) ELSE UnitCall("do_start", u)>>)
          /\ UNCHANGED <<unit_job, next_job, completed_jobs, outside>>

-----------------------------------------------------------------------------
(* enqueue_stop_job_after_mode.                                            *)

EnqueueStopJob ==
  /\ Calling("enqueue_stop")
  /\ LET u == Top.unit IN
     /\ NewJob(u, "Stop", Top.irreversible, Top.ok, FALSE, FALSE)
     /\ Call(<<Loop("stop_deps", u, next_job + 1, Dependents(u), {})>>)
  /\ UNCHANGED <<units, outside>>

\* Stop the units that require this one, unless they have a job already
StopDependents ==
  /\ Calling("stop_deps")
  /\ LET f == Top IN
     IF f.todo = {} THEN Call(<<JobCall("maybe_stop", f.id)>>)
     ELSE \E d \in f.todo :
            LET rest == Loop("stop_deps", f.unit, f.id, f.todo \ {d}, {}) IN
            Call(IF unit_operational(d) /\ unit_job[d] = 0
                 THEN <<EnqueueStop(d, FALSE, FALSE), rest>> ELSE <<rest>>)
  /\ UNCHANGED <<engineVars, unitVars, shutting_down, status>>

-----------------------------------------------------------------------------
(* The end of a job.                                                       *)

\* finish_job and finish_job_failed
FinishJob ==
  /\ Calling("finish")
  /\ LET id == Top.id
         ok == Top.ok IN
     IF id \notin DOMAIN jobs
     THEN stack' = Return /\ UNCHANGED engineVars
     ELSE LET job == jobs[id] IN
          /\ RemoveJob(id, ok)
          /\ Call(<<Completed(job.unit, ok)>> \o
                  IF ok /\ job.kind = "Stop" /\ job.start_after_stop
                  THEN <<UnitCall("enqueue_start", job.unit)>> ELSE <<>>)
  /\ UNCHANGED <<units, outside>>

\* Mutant: the waiter is visited and not released
DropWaitNot(id, u) == UNCHANGED jobs

\* One waiter of on_job_completed or poke_failed: a failure it requires marks
\* it failed, anything else releases it
DropWait(id, u) ==
  UpdateJob(id, [jobs[id] EXCEPT !.waiting = {w \in @ : w.unit # u}])

OnJobCompleted ==
  /\ Calling("completed")
  /\ LET f == Top IN
     \/ /\ f.ids = {}
        /\ stack' = Return
        /\ UNCHANGED jobs
     \/ \E id \in f.ids :
          LET rest == [f EXCEPT !.ids = @ \ {id}] IN
          \/ /\ id \notin Waiters(f.unit)
             /\ Call(<<rest>>)
             /\ UNCHANGED jobs
          \/ /\ id \in Waiters(f.unit)
             /\ ~f.ok /\ RequiresWait(id, f.unit)
             /\ UpdateJob(id, [jobs[id] EXCEPT !.failed = TRUE])
             /\ Call(<<rest>>)
          \/ /\ id \in Waiters(f.unit)
             /\ f.ok \/ ~RequiresWait(id, f.unit)
             /\ DropWait(id, f.unit)
             /\ Call(<<JobCall("advance", id), rest>>)
  /\ UNCHANGED <<unit_job, next_job, completed_jobs, unitVars, shutting_down, status>>

PokeFailed ==
  /\ Calling("poke")
  /\ LET f == Top IN
     \/ /\ f.ids = {}
        /\ stack' = Return
        /\ UNCHANGED jobs
     \/ \E id \in f.ids :
          LET rest == [f EXCEPT !.ids = @ \ {id}] IN
          \/ /\ id \notin Waiters(f.unit)
             /\ Call(<<rest>>)
             /\ UNCHANGED jobs
          \/ /\ id \in Waiters(f.unit)
             /\ RequiresWait(id, f.unit)
             /\ UpdateJob(id, [jobs[id] EXCEPT !.failed = TRUE])
             /\ Call(<<Finish(id, FALSE), rest>>)
          \/ /\ id \in Waiters(f.unit)
             /\ ~RequiresWait(id, f.unit)
             /\ DropWait(id, f.unit)
             /\ Call(<<JobCall("advance", id), rest>>)
  /\ UNCHANGED <<unit_job, next_job, completed_jobs, unitVars, shutting_down, status>>

\* fire_on_failure: start the OnFailure= units, then process_jobs
FireOnFailure ==
  /\ Calling("on_failure")
  /\ LET f == Top IN
     IF f.todo = {} THEN Call(<<Process>>)
     ELSE \E t \in f.todo :
            Call(<<UnitCall("start", t),
                   Loop("on_failure", f.unit, 0, f.todo \ {t}, {})>>)
  /\ UNCHANGED <<engineVars, unitVars, shutting_down, status>>

EngineNext ==
  \/ ProcessJobs \/ TryAdvanceJob \/ StartUnit \/ SetExited \/ StopUnit \/ StopAll
  \/ EnqueueStart \/ ExpandConflicts \/ ExpandOpen \/ ExpandCommit \/ MaybeStartJob
  \/ EnqueueStopJob \/ StopDependents \/ FinishJob \/ OnJobCompleted \/ PokeFailed
  \/ FireOnFailure
=============================================================================
