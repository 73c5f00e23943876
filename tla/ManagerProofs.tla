--------------------------- MODULE ManagerProofs ---------------------------
(***************************************************************************)
(* The manager, for every unit configuration: the type invariant; the      *)
(* processes a unit has on record are its own unreaped children; the job   *)
(* table behaves as a JobLedger and its index never dangles, no job waits  *)
(* for a unit whose job has gone, and a shutdown makes no Start job.  One  *)
(* lemma per action; the frames, records and tables an action builds have  *)
(* lemmas of their own.                                                    *)
(***************************************************************************)
EXTENDS ManagerProperties, SequenceTheorems, TLAPS

-----------------------------------------------------------------------------
(* Types of the pieces the state is made of.                               *)

\* The call frames are well-formed.
LEMMA UnitCallType ==
  ASSUME NEW u \in Units, NEW op \in Ops
  PROVE  UnitCall(op, u) \in Frame
BY DEF UnitCall, Frm, Frame, Ops

\* A call about a job is a frame.
LEMMA JobCallType ==
  ASSUME NEW id \in Nat, NEW op \in Ops \ UnitOps
  PROVE  JobCall(op, id) \in Frame
BY DEF JobCall, Frm, Frame

\* A finish_job call is a frame.
LEMMA FinishType ==
  ASSUME NEW id \in Nat, NEW ok \in BOOLEAN
  PROVE  Finish(id, ok) \in Frame
BY DEF Finish, Frm, Frame, Ops, UnitOps

\* A loop over units is a frame.
LEMMA LoopType ==
  ASSUME NEW u \in Units \cup {NoUnit}, NEW op \in Ops, op \in UnitOps => u \in Units,
         NEW id \in Nat, NEW todo \in SUBSET Units, NEW waiting \in SUBSET WaitEntry
  PROVE  Loop(op, u, id, todo, waiting) \in Frame
BY DEF Loop, Frm, Frame

\* A spawn_control call is a frame.
LEMMA SpawnType ==
  ASSUME NEW u \in Units, NEW cmd \in ControlCommand, NEW idx \in Nat
  PROVE  Spawn(u, cmd, idx) \in Frame
BY DEF Spawn, Frm, Frame, Ops, UnitOps

\* The calls that stop a unit are frames.
LEMMA StopTypes ==
  ASSUME NEW u \in Units, NEW after \in BOOLEAN, NEW irreversible \in BOOLEAN
  PROVE  Stop(u, irreversible) \in Frame /\ EnqueueStop(u, after, irreversible) \in Frame
BY DEF Stop, EnqueueStop, Frm, Frame, Ops, UnitOps

\* A process_jobs call is a frame.
LEMMA ProcessType == Process \in Frame
BY JobCallType DEF Process, Ops, UnitOps

\* The jobs that wait for a unit are job ids.
LEMMA WaitersType ==
  ASSUME TypeOK, NEW u \in Units, NEW ok \in BOOLEAN
  PROVE  Waiters(u) \in SUBSET Nat /\ Completed(u, ok) \in Frame /\ Poke(u) \in Frame
<1>1. Waiters(u) \in SUBSET Nat
  BY DEF Waiters, TypeOK, JobsTypeOK
<1> QED BY <1>1 DEF Completed, Poke, Frm, Frame, Ops, UnitOps

\* Lists of one or two calls.
LEMMA CallsType ==
  ASSUME NEW f \in Frame, NEW g \in Frame
  PROVE  <<>> \in Seq(Frame) /\ <<f>> \in Seq(Frame) /\ <<f, g>> \in Seq(Frame)
OBVIOUS

\* The calls that follow a failure are frames.
LEMMA FailCallsType ==
  ASSUME TypeOK, NEW u \in Units
  PROVE  FailCalls(u) \in Seq(Frame) /\ CompleteStart(u) \in Seq(Frame)
<1>1. unit_job[u] \in Nat /\ OnFailure[u] \in SUBSET Units
  BY ConfigAssumption DEF TypeOK, JobsTypeOK
<1>2. Finish(unit_job[u], FALSE) \in Frame /\ Finish(unit_job[u], TRUE) \in Frame
  BY <1>1, FinishType
<1>3. Poke(u) \in Frame
  BY WaitersType
<1>4. Loop("on_failure", u, 0, OnFailure[u], {}) \in Frame
  BY <1>1, LoopType DEF Ops, UnitOps
<1>5. CASE PendingStart(u)
  BY <1>2, <1>4, <1>5, CallsType DEF FailCalls, CompleteStart
<1>6. CASE ~PendingStart(u)
  BY <1>3, <1>4, <1>6, CallsType DEF FailCalls, CompleteStart
<1> QED BY <1>5, <1>6

\* A closure over dependencies is a set of units.
LEMMA ClosureType ==
  ASSUME NEW E, NEW u
  PROVE  Closure(E, u) \in SUBSET Units
BY DEF Closure

\* Replacing the innermost call by others keeps the type of the stack.
LEMMA CallType ==
  ASSUME TypeOK, NEW op, Calling(op)
  PROVE  /\ Top \in Frame /\ Top.op = op /\ Return \in Seq(Frame)
         /\ \A frames \in Seq(Frame) : Call(frames) => stack' \in Seq(Frame)
         /\ op \in UnitOps => Top.unit \in Units
<1>1. stack \in Seq(Frame) /\ stack # <<>>
  BY DEF TypeOK, Calling
<1>2. Top \in Frame /\ Return \in Seq(Frame)
  BY <1>1, HeadTailProperties DEF Top, Return
<1>3. Top.op = op
  BY DEF Calling
<1>4. ASSUME NEW frames \in Seq(Frame), Call(frames)
      PROVE  stack' \in Seq(Frame)
  BY <1>2, <1>4, ConcatProperties DEF Call
<1>5. op \in UnitOps => Top.unit \in Units
  BY <1>2, <1>3 DEF Frame
<1> QED BY <1>2, <1>3, <1>4, <1>5

\* The fields of a unit's record and of a job keep their types.
LEMMA SetType ==
  ASSUME NEW rec \in UnitRec, NEW active \in ActiveState, NEW sub \in SubState
  PROVE  Set(rec, active, sub) \in UnitRec
BY DEF Set, UnitRec

\* Marking a unit failed keeps the unit table typed.
LEMMA MarkFailedType ==
  ASSUME TypeOK, NEW u, MarkFailed(u)
  PROVE  units' \in [Units -> UnitRec]
BY SetType DEF MarkFailed, TypeOK, ActiveState, SubState

\* Updating fields of a unit record within their types keeps it a unit
\* record.
LEMMA UnitRecType ==
  ASSUME NEW rec \in UnitRec, NEW p \in Pids \cup {NoPid},
         NEW cmd \in ControlCommand \cup {NoCommand}, NEW n \in Nat,
         NEW bool \in BOOLEAN
  PROVE  /\ [rec EXCEPT !.main_pid = p] \in UnitRec
         /\ [rec EXCEPT !.control_pid = p] \in UnitRec
         /\ [rec EXCEPT !.group_pid = p] \in UnitRec
         /\ [rec EXCEPT !.control_command = cmd] \in UnitRec
         /\ [rec EXCEPT !.cgroup = bool] \in UnitRec
         /\ [rec EXCEPT !.cmd_index = n] \in UnitRec
         /\ [rec EXCEPT !.start_window = n] \in UnitRec
BY DEF UnitRec

\* A freshly loaded unit is a unit record.
LEMMA NewUnitType ==
  ASSUME NEW loaded \in BOOLEAN
  PROVE  NewUnit(loaded) \in UnitRec
BY DEF NewUnit, UnitRec, ActiveState, SubState

-----------------------------------------------------------------------------
(* The job table keeps its type.                                           *)

\* new_job
LEMMA NewJobType ==
  ASSUME JobsTypeOK, NEW u \in Units, NEW kind \in {"Start", "Stop"},
         NEW irreversible \in BOOLEAN, NEW after \in BOOLEAN,
         NEW failed \in BOOLEAN, NEW expanding \in BOOLEAN,
         NewJob(u, kind, irreversible, after, failed, expanding)
  PROVE  JobsTypeOK' /\ next_job + 1 \in Nat
<1>1. next_job' = next_job + 1 /\ next_job' \in Nat \ {0}
  BY DEF JobsTypeOK, NewJob
<1>2. DOMAIN jobs' = DOMAIN jobs \cup {next_job'}
  BY DEF NewJob
<1>3. jobs'[next_job'] \in Job
  BY DEF NewJob, Job
<1>4. \A i \in DOMAIN jobs : jobs'[i] \in Job
  BY <1>1, <1>3 DEF NewJob, JobsTypeOK
<1>5. unit_job' \in [Units -> Nat]
  BY <1>1 DEF NewJob, JobsTypeOK
<1> QED BY <1>1, <1>2, <1>3, <1>4, <1>5 DEF NewJob, JobsTypeOK

\* record_job_result and the removal of the job
LEMMA RemoveJobType ==
  ASSUME JobsTypeOK, NEW id \in Nat, NEW ok \in BOOLEAN, RemoveJob(id, ok)
  PROVE  JobsTypeOK'
<1>1. unit_job' \in [Units -> Nat]
  BY DEF RemoveJob, JobsTypeOK
<1>2. DOMAIN jobs' \subseteq DOMAIN jobs /\ \A i \in DOMAIN jobs' : jobs'[i] = jobs[i]
  BY DEF RemoveJob
<1>3. /\ DOMAIN completed_jobs' = DOMAIN completed_jobs \cup {id}
      /\ \A i \in DOMAIN completed_jobs' : completed_jobs'[i] \in BOOLEAN
  BY DEF RemoveJob, JobsTypeOK
<1> QED BY <1>1, <1>2, <1>3 DEF RemoveJob, JobsTypeOK

\* A change of one job
LEMMA UpdateJobType ==
  ASSUME JobsTypeOK, NEW id, NEW job, id \in DOMAIN jobs => job \in Job,
         UpdateJob(id, job), UNCHANGED <<unit_job, next_job, completed_jobs>>
  PROVE  JobsTypeOK'
BY DEF UpdateJob, JobsTypeOK

\* An unchanged job table stays typed.
LEMMA SameJobsType ==
  ASSUME JobsTypeOK, UNCHANGED engineVars
  PROVE  JobsTypeOK'
BY DEF JobsTypeOK, engineVars

\* A new job is a job record.
LEMMA JobType ==
  ASSUME NEW job \in Job, NEW bool \in BOOLEAN, NEW waiting \in SUBSET WaitEntry
  PROVE  /\ [job EXCEPT !.failed = bool] \in Job
         /\ [job EXCEPT !.irreversible = bool] \in Job
         /\ [job EXCEPT !.started = bool] \in Job
         /\ [job EXCEPT !.expanding = bool] \in Job
         /\ [job EXCEPT !.waiting = waiting] \in Job
BY DEF Job

-----------------------------------------------------------------------------
(* Every call of the job engine keeps the types.                           *)

\* ProcessJobs keeps TypeOK.
LEMMA ProcessJobsType ==
  ASSUME TypeOK, ProcessJobs, UNCHANGED requests
  PROVE  TypeOK'
<1>1. Calling("process") /\ JobsTypeOK /\ stack \in Seq(Frame)
  BY DEF ProcessJobs, TypeOK
<1>2. ASSUME NEW id \in DOMAIN jobs
      PROVE  <<JobCall("advance", id)>> \in Seq(Frame)
  BY <1>1, JobCallType, CallsType DEF JobsTypeOK, Ops, UnitOps
<1>3. stack' \in Seq(Frame)
  BY <1>1, <1>2, CallType, ConcatProperties DEF ProcessJobs
<1> QED BY <1>1, <1>3, SameJobsType DEF TypeOK, ProcessJobs, unitVars

\* TryAdvance keeps TypeOK.
LEMMA TryAdvanceType ==
  ASSUME TypeOK, TryAdvanceJob, UNCHANGED requests
  PROVE  TypeOK'
<1>1. Calling("advance") /\ JobsTypeOK
  BY DEF TryAdvanceJob, TypeOK
<1>2. Top.id \in Nat
  BY <1>1, CallType DEF Frame
<1>3. /\ <<JobCall("maybe_stop", Top.id)>> \in Seq(Frame)
      /\ <<JobCall("maybe_start", Top.id)>> \in Seq(Frame)
      /\ <<Finish(Top.id, FALSE)>> \in Seq(Frame)
  BY <1>2, JobCallType, FinishType, CallsType DEF Ops, UnitOps
<1>4. stack' \in Seq(Frame)
  BY <1>1, <1>3, CallType DEF TryAdvanceJob
<1> QED BY <1>1, <1>4, SameJobsType DEF TypeOK, TryAdvanceJob, unitVars

\* StartUnit keeps TypeOK.
LEMMA StartUnitType ==
  ASSUME TypeOK, StartUnit, UNCHANGED requests
  PROVE  TypeOK'
<1> DEFINE u == Top.unit
<1>1. Calling("start") /\ JobsTypeOK
  BY DEF StartUnit, TypeOK
<1>2. u \in Units /\ unit_job[u] \in Nat /\ Return \in Seq(Frame)
  BY <1>1, CallType DEF UnitOps, JobsTypeOK
<1>3. <<Completed(u, FALSE), UnitCall("set_exited", u)>> \in Seq(Frame)
  BY <1>2, WaitersType, UnitCallType, CallsType DEF Ops, UnitOps
<1>4. <<UnitCall("enqueue_start", u), Process>> \in Seq(Frame)
  BY <1>2, UnitCallType, ProcessType, CallsType DEF Ops, UnitOps
<1>5. stack' \in Seq(Frame)
  BY <1>1, <1>2, <1>3, <1>4, CallType DEF StartUnit, TypeOK
<1>6. units' \in [Units -> UnitRec]
  BY <1>2, NewUnitType DEF StartUnit, TypeOK
<1>7. JobsTypeOK'
  BY <1>1, <1>2, RemoveJobType, SameJobsType DEF StartUnit
<1> QED BY <1>5, <1>6, <1>7 DEF TypeOK, StartUnit, outside

\* A unit that is set exited stays a unit record.
LEMMA SetExitedType ==
  ASSUME TypeOK, SetExited, UNCHANGED requests
  PROVE  TypeOK'
<1>1. Calling("set_exited") /\ JobsTypeOK /\ stack' \in Seq(Frame)
  BY CallType DEF SetExited, TypeOK
<1>2. units' \in [Units -> UnitRec]
  BY SetType DEF SetExited, TypeOK, ActiveState, SubState
<1> QED BY <1>1, <1>2, SameJobsType DEF TypeOK, SetExited, outside

\* StopUnit keeps TypeOK.
LEMMA StopUnitType ==
  ASSUME TypeOK, StopUnit, UNCHANGED requests
  PROVE  TypeOK'
<1> DEFINE u == Top.unit
           enqueue == <<EnqueueStop(u, FALSE, Top.irreversible), Process>>
<1>1. Calling("stop") /\ JobsTypeOK
  BY DEF StopUnit, TypeOK
<1>2. u \in Units /\ unit_job[u] \in Nat /\ Return \in Seq(Frame)
  BY <1>1, CallType DEF UnitOps, JobsTypeOK
<1>3. Top.irreversible \in BOOLEAN
  BY <1>1, CallType DEF Frame
<1>4. enqueue \in Seq(Frame)
  BY <1>2, <1>3, StopTypes, ProcessType, CallsType
<1>5. <<Completed(u, FALSE)>> \o enqueue \in Seq(Frame)
  BY <1>2, <1>4, WaitersType, CallsType, ConcatProperties
<1>6. stack' \in Seq(Frame)
  BY <1>1, <1>2, <1>4, <1>5, CallType DEF StopUnit
<1>7. JobsTypeOK'
  <2>1. CASE RemoveJob(unit_job[u], FALSE)
    BY <1>1, <1>2, <2>1, RemoveJobType
  <2>2. CASE UNCHANGED engineVars
    BY <1>1, <2>2, SameJobsType
  <2> DEFINE jid == unit_job[u]
             job == [jobs[jid] EXCEPT !.irreversible = @ \/ Top.irreversible]
  <2>3. CASE UpdateJob(jid, job) /\ UNCHANGED <<unit_job, next_job, completed_jobs>>
    <3>1. jid \in DOMAIN jobs => job \in Job
      BY <1>1, <1>3 DEF JobsTypeOK, Job
    <3> QED BY <1>1, <2>3, <3>1, UpdateJobType
  <2> QED BY <2>1, <2>2, <2>3 DEF StopUnit
<1> QED BY <1>6, <1>7 DEF TypeOK, StopUnit, outside

\* StopAll keeps TypeOK.
LEMMA StopAllType ==
  ASSUME TypeOK, StopAll, UNCHANGED requests
  PROVE  TypeOK'
<1>1. Calling("stop_all") /\ JobsTypeOK
  BY DEF StopAll, TypeOK
<1>2. Top.todo \in SUBSET Units
  BY <1>1, CallType DEF Frame
<1>3. ASSUME NEW u \in Top.todo
      PROVE  <<Stop(u, FALSE), Loop("stop_all", NoUnit, 0, Top.todo \ {u}, {})>>
               \in Seq(Frame)
  BY <1>2, StopTypes, LoopType, CallsType DEF Ops, UnitOps
<1>4. stack' \in Seq(Frame)
  BY <1>1, <1>3, CallType DEF StopAll
<1> QED BY <1>1, <1>4, SameJobsType DEF TypeOK, StopAll, unitVars

\* EnqueueStart keeps TypeOK.
LEMMA EnqueueStartType ==
  ASSUME TypeOK, EnqueueStart, UNCHANGED requests
  PROVE  TypeOK'
<1> DEFINE u == Top.unit
           requisite == {r \in Closure(Requisite, u) : ~unit_active(r)}
           waiting == {[unit |-> r, required |-> TRUE] : r \in requisite}
<1>1. Calling("enqueue_start") /\ JobsTypeOK
  BY DEF EnqueueStart, TypeOK
<1>2. u \in Units /\ next_job + 1 \in Nat
  BY <1>1, CallType DEF UnitOps, JobsTypeOK
<1>3. JobsTypeOK'
  <2>1. ASSUME NEW failed \in BOOLEAN, NEW expanding \in BOOLEAN,
               NewJob(u, "Start", FALSE, FALSE, failed, expanding)
        PROVE  JobsTypeOK'
    BY <1>1, <1>2, <2>1, NewJobType
  <2> QED BY <2>1 DEF EnqueueStart
<1>4. units' \in [Units -> UnitRec]
  BY MarkFailedType DEF EnqueueStart, TypeOK
<1>5. <<Finish(next_job + 1, TRUE)>> \in Seq(Frame) /\ <<Finish(next_job + 1, FALSE)>> \in Seq(Frame)
  BY <1>2, FinishType, CallsType
<1>6. <<Finish(next_job + 1, FALSE), Loop("on_failure", u, 0, OnFailure[u], {})>>
        \in Seq(Frame)
  BY <1>2, FinishType, LoopType, CallsType, ConfigAssumption DEF Ops, UnitOps
<1>7. <<Loop("conflicts", u, next_job + 1, Closure(Conflicts, u), waiting)>> \in Seq(Frame)
  <2>1. waiting \in SUBSET WaitEntry
    <3>1. requisite \subseteq Units
      BY DEF Closure
    <3> HIDE DEF requisite
    <3>2. \A r \in Units : [unit |-> r, required |-> TRUE] \in WaitEntry
      BY DEF WaitEntry
    <3> QED BY <3>1, <3>2
  <2> QED BY <1>2, <2>1, ClosureType, LoopType, CallsType DEF Ops, UnitOps
<1>8. stack' \in Seq(Frame)
  BY <1>1, <1>5, <1>6, <1>7, CallType DEF EnqueueStart
<1> QED BY <1>3, <1>4, <1>8 DEF TypeOK, EnqueueStart, outside

\* ExpandConflicts keeps TypeOK.
LEMMA ExpandConflictsType ==
  ASSUME TypeOK, ExpandConflicts, UNCHANGED requests
  PROVE  TypeOK'
<1> DEFINE f == Top
<1>1. Calling("conflicts") /\ JobsTypeOK
  BY DEF ExpandConflicts, TypeOK
<1>2. /\ f.unit \in Units /\ f.id \in Nat /\ f.todo \in SUBSET Units
      /\ f.waiting \in SUBSET WaitEntry
  BY <1>1, CallType DEF Frame, UnitOps
<1>3. <<Loop("open", f.unit, f.id, Closure(Requires, f.unit) \cup Closure(Wants, f.unit),
             f.waiting)>> \in Seq(Frame)
  <2>1. \A x \in Closure(Requires, f.unit) \cup Closure(Wants, f.unit) : x \in Units
    BY DEF Closure
  <2> QED BY <1>2, <2>1, LoopType, CallsType DEF Ops, UnitOps
<1>4. ASSUME NEW d \in f.todo
      PROVE  /\ <<Loop("conflicts", f.unit, f.id, f.todo \ {d}, f.waiting)>> \in Seq(Frame)
             /\ <<EnqueueStop(d, FALSE, FALSE),
                  Loop("conflicts", f.unit, f.id, f.todo \ {d}, f.waiting)>> \in Seq(Frame)
  BY <1>2, LoopType, StopTypes, CallsType DEF Ops, UnitOps
<1>5. stack' \in Seq(Frame)
  BY <1>1, <1>3, <1>4, CallType DEF ExpandConflicts
<1> QED BY <1>1, <1>5, SameJobsType DEF TypeOK, ExpandConflicts, unitVars

\* ExpandOpen keeps TypeOK.
LEMMA ExpandOpenType ==
  ASSUME TypeOK, ExpandOpen, UNCHANGED requests
  PROVE  TypeOK'
<1> DEFINE f == Top
           failing == [i \in DOMAIN jobs |-> IF i = f.id THEN [jobs[i] EXCEPT !.failed = TRUE]
                                                        ELSE jobs[i]]
<1>1. Calling("open") /\ JobsTypeOK
  BY DEF ExpandOpen, TypeOK
<1>2. /\ f.unit \in Units /\ f.id \in Nat /\ f.todo \in SUBSET Units
      /\ f.waiting \in SUBSET WaitEntry
  BY <1>1, CallType DEF Frame, UnitOps
<1>3. FirstNeeds(f.todo, f.unit) \subseteq f.todo
  BY DEF FirstNeeds
<1>4. ASSUME NEW d \in f.todo, NEW required \in BOOLEAN
      PROVE  /\ Loop("open", f.unit, f.id, f.todo \ {d}, f.waiting) \in Frame
             /\ Loop("open", f.unit, f.id, f.todo \ {d},
                     f.waiting \cup {[unit |-> d, required |-> required]}) \in Frame
             /\ UnitCall("enqueue_start", d) \in Frame
  <2>1. f.waiting \cup {[unit |-> d, required |-> required]} \in SUBSET WaitEntry
    BY <1>2 DEF WaitEntry
  <2>2. f.todo \ {d} \in SUBSET Units /\ d \in Units
    BY <1>2
  <2> QED BY <1>2, <2>1, <2>2, LoopType, UnitCallType DEF Ops, UnitOps
<1>5. Loop("commit", f.unit, f.id, {}, f.waiting) \in Frame
  BY <1>2, LoopType DEF Ops, UnitOps
<1>6. JobCall("maybe_start", f.id) \in Frame
  BY <1>2, JobCallType DEF Ops, UnitOps
<1>7. stack' \in Seq(Frame)
  <2>1. CASE Call(<<Loop("commit", f.unit, f.id, {}, f.waiting)>>)
    BY <1>1, <1>5, <2>1, CallType, CallsType
  <2>2. CASE \E d \in f.todo : Call(<<Loop("open", f.unit, f.id, f.todo \ {d}, f.waiting)>>)
    BY <1>1, <1>4, <2>2, CallType, CallsType
  <2>3. CASE Call(<<JobCall("maybe_start", f.id)>>)
    BY <1>1, <1>6, <2>3, CallType, CallsType
  <2> DEFINE wait(d) == Loop("open", f.unit, f.id, f.todo \ {d}, f.waiting \cup
                          {[unit |-> d, required |-> d \in Closure(Requires, f.unit)]})
  <2>4. CASE \E d \in f.todo : Call(<<wait(d)>>) \/ Call(<<UnitCall("enqueue_start", d), wait(d)>>)
    <3>1. PICK d \in f.todo : Call(<<wait(d)>>) \/ Call(<<UnitCall("enqueue_start", d), wait(d)>>)
      BY <2>4
    <3>2. wait(d) \in Frame /\ UnitCall("enqueue_start", d) \in Frame
      <4> DEFINE required == d \in Closure(Requires, f.unit)
      <4>1. required \in BOOLEAN
        OBVIOUS
      <4> HIDE DEF required
      <4>2. Loop("open", f.unit, f.id, f.todo \ {d},
                 f.waiting \cup {[unit |-> d, required |-> required]}) \in Frame
        BY <1>4, <4>1
      <4> QED BY <1>4, <4>1, <4>2 DEF required
    <3> HIDE DEF wait
    <3> QED BY <1>1, <3>1, <3>2, CallType, CallsType
  <2>5. \/ Call(<<Loop("commit", f.unit, f.id, {}, f.waiting)>>)
        \/ \E d \in f.todo :
             \/ Call(<<Loop("open", f.unit, f.id, f.todo \ {d}, f.waiting)>>)
             \/ Call(<<JobCall("maybe_start", f.id)>>)
             \/ Call(<<wait(d)>>)
             \/ Call(<<UnitCall("enqueue_start", d), wait(d)>>)
    BY <1>3 DEF ExpandOpen
  <2> QED BY <2>1, <2>2, <2>3, <2>4, <2>5
<1>8. JobsTypeOK'
  <2>1. CASE UNCHANGED engineVars
    BY <1>1, <2>1, SameJobsType
  <2>2. CASE jobs' = failing /\ UNCHANGED <<unit_job, next_job, completed_jobs>>
    <3>1. ASSUME NEW i \in DOMAIN jobs
          PROVE  jobs'[i] \in Job
      <4>1. jobs[i] \in Job
        BY <1>1 DEF JobsTypeOK
      <4>2. [jobs[i] EXCEPT !.failed = TRUE] \in Job
        BY <4>1 DEF Job
      <4> QED BY <2>2, <4>1, <4>2
    <3> QED BY <1>1, <2>2, <3>1 DEF JobsTypeOK
  <2> QED BY <2>1, <2>2 DEF ExpandOpen
<1> QED BY <1>7, <1>8 DEF TypeOK, ExpandOpen, unitVars

\* ExpandCommit keeps TypeOK.
LEMMA ExpandCommitType ==
  ASSUME TypeOK, ExpandCommit, UNCHANGED requests
  PROVE  TypeOK'
<1>1. Calling("commit") /\ JobsTypeOK
  BY DEF ExpandCommit, TypeOK
<1>2. Top.unit \in Units /\ Top.id \in Nat /\ Top.waiting \in SUBSET WaitEntry
  BY <1>1, CallType DEF Frame, UnitOps
<1>3. <<JobCall("maybe_start", Top.id)>> \in Seq(Frame)
  BY <1>2, JobCallType, CallsType DEF Ops, UnitOps
<1>4. stack' \in Seq(Frame)
  BY <1>1, <1>3, CallType DEF ExpandCommit
<1>5. JobsTypeOK'
  <2> DEFINE u == Top.unit
             id == Top.id
             new == {[unit |-> x, required |-> FALSE] : x \in Ordered(u, Top.waiting)}
             waiting == Top.waiting \cup new
             sync_failed == \E w \in waiting : /\ w.required
                                               /\ unit_job[w.unit] = 0
                                               /\ ~unit_active(w.unit)
             left == {w \in waiting : unit_job[w.unit] # 0}
             job == [jobs[id] EXCEPT !.failed = @ \/ sync_failed, !.waiting = left,
                                     !.expanding = FALSE]
  <2>1. Ordered(u, Top.waiting) \subseteq Units
    BY <1>2, ConfigAssumption DEF Ordered
  <2>2. \A x \in Units : [unit |-> x, required |-> FALSE] \in WaitEntry
    BY DEF WaitEntry
  <2>3. new \subseteq WaitEntry
    BY <2>1, <2>2
  <2>4. left \in SUBSET WaitEntry /\ sync_failed \in BOOLEAN
    <3> HIDE DEF new
    <3> QED BY <1>2, <2>3
  <2>5. id \in DOMAIN jobs => job \in Job
    <3> HIDE DEF left, sync_failed
    <3>1. SUFFICES ASSUME jobs[id] \in Job PROVE job \in Job
      BY <1>1 DEF JobsTypeOK
    <3>2. (jobs[id].failed \/ sync_failed) \in BOOLEAN
      BY <2>4 DEF Job
    <3> QED BY <2>4, <3>1, <3>2 DEF Job
  <2>6. IF id \in DOMAIN jobs THEN UpdateJob(id, job) ELSE UNCHANGED jobs
    BY DEF ExpandCommit
  <2>7. UNCHANGED <<unit_job, next_job, completed_jobs>>
    BY DEF ExpandCommit
  <2> HIDE DEF job
  <2>8. CASE UpdateJob(id, job)
    BY <1>1, <2>5, <2>7, <2>8, UpdateJobType
  <2>9. CASE UNCHANGED jobs
    BY <1>1, <2>7, <2>9 DEF JobsTypeOK
  <2> QED BY <2>6, <2>8, <2>9
<1> QED BY <1>4, <1>5 DEF TypeOK, ExpandCommit, unitVars

\* MaybeStart keeps TypeOK.
LEMMA MaybeStartType ==
  ASSUME TypeOK, MaybeStartJob, UNCHANGED requests
  PROVE  TypeOK'
<1> DEFINE id == Top.id
           u == jobs[id].unit
<1>1. Calling("maybe_start") /\ JobsTypeOK
  BY DEF MaybeStartJob, RecentStarts, TypeOK
<1>2. id \in Nat
  BY <1>1, CallType DEF Frame
<1>3. CASE Panic
  BY <1>1, <1>3, SameJobsType DEF Panic, TypeOK, engineVars
<1>4. CASE ~Panic
  <2>1. id \in DOMAIN jobs /\ jobs[id] \in Job /\ u \in Units
    BY <1>1, <1>4 DEF MaybeStartJob, RecentStarts, JobsTypeOK, Job
  <2>2. <<Finish(id, FALSE)>> \in Seq(Frame) /\ <<UnitCall("do_start", u)>> \in Seq(Frame)
    BY <1>2, <2>1, FinishType, UnitCallType, CallsType DEF Ops, UnitOps
  <2>3. CASE UNCHANGED <<engineVars, units, outside>>
    <3>1. stack' \in Seq(Frame)
      BY <1>1, <1>4, <2>2, CallType DEF MaybeStartJob, RecentStarts
    <3> QED BY <1>1, <2>3, <3>1, SameJobsType DEF TypeOK, outside
  <2>4. ASSUME NEW recent \in 0 .. units[u].start_window,
               LET hit == recent >= StartLimit IN
               /\ units' = [units EXCEPT ![u].start_window =
                              IF hit THEN recent ELSE recent + 1]
               /\ UpdateJob(id, [jobs[id] EXCEPT !.started = TRUE, !.failed = hit])
               /\ Call(<<IF hit THEN Finish(id, FALSE) ELSE UnitCall("do_start", u)>>),
               UNCHANGED <<unit_job, next_job, completed_jobs, outside>>
        PROVE  TypeOK'
    <3> DEFINE hit == recent >= StartLimit
    <3>1. units[u] \in UnitRec /\ recent \in Nat /\ hit \in BOOLEAN
      BY <2>1, ConfigAssumption DEF TypeOK, UnitRec
    <3>2. units' \in [Units -> UnitRec]
      <4> DEFINE n == IF hit THEN recent ELSE recent + 1
      <4>1. n \in Nat
        BY <3>1
      <4>2. [units[u] EXCEPT !.start_window = n] \in UnitRec
        <5> HIDE DEF n
        <5> QED BY <3>1, <4>1 DEF UnitRec
      <4>3. units' = [units EXCEPT ![u] = [units[u] EXCEPT !.start_window = n]]
        BY <2>4
      <4> QED BY <4>2, <4>3 DEF TypeOK
    <3>3. [jobs[id] EXCEPT !.started = TRUE, !.failed = hit] \in Job
      BY <2>1, <3>1 DEF Job
    <3>4. JobsTypeOK'
      BY <1>1, <2>4, <3>3, UpdateJobType
    <3>5. stack' \in Seq(Frame)
      BY <1>1, <2>2, <2>4, CallType
    <3> QED BY <2>4, <3>2, <3>4, <3>5 DEF TypeOK, outside
  <2> QED BY <1>4, <2>1, <2>3, <2>4 DEF MaybeStartJob, RecentStarts
<1> QED BY <1>3, <1>4

\* EnqueueStop keeps TypeOK.
LEMMA EnqueueStopType ==
  ASSUME TypeOK, EnqueueStopJob, UNCHANGED requests
  PROVE  TypeOK'
<1> DEFINE u == Top.unit
<1>1. Calling("enqueue_stop") /\ JobsTypeOK
  BY DEF EnqueueStopJob, TypeOK
<1>2. u \in Units /\ Top.irreversible \in BOOLEAN /\ Top.ok \in BOOLEAN
  BY <1>1, CallType DEF Frame, UnitOps
<1>3. JobsTypeOK' /\ next_job + 1 \in Nat
  BY <1>1, <1>2, NewJobType DEF EnqueueStopJob
<1>4. Dependents(u) \in SUBSET Units
  BY DEF Dependents
<1>5. <<Loop("stop_deps", u, next_job + 1, Dependents(u), {})>> \in Seq(Frame)
  BY <1>2, <1>3, <1>4, LoopType, CallsType DEF Ops, UnitOps
<1>6. stack' \in Seq(Frame)
  BY <1>1, <1>5, CallType DEF EnqueueStopJob
<1> QED BY <1>3, <1>6 DEF TypeOK, EnqueueStopJob, outside

\* StopDependents keeps TypeOK.
LEMMA StopDependentsType ==
  ASSUME TypeOK, StopDependents, UNCHANGED requests
  PROVE  TypeOK'
<1> DEFINE f == Top
<1>1. Calling("stop_deps") /\ JobsTypeOK
  BY DEF StopDependents, TypeOK
<1>2. f.unit \in Units /\ f.id \in Nat /\ f.todo \in SUBSET Units
  BY <1>1, CallType DEF Frame, UnitOps
<1>3. <<JobCall("maybe_stop", f.id)>> \in Seq(Frame)
  BY <1>2, JobCallType, CallsType DEF Ops, UnitOps
<1>4. ASSUME NEW d \in f.todo
      PROVE  /\ <<Loop("stop_deps", f.unit, f.id, f.todo \ {d}, {})>> \in Seq(Frame)
             /\ <<EnqueueStop(d, FALSE, FALSE),
                  Loop("stop_deps", f.unit, f.id, f.todo \ {d}, {})>> \in Seq(Frame)
  BY <1>2, LoopType, StopTypes, CallsType DEF Ops, UnitOps
<1>5. stack' \in Seq(Frame)
  BY <1>1, <1>3, <1>4, CallType DEF StopDependents
<1> QED BY <1>1, <1>5, SameJobsType DEF TypeOK, StopDependents, unitVars

\* FinishJob keeps TypeOK.
LEMMA FinishJobType ==
  ASSUME TypeOK, FinishJob, UNCHANGED requests
  PROVE  TypeOK'
<1> DEFINE id == Top.id
           ok == Top.ok
           u == jobs[id].unit
           again == IF ok /\ jobs[id].kind = "Stop" /\ jobs[id].start_after_stop
                    THEN <<UnitCall("enqueue_start", u)>> ELSE <<>>
<1>1. Calling("finish") /\ JobsTypeOK
  BY DEF FinishJob, TypeOK
<1>2. id \in Nat /\ ok \in BOOLEAN /\ Return \in Seq(Frame)
  BY <1>1, CallType DEF Frame
<1>3. CASE id \notin DOMAIN jobs
  <2>1. stack' = Return /\ UNCHANGED <<engineVars, units, outside>>
    BY <1>3 DEF FinishJob
  <2> QED BY <1>1, <1>2, <2>1, SameJobsType DEF TypeOK, outside
<1>4. CASE id \in DOMAIN jobs
  <2>1. u \in Units
    BY <1>1, <1>4 DEF JobsTypeOK, Job
  <2>2. <<Completed(u, ok)>> \in Seq(Frame) /\ again \in Seq(Frame)
    BY <1>2, <2>1, WaitersType, UnitCallType, CallsType DEF Ops, UnitOps
  <2>3. RemoveJob(id, ok) /\ Call(<<Completed(u, ok)>> \o again)
    BY <1>4 DEF FinishJob
  <2>4. stack' \in Seq(Frame)
    <3> HIDE DEF again
    <3> QED BY <1>1, <2>2, <2>3, CallType, ConcatProperties
  <2>5. JobsTypeOK'
    BY <1>1, <1>2, <2>3, RemoveJobType
  <2> QED BY <2>4, <2>5 DEF TypeOK, FinishJob, outside
<1> QED BY <1>3, <1>4

\* The loops of on_job_completed and poke_failed over the waiting jobs.
LEMMA WaiterType ==
  ASSUME TypeOK, NEW op, Calling(op), NEW id \in Top.ids
  PROVE  /\ id \in Nat
         /\ [Top EXCEPT !.ids = @ \ {id}] \in Frame
         /\ <<[Top EXCEPT !.ids = @ \ {id}]>> \in Seq(Frame)
         /\ <<Finish(id, FALSE), [Top EXCEPT !.ids = @ \ {id}]>> \in Seq(Frame)
         /\ <<JobCall("advance", id), [Top EXCEPT !.ids = @ \ {id}]>> \in Seq(Frame)
<1>1. Top \in Frame
  BY CallType
<1>2. id \in Nat /\ [Top EXCEPT !.ids = @ \ {id}] \in Frame
  BY <1>1 DEF Frame
<1>3. JobCall("advance", id) \in Frame /\ Finish(id, FALSE) \in Frame
  BY <1>2, JobCallType, FinishType DEF Ops, UnitOps
<1> HIDE DEF Top
<1> QED BY <1>2, <1>3, CallsType

\* Dropping a wait entry keeps a job record.
LEMMA WaiterJobType ==
  ASSUME JobsTypeOK, NEW u, NEW id \in Waiters(u),
         \/ UpdateJob(id, [jobs[id] EXCEPT !.failed = TRUE])
         \/ DropWait(id, u),
         UNCHANGED <<unit_job, next_job, completed_jobs>>
  PROVE  JobsTypeOK'
<1>1. jobs[id] \in Job
  BY DEF Waiters, JobsTypeOK
<1>2. [jobs[id] EXCEPT !.failed = TRUE] \in Job
  BY <1>1 DEF Job
<1>3. [jobs[id] EXCEPT !.waiting = {w \in @ : w.unit # u}] \in Job
  BY <1>1 DEF Job
<1> QED BY <1>2, <1>3, UpdateJobType DEF DropWait

\* OnJobCompleted keeps TypeOK.
LEMMA OnJobCompletedType ==
  ASSUME TypeOK, OnJobCompleted, UNCHANGED requests
  PROVE  TypeOK'
<1>1. Calling("completed") /\ JobsTypeOK
  BY DEF OnJobCompleted, TypeOK
<1>2. stack' \in Seq(Frame)
  BY <1>1, WaiterType, CallType DEF OnJobCompleted
<1>3. JobsTypeOK'
  <2>1. UNCHANGED <<unit_job, next_job, completed_jobs>>
    BY DEF OnJobCompleted
  <2>2. CASE UNCHANGED jobs
    BY <1>1, <2>1, <2>2 DEF JobsTypeOK
  <2>3. CASE ~UNCHANGED jobs
    <3>1. PICK id \in Waiters(Top.unit) :
            \/ UpdateJob(id, [jobs[id] EXCEPT !.failed = TRUE])
            \/ DropWait(id, Top.unit)
      BY <2>3 DEF OnJobCompleted
    <3> QED BY <1>1, <2>1, <3>1, WaiterJobType
  <2> QED BY <2>2, <2>3
<1> QED BY <1>2, <1>3 DEF TypeOK, OnJobCompleted, unitVars

\* PokeFailed keeps TypeOK.
LEMMA PokeFailedType ==
  ASSUME TypeOK, PokeFailed, UNCHANGED requests
  PROVE  TypeOK'
<1>1. Calling("poke") /\ JobsTypeOK
  BY DEF PokeFailed, TypeOK
<1>2. stack' \in Seq(Frame)
  BY <1>1, WaiterType, CallType DEF PokeFailed
<1>3. JobsTypeOK'
  <2>1. UNCHANGED <<unit_job, next_job, completed_jobs>>
    BY DEF PokeFailed
  <2>2. CASE UNCHANGED jobs
    BY <1>1, <2>1, <2>2 DEF JobsTypeOK
  <2>3. CASE ~UNCHANGED jobs
    <3>1. PICK id \in Waiters(Top.unit) :
            \/ UpdateJob(id, [jobs[id] EXCEPT !.failed = TRUE])
            \/ DropWait(id, Top.unit)
      BY <2>3 DEF PokeFailed
    <3> QED BY <1>1, <2>1, <3>1, WaiterJobType
  <2> QED BY <2>2, <2>3
<1> QED BY <1>2, <1>3 DEF TypeOK, PokeFailed, unitVars

\* FireOnFailure keeps TypeOK.
LEMMA FireOnFailureType ==
  ASSUME TypeOK, FireOnFailure, UNCHANGED requests
  PROVE  TypeOK'
<1> DEFINE f == Top
<1>1. Calling("on_failure") /\ JobsTypeOK
  BY DEF FireOnFailure, TypeOK
<1>2. f.unit \in Units /\ f.todo \in SUBSET Units
  BY <1>1, CallType DEF Frame, UnitOps
<1>3. ASSUME NEW t \in f.todo
      PROVE  <<UnitCall("start", t), Loop("on_failure", f.unit, 0, f.todo \ {t}, {})>>
               \in Seq(Frame)
  BY <1>2, LoopType, UnitCallType, CallsType DEF Ops, UnitOps
<1>4. stack' \in Seq(Frame)
  BY <1>1, <1>3, ProcessType, CallType, CallsType DEF FireOnFailure
<1> QED BY <1>1, <1>4, SameJobsType DEF TypeOK, FireOnFailure, unitVars

\* Every call of the job engine keeps TypeOK.
LEMMA EngineType ==
  ASSUME TypeOK, EngineNext, UNCHANGED requests
  PROVE  TypeOK'
BY ProcessJobsType, TryAdvanceType, StartUnitType, SetExitedType, StopUnitType,
   StopAllType, EnqueueStartType, ExpandConflictsType, ExpandOpenType,
   ExpandCommitType, MaybeStartType, EnqueueStopType, StopDependentsType,
   FinishJobType, OnJobCompletedType, PokeFailedType, FireOnFailureType
   DEF EngineNext

-----------------------------------------------------------------------------
(* Starting and stopping units keeps the types.                            *)

\* Signalling processes keeps the process table typed.
LEMMA ProcsType ==
  ASSUME TypeOK, NEW P, NEW st \in {"termed", "killed"}
  PROVE  Signalled(P, st) \in [Pids -> Proc]
<1>1. ASSUME NEW p \in Pids, procs[p].st \in {"running", "termed"}
      PROVE  [procs[p] EXCEPT !.st = st] \in Proc
  BY <1>1 DEF TypeOK, Proc, ProcState, Alive
<1> QED BY <1>1 DEF Signalled, TypeOK

\* Arming a timeout keeps the armed timers typed.
LEMMA ArmType ==
  ASSUME TypeOK, NEW u \in Units
  PROVE  ArmStart(u) \subseteq Units \X TimerKinds /\ ArmStop(u) \subseteq Units \X TimerKinds
BY DEF ArmStart, ArmStop, TypeOK, TimerKinds

\* A reaped process leaves the process table typed.
LEMMA EndedType ==
  ASSUME NEW rec \in UnitRec, NEW u
  PROVE  Ended(rec, u) \in UnitRec
BY SetType DEF Ended, ActiveState, SubState

\* DoStart keeps TypeOK.
LEMMA DoStartType ==
  ASSUME TypeOK, DoStart, UNCHANGED requests
  PROVE  TypeOK'
<1> DEFINE u == Top.unit
           rec == Set(units[u], "activating", "start-pre")
           starting == [rec EXCEPT !.main_pid = NoPid, !.group_pid = NoPid,
                          !.control_pid = NoPid, !.control_command = NoCommand,
                          !.cmd_index = 0]
<1>1. Calling("do_start") /\ JobsTypeOK
  BY DEF DoStart, TypeOK
<1>2. u \in Units /\ units[u] \in UnitRec /\ Return \in Seq(Frame)
  BY <1>1, CallType DEF UnitOps, TypeOK
<1>3. rec \in UnitRec /\ Set(units[u], "active", "dead") \in UnitRec
  BY <1>2, SetType DEF ActiveState, SubState
<1>4. starting \in UnitRec
  <2> HIDE DEF rec
  <2> QED BY <1>3 DEF UnitRec
<1>5. units' \in [Units -> UnitRec]
  <2>1. \/ UNCHANGED units
        \/ units' = [units EXCEPT ![u] = Set(units[u], "active", "dead")]
        \/ units' = [units EXCEPT ![u] = starting]
    BY DEF DoStart
  <2> HIDE DEF starting
  <2> QED BY <1>2, <1>3, <1>4, <2>1 DEF TypeOK
<1>6. <<Spawn(u, "StartPre", 0)>> \in Seq(Frame) /\ <<Spawn(u, "Start", 0)>> \in Seq(Frame)
  BY <1>2, SpawnType, CallsType DEF ControlCommand
<1>7. stack' \in Seq(Frame)
  BY <1>1, <1>2, <1>6, CallType, FailCallsType DEF DoStart
<1> QED BY <1>1, <1>5, <1>7, SameJobsType DEF TypeOK, DoStart, outside

\* The end of a stage of a service keeps TypeOK.
LEMMA StageDoneType ==
  ASSUME TypeOK, NEW op, Calling(op), NEW u \in Units, NEW rec \in UnitRec,
         NEW cmd, StageDone(rec, u, cmd)
  PROVE  /\ units' \in [Units -> UnitRec]
         /\ stack' \in Seq(Frame)
         /\ UNCHANGED <<armed, procs>>
<1>1. units' \in [Units -> UnitRec]
  BY EndedType DEF StageDone, TypeOK
<1>2. <<Spawn(u, "Start", 0)>> \in Seq(Frame) /\ <<UnitCall("finalize", u)>> \in Seq(Frame)
  BY SpawnType, UnitCallType, CallsType DEF ControlCommand, Ops, UnitOps
<1>3. stack' \in Seq(Frame)
  <2>1. \/ Call(<<Spawn(u, "Start", 0)>>) \/ Call(CompleteStart(u))
        \/ Call(<<UnitCall("finalize", u)>>) \/ Call(<<>>)
    BY DEF StageDone
  <2>2. <<>> \in Seq(Frame)
    OBVIOUS
  <2> QED BY <1>2, <2>1, <2>2, CallType, FailCallsType
<1> QED BY <1>1, <1>3 DEF StageDone

\* A spawned command keeps the tables typed.
LEMMA SpawnedType ==
  ASSUME TypeOK, NEW op, Calling(op), NEW u \in Units, NEW p \in Pids,
         NEW cmd \in ControlCommand \cup {NoCommand},
         Spawned(u, cmd, p)
  PROVE  /\ units' \in [Units -> UnitRec]
         /\ stack' \in Seq(Frame)
         /\ armed' \subseteq Units \X TimerKinds
         /\ procs' \in [Pids -> Proc]
<1> DEFINE rec == [units[u] EXCEPT !.group_pid = p, !.cgroup = UseCgroup]
           up == [Set(rec, "active", "running") EXCEPT
                    !.main_pid = p, !.control_pid = NoPid, !.control_command = NoCommand]
           waiting == [rec EXCEPT !.main_pid = p, !.control_pid = NoPid,
                                  !.control_command = NoCommand]
           sub == IF cmd = "Start" /\ ServiceType[u] = "oneshot" THEN "start" ELSE rec.sub
           control == [rec EXCEPT !.control_pid = p, !.control_command = cmd, !.sub = sub]
<1>0. UseCgroup \in BOOLEAN
  BY ConfigAssumption
<1>1. rec \in UnitRec
  BY <1>0 DEF TypeOK, UnitRec
<1>2. up \in UnitRec
  <2>1. Set(rec, "active", "running") \in UnitRec
    BY <1>1, SetType DEF ActiveState, SubState
  <2> QED BY <2>1 DEF UnitRec
<1>3. waiting \in UnitRec
  <2> HIDE DEF rec
  <2> QED BY <1>1 DEF UnitRec
<1>4. control \in UnitRec
  <2>1. sub \in SubState
    BY <1>1 DEF UnitRec, SubState
  <2> HIDE DEF rec, sub
  <2> QED BY <1>1, <2>1 DEF UnitRec
<1>5. units' \in [Units -> UnitRec]
  <2>1. \/ units' = [units EXCEPT ![u] = up]
        \/ units' = [units EXCEPT ![u] = waiting]
        \/ units' = [units EXCEPT ![u] = control]
    BY DEF Spawned
  <2> HIDE DEF up, waiting, control
  <2> QED BY <1>2, <1>3, <1>4, <2>1 DEF TypeOK
<1>6. stack' \in Seq(Frame)
  BY CallType, FailCallsType DEF Spawned
<1>7. armed' \subseteq Units \X TimerKinds
  BY ArmType DEF Spawned, TypeOK
<1>8. procs' \in [Pids -> Proc]
  BY DEF Spawned, TypeOK, Proc, ProcState, Alive
<1> QED BY <1>5, <1>6, <1>7, <1>8

\* SpawnControl keeps TypeOK.
LEMMA SpawnControlType ==
  ASSUME TypeOK, SpawnControl, UNCHANGED requests
  PROVE  TypeOK'
<1> DEFINE u == Top.unit
           cmd == Top.cmd
           rec == [units[u] EXCEPT !.cgroup = UseCgroup]
           free == {p \in Pids : procs[p].st = "free"}
<1>1. Calling("spawn") /\ JobsTypeOK
  BY DEF SpawnControl, TypeOK
<1>2. u \in Units /\ cmd \in ControlCommand \cup {NoCommand} /\ units[u] \in UnitRec
  BY <1>1, CallType DEF UnitOps, Frame, TypeOK
<1>3. UseCgroup \in BOOLEAN
  BY ConfigAssumption
<1>4. rec \in UnitRec
  BY <1>2, <1>3 DEF UnitRec
<1>5. /\ UNCHANGED <<engineVars, notify, shutting_down, status>>
      /\ \/ StageDone(units[u], u, cmd)
         \/ StageDone(rec, u, cmd)
         \/ free # {} /\ Spawned(u, cmd, CHOOSE p \in free : TRUE)
         \/ /\ \/ units' = [units EXCEPT ![u] = Set(rec, "failed", "failed")]
               \/ MarkFailed(u)
            /\ Call(FailCalls(u))
            /\ UNCHANGED <<armed, procs>>
  BY DEF SpawnControl
<1>6. SUFFICES /\ units' \in [Units -> UnitRec]
               /\ stack' \in Seq(Frame)
               /\ armed' \subseteq Units \X TimerKinds
               /\ procs' \in [Pids -> Proc]
  BY <1>1, <1>5, SameJobsType DEF TypeOK
<1>7. CASE StageDone(units[u], u, cmd) \/ StageDone(rec, u, cmd)
  <2> HIDE DEF rec, cmd
  <2> QED BY <1>1, <1>2, <1>4, <1>7, StageDoneType DEF TypeOK
<1>8. CASE free # {} /\ Spawned(u, cmd, CHOOSE p \in free : TRUE)
  <2> DEFINE p == CHOOSE x \in free : TRUE
  <2>1. p \in Pids
    BY <1>8
  <2> HIDE DEF p, free, cmd
  <2> QED BY <1>1, <1>2, <1>8, <2>1, SpawnedType DEF p
<1>9. CASE /\ \/ units' = [units EXCEPT ![u] = Set(rec, "failed", "failed")]
              \/ MarkFailed(u)
           /\ Call(FailCalls(u))
           /\ UNCHANGED <<armed, procs>>
  <2>1. Set(rec, "failed", "failed") \in UnitRec
    BY <1>4, SetType DEF ActiveState, SubState
  <2>2. units' \in [Units -> UnitRec]
    <3> HIDE DEF rec
    <3> QED BY <1>9, <2>1, MarkFailedType DEF TypeOK
  <2>3. stack' \in Seq(Frame)
    BY <1>1, <1>2, <1>9, CallType, FailCallsType
  <2> QED BY <1>9, <2>2, <2>3 DEF TypeOK
<1> QED BY <1>5, <1>7, <1>8, <1>9

\* MaybeStop keeps TypeOK.
LEMMA MaybeStopType ==
  ASSUME TypeOK, MaybeStopJob, UNCHANGED requests
  PROVE  TypeOK'
<1> DEFINE id == Top.id
           u == jobs[id].unit
<1>1. Calling("maybe_stop") /\ JobsTypeOK
  BY DEF MaybeStopJob, DoStop, TypeOK
<1>2. id \in Nat
  BY <1>1, CallType DEF Frame
<1>3. CASE Panic
  BY <1>1, <1>3, SameJobsType DEF Panic, TypeOK, engineVars
<1>4. CASE ~Panic
  <2>1. id \in DOMAIN jobs /\ jobs[id] \in Job /\ u \in Units
    BY <1>1, <1>4 DEF MaybeStopJob, DoStop, JobsTypeOK, Job
  <2>2. <<Finish(id, TRUE)>> \in Seq(Frame) /\ <<UnitCall("finalize", u)>> \in Seq(Frame)
    BY <1>2, <2>1, FinishType, UnitCallType, CallsType DEF Ops, UnitOps
  <2>3. CASE UNCHANGED <<engineVars, units, outside>> /\ (stack' = Return \/ Call(<<Finish(id, TRUE)>>))
    <3>1. stack' \in Seq(Frame)
      BY <1>1, <2>2, <2>3, CallType
    <3> QED BY <1>1, <2>3, <3>1, SameJobsType DEF TypeOK, outside
  <2>4. CASE /\ unit_job' = [unit_job EXCEPT ![u] = id]
             /\ UpdateJob(id, [jobs[id] EXCEPT !.started = TRUE])
             /\ \/ /\ units' = [units EXCEPT ![u] = Set(@, "deactivating", "stop-sigterm")]
                   /\ procs' = Signalled(Tree(u), "termed")
                   /\ armed' = ArmStop(u)
                   /\ stack' = Return
                \/ /\ units' = [units EXCEPT ![u] = Set(@, "deactivating", "stop")]
                   /\ Call(<<UnitCall("finalize", u)>>) \/ Call(<<Spawn(u, "Stop", 0)>>)
                   /\ UNCHANGED <<procs, armed>>
             /\ UNCHANGED <<next_job, completed_jobs, notify, shutting_down, status>>
    <3>1. units' \in [Units -> UnitRec]
      <4>1. units \in [Units -> UnitRec] /\ units[u] \in UnitRec
        BY <2>1 DEF TypeOK
      <4>2. "deactivating" \in ActiveState /\ {"stop-sigterm", "stop"} \subseteq SubState
        BY DEF ActiveState, SubState
      <4>3. /\ Set(units[u], "deactivating", "stop-sigterm") \in UnitRec
            /\ Set(units[u], "deactivating", "stop") \in UnitRec
        BY <4>1, <4>2, SetType
      <4>4. PICK r \in UnitRec : units' = [units EXCEPT ![u] = r]
        BY <2>4, <4>3
      <4> QED BY <4>1, <4>4
    <3>2. [jobs[id] EXCEPT !.started = TRUE] \in Job
      BY <2>1 DEF Job
    <3>3. JobsTypeOK'
      BY <1>1, <1>2, <2>4, <3>2 DEF UpdateJob, JobsTypeOK
    <3>4. stack' \in Seq(Frame)
      <4>1. <<Spawn(u, "Stop", 0)>> \in Seq(Frame)
        BY <2>1, SpawnType, CallsType DEF ControlCommand
      <4> QED BY <1>1, <2>2, <2>4, <4>1, CallType
    <3>5. procs' \in [Pids -> Proc] /\ armed' \subseteq Units \X TimerKinds
      BY <2>1, <2>4, ProcsType, ArmType DEF TypeOK
    <3> QED BY <2>4, <3>1, <3>3, <3>4, <3>5 DEF TypeOK
  <2> QED BY <1>4, <2>1, <2>3, <2>4 DEF MaybeStopJob, DoStop
<1> QED BY <1>3, <1>4

\* FinalizeStop keeps TypeOK.
LEMMA FinalizeStopType ==
  ASSUME TypeOK, FinalizeStop, UNCHANGED requests
  PROVE  TypeOK'
<1> DEFINE u == Top.unit
           down == Set(units[u], "inactive", "dead")
           rec == [down EXCEPT !.main_pid = NoPid, !.group_pid = NoPid, !.cgroup = FALSE,
                     !.control_pid = NoPid, !.control_command = NoCommand, !.cmd_index = 0]
<1>1. Calling("finalize") /\ JobsTypeOK
  BY DEF FinalizeStop, TypeOK
<1>2. u \in Units /\ units[u] \in UnitRec /\ unit_job[u] \in Nat
  BY <1>1, CallType DEF UnitOps, TypeOK, JobsTypeOK
<1>3. rec \in UnitRec
  <2>1. down \in UnitRec
    BY <1>2, SetType DEF ActiveState, SubState
  <2> HIDE DEF down
  <2> QED BY <2>1 DEF UnitRec
<1>4. units' \in [Units -> UnitRec]
  <2>1. units' = [units EXCEPT ![u] = rec]
    BY DEF FinalizeStop
  <2> HIDE DEF rec
  <2> QED BY <1>3, <2>1 DEF TypeOK
<1>5. stack' \in Seq(Frame)
  <2>1. <<Finish(unit_job[u], TRUE)>> \in Seq(Frame) /\ <<>> \in Seq(Frame)
    BY <1>2, FinishType, CallsType
  <2> QED BY <1>1, <2>1, CallType DEF FinalizeStop
<1> QED BY <1>1, <1>4, <1>5, SameJobsType DEF TypeOK, FinalizeStop, outside

\* Every call of the service code keeps TypeOK.
LEMMA ServiceNextType ==
  ASSUME TypeOK, ServiceNext, UNCHANGED requests
  PROVE  TypeOK'
BY DoStartType, SpawnControlType, MaybeStopType, FinalizeStopType DEF ServiceNext

-----------------------------------------------------------------------------
(* Requests and events keep the types.                                     *)

\* Counting a request keeps the counter typed.
LEMMA RequestsType ==
  ASSUME TypeOK, requests' = requests + 1
  PROVE  requests' \in Nat
BY DEF TypeOK

\* RequestRestart keeps TypeOK.
LEMMA RequestRestartType ==
  ASSUME TypeOK, NEW u \in Units, RequestRestart(u)
  PROVE  TypeOK'
<1> DEFINE dropped == [i \in DOMAIN jobs \ {unit_job[u]} |-> jobs[i]]
<1>1. JobsTypeOK /\ unit_job[u] \in Nat
  BY DEF TypeOK, JobsTypeOK
<1>2. stack' \in Seq(Frame)
  <2>1. /\ <<UnitCall("start", u)>> \in Seq(Frame)
        /\ <<EnqueueStop(u, TRUE, FALSE), Process>> \in Seq(Frame)
    BY UnitCallType, StopTypes, ProcessType, CallsType DEF Ops, UnitOps
  <2> QED BY <2>1 DEF RequestRestart
<1>3. JobsTypeOK'
  <2>1. CASE UNCHANGED engineVars
    BY <1>1, <2>1, SameJobsType
  <2>2. CASE /\ jobs' = dropped \/ jobs' = jobs
             /\ unit_job' = [unit_job EXCEPT ![u] = 0] \/ unit_job' = unit_job
             /\ UNCHANGED <<next_job, completed_jobs>>
    BY <1>1, <2>2 DEF JobsTypeOK
  <2> QED BY <2>1, <2>2 DEF RequestRestart
<1> QED BY <1>2, <1>3, RequestsType DEF TypeOK, RequestRestart, Request, outside

\* RequestStartIgnore keeps TypeOK.
LEMMA RequestStartIgnoreType ==
  ASSUME TypeOK, NEW u \in Units, RequestStartIgnore(u)
  PROVE  TypeOK'
<1> DEFINE id == next_job + 1
           old == DOMAIN jobs \ {unit_job[u]}
           Freed(job) == IF unit_job[u] = 0 THEN job
                         ELSE [job EXCEPT !.waiting = {w \in @ : w.unit # u}]
           new == [unit |-> u, kind |-> "Start", irreversible |-> FALSE,
                   waiting |-> {}, started |-> FALSE, failed |-> FALSE,
                   start_after_stop |-> FALSE, expanding |-> FALSE]
<1>1. JobsTypeOK /\ id \in Nat \ {0}
  BY DEF TypeOK, JobsTypeOK
<1>2. jobs' = [i \in old \cup {id} |-> IF i = id THEN new ELSE Freed(jobs[i])]
  BY DEF RequestStartIgnore
<1>3. ASSUME NEW job \in Job
      PROVE  Freed(job) \in Job
  BY DEF Job
<1>4. new \in Job
  BY DEF Job
<1>5. \A i \in DOMAIN jobs' : jobs'[i] \in Job
  <2> HIDE DEF Freed, new, id
  <2> QED BY <1>1, <1>2, <1>3, <1>4 DEF JobsTypeOK
<1>6. /\ unit_job' = [unit_job EXCEPT ![u] = id]
      /\ next_job' = id
      /\ UNCHANGED completed_jobs
  BY DEF RequestStartIgnore
<1>7. JobsTypeOK'
  <2>1. DOMAIN jobs' = old \cup {id}
    BY <1>2
  <2> HIDE DEF id
  <2> QED BY <1>1, <1>5, <1>6, <2>1 DEF JobsTypeOK
<1>8. stack' \in Seq(Frame)
  <2>1. JobCall("maybe_start", id) \in Frame
    BY <1>1, JobCallType DEF Ops, UnitOps
  <2> QED BY <2>1, ProcessType, CallsType DEF RequestStartIgnore
<1> QED BY <1>7, <1>8, RequestsType DEF TypeOK, RequestStartIgnore, Request, outside

\* Every request keeps TypeOK.
LEMMA RequestNextType ==
  ASSUME TypeOK, RequestNext
  PROVE  TypeOK'
<1>1. JobsTypeOK /\ stack \in Seq(Frame)
  BY DEF TypeOK
<1>2. ASSUME NEW u \in Units, RequestStart(u)
      PROVE  TypeOK'
  <2>1. stack' \in Seq(Frame)
    BY <1>2, UnitCallType, CallsType DEF RequestStart, Ops, UnitOps
  <2> QED BY <1>1, <1>2, <2>1, SameJobsType, RequestsType
          DEF TypeOK, RequestStart, Request, outside
<1>3. ASSUME NEW u \in Units, RequestStop(u)
      PROVE  TypeOK'
  <2>1. stack' \in Seq(Frame)
    BY <1>3, StopTypes, CallsType DEF RequestStop
  <2> QED BY <1>1, <1>3, <2>1, SameJobsType, RequestsType
          DEF TypeOK, RequestStop, Request, outside
<1>4. ASSUME NEW u \in Units, RequestReload(u)
      PROVE  TypeOK'
  <2>1. stack' \in Seq(Frame)
    BY <1>4, SpawnType, CallsType DEF RequestReload, ControlCommand
  <2> QED BY <1>1, <1>4, <2>1, SameJobsType, RequestsType
          DEF TypeOK, RequestReload, Request, outside
<1>5. ASSUME NEW u \in Units, RequestIsolate(u)
      PROVE  TypeOK'
  <2> DEFINE others == {n \in Units \ (Targets \cup {u}) : units[n].active # "inactive"}
  <2>1. Loop("stop_all", NoUnit, 0, others, {}) \in Frame
    BY LoopType DEF Ops, UnitOps
  <2>2. UnitCall("start", u) \in Frame
    BY UnitCallType DEF Ops, UnitOps
  <2>3. stack' \in Seq(Frame)
    BY <1>5, <2>1, <2>2, CallsType DEF RequestIsolate
  <2> QED BY <1>1, <1>5, <2>3, SameJobsType, RequestsType
          DEF TypeOK, RequestIsolate, Request, outside
<1>6. ASSUME NEW u \in Units, RequestResetFailed(u)
      PROVE  TypeOK'
  <2>1. units' \in [Units -> UnitRec]
    BY <1>6, SetType DEF RequestResetFailed, TypeOK, ActiveState, SubState
  <2> QED BY <1>1, <1>6, <2>1, SameJobsType, RequestsType
          DEF TypeOK, RequestResetFailed, Request, outside
<1>7. ASSUME NEW u \in Units, RequestKill(u)
      PROVE  TypeOK'
  <2>1. CASE Panic
    BY <1>1, <1>7, <2>1, SameJobsType, RequestsType
       DEF TypeOK, RequestKill, Request, Panic, engineVars
  <2>2. CASE ~Panic
    <3>1. procs' \in [Pids -> Proc]
      BY <1>7, <2>2, ProcsType DEF RequestKill
    <3> QED BY <1>1, <1>7, <2>2, <3>1, SameJobsType, RequestsType
            DEF TypeOK, RequestKill, Request
  <2> QED BY <2>1, <2>2
<1>8. ASSUME DaemonReload
      PROVE  TypeOK'
  <2>1. ASSUME NEW u \in Units
        PROVE  [units[u] EXCEPT !.cmd_index = 0, !.start_window = 0] \in UnitRec
    BY DEF TypeOK, UnitRec
  <2>2. NewUnit(FALSE) \in UnitRec /\ NewUnit(TRUE) \in UnitRec
    BY NewUnitType
  <2>3. units' \in [Units -> UnitRec]
    BY <1>8, <2>1, <2>2 DEF DaemonReload, TypeOK
  <2> QED BY <1>1, <1>8, <2>3, SameJobsType, RequestsType
          DEF TypeOK, DaemonReload, Request
<1>9. ASSUME Shutdown
      PROVE  TypeOK'
  <2> DEFINE running == {u \in Units : units[u].active # "inactive"}
  <2>1. Loop("stop_all", NoUnit, 0, running, {}) \in Frame
    BY LoopType DEF Ops, UnitOps
  <2>2. stack' \in Seq(Frame)
    BY <1>9, <2>1, ProcessType, CallsType DEF Shutdown
  <2> QED BY <1>1, <1>9, <2>2, SameJobsType, RequestsType DEF TypeOK, Shutdown, Request
<1> QED BY <1>2, <1>3, <1>4, <1>5, <1>6, <1>7, <1>8, <1>9, RequestRestartType,
           RequestStartIgnoreType DEF RequestNext

\* FireTimer keeps TypeOK.
LEMMA FireTimerType ==
  ASSUME TypeOK, NEW u \in Units, NEW kind \in TimerKinds, FireTimer(u, kind)
  PROVE  TypeOK'
<1>1. JobsTypeOK /\ stack \in Seq(Frame)
  BY DEF TypeOK
<1>2. /\ <<UnitCall("do_start", u), Process>> \in Seq(Frame)
      /\ <<UnitCall("finalize", u)>> \in Seq(Frame)
  BY UnitCallType, ProcessType, CallsType DEF Ops, UnitOps
<1>3. stack' \in Seq(Frame)
  BY <1>1, <1>2, FailCallsType DEF FireTimer
<1>4. units' \in [Units -> UnitRec]
  BY MarkFailedType DEF FireTimer, TypeOK
<1>5. procs' \in [Pids -> Proc]
  BY ProcsType DEF FireTimer, TypeOK
<1> QED BY <1>1, <1>3, <1>4, <1>5, SameJobsType DEF TypeOK, FireTimer

\* A record whose processes are forgotten.
LEMMA ForgetType ==
  ASSUME NEW rec \in UnitRec
  PROVE  /\ [rec EXCEPT !.main_pid = NoPid, !.group_pid = NoPid] \in UnitRec
         /\ [rec EXCEPT !.control_pid = NoPid, !.group_pid = NoPid,
                        !.control_command = NoCommand] \in UnitRec
BY DEF UnitRec

\* The exit of the main process of an active service keeps TypeOK.
LEMMA ActiveExitType ==
  ASSUME TypeOK, NEW u \in Units, NEW rec \in UnitRec, NEW exit,
         HandleActiveExit(u, rec, exit)
  PROVE  /\ units' \in [Units -> UnitRec]
         /\ stack' \in Seq(Frame)
         /\ armed' \subseteq Units \X TimerKinds
<1>1. Set(rec, "failed", "failed") \in UnitRec /\ Set(rec, "activating", "auto-restart") \in UnitRec
  BY SetType DEF ActiveState, SubState
<1>2. Ended(rec, u) \in UnitRec
  BY EndedType
<1>3. \A recent \in 0 .. rec.start_window : recent \in Nat /\ recent + 1 \in Nat
  BY DEF UnitRec
<1>4. ASSUME NEW n \in Nat
      PROVE  /\ [Set(rec, "failed", "failed") EXCEPT !.start_window = n] \in UnitRec
             /\ [Set(rec, "activating", "auto-restart") EXCEPT !.start_window = n] \in UnitRec
  BY <1>1 DEF UnitRec
<1>5. units' \in [Units -> UnitRec]
  <2>1. \/ \E n \in Nat :
             \/ units' = [units EXCEPT ![u] =
                            [Set(rec, "failed", "failed") EXCEPT !.start_window = n]]
             \/ units' = [units EXCEPT ![u] =
                            [Set(rec, "activating", "auto-restart") EXCEPT !.start_window = n]]
        \/ units' = [units EXCEPT ![u] = Ended(rec, u)]
        \/ units' = [units EXCEPT ![u] = Set(rec, "failed", "failed")]
    BY <1>3 DEF HandleActiveExit, RecentStarts
  <2> QED BY <1>1, <1>2, <1>4, <2>1 DEF TypeOK
<1>6. /\ <<Poke(u)>> \in Seq(Frame)
      /\ <<Poke(u), Loop("on_failure", u, 0, OnFailure[u], {})>> \in Seq(Frame)
      /\ CompleteStart(u) \in Seq(Frame)
  BY WaitersType, LoopType, CallsType, FailCallsType, ConfigAssumption DEF Ops, UnitOps
<1>7. stack' \in Seq(Frame)
  <2>1. \/ stack' = <<Poke(u)>> \/ stack' = <<>> \/ stack' = CompleteStart(u)
        \/ stack' = <<Poke(u), Loop("on_failure", u, 0, OnFailure[u], {})>>
    BY DEF HandleActiveExit, RecentStarts
  <2>2. <<>> \in Seq(Frame)
    OBVIOUS
  <2> QED BY <1>6, <2>1, <2>2
<1>8. armed' \subseteq Units \X TimerKinds
  BY DEF HandleActiveExit, TypeOK, TimerKinds
<1> QED BY <1>5, <1>7, <1>8

\* MainExit keeps TypeOK.
LEMMA MainExitType ==
  ASSUME TypeOK, NEW u \in Units, NEW ps \in [Pids -> Proc], NEW exit, MainExit(u, ps, exit)
  PROVE  /\ units' \in [Units -> UnitRec]
         /\ stack' \in Seq(Frame)
         /\ armed' \subseteq Units \X TimerKinds
         /\ procs' \in [Pids -> Proc]
<1> DEFINE rec == MainGone(units[u])
<1>1. rec \in UnitRec
  BY ForgetType DEF TypeOK, MainGone
<1>2. ASSUME NEW p \in Pids, ps[p].st \in Alive
      PROVE  [ps[p] EXCEPT !.st = "killed"] \in Proc
  BY <1>2 DEF Proc, ProcState, Alive
<1>3. procs' \in [Pids -> Proc]
  BY <1>2 DEF MainExit
<1> HIDE DEF rec
<1>4. \/ /\ units' = [units EXCEPT ![u] = rec]
         /\ stack' = <<UnitCall("finalize", u)>>
         /\ UNCHANGED armed
      \/ /\ units' = [units EXCEPT ![u] = Set(rec, "inactive", "dead")]
         /\ stack' = <<>>
         /\ UNCHANGED armed
      \/ /\ units' = [units EXCEPT ![u] = Set(rec, "failed", "failed")]
         /\ stack' = FailCalls(u)
         /\ UNCHANGED armed
      \/ HandleActiveExit(u, rec, exit)
  BY DEF MainExit, rec
<1>5. Set(rec, "inactive", "dead") \in UnitRec /\ Set(rec, "failed", "failed") \in UnitRec
  BY <1>1, SetType DEF ActiveState, SubState
<1>6. <<UnitCall("finalize", u)>> \in Seq(Frame) /\ <<>> \in Seq(Frame)
  BY UnitCallType, CallsType DEF Ops, UnitOps
<1>7. CASE HandleActiveExit(u, rec, exit)
  BY <1>1, <1>3, <1>7, ActiveExitType
<1>8. CASE ~HandleActiveExit(u, rec, exit)
  <2>1. armed' = armed /\ stack' \in Seq(Frame)
    BY <1>4, <1>6, <1>8, FailCallsType
  <2>2. units' \in [Units -> UnitRec]
    BY <1>1, <1>4, <1>5, <1>8 DEF TypeOK
  <2> QED BY <1>3, <2>1, <2>2 DEF TypeOK
<1> QED BY <1>7, <1>8

\* ControlExit keeps TypeOK.
LEMMA ControlExitType ==
  ASSUME TypeOK, NEW u \in Units, NEW ps \in [Pids -> Proc], NEW exit,
         ControlExit(u, ps, exit)
  PROVE  /\ units' \in [Units -> UnitRec]
         /\ stack' \in Seq(Frame)
         /\ armed' = armed /\ procs' = ps
<1> DEFINE rec == ControlGone(units[u])
           next == units[u].cmd_index + 1
<1>1. rec \in UnitRec /\ next \in Nat
  <2>1. units[u] \in UnitRec
    BY DEF TypeOK
  <2>2. next \in Nat
    BY <2>1 DEF UnitRec
  <2> QED BY <2>1, <2>2, ForgetType DEF ControlGone
<1>2. /\ Ended(rec, u) \in UnitRec
      /\ Set(rec, "failed", "failed") \in UnitRec
      /\ Set(rec, "active", "running") \in UnitRec
  BY <1>1, SetType, EndedType DEF ActiveState, SubState
<1>3. /\ [rec EXCEPT !.cmd_index = next] \in UnitRec
      /\ [rec EXCEPT !.cmd_index = 0] \in UnitRec
      /\ [Ended(rec, u) EXCEPT !.cmd_index = 0] \in UnitRec
  <2> HIDE DEF rec, next
  <2> QED BY <1>1, <1>2 DEF UnitRec
<1>4. /\ <<>> \in Seq(Frame) /\ <<UnitCall("finalize", u)>> \in Seq(Frame)
      /\ <<Spawn(u, "Start", 0)>> \in Seq(Frame) /\ <<Spawn(u, "Start", next)>> \in Seq(Frame)
      /\ <<Spawn(u, "StartPost", 0)>> \in Seq(Frame)
  BY <1>1, SpawnType, UnitCallType, CallsType DEF ControlCommand, Ops, UnitOps
<1> HIDE DEF rec, next
<1>5. \/ units' = [units EXCEPT ![u] = rec]
      \/ units' = [units EXCEPT ![u] = [rec EXCEPT !.cmd_index = next]]
      \/ units' = [units EXCEPT ![u] = [rec EXCEPT !.cmd_index = 0]]
      \/ units' = [units EXCEPT ![u] = [Ended(rec, u) EXCEPT !.cmd_index = 0]]
      \/ units' = [units EXCEPT ![u] = Set(rec, "failed", "failed")]
      \/ units' = [units EXCEPT ![u] = Ended(rec, u)]
      \/ units' = [units EXCEPT ![u] = Set(rec, "active", "running")]
  BY DEF ControlExit, rec, next
<1>6. \/ stack' = <<>> \/ stack' = <<UnitCall("finalize", u)>>
      \/ stack' = <<Spawn(u, "Start", 0)>> \/ stack' = <<Spawn(u, "Start", next)>>
      \/ stack' = <<Spawn(u, "StartPost", 0)>> \/ stack' = FailCalls(u)
      \/ stack' = CompleteStart(u)
  BY DEF ControlExit, next
<1>7. units' \in [Units -> UnitRec]
  BY <1>1, <1>2, <1>3, <1>5 DEF TypeOK
<1>8. stack' \in Seq(Frame)
  BY <1>4, <1>6, FailCallsType
<1> QED BY <1>7, <1>8 DEF ControlExit

\* ForkedDaemon keeps TypeOK.
LEMMA ForkedDaemonType ==
  ASSUME TypeOK, NEW u \in Units, NEW ps \in [Pids -> Proc], NEW d \in Pids,
         ForkedDaemon(u, ps, d)
  PROVE  /\ units' \in [Units -> UnitRec]
         /\ stack' \in Seq(Frame)
         /\ armed' = armed /\ procs' \in [Pids -> Proc]
<1> DEFINE up == Set(ControlGone(units[u]), "active", "running")
           rec == [up EXCEPT !.main_pid = d]
<1>1. up \in UnitRec
  <2>1. ControlGone(units[u]) \in UnitRec
    BY ForgetType DEF TypeOK, ControlGone
  <2> QED BY <2>1, SetType DEF ActiveState, SubState
<1>2. rec \in UnitRec
  <2> HIDE DEF up
  <2> QED BY <1>1 DEF UnitRec
<1>3. units' = [units EXCEPT ![u] = rec]
  BY DEF ForkedDaemon
<1>4. units' \in [Units -> UnitRec]
  <2> HIDE DEF rec
  <2> QED BY <1>2, <1>3 DEF TypeOK
<1>5. procs' \in [Pids -> Proc]
  BY DEF ForkedDaemon, Proc, ProcState, Alive
<1> QED BY <1>4, <1>5, FailCallsType DEF ForkedDaemon

\* Reap keeps TypeOK.
LEMMA ReapType ==
  ASSUME TypeOK, NEW p \in Pids, Reap(p)
  PROVE  TypeOK'
<1> DEFINE u == procs[p].unit
           ps == [procs EXCEPT ![p] = [st |-> "free", unit |-> NoUnit]]
<1>1. JobsTypeOK
  BY DEF TypeOK
<1>2. u \in Units
  BY DEF Reap, TypeOK, Proc, Exits
<1>3. ps \in [Pids -> Proc]
  BY DEF TypeOK, Proc, ProcState
<1>4. CASE Panic
  BY <1>1, <1>4, SameJobsType DEF TypeOK, Reap, Panic, engineVars
<1>5. CASE ~Panic
  <2>1. /\ \/ ControlExit(u, ps, procs[p].st)
           \/ \E d \in Pids \ {p} : ForkedDaemon(u, ps, d)
           \/ MainExit(u, ps, procs[p].st)
        /\ UNCHANGED <<engineVars, notify, shutting_down, status, requests>>
    BY <1>5 DEF Reap
  <2>2. /\ units' \in [Units -> UnitRec] /\ stack' \in Seq(Frame)
        /\ armed' \subseteq Units \X TimerKinds /\ procs' \in [Pids -> Proc]
    <3> HIDE DEF ps, u
    <3> QED BY <1>2, <1>3, <2>1, ControlExitType, ForkedDaemonType, MainExitType DEF TypeOK
  <2> QED BY <1>1, <2>1, <2>2, SameJobsType DEF TypeOK
<1> QED BY <1>4, <1>5

\* Every event of the loop keeps TypeOK.
LEMMA EventNextType ==
  ASSUME TypeOK, EventNext
  PROVE  TypeOK'
<1>1. JobsTypeOK /\ stack \in Seq(Frame)
  BY DEF TypeOK
<1>2. ASSUME NEW p \in Pids, NEW exit \in Exits, ChildExits(p, exit)
      PROVE  TypeOK'
  <2>1. [procs[p] EXCEPT !.st = exit] \in Proc
    BY <1>2 DEF ChildExits, TypeOK, Proc, ProcState, Alive, Exits
  <2>2. procs' \in [Pids -> Proc]
    BY <1>2, <2>1 DEF ChildExits, TypeOK
  <2> QED BY <1>1, <1>2, <2>2, SameJobsType DEF TypeOK, ChildExits
<1>3. ASSUME NEW p \in Pids, NEW mainpid \in {p, NoPid}, SendReady(p, mainpid)
      PROVE  TypeOK'
  <2>1. procs[p].unit \in Units
    BY <1>3 DEF SendReady, TypeOK, Proc
  <2>2. notify' \subseteq [unit : Units, pid : Pids \cup {NoPid}]
    BY <1>3, <2>1 DEF SendReady, TypeOK
  <2> QED BY <1>1, <1>3, <2>2, SameJobsType DEF TypeOK, SendReady
<1>4. ASSUME NEW m \in notify, HandleNotify(m)
      PROVE  TypeOK'
  <2>1. ReadyTargets(m) \subseteq Units
    BY DEF ReadyTargets, Candidates
  <2>2. units' \in [Units -> UnitRec]
    BY <1>4, <2>1, SetType DEF HandleNotify, TypeOK, ActiveState, SubState
  <2>3. stack' \in Seq(Frame)
    BY <1>1, <1>4, <2>1, FailCallsType DEF HandleNotify
  <2> QED BY <1>1, <1>4, <2>2, <2>3, SameJobsType DEF TypeOK, HandleNotify
<1>5. ASSUME Tick
      PROVE  TypeOK'
  <2>1. stack' \in Seq(Frame)
    BY <1>5, ProcessType, CallsType DEF Tick
  <2> QED BY <1>1, <1>5, <2>1, SameJobsType DEF TypeOK, Tick, outside
<1>6. ASSUME Exit
      PROVE  TypeOK'
  BY <1>1, <1>6, SameJobsType DEF TypeOK, Exit
<1> QED BY <1>2, <1>3, <1>4, <1>5, <1>6, FireTimerType, ReapType DEF EventNext

\* Init satisfies the type invariant.
LEMMA InitType == Init => TypeOK
<1> SUFFICES ASSUME Init PROVE TypeOK
  OBVIOUS
<1>1. units \in [Units -> UnitRec]
  BY NewUnitType DEF Init
<1>2. JobsTypeOK
  BY DEF Init, Idle, JobsTypeOK
<1>3. procs \in [Pids -> Proc]
  BY DEF Init, Idle, Proc, ProcState
<1>4. stack \in Seq(Frame)
  BY DEF Init, Idle
<1> QED BY <1>1, <1>2, <1>3, <1>4 DEF Init, Idle, TypeOK

\* Every step of the manager keeps its state well-typed.
LEMMA NextType == TypeOK /\ [Next]_managerVars => TypeOK'
<1> SUFFICES ASSUME TypeOK, [Next]_managerVars PROVE TypeOK'
  OBVIOUS
<1>1. CASE RequestNext
  BY <1>1, RequestNextType
<1>2. CASE EventNext
  BY <1>2, EventNextType
<1>3. CASE CallNext
  BY <1>3, EngineType, ServiceNextType DEF CallNext
<1>4. CASE UNCHANGED managerVars
  BY <1>4 DEF TypeOK, JobsTypeOK, managerVars, vars
<1> QED BY <1>1, <1>2, <1>3, <1>4 DEF Next

\* In every configuration the tables of the manager only hold what they are
\* declared to hold, and every pending call about a unit names one.
THEOREM TypeCorrect == Spec => []TypeOK
BY InitType, NextType, PTL DEF Spec

-----------------------------------------------------------------------------
(* Processes.  NoStalePid alone is not inductive: the exit of a control     *)
(* process clears control_pid and group_pid but not main_pid, so a unit's   *)
(* main process must never also be its control process.                    *)

PidInv ==
  /\ NoStalePid
  /\ \A u \in Units : units[u].main_pid = NoPid \/ units[u].main_pid # units[u].control_pid

\* A step that records no process and frees none
RecordsKept ==
  \A u \in Units : /\ units'[u].main_pid \in {units[u].main_pid, NoPid}
                   /\ units'[u].control_pid \in {units[u].control_pid, NoPid}
                   /\ units'[u].group_pid \in {units[u].group_pid, NoPid}
ProcsKept(P) ==
  \A p \in P : /\ procs'[p].unit = procs[p].unit
               /\ procs[p].st # "free" => procs'[p].st # "free"

\* The invariant survives a step that records nothing and frees nothing.
LEMMA KeptStep ==
  ASSUME TypeOK, PidInv, RecordsKept, ProcsKept(Pids)
  PROVE  PidInv'
<1>1. NoStalePid'
  <2> SUFFICES ASSUME NEW u \in Units,
                      NEW p \in {units'[u].main_pid, units'[u].control_pid,
                                 units'[u].group_pid} \ {NoPid}
               PROVE  procs'[p].st # "free" /\ procs'[p].unit = u
    BY DEF NoStalePid
  <2>1. p \in {units[u].main_pid, units[u].control_pid, units[u].group_pid} \ {NoPid}
    BY DEF RecordsKept
  <2>2. p \in Pids
    BY <2>1 DEF TypeOK, UnitRec
  <2> QED BY <2>1, <2>2 DEF PidInv, NoStalePid, ProcsKept
<1>2. \A u \in Units : units'[u].main_pid = NoPid \/ units'[u].main_pid # units'[u].control_pid
  BY DEF PidInv, RecordsKept
<1> QED BY <1>1, <1>2 DEF PidInv

\* It survives the reaping of p when p's unit has forgotten p.
LEMMA ReapedStep ==
  ASSUME TypeOK, PidInv, NEW p \in Pids, RecordsKept, ProcsKept(Pids \ {p}),
         LET u == procs[p].unit IN
           p \notin {units'[u].main_pid, units'[u].control_pid, units'[u].group_pid}
  PROVE  PidInv'
<1>1. NoStalePid'
  <2> SUFFICES ASSUME NEW v \in Units,
                      NEW q \in {units'[v].main_pid, units'[v].control_pid,
                                 units'[v].group_pid} \ {NoPid}
               PROVE  procs'[q].st # "free" /\ procs'[q].unit = v
    BY DEF NoStalePid
  <2>1. q \in {units[v].main_pid, units[v].control_pid, units[v].group_pid} \ {NoPid}
    BY DEF RecordsKept
  <2>2. q \in Pids
    BY <2>1 DEF TypeOK, UnitRec
  <2>3. procs[q].st # "free" /\ procs[q].unit = v
    BY <2>1 DEF PidInv, NoStalePid
  <2>4. q # p
    BY <2>3
  <2> QED BY <2>2, <2>3, <2>4 DEF ProcsKept
<1>2. \A u \in Units : units'[u].main_pid = NoPid \/ units'[u].main_pid # units'[u].control_pid
  BY DEF PidInv, RecordsKept
<1> QED BY <1>1, <1>2 DEF PidInv

\* Signals do not free a process.
LEMMA SignalledKept ==
  ASSUME TypeOK, NEW P, NEW st \in {"termed", "killed"}, procs' = Signalled(P, st)
  PROVE  ProcsKept(Pids)
BY DEF Signalled, ProcsKept, TypeOK, Proc

\* A step that changes neither recorded pids nor processes keeps PidInv.
LEMMA SameKept ==
  /\ UNCHANGED units => RecordsKept
  /\ UNCHANGED procs => \A P : ProcsKept(P)
BY DEF RecordsKept, ProcsKept

\* A unit's new record, that has no processes the old one had not.
LEMMA RecordKept ==
  ASSUME TypeOK, NEW u \in Units, NEW rec, units' = [units EXCEPT ![u] = rec],
         rec.main_pid \in {units[u].main_pid, NoPid},
         rec.control_pid \in {units[u].control_pid, NoPid},
         rec.group_pid \in {units[u].group_pid, NoPid}
  PROVE  RecordsKept
BY DEF RecordsKept, TypeOK

\* Two records with the same processes
SamePids(r, rec) ==
  /\ r.main_pid = rec.main_pid
  /\ r.control_pid = rec.control_pid
  /\ r.group_pid = rec.group_pid

\* set_active and the counters leave the processes alone.
LEMMA SetKept ==
  ASSUME NEW rec \in UnitRec, NEW active, NEW sub, NEW u, NEW n
  PROVE  /\ SamePids(Set(rec, active, sub), rec)
         /\ SamePids(Ended(rec, u), rec)
         /\ SamePids([rec EXCEPT !.cmd_index = n], rec)
         /\ SamePids([Ended(rec, u) EXCEPT !.cmd_index = n], rec)
         /\ SamePids([Set(rec, active, sub) EXCEPT !.start_window = n], rec)
<1>1. SamePids(Set(rec, active, sub), rec) /\ SamePids(Ended(rec, u), rec)
  BY DEF SamePids, Set, UnitRec, Ended
<1>2. SamePids([rec EXCEPT !.cmd_index = n], rec)
  BY DEF SamePids, UnitRec
<1>3. SamePids([Set(rec, active, sub) EXCEPT !.start_window = n], rec)
  BY DEF SamePids, Set, UnitRec
<1>4. SamePids([Ended(rec, u) EXCEPT !.cmd_index = n], rec)
  BY DEF SamePids, Set, UnitRec, Ended
<1> QED BY <1>1, <1>2, <1>3, <1>4

\* Changing only the state of a unit keeps the pids it records.
LEMMA SetUnitKept ==
  ASSUME TypeOK, NEW u \in Units, NEW active, NEW sub,
         units' = [units EXCEPT ![u] = Set(@, active, sub)]
  PROVE  RecordsKept
<1> DEFINE rec == Set(units[u], active, sub)
<1>1. units[u] \in UnitRec /\ units' = [units EXCEPT ![u] = rec]
  BY DEF TypeOK
<1>2. SamePids(rec, units[u])
  BY <1>1, SetKept
<1> HIDE DEF rec
<1> QED BY <1>1, <1>2, RecordKept DEF SamePids

\* Marking a unit failed keeps the pids it records.
LEMMA MarkFailedKept ==
  ASSUME TypeOK, NEW u \in Units, MarkFailed(u)
  PROVE  RecordsKept
BY SetUnitKept DEF MarkFailed

-----------------------------------------------------------------------------
(* The steps that record a process.                                        *)

\* A new child is none of the processes on record: it was free.
LEMMA FreshPid ==
  ASSUME PidInv, NEW u \in Units, NEW p \in Pids, procs[p].st = "free"
  PROVE  p \notin {units[u].main_pid, units[u].control_pid, units[u].group_pid}
BY UnitsAssumption DEF PidInv, NoStalePid

\* A spawned child gets a free pid, which no unit records.
LEMMA SpawnedStep ==
  ASSUME TypeOK, PidInv, NEW u \in Units, NEW p \in Pids, procs[p].st = "free", NEW cmd,
         Spawned(u, cmd, p)
  PROVE  PidInv'
<1> DEFINE rec == units'[u]
<1>1. /\ \A v \in Units \ {u} : units'[v] = units[v]
      /\ rec.main_pid \in {units[u].main_pid, p}
      /\ rec.control_pid \in {NoPid, p}
      /\ rec.control_pid = p => rec.main_pid = units[u].main_pid
      /\ rec.group_pid = p
  <2> DEFINE old == [units[u] EXCEPT !.group_pid = p, !.cgroup = UseCgroup]
             up == [Set(old, "active", "running") EXCEPT !.main_pid = p,
                      !.control_pid = NoPid, !.control_command = NoCommand]
             waiting == [old EXCEPT !.main_pid = p, !.control_pid = NoPid,
                           !.control_command = NoCommand]
             sub == IF cmd = "Start" /\ ServiceType[u] = "oneshot" THEN "start" ELSE old.sub
             control == [old EXCEPT !.control_pid = p, !.control_command = cmd, !.sub = sub]
  <2>1. units[u] \in UnitRec
    BY DEF TypeOK
  <2>2. up.main_pid = p /\ up.control_pid = NoPid /\ up.group_pid = p
    BY <2>1 DEF UnitRec, Set
  <2>3. waiting.main_pid = p /\ waiting.control_pid = NoPid /\ waiting.group_pid = p
    BY <2>1 DEF UnitRec
  <2>4. /\ control.main_pid = units[u].main_pid /\ control.control_pid = p
        /\ control.group_pid = p
    <3> HIDE DEF sub
    <3> QED BY <2>1 DEF UnitRec
  <2>5. \/ units' = [units EXCEPT ![u] = up]
        \/ units' = [units EXCEPT ![u] = waiting]
        \/ units' = [units EXCEPT ![u] = control]
    BY DEF Spawned
  <2> HIDE DEF up, waiting, control
  <2> QED BY <2>2, <2>3, <2>4, <2>5, UnitsAssumption DEF TypeOK
<1>2. /\ \A q \in Pids \ {p} : procs'[q] = procs[q]
      /\ procs'[p].st = "running" /\ procs'[p].unit = u
  BY DEF Spawned, TypeOK
<1>3. \A v \in Units : \A q \in {units[v].main_pid, units[v].control_pid,
                                 units[v].group_pid} \ {NoPid} :
        q \in Pids \ {p} /\ procs[q].st # "free" /\ procs[q].unit = v
  BY FreshPid DEF PidInv, NoStalePid, TypeOK, UnitRec
<1>4. NoStalePid'
  BY <1>1, <1>2, <1>3 DEF NoStalePid
<1>5. \A v \in Units : units'[v].main_pid = NoPid \/ units'[v].main_pid # units'[v].control_pid
  BY <1>1, <1>3, UnitsAssumption DEF PidInv
<1> QED BY <1>4, <1>5 DEF PidInv

\* The end of a stage changes no recorded pid.
LEMMA StageDoneKept ==
  ASSUME TypeOK, NEW u \in Units, NEW cmd, NEW rec \in UnitRec,
         rec.main_pid = units[u].main_pid, rec.control_pid = units[u].control_pid,
         rec.group_pid = units[u].group_pid, StageDone(rec, u, cmd)
  PROVE  RecordsKept /\ ProcsKept(Pids)
<1>1. units' = [units EXCEPT ![u] = rec] \/ units' = [units EXCEPT ![u] = Ended(rec, u)]
  BY DEF StageDone
<1>2. RecordsKept
  BY <1>1, SetKept, RecordKept DEF SamePids
<1> QED BY <1>2, SameKept DEF StageDone

\* spawn_control records the child it made, or nothing when the spawn fails.
LEMMA SpawnControlStep ==
  ASSUME TypeOK, PidInv, SpawnControl
  PROVE  PidInv'
<1> DEFINE u == Top.unit
           cmd == Top.cmd
           rec == [units[u] EXCEPT !.cgroup = UseCgroup]
           free == {p \in Pids : procs[p].st = "free"}
<1>1. Calling("spawn")
  BY DEF SpawnControl
<1>2. u \in Units /\ units[u] \in UnitRec
  BY <1>1, CallType DEF UnitOps, TypeOK
<1>3. UseCgroup \in BOOLEAN
  BY ConfigAssumption
<1>4. /\ rec \in UnitRec
      /\ rec.main_pid = units[u].main_pid /\ rec.control_pid = units[u].control_pid
      /\ rec.group_pid = units[u].group_pid
  BY <1>2, <1>3 DEF UnitRec
<1>5. \/ StageDone(units[u], u, cmd)
      \/ StageDone(rec, u, cmd)
      \/ free # {} /\ Spawned(u, cmd, CHOOSE p \in free : TRUE)
      \/ units' = [units EXCEPT ![u] = Set(rec, "failed", "failed")] /\ UNCHANGED procs
      \/ MarkFailed(u) /\ UNCHANGED procs
  BY DEF SpawnControl
<1> HIDE DEF rec, cmd
<1>6. CASE StageDone(units[u], u, cmd) \/ StageDone(rec, u, cmd)
  BY <1>2, <1>4, <1>6, StageDoneKept, KeptStep
<1>7. CASE free # {} /\ Spawned(u, cmd, CHOOSE p \in free : TRUE)
  <2> DEFINE p == CHOOSE x \in free : TRUE
  <2>1. p \in Pids /\ procs[p].st = "free"
    BY <1>7
  <2> HIDE DEF p, free
  <2> QED BY <1>2, <1>7, <2>1, SpawnedStep DEF p
<1>8. CASE units' = [units EXCEPT ![u] = Set(rec, "failed", "failed")] /\ UNCHANGED procs
  <2>1. RecordsKept
    <3>1. SamePids(Set(rec, "failed", "failed"), rec)
      BY <1>4, SetKept
    <3> QED BY <1>2, <1>4, <1>8, <3>1, RecordKept DEF SamePids
  <2> QED BY <1>8, <2>1, SameKept, KeptStep
<1>9. CASE MarkFailed(u) /\ UNCHANGED procs
  BY <1>2, <1>9, MarkFailedKept, SameKept, KeptStep
<1> QED BY <1>5, <1>6, <1>7, <1>8, <1>9

\* The forked daemon of a PIDFile= becomes the main process of its unit.
LEMMA ForkedStep ==
  ASSUME TypeOK, PidInv, NEW p \in Pids, NEW d \in Pids \ {p}, NEW u \in Units,
         u = procs[p].unit,
         ForkedDaemon(u, [procs EXCEPT ![p] = [st |-> "free", unit |-> NoUnit]], d)
  PROVE  PidInv'
<1> DEFINE rec == units'[u]
<1>1. /\ \A v \in Units \ {u} : units'[v] = units[v]
      /\ rec.main_pid = d /\ rec.control_pid = NoPid /\ rec.group_pid = NoPid
  BY DEF ForkedDaemon, ControlGone, TypeOK, UnitRec, Set
<1>2. /\ procs[d].st = "free"
      /\ procs'[d].st = "running" /\ procs'[d].unit = u
      /\ \A q \in Pids \ {p, d} : procs'[q] = procs[q]
  BY DEF ForkedDaemon, TypeOK
<1>3. \A v \in Units \ {u} : \A q \in {units[v].main_pid, units[v].control_pid,
                                       units[v].group_pid} \ {NoPid} :
        q \in Pids \ {p, d} /\ procs[q].st # "free" /\ procs[q].unit = v
  BY <1>2, FreshPid DEF PidInv, NoStalePid, TypeOK, UnitRec
<1>4. NoStalePid'
  BY <1>1, <1>2, <1>3 DEF NoStalePid
<1>5. \A v \in Units : units'[v].main_pid = NoPid \/ units'[v].main_pid # units'[v].control_pid
  BY <1>1, UnitsAssumption DEF PidInv
<1> QED BY <1>4, <1>5 DEF PidInv

-----------------------------------------------------------------------------
(* The exit of a child.                                                    *)

\* The pid of a reaped control process is forgotten by its unit.
LEMMA ControlExitStep ==
  ASSUME TypeOK, PidInv, NEW p \in Pids, NEW exit, NEW u \in Units, u = procs[p].unit,
         units[u].control_pid = p,
         ControlExit(u, [procs EXCEPT ![p] = [st |-> "free", unit |-> NoUnit]], exit)
  PROVE  PidInv'
<1> DEFINE rec == ControlGone(units[u])
           next == units[u].cmd_index + 1
           new == units'[u]
<1>1. units[u] \in UnitRec
  BY DEF TypeOK
<1>2. rec \in UnitRec
  BY <1>1, ForgetType DEF ControlGone
<1>3. rec.main_pid = units[u].main_pid /\ rec.control_pid = NoPid /\ rec.group_pid = NoPid
  BY <1>1 DEF UnitRec, ControlGone
<1> HIDE DEF rec, next
<1>4. PICK r : units' = [units EXCEPT ![u] = r] /\ SamePids(r, rec)
  <2>1. \/ units' = [units EXCEPT ![u] = rec]
        \/ units' = [units EXCEPT ![u] = [rec EXCEPT !.cmd_index = next]]
        \/ units' = [units EXCEPT ![u] = [rec EXCEPT !.cmd_index = 0]]
        \/ units' = [units EXCEPT ![u] = [Ended(rec, u) EXCEPT !.cmd_index = 0]]
        \/ units' = [units EXCEPT ![u] = Set(rec, "failed", "failed")]
        \/ units' = [units EXCEPT ![u] = Ended(rec, u)]
        \/ units' = [units EXCEPT ![u] = Set(rec, "active", "running")]
    BY DEF ControlExit, rec, next
  <2>2. SamePids(rec, rec)
    BY DEF SamePids
  <2>3. SamePids([rec EXCEPT !.cmd_index = next], rec) /\ SamePids([rec EXCEPT !.cmd_index = 0], rec)
    BY <1>2, SetKept
  <2>4. SamePids(Ended(rec, u), rec) /\ SamePids([Ended(rec, u) EXCEPT !.cmd_index = 0], rec)
    BY <1>2, SetKept
  <2>5. SamePids(Set(rec, "failed", "failed"), rec) /\ SamePids(Set(rec, "active", "running"), rec)
    BY <1>2, SetKept
  <2> QED BY <2>1, <2>2, <2>3, <2>4, <2>5, Zenon
<1>5. /\ \A v \in Units \ {u} : units'[v] = units[v]
      /\ new.main_pid = units[u].main_pid /\ new.control_pid = NoPid /\ new.group_pid = NoPid
  BY <1>3, <1>4 DEF TypeOK, SamePids
<1>6. RecordsKept
  BY <1>5 DEF RecordsKept
<1>7. ProcsKept(Pids \ {p})
  BY DEF ControlExit, ProcsKept, TypeOK
<1>8. p \notin {new.main_pid, new.control_pid, new.group_pid}
  BY <1>5, UnitsAssumption DEF PidInv
<1> QED BY <1>6, <1>7, <1>8, ReapedStep

\* The pid of a reaped main process is forgotten by its unit.
LEMMA MainExitStep ==
  ASSUME TypeOK, PidInv, NEW p \in Pids, NEW exit, NEW u \in Units, u = procs[p].unit,
         units[u].control_pid # p,
         MainExit(u, [procs EXCEPT ![p] = [st |-> "free", unit |-> NoUnit]], exit)
  PROVE  PidInv'
<1> DEFINE ps == [procs EXCEPT ![p] = [st |-> "free", unit |-> NoUnit]]
           rec == MainGone(units[u])
           new == units'[u]
<1>1. units[u] \in UnitRec
  BY DEF TypeOK
<1>2. rec \in UnitRec
  BY <1>1, ForgetType DEF MainGone
<1>3. rec.main_pid = NoPid /\ rec.control_pid = units[u].control_pid /\ rec.group_pid = NoPid
  BY <1>1 DEF UnitRec, MainGone
<1> HIDE DEF rec
<1>4. PICK r : units' = [units EXCEPT ![u] = r] /\ SamePids(r, rec)
  <2>1. \/ units' = [units EXCEPT ![u] = rec]
        \/ units' = [units EXCEPT ![u] = Set(rec, "inactive", "dead")]
        \/ units' = [units EXCEPT ![u] = Set(rec, "failed", "failed")]
        \/ HandleActiveExit(u, rec, exit)
    BY DEF MainExit, rec
  <2>2. CASE HandleActiveExit(u, rec, exit)
    <3>1. \/ units' = [units EXCEPT ![u] = Ended(rec, u)]
          \/ units' = [units EXCEPT ![u] = Set(rec, "failed", "failed")]
          \/ \E recent \in 0 .. rec.start_window :
               \/ units' = [units EXCEPT ![u] =
                              [Set(rec, "failed", "failed") EXCEPT !.start_window = recent]]
               \/ units' = [units EXCEPT ![u] =
                              [Set(rec, "activating", "auto-restart") EXCEPT
                                 !.start_window = recent + 1]]
      BY <2>2 DEF HandleActiveExit, RecentStarts
    <3>2. ASSUME NEW n
          PROVE  /\ SamePids([Set(rec, "failed", "failed") EXCEPT !.start_window = n], rec)
                 /\ SamePids([Set(rec, "activating", "auto-restart") EXCEPT
                                !.start_window = n], rec)
      BY <1>2, SetKept
    <3>3. SamePids(Ended(rec, u), rec) /\ SamePids(Set(rec, "failed", "failed"), rec)
      BY <1>2, SetKept
    <3> QED BY <3>1, <3>2, <3>3
  <2>3. SamePids(rec, rec)
    BY DEF SamePids
  <2> QED BY <1>2, <2>1, <2>2, <2>3, SetKept, Zenon
<1>5. /\ \A v \in Units \ {u} : units'[v] = units[v]
      /\ new.main_pid = NoPid /\ new.control_pid = units[u].control_pid
      /\ new.group_pid = NoPid
  BY <1>3, <1>4 DEF TypeOK, SamePids
<1>6. RecordsKept
  BY <1>5 DEF RecordsKept
<1>7. ProcsKept(Pids \ {p})
  <2>1. \A q \in Pids : procs'[q] = ps[q] \/ procs'[q] = [ps[q] EXCEPT !.st = "killed"]
    BY DEF MainExit
  <2>2. \A q \in Pids \ {p} : ps[q] = procs[q] /\ procs[q] \in Proc
    BY DEF TypeOK
  <2> HIDE DEF ps
  <2>3. ASSUME NEW q \in Pids \ {p}
        PROVE  /\ procs'[q].unit = procs[q].unit
               /\ procs[q].st # "free" => procs'[q].st # "free"
    <3>1. CASE procs'[q] = procs[q]
      BY <3>1
    <3>2. CASE procs'[q] = [procs[q] EXCEPT !.st = "killed"]
      BY <2>2, <3>2 DEF Proc
    <3> QED BY <2>1, <2>2, <3>1, <3>2
  <2> QED BY <2>3 DEF ProcsKept
<1>8. p \notin {new.main_pid, new.control_pid, new.group_pid}
  BY <1>5, UnitsAssumption
<1> QED BY <1>6, <1>7, <1>8, ReapedStep

\* A reaped pid is recorded nowhere, so the kernel may reuse it.
LEMMA ReapStep ==
  ASSUME TypeOK, PidInv, NEW p \in Pids, Reap(p)
  PROVE  PidInv'
<1> DEFINE u == procs[p].unit
<1>1. u \in Units
  BY DEF Reap, TypeOK, Proc, Exits
<1>2. CASE Panic
  BY <1>2, SameKept, KeptStep DEF Panic
<1>3. CASE ~Panic
  BY <1>1, <1>3, ControlExitStep, MainExitStep, ForkedStep DEF Reap
<1> QED BY <1>2, <1>3

-----------------------------------------------------------------------------
(* The other steps keep the processes or forget them.                      *)

\* do_start begins without recorded pids of the previous run, or keeps live
\* ones.
LEMMA DoStartKept ==
  ASSUME TypeOK, DoStart
  PROVE  RecordsKept
<1> DEFINE u == Top.unit
           up == Set(units[u], "activating", "start-pre")
           rec == [up EXCEPT !.main_pid = NoPid, !.group_pid = NoPid,
                     !.control_pid = NoPid, !.control_command = NoCommand,
                     !.cmd_index = 0]
<1>1. Calling("do_start")
  BY DEF DoStart
<1>2. u \in Units /\ units[u] \in UnitRec
  BY <1>1, CallType DEF UnitOps, TypeOK
<1>3. rec.main_pid = NoPid /\ rec.control_pid = NoPid /\ rec.group_pid = NoPid
  BY <1>2 DEF UnitRec, Set
<1>4. \/ UNCHANGED units
      \/ units' = [units EXCEPT ![u] = Set(@, "active", "dead")]
      \/ units' = [units EXCEPT ![u] = rec]
  BY DEF DoStart
<1> HIDE DEF rec
<1> QED BY <1>2, <1>3, <1>4, SameKept, SetUnitKept, RecordKept

\* finalize_stop forgets pids and records none.
LEMMA FinalizeKept ==
  ASSUME TypeOK, FinalizeStop
  PROVE  RecordsKept
<1> DEFINE u == Top.unit
           rec == [Set(units[u], "inactive", "dead") EXCEPT
                     !.main_pid = NoPid, !.group_pid = NoPid, !.cgroup = FALSE,
                     !.control_pid = NoPid, !.control_command = NoCommand,
                     !.cmd_index = 0]
<1>1. Calling("finalize")
  BY DEF FinalizeStop
<1>2. u \in Units /\ units[u] \in UnitRec
  BY <1>1, CallType DEF UnitOps, TypeOK
<1>3. rec.main_pid = NoPid /\ rec.control_pid = NoPid /\ rec.group_pid = NoPid
  BY <1>2 DEF UnitRec, Set
<1>4. units' = [units EXCEPT ![u] = rec]
  BY DEF FinalizeStop
<1> HIDE DEF rec
<1> QED BY <1>2, <1>3, <1>4, RecordKept

\* start changes no recorded pid.
LEMMA StartUnitKept ==
  ASSUME TypeOK, StartUnit
  PROVE  RecordsKept
<1>1. Calling("start")
  BY DEF StartUnit
<1>2. Top.unit \in Units
  BY <1>1, CallType DEF UnitOps
<1>3. UNCHANGED units \/ units' = [units EXCEPT ![Top.unit] = NewUnit(TRUE)]
  BY DEF StartUnit
<1> QED BY <1>2, <1>3, SameKept, RecordKept DEF NewUnit

\* maybe_start_job changes no recorded pid.
LEMMA MaybeStartKept ==
  ASSUME TypeOK, MaybeStartJob
  PROVE  RecordsKept
<1> DEFINE u == jobs[Top.id].unit
<1>1. CASE UNCHANGED units
  BY <1>1, SameKept
<1>2. CASE Top.id \in DOMAIN jobs /\ \E n : units' = [units EXCEPT ![u].start_window = n]
  <2>1. u \in Units /\ units[u] \in UnitRec
    BY <1>2 DEF TypeOK, JobsTypeOK, Job
  <2>2. PICK n : units' = [units EXCEPT ![u] = [units[u] EXCEPT !.start_window = n]]
    BY <1>2
  <2> DEFINE rec == [units[u] EXCEPT !.start_window = n]
  <2>3. SamePids(rec, units[u])
    BY <2>1 DEF SamePids, UnitRec
  <2> HIDE DEF rec
  <2> QED BY <2>1, <2>2, <2>3, RecordKept DEF SamePids, rec
<1> QED BY <1>1, <1>2 DEF MaybeStartJob, RecentStarts, Panic

\* do_stop signals processes and records only a control process it spawned.
LEMMA MaybeStopKept ==
  ASSUME TypeOK, MaybeStopJob
  PROVE  RecordsKept /\ ProcsKept(Pids)
<1> DEFINE u == jobs[Top.id].unit
<1>1. CASE UNCHANGED <<units, procs>>
  BY <1>1, SameKept
<1>2. CASE /\ Top.id \in DOMAIN jobs
           /\ \/ units' = [units EXCEPT ![u] = Set(@, "deactivating", "stop-sigterm")]
              \/ units' = [units EXCEPT ![u] = Set(@, "deactivating", "stop")]
           /\ procs' = Signalled(Tree(u), "termed") \/ UNCHANGED procs
  <2>1. u \in Units
    BY <1>2 DEF TypeOK, JobsTypeOK, Job
  <2> QED BY <1>2, <2>1, SetUnitKept, SignalledKept, SameKept
<1> QED BY <1>1, <1>2 DEF MaybeStopJob, DoStop, Panic, outside

\* Every call of the job engine and of the service code keeps PidInv.
LEMMA CallStep ==
  ASSUME TypeOK, PidInv, CallNext
  PROVE  PidInv'
<1>1. ASSUME \/ ProcessJobs \/ TryAdvanceJob \/ StopUnit \/ StopAll \/ ExpandConflicts
             \/ ExpandOpen \/ ExpandCommit \/ EnqueueStopJob \/ StopDependents
             \/ FinishJob \/ OnJobCompleted \/ PokeFailed \/ FireOnFailure
      PROVE  PidInv'
  <2>1. UNCHANGED <<units, procs>>
    BY <1>1 DEF ProcessJobs, TryAdvanceJob, StopUnit, StopAll, ExpandConflicts, ExpandOpen,
                ExpandCommit, EnqueueStopJob, StopDependents, FinishJob, OnJobCompleted,
                PokeFailed, FireOnFailure, unitVars, outside
  <2> QED BY <2>1, SameKept, KeptStep
<1>2. ASSUME StartUnit \/ MaybeStartJob \/ DoStart \/ FinalizeStop
      PROVE  PidInv'
  <2>1. UNCHANGED procs
    BY <1>2 DEF StartUnit, MaybeStartJob, DoStart, FinalizeStop, Panic, outside
  <2> QED BY <1>2, <2>1, StartUnitKept, MaybeStartKept, DoStartKept, FinalizeKept,
             SameKept, KeptStep
<1>3. ASSUME SetExited
      PROVE  PidInv'
  <2>1. Calling("set_exited") /\ UNCHANGED procs
    BY <1>3 DEF SetExited, outside
  <2>2. Top.unit \in Units
    BY <2>1, CallType DEF UnitOps
  <2> QED BY <1>3, <2>1, <2>2, SetUnitKept, SameKept, KeptStep DEF SetExited
<1>4. ASSUME EnqueueStart
      PROVE  PidInv'
  <2>1. Calling("enqueue_start") /\ UNCHANGED procs
    BY <1>4 DEF EnqueueStart, outside
  <2>2. Top.unit \in Units
    BY <2>1, CallType DEF UnitOps
  <2>3. UNCHANGED units \/ MarkFailed(Top.unit)
    BY <1>4 DEF EnqueueStart
  <2> QED BY <2>1, <2>2, <2>3, MarkFailedKept, SameKept, KeptStep
<1> QED BY <1>1, <1>2, <1>3, <1>4, MaybeStopKept, KeptStep, SpawnControlStep
        DEF CallNext, EngineNext, ServiceNext

\* A daemon-reload keeps or forgets the pids of a unit, never mixes them.
LEMMA DaemonReloadKept ==
  ASSUME TypeOK, DaemonReload
  PROVE  RecordsKept
<1>1. ASSUME NEW u \in Units
      PROVE  SamePids([units[u] EXCEPT !.cmd_index = 0, !.start_window = 0], units[u])
  BY DEF TypeOK, UnitRec, SamePids
<1>2. ASSUME NEW u \in Units
      PROVE  \/ units'[u] = NewUnit(FALSE) \/ units'[u] = NewUnit(TRUE)
             \/ units'[u] = [units[u] EXCEPT !.cmd_index = 0, !.start_window = 0]
  BY DEF DaemonReload
<1>3. \A loaded : /\ NewUnit(loaded).main_pid = NoPid /\ NewUnit(loaded).control_pid = NoPid
                  /\ NewUnit(loaded).group_pid = NoPid
  BY DEF NewUnit
<1>4. ASSUME NEW u \in Units
      PROVE  /\ units'[u].main_pid \in {units[u].main_pid, NoPid}
             /\ units'[u].control_pid \in {units[u].control_pid, NoPid}
             /\ units'[u].group_pid \in {units[u].group_pid, NoPid}
  <2> DEFINE r == [units[u] EXCEPT !.cmd_index = 0, !.start_window = 0]
  <2>1. SamePids(r, units[u])
    BY <1>1
  <2>2. units'[u] = NewUnit(FALSE) \/ units'[u] = NewUnit(TRUE) \/ units'[u] = r
    BY <1>2
  <2> HIDE DEF r
  <2> QED BY <1>3, <2>1, <2>2 DEF SamePids
<1> QED BY <1>4 DEF RecordsKept

\* Every request keeps PidInv.
LEMMA RequestPids ==
  ASSUME TypeOK, PidInv, RequestNext
  PROVE  PidInv'
<1>1. ASSUME \/ \E u \in Units :
                  \/ RequestStart(u) \/ RequestStop(u) \/ RequestRestart(u)
                  \/ RequestStartIgnore(u) \/ RequestReload(u) \/ RequestIsolate(u)
             \/ Shutdown
      PROVE  PidInv'
  <2>1. UNCHANGED <<units, procs>>
    BY <1>1 DEF RequestStart, RequestStop, RequestRestart, RequestStartIgnore,
                RequestReload, RequestIsolate, Shutdown, outside
  <2> QED BY <2>1, SameKept, KeptStep
<1>2. ASSUME NEW u \in Units, RequestResetFailed(u)
      PROVE  PidInv'
  BY <1>2, SetUnitKept, SameKept, KeptStep DEF RequestResetFailed, outside
<1>3. ASSUME NEW u \in Units, RequestKill(u)
      PROVE  PidInv'
  <2>1. UNCHANGED units
    BY <1>3 DEF RequestKill, Panic
  <2>2. ProcsKept(Pids)
    BY <1>3, SignalledKept, SameKept DEF RequestKill, Panic
  <2> QED BY <2>1, <2>2, SameKept, KeptStep
<1>4. ASSUME DaemonReload
      PROVE  PidInv'
  BY <1>4, DaemonReloadKept, SameKept, KeptStep DEF DaemonReload
<1> QED BY <1>1, <1>2, <1>3, <1>4 DEF RequestNext

\* Timers, exits, reaping and datagrams keep PidInv.
LEMMA EventPids ==
  ASSUME TypeOK, PidInv, EventNext
  PROVE  PidInv'
<1>1. ASSUME NEW u \in Units, NEW kind \in TimerKinds, FireTimer(u, kind)
      PROVE  PidInv'
  <2>1. RecordsKept
    BY <1>1, MarkFailedKept, SameKept DEF FireTimer
  <2>2. ProcsKept(Pids)
    BY <1>1, SignalledKept, SameKept DEF FireTimer
  <2> QED BY <2>1, <2>2, KeptStep
<1>2. ASSUME NEW p \in Pids, NEW exit \in Exits, ChildExits(p, exit)
      PROVE  PidInv'
  <2>1. ProcsKept(Pids)
    BY <1>2 DEF ChildExits, ProcsKept, TypeOK, Proc, Exits
  <2>2. UNCHANGED units
    BY <1>2 DEF ChildExits
  <2> QED BY <2>1, <2>2, SameKept, KeptStep
<1>3. ASSUME NEW m \in notify, HandleNotify(m)
      PROVE  PidInv'
  <2>1. ReadyTargets(m) \subseteq Units
    BY DEF ReadyTargets, Candidates
  <2>2. RecordsKept
    BY <1>3, <2>1, SetUnitKept, SameKept DEF HandleNotify
  <2> QED BY <1>3, <2>2, SameKept, KeptStep DEF HandleNotify
<1>4. ASSUME \/ Tick \/ Exit
             \/ \E p \in Pids : \E mainpid \in {p, NoPid} : SendReady(p, mainpid)
      PROVE  PidInv'
  <2>1. UNCHANGED <<units, procs>>
    BY <1>4 DEF Tick, Exit, SendReady, outside
  <2> QED BY <2>1, SameKept, KeptStep
<1> QED BY <1>1, <1>2, <1>3, <1>4, ReapStep DEF EventNext

\* Whatever the units, and whatever the order of spawns, exits, signals,
\* reloads and timeouts: a process id that a unit has on record is a child of
\* that unit that was not reaped yet.  So kill_tree and the group sweeps never
\* signal a process id the kernel may have given to someone else.
THEOREM NoStalePidCorrect == Spec => []NoStalePid
<1>1. Init => PidInv
  BY UnitsAssumption DEF Init, Idle, PidInv, NoStalePid, NewUnit
<1>2. TypeOK /\ PidInv /\ [Next]_managerVars => PidInv'
  <2> SUFFICES ASSUME TypeOK, PidInv, [Next]_managerVars PROVE PidInv'
    OBVIOUS
  <2>1. CASE Next
    BY <2>1, RequestPids, EventPids, CallStep DEF Next
  <2>2. CASE UNCHANGED managerVars
    BY <2>2, SameKept, KeptStep DEF managerVars, vars
  <2> QED BY <2>1, <2>2
<1>3. Spec => []PidInv
  BY <1>1, <1>2, TypeCorrect, PTL DEF Spec
<1>4. PidInv => NoStalePid
  BY DEF PidInv
<1> QED BY <1>3, <1>4, PTL

-----------------------------------------------------------------------------
(* The job table.  That no job is left waiting and that a shutdown makes no *)
(* Start job holds again once the calls under way have returned: both need  *)
(* an invariant over the calls still to be made.                            *)

\* Ids in the table were handed out, so that a new job never overwrites one
IndexInv ==
  /\ DOMAIN jobs \subseteq 1 .. next_job
  /\ JobIndex

\* What a step does to the job table, as a client of job_status sees it
LedgerStep == [Ledger!Next]_(Ledger!ledger)

-----------------------------------------------------------------------------
(* The primitives of the job table.                                        *)

\* new_job keeps the index and submits a job.
LEMMA NewJobStep ==
  ASSUME JobsTypeOK, IndexInv, NEW u \in Units, NEW kind, NEW irreversible, NEW after,
         NEW failed, NEW expanding,
         NewJob(u, kind, irreversible, after, failed, expanding)
  PROVE  IndexInv' /\ LedgerStep
<1>1. next_job \in Nat /\ next_job' = next_job + 1
  BY DEF JobsTypeOK, NewJob
<1>2. DOMAIN jobs' = DOMAIN jobs \cup {next_job'}
  BY DEF NewJob
<1>3. \A i \in DOMAIN jobs : i # next_job' /\ jobs'[i] = jobs[i]
  BY <1>1 DEF IndexInv, NewJob
<1>4. jobs'[next_job'].unit = u
  BY DEF NewJob
<1>5. \A v \in Units : unit_job'[v] = IF v = u THEN next_job' ELSE unit_job[v]
  BY DEF NewJob, JobsTypeOK
<1>6. DOMAIN jobs' \subseteq 1 .. next_job'
  BY <1>1, <1>2 DEF IndexInv
<1>7. JobIndex'
  BY <1>2, <1>3, <1>4, <1>5 DEF IndexInv, JobIndex
<1>8. Ledger!Submit
  BY <1>1, <1>2 DEF NewJob, Ledger!Submit
<1> QED BY <1>6, <1>7, <1>8 DEF IndexInv, LedgerStep, Ledger!Next

\* finish_job and cancel_job keep the index and give the job its result.
LEMMA RemoveJobStep ==
  ASSUME JobsTypeOK, IndexInv, NEW id \in DOMAIN jobs, NEW ok \in BOOLEAN, RemoveJob(id, ok)
  PROVE  IndexInv' /\ LedgerStep
<1>1. DOMAIN jobs' = DOMAIN jobs \ {id} /\ next_job' = next_job
  BY DEF RemoveJob
<1>2. \A i \in DOMAIN jobs' : jobs'[i] = jobs[i]
  BY DEF RemoveJob
<1>3. \A v \in Units : unit_job'[v] = IF unit_job[v] = id THEN 0 ELSE unit_job[v]
  <2> DEFINE u == jobs[id].unit
  <2>1. id # 0
    BY DEF JobsTypeOK
  <2>2. \A v \in Units : unit_job[v] = id => v = u
    BY <2>1 DEF IndexInv, JobIndex
  <2>3. unit_job' = IF unit_job[u] = id THEN [unit_job EXCEPT ![u] = 0] ELSE unit_job
    BY DEF RemoveJob
  <2> HIDE DEF u
  <2> QED BY <2>2, <2>3 DEF JobsTypeOK
<1>4. IndexInv'
  BY <1>1, <1>2, <1>3 DEF IndexInv, JobIndex
<1>5. Ledger!Resolve(id, ok)
  BY <1>1 DEF RemoveJob, Ledger!Resolve
<1> QED BY <1>4, <1>5 DEF LedgerStep, Ledger!Next

\* A change of a job's fields other than its unit keeps the index.
LEMMA UpdateJobStep ==
  ASSUME IndexInv, NEW id, NEW job, id \in DOMAIN jobs => job.unit = jobs[id].unit,
         UpdateJob(id, job), UNCHANGED <<unit_job, next_job, completed_jobs>>
  PROVE  IndexInv' /\ LedgerStep
<1>1. DOMAIN jobs' = DOMAIN jobs /\ \A i \in DOMAIN jobs : jobs'[i].unit = jobs[i].unit
  BY DEF UpdateJob
<1> QED BY <1>1 DEF IndexInv, JobIndex, LedgerStep, Ledger!ledger

\* Steps that leave the job table alone.
LEMMA SameJobsStep ==
  ASSUME IndexInv, UNCHANGED engineVars
  PROVE  IndexInv' /\ LedgerStep
BY DEF IndexInv, JobIndex, LedgerStep, Ledger!ledger, engineVars

\* What the index leads to is in the table.
LEMMA IndexedJob ==
  ASSUME IndexInv, NEW u \in Units, PendingStart(u) \/ PendingStop(u)
  PROVE  unit_job[u] \in DOMAIN jobs /\ jobs[unit_job[u]].unit = u
BY DEF IndexInv, JobIndex, PendingStart, PendingStop

-----------------------------------------------------------------------------
(* The steps that touch the job table.                                     *)

\* start keeps the index exact: a new job is made only under a fresh id.
LEMMA StartUnitStep ==
  ASSUME TypeOK, IndexInv, StartUnit
  PROVE  IndexInv' /\ LedgerStep
<1> DEFINE u == Top.unit
<1>1. Calling("start") /\ JobsTypeOK
  BY DEF StartUnit, TypeOK
<1>2. u \in Units
  BY <1>1, CallType DEF UnitOps
<1>3. CASE UNCHANGED engineVars
  BY <1>3, SameJobsStep
<1>4. CASE PendingStop(u) /\ RemoveJob(unit_job[u], FALSE)
  <2>1. unit_job[u] \in DOMAIN jobs
    BY <1>2, <1>4, IndexedJob
  <2> QED BY <1>1, <1>4, <2>1, RemoveJobStep
<1> QED BY <1>3, <1>4 DEF StartUnit

\* stop keeps the index exact, also when it cancels a pending start.
LEMMA StopUnitStep ==
  ASSUME TypeOK, IndexInv, StopUnit
  PROVE  IndexInv' /\ LedgerStep
<1> DEFINE u == Top.unit
           jid == unit_job[u]
           job == [jobs[jid] EXCEPT !.irreversible = @ \/ Top.irreversible]
<1>1. Calling("stop") /\ JobsTypeOK
  BY DEF StopUnit, TypeOK
<1>2. u \in Units
  BY <1>1, CallType DEF UnitOps
<1>3. CASE UNCHANGED engineVars
  BY <1>3, SameJobsStep
<1>4. CASE PendingStart(u) /\ RemoveJob(jid, FALSE)
  <2>1. jid \in DOMAIN jobs
    BY <1>2, <1>4, IndexedJob
  <2> QED BY <1>1, <1>4, <2>1, RemoveJobStep
<1>5. CASE UpdateJob(jid, job) /\ UNCHANGED <<unit_job, next_job, completed_jobs>>
  <2>1. jid \in DOMAIN jobs => job.unit = jobs[jid].unit
    BY <1>1 DEF JobsTypeOK, Job
  <2> HIDE DEF job
  <2> QED BY <1>5, <2>1, UpdateJobStep
<1> QED BY <1>3, <1>4, <1>5 DEF StopUnit

\* enqueue_start_job indexes the fresh job it makes.
LEMMA EnqueueStartStep ==
  ASSUME TypeOK, IndexInv, EnqueueStart
  PROVE  IndexInv' /\ LedgerStep
<1>1. Calling("enqueue_start") /\ JobsTypeOK
  BY DEF EnqueueStart, TypeOK
<1>2. Top.unit \in Units
  BY <1>1, CallType DEF UnitOps
<1>3. PICK failed \in BOOLEAN, expanding \in BOOLEAN :
        NewJob(Top.unit, "Start", FALSE, FALSE, failed, expanding)
  BY DEF EnqueueStart
<1> QED BY <1>1, <1>2, <1>3, NewJobStep

\* enqueue_stop_job indexes the fresh job it makes.
LEMMA EnqueueStopStep ==
  ASSUME TypeOK, IndexInv, EnqueueStopJob
  PROVE  IndexInv' /\ LedgerStep
<1>1. Calling("enqueue_stop") /\ JobsTypeOK
  BY DEF EnqueueStopJob, TypeOK
<1>2. Top.unit \in Units
  BY <1>1, CallType DEF UnitOps
<1> QED BY <1>1, <1>2, NewJobStep DEF EnqueueStopJob

\* Collecting the dependencies to wait for leaves the job table alone.
LEMMA ExpandOpenStep ==
  ASSUME TypeOK, IndexInv, ExpandOpen
  PROVE  IndexInv' /\ LedgerStep
<1> DEFINE failing == [i \in DOMAIN jobs |->
                         IF i = Top.id THEN [jobs[i] EXCEPT !.failed = TRUE] ELSE jobs[i]]
<1>1. CASE UNCHANGED engineVars
  BY <1>1, SameJobsStep
<1>2. CASE jobs' = failing /\ UNCHANGED <<unit_job, next_job, completed_jobs>>
  <2>1. \A i \in DOMAIN jobs : jobs'[i].unit = jobs[i].unit
    BY <1>2 DEF TypeOK, JobsTypeOK, Job
  <2>2. DOMAIN jobs' = DOMAIN jobs
    BY <1>2
  <2> QED BY <1>2, <2>1, <2>2 DEF IndexInv, JobIndex, LedgerStep, Ledger!ledger
<1> QED BY <1>1, <1>2 DEF ExpandOpen

\* Committing the waiting list changes one job in place.
LEMMA ExpandCommitStep ==
  ASSUME TypeOK, IndexInv, ExpandCommit
  PROVE  IndexInv' /\ LedgerStep
<1>1. \E failed, waiting :
        \/ UpdateJob(Top.id, [jobs[Top.id] EXCEPT !.failed = failed, !.waiting = waiting,
                                                  !.expanding = FALSE])
        \/ UNCHANGED jobs
  BY DEF ExpandCommit
<1>2. UNCHANGED <<unit_job, next_job, completed_jobs>>
  BY DEF ExpandCommit
<1>3. CASE UNCHANGED jobs
  BY <1>2, <1>3, SameJobsStep DEF engineVars
<1>4. ASSUME NEW failed, NEW waiting,
             UpdateJob(Top.id, [jobs[Top.id] EXCEPT !.failed = failed, !.waiting = waiting,
                                                    !.expanding = FALSE])
      PROVE  IndexInv' /\ LedgerStep
  <2> DEFINE job == [jobs[Top.id] EXCEPT !.failed = failed, !.waiting = waiting,
                                         !.expanding = FALSE]
  <2>1. Top.id \in DOMAIN jobs => job.unit = jobs[Top.id].unit
    BY DEF TypeOK, JobsTypeOK, Job
  <2> HIDE DEF job
  <2> QED BY <1>2, <1>4, <2>1, UpdateJobStep DEF job
<1> QED BY <1>1, <1>3, <1>4

\* maybe_start_job marks a job started or failed in place, or removes it with
\* its index entry.
LEMMA MaybeStartStep ==
  ASSUME TypeOK, IndexInv, MaybeStartJob
  PROVE  IndexInv' /\ LedgerStep
<1> DEFINE id == Top.id
<1>1. CASE UNCHANGED engineVars
  BY <1>1, SameJobsStep
<1>2. ASSUME NEW hit,
             UpdateJob(id, [jobs[id] EXCEPT !.started = TRUE, !.failed = hit]),
             UNCHANGED <<unit_job, next_job, completed_jobs>>
      PROVE  IndexInv' /\ LedgerStep
  <2> DEFINE job == [jobs[id] EXCEPT !.started = TRUE, !.failed = hit]
  <2>1. id \in DOMAIN jobs => job.unit = jobs[id].unit
    BY DEF TypeOK, JobsTypeOK, Job
  <2> HIDE DEF job
  <2> QED BY <1>2, <2>1, UpdateJobStep DEF job
<1> QED BY <1>1, <1>2 DEF MaybeStartJob, RecentStarts, Panic, engineVars

\* maybe_stop_job also makes the job its unit's current one.
LEMMA MaybeStopStep ==
  ASSUME TypeOK, IndexInv, MaybeStopJob
  PROVE  IndexInv' /\ LedgerStep
<1> DEFINE id == Top.id
           job == [jobs[id] EXCEPT !.started = TRUE]
<1>1. CASE UNCHANGED engineVars
  BY <1>1, SameJobsStep
<1>2. CASE /\ id \in DOMAIN jobs
           /\ unit_job' = [unit_job EXCEPT ![jobs[id].unit] = id]
           /\ UpdateJob(id, job)
           /\ UNCHANGED <<next_job, completed_jobs>>
  <2>1. jobs[id] \in Job /\ unit_job \in [Units -> Nat]
    BY <1>2 DEF TypeOK, JobsTypeOK
  <2>2. job.unit = jobs[id].unit
    BY <2>1 DEF Job
  <2> HIDE DEF job
  <2>3. DOMAIN jobs' = DOMAIN jobs /\ \A i \in DOMAIN jobs : jobs'[i].unit = jobs[i].unit
    BY <1>2, <2>2 DEF UpdateJob
  <2>4. \A v \in Units : unit_job'[v] = IF v = jobs[id].unit THEN id ELSE unit_job[v]
    BY <1>2, <2>1
  <2>5. IndexInv'
    BY <1>2, <2>3, <2>4 DEF IndexInv, JobIndex
  <2> QED BY <1>2, <2>3, <2>5 DEF LedgerStep, Ledger!ledger
<1> QED BY <1>1, <1>2 DEF MaybeStopJob, DoStop, Panic, engineVars

\* finish_job removes the job together with the index entry that points to
\* it.
LEMMA FinishJobStep ==
  ASSUME TypeOK, IndexInv, FinishJob
  PROVE  IndexInv' /\ LedgerStep
<1>1. Calling("finish") /\ JobsTypeOK
  BY DEF FinishJob, TypeOK
<1>2. Top.ok \in BOOLEAN
  BY <1>1, CallType DEF Frame
<1>3. CASE UNCHANGED engineVars
  BY <1>3, SameJobsStep
<1>4. CASE Top.id \in DOMAIN jobs /\ RemoveJob(Top.id, Top.ok)
  BY <1>1, <1>2, <1>4, RemoveJobStep
<1> QED BY <1>3, <1>4 DEF FinishJob

\* on_job_completed and poke_failed only change the waiting jobs.
LEMMA WaiterStep ==
  ASSUME TypeOK, IndexInv, OnJobCompleted \/ PokeFailed
  PROVE  IndexInv' /\ LedgerStep
<1>1. UNCHANGED <<unit_job, next_job, completed_jobs>>
  BY DEF OnJobCompleted, PokeFailed
<1>2. CASE UNCHANGED jobs
  BY <1>1, <1>2, SameJobsStep DEF engineVars
<1>3. ASSUME NEW id \in Waiters(Top.unit),
             \/ UpdateJob(id, [jobs[id] EXCEPT !.failed = TRUE])
             \/ DropWait(id, Top.unit)
      PROVE  IndexInv' /\ LedgerStep
  <2>1. jobs[id] \in Job
    BY DEF Waiters, TypeOK, JobsTypeOK
  <2>2. PICK job : UpdateJob(id, job) /\ job.unit = jobs[id].unit
    BY <1>3, <2>1 DEF DropWait, Job
  <2> QED BY <1>1, <2>2, UpdateJobStep
<1> QED BY <1>2, <1>3 DEF OnJobCompleted, PokeFailed

\* Every call of the job engine keeps the index and is a ledger step.
LEMMA EngineStep ==
  ASSUME TypeOK, IndexInv, CallNext
  PROVE  IndexInv' /\ LedgerStep
<1>1. ASSUME \/ ProcessJobs \/ TryAdvanceJob \/ SetExited \/ StopAll \/ ExpandConflicts
             \/ StopDependents \/ FireOnFailure \/ DoStart \/ SpawnControl \/ FinalizeStop
      PROVE  IndexInv' /\ LedgerStep
  BY <1>1, SameJobsStep
     DEF ProcessJobs, TryAdvanceJob, SetExited, StopAll, ExpandConflicts, StopDependents,
         FireOnFailure, DoStart, SpawnControl, FinalizeStop
<1> QED BY <1>1, StartUnitStep, StopUnitStep, EnqueueStartStep, EnqueueStopStep,
           ExpandOpenStep, ExpandCommitStep, MaybeStartStep, MaybeStopStep, FinishJobStep,
           WaiterStep DEF CallNext, EngineNext, ServiceNext

\* restart withdraws the unit's pending start.
LEMMA RestartStep ==
  ASSUME TypeOK, IndexInv, NEW u \in Units, RequestRestart(u)
  PROVE  IndexInv' /\ LedgerStep
<1> DEFINE jid == unit_job[u]
<1>1. CASE UNCHANGED engineVars
  BY <1>1, SameJobsStep
<1>2. CASE /\ PendingStart(u)
           /\ jobs' = [i \in DOMAIN jobs \ {jid} |-> jobs[i]]
           /\ unit_job' = [unit_job EXCEPT ![u] = 0]
           /\ UNCHANGED <<next_job, completed_jobs>>
  <2>1. jid \in DOMAIN jobs /\ jobs[jid].unit = u
    BY <1>2, IndexedJob
  <2>2. DOMAIN jobs' = DOMAIN jobs \ {jid} /\ \A i \in DOMAIN jobs' : jobs'[i] = jobs[i]
    BY <1>2
  <2>3. \A v \in Units : unit_job'[v] = IF v = u THEN 0 ELSE unit_job[v]
    BY <1>2 DEF TypeOK, JobsTypeOK
  <2>4. IndexInv'
    BY <1>2, <2>1, <2>2, <2>3 DEF IndexInv, JobIndex
  <2>5. Ledger!Withdraw(jid)
    BY <1>2, <2>1, <2>2 DEF Ledger!Withdraw
  <2> QED BY <2>1, <2>4, <2>5 DEF LedgerStep, Ledger!Next
<1> QED BY <1>1, <1>2 DEF RequestRestart, engineVars

\* start_ignore_dependencies submits a job, in the place of the unit's job.
LEMMA StartIgnoreStep ==
  ASSUME TypeOK, IndexInv, NEW u \in Units, RequestStartIgnore(u)
  PROVE  IndexInv' /\ LedgerStep
<1> DEFINE jid == unit_job[u]
<1>1. next_job \in Nat /\ next_job' = next_job + 1
  BY DEF RequestStartIgnore, TypeOK, JobsTypeOK
<1>2. DOMAIN jobs' = (DOMAIN jobs \ {jid}) \cup {next_job'}
  BY <1>1 DEF RequestStartIgnore
<1>3. \A i \in DOMAIN jobs : i # next_job'
  BY <1>1 DEF IndexInv
<1>4. jobs'[next_job'].unit = u
  BY DEF RequestStartIgnore
<1>5. ASSUME NEW i \in DOMAIN jobs \ {jid}
      PROVE  jobs'[i].unit = jobs[i].unit
  <2>1. jobs[i] \in Job
    BY DEF TypeOK, JobsTypeOK
  <2>2. jobs'[i] = IF jid = 0 THEN jobs[i]
                   ELSE [jobs[i] EXCEPT !.waiting = {w \in @ : w.unit # u}]
    BY <1>1, <1>3 DEF RequestStartIgnore
  <2> QED BY <2>1, <2>2 DEF Job
<1>6. \A v \in Units : unit_job'[v] = IF v = u THEN next_job' ELSE unit_job[v]
  BY DEF RequestStartIgnore, TypeOK, JobsTypeOK
<1>7. DOMAIN jobs' \subseteq 1 .. next_job'
  BY <1>1, <1>2 DEF IndexInv
<1>8. JobIndex'
  <2> SUFFICES ASSUME NEW v \in Units, unit_job'[v] # 0
               PROVE  unit_job'[v] \in DOMAIN jobs' /\ jobs'[unit_job'[v]].unit = v
    BY DEF JobIndex
  <2>1. CASE v = u
    BY <1>2, <1>4, <1>6, <2>1
  <2>2. CASE v # u
    <3>1. unit_job[v] \in DOMAIN jobs /\ jobs[unit_job[v]].unit = v
      BY <1>6, <2>2 DEF IndexInv, JobIndex
    <3>2. unit_job[v] # jid
      BY <2>2, <3>1 DEF IndexInv, JobIndex
    <3> QED BY <1>2, <1>5, <1>6, <2>2, <3>1, <3>2
  <2> QED BY <2>1, <2>2
<1>9. LedgerStep
  <2>1. UNCHANGED completed_jobs
    BY DEF RequestStartIgnore
  <2>2. CASE jid \in DOMAIN jobs
    <3>1. Ledger!Replace(jid)
      BY <1>1, <1>2, <2>1, <2>2 DEF Ledger!Replace
    <3> QED BY <2>2, <3>1 DEF LedgerStep, Ledger!Next
  <2>3. CASE jid \notin DOMAIN jobs
    <3>1. Ledger!Submit
      BY <1>1, <1>2, <2>1, <2>3 DEF Ledger!Submit
    <3> QED BY <3>1 DEF LedgerStep, Ledger!Next
  <2> QED BY <2>2, <2>3
<1> QED BY <1>7, <1>8, <1>9 DEF IndexInv

\* Every request keeps the index and is a ledger step.
LEMMA RequestStep ==
  ASSUME TypeOK, IndexInv, RequestNext
  PROVE  IndexInv' /\ LedgerStep
<1>1. ASSUME \/ \E u \in Units :
                  \/ RequestStart(u) \/ RequestStop(u) \/ RequestReload(u)
                  \/ RequestIsolate(u) \/ RequestResetFailed(u) \/ RequestKill(u)
             \/ DaemonReload \/ Shutdown
      PROVE  UNCHANGED engineVars
  BY <1>1 DEF RequestStart, RequestStop, RequestReload, RequestIsolate,
              RequestResetFailed, RequestKill, DaemonReload, Shutdown, Panic, engineVars
<1> QED BY <1>1, SameJobsStep, RestartStep, StartIgnoreStep DEF RequestNext

\* Timers, exits and datagrams do not touch the job table.
LEMMA EventStep ==
  ASSUME IndexInv, EventNext
  PROVE  IndexInv' /\ LedgerStep
<1>1. UNCHANGED engineVars
  BY DEF EventNext, FireTimer, ChildExits, Reap, SendReady, HandleNotify, Tick, Exit,
         Panic, engineVars
<1> QED BY <1>1, SameJobsStep

-----------------------------------------------------------------------------
(* The theorems.                                                           *)

\* Every step keeps the index and is a step, or a stutter, of the ledger.
LEMMA NextIndex ==
  TypeOK /\ IndexInv /\ [Next]_managerVars => IndexInv' /\ LedgerStep
<1> SUFFICES ASSUME TypeOK, IndexInv, [Next]_managerVars PROVE IndexInv' /\ LedgerStep
  OBVIOUS
<1>1. CASE Next
  BY <1>1, RequestStep, EventStep, EngineStep DEF Next
<1>2. CASE UNCHANGED managerVars
  BY <1>2, SameJobsStep DEF managerVars, vars, engineVars
<1> QED BY <1>1, <1>2

\* The empty job table has an exact index.
LEMMA InitIndex == Init => IndexInv
BY DEF Init, Idle, IndexInv, JobIndex

\* In every configuration and after any sequence of requests and events, the
\* job a unit is indexed under exists and is that unit's: the lookups
\* `self.jobs[&jid]' that follow unit_job cannot panic.
THEOREM JobIndexCorrect == Spec => []JobIndex
<1>1. Spec => []IndexInv
  BY TypeCorrect, InitIndex, NextIndex, PTL DEF Spec
<1>2. IndexInv => JobIndex
  BY DEF IndexInv
<1> QED BY <1>1, <1>2, PTL

\* The manager's job table implements the JobLedger: what a client that polls
\* job_status sees never goes back.
THEOREM LedgerRefinement == Spec => JobsLedger
<1>1. Init => Ledger!Init
  BY DEF Init, Idle, Ledger!Init
<1>2. Spec => [](TypeOK /\ IndexInv)
  BY TypeCorrect, InitIndex, NextIndex, PTL DEF Spec
<1>3. TypeOK /\ IndexInv /\ [Next]_managerVars => [Ledger!Next]_(Ledger!ledger)
  BY NextIndex DEF LedgerStep
<1> QED BY <1>1, <1>2, <1>3, PTL DEF Spec, JobsLedger, Ledger!Spec

-----------------------------------------------------------------------------
(* What a client of a JobLedger can rely on, read as the job table's.      *)

\* Pending ids were handed out and have no result; results belong to ids
\* handed out.
LedgerInv == next_job \in Nat /\ Ledger!Disjoint

\* The ledger alone keeps that.
LEMMA LedgerInvariant == Ledger!Spec => []LedgerInv
<1>1. Ledger!Init => LedgerInv
  BY DEF Ledger!Init, LedgerInv, Ledger!Disjoint
<1>2. LedgerInv /\ [Ledger!Next]_(Ledger!ledger) => LedgerInv'
  <2> SUFFICES ASSUME LedgerInv, [Ledger!Next]_(Ledger!ledger) PROVE LedgerInv'
    OBVIOUS
  <2>1. CASE Ledger!Submit
    BY <2>1 DEF LedgerInv, Ledger!Disjoint, Ledger!Submit
  <2>2. ASSUME NEW id \in DOMAIN jobs, Ledger!Resolve(id, TRUE) \/ Ledger!Resolve(id, FALSE)
        PROVE  LedgerInv'
    <3>1. /\ DOMAIN jobs' = DOMAIN jobs \ {id} /\ next_job' = next_job
          /\ DOMAIN completed_jobs' = DOMAIN completed_jobs \cup {id}
      BY <2>2 DEF Ledger!Resolve
    <3> QED BY <3>1 DEF LedgerInv, Ledger!Disjoint
  <2>3. ASSUME NEW id \in DOMAIN jobs, Ledger!Withdraw(id)
        PROVE  LedgerInv'
    BY <2>3 DEF LedgerInv, Ledger!Disjoint, Ledger!Withdraw
  <2>4. ASSUME NEW id \in DOMAIN jobs, Ledger!Replace(id)
        PROVE  LedgerInv'
    BY <2>4 DEF LedgerInv, Ledger!Disjoint, Ledger!Replace
  <2>5. CASE UNCHANGED Ledger!ledger
    BY <2>5 DEF Ledger!ledger, LedgerInv, Ledger!Disjoint
  <2> QED BY <2>1, <2>2, <2>3, <2>4, <2>5 DEF Ledger!Next
<1> QED BY <1>1, <1>2, PTL DEF Ledger!Spec

\* In a JobLedger no result is ever changed, dropped or followed by a pending
\* state.
THEOREM LedgerFinal == Ledger!Spec => ResultsFinal
<1> DEFINE Kept == \A id \in DOMAIN completed_jobs :
                     /\ id \in DOMAIN completed_jobs' /\ completed_jobs'[id] = completed_jobs[id]
                     /\ id \notin (DOMAIN jobs)'
<1>1. LedgerInv /\ [Ledger!Next]_(Ledger!ledger) => [Kept]_(Ledger!ledger)
  <2> SUFFICES ASSUME LedgerInv, Ledger!Next PROVE Kept
    OBVIOUS
  <2>1. \A id \in DOMAIN completed_jobs : id \notin DOMAIN jobs /\ id # next_job + 1
    BY DEF LedgerInv, Ledger!Disjoint
  <2>2. CASE Ledger!Submit
    BY <2>1, <2>2 DEF Ledger!Submit
  <2>3. ASSUME NEW id \in DOMAIN jobs, Ledger!Resolve(id, TRUE) \/ Ledger!Resolve(id, FALSE)
        PROVE  Kept
    BY <2>1, <2>3 DEF Ledger!Resolve
  <2>4. ASSUME NEW id \in DOMAIN jobs, Ledger!Withdraw(id) \/ Ledger!Replace(id)
        PROVE  Kept
    BY <2>1, <2>4 DEF Ledger!Withdraw, Ledger!Replace
  <2> QED BY <2>2, <2>3, <2>4 DEF Ledger!Next
<1> QED BY <1>1, LedgerInvariant, PTL DEF Ledger!Spec, ResultsFinal, Ledger!Final

\* So a job that was reported done stays done, with the same result.
THEOREM ResultsFinalCorrect == Spec => ResultsFinal
BY LedgerRefinement, LedgerFinal, PTL DEF JobsLedger

-----------------------------------------------------------------------------
(* The calls still to be made.                                             *)

Pending == {stack[k] : k \in DOMAIN stack}

\* The innermost call is replaced by those it makes; the others stay.
LEMMA CallsMade ==
  ASSUME TypeOK, NEW op, Calling(op), NEW S, NEW frames \in Seq(S), Call(frames)
  PROVE  /\ \A f \in Pending : f # Top => f \in Pending'
         /\ \A f \in Pending' : f \in Pending \/ \E k \in DOMAIN frames : f = frames[k]
         /\ \A k \in DOMAIN frames : frames[k] \in Pending'
<1> DEFINE T == S \cup Frame
<1>1. stack \in Seq(T) /\ stack # <<>> /\ frames \in Seq(T)
  BY DEF TypeOK, Calling
<1>2. Return \in Seq(T) /\ stack' = frames \o Return
  BY <1>1, HeadTailProperties DEF Return, Call
<1> HIDE DEF T
<1>3. /\ Len(Return) = Len(stack) - 1
      /\ \A k \in 1 .. Len(Return) : Return[k] = stack[k + 1]
      /\ Top = stack[1]
  BY <1>1 DEF Return, Top
<1> DEFINE n == Len(frames)
           m == Len(Return)
<1>4. n \in Nat /\ m \in Nat /\ DOMAIN frames = 1 .. n /\ DOMAIN stack = 1 .. (m + 1)
  BY <1>1, <1>2, <1>3
<1>5. /\ DOMAIN stack' = 1 .. (n + m)
      /\ \A k \in 1 .. (n + m) :
           stack'[k] = IF k <= n THEN frames[k] ELSE Return[k - n]
  BY <1>1, <1>2
<1> HIDE DEF n, m
<1>6. ASSUME NEW k \in 2 .. (m + 1)
      PROVE  k + n - 1 \in DOMAIN stack' /\ stack'[k + n - 1] = stack[k]
  <2>1. k + n - 1 \in 1 .. (n + m) /\ ~(k + n - 1 <= n) /\ k + n - 1 - n = k - 1
    BY <1>4
  <2>2. stack'[k + n - 1] = Return[k - 1]
    BY <1>4, <1>5, <2>1
  <2>3. k - 1 \in 1 .. Len(Return) /\ (k - 1) + 1 = k
    BY <1>4 DEF m
  <2> QED BY <1>3, <1>5, <2>1, <2>2, <2>3
<1>7. \A f \in Pending : f # Top => f \in Pending'
  BY <1>3, <1>4, <1>6 DEF Pending
<1>8. ASSUME NEW k \in 1 .. (n + m)
      PROVE  stack'[k] \in Pending \/ \E j \in DOMAIN frames : stack'[k] = frames[j]
  <2>1. CASE k <= n
    BY <1>4, <1>5, <2>1
  <2>2. CASE ~(k <= n)
    <3>1. k - n \in 1 .. Len(Return) /\ k - n + 1 \in 1 .. (m + 1)
      BY <1>4, <2>2 DEF m
    <3>2. stack'[k] = Return[k - n]
      BY <1>5, <2>2
    <3>3. stack'[k] = stack[k - n + 1]
      BY <1>3, <3>1, <3>2
    <3> QED BY <1>4, <3>1, <3>3 DEF Pending
  <2> QED BY <2>1, <2>2
<1>9. \A k \in DOMAIN frames : k \in DOMAIN stack' /\ stack'[k] = frames[k]
  BY <1>4, <1>5
<1> QED BY <1>5, <1>7, <1>8, <1>9 DEF Pending

\* A return makes no call.
LEMMA Returned ==
  ASSUME TypeOK, NEW op, Calling(op), stack' = Return
  PROVE  /\ \A f \in Pending : f # Top => f \in Pending'
         /\ Pending' \subseteq Pending
<1>1. stack \in Seq(Frame) /\ stack # <<>>
  BY DEF TypeOK, Calling
<1>2. Return \in Seq(Frame)
  BY <1>1, HeadTailProperties DEF Return
<1>3. <<>> \o Return = Return /\ <<>> \in Seq(Frame)
  BY <1>2, ConcatEmptySeq
<1>4. Call(<<>>)
  BY <1>3 DEF Call
<1>5. DOMAIN <<>> = {}
  OBVIOUS
<1> QED BY <1>3, <1>4, <1>5, CallsMade

\* A call that makes one call.
LEMMA OneCall ==
  ASSUME TypeOK, NEW op, Calling(op), NEW f, Call(<<f>>)
  PROVE  /\ \A g \in Pending : g # Top => g \in Pending'
         /\ Pending' \subseteq Pending \cup {f}
         /\ f \in Pending'
<1> DEFINE frames == <<f>>
<1>1. frames \in Seq({f}) /\ DOMAIN frames = {1} /\ frames[1] = f
  OBVIOUS
<1> HIDE DEF frames
<1>2. Call(frames)
  BY DEF frames
<1> QED BY <1>1, <1>2, CallsMade

\* A call that makes two calls.
LEMMA TwoCalls ==
  ASSUME TypeOK, NEW op, Calling(op), NEW f, NEW g, Call(<<f, g>>)
  PROVE  /\ \A h \in Pending : h # Top => h \in Pending'
         /\ Pending' \subseteq Pending \cup {f, g}
         /\ f \in Pending' /\ g \in Pending'
<1> DEFINE frames == <<f, g>>
<1>1. frames \in Seq({f, g}) /\ DOMAIN frames = {1, 2} /\ frames[1] = f /\ frames[2] = g
  OBVIOUS
<1> HIDE DEF frames
<1>2. Call(frames)
  BY DEF frames
<1> QED BY <1>1, <1>2, CallsMade

-----------------------------------------------------------------------------
(* Nobody waits for nothing.                                               *)

\* What will release job `id' from waiting for u: u's job, or a call still to
\* be made that makes one for u, or that visits those who wait for it
Awaited(id, u) ==
  \/ unit_job[u] # 0
  \/ \E f \in Pending : f.unit = u /\ \/ f.op = "enqueue_stop"
                                      \/ f.op = "completed" /\ id \in f.ids

WaitInv ==
  \A id \in DOMAIN jobs :
    jobs[id].failed \/ \A w \in jobs[id].waiting : Awaited(id, w.unit)

\* The jobs after the step wait for no more than they did, and what released
\* them still does.
LEMMA WaitsKept ==
  ASSUME WaitInv,
         \A id \in DOMAIN jobs' :
           \/ jobs'[id].failed
           \/ \A w \in jobs'[id].waiting :
                \/ Awaited(id, w.unit)'
                \/ id \in DOMAIN jobs /\ w \in jobs[id].waiting /\ ~jobs[id].failed,
         \A id \in DOMAIN jobs : \A w \in jobs[id].waiting :
           Awaited(id, w.unit) => Awaited(id, w.unit)'
  PROVE  WaitInv'
BY DEF WaitInv

\* A call that is neither on_job_completed nor enqueue_stop_job releases nobody
\* when it returns.
LEMMA StillAwaited ==
  ASSUME NEW op, Calling(op), op \notin {"completed", "enqueue_stop"},
         \A f \in Pending : f # Top => f \in Pending',
         NEW id, NEW u, unit_job[u] # 0 => unit_job'[u] # 0,
         Awaited(id, u)
  PROVE  Awaited(id, u)'
<1>1. CASE unit_job[u] # 0
  BY <1>1 DEF Awaited
<1>2. CASE unit_job[u] = 0
  <2>1. PICK f \in Pending : f.unit = u /\ \/ f.op = "enqueue_stop"
                                           \/ f.op = "completed" /\ id \in f.ids
    BY <1>2 DEF Awaited
  <2>2. f # Top
    BY <2>1 DEF Calling
  <2> QED BY <2>1, <2>2 DEF Awaited
<1> QED BY <1>1, <1>2

\* Such a call, when it leaves the job table alone.
LEMMA SameJobsWaits ==
  ASSUME WaitInv, NEW op, Calling(op), op \notin {"completed", "enqueue_stop"},
         \A f \in Pending : f # Top => f \in Pending', UNCHANGED engineVars
  PROVE  WaitInv'
<1>1. \A id, u : Awaited(id, u) => Awaited(id, u)'
  BY StillAwaited DEF engineVars
<1> QED BY <1>1, WaitsKept DEF engineVars

\* Without a call under way only the units' jobs release anybody.
LEMMA QuietWaits ==
  ASSUME WaitInv, stack = <<>>, NEW id \in DOMAIN jobs, ~jobs[id].failed
  PROVE  \A w \in jobs[id].waiting : unit_job[w.unit] # 0
<1>1. Pending = {}
  BY DEF Pending
<1> QED BY <1>1 DEF WaitInv, Awaited

\* A removed job leaves a call behind that visits those who wait for its unit.
LEMMA RemoveJobWaits ==
  ASSUME TypeOK, IndexInv, WaitInv, NEW op, Calling(op), op \notin {"completed", "enqueue_stop"},
         NEW id \in DOMAIN jobs, NEW ok, RemoveJob(id, ok),
         \A f \in Pending : f # Top => f \in Pending',
         Completed(jobs[id].unit, ok) \in Pending'
  PROVE  WaitInv'
<1> DEFINE u == jobs[id].unit
           f == Completed(u, ok)
<1>1. /\ DOMAIN jobs' = DOMAIN jobs \ {id} /\ \A i \in DOMAIN jobs' : jobs'[i] = jobs[i]
  BY DEF RemoveJob
<1>2. \A v : v # u => (unit_job'[v] # 0 <=> unit_job[v] # 0)
  BY DEF RemoveJob, TypeOK, JobsTypeOK
<1>3. f.op = "completed" /\ f.unit = u /\ f.ids = Waiters(u)
  BY DEF Completed, Frm
<1> HIDE DEF f, u
<1>4. ASSUME NEW i \in DOMAIN jobs, NEW w \in jobs[i].waiting, Awaited(i, w.unit)
      PROVE  Awaited(i, w.unit)'
  <2>1. CASE w.unit = u
    <3>1. i \in Waiters(u)
      BY <2>1 DEF Waiters
    <3> QED BY <1>3, <2>1, <3>1 DEF Awaited, f, u
  <2>2. CASE w.unit # u
    <3>1. unit_job[w.unit] # 0 => unit_job'[w.unit] # 0
      BY <1>2, <2>2
    <3> QED BY <1>4, <3>1, StillAwaited
  <2> QED BY <2>1, <2>2
<1> QED BY <1>1, <1>4, WaitsKept DEF WaitInv

\* A job for u releases those who wait for u from the call that makes it.
LEMMA NewJobWaits ==
  ASSUME TypeOK, IndexInv, WaitInv, NEW op, Calling(op), op # "completed",
         NEW u \in Units, op = "enqueue_stop" => Top.unit = u,
         NEW kind, NEW irreversible, NEW after, NEW failed, NEW expanding,
         NewJob(u, kind, irreversible, after, failed, expanding),
         \A f \in Pending : f # Top => f \in Pending'
  PROVE  WaitInv'
<1>1. next_job \in Nat /\ next_job' = next_job + 1
  BY DEF TypeOK, JobsTypeOK, NewJob
<1>2. DOMAIN jobs' = DOMAIN jobs \cup {next_job'} /\ jobs'[next_job'].waiting = {}
  BY DEF NewJob
<1>3. \A i \in DOMAIN jobs : i # next_job' /\ jobs'[i] = jobs[i]
  BY <1>1 DEF IndexInv, NewJob
<1>4. \A v : unit_job[v] # 0 => unit_job'[v] # 0
  BY <1>1 DEF NewJob, TypeOK, JobsTypeOK
<1>5. unit_job'[u] # 0
  BY <1>1 DEF NewJob, TypeOK, JobsTypeOK
<1>6. ASSUME NEW i, NEW v, Awaited(i, v)
      PROVE  Awaited(i, v)'
  <2>1. CASE v = u
    BY <1>5, <2>1 DEF Awaited
  <2>2. CASE v # u
    <3>1. CASE unit_job[v] # 0
      BY <1>4, <3>1 DEF Awaited
    <3>2. CASE unit_job[v] = 0
      <4>1. PICK f \in Pending : f.unit = v /\ \/ f.op = "enqueue_stop"
                                               \/ f.op = "completed" /\ i \in f.ids
        BY <1>6, <3>2 DEF Awaited
      <4>2. f # Top
        BY <2>2, <4>1 DEF Calling
      <4> QED BY <4>1, <4>2 DEF Awaited
    <3> QED BY <3>1, <3>2
  <2> QED BY <2>1, <2>2
<1> QED BY <1>2, <1>3, <1>6, WaitsKept DEF WaitInv

\* A job whose waiting list does not grow, in a call that is neither of the two.
LEMMA UpdateJobWaits ==
  ASSUME WaitInv, NEW op, Calling(op), op \notin {"completed", "enqueue_stop"},
         NEW id, NEW job, UpdateJob(id, job),
         id \in DOMAIN jobs => \/ job.failed
                               \/ /\ ~jobs[id].failed
                                  /\ job.waiting \subseteq jobs[id].waiting,
         \A u : unit_job[u] # 0 => unit_job'[u] # 0,
         \A f \in Pending : f # Top => f \in Pending'
  PROVE  WaitInv'
<1>1. \A i, u : Awaited(i, u) => Awaited(i, u)'
  BY StillAwaited
<1>2. DOMAIN jobs' = DOMAIN jobs
  BY DEF UpdateJob
<1>3. \A i \in DOMAIN jobs : jobs'[i] = IF i = id THEN job ELSE jobs[i]
  BY DEF UpdateJob
<1> QED BY <1>1, <1>2, <1>3, WaitsKept DEF WaitInv

\* process_jobs goes on to one job, and is itself still to be done.
LEMMA ProcessJobsWaits ==
  ASSUME TypeOK, WaitInv, ProcessJobs
  PROVE  WaitInv'
<1>1. Calling("process") /\ UNCHANGED engineVars /\ stack \in Seq(Frame)
  BY DEF ProcessJobs, TypeOK
<1>2. CASE stack' = Return
  BY <1>1, <1>2, Returned, SameJobsWaits
<1>3. ASSUME NEW id \in DOMAIN jobs, stack' = <<JobCall("advance", id)>> \o stack
      PROVE  WaitInv'
  <2>1. JobCall("advance", id) \in Frame
    BY JobCallType DEF TypeOK, JobsTypeOK, Ops, UnitOps
  <2> DEFINE f == JobCall("advance", id)
  <2> HIDE DEF f
  <2>2. \A k \in DOMAIN stack : k + 1 \in DOMAIN stack' /\ stack'[k + 1] = stack[k]
    BY <1>1, <1>3, <2>1 DEF f
  <2>3. \A g \in Pending : g # Top => g \in Pending'
    BY <2>2 DEF Pending
  <2> QED BY <1>1, <2>3, SameJobsWaits
<1> QED BY <1>2, <1>3 DEF ProcessJobs

\* start cancels a stop it replaces, and then visits those who wait for it.
LEMMA StartUnitWaits ==
  ASSUME TypeOK, IndexInv, WaitInv, StartUnit
  PROVE  WaitInv'
<1> DEFINE u == Top.unit
           jid == unit_job[u]
<1>1. Calling("start") /\ u \in Units
  BY CallType DEF StartUnit, UnitOps
<1>2. CASE UNCHANGED engineVars /\ stack' = Return
  BY <1>1, <1>2, Returned, SameJobsWaits
<1>3. CASE UNCHANGED engineVars /\ stack' = stack
  <2>1. Pending' = Pending
    BY <1>3 DEF Pending
  <2> QED BY <1>1, <1>3, <2>1, SameJobsWaits
<1>4. CASE UNCHANGED engineVars /\ Call(<<UnitCall("enqueue_start", u), Process>>)
  <2>1. \A f \in Pending : f # Top => f \in Pending'
    BY <1>1, <1>4, TwoCalls
  <2> QED BY <1>1, <1>4, <2>1, SameJobsWaits
<1>5. CASE /\ PendingStop(u) /\ RemoveJob(jid, FALSE)
           /\ Call(<<Completed(u, FALSE), UnitCall("set_exited", u)>>)
  <2>1. jid \in DOMAIN jobs /\ jobs[jid].unit = u
    BY <1>1, <1>5, IndexedJob
  <2>2. Completed(u, FALSE) \in Pending' /\ \A f \in Pending : f # Top => f \in Pending'
    BY <1>1, <1>5, TwoCalls
  <2> QED BY <1>1, <1>5, <2>1, <2>2, RemoveJobWaits
<1> QED BY <1>2, <1>3, <1>4, <1>5 DEF StartUnit

\* stop cancels a start, and then visits those who wait for it.
LEMMA StopUnitWaits ==
  ASSUME TypeOK, IndexInv, WaitInv, StopUnit
  PROVE  WaitInv'
<1> DEFINE u == Top.unit
           jid == unit_job[u]
           enqueue == <<EnqueueStop(u, FALSE, Top.irreversible), Process>>
           job == [jobs[jid] EXCEPT !.irreversible = @ \/ Top.irreversible]
<1>1. Calling("stop") /\ u \in Units
  BY CallType DEF StopUnit, UnitOps
<1>2. CASE UNCHANGED engineVars /\ stack' = Return
  BY <1>1, <1>2, Returned, SameJobsWaits
<1>3. CASE UNCHANGED engineVars /\ Call(enqueue)
  <2>1. \A f \in Pending : f # Top => f \in Pending'
    BY <1>1, <1>3, TwoCalls
  <2> QED BY <1>1, <1>3, <2>1, SameJobsWaits
<1>4. CASE /\ PendingStop(u) /\ UpdateJob(jid, job) /\ stack' = Return
           /\ UNCHANGED <<unit_job, next_job, completed_jobs>>
  <2>1. jid \in DOMAIN jobs
    BY <1>1, <1>4, IndexedJob
  <2>2. job.failed = jobs[jid].failed /\ job.waiting = jobs[jid].waiting
    BY <2>1 DEF TypeOK, JobsTypeOK, Job
  <2>3. \A f \in Pending : f # Top => f \in Pending'
    BY <1>1, <1>4, Returned
  <2> HIDE DEF job, jid
  <2> QED BY <1>1, <1>4, <2>2, <2>3, UpdateJobWaits
<1>5. CASE /\ PendingStart(u) /\ RemoveJob(jid, FALSE)
           /\ Call(<<Completed(u, FALSE)>> \o enqueue)
  <2>1. jid \in DOMAIN jobs /\ jobs[jid].unit = u
    BY <1>1, <1>5, IndexedJob
  <2> DEFINE f == Completed(u, FALSE)
             g == EnqueueStop(u, FALSE, Top.irreversible)
             h == Process
             frames == <<f>> \o <<g, h>>
  <2>2. Call(frames)
    BY <1>5
  <2> HIDE DEF f, g, h
  <2>3. frames \in Seq({f, g, h}) /\ 1 \in DOMAIN frames /\ frames[1] = f
    OBVIOUS
  <2> HIDE DEF frames
  <2>4. f \in Pending' /\ \A k \in Pending : k # Top => k \in Pending'
    BY <1>1, <2>2, <2>3, CallsMade
  <2> QED BY <1>1, <1>5, <2>1, <2>4, RemoveJobWaits DEF f
<1> QED BY <1>2, <1>3, <1>4, <1>5 DEF StopUnit

\* enqueue_start_job makes a job that waits for nothing yet.
LEMMA EnqueueStartWaits ==
  ASSUME TypeOK, IndexInv, WaitInv, EnqueueStart
  PROVE  WaitInv'
<1> DEFINE u == Top.unit
<1>1. Calling("enqueue_start") /\ u \in Units
  BY CallType DEF EnqueueStart, UnitOps
<1>2. PICK failed, expanding : NewJob(u, "Start", FALSE, FALSE, failed, expanding)
  BY DEF EnqueueStart
<1>3. PICK f, g : Call(<<f>>) \/ Call(<<f, g>>)
  BY DEF EnqueueStart
<1>4. \A k \in Pending : k # Top => k \in Pending'
  BY <1>1, <1>3, OneCall, TwoCalls
<1> QED BY <1>1, <1>2, <1>4, NewJobWaits

\* enqueue_stop_job makes the job its call stood for.
LEMMA EnqueueStopWaits ==
  ASSUME TypeOK, IndexInv, WaitInv, EnqueueStopJob
  PROVE  WaitInv'
<1> DEFINE u == Top.unit
<1>1. Calling("enqueue_stop") /\ u \in Units
  BY CallType DEF EnqueueStopJob, UnitOps
<1>2. NewJob(u, "Stop", Top.irreversible, Top.ok, FALSE, FALSE)
  BY DEF EnqueueStopJob
<1>3. PICK f : Call(<<f>>)
  BY DEF EnqueueStopJob
<1>4. \A k \in Pending : k # Top => k \in Pending'
  BY <1>1, <1>3, OneCall
<1> QED BY <1>1, <1>2, <1>4, NewJobWaits

\* Collecting the dependencies to wait for adds none to a waiting list yet.
LEMMA ExpandOpenWaits ==
  ASSUME TypeOK, WaitInv, ExpandOpen
  PROVE  WaitInv'
<1> DEFINE failing == [i \in DOMAIN jobs |->
                         IF i = Top.id THEN [jobs[i] EXCEPT !.failed = TRUE] ELSE jobs[i]]
<1>1. Calling("open")
  BY DEF ExpandOpen
<1>2. PICK f, g : Call(<<f>>) \/ Call(<<f, g>>)
  BY DEF ExpandOpen
<1>3. \A k \in Pending : k # Top => k \in Pending'
  BY <1>1, <1>2, OneCall, TwoCalls
<1>4. CASE UNCHANGED engineVars
  BY <1>1, <1>3, <1>4, SameJobsWaits
<1>5. CASE jobs' = failing /\ UNCHANGED <<unit_job, next_job, completed_jobs>>
  <2>1. DOMAIN jobs' = DOMAIN jobs
    BY <1>5
  <2>2. \A i \in DOMAIN jobs' : jobs'[i].failed \/ jobs'[i] = jobs[i]
    BY <1>5 DEF TypeOK, JobsTypeOK, Job
  <2>3. \A i, v : Awaited(i, v) => Awaited(i, v)'
    BY <1>1, <1>3, <1>5, StillAwaited
  <2> QED BY <2>1, <2>2, <2>3, WaitsKept DEF WaitInv
<1> QED BY <1>4, <1>5 DEF ExpandOpen

\* The expansion commits to wait only for units that have a job.
LEMMA ExpandCommitWaits ==
  ASSUME TypeOK, WaitInv, ExpandCommit
  PROVE  WaitInv'
<1>1. Calling("commit") /\ UNCHANGED unit_job
  BY DEF ExpandCommit
<1> PICK id : id = Top.id
  OBVIOUS
<1>2. PICK f : Call(<<f>>)
  BY DEF ExpandCommit
<1>3. \A k \in Pending : k # Top => k \in Pending'
  BY <1>1, <1>2, OneCall
<1>4. \A i, v : Awaited(i, v) => Awaited(i, v)'
  BY <1>1, <1>3, StillAwaited
<1>5. CASE id \notin DOMAIN jobs
  BY <1>4, <1>5, WaitsKept DEF WaitInv, ExpandCommit
<1>6. CASE id \in DOMAIN jobs
  <2>1. PICK job : UpdateJob(id, job) /\ \A w \in job.waiting : unit_job[w.unit] # 0
    <3>1. jobs[id] \in Job
      BY <1>6 DEF TypeOK, JobsTypeOK
    <3>2. PICK failed, waiting :
            UpdateJob(id, [jobs[id] EXCEPT !.failed = failed,
                                           !.waiting = {w \in waiting : unit_job[w.unit] # 0},
                                           !.expanding = FALSE])
      BY <1>6 DEF ExpandCommit
    <3> DEFINE job == [jobs[id] EXCEPT !.failed = failed,
                         !.waiting = {w \in waiting : unit_job[w.unit] # 0},
                         !.expanding = FALSE]
    <3>3. job.waiting = {w \in waiting : unit_job[w.unit] # 0}
      BY <3>1 DEF Job
    <3> HIDE DEF job
    <3> QED BY <3>2, <3>3 DEF job
  <2>2. DOMAIN jobs' = DOMAIN jobs /\ \A i \in DOMAIN jobs : i # id => jobs'[i] = jobs[i]
    BY <2>1 DEF UpdateJob
  <2>3. \A w \in jobs'[id].waiting : unit_job'[w.unit] # 0
    BY <1>1, <1>6, <2>1 DEF UpdateJob
  <2>4. \A w \in jobs'[id].waiting : Awaited(id, w.unit)'
    BY <2>3 DEF Awaited
  <2> QED BY <1>4, <2>2, <2>4 DEF WaitInv
<1> QED BY <1>5, <1>6

\* maybe_start_job starts jobs that wait for nothing.
LEMMA MaybeStartWaits ==
  ASSUME TypeOK, WaitInv, MaybeStartJob
  PROVE  WaitInv'
<1> DEFINE id == Top.id
<1>1. Calling("maybe_start")
  BY DEF MaybeStartJob
<1>2. CASE UNCHANGED engineVars /\ stack' = Return
  BY <1>1, <1>2, Returned, SameJobsWaits
<1>3. CASE Panic
  <2>1. Pending' = Pending
    BY <1>3 DEF Pending, Panic
  <2> QED BY <1>1, <1>3, <2>1, SameJobsWaits DEF Panic, engineVars
<1>4. ASSUME NEW f, UNCHANGED engineVars, Call(<<f>>)
      PROVE  WaitInv'
  <2>1. \A k \in Pending : k # Top => k \in Pending'
    BY <1>1, <1>4, OneCall
  <2> QED BY <1>1, <1>4, <2>1, SameJobsWaits
<1>5. ASSUME NEW f, NEW hit, id \in DOMAIN jobs, ~jobs[id].failed,
             UpdateJob(id, [jobs[id] EXCEPT !.started = TRUE, !.failed = hit]),
             UNCHANGED <<unit_job, next_job, completed_jobs>>, Call(<<f>>)
      PROVE  WaitInv'
  <2> DEFINE job == [jobs[id] EXCEPT !.started = TRUE, !.failed = hit]
  <2>1. job.waiting = jobs[id].waiting
    BY <1>5 DEF TypeOK, JobsTypeOK, Job
  <2>2. \A k \in Pending : k # Top => k \in Pending'
    BY <1>1, <1>5, OneCall
  <2> HIDE DEF job
  <2> QED BY <1>1, <1>5, <2>1, <2>2, UpdateJobWaits DEF job
<1> QED BY <1>2, <1>3, <1>4, <1>5 DEF MaybeStartJob, RecentStarts

\* maybe_stop_job gives the unit a current job.
LEMMA MaybeStopWaits ==
  ASSUME TypeOK, WaitInv, MaybeStopJob
  PROVE  WaitInv'
<1> DEFINE id == Top.id
           u == jobs[id].unit
           job == [jobs[id] EXCEPT !.started = TRUE]
<1>1. Calling("maybe_stop")
  BY DEF MaybeStopJob
<1>2. CASE UNCHANGED engineVars /\ stack' = Return
  BY <1>1, <1>2, Returned, SameJobsWaits
<1>3. CASE Panic
  <2>1. Pending' = Pending
    BY <1>3 DEF Pending, Panic
  <2> QED BY <1>1, <1>3, <2>1, SameJobsWaits DEF Panic, engineVars
<1>4. ASSUME NEW f, UNCHANGED engineVars, Call(<<f>>)
      PROVE  WaitInv'
  <2>1. \A k \in Pending : k # Top => k \in Pending'
    BY <1>1, <1>4, OneCall
  <2> QED BY <1>1, <1>4, <2>1, SameJobsWaits
<1>5. CASE /\ id \in DOMAIN jobs
           /\ unit_job' = [unit_job EXCEPT ![u] = id]
           /\ UpdateJob(id, job)
           /\ DoStop(u)
  <2>1. job.waiting = jobs[id].waiting /\ job.failed = jobs[id].failed
    BY <1>5 DEF TypeOK, JobsTypeOK, Job
  <2>2. \A v : unit_job[v] # 0 => unit_job'[v] # 0
    BY <1>5 DEF TypeOK, JobsTypeOK
  <2>3. stack' = Return \/ \E f : Call(<<f>>)
    BY <1>5 DEF DoStop
  <2>4. \A k \in Pending : k # Top => k \in Pending'
    BY <1>1, <2>3, OneCall, Returned
  <2> HIDE DEF job
  <2> QED BY <1>1, <1>5, <2>1, <2>2, <2>4, UpdateJobWaits
<1> QED BY <1>2, <1>3, <1>4, <1>5 DEF MaybeStopJob

\* finish_job removes the job and visits those who wait for its unit.
LEMMA FinishJobWaits ==
  ASSUME TypeOK, IndexInv, WaitInv, FinishJob
  PROVE  WaitInv'
<1> DEFINE id == Top.id
           u == jobs[id].unit
           f == Completed(u, Top.ok)
           g == UnitCall("enqueue_start", u)
<1>1. Calling("finish")
  BY DEF FinishJob
<1>2. CASE UNCHANGED engineVars /\ stack' = Return
  BY <1>1, <1>2, Returned, SameJobsWaits
<1>3. ASSUME NEW rest \in Seq({g}), id \in DOMAIN jobs, RemoveJob(id, Top.ok),
             Call(<<f>> \o rest)
      PROVE  WaitInv'
  <2> HIDE DEF f, g
  <2> DEFINE frames == <<f>> \o rest
  <2>1. frames \in Seq({f, g}) /\ 1 \in DOMAIN frames /\ frames[1] = f
    BY <1>3
  <2>2. Call(frames)
    BY <1>3
  <2> HIDE DEF frames
  <2>3. f \in Pending' /\ \A k \in Pending : k # Top => k \in Pending'
    BY <1>1, <2>1, <2>2, CallsMade
  <2> QED BY <1>1, <1>3, <2>3, RemoveJobWaits DEF f
<1>4. <<>> \in Seq({g}) /\ <<g>> \in Seq({g})
  OBVIOUS
<1> QED BY <1>2, <1>3, <1>4 DEF FinishJob

\* A visit to one of the waiting jobs: it fails, or no longer waits for the
\* unit, or did not wait for it, and the others are still to be visited.
LEMMA VisitWaits ==
  ASSUME TypeOK, WaitInv, NEW op, Calling(op), op # "enqueue_stop", UNCHANGED unit_job,
         NEW id \in Top.ids,
         \A f \in Pending : f # Top => f \in Pending',
         op = "completed" => [Top EXCEPT !.ids = @ \ {id}] \in Pending',
         \/ id \notin Waiters(Top.unit) /\ UNCHANGED jobs
         \/ /\ id \in Waiters(Top.unit)
            /\ \/ UpdateJob(id, [jobs[id] EXCEPT !.failed = TRUE])
               \/ DropWait(id, Top.unit)
  PROVE  WaitInv'
<1> DEFINE u == Top.unit
           rest == [Top EXCEPT !.ids = @ \ {id}]
<1>1. Top \in Frame /\ Top.op = op
  BY CallType
<1>2. rest.unit = u /\ rest.op = op /\ rest.ids = Top.ids \ {id}
  BY <1>1 DEF Frame
<1> HIDE DEF rest
<1>3. ASSUME NEW i, NEW v, i # id \/ v # u, Awaited(i, v)
      PROVE  Awaited(i, v)'
  <2>1. CASE unit_job[v] # 0
    BY <2>1 DEF Awaited
  <2>2. CASE unit_job[v] = 0
    <3>1. PICK f \in Pending : f.unit = v /\ \/ f.op = "enqueue_stop"
                                             \/ f.op = "completed" /\ i \in f.ids
      BY <1>3, <2>2 DEF Awaited
    <3>2. CASE f # Top
      BY <3>1, <3>2 DEF Awaited
    <3>3. CASE f = Top
      <4>1. op = "completed" /\ i \in Top.ids /\ v = u
        BY <1>1, <3>1, <3>3
      <4>2. rest \in Pending' /\ i \in rest.ids
        BY <1>2, <1>3, <4>1 DEF rest
      <4> QED BY <1>2, <4>1, <4>2 DEF Awaited
    <3> QED BY <3>2, <3>3
  <2> QED BY <2>1, <2>2
<1>4. CASE id \notin Waiters(u) /\ UNCHANGED jobs
  <2>1. \A i \in DOMAIN jobs : \A w \in jobs[i].waiting : i # id \/ w.unit # u
    BY <1>4 DEF Waiters
  <2> QED BY <1>3, <1>4, <2>1, WaitsKept DEF WaitInv
<1>5. CASE id \in Waiters(u) /\ UpdateJob(id, [jobs[id] EXCEPT !.failed = TRUE])
  <2>1. /\ DOMAIN jobs' = DOMAIN jobs /\ jobs'[id].failed
        /\ \A i \in DOMAIN jobs : i # id => jobs'[i] = jobs[i]
    BY <1>5 DEF UpdateJob, Waiters, TypeOK, JobsTypeOK, Job
  <2> QED BY <1>3, <2>1 DEF WaitInv
<1>6. CASE id \in Waiters(u) /\ DropWait(id, u)
  <2>1. /\ DOMAIN jobs' = DOMAIN jobs /\ jobs'[id].failed = jobs[id].failed
        /\ jobs'[id].waiting = {w \in jobs[id].waiting : w.unit # u}
        /\ \A i \in DOMAIN jobs : i # id => jobs'[i] = jobs[i]
    BY <1>6 DEF DropWait, UpdateJob, Waiters, TypeOK, JobsTypeOK, Job
  <2> QED BY <1>3, <2>1 DEF WaitInv
<1> QED BY <1>4, <1>5, <1>6

\* on_job_completed releases or fails the jobs it visits, one by one.
LEMMA OnJobCompletedWaits ==
  ASSUME TypeOK, WaitInv, OnJobCompleted
  PROVE  WaitInv'
<1>1. Calling("completed") /\ UNCHANGED unit_job
  BY DEF OnJobCompleted
<1>2. CASE Top.ids = {} /\ stack' = Return /\ UNCHANGED jobs
  <2>1. \A f \in Pending : f # Top => f \in Pending'
    BY <1>1, <1>2, Returned
  <2>2. \A i, v : Awaited(i, v) => Awaited(i, v)'
    BY <1>1, <1>2, <2>1 DEF Awaited, Calling
  <2> QED BY <1>2, <2>2 DEF WaitInv
<1>3. ASSUME NEW id \in Top.ids,
             LET rest == [Top EXCEPT !.ids = @ \ {id}] IN
               Call(<<rest>>) \/ Call(<<JobCall("advance", id), rest>>),
             \/ id \notin Waiters(Top.unit) /\ UNCHANGED jobs
             \/ /\ id \in Waiters(Top.unit)
                /\ \/ UpdateJob(id, [jobs[id] EXCEPT !.failed = TRUE])
                   \/ DropWait(id, Top.unit)
      PROVE  WaitInv'
  <2> DEFINE rest == [Top EXCEPT !.ids = @ \ {id}]
             advance == JobCall("advance", id)
  <2>1. Call(<<rest>>) \/ Call(<<advance, rest>>)
    BY <1>3
  <2> HIDE DEF rest, advance
  <2>2. rest \in Pending' /\ \A f \in Pending : f # Top => f \in Pending'
    BY <1>1, <2>1, OneCall, TwoCalls
  <2> QED BY <1>1, <1>3, <2>2, VisitWaits DEF rest
<1> QED BY <1>2, <1>3 DEF OnJobCompleted

\* poke_failed likewise; it is not what releases anybody.
LEMMA PokeFailedWaits ==
  ASSUME TypeOK, WaitInv, PokeFailed
  PROVE  WaitInv'
<1>1. Calling("poke") /\ UNCHANGED <<unit_job, next_job, completed_jobs>>
  BY DEF PokeFailed
<1>2. CASE stack' = Return /\ UNCHANGED jobs
  BY <1>1, <1>2, Returned, SameJobsWaits DEF engineVars
<1>3. ASSUME NEW id \in Top.ids, NEW f, NEW g, Call(<<f>>) \/ Call(<<f, g>>),
             \/ id \notin Waiters(Top.unit) /\ UNCHANGED jobs
             \/ /\ id \in Waiters(Top.unit)
                /\ \/ UpdateJob(id, [jobs[id] EXCEPT !.failed = TRUE])
                   \/ DropWait(id, Top.unit)
      PROVE  WaitInv'
  <2>1. \A k \in Pending : k # Top => k \in Pending'
    BY <1>1, <1>3, OneCall, TwoCalls
  <2> DEFINE op == "poke"
  <2>2. op # "enqueue_stop" /\ op # "completed" /\ Calling(op) /\ UNCHANGED unit_job
    BY <1>1
  <2> HIDE DEF op
  <2> QED BY <1>3, <2>1, <2>2, VisitWaits
<1> QED BY <1>2, <1>3 DEF PokeFailed

\* The calls of a unit's start and stop leave the job table alone.
LEMMA ServiceWaits ==
  ASSUME TypeOK, WaitInv, DoStart \/ SpawnControl \/ FinalizeStop
  PROVE  WaitInv'
<1>1. UNCHANGED engineVars
  BY DEF DoStart, SpawnControl, FinalizeStop
<1>2. PICK op \in {"do_start", "spawn", "finalize"} : Calling(op)
  BY DEF DoStart, SpawnControl, FinalizeStop
<1> DEFINE u == Top.unit
<1>3. u \in Units
  BY <1>2, CallType DEF UnitOps
<1>4. CASE stack' = Return
  BY <1>1, <1>2, <1>4, Returned, SameJobsWaits
<1>5. ASSUME NEW S, NEW frames \in Seq(S), Call(frames)
      PROVE  WaitInv'
  <2>1. \A k \in Pending : k # Top => k \in Pending'
    BY <1>2, <1>5, CallsMade
  <2> QED BY <1>1, <1>2, <2>1, SameJobsWaits
<1>6. \A f : <<f>> \in Seq({f})
  OBVIOUS
<1>7. <<>> \in Seq(Frame)
  OBVIOUS
<1>8. ASSUME NEW rec, NEW cmd, StageDone(rec, u, cmd)
      PROVE  \E frames : Call(frames) /\ \E S : frames \in Seq(S)
  BY <1>3, <1>6, <1>7, <1>8, FailCallsType DEF StageDone
<1>9. FailCalls(u) \in Seq(Frame) /\ CompleteStart(u) \in Seq(Frame)
  BY <1>3, FailCallsType
<1>10. CASE DoStart
  BY <1>4, <1>5, <1>6, <1>9, <1>10 DEF DoStart
<1>11. CASE SpawnControl
  BY <1>4, <1>5, <1>6, <1>8, <1>9, <1>11 DEF SpawnControl, Spawned
<1>12. CASE FinalizeStop
  BY <1>5, <1>6, <1>7, <1>12 DEF FinalizeStop
<1> QED BY <1>10, <1>11, <1>12

\* So do the loops and dispatching calls of the engine.
LEMMA DispatchWaits ==
  ASSUME TypeOK, WaitInv,
         \/ TryAdvanceJob \/ SetExited \/ StopAll \/ ExpandConflicts \/ StopDependents
         \/ FireOnFailure
  PROVE  WaitInv'
<1>1. UNCHANGED engineVars
  BY DEF TryAdvanceJob, SetExited, StopAll, ExpandConflicts, StopDependents, FireOnFailure
<1>2. PICK op \in {"advance", "set_exited", "stop_all", "conflicts", "stop_deps", "on_failure"} :
        Calling(op)
  BY DEF TryAdvanceJob, SetExited, StopAll, ExpandConflicts, StopDependents, FireOnFailure
<1>3. stack' = Return \/ (\E f : Call(<<f>>)) \/ (\E f, g : Call(<<f, g>>))
  <2>1. ExpandConflicts => (\E f : Call(<<f>>)) \/ (\E f, g : Call(<<f, g>>))
    BY DEF ExpandConflicts
  <2>2. StopDependents => (\E f : Call(<<f>>)) \/ (\E f, g : Call(<<f, g>>))
    BY DEF StopDependents
  <2> QED BY <2>1, <2>2 DEF TryAdvanceJob, SetExited, StopAll, FireOnFailure
<1>4. \A k \in Pending : k # Top => k \in Pending'
  BY <1>2, <1>3, Returned, OneCall, TwoCalls
<1> QED BY <1>1, <1>2, <1>4, SameJobsWaits

\* Every call keeps what the waiting jobs wait for.
LEMMA EngineWaits ==
  ASSUME TypeOK, IndexInv, WaitInv, CallNext
  PROVE  WaitInv'
BY ProcessJobsWaits, DispatchWaits, ServiceWaits, StartUnitWaits, StopUnitWaits,
   EnqueueStartWaits, EnqueueStopWaits, ExpandOpenWaits, ExpandCommitWaits,
   MaybeStartWaits, MaybeStopWaits, FinishJobWaits, OnJobCompletedWaits, PokeFailedWaits
   DEF CallNext, EngineNext, ServiceNext

\* An event that leaves the job table alone.
LEMMA QuietEventWaits ==
  ASSUME WaitInv, stack = <<>>, UNCHANGED engineVars
  PROVE  WaitInv'
<1>1. Pending = {}
  BY DEF Pending
<1>2. \A i, v : Awaited(i, v) => Awaited(i, v)'
  BY <1>1 DEF Awaited, engineVars
<1> QED BY <1>2, WaitsKept DEF engineVars

\* restart drops a pending start, and the stop it asks for takes its place.
LEMMA RestartWaits ==
  ASSUME TypeOK, IndexInv, WaitInv, NEW u \in Units, RequestRestart(u)
  PROVE  WaitInv'
<1> DEFINE f == EnqueueStop(u, TRUE, FALSE)
<1>1. stack = <<>>
  BY DEF RequestRestart, Request, Quiescent
<1>2. CASE UNCHANGED engineVars
  BY <1>1, <1>2, QuietEventWaits
<1>3. CASE /\ stack' = <<f, Process>>
           /\ jobs' = [i \in DOMAIN jobs \ {unit_job[u]} |-> jobs[i]]
           /\ unit_job' = [unit_job EXCEPT ![u] = 0]
  <2>1. f \in Pending'
    <3> HIDE DEF f
    <3>1. 1 \in DOMAIN stack' /\ stack'[1] = f
      BY <1>3
    <3> QED BY <3>1 DEF Pending
  <2>2. f.op = "enqueue_stop" /\ f.unit = u
    BY DEF EnqueueStop, Frm
  <2> HIDE DEF f
  <2>3. \A i, v : unit_job[v] # 0 => Awaited(i, v)'
    BY <1>3, <2>1, <2>2 DEF Awaited, TypeOK, JobsTypeOK
  <2>4. \A i \in DOMAIN jobs' : i \in DOMAIN jobs /\ jobs'[i] = jobs[i]
    BY <1>3
  <2> QED BY <1>1, <2>3, <2>4, QuietWaits DEF WaitInv
<1> QED BY <1>2, <1>3 DEF RequestRestart, engineVars

\* start_ignore_dependencies replaces the unit's job, for whose end nobody waits
\* any longer.
LEMMA StartIgnoreWaits ==
  ASSUME TypeOK, IndexInv, WaitInv, NEW u \in Units, RequestStartIgnore(u)
  PROVE  WaitInv'
<1>1. stack = <<>> /\ next_job \in Nat
  BY DEF RequestStartIgnore, Request, Quiescent, TypeOK, JobsTypeOK
<1>2. \A v : unit_job[v] # 0 => unit_job'[v] # 0
  BY <1>1 DEF RequestStartIgnore, TypeOK, JobsTypeOK
<1>3. ASSUME NEW i \in DOMAIN jobs', i # next_job + 1
      PROVE  /\ i \in DOMAIN jobs /\ jobs'[i].failed = jobs[i].failed
             /\ jobs'[i].waiting \subseteq jobs[i].waiting
  <2>1. i \in DOMAIN jobs /\ jobs[i] \in Job
    BY <1>3 DEF RequestStartIgnore, TypeOK, JobsTypeOK
  <2>2. jobs'[i] = IF unit_job[u] = 0 THEN jobs[i]
                   ELSE [jobs[i] EXCEPT !.waiting = {w \in @ : w.unit # u}]
    BY <1>3 DEF RequestStartIgnore
  <2> QED BY <2>1, <2>2 DEF Job
<1>4. next_job + 1 \in DOMAIN jobs' => jobs'[next_job + 1].waiting = {}
  BY DEF RequestStartIgnore
<1>5. \A i \in DOMAIN jobs' : jobs'[i].failed \/ \A w \in jobs'[i].waiting : unit_job'[w.unit] # 0
  BY <1>1, <1>2, <1>3, <1>4, QuietWaits
<1> QED BY <1>5 DEF WaitInv, Awaited

\* Every step keeps what the waiting jobs wait for.
LEMMA NextWaits ==
  TypeOK /\ IndexInv /\ WaitInv /\ [Next]_managerVars => WaitInv'
<1> SUFFICES ASSUME TypeOK, IndexInv, WaitInv, [Next]_managerVars PROVE WaitInv'
  OBVIOUS
<1>1. CASE EventNext
  <2>1. UNCHANGED engineVars
    BY <1>1 DEF EventNext, FireTimer, ChildExits, Reap, SendReady, HandleNotify, Tick, Exit,
                Panic, engineVars
  <2>2. stack = <<>>
    BY <1>1 DEF EventNext, FireTimer, ChildExits, Reap, SendReady, HandleNotify, Tick, Exit,
                Quiescent
  <2> QED BY <2>1, <2>2, QuietEventWaits
<1>2. CASE RequestNext
  <2>1. ASSUME \/ \E u \in Units :
                    \/ RequestStart(u) \/ RequestStop(u) \/ RequestReload(u)
                    \/ RequestIsolate(u) \/ RequestResetFailed(u) \/ RequestKill(u)
               \/ DaemonReload \/ Shutdown
        PROVE  UNCHANGED engineVars /\ stack = <<>>
    BY <2>1 DEF RequestStart, RequestStop, RequestReload, RequestIsolate,
                RequestResetFailed, RequestKill, DaemonReload, Shutdown, Panic, engineVars,
                Request, Quiescent
  <2> QED BY <1>2, <2>1, QuietEventWaits, RestartWaits, StartIgnoreWaits DEF RequestNext
<1>3. CASE CallNext
  BY <1>3, EngineWaits
<1>4. CASE UNCHANGED managerVars
  <2>1. UNCHANGED <<jobs, unit_job, stack>>
    BY <1>4 DEF managerVars, vars
  <2>2. Pending' = Pending
    BY <2>1 DEF Pending
  <2> QED BY <2>1, <2>2 DEF WaitInv, Awaited
<1> QED BY <1>1, <1>2, <1>3, <1>4 DEF Next

\* In every configuration, and whatever was cancelled, replaced, withdrawn or
\* failed on the way: when the manager is back in its loop, a job that waits and
\* did not fail waits for units that have a job, whose end will visit it.
THEOREM NoDanglingWaitCorrect == Spec => []NoDanglingWait
<1>1. Spec => [](TypeOK /\ IndexInv)
  BY TypeCorrect, InitIndex, NextIndex, PTL DEF Spec
<1>2. Init => WaitInv
  BY DEF Init, Idle, WaitInv
<1>3. Spec => []WaitInv
  BY <1>1, <1>2, NextWaits, PTL DEF Spec
<1>4. WaitInv => NoDanglingWait
  BY QuietWaits DEF NoDanglingWait, Quiescent
<1> QED BY <1>3, <1>4, PTL

-----------------------------------------------------------------------------
(* Shutdown makes no Start job.                                            *)

\* A call that makes no Start job once shutdown has begun, asks for none, and calls
\* no unit active that was being stopped
Harmless(f) ==
  /\ f.op = "enqueue_stop" => ~f.ok
  /\ shutting_down => f.op \notin {"enqueue_start", "conflicts", "open", "set_exited"}

NoRestartJobs == \A id \in DOMAIN jobs : ~jobs[id].start_after_stop

ShutdownInv == NoRestartJobs /\ \A f \in Pending : Harmless(f)

\* The innermost call is harmless, too.
LEMMA TopHarmless ==
  ASSUME TypeOK, ShutdownInv, NEW op, Calling(op)
  PROVE  Top \in Pending /\ Harmless(Top) /\ Top.op = op
<1>1. stack \in Seq(Frame) /\ stack # <<>>
  BY DEF TypeOK, Calling
<1>2. 1 \in DOMAIN stack /\ Top = stack[1]
  BY <1>1 DEF Top
<1> QED BY <1>2 DEF Calling, Pending, ShutdownInv

\* A call that makes harmless calls and no restart job.
LEMMA HarmlessCalls ==
  ASSUME TypeOK, ShutdownInv, NEW op, Calling(op), NEW S, NEW frames \in Seq(S), Call(frames),
         \A k \in DOMAIN frames : Harmless(frames[k]),
         UNCHANGED shutting_down, NoRestartJobs'
  PROVE  ShutdownInv'
<1>1. \A f : Harmless(f) => Harmless(f)'
  BY DEF Harmless
<1>2. \A f \in Pending' : f \in Pending \/ \E k \in DOMAIN frames : f = frames[k]
  BY CallsMade
<1>3. \A f \in Pending' : Harmless(f)'
  BY <1>1, <1>2 DEF ShutdownInv
<1> QED BY <1>3 DEF ShutdownInv

\* Calls that are harmless before and after
Calm(f) ==
  /\ f.op = "enqueue_stop" => ~f.ok
  /\ f.op \notin {"enqueue_start", "conflicts", "open", "set_exited"}

\* Which calls are harmless whatever they are about.
LEMMA CalmOps ==
  ASSUME NEW u, NEW id, NEW ok, NEW cmd, NEW todo, NEW waiting
  PROVE  /\ \A op \in {"advance", "maybe_start", "maybe_stop", "process"} :
              Calm(JobCall(op, id))
         /\ \A op \in {"do_start", "finalize", "start"} : Calm(UnitCall(op, u))
         /\ \A op \in {"stop_all", "stop_deps", "on_failure", "commit"} :
              Calm(Loop(op, u, id, todo, waiting))
         /\ Calm(Finish(id, ok)) /\ Calm(Spawn(u, cmd, id)) /\ Calm(Stop(u, ok))
         /\ Calm(EnqueueStop(u, FALSE, ok)) /\ Calm(Process)
         /\ Calm(Completed(u, ok)) /\ Calm(Poke(u))
BY DEF Calm, UnitCall, JobCall, Finish, Loop, Spawn, Stop, EnqueueStop, Process, Completed,
       Poke, Frm

\* So they are harmless.
LEMMA HarmlessOps ==
  ASSUME NEW u, NEW id, NEW ok, NEW cmd, NEW todo, NEW waiting
  PROVE  /\ \A op \in {"advance", "maybe_start", "maybe_stop", "process"} :
              Harmless(JobCall(op, id))
         /\ \A op \in {"do_start", "finalize", "start"} : Harmless(UnitCall(op, u))
         /\ \A op \in {"stop_all", "stop_deps", "on_failure", "commit"} :
              Harmless(Loop(op, u, id, todo, waiting))
         /\ Harmless(Finish(id, ok)) /\ Harmless(Spawn(u, cmd, id)) /\ Harmless(Stop(u, ok))
         /\ Harmless(EnqueueStop(u, FALSE, ok)) /\ Harmless(Process)
         /\ Harmless(Completed(u, ok)) /\ Harmless(Poke(u))
BY CalmOps DEF Calm, Harmless

\* Before shutdown, so are the calls that make Start jobs or take a stop back.
LEMMA EarlyHarmless ==
  ASSUME ~shutting_down, NEW u, NEW id, NEW todo, NEW waiting
  PROVE  /\ \A op \in {"enqueue_start", "set_exited"} : Harmless(UnitCall(op, u))
         /\ \A op \in {"conflicts", "open"} : Harmless(Loop(op, u, id, todo, waiting))
BY DEF Harmless, UnitCall, Loop, Frm

\* A return.
LEMMA HarmlessReturn ==
  ASSUME TypeOK, ShutdownInv, NEW op, Calling(op), stack' = Return,
         UNCHANGED shutting_down, NoRestartJobs'
  PROVE  ShutdownInv'
<1>1. \A f : Harmless(f) => Harmless(f)'
  BY DEF Harmless
<1>2. Pending' \subseteq Pending
  BY Returned
<1> QED BY <1>1, <1>2 DEF ShutdownInv

\* One harmless call.
LEMMA HarmlessOne ==
  ASSUME TypeOK, ShutdownInv, NEW op, Calling(op), NEW f, Call(<<f>>), Harmless(f),
         UNCHANGED shutting_down, NoRestartJobs'
  PROVE  ShutdownInv'
<1>1. \A g : Harmless(g) => Harmless(g)'
  BY DEF Harmless
<1>2. Pending' \subseteq Pending \cup {f}
  BY OneCall
<1> QED BY <1>1, <1>2 DEF ShutdownInv

\* Two harmless calls.
LEMMA HarmlessTwo ==
  ASSUME TypeOK, ShutdownInv, NEW op, Calling(op), NEW f, NEW g, Call(<<f, g>>),
         Harmless(f), Harmless(g), UNCHANGED shutting_down, NoRestartJobs'
  PROVE  ShutdownInv'
<1>1. \A h : Harmless(h) => Harmless(h)'
  BY DEF Harmless
<1>2. Pending' \subseteq Pending \cup {f, g}
  BY TwoCalls
<1> QED BY <1>1, <1>2 DEF ShutdownInv

\* The job table has no restart job when it changes as these primitives do.
LEMMA NoRestartKept ==
  ASSUME JobsTypeOK, NoRestartJobs,
         \/ UNCHANGED jobs
         \/ \E id, ok : RemoveJob(id, ok)
         \/ \E u, kind, irreversible, failed, expanding :
              NewJob(u, kind, irreversible, FALSE, failed, expanding)
         \/ \E id, job : /\ UpdateJob(id, job)
                         /\ id \in DOMAIN jobs => job.start_after_stop = jobs[id].start_after_stop
  PROVE  NoRestartJobs'
<1>1. CASE \E id, ok : RemoveJob(id, ok)
  BY <1>1 DEF RemoveJob, NoRestartJobs
<1>2. CASE \E u, kind, irreversible, failed, expanding :
             NewJob(u, kind, irreversible, FALSE, failed, expanding)
  BY <1>2 DEF NewJob, NoRestartJobs
<1>3. CASE \E id, job : /\ UpdateJob(id, job)
                        /\ id \in DOMAIN jobs => job.start_after_stop = jobs[id].start_after_stop
  BY <1>3 DEF UpdateJob, NoRestartJobs
<1>4. CASE UNCHANGED jobs
  BY <1>4 DEF NoRestartJobs
<1> QED BY <1>1, <1>2, <1>3, <1>4

\* start asks for a Start job only before shutdown.
LEMMA StartUnitShutdown ==
  ASSUME TypeOK, ShutdownInv, StartUnit
  PROVE  ShutdownInv'
<1>1. Calling("start") /\ JobsTypeOK /\ NoRestartJobs /\ UNCHANGED shutting_down
  BY DEF StartUnit, TypeOK, ShutdownInv, outside
<1>2. NoRestartJobs'
  BY <1>1, NoRestartKept DEF StartUnit, engineVars
<1>3. CASE stack' = Return
  BY <1>1, <1>2, <1>3, HarmlessReturn
<1>4. CASE UNCHANGED stack
  BY <1>1, <1>2, <1>4 DEF ShutdownInv, Pending, Harmless
<1>5. ASSUME NEW u, ~shutting_down, Call(<<Completed(u, FALSE), UnitCall("set_exited", u)>>)
      PROVE  ShutdownInv'
  BY <1>1, <1>2, <1>5, HarmlessTwo, HarmlessOps, EarlyHarmless
<1>6. ASSUME NEW u, ~shutting_down, Call(<<UnitCall("enqueue_start", u), Process>>)
      PROVE  ShutdownInv'
  BY <1>1, <1>2, <1>6, HarmlessTwo, HarmlessOps, EarlyHarmless
<1> QED BY <1>3, <1>4, <1>5, <1>6 DEF StartUnit, StartRefused

\* stop asks for Stop jobs that start nothing afterwards.
LEMMA StopUnitShutdown ==
  ASSUME TypeOK, ShutdownInv, StopUnit
  PROVE  ShutdownInv'
<1> DEFINE u == Top.unit
           jid == unit_job[u]
           job == [jobs[jid] EXCEPT !.irreversible = @ \/ Top.irreversible]
           f == Completed(u, FALSE)
           g == EnqueueStop(u, FALSE, Top.irreversible)
<1>1. Calling("stop") /\ JobsTypeOK /\ NoRestartJobs /\ UNCHANGED shutting_down
  BY DEF StopUnit, TypeOK, ShutdownInv, outside
<1>2. NoRestartJobs'
  <2>1. jid \in DOMAIN jobs => job.start_after_stop = jobs[jid].start_after_stop
    BY <1>1 DEF JobsTypeOK, Job
  <2>2. \/ UNCHANGED jobs \/ RemoveJob(jid, FALSE) \/ UpdateJob(jid, job)
    BY DEF StopUnit, engineVars
  <2> HIDE DEF job, jid
  <2> QED BY <1>1, <2>1, <2>2, NoRestartKept
<1>3. CASE stack' = Return
  BY <1>1, <1>2, <1>3, HarmlessReturn
<1>4. Harmless(f) /\ Harmless(g) /\ Harmless(Process)
  BY HarmlessOps
<1>5. CASE Call(<<g, Process>>)
  BY <1>1, <1>2, <1>4, <1>5, HarmlessTwo
<1>6. CASE Call(<<f>> \o <<g, Process>>)
  <2> DEFINE h == Process
             frames == <<f>> \o <<g, h>>
  <2>1. Call(frames) /\ Harmless(h)
    BY <1>4, <1>6
  <2> HIDE DEF f, g, h
  <2>2. frames \in Seq({f, g, h}) /\ \A k \in DOMAIN frames : frames[k] \in {f, g, h}
    OBVIOUS
  <2> HIDE DEF frames
  <2>3. \A k \in DOMAIN frames : Harmless(frames[k])
    BY <1>4, <2>1, <2>2
  <2> QED BY <1>1, <1>2, <2>1, <2>2, <2>3, HarmlessCalls
<1> QED BY <1>3, <1>5, <1>6 DEF StopUnit

\* enqueue_start_job only runs before shutdown.
LEMMA EnqueueStartShutdown ==
  ASSUME TypeOK, ShutdownInv, EnqueueStart
  PROVE  ShutdownInv' /\ ~shutting_down
<1>1. Calling("enqueue_start") /\ JobsTypeOK /\ NoRestartJobs /\ UNCHANGED shutting_down
  BY DEF EnqueueStart, TypeOK, ShutdownInv, outside
<1>2. ~shutting_down
  BY <1>1, TopHarmless DEF Harmless
<1>3. NoRestartJobs'
  BY <1>1, NoRestartKept DEF EnqueueStart
<1>4. \/ \E f : Call(<<f>>) /\ Harmless(f)
      \/ \E f, g : Call(<<f, g>>) /\ Harmless(f) /\ Harmless(g)
  <2>1. /\ \A id, ok : Harmless(Finish(id, ok))
        /\ \A u, todo : Harmless(Loop("on_failure", u, 0, todo, {}))
    BY HarmlessOps
  <2>2. \A u, id, todo, waiting : Harmless(Loop("conflicts", u, id, todo, waiting))
    BY <1>2, EarlyHarmless
  <2> QED BY <2>1, <2>2 DEF EnqueueStart
<1> QED BY <1>1, <1>2, <1>3, <1>4, HarmlessOne, HarmlessTwo

\* So do the loops of its expansion.
LEMMA ExpandShutdown ==
  ASSUME TypeOK, ShutdownInv, ExpandConflicts \/ ExpandOpen
  PROVE  ShutdownInv'
<1>1. PICK op \in {"conflicts", "open"} : Calling(op)
  BY DEF ExpandConflicts, ExpandOpen
<1>2. JobsTypeOK /\ NoRestartJobs /\ UNCHANGED shutting_down
  BY DEF ExpandConflicts, ExpandOpen, TypeOK, ShutdownInv
<1>3. ~shutting_down
  BY <1>1, TopHarmless DEF Harmless
<1>4. NoRestartJobs'
  <2>1. CASE UNCHANGED jobs
    BY <1>2, <2>1 DEF NoRestartJobs
  <2>2. CASE jobs' = [i \in DOMAIN jobs |->
                        IF i = Top.id THEN [jobs[i] EXCEPT !.failed = TRUE] ELSE jobs[i]]
    <3>1. \A i \in DOMAIN jobs : jobs[i] \in Job
      BY <1>2 DEF JobsTypeOK
    <3> QED BY <1>2, <2>2, <3>1 DEF NoRestartJobs, Job
  <2> QED BY <2>1, <2>2 DEF ExpandConflicts, ExpandOpen, engineVars
<1>5. ExpandConflicts => \/ \E f : Call(<<f>>) /\ Harmless(f)
                         \/ \E f, g : Call(<<f, g>>) /\ Harmless(f) /\ Harmless(g)
  <2>1. \A u, after, ok : after = FALSE => Harmless(EnqueueStop(u, after, ok))
    BY HarmlessOps
  <2>2. \A next \in {"conflicts", "open"} : \A u, id, todo, waiting :
          Harmless(Loop(next, u, id, todo, waiting))
    BY <1>3, EarlyHarmless
  <2> QED BY <2>1, <2>2 DEF ExpandConflicts
<1>6. ASSUME ExpandOpen
      PROVE  \/ \E f : Call(<<f>>) /\ Harmless(f)
             \/ \E f, g : Call(<<f, g>>) /\ Harmless(f) /\ Harmless(g)
  <2>1. /\ \A u, id, todo, waiting : Harmless(Loop("open", u, id, todo, waiting))
        /\ \A u, id, todo, waiting : Harmless(Loop("commit", u, id, todo, waiting))
        /\ \A u : Harmless(UnitCall("enqueue_start", u))
        /\ \A id : Harmless(JobCall("maybe_start", id))
    BY <1>3, HarmlessOps, EarlyHarmless
  <2> QED BY <1>6, <2>1 DEF ExpandOpen
<1> QED BY <1>1, <1>2, <1>4, <1>5, <1>6, HarmlessOne, HarmlessTwo

\* enqueue_stop_job makes a Stop job that starts nothing afterwards.
LEMMA EnqueueStopShutdown ==
  ASSUME TypeOK, ShutdownInv, EnqueueStopJob
  PROVE  ShutdownInv' /\ NewJob(Top.unit, "Stop", Top.irreversible, FALSE, FALSE, FALSE)
<1>1. Calling("enqueue_stop") /\ JobsTypeOK /\ NoRestartJobs /\ UNCHANGED shutting_down
  BY DEF EnqueueStopJob, TypeOK, ShutdownInv, outside
<1>2. Top.ok = FALSE
  <2>1. Top \in Frame
    BY <1>1, CallType
  <2> QED BY <1>1, <2>1, TopHarmless DEF Harmless, Frame
<1>3. NewJob(Top.unit, "Stop", Top.irreversible, FALSE, FALSE, FALSE)
  BY <1>2 DEF EnqueueStopJob
<1>4. NoRestartJobs'
  BY <1>1, <1>3, NoRestartKept
<1>5. \E f : Call(<<f>>) /\ Harmless(f)
  BY HarmlessOps DEF EnqueueStopJob
<1> QED BY <1>1, <1>3, <1>4, <1>5, HarmlessOne

\* A finished Stop job starts its unit again only if a restart asked for it.
LEMMA FinishJobShutdown ==
  ASSUME TypeOK, ShutdownInv, FinishJob
  PROVE  ShutdownInv'
<1>1. Calling("finish") /\ JobsTypeOK /\ NoRestartJobs /\ UNCHANGED shutting_down
  BY DEF FinishJob, TypeOK, ShutdownInv, outside
<1>2. NoRestartJobs'
  BY <1>1, NoRestartKept DEF FinishJob, engineVars
<1>3. CASE stack' = Return
  BY <1>1, <1>2, <1>3, HarmlessReturn
<1>4. ASSUME NEW u, Call(<<Completed(u, Top.ok)>> \o <<>>)
      PROVE  ShutdownInv'
  <2> DEFINE f == Completed(u, Top.ok)
  <2>1. Harmless(f) /\ Call(<<f>> \o <<>>)
    BY <1>4, HarmlessOps
  <2> HIDE DEF f
  <2>2. <<f>> \o <<>> = <<f>>
    OBVIOUS
  <2> QED BY <1>1, <1>2, <2>1, <2>2, HarmlessOne
<1> QED BY <1>1, <1>3, <1>4 DEF FinishJob, NoRestartJobs

\* The visits to the waiting jobs leave everything but failed and waiting alone.
LEMMA VisitShutdown ==
  ASSUME TypeOK, ShutdownInv, OnJobCompleted \/ PokeFailed
  PROVE  ShutdownInv'
<1>1. PICK op \in {"completed", "poke"} : Calling(op)
  BY DEF OnJobCompleted, PokeFailed
<1>2. JobsTypeOK /\ NoRestartJobs /\ UNCHANGED shutting_down
  BY DEF OnJobCompleted, PokeFailed, TypeOK, ShutdownInv
<1>3. NoRestartJobs'
  <2>1. CASE UNCHANGED jobs
    BY <1>2, <2>1, NoRestartKept
  <2>2. ASSUME NEW id \in Waiters(Top.unit),
               \/ UpdateJob(id, [jobs[id] EXCEPT !.failed = TRUE])
               \/ DropWait(id, Top.unit)
        PROVE  NoRestartJobs'
    <3>1. jobs[id] \in Job
      BY <1>2 DEF Waiters, JobsTypeOK
    <3>2. PICK job : UpdateJob(id, job) /\ job.start_after_stop = jobs[id].start_after_stop
      BY <2>2, <3>1 DEF DropWait, Job
    <3> QED BY <1>2, <3>2, NoRestartKept
  <2> QED BY <2>1, <2>2 DEF OnJobCompleted, PokeFailed
<1>4. CASE stack' = Return
  BY <1>1, <1>2, <1>3, <1>4, HarmlessReturn
<1>5. ASSUME NEW id, NEW f, f = [Top EXCEPT !.ids = @ \ {id}],
             \/ Call(<<f>>)
             \/ Call(<<JobCall("advance", id), f>>)
             \/ Call(<<Finish(id, FALSE), f>>)
      PROVE  ShutdownInv'
  <2>1. Harmless(f)
    <3>1. Top \in Frame /\ Top.op = op
      BY <1>1, CallType
    <3>2. f.op = op
      BY <1>5, <3>1 DEF Frame
    <3> QED BY <1>1, <3>2 DEF Harmless
  <2>2. Harmless(JobCall("advance", id)) /\ Harmless(Finish(id, FALSE))
    BY HarmlessOps
  <2> QED BY <1>1, <1>2, <1>3, <1>5, <2>1, <2>2, HarmlessOne, HarmlessTwo
<1> QED BY <1>4, <1>5 DEF OnJobCompleted, PokeFailed

\* The other calls of the engine make no Start job and ask for none.
LEMMA DispatchShutdown ==
  ASSUME TypeOK, ShutdownInv,
         \/ TryAdvanceJob \/ SetExited \/ StopAll \/ ExpandCommit \/ StopDependents
         \/ FireOnFailure
  PROVE  ShutdownInv'
<1>1. PICK op \in {"advance", "set_exited", "stop_all", "commit", "stop_deps", "on_failure"} :
        Calling(op)
  BY DEF TryAdvanceJob, SetExited, StopAll, ExpandCommit, StopDependents, FireOnFailure
<1>2. JobsTypeOK /\ NoRestartJobs /\ UNCHANGED shutting_down
  BY DEF TryAdvanceJob, SetExited, StopAll, ExpandCommit, StopDependents, FireOnFailure,
         TypeOK, ShutdownInv, outside
<1>3. NoRestartJobs'
  <2>1. CASE ~ExpandCommit
    BY <1>2, <2>1, NoRestartKept
       DEF TryAdvanceJob, SetExited, StopAll, StopDependents, FireOnFailure, engineVars
  <2>2. CASE ExpandCommit
    <3>1. \/ UNCHANGED jobs
          \/ \E failed, waiting :
               UpdateJob(Top.id, [jobs[Top.id] EXCEPT !.failed = failed, !.waiting = waiting,
                                                      !.expanding = FALSE])
      BY <2>2 DEF ExpandCommit
    <3>2. \A failed, waiting : Top.id \in DOMAIN jobs =>
            [jobs[Top.id] EXCEPT !.failed = failed, !.waiting = waiting,
                                 !.expanding = FALSE].start_after_stop
              = jobs[Top.id].start_after_stop
      BY <1>2 DEF JobsTypeOK, Job
    <3> QED BY <1>2, <3>1, <3>2, NoRestartKept
  <2> QED BY <2>1, <2>2
<1>4. \/ stack' = Return
      \/ \E f : Call(<<f>>) /\ Harmless(f)
      \/ \E f, g : Call(<<f, g>>) /\ Harmless(f) /\ Harmless(g)
  <2>1. /\ \A id : Harmless(JobCall("maybe_start", id)) /\ Harmless(JobCall("maybe_stop", id))
        /\ \A id : Harmless(Finish(id, FALSE))
        /\ \A u, id, todo, waiting : /\ Harmless(Loop("stop_all", u, id, todo, waiting))
                                     /\ Harmless(Loop("stop_deps", u, id, todo, waiting))
                                     /\ Harmless(Loop("on_failure", u, id, todo, waiting))
        /\ \A u : Harmless(Stop(u, FALSE)) /\ Harmless(EnqueueStop(u, FALSE, FALSE))
        /\ \A u : Harmless(UnitCall("start", u))
        /\ Harmless(Process)
    BY HarmlessOps
  <2>2. TryAdvanceJob => stack' = Return \/ \E f : Call(<<f>>) /\ Harmless(f)
    BY <2>1 DEF TryAdvanceJob
  <2>3. StopDependents => \/ \E f : Call(<<f>>) /\ Harmless(f)
                          \/ \E f, g : Call(<<f, g>>) /\ Harmless(f) /\ Harmless(g)
    BY <2>1 DEF StopDependents
  <2>4. StopAll => \/ stack' = Return
                   \/ \E f, g : Call(<<f, g>>) /\ Harmless(f) /\ Harmless(g)
    BY <2>1 DEF StopAll
  <2>5. FireOnFailure => \/ \E f : Call(<<f>>) /\ Harmless(f)
                         \/ \E f, g : Call(<<f, g>>) /\ Harmless(f) /\ Harmless(g)
    BY <2>1 DEF FireOnFailure
  <2> QED BY <2>1, <2>2, <2>3, <2>4, <2>5 DEF SetExited, ExpandCommit
<1> QED BY <1>1, <1>2, <1>3, <1>4, HarmlessReturn, HarmlessOne, HarmlessTwo

\* Nor do the calls that start and stop a unit's processes.
LEMMA ServiceShutdown ==
  ASSUME TypeOK, ShutdownInv,
         \/ DoStart \/ SpawnControl \/ FinalizeStop \/ MaybeStartJob \/ MaybeStopJob
  PROVE  ShutdownInv'
<1>1. PICK op : Calling(op)
  BY DEF DoStart, SpawnControl, FinalizeStop, MaybeStartJob, MaybeStopJob
<1>2. JobsTypeOK /\ NoRestartJobs /\ UNCHANGED shutting_down
  BY DEF DoStart, SpawnControl, FinalizeStop, MaybeStartJob, MaybeStopJob, TypeOK,
         ShutdownInv, outside, Panic
<1>3. NoRestartJobs'
  <2>1. CASE UNCHANGED jobs
    BY <1>2, <2>1, NoRestartKept
  <2>2. ASSUME NEW id, NEW hit, id \in DOMAIN jobs,
               \/ UpdateJob(id, [jobs[id] EXCEPT !.started = TRUE, !.failed = hit])
               \/ UpdateJob(id, [jobs[id] EXCEPT !.started = TRUE])
        PROVE  NoRestartJobs'
    <3>1. jobs[id] \in Job
      BY <1>2, <2>2 DEF JobsTypeOK
    <3>2. /\ [jobs[id] EXCEPT !.started = TRUE, !.failed = hit].start_after_stop
               = jobs[id].start_after_stop
          /\ [jobs[id] EXCEPT !.started = TRUE].start_after_stop = jobs[id].start_after_stop
      BY <3>1 DEF Job
    <3>3. PICK job : UpdateJob(id, job) /\ job.start_after_stop = jobs[id].start_after_stop
      BY <2>2, <3>2
    <3> QED BY <1>2, <3>3, NoRestartKept
  <2> QED BY <2>1, <2>2 DEF DoStart, SpawnControl, FinalizeStop, MaybeStartJob, MaybeStopJob,
                            engineVars, Panic, RecentStarts
<1>4. CASE stack' = Return
  BY <1>1, <1>2, <1>3, <1>4, HarmlessReturn
<1>5. CASE UNCHANGED stack
  BY <1>2, <1>3, <1>5 DEF ShutdownInv, Pending, Harmless
<1>6. /\ \A id, ok : Harmless(Finish(id, ok))
      /\ \A u, cmd, idx : Harmless(Spawn(u, cmd, idx))
      /\ \A u : Harmless(UnitCall("do_start", u)) /\ Harmless(UnitCall("finalize", u))
      /\ \A u : Harmless(Poke(u))
      /\ \A u, todo : Harmless(Loop("on_failure", u, 0, todo, {}))
  BY HarmlessOps
<1>7. ASSUME NEW f, Call(<<f>>), Harmless(f)
      PROVE  ShutdownInv'
  BY <1>1, <1>2, <1>3, <1>7, HarmlessOne
<1>8. ASSUME NEW u, Call(FailCalls(u))
      PROVE  ShutdownInv'
  BY <1>1, <1>2, <1>3, <1>6, <1>8, HarmlessTwo DEF FailCalls
<1>9. ASSUME Call(<<>>)
      PROVE  ShutdownInv'
  <2>1. <<>> \in Seq(Frame) /\ DOMAIN <<>> = {}
    OBVIOUS
  <2> QED BY <1>1, <1>2, <1>3, <1>9, <2>1, HarmlessCalls
<1>10. ASSUME NEW u, Call(CompleteStart(u))
       PROVE  ShutdownInv'
  BY <1>6, <1>7, <1>9, <1>10 DEF CompleteStart
<1>11. ASSUME NEW rec, NEW u, NEW cmd, StageDone(rec, u, cmd)
       PROVE  ShutdownInv'
  BY <1>6, <1>7, <1>9, <1>10, <1>11 DEF StageDone
<1>12. DoStart => ShutdownInv'
  BY <1>4, <1>6, <1>7, <1>10 DEF DoStart
<1>13. SpawnControl => ShutdownInv'
  BY <1>4, <1>8, <1>10, <1>11 DEF SpawnControl, Spawned
<1>14. FinalizeStop => ShutdownInv'
  BY <1>6, <1>7, <1>9 DEF FinalizeStop
<1>15. MaybeStartJob => ShutdownInv'
  BY <1>4, <1>5, <1>6, <1>7 DEF MaybeStartJob, RecentStarts, Panic
<1>16. MaybeStopJob => ShutdownInv'
  BY <1>4, <1>5, <1>6, <1>7 DEF MaybeStopJob, DoStop, Panic
<1> QED BY <1>12, <1>13, <1>14, <1>15, <1>16

\* process_jobs goes on to a job there is.
LEMMA ProcessJobsShutdown ==
  ASSUME TypeOK, ShutdownInv, ProcessJobs
  PROVE  ShutdownInv'
<1>1. Calling("process") /\ UNCHANGED <<jobs, shutting_down>> /\ stack \in Seq(Frame)
  BY DEF ProcessJobs, TypeOK, engineVars
<1>2. NoRestartJobs'
  BY <1>1 DEF NoRestartJobs, ShutdownInv
<1>3. CASE stack' = Return
  BY <1>1, <1>2, <1>3, HarmlessReturn
<1>4. ASSUME NEW id \in DOMAIN jobs, stack' = <<JobCall("advance", id)>> \o stack
      PROVE  ShutdownInv'
  <2> DEFINE f == JobCall("advance", id)
  <2>1. f \in Frame /\ Harmless(f)
    BY JobCallType, HarmlessOps DEF TypeOK, JobsTypeOK, Ops, UnitOps
  <2>2. stack' = <<f>> \o stack
    BY <1>4
  <2> HIDE DEF f
  <2>3. \A k \in DOMAIN stack' : stack'[k] = f \/ (k - 1 \in DOMAIN stack /\ stack'[k] = stack[k - 1])
    BY <1>1, <2>1, <2>2
  <2>4. Pending' \subseteq Pending \cup {f}
    BY <2>3 DEF Pending
  <2>5. \A g : Harmless(g) => Harmless(g)'
    BY <1>1 DEF Harmless
  <2> QED BY <1>2, <2>1, <2>4, <2>5 DEF ShutdownInv
<1> QED BY <1>3, <1>4 DEF ProcessJobs

\* An event starts from no call, and the calls it makes are harmless.
LEMMA EventShutdown ==
  ASSUME ShutdownInv, UNCHANGED jobs, stack = <<>>,
         \/ UNCHANGED stack
         \/ \E f : stack' = <<f>> /\ Calm(f)
         \/ \E f, g : stack' = <<f, g>> /\ Calm(f) /\ Calm(g)
  PROVE  ShutdownInv'
<1>1. NoRestartJobs'
  BY DEF ShutdownInv, NoRestartJobs
<1>2. CASE UNCHANGED stack
  <2>1. Pending' = {}
    BY <1>2 DEF Pending
  <2> QED BY <1>1, <2>1 DEF ShutdownInv
<1>3. ASSUME NEW f, stack' = <<f>>, Calm(f)
      PROVE  ShutdownInv'
  <2>1. Pending' = {f}
    BY <1>3 DEF Pending
  <2> QED BY <1>1, <1>3, <2>1 DEF ShutdownInv, Calm, Harmless
<1>4. ASSUME NEW f, NEW g, stack' = <<f, g>>, Calm(f), Calm(g)
      PROVE  ShutdownInv'
  <2>1. Pending' = {f, g}
    BY <1>4 DEF Pending
  <2> QED BY <1>1, <1>4, <2>1 DEF ShutdownInv, Calm, Harmless
<1> QED BY <1>2, <1>3, <1>4

\* What a request other than the two asks for is harmless.
LEMMA RequestShutdown ==
  ASSUME Requests \cap {"restart", "start-ignore-dependencies"} = {},
         ShutdownInv, RequestNext
  PROVE  ShutdownInv' /\ UNCHANGED jobs
<1>1. stack = <<>>
  BY DEF RequestNext, RequestStart, RequestStop, RequestRestart, RequestStartIgnore,
         RequestReload, RequestIsolate, RequestResetFailed, RequestKill, DaemonReload,
         Shutdown, Request, Quiescent
<1>2. \A u \in Units : ~RequestRestart(u) /\ ~RequestStartIgnore(u)
  BY DEF RequestRestart, RequestStartIgnore, Request
<1>3. UNCHANGED jobs
  BY <1>2 DEF RequestNext, RequestStart, RequestStop, RequestReload, RequestIsolate,
              RequestResetFailed, RequestKill, DaemonReload, Shutdown, Panic, engineVars
<1>4. /\ \A u : Calm(UnitCall("start", u)) /\ Calm(Spawn(u, "Reload", 0))
      /\ \A u, irreversible : Calm(Stop(u, irreversible))
      /\ \A todo : Calm(Loop("stop_all", NoUnit, 0, todo, {}))
      /\ Calm(Process)
  BY CalmOps
<1>5. \/ UNCHANGED stack
      \/ \E f : stack' = <<f>> /\ Calm(f)
      \/ \E f, g : stack' = <<f, g>> /\ Calm(f) /\ Calm(g)
  <2>1. DaemonReload \/ (\E u \in Units : RequestResetFailed(u) \/ RequestKill(u)) => UNCHANGED stack
    BY DEF DaemonReload, RequestResetFailed, RequestKill, Panic
  <2>2. Shutdown \/ (\E u \in Units : RequestIsolate(u)) =>
          \E f, g : stack' = <<f, g>> /\ Calm(f) /\ Calm(g)
    BY <1>4 DEF Shutdown, RequestIsolate
  <2>3. (\E u \in Units : RequestStart(u) \/ RequestStop(u) \/ RequestReload(u)) =>
          \E f : stack' = <<f>> /\ Calm(f)
    BY <1>4 DEF RequestStart, RequestStop, RequestReload
  <2> QED BY <1>2, <2>1, <2>2, <2>3 DEF RequestNext
<1> QED BY <1>1, <1>3, <1>5, EventShutdown

\* What an event calls is harmless.
LEMMA EventNextShutdown ==
  ASSUME ShutdownInv, EventNext
  PROVE  ShutdownInv' /\ UNCHANGED jobs
<1>1. stack = <<>> /\ UNCHANGED jobs
  BY DEF EventNext, FireTimer, ChildExits, Reap, SendReady, HandleNotify, Tick, Exit,
         Quiescent, Panic, engineVars
<1> DEFINE ok == \/ UNCHANGED stack
                 \/ \E f : stack' = <<f>> /\ Calm(f)
                 \/ \E f, g : stack' = <<f, g>> /\ Calm(f) /\ Calm(g)
<1>2. /\ \A id, b : Calm(Finish(id, b))
      /\ \A u, cmd, idx : Calm(Spawn(u, cmd, idx))
      /\ \A u : Calm(UnitCall("do_start", u)) /\ Calm(UnitCall("finalize", u)) /\ Calm(Poke(u))
      /\ \A u, todo : Calm(Loop("on_failure", u, 0, todo, {}))
      /\ Calm(Process)
  BY CalmOps
<1>3. \A u : stack' = CompleteStart(u) => ok
  BY <1>1, <1>2 DEF CompleteStart
<1>4. \A u : stack' = FailCalls(u) => ok
  BY <1>2 DEF FailCalls
<1>5. ASSUME NEW u, NEW kind, FireTimer(u, kind)
      PROVE  ok
  BY <1>2, <1>4, <1>5 DEF FireTimer
<1>6. ASSUME NEW u, NEW rec, NEW exit, HandleActiveExit(u, rec, exit)
      PROVE  ok
  BY <1>1, <1>2, <1>3, <1>6 DEF HandleActiveExit
<1>7. ASSUME NEW u, NEW ps, NEW exit, MainExit(u, ps, exit)
      PROVE  ok
  BY <1>1, <1>2, <1>4, <1>6, <1>7 DEF MainExit
<1>8. ASSUME NEW u, NEW ps, NEW exit, ControlExit(u, ps, exit)
      PROVE  ok
  BY <1>1, <1>2, <1>3, <1>4, <1>8 DEF ControlExit
<1>9. ASSUME NEW p, Reap(p)
      PROVE  ok
  BY <1>3, <1>7, <1>8, <1>9 DEF Reap, ForkedDaemon, Panic
<1>10. ok
  BY <1>2, <1>3, <1>5, <1>9 DEF EventNext, ChildExits, SendReady, HandleNotify, Tick, Exit
<1> QED BY <1>1, <1>10, EventShutdown

\* No call makes a Start job once shutdown has begun.
LEMMA CallShutdown ==
  ASSUME TypeOK, ShutdownInv, CallNext
  PROVE  /\ ShutdownInv'
         /\ shutting_down => \A id \in DOMAIN jobs' : id \in DOMAIN jobs \/ jobs'[id].kind = "Stop"
<1>1. ShutdownInv'
  BY ProcessJobsShutdown, DispatchShutdown, ServiceShutdown, StartUnitShutdown,
     StopUnitShutdown, EnqueueStartShutdown, EnqueueStopShutdown, ExpandShutdown,
     FinishJobShutdown, VisitShutdown
     DEF CallNext, EngineNext, ServiceNext
<1>2. CASE EnqueueStart
  BY <1>1, <1>2, EnqueueStartShutdown
<1>3. CASE EnqueueStopJob
  <2>1. \A id \in DOMAIN jobs' : id \in DOMAIN jobs \/ jobs'[id].kind = "Stop"
    BY <1>3, EnqueueStopShutdown DEF NewJob
  <2> QED BY <1>1, <2>1
<1>4. CASE ~EnqueueStart /\ ~EnqueueStopJob
  <2>1. DOMAIN jobs' \subseteq DOMAIN jobs
    BY <1>4 DEF CallNext, EngineNext, ServiceNext, ProcessJobs, TryAdvanceJob, StartUnit,
                SetExited, StopUnit, StopAll, ExpandConflicts, ExpandOpen, ExpandCommit,
                MaybeStartJob, RecentStarts, StopDependents, FinishJob, OnJobCompleted,
                PokeFailed, FireOnFailure, DoStart, SpawnControl, MaybeStopJob, FinalizeStop,
                RemoveJob, UpdateJob, DropWait, Panic, engineVars
  <2> QED BY <1>1, <2>1
<1> QED BY <1>2, <1>3, <1>4

\* Before any request, and in every step.
LEMMA NextShutdown ==
  ASSUME Requests \cap {"restart", "start-ignore-dependencies"} = {}
  PROVE  /\ Init => ShutdownInv
         /\ TypeOK /\ ShutdownInv /\ [Next]_managerVars =>
              ShutdownInv' /\ (shutting_down => \A id \in DOMAIN jobs' :
                                 id \in DOMAIN jobs \/ jobs'[id].kind = "Stop")
<1>1. Init => ShutdownInv
  BY DEF Init, Idle, ShutdownInv, NoRestartJobs, Pending
<1> SUFFICES ASSUME TypeOK, ShutdownInv, [Next]_managerVars
             PROVE  ShutdownInv' /\ (shutting_down => \A id \in DOMAIN jobs' :
                                       id \in DOMAIN jobs \/ jobs'[id].kind = "Stop")
  BY <1>1
<1>2. CASE RequestNext
  BY <1>2, RequestShutdown
<1>3. CASE EventNext
  BY <1>3, EventNextShutdown
<1>4. CASE CallNext
  BY <1>4, CallShutdown
<1>5. CASE UNCHANGED managerVars
  BY <1>5 DEF managerVars, vars, ShutdownInv, NoRestartJobs, Pending, Harmless
<1> QED BY <1>2, <1>3, <1>4, <1>5 DEF Next

\* Without restarts and starts that ignore dependencies, which do not ask whether
\* the manager is shutting down, no Start job is made after shutdown has begun,
\* in any configuration: also not for the dependencies of a start that was being
\* expanded, by OnFailure= or for a unit that is still being stopped.
THEOREM NoStartInShutdownCorrect ==
  ASSUME Requests \cap {"restart", "start-ignore-dependencies"} = {}
  PROVE  Spec => NoStartInShutdown
<1>1. Spec => []TypeOK
  BY TypeCorrect
<1> QED BY <1>1, NextShutdown, PTL DEF Spec, NoStartInShutdown
=============================================================================
