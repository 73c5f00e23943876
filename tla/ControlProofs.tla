---------------------------- MODULE ControlProofs ----------------------------
(***************************************************************************)
(* Commands over the control socket, for any number of clients, any command *)
(* lines, any sizes and bounds: a connection has one effect and a whole     *)
(* answer, and a wait that reports success saw its jobs end well.           *)
(***************************************************************************)
EXTENDS ControlClients, FoldLemmas, FiniteSetTheorems, TLAPS

-----------------------------------------------------------------------------
(* The manager as clients see it.                                          *)

States == {"inactive", "activating", "running", "exited", "deactivating", "failed"}
Jobs == [unit : Units, kind : {"Start", "Stop"}, irreversible : BOOLEAN, again : BOOLEAN]

\* Tables by the id of a job
Tables(S) == UNION {[ids -> S] : ids \in SUBSET Nat}

Managers ==
  [active : [Units -> States], jobs : Tables(Jobs), unit_job : [Units -> Nat],
   completed : Tables(BOOLEAN),
   last : Nat, masked : SUBSET Names, shutting_down : BOOLEAN,
   status : {"running", "panicked", "exited"}]

\* The ids of the jobs it holds and of those that ended were given out, and a
\* unit's job is one it holds.
MgrInv(m) ==
  /\ m \in Managers
  /\ DOMAIN m.jobs \subseteq 1 .. m.last
  /\ DOMAIN m.completed \subseteq 1 .. m.last
  /\ DOMAIN m.jobs \cap DOMAIN m.completed = {}
  /\ \A u \in Units : m.unit_job[u] \in DOMAIN m.jobs \cup {0}

\* What was given out and is no longer held stays as it ended.
Follows(m, n) ==
  /\ m.last <= n.last
  /\ \A id \in 1 .. m.last : id \notin DOMAIN m.jobs =>
       /\ id \notin DOMAIN n.jobs
       /\ id \in DOMAIN n.completed <=> id \in DOMAIN m.completed
       /\ id \in DOMAIN m.completed => n.completed[id] = m.completed[id]

LEMMA TableShape ==
  ASSUME NEW S
  PROVE  /\ \A t \in Tables(S) : DOMAIN t \in SUBSET Nat /\ t \in [DOMAIN t -> S]
         /\ \A ids \in SUBSET Nat : \A t \in [ids -> S] : t \in Tables(S)
BY DEF Tables

LEMMA FollowsItself ==
  ASSUME NEW m, MgrInv(m)
  PROVE  Follows(m, m)
BY DEF MgrInv, Managers, Follows

\* Nothing settled changes when the jobs do not.
LEMMA SameJobs ==
  ASSUME NEW m, MgrInv(m), NEW n \in Managers,
         n.jobs = m.jobs, n.unit_job = m.unit_job, n.completed = m.completed, n.last = m.last
  PROVE  MgrInv(n) /\ Follows(m, n)
BY DEF MgrInv, Managers, Follows

LEMMA FollowsThrough ==
  ASSUME NEW m, NEW n, NEW o, MgrInv(m), MgrInv(n), MgrInv(o), Follows(m, n), Follows(n, o)
  PROVE  Follows(m, o)
<1>1. m.last \in Nat /\ n.last \in Nat /\ o.last \in Nat
  BY DEF MgrInv, Managers
<1>2. m.last <= o.last /\ \A id \in 1 .. m.last : id \in 1 .. n.last
  BY <1>1 DEF Follows
<1> QED BY <1>2 DEF Follows

\* A unit's job goes, with or without a result.
LEMMA DropKeeps ==
  ASSUME NEW m, MgrInv(m), NEW id
  PROVE  /\ MgrInv(Drop(m, id)) /\ Follows(m, Drop(m, id))
         /\ Drop(m, id).last = m.last /\ id \notin DOMAIN Drop(m, id).jobs
<1> DEFINE n == Drop(m, id)
<1>1. /\ n.active = m.active /\ n.completed = m.completed /\ n.last = m.last
      /\ n.jobs = [i \in DOMAIN m.jobs \ {id} |-> m.jobs[i]]
      /\ n.unit_job = [u \in Units |-> IF m.unit_job[u] = id THEN 0 ELSE m.unit_job[u]]
  BY DEF Drop, MgrInv, Managers
<1>2. n.jobs \in Tables(Jobs)
  <2>1. DOMAIN m.jobs \in SUBSET Nat /\ m.jobs \in [DOMAIN m.jobs -> Jobs]
    BY TableShape DEF MgrInv, Managers
  <2> HIDE DEF n
  <2>2. n.jobs \in [DOMAIN m.jobs \ {id} -> Jobs]
    BY <1>1, <2>1
  <2> QED BY <2>1, <2>2, TableShape
<1>3. n \in Managers
  <2>1. n = [m EXCEPT !.jobs = n.jobs, !.unit_job = n.unit_job]
    BY <1>1 DEF Drop, MgrInv, Managers
  <2> HIDE DEF n
  <2>2. n.unit_job \in [Units -> Nat]
    BY <1>1 DEF MgrInv, Managers
  <2> QED BY <1>2, <2>1, <2>2 DEF MgrInv, Managers
<1> HIDE DEF n
<1>4. MgrInv(n)
  BY <1>1, <1>3 DEF MgrInv, Managers
<1>5. Follows(m, n)
  BY <1>1 DEF MgrInv, Managers, Follows
<1> QED BY <1>1, <1>4, <1>5 DEF n

LEMMA RecordKeeps ==
  ASSUME NEW m, MgrInv(m), NEW id \in DOMAIN m.jobs, NEW ok \in BOOLEAN
  PROVE  /\ MgrInv(Record(m, id, ok)) /\ Follows(m, Record(m, id, ok))
         /\ Record(m, id, ok).last = m.last
<1> DEFINE d == Drop(m, id)
           n == Record(m, id, ok)
<1>1. MgrInv(d) /\ Follows(m, d) /\ d.last = m.last /\ id \notin DOMAIN d.jobs
  BY DropKeeps
<1>2. id \in 1 .. m.last /\ id \in Nat
  BY DEF MgrInv, Managers
<1>3. n = [d EXCEPT !.completed = [i \in DOMAIN @ \cup {id} |-> IF i = id THEN ok ELSE @[i]]]
  BY DEF Record
<1> HIDE DEF d, n
<1>4. /\ n.jobs = d.jobs /\ n.unit_job = d.unit_job /\ n.last = d.last
      /\ n.completed = [i \in DOMAIN d.completed \cup {id} |->
                          IF i = id THEN ok ELSE d.completed[i]]
  BY <1>1, <1>3 DEF MgrInv, Managers
<1>5. n.completed \in Tables(BOOLEAN)
  <2>1. DOMAIN d.completed \in SUBSET Nat /\ d.completed \in [DOMAIN d.completed -> BOOLEAN]
    BY <1>1, TableShape DEF MgrInv, Managers
  <2>2. n.completed \in [DOMAIN d.completed \cup {id} -> BOOLEAN]
    BY <1>4, <2>1
  <2> QED BY <1>2, <2>1, <2>2, TableShape
<1>6. n \in Managers
  <2>1. n = [d EXCEPT !.completed = n.completed]
    BY <1>1, <1>3 DEF MgrInv, Managers
  <2> QED BY <1>1, <1>5, <2>1 DEF MgrInv, Managers
<1>7. MgrInv(n)
  BY <1>1, <1>2, <1>4, <1>6 DEF MgrInv
<1>8. Follows(m, n)
  BY <1>1, <1>4 DEF Follows
<1> QED BY <1>1, <1>4, <1>7, <1>8 DEF n

\* A new job takes the next id.
LEMMA NewJobKeeps ==
  ASSUME NEW m, MgrInv(m), NEW u \in Units, NEW kind \in {"Start", "Stop"},
         NEW irreversible \in BOOLEAN, NEW again \in BOOLEAN
  PROVE  LET n == new_job(m, u, kind, irreversible, again) IN
         MgrInv(n) /\ Follows(m, n) /\ n.last = m.last + 1
<1> DEFINE n == new_job(m, u, kind, irreversible, again)
           j == [unit |-> u, kind |-> kind, irreversible |-> irreversible, again |-> again]
<1>1. j \in Jobs /\ m.last + 1 \in Nat /\ m.last \in Nat
  BY DEF Jobs, MgrInv, Managers
<1>2. n = [m EXCEPT !.last = @ + 1, !.unit_job[u] = m.last + 1,
                    !.jobs = [i \in DOMAIN @ \cup {m.last + 1} |->
                                IF i \in DOMAIN @ THEN @[i] ELSE j]]
  BY DEF new_job
<1> HIDE DEF n, j
<1>3. /\ n.completed = m.completed /\ n.last = m.last + 1
      /\ n.unit_job = [m.unit_job EXCEPT ![u] = m.last + 1]
      /\ n.jobs = [i \in DOMAIN m.jobs \cup {m.last + 1} |->
                     IF i \in DOMAIN m.jobs THEN m.jobs[i] ELSE j]
  BY <1>1, <1>2 DEF MgrInv, Managers
<1>4. n.jobs \in Tables(Jobs)
  <2>1. DOMAIN m.jobs \in SUBSET Nat /\ m.jobs \in [DOMAIN m.jobs -> Jobs]
    BY TableShape DEF MgrInv, Managers
  <2>2. n.jobs \in [DOMAIN m.jobs \cup {m.last + 1} -> Jobs]
    BY <1>1, <1>3, <2>1
  <2> QED BY <1>1, <2>1, <2>2, TableShape
<1>5. n \in Managers
  <2>1. n = [m EXCEPT !.last = n.last, !.unit_job = n.unit_job, !.jobs = n.jobs]
    BY <1>2, <1>3 DEF MgrInv, Managers
  <2>2. n.unit_job \in [Units -> Nat] /\ n.last \in Nat
    BY <1>1, <1>3 DEF MgrInv, Managers
  <2> QED BY <1>4, <2>1, <2>2 DEF MgrInv, Managers
<1>6. MgrInv(n)
  BY <1>1, <1>3, <1>5 DEF MgrInv, Managers
<1>7. Follows(m, n)
  BY <1>1, <1>3 DEF MgrInv, Managers, Follows
<1> QED BY <1>3, <1>6, <1>7 DEF n

\* A unit becomes active, fails, ...
LEMMA BecomesKeeps ==
  ASSUME NEW m, MgrInv(m), NEW u \in Units, NEW s \in States
  PROVE  LET n == [m EXCEPT !.active[u] = s] IN
         MgrInv(n) /\ Follows(m, n) /\ n.last = m.last
BY DEF MgrInv, Managers, Follows

Rets == [m : Managers, err : BOOLEAN, jobs : SUBSET Nat]

\* A call leaves what was settled alone and hands out ids that it gave.
Good(m, r) ==
  /\ r \in Rets
  /\ MgrInv(r.m) /\ Follows(m, r.m)
  /\ r.jobs \subseteq 1 .. r.m.last

LEMMA GoodRet ==
  ASSUME NEW m, NEW n, MgrInv(n), Follows(m, n), NEW js \in SUBSET (1 .. n.last)
  PROVE  Good(m, Ret(n, js))
<1>1. n \in Managers /\ js \in SUBSET Nat
  BY DEF MgrInv, Managers
<1> QED BY <1>1 DEF Good, Ret, Rets

LEMMA GoodFail ==
  ASSUME NEW m, MgrInv(m)
  PROVE  Good(m, Fail(m))
BY FollowsItself DEF MgrInv, Good, Fail, Rets

\* A pending job of a unit is one the manager holds.
LEMMA PendingHeld ==
  ASSUME NEW m, MgrInv(m), NEW u \in Units, PendingKind(m, u) # "none"
  PROVE  /\ m.unit_job[u] \in DOMAIN m.jobs
         /\ m.unit_job[u] \in 1 .. m.last
BY DEF PendingKind, MgrInv

LEMMA StartKeeps ==
  ASSUME NEW m, MgrInv(m), NEW u
  PROVE  Good(m, start_with_mode(m, u))
<1>1. ASSUME u \in Units, PendingKind(m, u) = "Start"
      PROVE  Good(m, Ret(m, {m.unit_job[u]}))
  BY <1>1, PendingHeld, FollowsItself, GoodRet
<1>2. ASSUME u \in Units, PendingKind(m, u) = "Stop"
      PROVE  Good(m, Ret([cancel_job(m, m.unit_job[u]) EXCEPT !.active[u] = "exited"], {}))
  <2> DEFINE n == cancel_job(m, m.unit_job[u])
             o == [n EXCEPT !.active[u] = "exited"]
  <2>1. MgrInv(n) /\ Follows(m, n)
    BY <1>2, PendingHeld, RecordKeeps DEF cancel_job
  <2> HIDE DEF n
  <2>2. MgrInv(o) /\ Follows(n, o)
    BY <1>2, <2>1, BecomesKeeps DEF States
  <2> HIDE DEF o
  <2>3. Follows(m, o)
    BY <2>1, <2>2, FollowsThrough
  <2> QED BY <2>2, <2>3, GoodRet DEF n, o
<1>3. ASSUME u \in Units
      PROVE  Good(m, Ret(new_job(m, u, "Start", FALSE, FALSE), {m.last + 1}))
  <2> DEFINE n == new_job(m, u, "Start", FALSE, FALSE)
  <2>1. MgrInv(n) /\ Follows(m, n) /\ n.last = m.last + 1
    BY <1>3, NewJobKeeps
  <2> HIDE DEF n
  <2>2. m.last + 1 \in 1 .. n.last
    BY <2>1 DEF MgrInv, Managers
  <2> QED BY <2>1, <2>2, GoodRet DEF n
<1>4. Good(m, Ret(m, {})) /\ Good(m, Fail(m))
  BY FollowsItself, GoodRet, GoodFail
<1> QED BY <1>1, <1>2, <1>3, <1>4 DEF start_with_mode

LEMMA StartIgnoringKeeps ==
  ASSUME NEW m, MgrInv(m), NEW u
  PROVE  Good(m, start_ignore_dependencies(m, u))
<1>1. ASSUME u \in Units
      PROVE  Good(m, Ret(new_job(Drop(m, m.unit_job[u]), u, "Start", FALSE, FALSE), {}))
  <2> DEFINE d == Drop(m, m.unit_job[u])
             n == new_job(d, u, "Start", FALSE, FALSE)
  <2>1. MgrInv(d) /\ Follows(m, d)
    BY DropKeeps
  <2> HIDE DEF d
  <2>2. MgrInv(n) /\ Follows(d, n)
    BY <1>1, <2>1, NewJobKeeps
  <2> HIDE DEF n
  <2>3. Follows(m, n)
    BY <2>1, <2>2, FollowsThrough
  <2> QED BY <2>2, <2>3, GoodRet DEF n, d
<1>2. Good(m, Ret(m, {})) /\ Good(m, Fail(m))
  BY FollowsItself, GoodRet, GoodFail
<1> QED BY <1>1, <1>2 DEF start_ignore_dependencies

LEMMA StopKeeps ==
  ASSUME NEW m, MgrInv(m), NEW u, NEW mode
  PROVE  Good(m, stop_with_mode(m, u, mode))
<1>1. PICK irreversible \in BOOLEAN : irreversible = (mode = "replace-irreversibly")
  OBVIOUS
<1> DEFINE Stopped(n) == new_job(n, u, "Stop", irreversible, FALSE)
<1>2. ASSUME NEW n, MgrInv(n), Follows(m, n), n.last = m.last, u \in Units
      PROVE  Good(m, Ret(Stopped(n), {m.last + 1}))
  <2> DEFINE o == Stopped(n)
  <2>1. MgrInv(o) /\ Follows(n, o) /\ o.last = m.last + 1
    <3>1. "Stop" \in {"Start", "Stop"} /\ FALSE \in BOOLEAN
      OBVIOUS
    <3>2. MgrInv(o) /\ Follows(n, o) /\ o.last = n.last + 1
      BY <1>2, <3>1, NewJobKeeps, Zenon
    <3> QED BY <1>2, <3>2
  <2> HIDE DEF o
  <2>2. m.last + 1 \in 1 .. o.last
    BY <2>1 DEF MgrInv, Managers
  <2>3. Follows(m, o)
    BY <1>2, <2>1, FollowsThrough
  <2> QED BY <2>1, <2>2, <2>3, GoodRet DEF o
<1>3. ASSUME u \in Units, PendingKind(m, u) = "Stop"
      PROVE  Good(m, Ret(IF irreversible THEN [m EXCEPT !.jobs[m.unit_job[u]].irreversible = TRUE]
                         ELSE m, {m.unit_job[u]}))
  <2> DEFINE id == m.unit_job[u]
             n == [m EXCEPT !.jobs[id].irreversible = TRUE]
  <2>1. id \in DOMAIN m.jobs /\ id \in 1 .. m.last
    BY <1>3, PendingHeld
  <2> HIDE DEF id
  <2>2. m.jobs \in [DOMAIN m.jobs -> Jobs] /\ DOMAIN m.jobs \in SUBSET Nat
    BY TableShape DEF MgrInv, Managers
  <2>3. /\ n.jobs = [m.jobs EXCEPT ![id].irreversible = TRUE]
        /\ n.last = m.last /\ n.completed = m.completed /\ n.unit_job = m.unit_job
    BY DEF MgrInv, Managers
  <2>4. n.jobs \in [DOMAIN m.jobs -> Jobs]
    <3>1. PICK j \in Jobs : j = m.jobs[id]
      BY <2>1, <2>2
    <3>2. [j EXCEPT !.irreversible = TRUE] \in Jobs
      BY DEF Jobs
    <3>3. n.jobs = [m.jobs EXCEPT ![id] = [j EXCEPT !.irreversible = TRUE]]
      BY <2>3, <3>1
    <3> HIDE DEF n
    <3> QED BY <2>2, <3>2, <3>3
  <2>5. n \in Managers
    <3>1. n = [m EXCEPT !.jobs = n.jobs]
      BY DEF MgrInv, Managers
    <3>2. n.jobs \in Tables(Jobs)
      BY <2>2, <2>4, TableShape
    <3> HIDE DEF n
    <3> QED BY <3>1, <3>2 DEF MgrInv, Managers
  <2> HIDE DEF n
  <2>6. DOMAIN n.jobs = DOMAIN m.jobs
    BY <2>4
  <2>7. MgrInv(n) /\ Follows(m, n) /\ id \in 1 .. n.last
    BY <2>1, <2>3, <2>5, <2>6 DEF MgrInv, Managers, Follows
  <2> QED BY <2>1, <2>7, GoodRet, FollowsItself DEF n, id
<1>4. ASSUME u \in Units, PendingKind(m, u) = "Start"
      PROVE  Good(m, Ret(Stopped(cancel_job(m, m.unit_job[u])), {m.last + 1}))
  <2> DEFINE n == cancel_job(m, m.unit_job[u])
  <2>1. MgrInv(n) /\ Follows(m, n) /\ n.last = m.last
    BY <1>4, PendingHeld, RecordKeeps DEF cancel_job
  <2> HIDE DEF n, Stopped
  <2>2. Good(m, Ret(Stopped(n), {m.last + 1}))
    BY <1>2, <1>4, <2>1
  <2> QED BY <2>2 DEF n
<1>5. u \in Units => Good(m, Ret(Stopped(m), {m.last + 1}))
  BY <1>2, FollowsItself
<1>6. Good(m, Ret(m, {})) /\ Good(m, Fail(m))
  BY FollowsItself, GoodRet, GoodFail
<1> QED BY <1>1, <1>3, <1>4, <1>5, <1>6 DEF stop_with_mode

LEMMA RestartKeeps ==
  ASSUME NEW m, MgrInv(m), NEW u
  PROVE  Good(m, restart(m, u)) /\ Good(m, [start_with_mode(m, u) EXCEPT !.jobs = {}])
<1>1. Good(m, [start_with_mode(m, u) EXCEPT !.jobs = {}])
  <2> DEFINE r == start_with_mode(m, u)
  <2>1. Good(m, r)
    BY StartKeeps
  <2> HIDE DEF r
  <2>2. Good(m, [r EXCEPT !.jobs = {}])
    BY <2>1 DEF Good, Rets
  <2> QED BY <2>2 DEF r
<1>2. ASSUME u \in Units
      PROVE  Good(m, Ret(new_job(IF PendingKind(m, u) = "Start" THEN Drop(m, m.unit_job[u]) ELSE m,
                                 u, "Stop", FALSE, TRUE), {}))
  <2> DEFINE d == IF PendingKind(m, u) = "Start" THEN Drop(m, m.unit_job[u]) ELSE m
             n == new_job(d, u, "Stop", FALSE, TRUE)
  <2>1. MgrInv(d) /\ Follows(m, d)
    BY DropKeeps, FollowsItself
  <2> HIDE DEF d
  <2>2. MgrInv(n) /\ Follows(d, n)
    BY <1>2, <2>1, NewJobKeeps
  <2> HIDE DEF n
  <2>3. Follows(m, n)
    BY <2>1, <2>2, FollowsThrough
  <2> QED BY <2>2, <2>3, GoodRet DEF n, d
<1> QED BY <1>1, <1>2, GoodFail DEF restart

\* Whatever a request does for one of its units.
LEMMA UnitCallKeeps ==
  ASSUME NEW m, MgrInv(m), NEW u, NEW req
  PROVE  Good(m, UnitCall(m, u, req))
<1>1. Good(m, Ret(m, {})) /\ Good(m, Fail(m))
  BY FollowsItself, GoodRet, GoodFail
<1>2. Good(m, try_restart(m, u)) /\ Good(m, restart_or_start(m, u))
  BY <1>1, RestartKeeps DEF try_restart, restart_or_start
<1>3. Good(m, reset_failed(m, u))
  <2>1. u \in Units => Good(m, Ret([m EXCEPT !.active[u] = "inactive"], {}))
    BY BecomesKeeps, GoodRet DEF States
  <2> QED BY <1>1, <2>1 DEF reset_failed
<1> QED BY <1>1, <1>2, <1>3, StartKeeps, StartIgnoringKeeps, StopKeeps, RestartKeeps DEF UnitCall

LEMMA KillKeeps ==
  ASSUME NEW m, MgrInv(m), NEW u, NEW live
  PROVE  Good(m, kill(m, u, live))
<1> DEFINE n == [m EXCEPT !.status = "panicked"]
<1>1. MgrInv(n) /\ Follows(m, n)
  BY DEF MgrInv, Managers, Follows
<1> HIDE DEF n
<1>2. Good(m, Ret(n, {})) /\ Good(m, Ret(m, {})) /\ Good(m, Fail(m))
  BY <1>1, FollowsItself, GoodRet, GoodFail
<1> QED BY <1>2 DEF kill, n

\* ... and for all of them, the first error ending it.
LEMMA NextUnitKeeps ==
  ASSUME NEW m, MgrInv(m), NEW acc, Good(m, acc), NEW u, NEW req
  PROVE  Good(m, NextUnit(acc, u, req))
<1> DEFINE r == UnitCall(acc.m, u, req)
           o == [r EXCEPT !.jobs = @ \cup acc.jobs]
<1>1. MgrInv(acc.m) /\ Follows(m, acc.m) /\ acc.jobs \subseteq 1 .. acc.m.last
  BY DEF Good
<1>2. Good(acc.m, r)
  BY <1>1, UnitCallKeeps
<1> HIDE DEF r
<1>3. MgrInv(r.m) /\ Follows(acc.m, r.m) /\ r.jobs \subseteq 1 .. r.m.last /\ r \in Rets
  BY <1>2 DEF Good
<1>4. Follows(m, r.m)
  BY <1>1, <1>3, FollowsThrough
<1>5. acc.jobs \subseteq 1 .. r.m.last
  <2>1. acc.m.last \in Nat /\ r.m.last \in Nat /\ acc.m.last <= r.m.last
    BY <1>1, <1>3 DEF MgrInv, Managers, Follows
  <2> QED BY <1>1, <2>1
<1>6. o \in Rets /\ o.m = r.m /\ o.jobs = r.jobs \cup acc.jobs
  <2>1. acc.jobs \in SUBSET Nat
    BY DEF Good, Rets
  <2> QED BY <1>3, <2>1 DEF Rets
<1>7. Good(m, o)
  BY <1>3, <1>4, <1>5, <1>6 DEF Good
<1> QED BY <1>7 DEF NextUnit, r

LEMMA EachUnitKeeps ==
  ASSUME NEW m, MgrInv(m), NEW req, NEW S, req.units \in Seq(S)
  PROVE  Good(m, EachUnit(m, req))
<1> DEFINE us == req.units
           n == Len(us)
           A == {r \in Rets : Good(m, r)}
           F(g) == [s \in SUBSET DOMAIN us |->
                      IF s = {} THEN Ret(m, {}) ELSE NextUnit(g[s \ {Max(s)}], us[Max(s)], req)]
           iter == CHOOSE g : g = F(g)
           step == [x \in A \X (1 .. n) |-> NextUnit(x[1], us[x[2]], req)]
<1>1. EachUnit(m, req) = iter[DOMAIN us]
  BY DEF EachUnit, FoldLeft, MapThenFoldSet
<1>2. n \in Nat /\ DOMAIN us = 1 .. n
  OBVIOUS
<1> HIDE DEF us, n
<1>3. \A r : r \in A <=> Good(m, r)
  BY DEF Good
<1>4. Ret(m, {}) \in A
  BY <1>3, GoodRet, FollowsItself
<1>5. step \in [A \X (1 .. n) -> A]
  <2>1. \A x \in A \X (1 .. n) : NextUnit(x[1], us[x[2]], req) \in A
    BY <1>3, NextUnitKeeps
  <2> QED BY <2>1
<1>6. \A a \in A, i \in 1 .. n : step[<<a, i>>] = NextUnit(a, us[i], req)
  OBVIOUS
<1> HIDE DEF A, step
<1>7. PICK h \in [SUBSET (1 .. n) -> A] : \A s \in SUBSET (1 .. n) :
        h[s] = IF s = {} THEN Ret(m, {}) ELSE step[<<h[s \ {Max(s)}], Max(s)>>]
  <2>1. \E h \in [SUBSET (1 .. n) -> A] : Folds(h, n, Ret(m, {}), step)
    BY <1>2, <1>4, <1>5, FoldExists
  <2> QED BY <2>1 DEF Folds
<1>8. \A s \in SUBSET (1 .. n) :
        h[s] = IF s = {} THEN Ret(m, {}) ELSE NextUnit(h[s \ {Max(s)}], us[Max(s)], req)
  <2> SUFFICES ASSUME NEW s \in SUBSET (1 .. n), s # {}
               PROVE  h[s] = NextUnit(h[s \ {Max(s)}], us[Max(s)], req)
    BY <1>7
  <2>1. Max(s) \in 1 .. n /\ s \ {Max(s)} \in SUBSET (1 .. n)
    <3>1. Max(s) \in s
      BY <1>2, MaxUpTo
    <3> QED BY <3>1
  <2>2. h[s \ {Max(s)}] \in A
    BY <2>1
  <2> QED BY <1>6, <1>7, <2>1, <2>2
<1>9. h = F(h)
  BY <1>2, <1>8
<1>10. iter = F(iter)
  <2> HIDE DEF F
  <2> QED BY <1>9
<1> HIDE DEF iter
<1>11. iter[1 .. n] \in A
  <2> DEFINE G == [k \in 0 .. n |-> A]
  <2>1. \A s \in SUBSET (1 .. n) :
          iter[s] = IF s = {} THEN Ret(m, {}) ELSE NextUnit(iter[s \ {Max(s)}], us[Max(s)], req)
    BY <1>2, <1>10
  <2>2. iter[{}] \in G[0]
    <3>1. 0 \in 0 .. n /\ {} \in SUBSET (1 .. n)
      BY <1>2
    <3>2. iter[{}] \in A
      BY <1>4, <2>1, <3>1
    <3> QED BY <3>1, <3>2
  <2>3. ASSUME NEW k \in 1 .. n, iter[1 .. k - 1] \in G[k - 1]
        PROVE  iter[1 .. k] \in G[k]
    <3>1. k \in Nat /\ k # 0 /\ (1 .. k) \in SUBSET (1 .. n) /\ k \in 1 .. k
          /\ k - 1 \in 0 .. n /\ k \in 0 .. n
      BY <1>2
    <3>2. Max(1 .. k) = k /\ (1 .. k) \ {k} = 1 .. k - 1
      BY <3>1, LastUpTo
    <3>3. iter[1 .. k] = NextUnit(iter[1 .. k - 1], us[k], req)
      BY <2>1, <3>1, <3>2
    <3>4. iter[1 .. k - 1] \in A
      BY <2>3, <3>1
    <3>5. iter[1 .. k] \in A
      BY <1>3, <3>3, <3>4, NextUnitKeeps
    <3> QED BY <3>1, <3>5
  <2> HIDE DEF G
  <2>4. iter[1 .. n] \in G[n]
    BY <1>2, <2>2, <2>3, FoldKeeps
  <2> QED BY <1>2, <2>4 DEF G
<1> QED BY <1>1, <1>2, <1>3, <1>11

-----------------------------------------------------------------------------
(* Requests and answers.                                                   *)

Rows == {"pending", "done", "failed"}

\* What answers carry: jobs, exit codes, rows of jobs, units, and their states
Data ==
  (SUBSET Nat) \cup Nat \cup Tables(Rows) \cup (SUBSET Units) \cup (SUBSET States)
Replies == [ok : BOOLEAN, data : Data]

\* What wait_for_jobs may conclude from the rows that a job_status of ids got.
RowsTell(m, ids, rows) ==
  /\ DOMAIN rows \subseteq ids
  /\ \A id \in DOMAIN rows : rows[id] \in Rows
  /\ \A id \in ids \ DOMAIN rows : id \notin DOMAIN m.jobs /\ id \notin DOMAIN m.completed
  /\ \A id \in DOMAIN rows : rows[id] = "done" =>
       id \notin DOMAIN m.jobs /\ id \in DOMAIN m.completed /\ m.completed[id]

\* The reply to a request says of the manager m after it what the client takes
\* it to say.
Tells(m, req, reply) ==
  /\ reply \in Replies
  /\ req.op \in {"start", "stop"} /\ reply.ok => reply.data \subseteq 1 .. m.last
  /\ req.op \in UnitVerbs /\ reply.ok => reply.data = {}
  /\ req.op \in {"is_active", "is_failed", "is_system_running"} /\ reply.ok =>
       reply.data \in {0, 1, 3, 4}
  /\ req.op = "job_status" /\ reply.ok => RowsTell(m, req.ids, reply.data)

LEMMA DataHas ==
  /\ \A d \in SUBSET Nat : d \in Data
  /\ \A d \in Nat : d \in Data
  /\ \A d \in SUBSET Units : d \in Data
  /\ \A d \in SUBSET States : d \in Data
  /\ \A ids \in SUBSET Nat : \A d \in [ids -> Rows] : d \in Data
BY TableShape DEF Data

\* A request leaves what was settled alone, and its reply tells the truth.
Serves(m, req, r) ==
  /\ MgrInv(r.m) /\ Follows(m, r.m)
  /\ Tells(r.m, req, r.reply)

LEMMA RepliesHave ==
  ASSUME NEW ok \in BOOLEAN, NEW data \in Data
  PROVE  Reply(ok, data) \in Replies /\ Reply(ok, data).ok = ok /\ Reply(ok, data).data = data
BY DEF Reply, Replies

\* A request about units, with and without jobs in its answer.
LEMMA OpJobsServes ==
  ASSUME NEW m, MgrInv(m), NEW req, req.units \in Seq(Names), req.op \in {"start", "stop"}
  PROVE  Serves(m, req, OpJobs(m, req))
<1> DEFINE r == IF req_job_mode(req.mode) THEN EachUnit(m, req) ELSE Fail(m)
           data == IF r.err THEN {} ELSE r.jobs
           reply == Reply(~r.err, data)
<1>1. OpJobs(m, req) = [m |-> r.m, reply |-> reply]
  BY DEF OpJobs
<1>2. Good(m, r)
  BY EachUnitKeeps, GoodFail
<1> HIDE DEF r
<1>3. MgrInv(r.m) /\ Follows(m, r.m) /\ r.jobs \subseteq 1 .. r.m.last /\ r.err \in BOOLEAN
      /\ r.jobs \in SUBSET Nat
  BY <1>2 DEF Good, Rets
<1>4. data \subseteq 1 .. r.m.last /\ data \in SUBSET Nat
  BY <1>3
<1>5. reply \in Replies /\ reply.data = data
  BY <1>3, <1>4, RepliesHave, DataHas
<1> HIDE DEF data, reply
<1>6. Tells(r.m, req, reply)
  BY <1>4, <1>5 DEF Tells, UnitVerbs
<1> QED BY <1>1, <1>3, <1>6 DEF Serves

LEMMA OpUnitsServes ==
  ASSUME NEW m, MgrInv(m), NEW req, req.units \in Seq(Names), req.op \in UnitVerbs
  PROVE  Serves(m, req, OpUnits(m, req))
<1> DEFINE r == EachUnit(m, req)
           reply == Reply(~r.err, {})
<1>1. OpUnits(m, req) = [m |-> r.m, reply |-> reply]
  BY DEF OpUnits
<1>2. Good(m, r)
  BY EachUnitKeeps
<1> HIDE DEF r
<1>3. MgrInv(r.m) /\ Follows(m, r.m) /\ r.err \in BOOLEAN
  BY <1>2 DEF Good, Rets
<1>4. reply \in Replies /\ reply.data = {}
  BY <1>3, RepliesHave, DataHas
<1> HIDE DEF reply
<1>5. Tells(r.m, req, reply)
  BY <1>4 DEF Tells, UnitVerbs
<1> QED BY <1>1, <1>3, <1>5 DEF Serves

\* A request that changes nothing a wait looks at.
LEMMA QueryServes ==
  ASSUME NEW m, NEW n, MgrInv(n), Follows(m, n), NEW req, NEW reply \in Replies,
         req.op \notin {"start", "stop"} \cup UnitVerbs,
         req.op \in {"is_active", "is_failed", "is_system_running"} /\ reply.ok =>
           reply.data \in {0, 1, 3, 4},
         req.op = "job_status" /\ reply.ok => RowsTell(n, req.ids, reply.data)
  PROVE  Serves(m, req, [m |-> n, reply |-> reply])
BY DEF Serves, Tells

\* The exit codes of is-active, is-failed and is-system-running.
LEMMA ExitsServe ==
  ASSUME NEW m, MgrInv(m), NEW req
  PROVE  /\ req.op = "is_active" => Serves(m, req, OpIsActive(m, req))
         /\ req.op = "is_failed" => Serves(m, req, OpIsFailed(m, req))
         /\ req.op = "is_system_running" => Serves(m, req, OpIsSystemRunning(m))
<1>1. ASSUME NEW ok \in BOOLEAN, NEW code \in {0, 1, 3, 4},
             req.op \in {"is_active", "is_failed", "is_system_running"}
      PROVE  Serves(m, req, [m |-> m, reply |-> Reply(ok, code)])
  <2> DEFINE reply == Reply(ok, code)
  <2>1. reply \in Replies /\ reply.data = code
    BY DataHas, RepliesHave
  <2> HIDE DEF reply
  <2>2. Serves(m, req, [m |-> m, reply |-> reply])
    BY <1>1, <2>1, FollowsItself, QueryServes DEF UnitVerbs
  <2> QED BY <2>2 DEF reply
<1>2. ASSUME req.op = "is_active"
      PROVE  Serves(m, req, OpIsActive(m, req))
  <2>1. IsActiveExit(m, Range(req.units)) \in {0, 1, 3, 4}
    BY DEF IsActiveExit
  <2> QED BY <1>1, <1>2, <2>1 DEF OpIsActive
<1>3. ASSUME req.op = "is_failed"
      PROVE  Serves(m, req, OpIsFailed(m, req))
  <2> DEFINE us == req.units
             stops == {i \in DOMAIN us : us[i] \notin Units \/ m.active[us[i]] # "failed"}
             first == CHOOSE i \in stops : \A j \in stops : i <= j
  <2>1. OpIsFailed(m, req)
          = [m |-> m, reply |-> IF stops = {} THEN Reply(TRUE, 0)
                                ELSE IF us[first] \in Units THEN Reply(TRUE, 1)
                                ELSE Reply(FALSE, 1)]
    BY DEF OpIsFailed
  <2> HIDE DEF us, stops, first
  <2>2. /\ Serves(m, req, [m |-> m, reply |-> Reply(TRUE, 0)])
        /\ Serves(m, req, [m |-> m, reply |-> Reply(TRUE, 1)])
        /\ Serves(m, req, [m |-> m, reply |-> Reply(FALSE, 1)])
    BY <1>1, <1>3
  <2> QED BY <2>1, <2>2
<1>4. ASSUME req.op = "is_system_running"
      PROVE  Serves(m, req, OpIsSystemRunning(m))
  BY <1>1, <1>4 DEF OpIsSystemRunning
<1> QED BY <1>2, <1>3, <1>4

\* The rows of job_status.
LEMMA JobStatusServes ==
  ASSUME NEW m, MgrInv(m), NEW req, req.op = "job_status", req.ids \in SUBSET Nat
  PROVE  Serves(m, req, OpJobStatus(m, req))
<1> DEFINE ids == req.ids \cap (DOMAIN m.jobs \cup DOMAIN m.completed)
           rows == [id \in ids |-> IF id \in DOMAIN m.jobs THEN "pending"
                                   ELSE IF m.completed[id] THEN "done" ELSE "failed"]
           reply == Reply(TRUE, rows)
<1>1. OpJobStatus(m, req) = [m |-> m, reply |-> reply]
  BY DEF OpJobStatus
<1>2. rows \in [ids -> Rows] /\ ids \in SUBSET Nat
  BY DEF Rows
<1>3. RowsTell(m, req.ids, rows)
  BY DEF RowsTell, Rows
<1> HIDE DEF rows
<1>4. reply \in Replies /\ reply.data = rows
  BY <1>2, DataHas, RepliesHave
<1> HIDE DEF reply
<1> QED BY <1>1, <1>3, <1>4, FollowsItself, QueryServes DEF UnitVerbs

LEMMA DispatchServes ==
  ASSUME NEW m, MgrInv(m), NEW req, req.units \in Seq(Names), req.ids \in SUBSET Nat,
         NEW live
  PROVE  Serves(m, req, dispatch(m, req, live))
<1> DEFINE Plain == ~(req.op \in {"start", "stop", "is_active", "is_failed",
                                   "is_system_running", "job_status"} \cup UnitVerbs)
<1>1. ASSUME NEW n, MgrInv(n), Follows(m, n), NEW ok \in BOOLEAN, NEW data \in Data, Plain
      PROVE  Serves(m, req, [m |-> n, reply |-> Reply(ok, data)])
  BY <1>1, RepliesHave, QueryServes
<1>2. {} \in Data /\ TRUE \in BOOLEAN /\ FALSE \in BOOLEAN
  BY DataHas
<1>3. Plain => Serves(m, req, OpListJobs(m))
  <2>1. {m.jobs[id].unit : id \in DOMAIN m.jobs} \in SUBSET Units
    <3>1. m.jobs \in [DOMAIN m.jobs -> Jobs]
      BY TableShape DEF MgrInv, Managers
    <3> QED BY <3>1 DEF Jobs
  <2> QED BY <1>1, <2>1, DataHas, FollowsItself DEF OpListJobs
<1>4. Plain => Serves(m, req, OpShow(m, req))
  <2>1. {m.active[u] : u \in Range(req.units) \cap Units} \in SUBSET States
    BY DEF MgrInv, Managers
  <2> QED BY <1>1, <2>1, DataHas, FollowsItself DEF OpShow
<1>5. Plain => Serves(m, req, OpMask(m, req)) /\ Serves(m, req, OpUnmask(m, req))
  <2> DEFINE n == [m EXCEPT !.masked = @ \cup Range(req.units)]
             o == [m EXCEPT !.masked = @ \ Range(req.units)]
  <2>1. Range(req.units) \subseteq Names
    BY DEF Range
  <2>2. MgrInv(n) /\ Follows(m, n)
    <3>1. n \in Managers
      BY <2>1 DEF MgrInv, Managers
    <3>2. n.jobs = m.jobs /\ n.unit_job = m.unit_job /\ n.completed = m.completed
          /\ n.last = m.last
      BY DEF MgrInv, Managers
    <3> HIDE DEF n
    <3> QED BY <3>1, <3>2, SameJobs
  <2>3. MgrInv(o) /\ Follows(m, o)
    <3>1. o \in Managers
      BY DEF MgrInv, Managers
    <3>2. o.jobs = m.jobs /\ o.unit_job = m.unit_job /\ o.completed = m.completed
          /\ o.last = m.last
      BY DEF MgrInv, Managers
    <3> HIDE DEF o
    <3> QED BY <3>1, <3>2, SameJobs
  <2> HIDE DEF n, o
  <2>4. Plain => /\ Serves(m, req, [m |-> n, reply |-> Reply(TRUE, {})])
                 /\ Serves(m, req, [m |-> o, reply |-> Reply(TRUE, {})])
    BY <1>1, <1>2, <2>2, <2>3
  <2> QED BY <2>4 DEF OpMask, OpUnmask, n, o
<1>6. Plain => Serves(m, req, [m |-> shutdown(m), reply |-> Reply(TRUE, {})])
  <2>1. MgrInv(shutdown(m)) /\ Follows(m, shutdown(m))
    <3> DEFINE n == shutdown(m)
    <3>1. n \in Managers
      BY DEF shutdown, MgrInv, Managers
    <3>2. n.jobs = m.jobs /\ n.unit_job = m.unit_job /\ n.completed = m.completed
          /\ n.last = m.last
      BY DEF shutdown, MgrInv, Managers
    <3> HIDE DEF n
    <3>3. MgrInv(n) /\ Follows(m, n)
      BY <3>1, <3>2, SameJobs
    <3> QED BY <3>3 DEF n
  <2> QED BY <1>1, <1>2, <2>1
<1>7. Plain => /\ Serves(m, req, OpQuery(m))
               /\ Serves(m, req, [m |-> m, reply |-> Reply(FALSE, {})])
  BY <1>1, <1>2, FollowsItself DEF OpQuery
<1>8. Plain => Serves(m, req, OpKill(m, req, live))
  <2> DEFINE r == IF req.units = <<>> THEN Fail(m) ELSE kill(m, Head(req.units), live)
  <2>1. OpKill(m, req, live) = [m |-> r.m, reply |-> Reply(~r.err, {})]
    BY DEF OpKill
  <2>2. Good(m, r)
    BY GoodFail, KillKeeps
  <2> HIDE DEF r
  <2>3. MgrInv(r.m) /\ Follows(m, r.m) /\ r.err \in BOOLEAN
    BY <2>2 DEF Good, Rets
  <2>4. PICK ok \in BOOLEAN : ok = ~r.err
    OBVIOUS
  <2>5. Plain => Serves(m, req, [m |-> r.m, reply |-> Reply(ok, {})])
    BY <1>1, <1>2, <2>3
  <2> QED BY <2>1, <2>4, <2>5
<1>9. CASE Plain
  <2>1. /\ req.op \notin {"start", "stop"} /\ req.op \notin UnitVerbs
        /\ req.op # "is_active" /\ req.op # "is_failed" /\ req.op # "is_system_running"
        /\ req.op # "job_status"
    BY <1>9
  <2> HIDE DEF Plain
  <2> QED BY <1>3, <1>4, <1>5, <1>6, <1>7, <1>8, <1>9, <2>1 DEF dispatch
<1>10. CASE req.op \in {"start", "stop"}
  BY <1>10, OpJobsServes DEF dispatch, UnitVerbs
<1>11. CASE req.op \in UnitVerbs
  BY <1>11, OpUnitsServes DEF dispatch, UnitVerbs
<1>12. CASE req.op \in {"is_active", "is_failed", "is_system_running"}
  BY <1>12, ExitsServe DEF dispatch, UnitVerbs
<1>13. CASE req.op = "job_status"
  BY <1>13, JobStatusServes DEF dispatch, UnitVerbs
<1> QED BY <1>9, <1>10, <1>11, <1>12, <1>13

-----------------------------------------------------------------------------
(* The processes, the connections and the table of clients.                *)

Procs(c) ==
  [pc : {"connect", "write", "read", "done"}, cmd : Menu[c],
   step : {"op", "jobs", "list", "show", "terminating"}, rest : Seq(Names),
   sent : Nat, got : Nat, ids : SUBSET Nat, polls : Nat, exit : Nat]

Conns ==
  [st : {"none", "queued", "open", "hangup", "closed"}, up : Nat, down : Nat,
   served : {0, 1}, why : {"none", "cap", "uid", "hangup", "done", "long", "panic", "exit"},
   answer : Replies, size : Nat]

ControlType ==
  /\ backlog \in Seq(Clients)
  /\ DOMAIN control_clients \subseteq Clients
  /\ control_clients \in [DOMAIN control_clients -> [buffer : Nat, out : Nat]]
  /\ conn \in [Clients -> Conns]
  /\ DOMAIN proc = Clients
  /\ \A c \in Clients : proc[c] = Idle \/ proc[c] \in Procs(c)

\* Jobs that left the queue, and left it well if they ended
Settled(m, ids) ==
  \A id \in ids : id \notin DOMAIN m.jobs /\ (id \in DOMAIN m.completed => m.completed[id])

Waits(p) == p.cmd.verb \in {"start", "stop"} /\ should_wait(p.cmd)

\* Where a process stands: it asks about jobs it was given, and it goes past
\* wait_for_jobs only when they are settled.
ProcInv(m, p) ==
  p # Idle =>
    /\ p.ids \subseteq 1 .. m.last
    /\ p.pc # "done" => p.exit = 0 /\ (p.step = "op" /\ IgnoreDependencies(p.cmd) => p.rest # <<>>)
    /\ p.pc = "connect" => p.sent = 0 /\ p.got = 0
    /\ p.pc = "write" => p.sent < RequestOf(p).size /\ p.got = 0
    /\ p.pc = "read" => p.sent = RequestOf(p).size
    /\ p.step \in {"list", "show"} => p.ids = {}
    /\ p.step = "terminating" \/ (p.pc = "done" /\ p.exit = 0 /\ Waits(p)) => Settled(m, p.ids)

\* A connection and the process at its other end.
ConnInv(m, p, k) ==
  /\ p = Idle => k.st = "none"
  /\ p # Idle /\ p.pc = "connect" => k.st \in {"none", "closed"}
  /\ k.st \in {"queued", "open"} => p # Idle /\ p.pc \in {"write", "read"}
  /\ k.st = "hangup" => p # Idle /\ p.pc = "done"
  /\ k.st \in {"none", "queued"} => k.served = 0
  /\ k.st = "queued" => k.up = p.sent
  /\ k.served = 0 => k.down = 0 /\ (p # Idle /\ p.pc = "read" => p.got = 0)
  /\ k.served = 1 =>
       /\ p # Idle /\ p.cmd.uid = "manager" /\ p.pc # "write"
       /\ p.exit = 130 => p.sent = RequestOf(p).size
       /\ p.pc = "read" => p.got + k.down <= k.size /\ Tells(m, RequestOf(p), k.answer)
  /\ k.why = "done" =>
       k.st = "closed" /\ k.served = 1 /\ (p.pc = "read" => p.got + k.down = k.size)

\* A client of the manager: its line is on the way, or its answer.
EntryInv(p, k, e) ==
  /\ k.st \in {"open", "hangup"}
  /\ p.cmd.uid = "manager"
  /\ e.buffer < MAX_REQUEST /\ e.out <= MAX_PENDING_RESPONSE
  /\ e.out = 0 => k.served = 0 /\ (k.st = "open" => e.buffer + k.up = p.sent)
  /\ e.out > 0 => k.served = 1 /\ (k.st = "open" => p.got + k.down + e.out = k.size)

TableInv ==
  /\ IsFiniteSet(DOMAIN control_clients)
  /\ Cardinality(DOMAIN control_clients) <= MAX_CONCURRENT_CLIENTS
  /\ \A c \in DOMAIN control_clients : EntryInv(proc[c], conn[c], control_clients[c])
  /\ \A c \in Clients : conn[c].st = "open" => c \in DOMAIN control_clients
  /\ ~Up => control_clients = [c \in {} |-> c]

\* The backlog holds each connection once, as it was made.
BacklogInv ==
  /\ \A i, j \in DOMAIN backlog : backlog[i] = backlog[j] => i = j
  /\ Up => \A i \in DOMAIN backlog :
       /\ conn[backlog[i]].st \in {"queued", "hangup"} /\ conn[backlog[i]].served = 0
       /\ backlog[i] \notin DOMAIN control_clients

ControlInv ==
  /\ MgrInv(mgr) /\ ControlType /\ TableInv /\ BacklogInv
  /\ \A c \in Clients : ProcInv(mgr, proc[c]) /\ ConnInv(mgr, proc[c], conn[c])

\* What was true of the manager stays true of what follows it.
LEMMA TellsStill ==
  ASSUME NEW m, NEW n, MgrInv(m), MgrInv(n), Follows(m, n), NEW req, NEW reply,
         req.ids \subseteq 1 .. m.last, Tells(m, req, reply)
  PROVE  Tells(n, req, reply)
<1>1. m.last \in Nat /\ n.last \in Nat /\ m.last <= n.last
  BY DEF MgrInv, Managers, Follows
<1>2. \A id \in 1 .. m.last : id \in 1 .. n.last
  BY <1>1
<1>3. ASSUME RowsTell(m, req.ids, reply.data)
      PROVE  RowsTell(n, req.ids, reply.data)
  BY <1>3 DEF RowsTell, Follows
<1> QED BY <1>2, <1>3 DEF Tells

LEMMA SettledStill ==
  ASSUME NEW m, NEW n, Follows(m, n), NEW ids, ids \subseteq 1 .. m.last, Settled(m, ids)
  PROVE  Settled(n, ids)
BY DEF Follows, Settled

LEMMA ProcStill ==
  ASSUME NEW m, NEW n, MgrInv(m), MgrInv(n), Follows(m, n), NEW p, ProcInv(m, p)
  PROVE  ProcInv(n, p)
<1>1. m.last \in Nat /\ n.last \in Nat /\ m.last <= n.last
  BY DEF MgrInv, Managers, Follows
<1>2. \A id \in 1 .. m.last : id \in 1 .. n.last
  BY <1>1
<1>3. p # Idle /\ Settled(m, p.ids) => Settled(n, p.ids)
  BY SettledStill DEF ProcInv
<1> QED BY <1>2, <1>3 DEF ProcInv

\* What a process asks for.
LEMMA RequestShape ==
  ASSUME NEW c \in Clients, NEW p \in Procs(c), NEW m, ProcInv(m, p), p.pc # "done"
  PROVE  LET req == RequestOf(p) IN
         /\ req.units \in Seq(Names) /\ req.ids \in SUBSET Nat /\ req.ids \subseteq p.ids
         /\ p.step = "op" => req.op = OpOf(p.cmd)
         /\ p.step = "jobs" => req.op = "job_status" /\ req.ids = p.ids
<1>1. p.cmd \in Menu[c] /\ p.rest \in Seq(Names) /\ p.ids \in SUBSET Nat
  BY DEF Procs
<1>2. p # Idle
  BY DEF Procs, Idle
<1>3. p.cmd.units \in Seq(Names)
  BY <1>1, MenuAssumption
<1>4. ASSUME p.step = "op", IgnoreDependencies(p.cmd)
      PROVE  <<Head(p.rest)>> \in Seq(Names)
  <2>1. p.rest # <<>>
    BY <1>2, <1>4 DEF ProcInv
  <2> QED BY <1>1, <2>1
<1>5. <<>> \in Seq(Names)
  OBVIOUS
<1> QED BY <1>1, <1>3, <1>4, <1>5 DEF RequestOf

LEMMA RequestSize ==
  ASSUME NEW c \in Clients, NEW p \in Procs(c)
  PROVE  RequestOf(p).size \in Nat \ {0} /\ RequestOf(p).resp \in Nat \ {0}
<1>1. p.cmd.size \in Nat \ {0} /\ p.cmd.resp \in Nat \ {0}
  BY MenuAssumption DEF Procs
<1>2. p.step \in {"op", "jobs", "list", "show", "terminating"}
  BY DEF Procs
<1> QED BY <1>1, <1>2 DEF RequestOf

LEMMA ConnStill ==
  ASSUME NEW m, NEW n, MgrInv(m), MgrInv(n), Follows(m, n), NEW c \in Clients,
         NEW p, p = Idle \/ p \in Procs(c), ProcInv(m, p), NEW k, ConnInv(m, p, k)
  PROVE  ConnInv(n, p, k)
<1>1. ASSUME p # Idle, p.pc = "read", Tells(m, RequestOf(p), k.answer)
      PROVE  Tells(n, RequestOf(p), k.answer)
  <2>1. RequestOf(p).ids \subseteq p.ids /\ p.ids \subseteq 1 .. m.last
    BY <1>1, RequestShape DEF ProcInv
  <2> QED BY <1>1, <2>1, TellsStill
<1> QED BY <1>1 DEF ConnInv

-----------------------------------------------------------------------------
(* How a process goes on once it has an answer, or none.                    *)

\* Where an answer, or the lack of one, may leave a process
GoesOn(m, c, p, q) ==
  /\ q \in Procs(c) /\ ProcInv(m, q)
  /\ q.pc \in {"connect", "done"} /\ q.exit # 130 /\ q.cmd = p.cmd

LEMMA ExitGoes ==
  ASSUME NEW m, NEW c \in Clients, NEW p \in Procs(c), p.ids \subseteq 1 .. m.last,
         NEW code \in {0, 1, 3, 4}, code = 0 /\ Waits(p) => Settled(m, p.ids)
  PROVE  GoesOn(m, c, p, Exit(p, code))
<1> DEFINE q == Exit(p, code)
<1>1. code \in Nat
  OBVIOUS
<1>2. q = [p EXCEPT !.pc = "done", !.exit = code, !.step = "op", !.polls = 0, !.got = 0]
  BY DEF Exit
<1> HIDE DEF q
<1>3. q \in Procs(c)
  BY <1>1, <1>2 DEF Procs
<1>4. q.pc = "done" /\ q.exit = code /\ q.step = "op" /\ q.cmd = p.cmd /\ q.ids = p.ids
  BY <1>2 DEF Procs
<1>5. ProcInv(m, q)
  BY <1>4 DEF ProcInv, Waits
<1> QED BY <1>3, <1>4, <1>5 DEF GoesOn, q

LEMMA AskGoes ==
  ASSUME NEW m, NEW c \in Clients, NEW p \in Procs(c), p.ids \subseteq 1 .. m.last, p.exit = 0,
         NEW step \in {"op", "jobs", "list", "show", "terminating"}, NEW polls \in Nat,
         step = "op" /\ IgnoreDependencies(p.cmd) => p.rest # <<>>,
         step \in {"list", "show"} => p.ids = {},
         step = "terminating" => Settled(m, p.ids)
  PROVE  /\ GoesOn(m, c, p, Ask(p, step))
         /\ GoesOn(m, c, p, [Ask(p, step) EXCEPT !.polls = polls])
<1>1. ASSUME NEW q, q = Ask(p, step) \/ q = [Ask(p, step) EXCEPT !.polls = polls]
      PROVE  GoesOn(m, c, p, q)
  <2>1. q \in Procs(c) /\ q.pc = "connect" /\ q.exit = 0 /\ q.step = step /\ q.cmd = p.cmd
        /\ q.ids = p.ids /\ q.rest = p.rest /\ q.sent = 0 /\ q.got = 0
    BY <1>1 DEF Ask, Procs
  <2>2. ProcInv(m, q)
    BY <2>1 DEF ProcInv
  <2> QED BY <2>1, <2>2 DEF GoesOn
<1> QED BY <1>1

LEMMA PollGoes ==
  ASSUME NEW m, NEW c \in Clients, NEW p \in Procs(c), ProcInv(m, p), p.pc # "done",
         p.step # "op"
  PROVE  GoesOn(m, c, p, PollAgain(p))
<1>1. p # Idle /\ p.ids \subseteq 1 .. m.last /\ p.exit = 0
  BY DEF ProcInv, Procs, Idle
<1>2. p.step \in {"jobs", "list", "show", "terminating"} /\ p.polls + 1 \in Nat
  BY DEF Procs
<1>3. GoesOn(m, c, p, Exit(p, 1))
  BY <1>1, ExitGoes
<1>4. GoesOn(m, c, p, [Ask(p, p.step) EXCEPT !.polls = p.polls + 1])
  <2>1. /\ p.step \in {"list", "show"} => p.ids = {}
        /\ p.step = "terminating" => Settled(m, p.ids)
    BY <1>1 DEF ProcInv
  <2> QED BY <1>1, <1>2, <2>1, AskGoes
<1>5. [Ask(p, p.step) EXCEPT !.polls = @ + 1] = [Ask(p, p.step) EXCEPT !.polls = p.polls + 1]
  BY DEF Ask, Procs
<1> QED BY <1>3, <1>4, <1>5 DEF PollAgain

LEMMA AfterOpGoes ==
  ASSUME NEW m, NEW c \in Clients, NEW p \in Procs(c), p.ids \subseteq 1 .. m.last, p.exit = 0
  PROVE  GoesOn(m, c, p, AfterOp(p))
<1>1. p.cmd.wait \in BOOLEAN
  BY MenuAssumption DEF Procs
<1>2. GoesOn(m, c, p, Ask(p, "jobs"))
  BY AskGoes
<1>3. ASSUME ~(should_wait(p.cmd) /\ p.ids # {})
      PROVE  /\ p.cmd.wait => GoesOn(m, c, p, Ask(p, "list"))
             /\ GoesOn(m, c, p, Exit(p, 0))
  <2>1. should_wait(p.cmd) => p.ids = {}
    BY <1>3
  <2>2. p.cmd.wait => p.ids = {}
    BY <2>1 DEF should_wait
  <2>3. Waits(p) => Settled(m, p.ids)
    BY <2>1 DEF Waits, Settled
  <2>4. p.cmd.wait => GoesOn(m, c, p, Ask(p, "list"))
    BY <2>2, AskGoes
  <2>5. GoesOn(m, c, p, Exit(p, 0))
    BY <2>3, ExitGoes
  <2> QED BY <2>4, <2>5
<1> QED BY <1>2, <1>3 DEF AfterOp

\* The last answer to the command itself ...
LEMMA OpAnsweredGoes ==
  ASSUME NEW m, NEW c \in Clients, NEW p \in Procs(c), MgrInv(m), ProcInv(m, p), p.pc # "done",
         p.step = "op", NEW reply, reply.ok, Tells(m, RequestOf(p), reply)
  PROVE  GoesOn(m, c, p, OpAnswered(p, reply))
<1> DEFINE q == [p EXCEPT !.ids = @ \cup reply.data, !.rest = IF @ = <<>> THEN @ ELSE Tail(@)]
           verb == p.cmd.verb
<1>1. p # Idle /\ p.ids \subseteq 1 .. m.last /\ p.exit = 0 /\ RequestOf(p).op = OpOf(p.cmd)
  BY RequestShape DEF ProcInv, Procs, Idle
<1>2. CASE verb \in JobVerbs
  <2>1. RequestOf(p).op \in {"start", "stop"} \cup UnitVerbs
    BY <1>1, <1>2 DEF OpOf, IgnoreDependencies, JobVerbs, FileVerbs, UnitVerbs
  <2>2. reply.data \subseteq 1 .. m.last
    BY <2>1 DEF Tells
  <2>3. q \in Procs(c) /\ q.cmd = p.cmd /\ q.exit = 0 /\ q.ids = p.ids \cup reply.data
    <3>1. p.rest \in Seq(Names) /\ (p.rest # <<>> => Tail(p.rest) \in Seq(Names))
      BY DEF Procs
    <3>2. m.last \in Nat /\ p.ids \cup reply.data \in SUBSET Nat
      BY <1>1, <2>2 DEF MgrInv, Managers
    <3> QED BY <1>1, <3>1, <3>2 DEF Procs
  <2> HIDE DEF q
  <2>4. q.ids \subseteq 1 .. m.last
    BY <1>1, <2>2, <2>3
  <2>5. ASSUME NEW r, GoesOn(m, c, q, r)
        PROVE  GoesOn(m, c, p, r)
    BY <2>3, <2>5 DEF GoesOn
  <2>6. GoesOn(m, c, q, AfterOp(q))
    BY <2>3, <2>4, AfterOpGoes
  <2>7. IgnoreDependencies(p.cmd) /\ q.rest # <<>> => GoesOn(m, c, q, Ask(q, "op"))
    BY <2>3, <2>4, AskGoes
  <2>8. OpAnswered(p, reply)
          = IF IgnoreDependencies(p.cmd) /\ q.rest # <<>> THEN Ask(q, "op") ELSE AfterOp(q)
    BY <1>2 DEF OpAnswered, JobVerbs, q
  <2> QED BY <2>5, <2>6, <2>7, <2>8
<1>3. CASE verb \in {"is_active", "is_failed", "is_system_running"}
  <2>1. RequestOf(p).op = verb /\ ~Waits(p)
    BY <1>1, <1>3 DEF OpOf, IgnoreDependencies, FileVerbs, Waits
  <2>2. reply.data \in {0, 1, 3, 4}
    BY <1>3, <2>1 DEF Tells
  <2>3. GoesOn(m, c, p, Exit(p, reply.data))
    BY <1>1, <2>1, <2>2, ExitGoes
  <2> QED BY <1>3, <2>3 DEF OpAnswered, JobVerbs
<1>4. CASE verb \notin JobVerbs \cup {"is_active", "is_failed", "is_system_running"}
  <2>1. ~Waits(p)
    BY <1>4 DEF Waits, JobVerbs
  <2>2. GoesOn(m, c, p, Exit(p, 0))
    BY <1>1, <2>1, ExitGoes
  <2> QED BY <1>4, <2>2 DEF OpAnswered
<1> QED BY <1>2, <1>3, <1>4

\* ... and those of the waits after it: only settled jobs let it pass.
LEMMA JobsAnsweredGoes ==
  ASSUME NEW m, NEW c \in Clients, NEW p \in Procs(c), MgrInv(m), ProcInv(m, p), p.pc # "done",
         p.step = "jobs", NEW rows, RowsTell(m, p.ids, rows)
  PROVE  GoesOn(m, c, p, JobsAnswered(p, rows))
<1>1. p # Idle /\ p.ids \subseteq 1 .. m.last /\ p.exit = 0
  BY DEF ProcInv, Procs, Idle
<1>2. GoesOn(m, c, p, PollAgain(p)) /\ GoesOn(m, c, p, Exit(p, 1))
  BY <1>1, PollGoes, ExitGoes
<1>3. ASSUME ~ \E id \in DOMAIN rows : rows[id] = "pending",
             ~ \E id \in DOMAIN rows : rows[id] = "failed"
      PROVE  /\ GoesOn(m, c, p, [Ask(p, "terminating") EXCEPT !.polls = 0])
             /\ GoesOn(m, c, p, Exit(p, 0))
  <2>1. \A id \in DOMAIN rows : rows[id] = "done"
    BY <1>3 DEF RowsTell, Rows
  <2>2. Settled(m, p.ids)
    BY <2>1 DEF RowsTell, Settled
  <2> QED BY <1>1, <2>2, AskGoes, ExitGoes
<1> QED BY <1>2, <1>3 DEF JobsAnswered

LEMMA AnsweredGoes ==
  ASSUME NEW m, NEW c \in Clients, NEW p \in Procs(c), MgrInv(m), ProcInv(m, p), p.pc # "done",
         NEW reply, ~reply.ok \/ Tells(m, RequestOf(p), reply)
  PROVE  GoesOn(m, c, p, Answered(p, reply))
<1>1. p # Idle /\ p.ids \subseteq 1 .. m.last /\ p.exit = 0
  BY DEF ProcInv, Procs, Idle
<1>3. CASE ~reply.ok
  <2>1. GoesOn(m, c, p, Exit(p, 1))
    BY <1>1, ExitGoes
  <2>2. p.cmd.verb \in FileVerbs => GoesOn(m, c, p, Exit(p, 0))
    BY <1>1, ExitGoes DEF FileVerbs, Waits
  <2> QED BY <1>3, <2>1, <2>2 DEF Answered
<1>4. CASE reply.ok
  <2>1. p.step \in {"op", "jobs", "list", "show", "terminating"}
    BY DEF Procs
  <2>2. CASE p.step = "op"
    BY <1>4, <2>2, OpAnsweredGoes DEF Answered
  <2>3. CASE p.step = "jobs"
    <3>1. RowsTell(m, p.ids, reply.data)
      BY <1>4, <2>3, RequestShape DEF Tells
    <3> QED BY <1>4, <2>3, <3>1, JobsAnsweredGoes DEF Answered
  <2>4. ASSUME p.step # "op", p.step # "jobs", NEW states
        PROVE  GoesOn(m, c, p, ShowAnswered(p, states))
    <3>1. Settled(m, p.ids)
      BY <1>1, <2>1, <2>4 DEF ProcInv, Settled
    <3> QED BY <1>1, <3>1, ExitGoes DEF ShowAnswered
  <2>5. CASE p.step = "list"
    <3>1. p.ids = {}
      BY <1>1, <2>5 DEF ProcInv
    <3>2. GoesOn(m, c, p, Ask(p, "show")) /\ GoesOn(m, c, p, PollAgain(p))
      BY <1>1, <2>5, <3>1, AskGoes, PollGoes
    <3>3. GoesOn(m, c, p, ListAnswered(p, reply.data))
      BY <3>2 DEF ListAnswered
    <3> QED BY <1>4, <2>5, <3>3 DEF Answered
  <2>6. CASE p.step = "show"
    BY <1>4, <2>4, <2>6 DEF Answered
  <2>7. CASE p.step = "terminating"
    <3>1. GoesOn(m, c, p, TerminatingAnswered(p, reply.data))
      BY <2>4, <2>7, PollGoes DEF TerminatingAnswered
    <3> QED BY <1>4, <2>7, <3>1 DEF Answered
  <2> QED BY <2>1, <2>2, <2>3, <2>5, <2>6, <2>7
<1> QED BY <1>3, <1>4

-----------------------------------------------------------------------------
(* Who is touched by a step.                                               *)

\* A process and its end of the connection.
LEMMA ClientStep ==
  ASSUME ControlInv, NEW c \in Clients, NEW q \in Procs(c), NEW k \in Conns,
         ProcInv(mgr, q), ConnInv(mgr, q, k),
         c \in DOMAIN control_clients => EntryInv(q, k, control_clients[c]),
         k.st = "open" => c \in DOMAIN control_clients,
         mgr' = mgr, control_clients' = control_clients,
         backlog' \in Seq(Clients), BacklogInv',
         proc' = [proc EXCEPT ![c] = q], conn' = [conn EXCEPT ![c] = k]
  PROVE  ControlInv'
<1>1. /\ proc'[c] = q /\ conn'[c] = k
      /\ \A d \in Clients \ {c} : proc'[d] = proc[d] /\ conn'[d] = conn[d]
      /\ DOMAIN proc' = Clients /\ conn' \in [Clients -> Conns]
  BY DEF ControlInv, ControlType
<1>2. ControlType'
  BY <1>1 DEF ControlInv, ControlType
<1>3. TableInv'
  <2>1. ASSUME NEW d \in DOMAIN control_clients
        PROVE  EntryInv(proc'[d], conn'[d], control_clients[d])
    <3>1. d \in Clients
      BY DEF ControlInv, ControlType
    <3> QED BY <1>1, <3>1 DEF ControlInv, TableInv
  <2>2. \A d \in Clients : conn'[d].st = "open" => d \in DOMAIN control_clients
    BY <1>1 DEF ControlInv, TableInv
  <2> QED BY <2>1, <2>2 DEF ControlInv, TableInv, Up
<1>4. \A d \in Clients : ProcInv(mgr, proc'[d]) /\ ConnInv(mgr, proc'[d], conn'[d])
  BY <1>1 DEF ControlInv
<1> QED BY <1>2, <1>3, <1>4 DEF ControlInv

\* The backlog does not see a connection that is not in it, or stays in it.
LEMMA BacklogStill ==
  ASSUME ControlInv, NEW c \in Clients, NEW k \in Conns,
         Up /\ c \in Range(backlog) => k.st \in {"queued", "hangup"} /\ k.served = 0,
         Up' => Up, backlog' = backlog, DOMAIN control_clients' \subseteq DOMAIN control_clients,
         conn' = [conn EXCEPT ![c] = k]
  PROVE  backlog' \in Seq(Clients) /\ BacklogInv'
<1>1. \A i \in DOMAIN backlog : backlog[i] \in Clients
  BY DEF ControlInv, ControlType
<1>2. \A i \in DOMAIN backlog : backlog[i] = c => c \in Range(backlog)
  BY DEF Range
<1>3. \A d \in Clients : conn'[d] = IF d = c THEN k ELSE conn[d]
  BY DEF ControlInv, ControlType
<1>4. backlog' \in Seq(Clients)
  BY DEF ControlInv, ControlType
<1> QED BY <1>1, <1>2, <1>3, <1>4 DEF ControlInv, BacklogInv

\* What the manager has of a client, and its end of the connection.
LEMMA LoopStep ==
  ASSUME ControlInv, NEW c \in DOMAIN control_clients, NEW k \in Conns,
         MgrInv(mgr'), Follows(mgr, mgr'), Up', Up,
         control_clients' \in [DOMAIN control_clients' -> [buffer : Nat, out : Nat]],
         DOMAIN control_clients' \in {DOMAIN control_clients, DOMAIN control_clients \ {c}},
         \A d \in DOMAIN control_clients \ {c} : control_clients'[d] = control_clients[d],
         c \in DOMAIN control_clients' => EntryInv(proc[c], k, control_clients'[c]),
         k.st = "open" => c \in DOMAIN control_clients',
         ConnInv(mgr', proc[c], k),
         conn' = [conn EXCEPT ![c] = k], proc' = proc, backlog' = backlog
  PROVE  ControlInv'
<1>1. c \in Clients /\ DOMAIN control_clients \subseteq Clients
  BY DEF ControlInv, ControlType
<1>2. /\ conn'[c] = k /\ \A d \in Clients \ {c} : conn'[d] = conn[d]
      /\ conn' \in [Clients -> Conns]
  BY <1>1 DEF ControlInv, ControlType
<1>3. c \notin Range(backlog)
  BY DEF ControlInv, BacklogInv, Range
<1>4. backlog' \in Seq(Clients) /\ BacklogInv'
  BY <1>1, <1>3, BacklogStill
<1>5. ControlType'
  BY <1>1, <1>2, <1>4 DEF ControlInv, ControlType
<1>6. TableInv'
  <2>1. IsFiniteSet(DOMAIN control_clients')
        /\ Cardinality(DOMAIN control_clients') <= MAX_CONCURRENT_CLIENTS
    <3>1. IsFiniteSet(DOMAIN control_clients)
          /\ Cardinality(DOMAIN control_clients) <= MAX_CONCURRENT_CLIENTS
      BY DEF ControlInv, TableInv
    <3>2. DOMAIN control_clients' \subseteq DOMAIN control_clients
      OBVIOUS
    <3>3. /\ IsFiniteSet(DOMAIN control_clients')
          /\ Cardinality(DOMAIN control_clients') <= Cardinality(DOMAIN control_clients)
      BY <3>1, <3>2, FS_Subset
    <3>4. /\ Cardinality(DOMAIN control_clients') \in Nat
          /\ Cardinality(DOMAIN control_clients) \in Nat
      BY <3>1, <3>3, FS_CardinalityType
    <3> QED BY <3>1, <3>3, <3>4, ControlAssumption
  <2>2. \A d \in DOMAIN control_clients' : EntryInv(proc'[d], conn'[d], control_clients'[d])
    BY <1>1, <1>2 DEF ControlInv, TableInv
  <2>3. \A d \in Clients : conn'[d].st = "open" => d \in DOMAIN control_clients'
    BY <1>2 DEF ControlInv, TableInv
  <2> QED BY <2>1, <2>2, <2>3 DEF TableInv
<1>7. \A d \in Clients : ProcInv(mgr', proc[d])
  BY ProcStill DEF ControlInv
<1>8. ASSUME NEW d \in Clients
      PROVE  ConnInv(mgr', proc[d], conn'[d])
  <2>1. CASE d = c
    BY <1>2, <2>1
  <2>2. CASE d # c
    <3>1. ConnInv(mgr', proc[d], conn[d])
      BY ConnStill DEF ControlInv, ControlType
    <3> QED BY <1>2, <2>2, <3>1
  <2> QED BY <2>1, <2>2
<1> QED BY <1>4, <1>5, <1>6, <1>7, <1>8 DEF ControlInv

\* Only what clients ask about.
LEMMA EngineStep ==
  ASSUME ControlInv, MgrInv(mgr'), Follows(mgr, mgr'), Up', Up,
         control_clients' = control_clients, conn' = conn, proc' = proc, backlog' = backlog
  PROVE  ControlInv'
<1>1. ControlType' /\ TableInv' /\ BacklogInv'
  BY DEF ControlInv, ControlType, TableInv, BacklogInv
<1>2. \A d \in Clients : ProcInv(mgr', proc[d])
  BY ProcStill DEF ControlInv
<1>3. \A d \in Clients : ConnInv(mgr', proc[d], conn[d])
  BY ConnStill DEF ControlInv, ControlType
<1> QED BY <1>1, <1>2, <1>3 DEF ControlInv

\* The end of the manager.
LEMMA ManagerEnds ==
  ASSUME ControlInv, MgrInv(mgr'), Follows(mgr, mgr'), ~Up',
         NEW cn \in [Clients -> Conns], \A d \in Clients : ConnInv(mgr', proc[d], cn[d]),
         NEW why \in {"panic", "exit"}, conn' = AllClosed(cn, why),
         control_clients' = [d \in {} |-> d], proc' = proc, backlog' \in {backlog, <<>>}
  PROVE  ControlInv'
<1>1. ASSUME NEW d \in Clients
      PROVE  /\ conn'[d] \in Conns /\ conn'[d].st # "open"
             /\ ConnInv(mgr', proc[d], conn'[d])
  <2> DEFINE k == [cn[d] EXCEPT !.st = "closed", !.why = why]
  <2>1. conn'[d] = IF cn[d].st \in {"queued", "open"} THEN k ELSE cn[d]
    BY DEF AllClosed
  <2>2. cn[d] \in Conns /\ ConnInv(mgr', proc[d], cn[d])
    OBVIOUS
  <2>3. /\ k \in Conns /\ k.st = "closed" /\ k.why # "done" /\ k.served = cn[d].served
        /\ k.down = cn[d].down /\ k.size = cn[d].size /\ k.answer = cn[d].answer
    BY <2>2 DEF Conns
  <2> HIDE DEF k
  <2>4. cn[d].st \in {"queued", "open"} => ConnInv(mgr', proc[d], k)
    BY <2>2, <2>3 DEF ConnInv
  <2> QED BY <2>1, <2>2, <2>3, <2>4
<1>2. conn' \in [Clients -> Conns]
  BY <1>1 DEF AllClosed
<1>3. ControlType'
  <2>1. backlog' \in Seq(Clients)
    <3>1. backlog \in Seq(Clients)
      BY DEF ControlInv, ControlType
    <3>2. <<>> \in Seq(Clients)
      OBVIOUS
    <3> QED BY <3>1, <3>2
  <2>2. DOMAIN control_clients' = {}
        /\ control_clients' \in [DOMAIN control_clients' -> [buffer : Nat, out : Nat]]
    OBVIOUS
  <2>3. DOMAIN proc' = Clients /\ \A d \in Clients : proc'[d] = Idle \/ proc'[d] \in Procs(d)
    BY DEF ControlInv, ControlType
  <2> QED BY <1>2, <2>1, <2>2, <2>3 DEF ControlType
<1>4. TableInv'
  <2>1. DOMAIN control_clients' = {}
    OBVIOUS
  <2>2. IsFiniteSet({}) /\ Cardinality({}) = 0
    BY FS_EmptySet
  <2> QED BY <1>1, <2>1, <2>2, ControlAssumption DEF TableInv
<1>5. BacklogInv'
  BY DEF ControlInv, BacklogInv
<1>6. \A d \in Clients : ProcInv(mgr', proc[d])
  BY ProcStill DEF ControlInv
<1> QED BY <1>1, <1>3, <1>4, <1>5, <1>6 DEF ControlInv

-----------------------------------------------------------------------------
(* The steps of a process.                                                 *)

LEMMA SameRequest ==
  ASSUME NEW p, NEW q, q.cmd = p.cmd, q.step = p.step, q.rest = p.rest, q.ids = p.ids
  PROVE  RequestOf(q) = RequestOf(p)
BY DEF RequestOf

LEMMA ProcOf ==
  ASSUME ControlInv, NEW c \in Clients
  PROVE  /\ conn[c] \in Conns /\ ProcInv(mgr, proc[c]) /\ ConnInv(mgr, proc[c], conn[c])
         /\ proc[c] = Idle \/ (proc[c] # Idle /\ proc[c] \in Procs(c))
         /\ conn = [conn EXCEPT ![c] = conn[c]]
         /\ MgrInv(mgr)
BY DEF ControlInv, ControlType

\* An answer, or none: the connection is at its end.
LEMMA ClientGoes ==
  ASSUME ControlInv, NEW c \in Clients, proc[c] # Idle,
         NEW q, GoesOn(mgr, c, proc[c], q),
         NEW k \in Conns, k.st = conn[c].st, k.st \in {"none", "closed"},
         k.served = conn[c].served, k.why = conn[c].why, k.served = 0 => k.down = 0,
         mgr' = mgr, control_clients' = control_clients, backlog' = backlog,
         proc' = [proc EXCEPT ![c] = q], conn' = [conn EXCEPT ![c] = k]
  PROVE  ControlInv'
<1>1. /\ q \in Procs(c) /\ ProcInv(mgr, q) /\ q.pc \in {"connect", "done"} /\ q.exit # 130
      /\ q.cmd = proc[c].cmd /\ q # Idle
  BY DEF GoesOn, Procs, Idle
<1>2. ConnInv(mgr, proc[c], conn[c])
  BY ProcOf
<1>3. ConnInv(mgr, q, k)
  BY <1>1, <1>2 DEF ConnInv
<1>4. c \notin DOMAIN control_clients
  BY DEF ControlInv, TableInv, EntryInv
<1>5. ~(Up /\ c \in Range(backlog))
  BY DEF ControlInv, BacklogInv, Range
<1>6. backlog' \in Seq(Clients) /\ BacklogInv'
  BY <1>5, BacklogStill DEF Up
<1> QED BY <1>1, <1>3, <1>4, <1>6, ClientStep

LEMMA RunKeeps ==
  ASSUME ControlInv, NEW c \in Clients, Run(c)
  PROVE  ControlInv'
<1>1. PICK cmd \in Menu[c] : \E changed \in BOOLEAN :
        proc' = [proc EXCEPT ![c] =
          IF LocalError(cmd) \/ ~changed THEN Exit(NewProc(cmd), 1)
          ELSE IF cmd.verb = "disable" /\ ~cmd.now THEN Exit(NewProc(cmd), 0)
          ELSE IF IgnoreDependencies(cmd) /\ cmd.units = <<>> THEN AfterOp(NewProc(cmd))
          ELSE NewProc(cmd)]
  BY DEF Run
<1> DEFINE p == NewProc(cmd)
<1>2. p \in Procs(c) /\ p.ids = {} /\ p.exit = 0 /\ p.pc = "connect" /\ p.step = "op"
      /\ p.rest = cmd.units /\ p.cmd = cmd /\ p.sent = 0 /\ p.got = 0 /\ p # Idle
  <2>1. cmd.units \in Seq(Names)
    BY MenuAssumption
  <2> QED BY <2>1 DEF NewProc, Procs, Idle
<1> HIDE DEF p
<1>3. p.ids \subseteq 1 .. mgr.last /\ Settled(mgr, p.ids)
  BY <1>2 DEF Settled
<1>4. /\ GoesOn(mgr, c, p, Exit(p, 1)) /\ GoesOn(mgr, c, p, Exit(p, 0))
      /\ GoesOn(mgr, c, p, AfterOp(p))
  BY <1>2, <1>3, ExitGoes, AfterOpGoes
<1>5. ~(IgnoreDependencies(cmd) /\ cmd.units = <<>>) => GoesOn(mgr, c, p, p)
  BY <1>2, <1>3 DEF GoesOn, ProcInv
<1>6. PICK q : GoesOn(mgr, c, p, q) /\ proc' = [proc EXCEPT ![c] = q]
  BY <1>1, <1>4, <1>5 DEF p
<1>7. conn[c].st = "none" /\ conn[c].served = 0 /\ conn[c].down = 0 /\ conn[c].why # "done"
  <2>1. proc[c] = Idle
    BY DEF Run
  <2> QED BY <2>1, ProcOf DEF ConnInv
<1>8. /\ q \in Procs(c) /\ ProcInv(mgr, q) /\ q.pc \in {"connect", "done"} /\ q # Idle
  BY <1>6 DEF GoesOn, Procs, Idle
<1>9. ConnInv(mgr, q, conn[c])
  BY <1>7, <1>8 DEF ConnInv
<1>10. c \notin DOMAIN control_clients
  BY <1>7 DEF ControlInv, TableInv, EntryInv
<1>11. mgr' = mgr /\ control_clients' = control_clients /\ backlog' = backlog /\ conn' = conn
  BY DEF Run
<1>12. backlog' \in Seq(Clients) /\ BacklogInv'
  BY <1>11 DEF ControlInv, ControlType, BacklogInv, Up
<1>13. conn[c] \in Conns /\ conn' = [conn EXCEPT ![c] = conn[c]]
  BY <1>11, ProcOf
<1> QED BY <1>6, <1>7, <1>8, <1>9, <1>10, <1>11, <1>12, <1>13, ClientStep

\* The transport fails.
LEMMA BrokenKeeps ==
  ASSUME ControlInv, NEW c \in Clients, proc[c] # Idle, proc[c].pc # "done", Broken(c),
         conn[c].st \in {"none", "closed"},
         UNCHANGED <<mgr, backlog, control_clients, conn>>
  PROVE  ControlInv'
<1> DEFINE q == Answered(proc[c], Reply(FALSE, {}))
<1>1. ~Reply(FALSE, {}).ok
  BY DEF Reply
<1>2. GoesOn(mgr, c, proc[c], q)
  BY <1>1, ProcOf, AnsweredGoes
<1>3. proc' = [proc EXCEPT ![c] = q]
  BY DEF Broken
<1> HIDE DEF q
<1>4. conn[c].served = 0 => conn[c].down = 0
  BY ProcOf DEF ConnInv
<1>5. conn[c] \in Conns /\ conn' = [conn EXCEPT ![c] = conn[c]]
  BY ProcOf
<1> QED BY <1>2, <1>3, <1>4, <1>5, ClientGoes

LEMMA ConnectKeeps ==
  ASSUME ControlInv, NEW c \in Clients, proc[c] # Idle, Connect(c)
  PROVE  ControlInv'
<1>1. proc[c].pc = "connect" /\ proc[c] \in Procs(c) /\ mgr' = mgr
      /\ control_clients' = control_clients
  BY ProcOf DEF Connect
<1>2. conn[c].st \in {"none", "closed"}
  BY <1>1, ProcOf DEF ConnInv
<1>3. CASE ~Up
  BY <1>1, <1>2, <1>3, BrokenKeeps DEF Connect
<1>4. CASE Up
  <2> DEFINE q == [proc[c] EXCEPT !.pc = "write"]
             k == [NoConn EXCEPT !.st = "queued"]
  <2>1. /\ backlog' = Append(backlog, c)
        /\ proc' = [proc EXCEPT ![c] = q] /\ conn' = [conn EXCEPT ![c] = k]
    BY <1>4 DEF Connect
  <2>2. /\ q \in Procs(c) /\ q # Idle
        /\ q.pc = "write" /\ q.sent = 0 /\ q.got = 0 /\ q.exit = 0
        /\ q.ids \subseteq 1 .. mgr.last
        /\ q.step \in {"list", "show"} => q.ids = {}
        /\ q.step = "op" /\ IgnoreDependencies(q.cmd) => q.rest # <<>>
        /\ q.step = "terminating" => Settled(mgr, q.ids)
    BY <1>1, ProcOf DEF Procs, Idle, ProcInv
  <2>3. k \in Conns /\ k.st = "queued" /\ k.served = 0 /\ k.up = 0 /\ k.down = 0
        /\ k.why = "none"
    <3>1. Reply(FALSE, {}) \in Replies
      BY RepliesHave, DataHas
    <3> QED BY <3>1 DEF NoConn, Conns
  <2> HIDE DEF q, k
  <2>4. RequestOf(q).size \in Nat \ {0}
    BY <2>2, RequestSize
  <2>5. 0 < RequestOf(q).size
    BY <2>4
  <2>6. ProcInv(mgr, q) /\ ConnInv(mgr, q, k)
    BY <2>2, <2>3, <2>5 DEF ProcInv, ConnInv
  <2>7. c \notin DOMAIN control_clients /\ c \notin Range(backlog)
    BY <1>2, <1>4 DEF ControlInv, TableInv, EntryInv, BacklogInv, Range
  <2>8. backlog' \in Seq(Clients) /\ BacklogInv'
    <3>1. backlog \in Seq(Clients)
      BY DEF ControlInv, ControlType
    <3>2. /\ backlog' \in Seq(Clients) /\ DOMAIN backlog' = 1 .. Len(backlog) + 1
          /\ \A i \in DOMAIN backlog : i \in 1 .. Len(backlog) /\ backlog'[i] = backlog[i]
          /\ backlog'[Len(backlog) + 1] = c /\ Len(backlog) \in Nat
          /\ DOMAIN backlog = 1 .. Len(backlog)
      BY <2>1, <3>1
    <3>3. \A i \in DOMAIN backlog : backlog[i] # c /\ backlog[i] \in Clients
      BY <2>7, <3>1 DEF Range
    <3>4. \A i \in DOMAIN backlog' : i \in DOMAIN backlog \/ i = Len(backlog) + 1
      BY <3>2
    <3>5. \A i, j \in DOMAIN backlog' : backlog'[i] = backlog'[j] => i = j
      BY <3>2, <3>3, <3>4 DEF ControlInv, BacklogInv
    <3>6. \A d \in Clients : conn'[d] = IF d = c THEN k ELSE conn[d]
      BY <2>1 DEF ControlInv, ControlType
    <3>7. \A i \in DOMAIN backlog' :
            /\ conn'[backlog'[i]].st \in {"queued", "hangup"} /\ conn'[backlog'[i]].served = 0
            /\ backlog'[i] \notin DOMAIN control_clients
      BY <1>4, <2>3, <2>7, <3>2, <3>3, <3>4, <3>6 DEF ControlInv, BacklogInv
    <3> QED BY <1>1, <3>2, <3>5, <3>7 DEF BacklogInv
  <2> QED BY <1>1, <2>1, <2>2, <2>3, <2>6, <2>7, <2>8, ClientStep
<1> QED BY <1>3, <1>4

\* A piece of the request, or of the answer.
LEMMA WriteKeeps ==
  ASSUME ControlInv, NEW c \in Clients, proc[c] # Idle, Write(c)
  PROVE  ControlInv'
<1>1. /\ proc[c].pc = "write" /\ proc[c] \in Procs(c) /\ mgr' = mgr
      /\ control_clients' = control_clients /\ backlog' = backlog
  BY ProcOf DEF Write
<1>2. CASE conn[c].st = "closed"
  BY <1>1, <1>2, BrokenKeeps DEF Write
<1>3. CASE conn[c].st # "closed"
  <2>a. PICK pc \in {"write", "read"} :
          pc = IF proc[c].sent + 1 = RequestOf(proc[c]).size THEN "read" ELSE "write"
    OBVIOUS
  <2> DEFINE q == [proc[c] EXCEPT !.sent = @ + 1, !.pc = pc]
             k == [conn[c] EXCEPT !.up = @ + 1]
  <2>1. proc' = [proc EXCEPT ![c] = q] /\ conn' = [conn EXCEPT ![c] = k]
    BY <1>1, <1>3, <2>a, ProcOf DEF Write, ControlInv, ControlType
  <2>2. /\ proc[c].sent \in Nat /\ RequestOf(proc[c]).size \in Nat
        /\ proc[c].sent < RequestOf(proc[c]).size /\ proc[c].got = 0
    BY <1>1, ProcOf, RequestSize DEF ProcInv, Procs
  <2>3. /\ q \in Procs(c) /\ q # Idle /\ q.sent = proc[c].sent + 1
        /\ q.pc = pc
        /\ q.cmd = proc[c].cmd /\ q.step = proc[c].step /\ q.rest = proc[c].rest
        /\ q.ids = proc[c].ids /\ q.got = 0 /\ q.exit = proc[c].exit
    <3>1. PICK p \in Procs(c) : p = proc[c]
      BY <1>1
    <3>2. PICK sent \in Nat : sent = proc[c].sent + 1
      BY <2>2
    <3>3. q = [p EXCEPT !.sent = sent, !.pc = pc]
      BY <3>1, <3>2
    <3> HIDE DEF q
    <3>4. q \in Procs(c)
      BY <3>3 DEF Procs
    <3>5. /\ q # Idle /\ q.sent = sent /\ q.pc = pc
          /\ q.cmd = p.cmd /\ q.step = p.step /\ q.rest = p.rest
          /\ q.ids = p.ids /\ q.got = p.got /\ q.exit = p.exit
      BY <3>3 DEF Procs, Idle
    <3> QED BY <2>2, <3>1, <3>2, <3>4, <3>5
  <2>4. /\ conn[c].served = 0 /\ conn[c].down = 0 /\ conn[c].why # "done" /\ conn[c].up \in Nat
        /\ conn[c].st = "queued" => conn[c].up = proc[c].sent
        /\ conn[c].st # "hangup"
    BY <1>1, ProcOf DEF ConnInv, Conns
  <2>5. /\ k \in Conns /\ k.st = conn[c].st /\ k.served = 0 /\ k.down = 0 /\ k.why # "done"
        /\ k.up = conn[c].up + 1 /\ k.size = conn[c].size
    BY <2>4, ProcOf DEF Conns
  <2> HIDE DEF q, k
  <2>6. RequestOf(q) = RequestOf(proc[c])
    BY <2>3, SameRequest
  <2>7. ProcInv(mgr, q)
    BY <1>1, <2>a, <2>2, <2>3, <2>6, ProcOf DEF ProcInv
  <2>8. ConnInv(mgr, q, k)
    BY <1>3, <2>a, <2>3, <2>4, <2>5 DEF ConnInv
  <2>9. /\ c \in DOMAIN control_clients => EntryInv(q, k, control_clients[c])
        /\ k.st = "open" => c \in DOMAIN control_clients
    <3>1. ASSUME c \in DOMAIN control_clients
          PROVE  EntryInv(q, k, control_clients[c])
      <4>1. EntryInv(proc[c], conn[c], control_clients[c])
            /\ control_clients[c] \in [buffer : Nat, out : Nat]
        BY <3>1 DEF ControlInv, TableInv, ControlType
      <4> QED BY <2>2, <2>3, <2>4, <2>5, <4>1 DEF EntryInv
    <3> QED BY <2>5, <3>1 DEF ControlInv, TableInv
  <2>10. backlog' \in Seq(Clients) /\ BacklogInv'
    <3>1. Up /\ c \in Range(backlog) => conn[c].st \in {"queued", "hangup"}
      BY DEF ControlInv, BacklogInv, Range
    <3> QED BY <1>1, <2>1, <2>5, <3>1, BacklogStill DEF Up
  <2> QED BY <1>1, <2>1, <2>3, <2>5, <2>7, <2>8, <2>9, <2>10, ClientStep
<1> QED BY <1>2, <1>3

LEMMA ReadKeeps ==
  ASSUME ControlInv, NEW c \in Clients, proc[c] # Idle, Read(c)
  PROVE  ControlInv'
<1>1. /\ proc[c].pc = "read" /\ proc[c] \in Procs(c) /\ mgr' = mgr
      /\ control_clients' = control_clients /\ backlog' = backlog
  BY ProcOf DEF Read
<1>2. CASE conn[c].down = 0 /\ conn[c].st = "closed" /\ Broken(c) /\ UNCHANGED conn
  BY <1>1, <1>2, BrokenKeeps
<1>3. CASE /\ conn[c].down > 0
           /\ conn' = [conn EXCEPT ![c].down = @ - 1]
           /\ proc' = [proc EXCEPT ![c] =
                         IF proc[c].got + 1 = conn[c].size THEN Answered(@, conn[c].answer)
                         ELSE [proc[c] EXCEPT !.got = @ + 1]]
  <2> DEFINE k == [conn[c] EXCEPT !.down = @ - 1]
             p == proc[c]
  <2>1. conn' = [conn EXCEPT ![c] = k]
    BY <1>3, ProcOf DEF ControlInv, ControlType
  <2>2. /\ conn[c].down \in Nat /\ conn[c].size \in Nat /\ p.got \in Nat
        /\ conn[c].served \in {0, 1}
        /\ conn[c].st \in {"none", "queued", "open", "hangup", "closed"}
    BY <1>1, ProcOf DEF Conns, Procs
  <2>3. /\ conn[c].served = 1 /\ p.got + conn[c].down <= conn[c].size
        /\ Tells(mgr, RequestOf(p), conn[c].answer)
        /\ conn[c].why = "done" => p.got + conn[c].down = conn[c].size /\ conn[c].st = "closed"
        /\ p.cmd.uid = "manager" /\ p.exit = 130 => p.sent = RequestOf(p).size
        /\ conn[c].st \in {"open", "closed"}
    BY <1>1, <1>3, <2>2, ProcOf DEF ConnInv
  <2>4. /\ k \in Conns /\ k.st = conn[c].st /\ k.served = 1 /\ k.why = conn[c].why
        /\ k.down = conn[c].down - 1 /\ k.size = conn[c].size /\ k.answer = conn[c].answer
        /\ k.up = conn[c].up
    <3>1. conn[c].down - 1 \in Nat
      BY <1>3, <2>2
    <3> QED BY <2>3, <3>1, ProcOf DEF Conns
  <2>5. p.cmd.uid = "manager"
    BY <2>2, <2>3, ProcOf DEF ConnInv
  <2> HIDE DEF k
  <2>6. ASSUME NEW e \in [buffer : Nat, out : Nat], EntryInv(p, conn[c], e)
        PROVE  conn[c].st = "open" /\ e.out > 0 /\ p.got + conn[c].down + e.out = conn[c].size
    BY <2>3, <2>6 DEF EntryInv
  <2>7. c \in DOMAIN control_clients =>
          /\ control_clients[c] \in [buffer : Nat, out : Nat]
          /\ EntryInv(p, conn[c], control_clients[c])
    BY DEF ControlInv, TableInv, ControlType
  <2>8. CASE p.got + 1 = conn[c].size
    <3> DEFINE q == Answered(p, conn[c].answer)
    <3>1. proc' = [proc EXCEPT ![c] = q]
      BY <1>3, <2>8 DEF ControlInv, ControlType
    <3>2. GoesOn(mgr, c, p, q)
      BY <1>1, <2>3, ProcOf, AnsweredGoes
    <3> HIDE DEF q
    <3>3. conn[c].st = "closed"
      <4>1. conn[c].st # "open"
        <5> SUFFICES ASSUME conn[c].st = "open"
                     PROVE  FALSE
          OBVIOUS
        <5>1. c \in DOMAIN control_clients
          BY DEF ControlInv, TableInv
        <5>2. control_clients[c].out \in Nat /\ control_clients[c].out > 0
              /\ p.got + conn[c].down + control_clients[c].out = conn[c].size
          BY <2>6, <2>7, <5>1
        <5> QED BY <1>3, <2>2, <2>8, <5>2
      <4> QED BY <2>3, <4>1
    <3>4. k.st \in {"none", "closed"} /\ k.served = conn[c].served /\ (k.served = 0 => k.down = 0)
      BY <2>3, <2>4, <3>3
    <3> HIDE DEF p
    <3>5. GoesOn(mgr, c, proc[c], q)
      BY <3>2 DEF p
    <3> QED BY <1>1, <2>1, <2>4, <3>1, <3>4, <3>5, ClientGoes
  <2>9. CASE p.got + 1 # conn[c].size
    <3> DEFINE q == [p EXCEPT !.got = @ + 1]
    <3>1. proc' = [proc EXCEPT ![c] = q]
      BY <1>3, <2>9 DEF ControlInv, ControlType
    <3>2. /\ q \in Procs(c) /\ q # Idle /\ q.sent = p.sent /\ q.pc = "read"
          /\ q.cmd = p.cmd /\ q.step = p.step /\ q.rest = p.rest
          /\ q.ids = p.ids /\ q.got = p.got + 1 /\ q.exit = p.exit
      <4>1. p \in Procs(c) /\ p.pc = "read" /\ p.got + 1 \in Nat
        BY <1>1, <2>2
      <4> HIDE DEF p, k
      <4> QED BY <4>1 DEF Procs, Idle
    <3> HIDE DEF q
    <3>3. RequestOf(q) = RequestOf(p)
      BY <3>2, SameRequest
    <3>4. ProcInv(mgr, q)
      BY <1>1, <3>2, <3>3, ProcOf DEF ProcInv
    <3>5. ConnInv(mgr, q, k)
      <4>1. q.got + k.down = p.got + conn[c].down
        BY <2>2, <2>4, <3>2
      <4>2. p.exit = 0
        BY <1>1, ProcOf DEF ProcInv
      <4> QED BY <2>3, <2>4, <2>5, <3>2, <3>3, <4>1, <4>2 DEF ConnInv
    <3>6. /\ c \in DOMAIN control_clients => EntryInv(q, k, control_clients[c])
          /\ k.st = "open" => c \in DOMAIN control_clients
      <4>1. ASSUME NEW e \in [buffer : Nat, out : Nat], EntryInv(p, conn[c], e)
            PROVE  EntryInv(q, k, e)
        <5>1. q.got + k.down = p.got + conn[c].down
          BY <2>2, <2>4, <3>2
        <5> QED BY <2>4, <2>6, <3>2, <4>1, <5>1 DEF EntryInv
      <4> QED BY <2>4, <2>7, <4>1 DEF ControlInv, TableInv
    <3>7. backlog' \in Seq(Clients) /\ BacklogInv'
      <4>1. ~(Up /\ c \in Range(backlog))
        BY <2>3 DEF ControlInv, BacklogInv, Range
      <4> QED BY <1>1, <2>1, <2>4, <4>1, BacklogStill DEF Up
    <3> QED BY <1>1, <2>1, <2>4, <3>1, <3>2, <3>4, <3>5, <3>6, <3>7, ClientStep
  <2> QED BY <2>8, <2>9
<1> QED BY <1>2, <1>3 DEF Read

LEMMA InterruptKeeps ==
  ASSUME ControlInv, NEW c \in Clients, proc[c] # Idle, Interrupt(c)
  PROVE  ControlInv'
<1> DEFINE p == proc[c]
           q == [p EXCEPT !.pc = "done", !.exit = 130]
           k == [conn[c] EXCEPT !.st = IF @ = "closed" THEN @ ELSE "hangup"]
<1>1. /\ p.pc \in {"write", "read"} /\ p \in Procs(c) /\ mgr' = mgr
      /\ control_clients' = control_clients /\ backlog' = backlog
      /\ proc' = [proc EXCEPT ![c] = q] /\ conn' = [conn EXCEPT ![c] = k]
  BY ProcOf DEF Interrupt, ControlInv, ControlType
<1>2. /\ q \in Procs(c) /\ q # Idle /\ q.sent = p.sent /\ q.pc = "done"
      /\ q.cmd = p.cmd /\ q.step = p.step /\ q.rest = p.rest
      /\ q.ids = p.ids /\ q.got = p.got /\ q.exit = 130
  BY <1>1 DEF Procs, Idle
<1>3. /\ k \in Conns /\ k.served = conn[c].served /\ k.why = conn[c].why
      /\ k.down = conn[c].down /\ k.size = conn[c].size /\ k.answer = conn[c].answer
      /\ k.up = conn[c].up
      /\ k.st = IF conn[c].st = "closed" THEN "closed" ELSE "hangup"
  BY ProcOf DEF Conns
<1> HIDE DEF q, k
<1>4. RequestOf(q) = RequestOf(p)
  BY <1>2, SameRequest
<1>5. ProcInv(mgr, q)
  BY <1>1, <1>2, ProcOf DEF ProcInv
<1>6. ConnInv(mgr, q, k)
  <2>1. conn[c].served = 1 => p.sent = RequestOf(p).size /\ p.cmd.uid = "manager"
    BY <1>1, ProcOf DEF ProcInv, ConnInv
  <2>2. conn[c].why = "done" => conn[c].st = "closed" /\ conn[c].served = 1
    BY ProcOf DEF ConnInv
  <2>3. conn[c].served = 0 => conn[c].down = 0
    BY ProcOf DEF ConnInv
  <2> QED BY <1>2, <1>3, <1>4, <2>1, <2>2, <2>3 DEF ConnInv
<1>7. /\ c \in DOMAIN control_clients => EntryInv(q, k, control_clients[c])
      /\ k.st = "open" => c \in DOMAIN control_clients
  BY <1>2, <1>3 DEF ControlInv, TableInv, EntryInv
<1>8. backlog' \in Seq(Clients) /\ BacklogInv'
  <2>1. Up /\ c \in Range(backlog) => conn[c].st \in {"queued", "hangup"} /\ conn[c].served = 0
    BY DEF ControlInv, BacklogInv, Range
  <2> QED BY <1>1, <1>3, <2>1, BacklogStill DEF Up
<1> QED BY <1>1, <1>2, <1>3, <1>5, <1>6, <1>7, <1>8, ClientStep

-----------------------------------------------------------------------------
(* The steps of the manager's loop.                                        *)

LEMMA EntryOf ==
  ASSUME ControlInv, NEW c \in DOMAIN control_clients
  PROVE  /\ c \in Clients /\ control_clients[c] \in [buffer : Nat, out : Nat]
         /\ EntryInv(proc[c], conn[c], control_clients[c])
BY DEF ControlInv, ControlType, TableInv

\* A write of an answer, as far as it goes.
LEMMA FlushedKeeps ==
  ASSUME ControlInv, Up, Up', MgrInv(mgr'), Follows(mgr, mgr'),
         NEW c \in DOMAIN control_clients,
         NEW entry \in [buffer : Nat, out : Nat], entry.buffer < MAX_REQUEST,
         entry.out <= MAX_PENDING_RESPONSE, entry.out > 0,
         NEW j \in Conns, j.st = conn[c].st, j.served = 1, j.why # "done",
         j.st = "open" => proc[c].got + j.down + entry.out = j.size,
         ConnInv(mgr', proc[c], j),
         NEW n \in 0 .. entry.out,
         NEW cn, cn = [conn EXCEPT ![c] = j],
         control_clients' = Flushed(c, entry, control_clients, cn, n).table,
         conn' = Flushed(c, entry, control_clients, cn, n).conn,
         proc' = proc, backlog' = backlog
  PROVE  ControlInv'
<1>1. c \in Clients /\ EntryInv(proc[c], conn[c], control_clients[c])
  BY EntryOf
<1>2. j.st \in {"open", "hangup"} /\ proc[c].cmd.uid = "manager"
  BY <1>1 DEF EntryInv
<1>3. cn[c] = j /\ \A k : [cn EXCEPT ![c] = k] = [conn EXCEPT ![c] = k]
  BY <1>1 DEF ControlInv, ControlType
<1>4. \A d \in DOMAIN control_clients : control_clients[d] \in [buffer : Nat, out : Nat]
  BY EntryOf
<1>5. CASE j.st = "hangup"
  <2> DEFINE k == [j EXCEPT !.st = "closed", !.why = "hangup"]
  <2>1. /\ control_clients' = [d \in DOMAIN control_clients \ {c} |-> control_clients[d]]
        /\ conn' = [cn EXCEPT ![c] = k]
    BY <1>3, <1>5 DEF Flushed
  <2>2. /\ k \in Conns /\ k.st = "closed" /\ k.why = "hangup" /\ k.served = 1
        /\ k.down = j.down /\ k.size = j.size /\ k.answer = j.answer
    BY DEF Conns
  <2> HIDE DEF k
  <2>3. ConnInv(mgr', proc[c], k)
    BY <1>5, <2>2 DEF ConnInv
  <2>4. conn' = [conn EXCEPT ![c] = k]
    BY <1>3, <2>1
  <2>5. /\ DOMAIN control_clients' = DOMAIN control_clients \ {c}
        /\ control_clients' \in [DOMAIN control_clients' -> [buffer : Nat, out : Nat]]
        /\ \A d \in DOMAIN control_clients \ {c} : control_clients'[d] = control_clients[d]
    BY <1>4, <2>1
  <2> QED BY <2>2, <2>3, <2>4, <2>5, LoopStep
<1>6. CASE j.st = "open" /\ n = entry.out
  <2> DEFINE k == [j EXCEPT !.st = "closed", !.why = "done", !.down = @ + n]
  <2>1. /\ control_clients' = [d \in DOMAIN control_clients \ {c} |-> control_clients[d]]
        /\ conn' = [cn EXCEPT ![c] = k]
    BY <1>3, <1>6 DEF Flushed
  <2>2. /\ k \in Conns /\ k.st = "closed" /\ k.why = "done" /\ k.served = 1
        /\ k.down = j.down + n /\ k.size = j.size /\ k.answer = j.answer
    <3>1. j.down \in Nat /\ j.down + n \in Nat
      BY DEF Conns
    <3> QED BY <3>1 DEF Conns
  <2> HIDE DEF k
  <2>a. j.down \in Nat /\ j.size \in Nat /\ proc[c].pc = "read" => proc[c].got + k.down = k.size
    <3>1. j.down \in Nat /\ j.size \in Nat /\ n \in Nat
      BY DEF Conns
    <3>2. proc[c].pc = "read" => proc[c].got \in Nat
      BY <1>1, <1>6, ProcOf DEF ConnInv, Procs
    <3> QED BY <1>6, <2>2, <3>1, <3>2
  <2>3. ConnInv(mgr', proc[c], k)
    <3>1. k.size \in Nat
      BY <2>2 DEF Conns
    <3>2. k.size <= k.size
      BY <3>1
    <3>3. j.down \in Nat /\ j.size \in Nat
      BY DEF Conns
    <3> QED BY <1>2, <1>6, <2>2, <2>a, <3>2, <3>3 DEF ConnInv
  <2>4. conn' = [conn EXCEPT ![c] = k]
    BY <1>3, <2>1
  <2>5. /\ DOMAIN control_clients' = DOMAIN control_clients \ {c}
        /\ control_clients' \in [DOMAIN control_clients' -> [buffer : Nat, out : Nat]]
        /\ \A d \in DOMAIN control_clients \ {c} : control_clients'[d] = control_clients[d]
    BY <1>4, <2>1
  <2> QED BY <2>2, <2>3, <2>4, <2>5, LoopStep
<1>7. CASE j.st = "open" /\ n # entry.out
  <2> DEFINE k == [j EXCEPT !.down = @ + n]
             e == [entry EXCEPT !.out = @ - n]
  <2>1. /\ control_clients' = [d \in DOMAIN control_clients \cup {c} |->
                                 IF d = c THEN e ELSE control_clients[d]]
        /\ conn' = [cn EXCEPT ![c] = k]
    BY <1>3, <1>7 DEF Flushed
  <2>2. /\ k \in Conns /\ k.st = "open" /\ k.why = j.why /\ k.served = 1
        /\ k.down = j.down + n /\ k.size = j.size /\ k.answer = j.answer
    <3>1. j.down \in Nat /\ j.down + n \in Nat
      BY DEF Conns
    <3> QED BY <1>7, <3>1 DEF Conns
  <2>3. e \in [buffer : Nat, out : Nat] /\ e.buffer = entry.buffer /\ e.out = entry.out - n
        /\ e.out > 0 /\ e.out <= MAX_PENDING_RESPONSE
    <3>1. entry.out \in Nat /\ entry.out - n \in Nat /\ entry.out - n > 0
          /\ entry.out - n <= MAX_PENDING_RESPONSE
      BY <1>7, ControlAssumption
    <3> QED BY <3>1
  <2> HIDE DEF k, e
  <2>4. proc[c].got \in Nat /\ proc[c] # Idle
    BY <1>1, <1>7, ProcOf DEF ConnInv, Procs
  <2>5. proc[c].got + k.down + e.out = k.size /\ proc[c].got + k.down <= k.size
    <3>1. j.down \in Nat /\ j.size \in Nat /\ n \in Nat /\ entry.out \in Nat
      BY DEF Conns
    <3> QED BY <1>7, <2>2, <2>3, <2>4, <3>1
  <2>6. ConnInv(mgr', proc[c], k)
    BY <1>2, <1>7, <2>2, <2>5 DEF ConnInv
  <2>7. EntryInv(proc[c], k, e)
    BY <1>2, <2>2, <2>3, <2>5 DEF EntryInv
  <2>8. conn' = [conn EXCEPT ![c] = k]
    BY <1>3, <2>1
  <2>9. /\ DOMAIN control_clients' = DOMAIN control_clients
        /\ control_clients' \in [DOMAIN control_clients' -> [buffer : Nat, out : Nat]]
        /\ control_clients'[c] = e
        /\ \A d \in DOMAIN control_clients \ {c} : control_clients'[d] = control_clients[d]
    <3>1. DOMAIN control_clients \cup {c} = DOMAIN control_clients
      OBVIOUS
    <3> QED BY <1>4, <2>1, <2>3, <3>1
  <2> QED BY <2>2, <2>6, <2>7, <2>8, <2>9, LoopStep
<1> QED BY <1>2, <1>5, <1>6, <1>7

LEMMA FlushKeeps ==
  ASSUME ControlInv, NEW c \in Clients, flush_control_response(c)
  PROVE  ControlInv'
<1>1. /\ Up /\ c \in DOMAIN control_clients /\ control_clients[c].out > 0
      /\ mgr' = mgr /\ backlog' = backlog /\ proc' = proc
  BY DEF flush_control_response
<1>2. PICK n \in 1 .. control_clients[c].out :
        /\ control_clients' = Flushed(c, control_clients[c], control_clients, conn, n).table
        /\ conn' = Flushed(c, control_clients[c], control_clients, conn, n).conn
  BY DEF flush_control_response
<1>3. control_clients[c] \in [buffer : Nat, out : Nat]
      /\ EntryInv(proc[c], conn[c], control_clients[c])
  BY <1>1, EntryOf
<1>4. n \in 0 .. control_clients[c].out
  OBVIOUS
<1>5. /\ conn[c] \in Conns /\ conn = [conn EXCEPT ![c] = conn[c]] /\ MgrInv(mgr)
      /\ ConnInv(mgr, proc[c], conn[c])
  BY ProcOf
<1>6. conn[c].why # "done"
  BY <1>3, <1>5 DEF ConnInv, EntryInv
<1>7. /\ control_clients[c].buffer < MAX_REQUEST /\ control_clients[c].out <= MAX_PENDING_RESPONSE
      /\ conn[c].served = 1
      /\ conn[c].st = "open" => proc[c].got + conn[c].down + control_clients[c].out = conn[c].size
  BY <1>1, <1>3 DEF EntryInv
<1>8. Up' /\ MgrInv(mgr') /\ Follows(mgr, mgr') /\ ConnInv(mgr', proc[c], conn[c])
  BY <1>1, <1>5, FollowsItself DEF Up
<1> QED BY <1>1, <1>2, <1>3, <1>4, <1>5, <1>6, <1>7, <1>8, FlushedKeeps

\* The connection is let go before anything of it ran.
LEMMA LetGoKeeps ==
  ASSUME ControlInv, Up, NEW c \in DOMAIN control_clients, control_clients[c].out = 0,
         NEW why \in {"hangup", "long"},
         control_clients' = Forget(c), conn' = Release(c, why),
         mgr' = mgr, backlog' = backlog, proc' = proc
  PROVE  ControlInv'
<1> DEFINE k == [conn[c] EXCEPT !.st = "closed", !.why = why]
<1>1. conn' = [conn EXCEPT ![c] = k]
  BY EntryOf DEF Release, ControlInv, ControlType
<1>2. /\ k \in Conns /\ k.st = "closed" /\ k.why = why /\ k.served = conn[c].served
      /\ k.down = conn[c].down /\ k.size = conn[c].size /\ k.answer = conn[c].answer
  <2>1. conn[c] \in Conns
    BY EntryOf, ProcOf
  <2> QED BY <2>1 DEF Conns
<1> HIDE DEF k
<1>3. /\ EntryInv(proc[c], conn[c], control_clients[c]) /\ ConnInv(mgr, proc[c], conn[c])
      /\ MgrInv(mgr)
  BY EntryOf, ProcOf
<1>4. ConnInv(mgr, proc[c], k)
  <2>1. conn[c].served = 0 /\ proc[c] # Idle /\ proc[c].pc # "connect"
    BY <1>3 DEF EntryInv, ConnInv
  <2> QED BY <1>2, <1>3, <2>1 DEF ConnInv
<1>5. /\ DOMAIN control_clients' = DOMAIN control_clients \ {c}
      /\ control_clients' \in [DOMAIN control_clients' -> [buffer : Nat, out : Nat]]
      /\ \A d \in DOMAIN control_clients \ {c} : control_clients'[d] = control_clients[d]
  BY EntryOf DEF Forget
<1>6. Up' /\ MgrInv(mgr') /\ Follows(mgr, mgr') /\ ConnInv(mgr', proc[c], k)
  BY <1>3, <1>4, FollowsItself DEF Up
<1> QED BY <1>1, <1>2, <1>5, <1>6, LoopStep

\* A line runs once, for a process that waits for its answer.
LEMMA ServeKeeps ==
  ASSUME ControlInv, Up, NEW c \in DOMAIN control_clients, control_clients[c].out = 0,
         conn[c].st = "open",
         control_clients[c].buffer + conn[c].up = RequestOf(proc[c]).size,
         ServeLine(c), backlog' = backlog, proc' = proc
  PROVE  ControlInv'
<1>0. PICK live \in SUBSET Units : LineRan(c, dispatch(mgr, RequestOf(proc[c]), live))
  BY Zenon DEF ServeLine
<1> DEFINE req == RequestOf(proc[c])
           r == dispatch(mgr, req, live)
           out == Capped(r.reply, req.resp)
           j == [conn[c] EXCEPT !.up = 0, !.served = @ + 1, !.answer = out.reply, !.size = out.size]
           cn == [conn EXCEPT ![c].up = 0, ![c].served = @ + 1,
                              ![c].answer = out.reply, ![c].size = out.size]
<1>1. /\ c \in Clients /\ control_clients[c] \in [buffer : Nat, out : Nat]
      /\ EntryInv(proc[c], conn[c], control_clients[c])
      /\ conn[c] \in Conns /\ ConnInv(mgr, proc[c], conn[c]) /\ ProcInv(mgr, proc[c])
      /\ MgrInv(mgr)
  BY EntryOf, ProcOf
<1>2. /\ proc[c] # Idle /\ proc[c] \in Procs(c) /\ proc[c].pc = "read" /\ proc[c].exit = 0
      /\ conn[c].served = 0 /\ conn[c].down = 0 /\ proc[c].got = 0 /\ conn[c].why # "done"
      /\ proc[c].cmd.uid = "manager"
  <2>1. proc[c] # Idle /\ proc[c].pc \in {"write", "read"} /\ proc[c] \in Procs(c)
    BY <1>1, ProcOf DEF ConnInv
  <2>2. proc[c].sent = req.size /\ conn[c].served = 0 /\ proc[c].cmd.uid = "manager"
    BY <1>1 DEF EntryInv
  <2>3. proc[c].sent \in Nat /\ proc[c].pc # "write"
    BY <1>1, <2>1, <2>2, RequestSize DEF ProcInv, Procs
  <2> QED BY <1>1, <2>1, <2>2, <2>3 DEF ConnInv, ProcInv
<1>3. Serves(mgr, req, r)
  <2>1. req.units \in Seq(Names) /\ req.ids \in SUBSET Nat
    BY <1>1, <1>2, RequestShape
  <2> HIDE DEF req
  <2> QED BY <1>1, <2>1, DispatchServes
<1>4. req.resp \in Nat \ {0}
  BY <1>1, <1>2, RequestSize
<1>5. /\ mgr' = r.m
      /\ IF r.m.status # "running"
           THEN control_clients' = [d \in {} |-> d] /\ conn' = AllClosed(cn, "panic")
           ELSE \E n \in 0 .. out.size :
                  LET w == Flushed(c, [buffer |-> 0, out |-> out.size], control_clients, cn, n) IN
                  control_clients' = w.table /\ conn' = w.conn
  BY <1>0, Zenon DEF LineRan
<1>6. cn = [conn EXCEPT ![c] = j]
  BY <1>1 DEF ControlInv, ControlType
<1> HIDE DEF r, req, cn
<1>7. MgrInv(mgr') /\ Follows(mgr, mgr') /\ Tells(mgr', req, r.reply)
  BY <1>3, <1>5 DEF Serves
<1>8. /\ out.size \in Nat /\ out.size > 0 /\ out.size <= MAX_PENDING_RESPONSE
      /\ Tells(mgr', req, out.reply)
  <2>1. Reply(FALSE, {}) \in Replies /\ Reply(FALSE, {}).ok = FALSE
    BY RepliesHave, DataHas
  <2>2. Tells(mgr', req, Reply(FALSE, {}))
    BY <2>1 DEF Tells
  <2>3. MAX_PENDING_RESPONSE \in Nat /\ 1 <= MAX_PENDING_RESPONSE
    BY ControlAssumption
  <2>4. CASE req.resp > MAX_PENDING_RESPONSE
    <3>1. out = [reply |-> Reply(FALSE, {}), size |-> 1]
      BY <2>4 DEF Capped
    <3>2. out.size = 1 /\ out.reply = Reply(FALSE, {})
      BY <3>1
    <3> HIDE DEF out
    <3>3. out.size \in Nat /\ out.size > 0 /\ out.size <= MAX_PENDING_RESPONSE
      BY <2>3, <3>2
    <3>4. Tells(mgr', req, out.reply)
      BY <2>2, <3>2, Zenon
    <3> QED BY <3>3, <3>4
  <2>5. CASE ~(req.resp > MAX_PENDING_RESPONSE)
    <3>1. out = [reply |-> r.reply, size |-> req.resp]
      BY <2>5 DEF Capped
    <3>2. out.size = req.resp /\ out.reply = r.reply
      BY <3>1
    <3> HIDE DEF out
    <3> QED BY <1>4, <1>7, <2>3, <2>5, <3>2
  <2> QED BY <2>4, <2>5
<1>9. out.reply \in Replies
  BY <1>8 DEF Tells
<1>10. PICK o : o = out
  OBVIOUS
<1>11. /\ j \in Conns /\ j.st = "open" /\ j.served = 1 /\ j.why = conn[c].why /\ j.down = 0
       /\ j.size = o.size /\ j.answer = o.reply
  <2> HIDE DEF out
  <2>1. conn[c].served + 1 = 1 /\ conn[c].served + 1 \in {0, 1}
    BY <1>2
  <2> QED BY <1>1, <1>2, <1>8, <1>9, <1>10, <2>1 DEF Conns
<1> HIDE DEF j, out
<1>12. ConnInv(mgr', proc[c], j)
  <2>1. proc[c].got + j.down <= j.size
    BY <1>2, <1>8, <1>10, <1>11
  <2>2. Tells(mgr', RequestOf(proc[c]), j.answer)
    BY <1>8, <1>10, <1>11 DEF req
  <2> QED BY <1>2, <1>11, <2>1, <2>2 DEF ConnInv
<1>13. CASE r.m.status # "running"
  <2>1. ~Up' /\ control_clients' = [d \in {} |-> d] /\ conn' = AllClosed(cn, "panic")
    BY <1>5, <1>13 DEF Up
  <2>2. cn \in [Clients -> Conns] /\ \A d \in Clients : cn[d] = IF d = c THEN j ELSE conn[d]
    BY <1>6, <1>11 DEF ControlInv, ControlType
  <2>3. ASSUME NEW d \in Clients
        PROVE  ConnInv(mgr', proc[d], cn[d])
    <3>1. ConnInv(mgr', proc[d], conn[d])
      BY <1>1, <1>7, ConnStill, ProcOf
    <3> QED BY <1>12, <2>2, <3>1
  <2> QED BY <1>7, <2>1, <2>2, <2>3, ManagerEnds
<1>14. CASE r.m.status = "running"
  <2> DEFINE e == [buffer |-> 0, out |-> out.size]
  <2>1. PICK n \in 0 .. out.size :
          /\ control_clients' = Flushed(c, e, control_clients, cn, n).table
          /\ conn' = Flushed(c, e, control_clients, cn, n).conn
    BY <1>5, <1>14
  <2>2. e \in [buffer : Nat, out : Nat] /\ e.buffer = 0 /\ e.out = out.size
    BY <1>8
  <2> HIDE DEF e
  <2>3. e.buffer < MAX_REQUEST
    BY <2>2, ControlAssumption
  <2>4. proc[c].got + j.down + e.out = j.size
    BY <1>2, <1>8, <1>10, <1>11, <2>2
  <2>5. Up'
    BY <1>5, <1>14 DEF Up
  <2>6. n \in 0 .. e.out /\ e.out <= MAX_PENDING_RESPONSE /\ e.out > 0
    BY <1>8, <2>2
  <2>7. j.st = conn[c].st /\ j.why # "done"
    BY <1>2, <1>11
  <2> QED BY <1>6, <1>7, <1>11, <1>12, <2>1, <2>2, <2>3, <2>4, <2>5, <2>6, <2>7, FlushedKeeps
<1> QED BY <1>13, <1>14

LEMMA DrainKeeps ==
  ASSUME ControlInv, NEW c \in Clients, drain_control_client(c)
  PROVE  ControlInv'
<1> DEFINE buffer == control_clients[c].buffer + conn[c].up
<1>1. /\ Up /\ c \in DOMAIN control_clients /\ control_clients[c].out = 0
      /\ backlog' = backlog /\ proc' = proc
  BY DEF drain_control_client
<1>2. /\ control_clients[c] \in [buffer : Nat, out : Nat] /\ conn[c] \in Conns
      /\ EntryInv(proc[c], conn[c], control_clients[c])
      /\ ConnInv(mgr, proc[c], conn[c]) /\ MgrInv(mgr)
  BY <1>1, EntryOf, ProcOf
<1>3. CASE HungUp(c)
  BY <1>1, <1>3, LetGoKeeps DEF drain_control_client
<1>4. CASE ~HungUp(c)
  <2>1. conn[c].st = "open"
    BY <1>2, <1>4 DEF EntryInv, HungUp
  <2>2. CASE buffer = RequestOf(proc[c]).size
    BY <1>1, <1>4, <2>1, <2>2, ServeKeeps DEF drain_control_client
  <2>3. CASE buffer # RequestOf(proc[c]).size /\ buffer >= MAX_REQUEST
    BY <1>1, <1>4, <2>3, LetGoKeeps DEF drain_control_client
  <2>4. CASE buffer # RequestOf(proc[c]).size /\ ~(buffer >= MAX_REQUEST)
    <3> DEFINE k == [conn[c] EXCEPT !.up = 0]
               e == [buffer |-> buffer, out |-> 0]
    <3>1. /\ control_clients' = Keep(c, e) /\ mgr' = mgr
          /\ conn' = [conn EXCEPT ![c] = k]
      BY <1>4, <2>4 DEF drain_control_client, ControlInv, ControlType
    <3>2. /\ k \in Conns /\ k.st = "open" /\ k.why = conn[c].why /\ k.served = conn[c].served
          /\ k.down = conn[c].down /\ k.size = conn[c].size /\ k.answer = conn[c].answer
          /\ k.up = 0
      BY <1>2, <2>1 DEF Conns
    <3>3. e \in [buffer : Nat, out : Nat] /\ e.buffer = buffer /\ e.out = 0 /\ buffer \in Nat
      BY <1>2 DEF Conns
    <3> HIDE DEF k, e
    <3>4. ConnInv(mgr, proc[c], k)
      BY <1>2, <2>1, <3>2 DEF ConnInv
    <3>5. EntryInv(proc[c], k, e)
      <4>1. e.buffer < MAX_REQUEST /\ e.out <= MAX_PENDING_RESPONSE
        BY <2>4, <3>3, ControlAssumption
      <4>2. conn[c].served = 0 /\ buffer = proc[c].sent /\ buffer + 0 = buffer
        BY <1>1, <1>2, <2>1, <3>3 DEF EntryInv
      <4>3. proc[c].cmd.uid = "manager" /\ ~(e.out > 0)
        BY <1>2, <3>3 DEF EntryInv
      <4> QED BY <3>2, <3>3, <4>1, <4>2, <4>3 DEF EntryInv
    <3>6. /\ DOMAIN control_clients' = DOMAIN control_clients
          /\ control_clients' \in [DOMAIN control_clients' -> [buffer : Nat, out : Nat]]
          /\ control_clients'[c] = e
          /\ \A d \in DOMAIN control_clients \ {c} : control_clients'[d] = control_clients[d]
      <4>1. DOMAIN control_clients \cup {c} = DOMAIN control_clients
        BY <1>1
      <4> QED BY <3>1, <3>3, <4>1, EntryOf DEF Keep
    <3>7. Up' /\ MgrInv(mgr') /\ Follows(mgr, mgr') /\ ConnInv(mgr', proc[c], k)
      BY <1>1, <1>2, <3>1, <3>4, FollowsItself DEF Up
    <3> QED BY <1>1, <3>1, <3>2, <3>5, <3>6, <3>7, LoopStep
  <2> QED BY <2>2, <2>3, <2>4
<1> QED BY <1>3, <1>4

-----------------------------------------------------------------------------
(* Jobs end, units change, the manager exits.                              *)

LEMMA FinishKeeps ==
  ASSUME ControlInv, NEW id \in DOMAIN mgr.jobs, NEW ok \in BOOLEAN, FinishJob(id, ok)
  PROVE  ControlInv'
<1> DEFINE job == mgr.jobs[id]
           to == IF ~ok THEN "failed" ELSE IF job.kind = "Stop" THEN "inactive"
                 ELSE Record(mgr, id, ok).active[job.unit]
           m == [Record(mgr, id, ok) EXCEPT !.active[job.unit] = to]
<1>1. /\ Up /\ backlog' = backlog /\ control_clients' = control_clients /\ conn' = conn
      /\ proc' = proc /\ MgrInv(mgr)
  BY DEF FinishJob, ControlInv
<1>2. job.unit \in Units
  <2>1. mgr.jobs \in [DOMAIN mgr.jobs -> Jobs]
    BY <1>1, TableShape DEF MgrInv, Managers
  <2> QED BY <2>1 DEF Jobs
<1>3. PICK st \in {"running", "exited", m.active[job.unit]} :
        mgr' = IF ok /\ job.again /\ ~m.shutting_down
               THEN new_job(m, job.unit, "Start", FALSE, FALSE)
               ELSE [m EXCEPT !.active[job.unit] = st]
  BY DEF FinishJob
<1> HIDE DEF job
<1>4. PICK n : n = Record(mgr, id, ok)
  OBVIOUS
<1>5. MgrInv(n) /\ Follows(mgr, n) /\ n.status = mgr.status
  <2>1. Record(mgr, id, ok).status = mgr.status
    BY <1>1 DEF Record, Drop, MgrInv, Managers
  <2> QED BY <1>1, <1>4, <2>1, RecordKeeps
<1>6. to \in States /\ m = [n EXCEPT !.active[job.unit] = to]
  BY <1>2, <1>4, <1>5 DEF MgrInv, Managers, States
<1> HIDE DEF m, to
<1>7. MgrInv(m) /\ Follows(n, m) /\ m.status = n.status /\ m.active[job.unit] \in States
  <2>1. m \in Managers
    BY <1>2, <1>5, <1>6 DEF MgrInv, Managers
  <2>2. /\ m.jobs = n.jobs /\ m.unit_job = n.unit_job /\ m.completed = n.completed
        /\ m.last = n.last /\ m.status = n.status
    BY <1>5, <1>6 DEF MgrInv, Managers
  <2> QED BY <1>2, <1>5, <2>1, <2>2, SameJobs DEF Managers
<1>8. st \in States
  BY <1>7 DEF States
<1>9. MgrInv(mgr') /\ Follows(m, mgr') /\ mgr'.status = m.status
  <2>1. LET o == new_job(m, job.unit, "Start", FALSE, FALSE) IN
        MgrInv(o) /\ Follows(m, o) /\ o.status = m.status
    <3>1. new_job(m, job.unit, "Start", FALSE, FALSE).status = m.status
      BY <1>7 DEF new_job, MgrInv, Managers
    <3> QED BY <1>2, <1>7, <3>1, NewJobKeeps
  <2>2. LET o == [m EXCEPT !.active[job.unit] = st] IN
        MgrInv(o) /\ Follows(m, o) /\ o.status = m.status
    <3> DEFINE o == [m EXCEPT !.active[job.unit] = st]
    <3>1. o \in Managers
      BY <1>2, <1>7, <1>8 DEF MgrInv, Managers
    <3>2. /\ o.jobs = m.jobs /\ o.unit_job = m.unit_job /\ o.completed = m.completed
          /\ o.last = m.last /\ o.status = m.status
      BY <1>7 DEF MgrInv, Managers
    <3> HIDE DEF o
    <3>3. MgrInv(o) /\ Follows(m, o) /\ o.status = m.status
      BY <1>7, <3>1, <3>2, SameJobs
    <3> QED BY <3>3 DEF o
  <2>3. CASE ok /\ job.again /\ ~m.shutting_down
    BY <1>3, <2>1, <2>3
  <2>4. CASE ~(ok /\ job.again /\ ~m.shutting_down)
    BY <1>3, <2>2, <2>4
  <2> QED BY <2>3, <2>4
<1>10. Follows(mgr, m)
  BY <1>1, <1>5, <1>7, FollowsThrough
<1>11. Follows(mgr, mgr')
  BY <1>1, <1>7, <1>9, <1>10, FollowsThrough
<1>12. Up'
  BY <1>1, <1>5, <1>7, <1>9 DEF Up
<1> QED BY <1>1, <1>9, <1>11, <1>12, EngineStep

LEMMA UnitKeeps ==
  ASSUME ControlInv, NEW u \in Units, UnitChanges(u)
  PROVE  ControlInv'
<1>1. /\ Up /\ backlog' = backlog /\ control_clients' = control_clients /\ conn' = conn
      /\ proc' = proc /\ MgrInv(mgr)
  BY DEF UnitChanges, ControlInv
<1>2. PICK to \in States : mgr' = [mgr EXCEPT !.active[u] = to]
  BY DEF UnitChanges, Becomes, States
<1>3. mgr' \in Managers
  BY <1>1, <1>2 DEF MgrInv, Managers
<1>4. /\ mgr'.jobs = mgr.jobs /\ mgr'.unit_job = mgr.unit_job
      /\ mgr'.completed = mgr.completed /\ mgr'.last = mgr.last /\ mgr'.status = mgr.status
  BY <1>1, <1>2 DEF MgrInv, Managers
<1>5. MgrInv(mgr') /\ Follows(mgr, mgr') /\ Up'
  BY <1>1, <1>3, <1>4, SameJobs DEF Up
<1> QED BY <1>1, <1>5, EngineStep

LEMMA ExitKeeps ==
  ASSUME ControlInv, ManagerExits
  PROVE  ControlInv'
<1>1. /\ mgr' = [mgr EXCEPT !.status = "exited"] /\ conn' = AllClosed(conn, "exit")
      /\ control_clients' = [c \in {} |-> c] /\ backlog' = <<>> /\ proc' = proc /\ MgrInv(mgr)
  BY DEF ManagerExits, ControlInv
<1>2. mgr' \in Managers
  BY <1>1 DEF MgrInv, Managers
<1>3. /\ mgr'.jobs = mgr.jobs /\ mgr'.unit_job = mgr.unit_job
      /\ mgr'.completed = mgr.completed /\ mgr'.last = mgr.last /\ mgr'.status = "exited"
  BY <1>1 DEF MgrInv, Managers
<1>4. MgrInv(mgr') /\ Follows(mgr, mgr') /\ ~Up'
  BY <1>1, <1>2, <1>3, SameJobs DEF Up
<1>5. conn \in [Clients -> Conns]
  BY DEF ControlInv, ControlType
<1>6. \A d \in Clients : ConnInv(mgr', proc[d], conn[d])
  BY <1>1, <1>4, ConnStill, ProcOf
<1> QED BY <1>1, <1>4, <1>5, <1>6, ManagerEnds

-----------------------------------------------------------------------------
(* The backlog.                                                            *)

\* What the loop over the backlog works on
Accs ==
  [table : UNION {[D -> [buffer : Nat, out : Nat]] : D \in SUBSET Clients},
   conn : [Clients -> Conns]]

Open == [buffer |-> 0, out |-> 0]

LEMMA AccShape ==
  /\ \A a \in Accs : /\ DOMAIN a.table \in SUBSET Clients
                     /\ a.table \in [DOMAIN a.table -> [buffer : Nat, out : Nat]]
                     /\ a.conn \in [Clients -> Conns]
  /\ \A D \in SUBSET Clients : \A table \in [D -> [buffer : Nat, out : Nat]] :
       \A cn \in [Clients -> Conns] : [table |-> table, conn |-> cn] \in Accs
BY DEF Accs

\* A stream is refused or becomes a client.
Refused(k, r) ==
  \E why \in {"cap", "uid"} : r = [k EXCEPT !.st = "closed", !.why = why]
Opened(k, r) == r = [k EXCEPT !.st = IF @ = "hangup" THEN @ ELSE "open"]

LEMMA AcceptOne ==
  ASSUME NEW a \in Accs, NEW c \in Clients
  PROVE  LET r == Accept1(a, c) IN
         /\ r \in Accs
         /\ \A d \in Clients \ {c} : r.conn[d] = a.conn[d]
         /\ \/ r.table = a.table /\ Refused(a.conn[c], r.conn[c])
            \/ /\ Fits(a.table) /\ peer_uid(c) = "manager" /\ Opened(a.conn[c], r.conn[c])
               /\ r.table = [d \in DOMAIN a.table \cup {c} |-> IF d = c THEN Open ELSE a.table[d]]
<1> DEFINE r == Accept1(a, c)
           refuse(why) == [a EXCEPT !.conn = [a.conn EXCEPT
                             ![c] = [a.conn[c] EXCEPT !.st = "closed", !.why = why]]]
           st == IF a.conn[c].st = "hangup" THEN "hangup" ELSE "open"
           accept == [a EXCEPT
             !.table = [d \in DOMAIN a.table \cup {c} |-> IF d = c THEN Open ELSE a.table[d]],
             !.conn = [a.conn EXCEPT ![c] = [a.conn[c] EXCEPT !.st = st]]]
<1>1. /\ DOMAIN a.table \in SUBSET Clients
      /\ a.table \in [DOMAIN a.table -> [buffer : Nat, out : Nat]]
      /\ a.conn \in [Clients -> Conns] /\ a.conn[c] \in Conns
  BY AccShape
<1>2. a = [table |-> a.table, conn |-> a.conn]
  BY DEF Accs
<1>3. r = IF ~Fits(a.table) THEN refuse("cap")
          ELSE IF peer_uid(c) # "manager" THEN refuse("uid") ELSE accept
  BY <1>1, <1>2 DEF Accept1, Open
<1>4. ASSUME NEW why \in {"cap", "uid"}, r = refuse(why)
      PROVE  /\ r \in Accs /\ r.table = a.table /\ Refused(a.conn[c], r.conn[c])
             /\ \A d \in Clients \ {c} : r.conn[d] = a.conn[d]
  <2> DEFINE k == [a.conn[c] EXCEPT !.st = "closed", !.why = why]
             cn == [a.conn EXCEPT ![c] = k]
  <2>1. k \in Conns
    BY <1>1 DEF Conns
  <2>2. r = [table |-> a.table, conn |-> cn]
    BY <1>2, <1>4
  <2> HIDE DEF r
  <2>3. Refused(a.conn[c], k)
    BY DEF Refused
  <2> HIDE DEF k
  <2>4. cn \in [Clients -> Conns] /\ cn[c] = k /\ \A d \in Clients \ {c} : cn[d] = a.conn[d]
    BY <1>1, <2>1
  <2> HIDE DEF cn
  <2>5. r \in Accs /\ r.table = a.table /\ r.conn = cn
    BY <1>1, <2>2, <2>4, AccShape
  <2> QED BY <2>3, <2>4, <2>5
<1>5. ASSUME r = accept
      PROVE  /\ r \in Accs /\ Opened(a.conn[c], r.conn[c])
             /\ r.table = [d \in DOMAIN a.table \cup {c} |-> IF d = c THEN Open ELSE a.table[d]]
             /\ \A d \in Clients \ {c} : r.conn[d] = a.conn[d]
  <2> DEFINE k == [a.conn[c] EXCEPT !.st = st]
             cn == [a.conn EXCEPT ![c] = k]
             table == [d \in DOMAIN a.table \cup {c} |-> IF d = c THEN Open ELSE a.table[d]]
  <2>1. k \in Conns
    BY <1>1 DEF Conns
  <2>2. r = [table |-> table, conn |-> cn]
    BY <1>2, <1>5
  <2> HIDE DEF r
  <2>3. Opened(a.conn[c], k)
    BY <1>1 DEF Opened, Conns
  <2> HIDE DEF k
  <2>4. cn \in [Clients -> Conns] /\ cn[c] = k /\ \A d \in Clients \ {c} : cn[d] = a.conn[d]
    BY <1>1, <2>1
  <2>5. /\ table \in [DOMAIN a.table \cup {c} -> [buffer : Nat, out : Nat]]
        /\ DOMAIN a.table \cup {c} \in SUBSET Clients
    BY <1>1 DEF Open
  <2> HIDE DEF cn, table
  <2>6. r \in Accs /\ r.table = table /\ r.conn = cn
    BY <2>2, <2>4, <2>5, AccShape
  <2> QED BY <2>3, <2>4, <2>6 DEF table
<1>6. CASE ~Fits(a.table)
  <2>1. r = refuse("cap")
    BY <1>3, <1>6
  <2> HIDE DEF r, refuse
  <2> QED BY <1>4, <2>1 DEF r
<1>7. CASE Fits(a.table) /\ peer_uid(c) # "manager"
  <2>1. r = refuse("uid")
    BY <1>3, <1>7
  <2> HIDE DEF r, refuse
  <2> QED BY <1>4, <2>1 DEF r
<1>8. CASE Fits(a.table) /\ peer_uid(c) = "manager"
  <2>1. r = accept
    BY <1>3, <1>8
  <2> HIDE DEF r, accept
  <2> QED BY <1>5, <1>8, <2>1 DEF r
<1> QED BY <1>6, <1>7, <1>8

\* Where the loop stands after the first k streams.
Untouched(a, d) ==
  /\ a.conn[d] = conn[d]
  /\ d \in DOMAIN a.table <=> d \in DOMAIN control_clients
  /\ d \in DOMAIN a.table => a.table[d] = control_clients[d]

Turned(a, d) == d \notin DOMAIN a.table /\ Refused(conn[d], a.conn[d])

Taken(a, d) ==
  /\ d \in DOMAIN a.table /\ a.table[d] = Open /\ peer_uid(d) = "manager"
  /\ Opened(conn[d], a.conn[d])

AcceptedUpTo(a, k) ==
  /\ IsFiniteSet(DOMAIN a.table) /\ Cardinality(DOMAIN a.table) <= MAX_CONCURRENT_CLIENTS
  /\ \A d \in Clients : IF \E i \in 1 .. k : backlog[i] = d THEN Turned(a, d) \/ Taken(a, d)
                        ELSE Untouched(a, d)

LEMMA AcceptNext ==
  ASSUME ControlInv, Up, NEW k \in 1 .. Len(backlog), NEW a \in Accs, AcceptedUpTo(a, k - 1)
  PROVE  AcceptedUpTo(Accept1(a, backlog[k]), k)
<1> DEFINE c == backlog[k]
           r == Accept1(a, c)
<1>1. /\ DOMAIN backlog = 1 .. Len(backlog) /\ Len(backlog) \in Nat /\ c \in Clients
      /\ c \notin DOMAIN control_clients
      /\ \A i \in 1 .. k - 1 : i \in 1 .. Len(backlog) /\ backlog[i] # c
  <2>1. backlog \in Seq(Clients)
    BY DEF ControlInv, ControlType
  <2>2. \A i \in 1 .. k - 1 : i \in 1 .. Len(backlog) /\ i # k
    BY <2>1
  <2> QED BY <2>1, <2>2 DEF ControlInv, BacklogInv
<1>2. \A d : (\E i \in 1 .. k : backlog[i] = d) <=> (d = c \/ \E i \in 1 .. k - 1 : backlog[i] = d)
  <2>1. \A i : i \in 1 .. k <=> i = k \/ i \in 1 .. k - 1
    BY <1>1
  <2> QED BY <2>1
<1> HIDE DEF c
<1>3. /\ r \in Accs /\ \A d \in Clients \ {c} : r.conn[d] = a.conn[d]
      /\ \/ r.table = a.table /\ Refused(a.conn[c], r.conn[c])
         \/ /\ Fits(a.table) /\ peer_uid(c) = "manager" /\ Opened(a.conn[c], r.conn[c])
            /\ r.table = [d \in DOMAIN a.table \cup {c} |-> IF d = c THEN Open ELSE a.table[d]]
  BY <1>1, AcceptOne
<1> HIDE DEF r
<1>4. a.conn[c] = conn[c] /\ c \notin DOMAIN a.table
  BY <1>1 DEF AcceptedUpTo, Untouched
<1>5. IsFiniteSet(DOMAIN a.table) /\ Cardinality(DOMAIN a.table) <= MAX_CONCURRENT_CLIENTS
  BY DEF AcceptedUpTo
<1>6. Turned(r, c) \/ Taken(r, c)
  BY <1>3, <1>4 DEF Turned, Taken
<1>7. ASSUME NEW d \in Clients, d # c
      PROVE  /\ r.conn[d] = a.conn[d] /\ (d \in DOMAIN r.table <=> d \in DOMAIN a.table)
             /\ d \in DOMAIN a.table => r.table[d] = a.table[d]
  BY <1>3, <1>7
<1>8. IsFiniteSet(DOMAIN r.table) /\ Cardinality(DOMAIN r.table) <= MAX_CONCURRENT_CLIENTS
  <2>1. CASE r.table = a.table
    BY <1>5, <2>1
  <2>2. CASE Fits(a.table) /\ DOMAIN r.table = DOMAIN a.table \cup {c}
    <3>1. /\ IsFiniteSet(DOMAIN a.table \cup {c})
          /\ Cardinality(DOMAIN a.table \cup {c}) = Cardinality(DOMAIN a.table) + 1
      BY <1>4, <1>5, FS_AddElement
    <3>2. Cardinality(DOMAIN a.table) \in Nat
      BY <1>5, FS_CardinalityType
    <3> QED BY <2>2, <3>1, <3>2, ControlAssumption DEF Fits
  <2> QED BY <1>3, <2>1, <2>2
<1>9. ASSUME NEW d \in Clients
      PROVE  IF \E i \in 1 .. k : backlog[i] = d THEN Turned(r, d) \/ Taken(r, d)
             ELSE Untouched(r, d)
  <2>1. CASE d = c
    BY <1>2, <1>6, <2>1
  <2>2. CASE d # c
    <3>1. (\E i \in 1 .. k : backlog[i] = d) <=> (\E i \in 1 .. k - 1 : backlog[i] = d)
      BY <1>2, <2>2
    <3>2. IF \E i \in 1 .. k - 1 : backlog[i] = d THEN Turned(a, d) \/ Taken(a, d)
          ELSE Untouched(a, d)
      BY DEF AcceptedUpTo
    <3>3. Turned(a, d) => Turned(r, d)
      BY <1>7, <2>2 DEF Turned
    <3>4. Taken(a, d) => Taken(r, d)
      BY <1>7, <2>2 DEF Taken
    <3>5. Untouched(a, d) => Untouched(r, d)
      BY <1>7, <2>2 DEF Untouched
    <3> QED BY <3>1, <3>2, <3>3, <3>4, <3>5
  <2> QED BY <2>1, <2>2
<1> QED BY <1>8, <1>9 DEF AcceptedUpTo, r, c

LEMMA AllAccepted ==
  ASSUME ControlInv, Up
  PROVE  LET acc == FoldLeft(Accept1, [table |-> control_clients, conn |-> conn], backlog) IN
         acc \in Accs /\ AcceptedUpTo(acc, Len(backlog))
<1> DEFINE us == backlog
           n == Len(us)
           base == [table |-> control_clients, conn |-> conn]
           F(g) == [s \in SUBSET DOMAIN us |->
                      IF s = {} THEN base ELSE Accept1(g[s \ {Max(s)}], us[Max(s)])]
           iter == CHOOSE g : g = F(g)
           step == [x \in Accs \X (1 .. n) |-> Accept1(x[1], us[x[2]])]
<1>1. FoldLeft(Accept1, base, us) = iter[DOMAIN us]
  BY DEF FoldLeft, MapThenFoldSet
<1>2. us \in Seq(Clients) /\ n \in Nat /\ DOMAIN us = 1 .. n /\ \A i \in 1 .. n : us[i] \in Clients
  BY DEF ControlInv, ControlType
<1>3. base \in Accs
  BY AccShape DEF ControlInv, ControlType
<1>4. AcceptedUpTo(base, 0)
  BY DEF AcceptedUpTo, Untouched, ControlInv, TableInv
<1>5. \A k \in 1 .. n : \A a \in Accs :
        AcceptedUpTo(a, k - 1) => AcceptedUpTo(Accept1(a, us[k]), k)
  BY AcceptNext
<1> HIDE DEF us, n, base
<1>6. \A a \in Accs, i \in 1 .. n : Accept1(a, us[i]) \in Accs
  BY <1>2, AcceptOne
<1>7. step \in [Accs \X (1 .. n) -> Accs]
  BY <1>6
<1>8. \A a \in Accs, i \in 1 .. n : step[<<a, i>>] = Accept1(a, us[i])
  OBVIOUS
<1> HIDE DEF step
<1>9. PICK h \in [SUBSET (1 .. n) -> Accs] : \A s \in SUBSET (1 .. n) :
        h[s] = IF s = {} THEN base ELSE step[<<h[s \ {Max(s)}], Max(s)>>]
  <2>1. \E h \in [SUBSET (1 .. n) -> Accs] : Folds(h, n, base, step)
    BY <1>2, <1>3, <1>7, FoldExists
  <2> QED BY <2>1 DEF Folds
<1>10. \A s \in SUBSET (1 .. n) :
         h[s] = IF s = {} THEN base ELSE Accept1(h[s \ {Max(s)}], us[Max(s)])
  <2> SUFFICES ASSUME NEW s \in SUBSET (1 .. n), s # {}
               PROVE  h[s] = Accept1(h[s \ {Max(s)}], us[Max(s)])
    BY <1>9
  <2>1. Max(s) \in 1 .. n /\ s \ {Max(s)} \in SUBSET (1 .. n)
    <3>1. Max(s) \in s
      BY <1>2, MaxUpTo
    <3> QED BY <3>1
  <2>2. h[s \ {Max(s)}] \in Accs
    BY <2>1
  <2> QED BY <1>8, <1>9, <2>1, <2>2
<1>11. h = F(h)
  BY <1>2, <1>10
<1>12. iter = F(iter)
  <2> HIDE DEF F
  <2> QED BY <1>11
<1> HIDE DEF iter
<1>13. iter[1 .. n] \in Accs /\ AcceptedUpTo(iter[1 .. n], n)
  <2> DEFINE G == [k \in 0 .. n |-> {a \in Accs : AcceptedUpTo(a, k)}]
  <2>1. \A s \in SUBSET (1 .. n) :
          iter[s] = IF s = {} THEN base ELSE Accept1(iter[s \ {Max(s)}], us[Max(s)])
    BY <1>2, <1>12
  <2>2. iter[{}] \in G[0]
    <3>1. 0 \in 0 .. n /\ {} \in SUBSET (1 .. n)
      BY <1>2
    <3>2. iter[{}] = base
      BY <2>1, <3>1
    <3> QED BY <1>3, <1>4, <3>1, <3>2
  <2>3. ASSUME NEW k \in 1 .. n, iter[1 .. k - 1] \in G[k - 1]
        PROVE  iter[1 .. k] \in G[k]
    <3>1. k \in Nat /\ k # 0 /\ (1 .. k) \in SUBSET (1 .. n) /\ k \in 1 .. k
          /\ k - 1 \in 0 .. n /\ k \in 0 .. n
      BY <1>2
    <3>2. Max(1 .. k) = k /\ (1 .. k) \ {k} = 1 .. k - 1
      BY <3>1, LastUpTo
    <3>3. iter[1 .. k] = Accept1(iter[1 .. k - 1], us[k])
      BY <2>1, <3>1, <3>2
    <3>4. iter[1 .. k - 1] \in Accs /\ AcceptedUpTo(iter[1 .. k - 1], k - 1)
      BY <2>3, <3>1
    <3>5. iter[1 .. k] \in Accs /\ AcceptedUpTo(iter[1 .. k], k)
      BY <1>5, <1>6, <3>3, <3>4
    <3> QED BY <3>1, <3>5
  <2>4. \A a : a \in G[n] => a \in Accs /\ AcceptedUpTo(a, n)
    BY <1>2
  <2> HIDE DEF G
  <2>5. iter[1 .. n] \in G[n]
    BY <1>2, <2>2, <2>3, FoldKeeps
  <2> QED BY <2>4, <2>5
<1> QED BY <1>1, <1>2, <1>13 DEF us, n, base

LEMMA AcceptKeeps ==
  ASSUME ControlInv, accept_connections
  PROVE  ControlInv'
<1> DEFINE acc == FoldLeft(Accept1, [table |-> control_clients, conn |-> conn], backlog)
<1>1. /\ Up /\ control_clients' = acc.table /\ conn' = acc.conn
      /\ backlog' = <<>> /\ mgr' = mgr /\ proc' = proc
  BY DEF accept_connections
<1>2. acc \in Accs /\ AcceptedUpTo(acc, Len(backlog))
  BY <1>1, AllAccepted
<1> HIDE DEF acc
<1>3. /\ DOMAIN acc.table \in SUBSET Clients
      /\ acc.table \in [DOMAIN acc.table -> [buffer : Nat, out : Nat]]
      /\ acc.conn \in [Clients -> Conns]
  BY <1>2, AccShape
<1>4. ASSUME NEW d \in Clients, Turned(acc, d) \/ Taken(acc, d),
             \E i \in 1 .. Len(backlog) : backlog[i] = d
      PROVE  /\ ConnInv(mgr, proc[d], acc.conn[d])
             /\ d \in DOMAIN acc.table => EntryInv(proc[d], acc.conn[d], acc.table[d])
             /\ acc.conn[d].st = "open" => d \in DOMAIN acc.table
  <2>1. /\ conn[d].st \in {"queued", "hangup"} /\ conn[d].served = 0
        /\ conn[d] \in Conns /\ ConnInv(mgr, proc[d], conn[d])
    <3>1. DOMAIN backlog = 1 .. Len(backlog)
      BY DEF ControlInv, ControlType
    <3> QED BY <1>1, <1>4, <3>1, ProcOf DEF ControlInv, BacklogInv
  <2>2. proc[d] # Idle /\ proc[d].pc # "connect"
    BY <2>1 DEF ConnInv
  <2>3. CASE Turned(acc, d)
    <3>1. PICK why \in {"cap", "uid"} : acc.conn[d] = [conn[d] EXCEPT !.st = "closed", !.why = why]
      BY <2>3 DEF Turned, Refused
    <3>2. /\ acc.conn[d].st = "closed" /\ acc.conn[d].why = why /\ acc.conn[d].served = 0
          /\ acc.conn[d].down = conn[d].down
      BY <2>1, <3>1 DEF Conns
    <3>3. ConnInv(mgr, proc[d], acc.conn[d])
      BY <2>1, <2>2, <3>2 DEF ConnInv
    <3> QED BY <2>3, <3>2, <3>3 DEF Turned
  <2>4. CASE Taken(acc, d)
    <3>1. /\ acc.conn[d].st = IF conn[d].st = "hangup" THEN "hangup" ELSE "open"
          /\ acc.conn[d].why = conn[d].why /\ acc.conn[d].served = 0
          /\ acc.conn[d].down = conn[d].down /\ acc.conn[d].up = conn[d].up
          /\ acc.conn[d].up \in Nat
      BY <2>1, <2>4 DEF Conns, Taken, Opened
    <3>2. ConnInv(mgr, proc[d], acc.conn[d])
      BY <2>1, <2>2, <3>1 DEF ConnInv
    <3>3. EntryInv(proc[d], acc.conn[d], Open)
      <4>1. Open.buffer = 0 /\ Open.out = 0 /\ ~(Open.out > 0)
        BY DEF Open
      <4>2. Open.buffer < MAX_REQUEST /\ Open.out <= MAX_PENDING_RESPONSE
        BY <4>1, ControlAssumption
      <4>3. acc.conn[d].st = "open" => acc.conn[d].up = proc[d].sent
        BY <2>1, <3>1 DEF ConnInv
      <4>4. acc.conn[d].st = "open" => Open.buffer + acc.conn[d].up = proc[d].sent
        BY <3>1, <4>1, <4>3
      <4>5. proc[d].cmd.uid = "manager"
        BY <2>4 DEF Taken, peer_uid
      <4> QED BY <2>1, <3>1, <4>1, <4>2, <4>4, <4>5 DEF EntryInv
    <3> QED BY <2>4, <3>2, <3>3 DEF Taken
  <2> QED BY <1>4, <2>3, <2>4
<1>5. ASSUME NEW d \in Clients, Untouched(acc, d)
      PROVE  /\ ConnInv(mgr, proc[d], acc.conn[d])
             /\ d \in DOMAIN acc.table => EntryInv(proc[d], acc.conn[d], acc.table[d])
             /\ acc.conn[d].st = "open" => d \in DOMAIN acc.table
  BY <1>5 DEF Untouched, ControlInv, TableInv
<1>6. ASSUME NEW d \in Clients
      PROVE  /\ ConnInv(mgr, proc[d], acc.conn[d])
             /\ d \in DOMAIN acc.table => EntryInv(proc[d], acc.conn[d], acc.table[d])
             /\ acc.conn[d].st = "open" => d \in DOMAIN acc.table
  BY <1>2, <1>4, <1>5 DEF AcceptedUpTo
<1>7. ControlType'
  <2>1. <<>> \in Seq(Clients)
    OBVIOUS
  <2> QED BY <1>1, <1>3, <2>1 DEF ControlInv, ControlType
<1>8. TableInv'
  BY <1>1, <1>2, <1>3, <1>6 DEF AcceptedUpTo, TableInv, Up
<1>9. BacklogInv'
  BY <1>1 DEF BacklogInv
<1> QED BY <1>1, <1>6, <1>7, <1>8, <1>9 DEF ControlInv

-----------------------------------------------------------------------------
(* The invariant, and what follows from it.                                *)

LEMMA ControlInit ==
  ASSUME Init
  PROVE  ControlInv
<1>1. PICK active \in [Units -> {"inactive", "running"}] : mgr = NewManager(active)
  BY DEF Init
<1>2. MgrInv(mgr)
  <2>1. mgr.jobs \in Tables(Jobs) /\ mgr.completed \in Tables(BOOLEAN)
    <3> DEFINE t == [i \in {} |-> i]
    <3>1. {} \in SUBSET Nat /\ t \in [{} -> Jobs] /\ t \in [{} -> BOOLEAN]
      OBVIOUS
    <3>2. t \in Tables(Jobs) /\ t \in Tables(BOOLEAN)
      BY <3>1, TableShape
    <3> QED BY <1>1, <3>2 DEF NewManager
  <2>2. mgr.active \in [Units -> States] /\ mgr.unit_job \in [Units -> Nat]
    BY <1>1 DEF NewManager, States
  <2>3. ASSUME NEW st \in [Units -> States], NEW jobs \in Tables(Jobs),
               NEW of \in [Units -> Nat], NEW completed \in Tables(BOOLEAN)
        PROVE  [active |-> st, jobs |-> jobs, unit_job |-> of, completed |-> completed,
                last |-> 0, masked |-> {}, shutting_down |-> FALSE, status |-> "running"]
                 \in Managers
    BY DEF Managers
  <2>4. mgr \in Managers
    <3>1. mgr = [active |-> mgr.active, jobs |-> mgr.jobs, unit_job |-> mgr.unit_job,
                 completed |-> mgr.completed, last |-> 0, masked |-> {},
                 shutting_down |-> FALSE, status |-> "running"]
      BY <1>1 DEF NewManager
    <3>2. [active |-> mgr.active, jobs |-> mgr.jobs, unit_job |-> mgr.unit_job,
           completed |-> mgr.completed, last |-> 0, masked |-> {},
           shutting_down |-> FALSE, status |-> "running"] \in Managers
      BY <2>1, <2>2, <2>3
    <3> QED BY <3>1, <3>2, Zenon
  <2>5. DOMAIN mgr.jobs = {} /\ DOMAIN mgr.completed = {} /\ \A u \in Units : mgr.unit_job[u] = 0
    BY <1>1 DEF NewManager
  <2> QED BY <2>4, <2>5 DEF MgrInv
<1>3. /\ backlog = <<>> /\ control_clients = [c \in {} |-> c]
      /\ conn = [c \in Clients |-> NoConn] /\ proc = [c \in Clients |-> Idle]
  BY DEF Init
<1>4. NoConn \in Conns
  BY RepliesHave, DataHas DEF NoConn, Conns
<1>5. ControlType
  <2>1. <<>> \in Seq(Clients)
    OBVIOUS
  <2> QED BY <1>3, <1>4, <2>1 DEF ControlType
<1>6. DOMAIN control_clients = {} /\ IsFiniteSet({}) /\ Cardinality({}) = 0
  BY <1>3, FS_EmptySet
<1>7. NoConn.st = "none" /\ NoConn.served = 0 /\ NoConn.down = 0 /\ NoConn.why = "none"
  BY DEF NoConn
<1>8. TableInv
  BY <1>3, <1>6, <1>7, ControlAssumption DEF TableInv
<1>9. BacklogInv
  BY <1>3 DEF BacklogInv
<1>10. \A c \in Clients : ProcInv(mgr, proc[c]) /\ ConnInv(mgr, proc[c], conn[c])
  BY <1>3, <1>7 DEF ProcInv, ConnInv
<1> QED BY <1>2, <1>5, <1>8, <1>9, <1>10 DEF ControlInv

LEMMA ControlNext ==
  ASSUME ControlInv, [Next]_vars
  PROVE  ControlInv'
<1>1. CASE ClientNext
  <2>1. PICK c \in Clients : Run(c) \/ Connect(c) \/ Write(c) \/ Read(c) \/ Interrupt(c)
    BY <1>1 DEF ClientNext
  <2>2. proc[c] = Idle => Run(c)
    BY <2>1 DEF Connect, Write, Read, Interrupt, Idle
  <2> QED BY <2>1, <2>2, RunKeeps, ConnectKeeps, WriteKeeps, ReadKeeps, InterruptKeeps
<1>2. CASE LoopNext
  BY <1>2, AcceptKeeps, DrainKeeps, FlushKeeps DEF LoopNext
<1>3. CASE EngineNext
  BY <1>3, FinishKeeps, UnitKeeps, ExitKeeps DEF EngineNext
<1>4. CASE UNCHANGED vars
  BY <1>4 DEF vars, ControlInv, ControlType, TableInv, BacklogInv, Up
<1> QED BY <1>1, <1>2, <1>3, <1>4 DEF Next

\* Along every behaviour the manager's table, the backlog, the connections and
\* the processes fit together (accept_connections, drain_control_client,
\* flush_control_response against ControlClient::send).
THEOREM ControlInvariant == Spec => []ControlInv
<1>1. Init => ControlInv
  BY ControlInit
<1>2. ControlInv /\ [Next]_vars => ControlInv'
  BY ControlNext
<1> QED BY <1>1, <1>2, PTL DEF Spec

\* However many processes connect and whatever they send, the caps of the
\* manager's table hold, a connection runs one request of the manager's own
\* user, written to its end, and a delivered answer is whole
\* (accept_connections, drain_control_client, flush_control_response).
THEOREM ConnectionServedCorrect == Spec => []ConnectionServed
<1>1. ASSUME ControlInv
      PROVE  ConnectionServed
  <2>1. TableBounded
    BY <1>1 DEF ControlInv, TableInv, EntryInv, TableBounded
  <2>2. RunsOnce
    <3> SUFFICES ASSUME NEW c \in Clients
                 PROVE  /\ conn[c].served <= 1
                        /\ conn[c].served = 1 =>
                             /\ proc[c].cmd.uid = "manager"
                             /\ proc[c].pc \in {"write", "read"} \/ proc[c].exit = 130
                                  => proc[c].sent = RequestOf(proc[c]).size
      BY DEF RunsOnce
    <3>1. conn[c].served \in {0, 1} /\ ProcInv(mgr, proc[c]) /\ ConnInv(mgr, proc[c], conn[c])
      BY <1>1, ProcOf DEF Conns
    <3> QED BY <3>1 DEF ProcInv, ConnInv
  <2>3. AnswerArrives
    BY <1>1, ProcOf DEF AnswerArrives, ConnInv
  <2> QED BY <2>1, <2>2, <2>3 DEF ConnectionServed
<1> QED BY <1>1, ControlInvariant, PTL

\* A start or stop that waited and exits 0 leaves no job of its own behind,
\* and none that failed, whatever other clients do to the jobs meanwhile
\* (wait_for_jobs over the rows of job_status).
THEOREM SuccessMeansDoneCorrect == Spec => []SuccessMeansDone
<1>1. ASSUME ControlInv
      PROVE  SuccessMeansDone
  <2> SUFFICES ASSUME NEW c \in Clients, proc[c].pc = "done", proc[c].exit = 0,
                      proc[c].cmd.verb \in {"start", "stop"}, should_wait(proc[c].cmd)
               PROVE  \A id \in proc[c].ids :
                        /\ id \notin DOMAIN mgr.jobs
                        /\ id \in DOMAIN mgr.completed => mgr.completed[id]
    BY DEF SuccessMeansDone
  <2>1. ProcInv(mgr, proc[c]) /\ proc[c] # Idle
    BY <1>1, ProcOf DEF Idle
  <2>2. Settled(mgr, proc[c].ids)
    BY <2>1 DEF ProcInv, Waits
  <2> QED BY <2>2 DEF Settled
<1> QED BY <1>1, ControlInvariant, PTL
=============================================================================
