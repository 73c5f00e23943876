---------------------------- MODULE UnitProofs ----------------------------
(***************************************************************************)
(* Single units among any others.  Of a unit without dependencies: its     *)
(* jobs end, a Stop job reported done left it stopped, nobody else's       *)
(* READY=1 makes it active, and a finished shutdown left nothing of it     *)
(* running.  A unit whose stop runs no command, whatever its dependencies, *)
(* is never stuck in a transient state.  One lemma per action; what the    *)
(* other steps leave of a unit has lemmas of its own.                      *)
(***************************************************************************)
EXTENDS ManagerProofs

-----------------------------------------------------------------------------
(* Units that stand alone: nothing depends on them, nor they on others.    *)
(* Whatever the other units are and do, such a unit has one job at most,   *)
(* and that job either is in the hands of one of the calls under way, or   *)
(* waits for an event that ends it.                                        *)

\* A unit whose starts end as soon as its process exists, and one with a
\* starting phase that ends when that phase's process does
Plain(u) == u \in Targets \/ (ServiceType[u] = "simple" /\ ExecCount[u]["StartPre"] = 0)
Staged(u) == ~Plain(u) /\ ServiceType[u] \in {"simple", "oneshot"}

\* No unit depends on this one, nor it on others
Unrelated(u) ==
  \A E \in {Requires, Wants, Requisite, Conflicts, After, Before, OnFailure} :
    E[u] = {} /\ \A v \in Units : u \notin E[v]

\* ... and nothing about it makes its jobs outlive what they wait for: a failing
\* ExecStop= or an ignored ExecStartPost= is not reported, a staged start forgets a
\* process that a timeout or an automatic restart left behind
Standalone(u) ==
  /\ Unrelated(u)
  /\ ExecCount[u]["Stop"] = 0
  /\ ExecCount[u]["StartPost"] > 0 => u \notin IgnoreFailure
  /\ Staged(u) => Restart[u] = "no" /\ u \notin StartTimeouts \cup StopTimeouts

OrdinaryRequests ==
  Requests \cap {"reload", "start-ignore-dependencies", "daemon-reload"} = {}

JobFrames == {"conflicts", "open", "commit", "stop_deps", "advance", "maybe_start",
              "maybe_stop", "finish"}
JobsOf(u) == {id \in DOMAIN jobs : jobs[id].unit = u}

OtherIds(u) == (0 .. next_job) \ JobsOf(u)

\* A call that is about a job of `ids' if about any, and does nothing to u or
\* takes u as it finds it
Quiet(f, u, ids) ==
  /\ f.unit = u => \/ f.op \in {"start", "stop"}
                   \/ f.op \in {"completed", "poke"} /\ f.ids = {}
                   \/ f.op = "on_failure" /\ f.todo = {}
  /\ f.op \in JobFrames => f.id \in ids
  /\ u \in f.todo => f.op = "stop_all"
  /\ \A w \in f.waiting : w.unit # u

\* The calls beneath the first n
Beneath(n) == {stack[k] : k \in {j \in DOMAIN stack : j > n}}
QuietBeneath(n, u) == \A f \in Beneath(n) : Quiet(f, u, OtherIds(u))

\* Pieces of the state a call on u's behalf finds
Down(u) ==
  /\ units[u].loaded
  /\ units[u].active \in {"inactive", "failed"} \cup (IF Staged(u) THEN {} ELSE {"activating"})
Childless(u) == Staged(u) => Unreaped(u) = {}
Fresh(u, kind, id) ==
  /\ id = unit_job[u] /\ id # 0 /\ jobs[id].kind = kind
  /\ ~jobs[id].started /\ ~jobs[id].failed
Underway(u) ==
  PendingStart(u) => jobs[unit_job[u]].started /\ ~jobs[unit_job[u]].failed
Upcoming(f, u) ==
  \/ f.cmd = "StartPre" /\ ExecCount[u]["StartPre"] > 0 /\ f.id = 0
  \/ f.cmd = "Start"
  \/ /\ f.cmd = "StartPost" /\ ExecCount[u]["StartPost"] > 0 /\ f.id = 0
     /\ ServiceType[u] = "oneshot"

\* The one call that u's job is in the hands of
Work(f, u) ==
  \/ /\ f.op = "enqueue_start" /\ f.unit = u
     /\ unit_job[u] = 0 /\ Down(u) /\ Childless(u)
  \/ /\ f.op \in {"conflicts", "open", "commit"} /\ f.unit = u
     /\ f.todo = {} /\ f.waiting = {}
     /\ Fresh(u, "Start", f.id) /\ Down(u) /\ Childless(u)
  \/ /\ f.op = "maybe_start"
     /\ Fresh(u, "Start", f.id) /\ Down(u) /\ Childless(u)
  \/ /\ f.op = "do_start" /\ f.unit = u
     /\ ~PendingStop(u) /\ Underway(u) /\ Down(u) /\ Childless(u)
     /\ Staged(u) => PendingStart(u)
  \/ /\ f.op = "spawn" /\ f.unit = u
     /\ u \notin Targets /\ ~PendingStop(u) /\ Underway(u) /\ Childless(u)
     /\ units[u].loaded /\ units[u].active # "deactivating"
     /\ Plain(u) \/ (PendingStart(u) => units[u].active \in StartStates(u))
     /\ Staged(u) => \/ units[u].active = "active"
                     \/ units[u].active = "activating" /\ PendingStart(u)
     /\ Upcoming(f, u)
  \/ /\ f.op = "enqueue_stop" /\ f.unit = u
     /\ unit_job[u] = 0 /\ unit_operational(u) /\ units[u].loaded
  \/ /\ f.op = "stop_deps" /\ f.unit = u /\ f.todo = {}
     /\ Fresh(u, "Stop", f.id) /\ unit_operational(u) /\ units[u].loaded
  \/ /\ f.op = "maybe_stop"
     /\ Fresh(u, "Stop", f.id) /\ unit_operational(u) /\ units[u].loaded
  \/ /\ f.op = "finish" /\ f.id # 0 /\ f.id = unit_job[u]
     /\ units[u].active # "deactivating"
     /\ Staged(u) => units[u].active # "activating"
     /\ PendingStop(u) =>
          f.ok /\ units[u].active \in {"inactive", "failed"} /\ units[u].loaded
  \/ /\ f.op = "finalize" /\ f.unit = u
     /\ ~PendingStart(u) /\ Childless(u) /\ units[u].loaded
  \/ /\ f.op = "set_exited" /\ f.unit = u
     /\ unit_job[u] = 0 /\ units[u].loaded /\ units[u].active = "deactivating"

\* No call is about u's job, and an event will end it
Settled(u) ==
  /\ PendingStart(u) => /\ jobs[unit_job[u]].started /\ ~jobs[unit_job[u]].failed
                        /\ ~Plain(u) /\ units[u].active \in StartStates(u)
  /\ PendingStop(u) => jobs[unit_job[u]].started /\ units[u].active = "deactivating"
  /\ units[u].active = "deactivating" => PendingStop(u)
  /\ Staged(u) /\ units[u].active = "activating" => PendingStart(u)

Resting(u) == Settled(u) /\ QuietBeneath(0, u)
AtWork(u) == stack # <<>> /\ Work(Top, u) /\ QuietBeneath(1, u)
Released(u) ==
  /\ Len(stack) >= 2
  /\ stack[1].op = "completed" /\ stack[1].unit = u /\ stack[1].ids = {}
  /\ stack[2].op \in {"enqueue_start", "enqueue_stop", "set_exited"} /\ Work(stack[2], u)
  /\ QuietBeneath(2, u)
Phase(u) == Resting(u) \/ AtWork(u) \/ Released(u)

OwnJob(u) ==
  /\ \A id \in JobsOf(u) : id = unit_job[u] /\ jobs[id].waiting = {}
  /\ \A id \in DOMAIN jobs : \A w \in jobs[id].waiting : w.unit # u

\* What u has on record says what its processes are
OwnUnit(u) ==
  /\ ~units[u].loaded => units[u].active = "inactive"
  /\ units[u].sub = "auto-restart" => units[u].active = "activating" /\ ~Staged(u)
  /\ units[u].control_command = "StartPost" => ServiceType[u] = "oneshot"
  /\ u \in Targets => Unreaped(u) = {}
  /\ <<u, "StartTimeout">> \in armed => u \in StartTimeouts
  /\ <<u, "StopTimeout">> \in armed => u \in StopTimeouts
  /\ Staged(u) => \A p \in Unreaped(u) :
       /\ p = units[u].group_pid
       /\ units[u].active = "activating" => p = units[u].control_pid
       /\ units[u].active \in {"active", "activating", "deactivating"}

LoneInv(u) == OwnJob(u) /\ OwnUnit(u) /\ Phase(u)

-----------------------------------------------------------------------------
(* Calls and what is beneath them.                                         *)

\* Dependencies lead neither from u nor to it.
LEMMA UnrelatedUnit ==
  ASSUME NEW u \in Units, Unrelated(u)
  PROVE  /\ \A E \in {Requires, Wants, Requisite, Conflicts, After, Before, OnFailure} :
              /\ Closure(E, u) = {}
              /\ \A v \in Units : v # u => u \notin Closure(E, v)
         /\ Dependents(u) = {} /\ \A v \in Units : u \notin Dependents(v)
         /\ \A W : Ordered(u, W) = {} /\ \A v \in Units : u \notin Ordered(v, W)
         /\ OnFailure[u] = {} /\ \A v \in Units : u \notin OnFailure[v]
<1>1. ASSUME NEW E \in {Requires, Wants, Requisite, Conflicts, After, Before, OnFailure}
      PROVE  /\ Closure(E, u) = {}
             /\ \A v \in Units : v # u => u \notin Closure(E, v)
  <2>1. E[u] = {} /\ \A v \in Units : u \notin E[v] /\ E[v] \subseteq Units
    BY <1>1, ConfigAssumption DEF Unrelated
  <2> HIDE <1>1
  <2>2. Closure(E, u) = {}
    BY <2>1 DEF Closure, Edges
  <2>3. ASSUME NEW v \in Units, v # u
        PROVE  u \notin Closure(E, v)
    <3> DEFINE S == Units \ {u}
    <3>1. S \in SUBSET Units /\ Edges(E, v) \subseteq S /\ \A x \in S : Edges(E, x) \subseteq S
      BY <2>1 DEF Edges
    <3>2. u \notin S
      OBVIOUS
    <3> HIDE DEF S
    <3> QED BY <3>1, <3>2 DEF Closure
  <2> QED BY <2>2, <2>3
<1>2. \A v \in Units : u \notin Requires[v] /\ v \notin Requires[u]
  BY DEF Unrelated
<1>3. \A v \in Units : u \notin After[v] /\ v \notin After[u] /\ u \notin Before[v] /\ v \notin Before[u]
  BY DEF Unrelated
<1>4. After[u] = {} /\ OnFailure[u] = {} /\ \A v \in Units : u \notin OnFailure[v]
  BY DEF Unrelated
<1>5. Dependents(u) = {} /\ \A v \in Units : u \notin Dependents(v)
  BY <1>2 DEF Dependents
<1>6. ASSUME NEW W
      PROVE  Ordered(u, W) = {} /\ \A v \in Units : u \notin Ordered(v, W)
  BY <1>3, <1>4 DEF Ordered
<1> QED BY <1>1, <1>4, <1>5, <1>6

\* The stack after a call: its frames, then those that were under it.
LEMMA StackAfter ==
  ASSUME TypeOK, NEW op, Calling(op), NEW S, NEW frames \in Seq(S), Call(frames)
  PROVE  /\ Len(frames) \in Nat /\ Len(stack) \in Nat /\ Len(stack) >= 1 /\ Top = stack[1]
         /\ DOMAIN stack = 1 .. Len(stack) /\ DOMAIN frames = 1 .. Len(frames)
         /\ DOMAIN stack' = 1 .. (Len(frames) + Len(stack) - 1)
         /\ Len(stack') = Len(frames) + Len(stack) - 1
         /\ \A k \in 1 .. Len(frames) : stack'[k] = frames[k]
         /\ \A k \in DOMAIN stack' :
              k > Len(frames) => /\ k - Len(frames) + 1 \in DOMAIN stack
                                 /\ stack'[k] = stack[k - Len(frames) + 1]
<1> DEFINE T == S \cup Frame
<1>1. stack \in Seq(T) /\ stack # <<>> /\ frames \in Seq(T)
  BY DEF TypeOK, Calling
<1>2. Return \in Seq(T) /\ stack' = frames \o Return
  BY <1>1, HeadTailProperties DEF Return, Call
<1> HIDE DEF T
<1>3. /\ Len(Return) = Len(stack) - 1 /\ Len(stack) \in Nat /\ Len(stack) >= 1
      /\ \A k \in 1 .. Len(Return) : Return[k] = stack[k + 1]
      /\ Top = stack[1]
  BY <1>1 DEF Return, Top
<1> DEFINE n == Len(frames)
           m == Len(Return)
<1>4. n \in Nat /\ m \in Nat /\ DOMAIN frames = 1 .. n /\ DOMAIN stack = 1 .. (m + 1)
  BY <1>1, <1>2, <1>3
<1>5. /\ DOMAIN stack' = 1 .. (n + m) /\ Len(stack') = n + m
      /\ \A k \in 1 .. (n + m) :
           stack'[k] = IF k <= n THEN frames[k] ELSE Return[k - n]
  BY <1>1, <1>2
<1> HIDE DEF n, m
<1>6. ASSUME NEW k \in DOMAIN stack', k > n
      PROVE  k - n + 1 \in DOMAIN stack /\ stack'[k] = stack[k - n + 1]
  <2>1. k - n \in 1 .. m /\ ~(k <= n) /\ k - n + 1 \in 1 .. (m + 1) /\ k \in 1 .. (n + m)
    BY <1>4, <1>5, <1>6
  <2>2. stack'[k] = Return[k - n]
    BY <1>5, <2>1
  <2>3. Return[k - n] = stack[k - n + 1]
    BY <1>3, <2>1 DEF m
  <2> QED BY <1>4, <2>1, <2>2, <2>3
<1>7. \A k \in 1 .. n : k \in 1 .. (n + m) /\ stack'[k] = frames[k]
  BY <1>4, <1>5
<1>8. n + m = Len(frames) + Len(stack) - 1 /\ m + 1 = Len(stack)
  BY <1>3, <1>4 DEF n, m
<1> QED BY <1>3, <1>4, <1>5, <1>6, <1>7, <1>8 DEF n, m

\* The frames of a call and what is beneath them.
LEMMA BeneathCall ==
  ASSUME TypeOK, NEW op, Calling(op), NEW S, NEW frames \in Seq(S), Call(frames), NEW n \in Nat,
         n <= Len(frames)
  PROVE  Beneath(n)' \subseteq Beneath(1) \cup {frames[k] : k \in {j \in DOMAIN frames : j > n}}
<1> SUFFICES ASSUME NEW k \in DOMAIN stack', k > n
             PROVE  stack'[k] \in Beneath(1) \cup {frames[i] : i \in {j \in DOMAIN frames : j > n}}
  BY DEF Beneath
<1>1. k \in Int /\ Len(frames) \in Nat /\ DOMAIN frames = 1 .. Len(frames) /\ k >= 1
  BY StackAfter
<1>2. CASE k <= Len(frames)
  <2>1. k \in DOMAIN frames /\ stack'[k] = frames[k]
    BY <1>1, <1>2, StackAfter
  <2> QED BY <2>1
<1>3. CASE k > Len(frames)
  <2>1. /\ k - Len(frames) + 1 \in DOMAIN stack
        /\ stack'[k] = stack[k - Len(frames) + 1]
    BY <1>3, StackAfter
  <2>2. k - Len(frames) + 1 > 1
    BY <1>1, <1>3
  <2> QED BY <2>1, <2>2 DEF Beneath
<1> QED BY <1>1, <1>2, <1>3

\* The stack after a return, and after one, two or three calls.
LEMMA BeneathReturn ==
  ASSUME TypeOK, NEW op, Calling(op), stack' = Return
  PROVE  Beneath(0)' \subseteq Beneath(1)
<1>1. stack \in Seq(Frame) /\ stack # <<>>
  BY DEF TypeOK, Calling
<1>2. Return \in Seq(Frame)
  BY <1>1, HeadTailProperties DEF Return
<1>3. <<>> \o Return = Return /\ <<>> \in Seq(Frame)
  BY <1>2, ConcatEmptySeq
<1> DEFINE frames == <<>>
<1>4. Call(frames) /\ frames \in Seq({}) /\ DOMAIN frames = {} /\ Len(frames) = 0 /\ 0 \in Nat
  BY <1>3 DEF Call
<1> HIDE DEF frames
<1>5. {frames[k] : k \in {j \in DOMAIN frames : j > 0}} = {} /\ 0 <= Len(frames)
  BY <1>4
<1>6. Beneath(0)' \subseteq Beneath(1) \cup {frames[k] : k \in {j \in DOMAIN frames : j > 0}}
  BY <1>4, <1>5, BeneathCall
<1> QED BY <1>5, <1>6

\* Beneath the call that was made is what was beneath its caller.
LEMMA BeneathOne ==
  ASSUME TypeOK, NEW op, Calling(op), NEW f, Call(<<f>>)
  PROVE  /\ Beneath(0)' \subseteq Beneath(1) \cup {f} /\ Beneath(1)' \subseteq Beneath(1)
         /\ stack' # <<>> /\ Top' = f
<1> DEFINE frames == <<f>>
<1>1. frames \in Seq({f}) /\ DOMAIN frames = {1} /\ frames[1] = f /\ Len(frames) = 1
  OBVIOUS
<1> HIDE DEF frames
<1>2. Call(frames)
  BY DEF frames
<1>3. Beneath(0)' \subseteq Beneath(1) \cup {f} /\ Beneath(1)' \subseteq Beneath(1)
  <2>1. {frames[k] : k \in {j \in DOMAIN frames : j > 0}} \subseteq {f}
    BY <1>1
  <2>2. {frames[k] : k \in {j \in DOMAIN frames : j > 1}} = {}
    BY <1>1
  <2>3. Beneath(0)' \subseteq Beneath(1) \cup {frames[k] : k \in {j \in DOMAIN frames : j > 0}}
    BY <1>1, <1>2, BeneathCall
  <2>4. Beneath(1)' \subseteq Beneath(1) \cup {frames[k] : k \in {j \in DOMAIN frames : j > 1}}
    BY <1>1, <1>2, BeneathCall
  <2> QED BY <2>1, <2>2, <2>3, <2>4
<1>4. stack'[1] = f /\ stack' # <<>>
  <2>1. Len(stack) >= 1 /\ Len(stack) \in Nat /\ DOMAIN stack' = 1 .. (1 + Len(stack) - 1) /\ stack'[1] = frames[1]
    BY <1>1, <1>2, StackAfter
  <2> QED BY <1>1, <2>1
<1> QED BY <1>3, <1>4 DEF Top

\* ... the same for two calls made together.
LEMMA BeneathTwo ==
  ASSUME TypeOK, NEW op, Calling(op), NEW f, NEW g, Call(<<f, g>>)
  PROVE  /\ Beneath(0)' \subseteq Beneath(1) \cup {f, g}
         /\ Beneath(1)' \subseteq Beneath(1) \cup {g}
         /\ Beneath(2)' \subseteq Beneath(1)
         /\ stack' # <<>> /\ Len(stack') >= 2 /\ Top' = f /\ stack'[1] = f /\ stack'[2] = g
<1> DEFINE frames == <<f, g>>
<1>1. /\ frames \in Seq({f, g}) /\ DOMAIN frames = {1, 2} /\ Len(frames) = 2
      /\ frames[1] = f /\ frames[2] = g
  OBVIOUS
<1> HIDE DEF frames
<1>2. Call(frames)
  BY DEF frames
<1>3. /\ Beneath(0)' \subseteq Beneath(1) \cup {f, g} /\ Beneath(1)' \subseteq Beneath(1) \cup {g}
      /\ Beneath(2)' \subseteq Beneath(1)
  <2>1. {frames[k] : k \in {j \in DOMAIN frames : j > 0}} \subseteq {f, g}
    BY <1>1
  <2>2. {frames[k] : k \in {j \in DOMAIN frames : j > 1}} \subseteq {g}
    BY <1>1
  <2>3. {frames[k] : k \in {j \in DOMAIN frames : j > 2}} = {}
    BY <1>1
  <2>4. Beneath(0)' \subseteq Beneath(1) \cup {frames[k] : k \in {j \in DOMAIN frames : j > 0}}
    BY <1>1, <1>2, BeneathCall
  <2>5. Beneath(1)' \subseteq Beneath(1) \cup {frames[k] : k \in {j \in DOMAIN frames : j > 1}}
    BY <1>1, <1>2, BeneathCall
  <2>6. Beneath(2)' \subseteq Beneath(1) \cup {frames[k] : k \in {j \in DOMAIN frames : j > 2}}
    BY <1>1, <1>2, BeneathCall
  <2> QED BY <2>1, <2>2, <2>3, <2>4, <2>5, <2>6
<1>4. stack'[1] = f /\ stack'[2] = g /\ Len(stack') >= 2 /\ stack' # <<>>
  <2>1. /\ Len(stack) >= 1 /\ Len(stack) \in Nat /\ DOMAIN stack' = 1 .. (2 + Len(stack) - 1)
        /\ Len(stack') = 2 + Len(stack) - 1
        /\ \A k \in 1 .. 2 : stack'[k] = frames[k]
    BY <1>1, <1>2, StackAfter
  <2> QED BY <1>1, <2>1
<1> QED BY <1>3, <1>4 DEF Top

\* ... and for three.
LEMMA BeneathThree ==
  ASSUME TypeOK, NEW op, Calling(op), NEW f, NEW g, NEW h, Call(<<f, g, h>>)
  PROVE  /\ Beneath(2)' \subseteq Beneath(1) \cup {h} /\ Beneath(0)' \subseteq Beneath(1) \cup {f, g, h}
         /\ Len(stack') >= 2 /\ stack'[1] = f /\ stack'[2] = g
<1> DEFINE frames == <<f, g, h>>
<1>1. /\ frames \in Seq({f, g, h}) /\ DOMAIN frames = {1, 2, 3} /\ Len(frames) = 3
      /\ frames[1] = f /\ frames[2] = g /\ frames[3] = h
  OBVIOUS
<1> HIDE DEF frames
<1>2. Call(frames)
  BY DEF frames
<1>3. Beneath(2)' \subseteq Beneath(1) \cup {h}
  <2>1. {frames[k] : k \in {j \in DOMAIN frames : j > 2}} \subseteq {h}
    BY <1>1
  <2>2. Beneath(2)' \subseteq Beneath(1) \cup {frames[k] : k \in {j \in DOMAIN frames : j > 2}}
    BY <1>1, <1>2, BeneathCall
  <2> QED BY <2>1, <2>2
<1>5. Beneath(0)' \subseteq Beneath(1) \cup {f, g, h}
  <2>1. {frames[k] : k \in {j \in DOMAIN frames : j > 0}} \subseteq {f, g, h}
    BY <1>1
  <2>2. Beneath(0)' \subseteq Beneath(1) \cup {frames[k] : k \in {j \in DOMAIN frames : j > 0}}
    BY <1>1, <1>2, BeneathCall
  <2> QED BY <2>1, <2>2
<1>4. stack'[1] = f /\ stack'[2] = g /\ Len(stack') >= 2
  <2>1. /\ Len(stack) >= 1 /\ Len(stack) \in Nat
        /\ Len(stack') = 3 + Len(stack) - 1
        /\ \A k \in 1 .. 3 : stack'[k] = frames[k]
    BY <1>1, <1>2, StackAfter
  <2> QED BY <1>1, <2>1
<1> QED BY <1>3, <1>4, <1>5

\* A step that gives u no job but a new one disturbs no quiet call.
LEMMA OthersKept ==
  ASSUME TypeOK, NEW u, JobsOf(u)' \subseteq JobsOf(u) \cup {next_job + 1},
         next_job' \in {next_job, next_job + 1}
  PROVE  OtherIds(u) \subseteq OtherIds(u)'
<1>1. next_job \in Nat
  BY DEF TypeOK, JobsTypeOK
<1> SUFFICES ASSUME NEW id \in 0 .. next_job, id \notin JobsOf(u)
             PROVE  id \in 0 .. next_job' /\ id \notin JobsOf(u)'
  BY DEF OtherIds
<1> QED BY <1>1

\* The calls beneath the one that is made stay quiet.
LEMMA RestKept ==
  ASSUME NEW u, OtherIds(u) \subseteq OtherIds(u)', QuietBeneath(1, u)
  PROVE  \A f \in Beneath(1) : Quiet(f, u, OtherIds(u)')
<1> DEFINE I == OtherIds(u)
           K == OtherIds(u)'
<1>1. \A f \in Beneath(1) : Quiet(f, u, I)
  BY DEF QuietBeneath
<1>2. I \subseteq K
  OBVIOUS
<1> HIDE DEF I, K
<1>3. \A f : Quiet(f, u, I) => Quiet(f, u, K)
  BY <1>2 DEF Quiet
<1> QED BY <1>1, <1>3 DEF K

\* Where u is after a return, and after one or two calls that do nothing to it.
LEMMA RestsAgain ==
  ASSUME TypeOK, NEW op, Calling(op), NEW u, \A f \in Beneath(1) : Quiet(f, u, OtherIds(u)'), Settled(u)',
         \/ stack' = Return
         \/ \E f : Call(<<f>>) /\ Quiet(f, u, OtherIds(u)')
         \/ \E f, g : Call(<<f, g>>) /\ Quiet(f, u, OtherIds(u)') /\ Quiet(g, u, OtherIds(u)')
  PROVE  Phase(u)'
<1>1. CASE stack' = Return
  BY <1>1, BeneathReturn DEF Phase, Resting, QuietBeneath
<1>2. ASSUME NEW f, Call(<<f>>), Quiet(f, u, OtherIds(u)')
      PROVE  Phase(u)'
  BY <1>2, BeneathOne DEF Phase, Resting, QuietBeneath
<1>3. ASSUME NEW f, NEW g, Call(<<f, g>>), Quiet(f, u, OtherIds(u)'), Quiet(g, u, OtherIds(u)')
      PROVE  Phase(u)'
  BY <1>3, BeneathTwo DEF Phase, Resting, QuietBeneath
<1> QED BY <1>1, <1>2, <1>3

\* ... and after a call made on its behalf.
LEMMA WorksOn ==
  ASSUME TypeOK, NEW op, Calling(op), NEW u, \A f \in Beneath(1) : Quiet(f, u, OtherIds(u)'),
         NEW f, Work(f, u)',
         \/ Call(<<f>>)
         \/ \E g : Call(<<f, g>>) /\ Quiet(g, u, OtherIds(u)')
  PROVE  Phase(u)'
<1>1. CASE Call(<<f>>)
  <2>1. stack' # <<>> /\ Top' = f /\ Beneath(1)' \subseteq Beneath(1)
    BY <1>1, BeneathOne
  <2>2. Work(Top, u)'
    BY <2>1
  <2> QED BY <2>1, <2>2 DEF Phase, AtWork, QuietBeneath
<1>2. ASSUME NEW g, Call(<<f, g>>), Quiet(g, u, OtherIds(u)')
      PROVE  Phase(u)'
  <2>1. stack' # <<>> /\ Top' = f /\ Beneath(1)' \subseteq Beneath(1) \cup {g}
    BY <1>2, BeneathTwo
  <2>2. Work(Top, u)'
    BY <2>1
  <2> QED BY <1>2, <2>1, <2>2 DEF Phase, AtWork, QuietBeneath
<1> QED BY <1>1, <1>2

\* ... and after its job was removed, and another one is to be made.
LEMMA ReleasedNext ==
  ASSUME TypeOK, NEW op, Calling(op), NEW u, \A f \in Beneath(1) : Quiet(f, u, OtherIds(u)'),
         NEW f, f.op = "completed", f.unit = u, f.ids = {},
         NEW g, Work(g, u)', g.op \in {"enqueue_start", "enqueue_stop", "set_exited"},
         \/ Call(<<f, g>>)
         \/ \E h : Call(<<f, g, h>>) /\ Quiet(h, u, OtherIds(u)')
  PROVE  Phase(u)'
<1>1. CASE Call(<<f, g>>)
  <2>1. Len(stack') >= 2 /\ stack'[1] = f /\ stack'[2] = g /\ Beneath(2)' \subseteq Beneath(1)
    BY <1>1, BeneathTwo
  <2>2. Work(stack[2], u)'
    BY <2>1
  <2> QED BY <2>1, <2>2 DEF Phase, Released, QuietBeneath
<1>2. ASSUME NEW h, Call(<<f, g, h>>), Quiet(h, u, OtherIds(u)')
      PROVE  Phase(u)'
  <2>1. Len(stack') >= 2 /\ stack'[1] = f /\ stack'[2] = g /\ Beneath(2)' \subseteq Beneath(1) \cup {h}
    BY <1>2, BeneathThree
  <2>2. Work(stack[2], u)'
    BY <2>1
  <2> QED BY <1>2, <2>1, <2>2 DEF Phase, Released, QuietBeneath
<1> QED BY <1>1, <1>2

\* After an event: the stack was empty.
LEMMA AfterEvent ==
  ASSUME NEW u, stack = <<>>,
         \/ /\ Settled(u)'
            /\ \/ stack' = <<>>
               \/ \E f : stack' = <<f>> /\ Quiet(f, u, OtherIds(u)')
               \/ \E f, g : stack' = <<f, g>> /\ Quiet(f, u, OtherIds(u)') /\ Quiet(g, u, OtherIds(u)')
         \/ \E f : /\ Work(f, u)'
                   /\ \/ stack' = <<f>>
                      \/ \E g : stack' = <<f, g>> /\ Quiet(g, u, OtherIds(u)')
  PROVE  Phase(u)'
<1>1. CASE stack' = <<>> /\ Settled(u)'
  BY <1>1 DEF Phase, Resting, QuietBeneath, Beneath
<1>2. ASSUME NEW f, stack' = <<f>>
      PROVE  stack' # <<>> /\ Top' = f /\ Beneath(0)' = {f} /\ Beneath(1)' = {}
  BY <1>2 DEF Beneath, Top
<1>3. ASSUME NEW f, NEW g, stack' = <<f, g>>
      PROVE  stack' # <<>> /\ Top' = f /\ Beneath(0)' = {f, g} /\ Beneath(1)' = {g}
  BY <1>3 DEF Beneath, Top
<1>4. ASSUME NEW f, stack' = <<f>>, Settled(u)', Quiet(f, u, OtherIds(u)') PROVE Phase(u)'
  BY <1>2, <1>4 DEF Phase, Resting, QuietBeneath
<1>5. ASSUME NEW f, NEW g, stack' = <<f, g>>, Settled(u)', Quiet(f, u, OtherIds(u)'), Quiet(g, u, OtherIds(u)') PROVE Phase(u)'
  BY <1>3, <1>5 DEF Phase, Resting, QuietBeneath
<1>6. ASSUME NEW f, stack' = <<f>>, Work(f, u)' PROVE Phase(u)'
  <2>1. Work(Top, u)'
    BY <1>2, <1>6
  <2> QED BY <1>2, <1>6, <2>1 DEF Phase, AtWork, QuietBeneath
<1>7. ASSUME NEW f, NEW g, stack' = <<f, g>>, Work(f, u)', Quiet(g, u, OtherIds(u)') PROVE Phase(u)'
  <2>1. Work(Top, u)'
    BY <1>3, <1>7
  <2> QED BY <1>3, <1>7, <2>1 DEF Phase, AtWork, QuietBeneath
<1> QED BY <1>1, <1>4, <1>5, <1>6, <1>7

-----------------------------------------------------------------------------
(* What a step that does not concern a unit leaves of it.                  *)

\* A step that leaves u's job alone, and its record, processes and timers
SameJob(u) ==
  /\ unit_job'[u] = unit_job[u] /\ JobsOf(u)' = JobsOf(u)
  /\ \A id \in JobsOf(u) : jobs'[id] = jobs[id]
SameUnit(u) ==
  /\ units'[u] = units[u] /\ Unreaped(u)' = Unreaped(u)
  /\ \A kind \in TimerKinds : <<u, kind>> \in armed' => <<u, kind>> \in armed
NoWaiter(u) == \A id \in DOMAIN jobs : \A w \in jobs[id].waiting : w.unit # u

\* What the index says of u's job.
LEMMA IndexedOwn ==
  ASSUME TypeOK, IndexInv, NEW u \in Units
  PROVE  /\ unit_job[u] # 0 => unit_job[u] \in JobsOf(u) /\ jobs[unit_job[u]] \in Job
         /\ unit_job[u] # 0 => PendingStart(u) \/ PendingStop(u)
         /\ ~(PendingStart(u) /\ PendingStop(u))
         /\ unit_job[u] \in Nat /\ next_job \in Nat /\ JobsOf(u) \subseteq 1 .. next_job
<1>1. unit_job[u] # 0 => unit_job[u] \in JobsOf(u) /\ jobs[unit_job[u]] \in Job
  BY DEF IndexInv, JobIndex, JobsOf, TypeOK, JobsTypeOK
<1>2. unit_job[u] # 0 => jobs[unit_job[u]].kind \in {"Start", "Stop"}
  BY <1>1 DEF Job
<1>3. unit_job[u] \in Nat /\ next_job \in Nat /\ JobsOf(u) \subseteq 1 .. next_job
  BY DEF IndexInv, JobsOf, TypeOK, JobsTypeOK
<1> QED BY <1>1, <1>2, <1>3 DEF PendingStart, PendingStop

\* u has no other job than its current one.
LEMMA OnlyJob ==
  ASSUME TypeOK, IndexInv, NEW u \in Units, OwnJob(u)
  PROVE  JobsOf(u) = IF unit_job[u] = 0 THEN {} ELSE {unit_job[u]}
<1>1. \A id \in JobsOf(u) : id = unit_job[u] /\ id # 0
  BY IndexedOwn DEF OwnJob
<1> QED BY <1>1, IndexedOwn

\* What is about a job that stays the same stays the same.
LEMMA SameJobKept ==
  ASSUME TypeOK, IndexInv, NEW u \in Units, SameJob(u)
  PROVE  /\ PendingStart(u)' = PendingStart(u) /\ PendingStop(u)' = PendingStop(u)
         /\ unit_job[u] # 0 => jobs'[unit_job[u]] = jobs[unit_job[u]]
         /\ OwnJob(u) /\ NoWaiter(u)' => OwnJob(u)'
         /\ units'[u] = units[u] /\ Settled(u) => Settled(u)'
<1>1. unit_job[u] # 0 => jobs'[unit_job[u]] = jobs[unit_job[u]]
  BY IndexedOwn DEF SameJob
<1>2. unit_job'[u] = unit_job[u]
  BY DEF SameJob
<1>3. PendingStart(u)' = PendingStart(u) /\ PendingStop(u)' = PendingStop(u)
  BY <1>1, <1>2 DEF PendingStart, PendingStop
<1>4. OwnJob(u) /\ NoWaiter(u)' => OwnJob(u)'
  BY <1>2 DEF OwnJob, NoWaiter, SameJob
<1>5. units'[u] = units[u] /\ Settled(u) => Settled(u)'
  <2> SUFFICES ASSUME units'[u] = units[u], Settled(u) PROVE Settled(u)'
    OBVIOUS
  <2>1. PendingStart(u)' <=> PendingStart(u)
    BY <1>3
  <2>2. PendingStop(u)' <=> PendingStop(u)
    BY <1>3
  <2>3. PendingStart(u)' => /\ jobs'[unit_job'[u]].started /\ ~jobs'[unit_job'[u]].failed
                            /\ ~Plain(u) /\ units'[u].active \in StartStates(u)
    BY <1>1, <1>2, <2>1 DEF Settled, PendingStart
  <2>4. PendingStop(u)' => jobs'[unit_job'[u]].started /\ units'[u].active = "deactivating"
    BY <1>1, <1>2, <2>2 DEF Settled, PendingStop
  <2> QED BY <2>1, <2>2, <2>3, <2>4 DEF Settled
<1> QED BY <1>1, <1>3, <1>4, <1>5

\* The same for the unit's record.
LEMMA SameUnitKept ==
  ASSUME NEW u, SameUnit(u), OwnUnit(u)
  PROVE  OwnUnit(u)'
BY DEF SameUnit, OwnUnit, TimerKinds

\* A call on u's behalf is not disturbed by a step that leaves u alone.
LEMMA WorkKept ==
  ASSUME TypeOK, IndexInv, NEW u \in Units, SameJob(u), SameUnit(u), NEW f, Work(f, u)
  PROVE  Work(f, u)'
<1>1. unit_job'[u] = unit_job[u] /\ units'[u] = units[u] /\ Unreaped(u)' = Unreaped(u)
  BY DEF SameJob, SameUnit
<1>2. unit_job[u] # 0 => jobs'[unit_job[u]] = jobs[unit_job[u]]
  BY SameJobKept
<1>3. (PendingStart(u)' <=> PendingStart(u)) /\ (PendingStop(u)' <=> PendingStop(u))
  BY SameJobKept
<1>4. \A kind, id : Fresh(u, kind, id) => Fresh(u, kind, id)'
  BY <1>1, <1>2 DEF Fresh
<1>5. Underway(u) => Underway(u)'
  BY <1>1, <1>2, <1>3 DEF Underway, PendingStart
<1>6. (Down(u) => Down(u)') /\ (Childless(u) => Childless(u)')
  BY <1>1 DEF Down, Childless
<1>7. unit_operational(u) => unit_operational(u)'
  BY <1>1 DEF unit_operational
<1> QED BY <1>1, <1>3, <1>4, <1>5, <1>6, <1>7 DEF Work

\* What is quiet beneath no call is quiet beneath one.
LEMMA LessBeneath ==
  ASSUME TypeOK
  PROVE  /\ Beneath(2) \subseteq Beneath(1) /\ Beneath(1) \subseteq Beneath(0)
         /\ \A u : QuietBeneath(0, u) => QuietBeneath(1, u)
         /\ stack # <<>> => Top \in Beneath(0)
         /\ \A n : Beneath(n) \subseteq Pending
<1>1. stack \in Seq(Frame) /\ \A j \in DOMAIN stack : j \in Nat
  BY DEF TypeOK
<1>2. Beneath(2) \subseteq Beneath(1) /\ Beneath(1) \subseteq Beneath(0)
  BY <1>1 DEF Beneath
<1>3. stack # <<>> => 1 \in DOMAIN stack /\ Top = stack[1]
  BY <1>1 DEF Top
<1> QED BY <1>2, <1>3 DEF QuietBeneath, Beneath, Pending

\* A step that leaves u alone where it rests, and makes no call that concerns it.
LEMMA Elsewhere ==
  ASSUME TypeOK, IndexInv, NEW op, Calling(op), NEW u \in Units, LoneInv(u), Resting(u),
         SameJob(u), SameUnit(u), NoWaiter(u)', next_job' \in {next_job, next_job + 1},
         \/ stack' = Return
         \/ \E f : Call(<<f>>) /\ Quiet(f, u, OtherIds(u)')
         \/ \E f, g : Call(<<f, g>>) /\ Quiet(f, u, OtherIds(u)') /\ Quiet(g, u, OtherIds(u)')
  PROVE  LoneInv(u)'
<1>1. OwnJob(u)' /\ OwnUnit(u)' /\ Settled(u)'
  BY SameJobKept, SameUnitKept DEF LoneInv, Resting, SameUnit
<1>2. OtherIds(u) \subseteq OtherIds(u)'
  BY OthersKept DEF SameJob
<1>3. QuietBeneath(1, u)
  BY LessBeneath DEF Resting
<1>4. \A f \in Beneath(1) : Quiet(f, u, OtherIds(u)')
  BY <1>2, <1>3, RestKept
<1>5. Phase(u)'
  BY <1>1, <1>4, RestsAgain
<1> QED BY <1>1, <1>5 DEF LoneInv

\* The frames of the primitives, for a unit they do not concern.
LEMMA QuietFrames ==
  ASSUME NEW u \in Units, NEW ids
  PROVE  /\ \A op, v : op \notin JobFrames /\ v # u => Quiet(UnitCall(op, v), u, ids)
         /\ Quiet(UnitCall("start", u), u, ids) /\ Quiet(Process, u, ids)
         /\ \A v, irreversible : Quiet(Stop(v, irreversible), u, ids)
         /\ \A id, ok : id \in ids => Quiet(Finish(id, ok), u, ids)
         /\ \A id, op : id \in ids => Quiet(JobCall(op, id), u, ids)
         /\ \A v, after, irreversible : v # u => Quiet(EnqueueStop(v, after, irreversible), u, ids)
         /\ \A v, cmd, idx : v # u => Quiet(Spawn(v, cmd, idx), u, ids)
         /\ \A v, ok : v # u => Quiet(Completed(v, ok), u, ids) /\ Quiet(Poke(v), u, ids)
         /\ \A todo : Quiet(Loop("stop_all", NoUnit, 0, todo, {}), u, ids)
         /\ \A v, todo, id : u \notin todo /\ v # u => Quiet(Loop("on_failure", v, id, todo, {}), u, ids)
         /\ Quiet(Loop("on_failure", u, 0, {}, {}), u, ids)
         /\ \A op, v, id, todo, waiting :
              v # u /\ u \notin todo /\ id \in ids /\ (\A w \in waiting : w.unit # u)
              => Quiet(Loop(op, v, id, todo, waiting), u, ids)
<1>1. NoUnit # u
  BY UnitsAssumption
<1>2. \A id, op : id \in ids => Quiet(JobCall(op, id), u, ids)
  BY <1>1 DEF Quiet, JobCall, Frm
<1>3. Quiet(Process, u, ids)
  BY <1>1 DEF Quiet, Process, JobCall, Frm, JobFrames
<1>4. \A op, v : op \notin JobFrames /\ v # u => Quiet(UnitCall(op, v), u, ids)
  BY DEF Quiet, UnitCall, Frm
<1>5. Quiet(UnitCall("start", u), u, ids)
  BY DEF Quiet, UnitCall, Frm, JobFrames
<1>6. \A v, irreversible : Quiet(Stop(v, irreversible), u, ids)
  BY DEF Quiet, Stop, Frm, JobFrames
<1>7. \A id, ok : id \in ids => Quiet(Finish(id, ok), u, ids)
  BY <1>1 DEF Quiet, Finish, Frm
<1>8. \A v, after, irreversible : v # u => Quiet(EnqueueStop(v, after, irreversible), u, ids)
  BY DEF Quiet, EnqueueStop, Frm, JobFrames
<1>9. \A v, cmd, idx : v # u => Quiet(Spawn(v, cmd, idx), u, ids)
  BY DEF Quiet, Spawn, Frm, JobFrames
<1>10. \A v, ok : v # u => Quiet(Completed(v, ok), u, ids) /\ Quiet(Poke(v), u, ids)
  BY DEF Quiet, Completed, Poke, Frm, JobFrames
<1>11. \A todo : Quiet(Loop("stop_all", NoUnit, 0, todo, {}), u, ids)
  BY <1>1 DEF Quiet, Loop, Frm, JobFrames
<1>12. \A v, todo, id : u \notin todo /\ v # u => Quiet(Loop("on_failure", v, id, todo, {}), u, ids)
  BY DEF Quiet, Loop, Frm, JobFrames
<1>13. Quiet(Loop("on_failure", u, 0, {}, {}), u, ids)
  BY DEF Quiet, Loop, Frm, JobFrames
<1>14. \A op, v, id, todo, waiting :
         v # u /\ u \notin todo /\ id \in ids /\ (\A w \in waiting : w.unit # u)
         => Quiet(Loop(op, v, id, todo, waiting), u, ids)
  BY DEF Quiet, Loop, Frm
<1> QED BY <1>2, <1>3, <1>4, <1>5, <1>6, <1>7, <1>8, <1>9, <1>10, <1>11, <1>12, <1>13, <1>14

\* ... and for u itself when nobody waits for it.
LEMMA QuietEnds ==
  ASSUME NEW u \in Units, OwnJob(u), NEW ok, NEW ids
  PROVE  /\ Waiters(u) = {} /\ Quiet(Completed(u, ok), u, ids) /\ Quiet(Poke(u), u, ids)
         /\ Completed(u, ok).op = "completed" /\ Completed(u, ok).unit = u /\ Completed(u, ok).ids = {}
<1>1. Waiters(u) = {}
  BY DEF OwnJob, Waiters
<1> QED BY <1>1 DEF Quiet, Completed, Poke, Frm, JobFrames

-----------------------------------------------------------------------------
(* The primitives of the job table, for one unit.                          *)

\* The job table as it is.
LEMMA SameTable ==
  ASSUME NEW u, OwnJob(u), UNCHANGED engineVars
  PROVE  SameJob(u) /\ NoWaiter(u)' /\ next_job' \in {next_job, next_job + 1}
BY DEF engineVars, SameJob, NoWaiter, JobsOf, OwnJob

\* A job of another unit leaves the table.
LEMMA RemoveOther ==
  ASSUME TypeOK, IndexInv, NEW u \in Units, OwnJob(u), NEW id \in DOMAIN jobs, jobs[id].unit # u,
         NEW ok, RemoveJob(id, ok)
  PROVE  SameJob(u) /\ NoWaiter(u)' /\ next_job' \in {next_job, next_job + 1}
<1>1. /\ DOMAIN jobs' = DOMAIN jobs \ {id} /\ \A i \in DOMAIN jobs' : jobs'[i] = jobs[i]
      /\ next_job' = next_job
  BY DEF RemoveJob
<1>2. jobs[id].unit \in Units
  BY DEF TypeOK, JobsTypeOK, Job
<1>3. unit_job'[u] = unit_job[u]
  BY <1>2 DEF RemoveJob, TypeOK, JobsTypeOK
<1>4. JobsOf(u)' = JobsOf(u) /\ id \notin JobsOf(u)
  BY <1>1 DEF JobsOf
<1>5. NoWaiter(u)'
  BY <1>1 DEF NoWaiter, OwnJob
<1> QED BY <1>1, <1>3, <1>4, <1>5 DEF SameJob, JobsOf

\* u's own job leaves the table.
LEMMA RemoveOwn ==
  ASSUME TypeOK, IndexInv, NEW u \in Units, OwnJob(u), unit_job[u] # 0,
         NEW ok, RemoveJob(unit_job[u], ok)
  PROVE  /\ unit_job'[u] = 0 /\ JobsOf(u)' = {} /\ next_job' = next_job /\ OwnJob(u)'
         /\ ~PendingStart(u)' /\ ~PendingStop(u)' /\ OtherIds(u) \subseteq OtherIds(u)'
<1> DEFINE id == unit_job[u]
<1>1. id \in JobsOf(u) /\ id \in DOMAIN jobs /\ jobs[id].unit = u /\ JobsOf(u) = {id}
  BY IndexedOwn, OnlyJob DEF JobsOf
<1>2. /\ DOMAIN jobs' = DOMAIN jobs \ {id} /\ \A i \in DOMAIN jobs' : jobs'[i] = jobs[i]
      /\ next_job' = next_job
  BY DEF RemoveJob
<1>3. unit_job'[u] = 0
  BY <1>1 DEF RemoveJob, TypeOK, JobsTypeOK
<1> HIDE DEF id
<1>4. JobsOf(u)' = {}
  BY <1>1, <1>2 DEF JobsOf
<1>5. OwnJob(u)'
  BY <1>2, <1>4 DEF OwnJob
<1>6. OtherIds(u) \subseteq OtherIds(u)'
  BY <1>2, <1>4, OthersKept
<1> QED BY <1>2, <1>3, <1>4, <1>5, <1>6 DEF PendingStart, PendingStop

\* A new job of another unit.
LEMMA NewOther ==
  ASSUME TypeOK, IndexInv, NEW u \in Units, OwnJob(u), NEW v \in Units, v # u,
         NEW kind, NEW irreversible, NEW after, NEW failed, NEW expanding,
         NewJob(v, kind, irreversible, after, failed, expanding)
  PROVE  /\ SameJob(u) /\ NoWaiter(u)' /\ next_job' \in {next_job, next_job + 1}
         /\ next_job' = next_job + 1 /\ next_job + 1 \in OtherIds(u)'
<1>1. next_job \in Nat /\ next_job' = next_job + 1 /\ next_job + 1 \notin DOMAIN jobs
  BY DEF TypeOK, JobsTypeOK, NewJob, IndexInv
<1>2. /\ DOMAIN jobs' = DOMAIN jobs \cup {next_job + 1}
      /\ \A i \in DOMAIN jobs : jobs'[i] = jobs[i]
      /\ jobs'[next_job + 1].unit = v /\ jobs'[next_job + 1].waiting = {}
  BY <1>1 DEF NewJob
<1>3. unit_job'[u] = unit_job[u]
  BY DEF NewJob, TypeOK, JobsTypeOK
<1>4. JobsOf(u)' = JobsOf(u)
  BY <1>2 DEF JobsOf
<1>5. NoWaiter(u)'
  BY <1>2 DEF NoWaiter, OwnJob
<1>6. next_job + 1 \in 0 .. next_job' /\ next_job + 1 \notin JobsOf(u)'
  BY <1>1, <1>2 DEF JobsOf
<1> QED BY <1>1, <1>2, <1>3, <1>4, <1>5, <1>6 DEF SameJob, OtherIds, JobsOf

\* A new job of u, when it has none.
LEMMA NewOwn ==
  ASSUME TypeOK, IndexInv, NEW u \in Units, OwnJob(u), unit_job[u] = 0,
         NEW kind, NEW irreversible, NEW after, NEW failed, NEW expanding,
         NewJob(u, kind, irreversible, after, failed, expanding)
  PROVE  /\ unit_job'[u] = next_job + 1 /\ next_job + 1 # 0 /\ next_job' = next_job + 1
         /\ OwnJob(u)' /\ OtherIds(u) \subseteq OtherIds(u)'
         /\ jobs'[next_job + 1].kind = kind /\ ~jobs'[next_job + 1].started
         /\ jobs'[next_job + 1].failed = failed
<1> DEFINE id == next_job + 1
<1>1. next_job \in Nat /\ next_job' = id /\ id \notin DOMAIN jobs /\ id # 0
  BY DEF TypeOK, JobsTypeOK, NewJob, IndexInv
<1>2. /\ DOMAIN jobs' = DOMAIN jobs \cup {id}
      /\ \A i \in DOMAIN jobs : jobs'[i] = jobs[i]
      /\ jobs'[id].unit = u /\ jobs'[id].waiting = {} /\ jobs'[id].kind = kind
      /\ ~jobs'[id].started /\ jobs'[id].failed = failed
  BY <1>1 DEF NewJob
<1>3. unit_job'[u] = id
  BY DEF NewJob, TypeOK, JobsTypeOK
<1>4. JobsOf(u) = {}
  BY OnlyJob
<1> HIDE DEF id
<1>5. JobsOf(u)' = {id}
  BY <1>2, <1>4 DEF JobsOf
<1>6. OwnJob(u)'
  BY <1>2, <1>3, <1>5 DEF OwnJob
<1>7. OtherIds(u) \subseteq OtherIds(u)'
  BY <1>1, <1>5, OthersKept DEF id
<1> QED BY <1>1, <1>2, <1>3, <1>6, <1>7 DEF id

\* The entry of another unit's job is changed.
LEMMA UpdateOther ==
  ASSUME TypeOK, IndexInv, NEW u \in Units, OwnJob(u), NEW id, id \notin JobsOf(u),
         NEW job, UpdateJob(id, job), unit_job'[u] = unit_job[u], next_job' = next_job,
         id \in DOMAIN jobs => job.unit = jobs[id].unit /\ \A w \in job.waiting : w.unit # u
  PROVE  SameJob(u) /\ NoWaiter(u)' /\ next_job' \in {next_job, next_job + 1}
<1>1. /\ DOMAIN jobs' = DOMAIN jobs
      /\ \A i \in DOMAIN jobs : jobs'[i] = IF i = id THEN job ELSE jobs[i]
  BY DEF UpdateJob
<1>2. JobsOf(u)' = JobsOf(u)
  BY <1>1 DEF JobsOf
<1>3. NoWaiter(u)'
  BY <1>1 DEF NoWaiter, OwnJob
<1> QED BY <1>1, <1>2, <1>3 DEF SameJob, JobsOf

\* The entry of u's own job is changed.
LEMMA UpdateOwn ==
  ASSUME TypeOK, IndexInv, NEW u \in Units, OwnJob(u), unit_job[u] # 0,
         NEW job, UpdateJob(unit_job[u], job), unit_job'[u] = unit_job[u],
         next_job' = next_job,
         job.unit = u, job.waiting = {}
  PROVE  /\ unit_job'[u] = unit_job[u] /\ jobs'[unit_job[u]] = job
         /\ OwnJob(u)' /\ OtherIds(u) \subseteq OtherIds(u)'
<1> DEFINE id == unit_job[u]
<1>1. id \in DOMAIN jobs /\ jobs[id].unit = u /\ JobsOf(u) = {id}
  BY IndexedOwn, OnlyJob DEF JobsOf
<1>2. /\ DOMAIN jobs' = DOMAIN jobs
      /\ \A i \in DOMAIN jobs : jobs'[i] = IF i = id THEN job ELSE jobs[i]
  BY DEF UpdateJob
<1>3. unit_job'[u] = id
  OBVIOUS
<1> HIDE DEF id
<1>4. JobsOf(u)' = JobsOf(u)
  BY <1>1, <1>2 DEF JobsOf
<1>5. OwnJob(u)'
  BY <1>1, <1>2, <1>3, <1>4 DEF OwnJob
<1>6. OtherIds(u) \subseteq OtherIds(u)'
  BY <1>4, OthersKept
<1> QED BY <1>1, <1>2, <1>3, <1>5, <1>6 DEF id

\* Ids of jobs in the table that are not u's.
LEMMA OtherJob ==
  ASSUME TypeOK, IndexInv, NEW u \in Units
  PROVE  /\ \A id \in DOMAIN jobs : jobs[id].unit # u => id \in OtherIds(u)
         /\ \A v \in Units : v # u => unit_job[v] \in OtherIds(u)
         /\ 0 \in OtherIds(u)
         /\ unit_job[u] # 0 => unit_job[u] \notin OtherIds(u)
         /\ \A id \in DOMAIN jobs : id \in OtherIds(u) => jobs[id].unit # u
<1>1. next_job \in Nat /\ DOMAIN jobs \subseteq 1 .. next_job
  BY DEF TypeOK, JobsTypeOK, IndexInv
<1>2. \A id \in DOMAIN jobs : jobs[id].unit # u => id \in OtherIds(u)
  BY <1>1 DEF OtherIds, JobsOf
<1>3. 0 \in OtherIds(u)
  BY <1>1 DEF OtherIds, JobsOf
<1>4. ASSUME NEW v \in Units, v # u
      PROVE  unit_job[v] \in OtherIds(u)
  <2>1. CASE unit_job[v] = 0
    BY <1>3, <2>1
  <2>2. CASE unit_job[v] # 0
    BY <1>2, <1>4, <2>2 DEF IndexInv, JobIndex
  <2> QED BY <2>1, <2>2
<1>5. unit_job[u] # 0 => unit_job[u] \notin OtherIds(u)
  BY IndexedOwn DEF OtherIds
<1> QED BY <1>2, <1>3, <1>4, <1>5 DEF OtherIds, JobsOf

\* Where no call is made about u, it rests, or its job was just removed.
LEMMA AtRest ==
  ASSUME TypeOK, NEW u, NEW op, Calling(op),  Phase(u)
  PROVE  \/ Resting(u) /\ Quiet(Top, u, OtherIds(u)) /\ QuietBeneath(1, u)
         \/ AtWork(u) /\ Work(Top, u) /\ QuietBeneath(1, u)
         \/ Released(u) /\ op = "completed" /\ Top.unit = u /\ Top.ids = {}
<1>1. stack # <<>>
  BY DEF Calling
<1>2. CASE Resting(u)
  BY <1>1, <1>2, LessBeneath DEF Resting, QuietBeneath
<1>3. CASE AtWork(u)
  BY <1>3 DEF AtWork
<1>4. CASE Released(u)
  BY <1>4 DEF Released, Calling, Top
<1> QED BY <1>2, <1>3, <1>4 DEF Phase

-----------------------------------------------------------------------------
(* Every call of the job engine.                                           *)

\* A call that is put before the stack.
LEMMA BeneathPush ==
  ASSUME TypeOK, NEW f \in Frame, stack' = <<f>> \o stack
  PROVE  Beneath(0)' \subseteq Beneath(0) \cup {f}
<1>1. stack \in Seq(Frame) /\ Len(stack) \in Nat /\ DOMAIN stack = 1 .. Len(stack)
  BY DEF TypeOK
<1>2. /\ DOMAIN stack' = 1 .. (Len(stack) + 1) /\ stack'[1] = f
      /\ \A k \in 2 .. (Len(stack) + 1) : stack'[k] = stack[k - 1]
  BY <1>1
<1>3. \A k \in 2 .. (Len(stack) + 1) : k - 1 \in DOMAIN stack /\ k - 1 > 0
  BY <1>1
<1>4. \A k \in DOMAIN stack' : k = 1 \/ k \in 2 .. (Len(stack) + 1)
  BY <1>1, <1>2
<1> QED BY <1>2, <1>3, <1>4 DEF Beneath

\* process_jobs finds nothing to do about u: its job is started, or in the hands
\* of another call.
LEMMA ProcessJobsLone ==
  ASSUME TypeOK, IndexInv, NEW u \in Units, LoneInv(u), ProcessJobs
  PROVE  LoneInv(u)'
<1>1. Calling("process") /\ UNCHANGED engineVars /\ UNCHANGED unitVars
  BY DEF ProcessJobs
<1>2. Resting(u) /\ Quiet(Top, u, OtherIds(u))
  BY <1>1, AtRest DEF LoneInv, Work, Calling
<1>3. SameJob(u) /\ NoWaiter(u)' /\ next_job' \in {next_job, next_job + 1} /\ SameUnit(u)
  BY <1>1, SameTable DEF LoneInv, unitVars, SameUnit, Unreaped
<1>4. OtherIds(u)' = OtherIds(u)
  BY <1>1 DEF engineVars, OtherIds, JobsOf
<1>5. CASE stack' = Return
  BY <1>1, <1>2, <1>3, <1>5, Elsewhere
<1>6. ASSUME NEW id \in DOMAIN jobs, Advanceable(id), stack' = <<JobCall("advance", id)>> \o stack
      PROVE  LoneInv(u)'
  <2> DEFINE f == JobCall("advance", id)
  <2>1. jobs[id].unit # u
    <3>1. SUFFICES ASSUME id \in JobsOf(u) PROVE FALSE
      BY DEF JobsOf
    <3>2. id = unit_job[u] /\ id # 0
      BY <3>1, IndexedOwn DEF LoneInv, OwnJob
    <3>3. PendingStart(u) \/ PendingStop(u)
      BY <3>2, IndexedOwn
    <3>4. jobs[id].started /\ (jobs[id].kind = "Start" => ~jobs[id].failed)
      BY <1>2, <3>2, <3>3 DEF Resting, Settled, PendingStart, PendingStop
    <3> QED BY <1>6, <3>4 DEF Advanceable
  <2>2. id \in OtherIds(u)'
    BY <1>4, <2>1, OtherJob
  <2>3. Quiet(f, u, OtherIds(u)')
    BY <2>2, QuietFrames
  <2>4. f \in Frame
    BY JobCallType DEF TypeOK, JobsTypeOK, Ops, UnitOps
  <2> HIDE DEF f
  <2>5. Beneath(0)' \subseteq Beneath(0) \cup {f}
    BY <1>6, <2>4, BeneathPush DEF f
  <2>6. QuietBeneath(0, u)'
    BY <1>2, <1>4, <2>3, <2>5 DEF Resting, QuietBeneath
  <2>7. OwnJob(u)' /\ OwnUnit(u)' /\ Settled(u)'
    BY <1>2, <1>3, SameJobKept, SameUnitKept DEF LoneInv, Resting, SameUnit
  <2> QED BY <2>6, <2>7 DEF LoneInv, Phase, Resting
<1> QED BY <1>5, <1>6 DEF ProcessJobs

\* try_advance_job goes on with jobs of other units only.
LEMMA TryAdvanceLone ==
  ASSUME TypeOK, IndexInv, NEW u \in Units, LoneInv(u), TryAdvanceJob
  PROVE  LoneInv(u)'
<1>1. Calling("advance") /\ UNCHANGED engineVars /\ UNCHANGED unitVars
  BY DEF TryAdvanceJob
<1>2. Resting(u) /\ Quiet(Top, u, OtherIds(u))
  BY <1>1, AtRest DEF LoneInv, Work, Calling
<1>3. SameJob(u) /\ NoWaiter(u)' /\ next_job' \in {next_job, next_job + 1} /\ SameUnit(u)
  BY <1>1, SameTable DEF LoneInv, unitVars, SameUnit, Unreaped
<1>4. OtherIds(u)' = OtherIds(u)
  BY <1>1 DEF engineVars, OtherIds, JobsOf
<1>5. Top.id \in OtherIds(u)'
  BY <1>1, <1>2, <1>4 DEF Quiet, JobFrames, Calling
<1>6. CASE stack' = Return
  BY <1>1, <1>2, <1>3, <1>6, Elsewhere
<1>7. ASSUME NEW f, Call(<<f>>),
             f \in {JobCall("maybe_stop", Top.id), Finish(Top.id, FALSE), JobCall("maybe_start", Top.id)}
      PROVE  LoneInv(u)'
  <2>1. Quiet(f, u, OtherIds(u)')
    BY <1>5, <1>7, QuietFrames
  <2> QED BY <1>1, <1>2, <1>3, <1>7, <2>1, Elsewhere
<1> QED BY <1>6, <1>7 DEF TryAdvanceJob

\* start, of another unit or of u.
LEMMA StartUnitLone ==
  ASSUME TypeOK, IndexInv, NEW u \in Units, LoneInv(u), StartUnit
  PROVE  LoneInv(u)'
<1> DEFINE v == Top.unit
           jid == unit_job[v]
<1>1. Calling("start") /\ v \in Units /\ UNCHANGED outside
  BY CallType DEF StartUnit, UnitOps
<1>2. Resting(u) /\ Quiet(Top, u, OtherIds(u)) /\ QuietBeneath(1, u) /\ OwnJob(u) /\ OwnUnit(u)
      /\ Settled(u)
  BY <1>1, AtRest DEF LoneInv, Work, Calling, Resting
<1> HIDE DEF v
<1>3. CASE v # u
  <2>1. units'[u] = units[u] => SameUnit(u)
    BY <1>1 DEF outside, SameUnit, Unreaped
  <2>2. UNCHANGED units => units'[u] = units[u]
    OBVIOUS
  <2>3. CASE stack' = Return /\ UNCHANGED <<engineVars, units>>
    BY <1>1, <1>2, <2>1, <2>2, <2>3, SameTable, Elsewhere
  <2>4. CASE units' = [units EXCEPT ![v] = NewUnit(TRUE)] /\ UNCHANGED <<engineVars, stack>>
    <3>1. units'[u] = units[u]
      BY <1>3, <2>4 DEF TypeOK
    <3>2. SameUnit(u) /\ SameJob(u) /\ NoWaiter(u)' /\ OtherIds(u)' = OtherIds(u)
      BY <1>2, <2>1, <2>4, <3>1, SameTable DEF engineVars, OtherIds, JobsOf
    <3>3. OwnJob(u)' /\ OwnUnit(u)' /\ Settled(u)'
      BY <1>2, <3>1, <3>2, SameJobKept, SameUnitKept
    <3>4. Beneath(0)' = Beneath(0)
      BY <2>4 DEF Beneath
    <3>5. QuietBeneath(0, u)'
      BY <1>2, <3>2, <3>4 DEF Resting, QuietBeneath
    <3> QED BY <3>3, <3>5 DEF LoneInv, Phase, Resting
  <2>5. CASE /\ PendingStop(v) /\ RemoveJob(jid, FALSE) /\ UNCHANGED units
             /\ Call(<<Completed(v, FALSE), UnitCall("set_exited", v)>>)
    <3>1. jid \in DOMAIN jobs /\ jobs[jid].unit # u
      BY <1>1, <1>3, <2>5 DEF IndexInv, JobIndex, PendingStop
    <3>2. SameJob(u) /\ NoWaiter(u)' /\ next_job' \in {next_job, next_job + 1}
      BY <1>2, <2>5, <3>1, RemoveOther
    <3> DEFINE f == Completed(v, FALSE)
               g == UnitCall("set_exited", v)
    <3>3. Quiet(f, u, OtherIds(u)') /\ Quiet(g, u, OtherIds(u)')
      BY <1>3, QuietFrames DEF JobFrames
    <3>4. Call(<<f, g>>)
      BY <2>5
    <3> HIDE DEF f, g
    <3> QED BY <1>1, <1>2, <2>1, <2>2, <2>5, <3>2, <3>3, <3>4, Elsewhere
  <2>6. CASE UNCHANGED <<engineVars, units>> /\ Call(<<UnitCall("enqueue_start", v), Process>>)
    <3>1. Quiet(UnitCall("enqueue_start", v), u, OtherIds(u)') /\ Quiet(Process, u, OtherIds(u)')
      BY <1>3, QuietFrames DEF JobFrames
    <3> DEFINE f == UnitCall("enqueue_start", v)
               g == Process
    <3>2. Call(<<f, g>>) /\ Quiet(f, u, OtherIds(u)') /\ Quiet(g, u, OtherIds(u)')
      BY <2>6, <3>1
    <3> HIDE DEF f, g
    <3> QED BY <1>1, <1>2, <2>1, <2>2, <2>6, <3>2, SameTable, Elsewhere
  <2> QED BY <2>3, <2>4, <2>5, <2>6 DEF StartUnit, v
<1>4. CASE v = u
  <2>1. CASE stack' = Return /\ UNCHANGED <<engineVars, units>>
    <3>1. SameUnit(u)
      BY <1>1, <2>1 DEF outside, SameUnit, Unreaped
    <3> QED BY <1>1, <1>2, <2>1, <3>1, SameTable, Elsewhere
  <2>2. CASE /\ ~units[u].loaded /\ units' = [units EXCEPT ![u] = NewUnit(TRUE)]
             /\ UNCHANGED <<engineVars, stack>>
    <3>1. units'[u] = NewUnit(TRUE) /\ units[u].active = "inactive"
      BY <1>2, <2>2 DEF TypeOK, OwnUnit
    <3>2. SameJob(u) /\ NoWaiter(u)' /\ OtherIds(u)' = OtherIds(u)
      BY <1>2, <2>2, SameTable DEF engineVars, OtherIds, JobsOf
    <3>3. Unreaped(u)' = Unreaped(u) /\ armed' = armed
      BY <1>1 DEF outside, Unreaped
    <3>4. OwnUnit(u)'
      <4>1. Staged(u) => Unreaped(u)' = {}
        BY <1>2, <3>1, <3>3 DEF OwnUnit
      <4>2. /\ units'[u].loaded /\ units'[u].sub = "dead"
            /\ units'[u].control_command = "none"
        BY <3>1 DEF NewUnit, NoCommand
      <4> QED BY <1>2, <3>3, <4>1, <4>2 DEF OwnUnit
    <3>5. Settled(u)'
      <4>1. units'[u].active = "inactive" /\ (PendingStart(u)' <=> PendingStart(u))
            /\ (PendingStop(u)' <=> PendingStop(u))
        BY <3>1, <3>2, SameJobKept DEF NewUnit
      <4>2. ~PendingStop(u)
        BY <1>2, <3>1 DEF Settled
      <4>3. PendingStart(u) => jobs'[unit_job'[u]].started /\ ~jobs'[unit_job'[u]].failed
        BY <1>2, <3>2, SameJobKept DEF Settled, PendingStart, SameJob
      <4> QED BY <1>2, <3>1, <4>1, <4>2, <4>3 DEF Settled
    <3>6. Beneath(0)' = Beneath(0)
      BY <2>2 DEF Beneath
    <3>7. QuietBeneath(0, u)'
      BY <1>2, <3>2, <3>6 DEF Resting, QuietBeneath
    <3>8. OwnJob(u)'
      BY <1>2, <3>2, SameJobKept
    <3> QED BY <3>4, <3>5, <3>7, <3>8 DEF LoneInv, Phase, Resting
  <2>3. CASE /\ units[u].loaded /\ PendingStop(u) /\ RemoveJob(unit_job[u], FALSE) /\ UNCHANGED units
             /\ Call(<<Completed(u, FALSE), UnitCall("set_exited", u)>>)
    <3>1. unit_job[u] # 0 /\ units[u].active = "deactivating"
      BY <1>2, <2>3 DEF PendingStop, Settled
    <3>2. unit_job'[u] = 0 /\ OwnJob(u)' /\ OtherIds(u) \subseteq OtherIds(u)'
      BY <1>2, <2>3, <3>1, RemoveOwn
    <3>3. OwnUnit(u)'
      BY <1>1, <1>2, <2>3 DEF outside, OwnUnit, Unreaped
    <3>4. \A f \in Beneath(1) : Quiet(f, u, OtherIds(u)')
      BY <1>2, <3>2, RestKept
    <3> DEFINE f == Completed(u, FALSE)
               g == UnitCall("set_exited", u)
    <3>5. f.op = "completed" /\ f.unit = u /\ f.ids = {}
      BY <1>2, QuietEnds
    <3>6. g.op = "set_exited" /\ g.unit = u
      BY DEF UnitCall, Frm
    <3>7. Call(<<f, g>>)
      BY <2>3
    <3> HIDE DEF f, g
    <3>8. Work(g, u)'
      BY <2>3, <3>1, <3>2, <3>6 DEF Work
    <3>9. Phase(u)'
      BY <1>1, <3>4, <3>5, <3>6, <3>7, <3>8, ReleasedNext
    <3> QED BY <3>2, <3>3, <3>9 DEF LoneInv
  <2>4. CASE /\ units[u].loaded /\ ~StartRefused(u) /\ ~PendingStop(u) /\ UNCHANGED <<engineVars, units>>
             /\ Call(<<UnitCall("enqueue_start", u), Process>>)
    <3>1. unit_job[u] = 0 /\ units[u].active # "active"
      BY <2>4, IndexedOwn DEF StartRefused, unit_active
    <3>2. Down(u) /\ Childless(u)
      <4>1. units[u].active # "deactivating" /\ ~PendingStart(u)
        BY <1>2, <3>1 DEF Settled, PendingStop, PendingStart
      <4>2. Staged(u) => units[u].active # "activating"
        BY <1>2, <4>1 DEF Settled
      <4>3. units[u].active \in ActiveState
        BY DEF TypeOK, UnitRec
      <4> QED BY <1>2, <2>4, <3>1, <4>1, <4>2, <4>3 DEF Down, Childless, OwnUnit, ActiveState
    <3>3. SameJob(u) /\ NoWaiter(u)' /\ OtherIds(u)' = OtherIds(u)
      BY <1>2, <2>4, SameTable DEF engineVars, OtherIds, JobsOf
    <3>4. SameUnit(u)
      BY <1>1, <2>4 DEF outside, SameUnit, Unreaped
    <3>5. OwnJob(u)' /\ OwnUnit(u)'
      BY <1>2, <3>3, <3>4, SameJobKept, SameUnitKept
    <3>6. \A f \in Beneath(1) : Quiet(f, u, OtherIds(u)')
      BY <1>2, <3>3, RestKept
    <3> DEFINE f == UnitCall("enqueue_start", u)
               g == Process
    <3>7. Call(<<f, g>>) /\ Quiet(g, u, OtherIds(u)') /\ f.op = "enqueue_start" /\ f.unit = u
      BY <2>4, QuietFrames DEF UnitCall, Frm
    <3> HIDE DEF f, g
    <3>8. Work(f, u)
      BY <3>1, <3>2, <3>7 DEF Work
    <3>9. Phase(u)'
      BY <1>1, <3>3, <3>4, <3>6, <3>7, <3>8, WorkKept, WorksOn
    <3> QED BY <3>5, <3>9 DEF LoneInv
  <2> QED BY <1>4, <2>1, <2>2, <2>3, <2>4 DEF StartUnit, v
<1> QED BY <1>3, <1>4

\* set_active("active", "exited") of a start that replaced a stop.
LEMMA SetExitedLone ==
  ASSUME TypeOK, IndexInv, NEW u \in Units, LoneInv(u), SetExited
  PROVE  LoneInv(u)'
<1> DEFINE v == Top.unit
<1>1. /\ Calling("set_exited") /\ v \in Units /\ UNCHANGED engineVars /\ UNCHANGED outside
      /\ units' = [units EXCEPT ![v] = Set(@, "active", "exited")] /\ stack' = Return
  BY CallType DEF SetExited, UnitOps
<1>2. \/ Resting(u) /\ Quiet(Top, u, OtherIds(u))
      \/ AtWork(u) /\ Work(Top, u) /\ QuietBeneath(1, u)
  BY <1>1, AtRest DEF LoneInv
<1>3. SameJob(u) /\ NoWaiter(u)' /\ next_job' \in {next_job, next_job + 1}
      /\ OtherIds(u)' = OtherIds(u) /\ OwnJob(u) /\ OwnUnit(u)
  BY <1>1, SameTable DEF LoneInv, engineVars, OtherIds, JobsOf
<1> HIDE DEF v
<1>4. CASE Resting(u) /\ Quiet(Top, u, OtherIds(u))
  <2>1. v # u
    BY <1>1, <1>4 DEF Quiet, Calling, v
  <2>2. SameUnit(u)
    BY <1>1, <2>1 DEF SameUnit, outside, Unreaped, TypeOK
  <2> QED BY <1>1, <1>3, <1>4, <2>2, Elsewhere
<1>5. CASE AtWork(u) /\ Work(Top, u) /\ QuietBeneath(1, u)
  <2>1. v = u /\ unit_job[u] = 0 /\ units[u].loaded /\ units[u].active = "deactivating"
    BY <1>1, <1>5 DEF Work, Calling, v
  <2>2. /\ units'[u].active = "active" /\ units'[u].sub = "exited" /\ units'[u].loaded
        /\ units'[u].control_command = units[u].control_command
        /\ units'[u].group_pid = units[u].group_pid
    BY <1>1, <2>1 DEF Set, TypeOK, UnitRec
  <2>3. OwnUnit(u)'
    BY <1>1, <1>3, <2>2 DEF OwnUnit, outside, Unreaped
  <2>4. unit_job'[u] = 0
    BY <1>3, <2>1 DEF SameJob
  <2>5. Settled(u)'
    BY <2>2, <2>4 DEF Settled, PendingStart, PendingStop
  <2>6. \A f \in Beneath(1) : Quiet(f, u, OtherIds(u)')
    BY <1>3, <1>5, RestKept
  <2> QED BY <1>1, <1>3, <2>3, <2>5, <2>6, RestsAgain, SameJobKept DEF LoneInv
<1> QED BY <1>2, <1>4, <1>5

\* Three calls, one of them written apart.
LEMMA ConcatThree ==
  ASSUME NEW f, NEW g, NEW h
  PROVE  <<f>> \o <<g, h>> = <<f, g, h>>
<1> DEFINE S == {f, g, h}
           a == <<f>>
           b == <<g, h>>
           c == <<f, g, h>>
<1>1. a \in Seq(S) /\ Len(a) = 1 /\ a[1] = f
  OBVIOUS
<1>2. b \in Seq(S) /\ Len(b) = 2 /\ b[1] = g /\ b[2] = h
  OBVIOUS
<1>3. c \in Seq(S) /\ Len(c) = 3 /\ c[1] = f /\ c[2] = g /\ c[3] = h
  OBVIOUS
<1> HIDE DEF S, a, b, c
<1>4. /\ a \o b \in Seq(S) /\ Len(a \o b) = 3
      /\ \A k \in 1 .. 3 : (a \o b)[k] = IF k <= 1 THEN a[k] ELSE b[k - 1]
  <2>1. \A k \in 1 .. (Len(a) + Len(b)) : (a \o b)[k] = IF k <= Len(a) THEN a[k] ELSE b[k - Len(a)]
    BY <1>1, <1>2, ConcatProperties
  <2>2. Len(a) + Len(b) = 3
    BY <1>1, <1>2
  <2> QED BY <1>1, <1>2, <2>1, <2>2, ConcatProperties
<1>5. (a \o b)[1] = f /\ (a \o b)[2] = g /\ (a \o b)[3] = h
  <2>1. 1 \in 1 .. 3 /\ 2 \in 1 .. 3 /\ 3 \in 1 .. 3 /\ 2 - 1 = 1 /\ 3 - 1 = 2
    OBVIOUS
  <2> QED BY <1>1, <1>2, <1>4, <2>1
<1>6. \A k \in 1 .. 3 : (a \o b)[k] = c[k]
  <2>1. \A k \in 1 .. 3 : k = 1 \/ k = 2 \/ k = 3
    OBVIOUS
  <2> QED BY <1>3, <1>5, <2>1
<1>7. a \o b = c
  BY <1>3, <1>4, <1>6, SeqEqual
<1> QED BY <1>7 DEF a, b, c

\* stop, of another unit or of u.
LEMMA StopUnitLone ==
  ASSUME TypeOK, IndexInv, NEW u \in Units, LoneInv(u), StopUnit
  PROVE  LoneInv(u)'
<1> DEFINE v == Top.unit
           jid == unit_job[v]
           irr == Top.irreversible
<1>1. Calling("stop") /\ v \in Units /\ UNCHANGED units /\ UNCHANGED outside
  BY CallType DEF StopUnit, UnitOps
<1>2. Resting(u) /\ Quiet(Top, u, OtherIds(u)) /\ QuietBeneath(1, u) /\ OwnJob(u) /\ OwnUnit(u)
      /\ Settled(u)
  BY <1>1, AtRest DEF LoneInv, Work, Calling, Resting
<1>3. SameUnit(u)
  BY <1>1 DEF outside, SameUnit, Unreaped
<1>4. OwnUnit(u)'
  BY <1>2, <1>3, SameUnitKept
<1>5. CASE stack' = Return /\ UNCHANGED engineVars
  BY <1>1, <1>2, <1>3, <1>5, SameTable, Elsewhere
<1> DEFINE f == Completed(v, FALSE)
           g == EnqueueStop(v, FALSE, irr)
           h == Process
<1>6. CASE /\ unit_operational(v) /\ PendingStop(v)
           /\ UpdateJob(jid, [jobs[jid] EXCEPT !.irreversible = @ \/ irr])
           /\ stack' = Return /\ UNCHANGED <<unit_job, next_job, completed_jobs>>
  <2>1. v # u
    BY <1>2, <1>6 DEF Settled, unit_operational
  <2>2. jid \in DOMAIN jobs /\ jobs[jid].unit = v /\ jobs[jid] \in Job
    BY <1>1, <1>6 DEF IndexInv, JobIndex, PendingStop, TypeOK, JobsTypeOK
  <2> DEFINE job == [jobs[jid] EXCEPT !.irreversible = @ \/ irr]
  <2>3. job.unit = jobs[jid].unit /\ job.waiting = jobs[jid].waiting
    BY <2>2 DEF Job
  <2>4. jid \notin JobsOf(u) /\ \A w \in jobs[jid].waiting : w.unit # u
    BY <1>2, <2>1, <2>2 DEF JobsOf, OwnJob
  <2>5. UpdateJob(jid, job) /\ UNCHANGED <<unit_job, next_job>>
    BY <1>6
  <2> HIDE DEF job, jid
  <2>6. SameJob(u) /\ NoWaiter(u)' /\ next_job' \in {next_job, next_job + 1}
    BY <1>2, <2>2, <2>3, <2>4, <2>5, UpdateOther
  <2> QED BY <1>1, <1>2, <1>3, <1>6, <2>6, Elsewhere
<1>7. CASE /\ unit_operational(v) /\ PendingStart(v) /\ RemoveJob(jid, FALSE)
           /\ Call(<<f>> \o <<g, h>>)
  <2>1. <<f>> \o <<g, h>> = <<f, g, h>>
    BY ConcatThree
  <2>2. Call(<<f, g, h>>)
    BY <1>7, <2>1
  <2>3. CASE v # u
    <3>1. jid \in DOMAIN jobs /\ jobs[jid].unit # u
      BY <1>1, <1>7, <2>3 DEF IndexInv, JobIndex, PendingStart
    <3>2. SameJob(u) /\ NoWaiter(u)' /\ next_job' \in {next_job, next_job + 1}
      BY <1>2, <1>7, <3>1, RemoveOther
    <3>3. Quiet(f, u, OtherIds(u)') /\ Quiet(g, u, OtherIds(u)') /\ Quiet(h, u, OtherIds(u)')
      BY <2>3, QuietFrames
    <3> HIDE DEF f, g, h
    <3>4. OwnJob(u)' /\ Settled(u)'
      BY <1>2, <1>3, <3>2, SameJobKept DEF SameUnit
    <3>5. \A x \in Beneath(1) : Quiet(x, u, OtherIds(u)')
      BY <1>2, <3>2, OthersKept, RestKept DEF SameJob
    <3>6. Beneath(0)' \subseteq Beneath(1) \cup {f, g, h}
      BY <1>1, <2>2, BeneathThree
    <3>7. QuietBeneath(0, u)'
      BY <3>3, <3>5, <3>6 DEF QuietBeneath
    <3> QED BY <1>4, <3>4, <3>7 DEF LoneInv, Phase, Resting
  <2>4. CASE v = u
    <3>1. unit_job[u] # 0
      BY <1>7, <2>4 DEF PendingStart
    <3>2. unit_job'[u] = 0 /\ OwnJob(u)' /\ OtherIds(u) \subseteq OtherIds(u)'
      BY <1>2, <1>7, <2>4, <3>1, RemoveOwn
    <3>3. \A x \in Beneath(1) : Quiet(x, u, OtherIds(u)')
      BY <1>2, <3>2, RestKept
    <3>4. f.op = "completed" /\ f.unit = u /\ f.ids = {}
      BY <1>2, <2>4, QuietEnds
    <3>5. g.op = "enqueue_stop" /\ g.unit = u
      BY <2>4 DEF EnqueueStop, Frm
    <3>6. Quiet(h, u, OtherIds(u)')
      BY QuietFrames
    <3> HIDE DEF f, g, h
    <3>9. PICK e : e = g
      OBVIOUS
    <3>7. Work(e, u)'
      <4>1. units[u].active \in {"active", "activating"} /\ units[u].loaded
        BY <1>2, <1>7, <2>4 DEF OwnUnit, unit_operational
      <4> QED BY <1>1, <3>2, <3>5, <3>9, <4>1 DEF Work, unit_operational
    <3>8. Phase(u)'
      BY <1>1, <2>2, <3>3, <3>4, <3>5, <3>6, <3>7, <3>9, ReleasedNext
    <3> QED BY <1>4, <3>2, <3>8 DEF LoneInv
  <2> QED BY <2>3, <2>4
<1>8. CASE unit_operational(v) /\ unit_job[v] = 0 /\ Call(<<g, h>>) /\ UNCHANGED engineVars
  <2>1. SameJob(u) /\ NoWaiter(u)' /\ next_job' \in {next_job, next_job + 1} /\ OtherIds(u)' = OtherIds(u)
    BY <1>2, <1>8, SameTable DEF engineVars, OtherIds, JobsOf
  <2>2. CASE v # u
    <3>1. Quiet(g, u, OtherIds(u)') /\ Quiet(h, u, OtherIds(u)')
      BY <2>2, QuietFrames
    <3> HIDE DEF f, g, h
    <3> QED BY <1>1, <1>2, <1>3, <1>8, <2>1, <3>1, Elsewhere
  <2>3. CASE v = u
    <3>1. g.op = "enqueue_stop" /\ g.unit = u /\ Quiet(h, u, OtherIds(u)')
      BY <2>3, QuietFrames DEF EnqueueStop, Frm
    <3> HIDE DEF f, g, h
    <3>2. Work(g, u)
      BY <1>2, <1>8, <2>3, <3>1 DEF Work, OwnUnit, unit_operational
    <3>3. \A x \in Beneath(1) : Quiet(x, u, OtherIds(u)')
      BY <1>2, <2>1, RestKept
    <3>4. Phase(u)'
      BY <1>1, <1>3, <1>8, <2>1, <3>1, <3>2, <3>3, WorkKept, WorksOn
    <3> QED BY <1>2, <1>4, <2>1, <3>4, SameJobKept DEF LoneInv
  <2> QED BY <2>2, <2>3
<1> QED BY <1>5, <1>6, <1>7, <1>8 DEF StopUnit

\* The loops of shutdown and isolate ask for u's stop and leave the rest to it.
LEMMA StopAllLone ==
  ASSUME TypeOK, IndexInv, NEW u \in Units, LoneInv(u), StopAll
  PROVE  LoneInv(u)'
<1>1. Calling("stop_all") /\ UNCHANGED engineVars /\ UNCHANGED unitVars
  BY DEF StopAll
<1>2. Resting(u)
  BY <1>1, AtRest DEF LoneInv, Work, Calling
<1>3. SameJob(u) /\ NoWaiter(u)' /\ next_job' \in {next_job, next_job + 1} /\ SameUnit(u)
  BY <1>1, SameTable DEF LoneInv, unitVars, SameUnit, Unreaped
<1>4. CASE stack' = Return
  BY <1>1, <1>2, <1>3, <1>4, Elsewhere
<1>5. ASSUME NEW v \in Top.todo,
             Call(<<Stop(v, FALSE), Loop("stop_all", NoUnit, 0, Top.todo \ {v}, {})>>)
      PROVE  LoneInv(u)'
  <2> DEFINE f == Stop(v, FALSE)
             g == Loop("stop_all", NoUnit, 0, Top.todo \ {v}, {})
  <2>1. Quiet(f, u, OtherIds(u)') /\ Quiet(g, u, OtherIds(u)')
    BY QuietFrames
  <2>2. Call(<<f, g>>)
    BY <1>5
  <2> HIDE DEF f, g
  <2> QED BY <1>1, <1>2, <1>3, <2>1, <2>2, Elsewhere
<1> QED BY <1>4, <1>5 DEF StopAll

\* fire_on_failure does not start u: no unit names it in OnFailure=.
LEMMA FireOnFailureLone ==
  ASSUME TypeOK, IndexInv, NEW u \in Units, LoneInv(u), FireOnFailure
  PROVE  LoneInv(u)'
<1>1. Calling("on_failure") /\ UNCHANGED engineVars /\ UNCHANGED unitVars
  BY DEF FireOnFailure
<1>2. Resting(u) /\ Quiet(Top, u, OtherIds(u))
  BY <1>1, AtRest DEF LoneInv, Work, Calling
<1>3. SameJob(u) /\ NoWaiter(u)' /\ next_job' \in {next_job, next_job + 1} /\ SameUnit(u)
  BY <1>1, SameTable DEF LoneInv, unitVars, SameUnit, Unreaped
<1>4. Top.unit = u => Top.todo = {}
  BY <1>1, <1>2 DEF Quiet, Calling
<1>5. u \notin Top.todo
  BY <1>1, <1>2 DEF Quiet, Calling
<1>6. CASE Call(<<Process>>)
  <2> DEFINE f == Process
  <2>1. Quiet(f, u, OtherIds(u)') /\ Call(<<f>>)
    BY <1>6, QuietFrames
  <2> HIDE DEF f
  <2> QED BY <1>1, <1>2, <1>3, <2>1, Elsewhere
<1>7. ASSUME NEW t \in Top.todo,
             Call(<<UnitCall("start", t), Loop("on_failure", Top.unit, 0, Top.todo \ {t}, {})>>)
      PROVE  LoneInv(u)'
  <2> DEFINE f == UnitCall("start", t)
             g == Loop("on_failure", Top.unit, 0, Top.todo \ {t}, {})
  <2>1. t # u /\ Top.unit # u /\ u \notin Top.todo \ {t}
    BY <1>4, <1>5
  <2>2. Quiet(f, u, OtherIds(u)') /\ Quiet(g, u, OtherIds(u)')
    BY <2>1, QuietFrames DEF JobFrames
  <2>3. Call(<<f, g>>)
    BY <1>7
  <2> HIDE DEF f, g
  <2> QED BY <1>1, <1>2, <1>3, <2>2, <2>3, Elsewhere
<1> QED BY <1>6, <1>7 DEF FireOnFailure

\* enqueue_start: a new Start job, which fails, is done or is to be expanded.
LEMMA EnqueueStartLone ==
  ASSUME TypeOK, IndexInv, NEW u \in Units, Unrelated(u), LoneInv(u), EnqueueStart
  PROVE  LoneInv(u)'
<1> DEFINE v == Top.unit
           requisite == {r \in Closure(Requisite, v) : ~unit_active(r)}
           waits == {[unit |-> r, required |-> TRUE] : r \in requisite}
<1>1. Calling("enqueue_start") /\ v \in Units /\ UNCHANGED outside
  BY CallType DEF EnqueueStart, UnitOps
<1>2. \/ Resting(u) /\ Quiet(Top, u, OtherIds(u))
      \/ AtWork(u) /\ Work(Top, u) /\ QuietBeneath(1, u)
  BY <1>1, AtRest DEF LoneInv
<1>3. OwnJob(u) /\ OwnUnit(u)
  BY DEF LoneInv
<1>4. PICK id : id = next_job + 1
  OBVIOUS
<1>5. \E failed, expanding : NewJob(v, "Start", FALSE, FALSE, failed, expanding)
  BY DEF EnqueueStart, v
<1>6. \/ Call(<<Finish(id, FALSE)>>) /\ UNCHANGED units
      \/ Call(<<Finish(id, TRUE)>>) /\ UNCHANGED units
      \/ MarkFailed(v) /\ Call(<<Finish(id, FALSE), Loop("on_failure", v, 0, OnFailure[v], {})>>)
      \/ /\ Call(<<Loop("conflicts", v, id, Closure(Conflicts, v), waits)>>) /\ UNCHANGED units
         /\ NewJob(v, "Start", FALSE, FALSE, FALSE, TRUE)
  BY <1>4 DEF EnqueueStart, v
<1>7. CASE Resting(u) /\ Quiet(Top, u, OtherIds(u))
  <2>1. v # u
    BY <1>1, <1>7 DEF Quiet, Calling
  <2>2. SameJob(u) /\ NoWaiter(u)' /\ next_job' \in {next_job, next_job + 1} /\ id \in OtherIds(u)'
    BY <1>1, <1>3, <1>4, <1>5, <2>1, NewOther
  <2>3. units'[u] = units[u] => SameUnit(u)
    BY <1>1 DEF SameUnit, outside, Unreaped
  <2>4. u \notin OnFailure[v] /\ u \notin Closure(Conflicts, v) /\ \A w \in waits : w.unit # u
    BY <1>1, <2>1, UnrelatedUnit
  <2> HIDE DEF waits, requisite, v
  <2>5. /\ Quiet(Finish(id, FALSE), u, OtherIds(u)') /\ Quiet(Finish(id, TRUE), u, OtherIds(u)')
        /\ Quiet(Loop("on_failure", v, 0, OnFailure[v], {}), u, OtherIds(u)')
    BY <2>1, <2>2, <2>4, QuietFrames
  <2>6. \A todo : u \notin todo => Quiet(Loop("conflicts", v, id, todo, waits), u, OtherIds(u)')
    BY <2>1, <2>2, <2>4, QuietFrames
  <2>7. ASSUME NEW f, Call(<<f>>), UNCHANGED units, Quiet(f, u, OtherIds(u)')
        PROVE  LoneInv(u)'
    BY <1>1, <1>7, <2>2, <2>3, <2>7, Elsewhere
  <2>8. CASE MarkFailed(v) /\ Call(<<Finish(id, FALSE), Loop("on_failure", v, 0, OnFailure[v], {})>>)
    <3> DEFINE f == Finish(id, FALSE)
               g == Loop("on_failure", v, 0, OnFailure[v], {})
    <3>1. Call(<<f, g>>) /\ Quiet(f, u, OtherIds(u)') /\ Quiet(g, u, OtherIds(u)')
      BY <2>5, <2>8
    <3>2. units'[u] = units[u]
      BY <2>1, <2>8 DEF MarkFailed, TypeOK
    <3> HIDE DEF f, g
    <3> QED BY <1>1, <1>7, <2>2, <2>3, <3>1, <3>2, Elsewhere
  <2> QED BY <1>6, <2>4, <2>5, <2>6, <2>7, <2>8
<1>8. CASE AtWork(u) /\ Work(Top, u) /\ QuietBeneath(1, u)
  <2>1. v = u /\ unit_job[u] = 0 /\ Down(u) /\ Childless(u)
    BY <1>1, <1>8 DEF Work, Calling
  <2>2. /\ unit_job'[u] = id /\ id # 0 /\ OwnJob(u)' /\ OtherIds(u) \subseteq OtherIds(u)'
        /\ jobs'[id].kind = "Start" /\ ~jobs'[id].started
    BY <1>3, <1>4, <1>5, <2>1, NewOwn
  <2>3. \A x \in Beneath(1) : Quiet(x, u, OtherIds(u)')
    BY <1>8, <2>2, RestKept
  <2>4. ~PendingStop(u)'
    BY <2>2 DEF PendingStop
  <2>5. UNCHANGED units => OwnUnit(u)' /\ Down(u)' /\ Childless(u)'
    BY <1>1, <1>3, <2>1 DEF OwnUnit, outside, Unreaped, Down, Childless
  <2>6. requisite = {} /\ Closure(Conflicts, u) = {} /\ OnFailure[u] = {} /\ waits = {}
    BY <2>1, UnrelatedUnit
  <2>7. ASSUME NEW f, f.op = "finish", f.id = id, units'[u].active # "deactivating",
               Staged(u) => units'[u].active # "activating",
               \/ Call(<<f>>)
               \/ \E g : Call(<<f, g>>) /\ Quiet(g, u, OtherIds(u)')
        PROVE  Phase(u)'
    <3>1. Work(f, u)'
      BY <2>2, <2>4, <2>7 DEF Work
    <3> QED BY <1>1, <2>3, <2>7, <3>1, WorksOn
  <2>8. ASSUME NEW ok, Call(<<Finish(id, ok)>>), UNCHANGED units
        PROVE  LoneInv(u)'
    <3> DEFINE f == Finish(id, ok)
    <3>1. f.op = "finish" /\ f.id = id /\ Call(<<f>>)
      BY <2>8 DEF Finish, Frm
    <3> HIDE DEF f
    <3>2. units'[u].active # "deactivating" /\ (Staged(u) => units'[u].active # "activating")
      BY <2>1, <2>8 DEF Down
    <3> QED BY <2>2, <2>5, <2>7, <2>8, <3>1, <3>2 DEF LoneInv
  <2>9. CASE MarkFailed(v) /\ Call(<<Finish(id, FALSE), Loop("on_failure", v, 0, OnFailure[v], {})>>)
    <3> DEFINE f == Finish(id, FALSE)
               g == Loop("on_failure", u, 0, {}, {})
    <3>1. f.op = "finish" /\ f.id = id /\ Call(<<f, g>>) /\ Quiet(g, u, OtherIds(u)')
      BY <2>1, <2>6, <2>9, QuietFrames DEF Finish, Frm
    <3> HIDE DEF f, g
    <3>2. /\ units'[u].active = "failed" /\ units'[u].sub = "failed" /\ units'[u].loaded
          /\ units'[u].control_command = units[u].control_command
      BY <2>1, <2>9 DEF MarkFailed, Set, TypeOK, UnitRec, Down
    <3>3. OwnUnit(u)'
      BY <1>1, <1>3, <2>1, <3>2 DEF OwnUnit, outside, Unreaped, Childless
    <3> QED BY <2>2, <2>7, <3>1, <3>2, <3>3 DEF LoneInv
  <2>10. CASE /\ Call(<<Loop("conflicts", v, id, Closure(Conflicts, v), waits)>>) /\ UNCHANGED units
              /\ NewJob(v, "Start", FALSE, FALSE, FALSE, TRUE)
    <3>0. ~jobs'[id].failed
      BY <1>3, <1>4, <2>1, <2>10, NewOwn
    <3> DEFINE f == Loop("conflicts", u, id, {}, {})
    <3>1. /\ f.op = "conflicts" /\ f.unit = u /\ f.id = id /\ f.todo = {} /\ f.waiting = {}
          /\ Call(<<f>>)
      BY <2>1, <2>6, <2>10 DEF Loop, Frm
    <3> HIDE DEF f
    <3>2. Fresh(u, "Start", id)'
      BY <2>2, <3>0 DEF Fresh
    <3>3. Work(f, u)'
      BY <2>5, <2>10, <3>1, <3>2 DEF Work
    <3> QED BY <1>1, <2>2, <2>3, <2>5, <2>10, <3>1, <3>3, WorksOn DEF LoneInv
  <2> QED BY <1>6, <2>8, <2>9, <2>10
<1> QED BY <1>2, <1>7, <1>8

\* The expansion stops no unit for u's sake, nor u for another's.
LEMMA ExpandConflictsLone ==
  ASSUME TypeOK, IndexInv, NEW u \in Units, Unrelated(u), LoneInv(u), ExpandConflicts
  PROVE  LoneInv(u)'
<1>1. Calling("conflicts") /\ UNCHANGED engineVars /\ UNCHANGED unitVars /\ Top.unit \in Units
  BY CallType DEF ExpandConflicts, UnitOps
<1>2. \/ Resting(u) /\ Quiet(Top, u, OtherIds(u))
      \/ AtWork(u) /\ Work(Top, u) /\ QuietBeneath(1, u)
  BY <1>1, AtRest DEF LoneInv
<1>3. /\ SameJob(u) /\ NoWaiter(u)' /\ next_job' \in {next_job, next_job + 1} /\ SameUnit(u)
      /\ OtherIds(u)' = OtherIds(u)
  BY <1>1, SameTable DEF LoneInv, unitVars, SameUnit, Unreaped, engineVars, OtherIds, JobsOf
<1>4. OwnJob(u)' /\ OwnUnit(u)'
  BY <1>3, SameJobKept, SameUnitKept DEF LoneInv
<1> DEFINE v == Top.unit
           id == Top.id
           needs == Closure(Requires, v) \cup Closure(Wants, v)
<1>5. CASE Resting(u) /\ Quiet(Top, u, OtherIds(u))
  <2>1. v # u /\ id \in OtherIds(u)' /\ u \notin Top.todo /\ \A w \in Top.waiting : w.unit # u
    BY <1>1, <1>3, <1>5 DEF Quiet, Calling, JobFrames
  <2>2. u \notin needs
    BY <1>1, <2>1, UnrelatedUnit
  <2>3. \A op, todo : u \notin todo => Quiet(Loop(op, v, id, todo, Top.waiting), u, OtherIds(u)')
    BY <2>1, QuietFrames
  <2>4. ASSUME NEW f, Call(<<f>>), Quiet(f, u, OtherIds(u)')
        PROVE  LoneInv(u)'
    BY <1>1, <1>3, <1>5, <2>4, Elsewhere
  <2>5. CASE Call(<<Loop("open", v, id, needs, Top.waiting)>>)
    BY <2>2, <2>3, <2>4, <2>5
  <2>6. ASSUME NEW c \in Top.todo,
               Call(IF unit_operational(c) /\ ~PendingStop(c)
                    THEN <<EnqueueStop(c, FALSE, FALSE), Loop("conflicts", v, id, Top.todo \ {c}, Top.waiting)>>
                    ELSE <<Loop("conflicts", v, id, Top.todo \ {c}, Top.waiting)>>)
        PROVE  LoneInv(u)'
    <3> DEFINE f == EnqueueStop(c, FALSE, FALSE)
               g == Loop("conflicts", v, id, Top.todo \ {c}, Top.waiting)
    <3>1. Quiet(f, u, OtherIds(u)') /\ Quiet(g, u, OtherIds(u)') /\ (Call(<<f, g>>) \/ Call(<<g>>))
      BY <2>1, <2>3, <2>6, QuietFrames
    <3> HIDE DEF f, g
    <3> QED BY <1>1, <1>3, <1>5, <3>1, Elsewhere
  <2> QED BY <2>5, <2>6 DEF ExpandConflicts
<1>6. CASE AtWork(u) /\ Work(Top, u) /\ QuietBeneath(1, u)
  <2>1. /\ v = u /\ Top.todo = {} /\ Top.waiting = {}
        /\ Fresh(u, "Start", id) /\ Down(u) /\ Childless(u)
    BY <1>1, <1>6 DEF Work, Calling
  <2>2. needs = {}
    BY <2>1, UnrelatedUnit
  <2>3. \A x \in Beneath(1) : Quiet(x, u, OtherIds(u)')
    BY <1>3, <1>6, RestKept
  <2>4. PICK f : f = Loop("open", u, id, {}, {})
    OBVIOUS
  <2>5. /\ f.op = "open" /\ f.unit = u /\ f.id = id /\ f.todo = {} /\ f.waiting = {}
        /\ Call(<<f>>)
    BY <2>1, <2>2, <2>4 DEF Loop, Frm, ExpandConflicts
  <2>6. Work(f, u)
    BY <2>1, <2>5 DEF Work
  <2> QED BY <1>1, <1>3, <1>4, <2>3, <2>5, <2>6, WorkKept, WorksOn DEF LoneInv
<1> QED BY <1>2, <1>5, <1>6

\* ... pulls in nothing for u, and u for no other unit.
LEMMA ExpandOpenLone ==
  ASSUME TypeOK, IndexInv, NEW u \in Units, Unrelated(u), LoneInv(u), ExpandOpen
  PROVE  LoneInv(u)'
<1>1. /\ Calling("open") /\ UNCHANGED unitVars /\ Top.unit \in Units
      /\ UNCHANGED <<unit_job, next_job, completed_jobs>>
  BY CallType DEF ExpandOpen, UnitOps, engineVars
<1>2. \/ Resting(u) /\ Quiet(Top, u, OtherIds(u))
      \/ AtWork(u) /\ Work(Top, u) /\ QuietBeneath(1, u)
  BY <1>1, AtRest DEF LoneInv
<1>3. SameUnit(u) /\ OwnJob(u) /\ OwnUnit(u)
  BY <1>1 DEF LoneInv, unitVars, SameUnit, Unreaped
<1> DEFINE v == Top.unit
           id == Top.id
<1>5. CASE Resting(u) /\ Quiet(Top, u, OtherIds(u))
  <2>1. v # u /\ id \in OtherIds(u) /\ u \notin Top.todo /\ \A w \in Top.waiting : w.unit # u
    BY <1>1, <1>5 DEF Quiet, Calling, JobFrames
  <2>2. UNCHANGED engineVars => SameJob(u) /\ NoWaiter(u)'
    BY <1>3, SameTable
  <2>3. ASSUME jobs' = [i \in DOMAIN jobs |-> IF i = id THEN [jobs[i] EXCEPT !.failed = TRUE] ELSE jobs[i]]
        PROVE  SameJob(u) /\ NoWaiter(u)'
    <3>1. id \notin JobsOf(u)
      BY <2>1 DEF OtherIds
    <3>2. \A i \in DOMAIN jobs : jobs[i] \in Job
      BY DEF TypeOK, JobsTypeOK
    <3>3. DOMAIN jobs' = DOMAIN jobs
      BY <2>3
    <3>4. \A i \in DOMAIN jobs : /\ jobs'[i].unit = jobs[i].unit /\ jobs'[i].waiting = jobs[i].waiting
                                 /\ i # id => jobs'[i] = jobs[i]
      BY <2>3, <3>2 DEF Job
    <3>5. JobsOf(u)' = JobsOf(u)
      BY <3>3, <3>4 DEF JobsOf
    <3> QED BY <1>1, <1>3, <3>1, <3>3, <3>4, <3>5 DEF SameJob, NoWaiter, OwnJob, JobsOf
  <2>4. SameJob(u) => OtherIds(u)' = OtherIds(u)
    BY <1>1 DEF SameJob, OtherIds
  <2>5. ASSUME NEW f, NEW g, SameJob(u), NoWaiter(u)', Call(<<f>>) \/ Call(<<f, g>>),
               Quiet(f, u, OtherIds(u)), Quiet(g, u, OtherIds(u))
        PROVE  LoneInv(u)'
    <3> DEFINE K == OtherIds(u)'
    <3>1. Quiet(f, u, K) /\ Quiet(g, u, K)
      BY <2>4, <2>5
    <3> QED BY <1>1, <1>3, <1>5, <2>5, <3>1, Elsewhere
  <2>6. \A op, todo, waiting : u \notin todo /\ (\A w \in waiting : w.unit # u)
                                 => Quiet(Loop(op, v, id, todo, waiting), u, OtherIds(u))
    BY <2>1, QuietFrames
  <2>7. CASE Call(<<Loop("commit", v, id, {}, Top.waiting)>>) /\ UNCHANGED engineVars
    <3>1. Quiet(Loop("commit", v, id, {}, Top.waiting), u, OtherIds(u))
      BY <2>1, <2>6
    <3> QED BY <2>2, <2>5, <2>7, <3>1
  <2>8. ASSUME NEW d \in Top.todo, NEW required,
               \/ /\ Call(<<Loop("open", v, id, Top.todo \ {d}, Top.waiting)>>)
                  /\ UNCHANGED engineVars
               \/ /\ jobs' = [i \in DOMAIN jobs |-> IF i = id THEN [jobs[i] EXCEPT !.failed = TRUE] ELSE jobs[i]]
                  /\ Call(<<JobCall("maybe_start", id)>>)
               \/ /\ \/ Call(<<Loop("open", v, id, Top.todo \ {d},
                                    Top.waiting \cup {[unit |-> d, required |-> required]})>>)
                     \/ Call(<<UnitCall("enqueue_start", d),
                               Loop("open", v, id, Top.todo \ {d},
                                    Top.waiting \cup {[unit |-> d, required |-> required]})>>)
                  /\ UNCHANGED engineVars
        PROVE  LoneInv(u)'
    <3> DEFINE waiting == Top.waiting \cup {[unit |-> d, required |-> required]}
               rest == Top.todo \ {d}
    <3>1. d # u /\ u \notin rest /\ \A w \in waiting : w.unit # u
      BY <2>1, <2>8
    <3>2. /\ Quiet(Loop("open", v, id, rest, Top.waiting), u, OtherIds(u))
          /\ Quiet(Loop("open", v, id, rest, waiting), u, OtherIds(u))
          /\ Quiet(JobCall("maybe_start", id), u, OtherIds(u))
          /\ Quiet(UnitCall("enqueue_start", d), u, OtherIds(u))
      <4>1. Quiet(JobCall("maybe_start", id), u, OtherIds(u)) /\ Quiet(UnitCall("enqueue_start", d), u, OtherIds(u))
        BY <2>1, <3>1, QuietFrames DEF JobFrames
      <4> HIDE DEF waiting, rest
      <4> QED BY <2>1, <2>6, <3>1, <4>1
    <3> QED BY <2>2, <2>3, <2>5, <2>8, <3>2
  <2>9. CASE \E d \in FirstNeeds(Top.todo, v) :
          LET required == d \in Closure(Requires, v)
              skip == Loop("open", v, id, Top.todo \ {d}, Top.waiting)
              wait == Loop("open", v, id, Top.todo \ {d},
                           Top.waiting \cup {[unit |-> d, required |-> required]}) IN
          \/ Call(<<skip>>) /\ UNCHANGED engineVars
          \/ /\ jobs' = [i \in DOMAIN jobs |-> IF i = id THEN [jobs[i] EXCEPT !.failed = TRUE] ELSE jobs[i]]
             /\ Call(<<JobCall("maybe_start", id)>>)
          \/ /\ Call(<<wait>>) \/ Call(<<UnitCall("enqueue_start", d), wait>>)
             /\ UNCHANGED engineVars
    <3>1. FirstNeeds(Top.todo, v) \subseteq Top.todo
      BY DEF FirstNeeds
    <3> QED BY <2>8, <2>9, <3>1
  <2> QED BY <2>7, <2>9 DEF ExpandOpen
<1>6. CASE AtWork(u) /\ Work(Top, u) /\ QuietBeneath(1, u)
  <2>1. /\ v = u /\ Top.todo = {} /\ Top.waiting = {}
        /\ Fresh(u, "Start", id) /\ Down(u) /\ Childless(u)
    BY <1>1, <1>6 DEF Work, Calling
  <2>4. PICK f : f = Loop("commit", u, id, {}, {})
    OBVIOUS
  <2>5. /\ f.op = "commit" /\ f.unit = u /\ f.id = id /\ f.todo = {} /\ f.waiting = {}
        /\ Call(<<f>>) /\ UNCHANGED engineVars
    BY <2>1, <2>4 DEF Loop, Frm, ExpandOpen, FirstNeeds
  <2>6. SameJob(u) /\ NoWaiter(u)' /\ OtherIds(u)' = OtherIds(u)
    BY <1>3, <2>5, SameTable DEF engineVars, OtherIds, JobsOf
  <2>7. OwnJob(u)' /\ OwnUnit(u)'
    BY <1>3, <2>6, SameJobKept, SameUnitKept
  <2>8. \A x \in Beneath(1) : Quiet(x, u, OtherIds(u)')
    BY <1>6, <2>6, RestKept
  <2>9. Work(f, u)
    BY <2>1, <2>5 DEF Work
  <2> QED BY <1>1, <1>3, <2>5, <2>6, <2>7, <2>8, <2>9, WorkKept, WorksOn DEF LoneInv
<1> QED BY <1>2, <1>5, <1>6

\* The end of an expansion: u is ordered against no unit, and waits for none.
LEMMA ExpandCommitLone ==
  ASSUME TypeOK, IndexInv, NEW u \in Units, Unrelated(u), LoneInv(u), ExpandCommit
  PROVE  LoneInv(u)'
<1> DEFINE v == Top.unit
           id == Top.id
           waiting == Top.waiting \cup
                        {[unit |-> a, required |-> FALSE] : a \in Ordered(v, Top.waiting)}
           sync_failed == \E w \in waiting : /\ w.required
                                             /\ unit_job[w.unit] = 0
                                             /\ ~unit_active(w.unit)
           left == {w \in waiting : unit_job[w.unit] # 0}
           job == [jobs[id] EXCEPT !.failed = @ \/ sync_failed, !.waiting = left, !.expanding = FALSE]
<1>1. /\ Calling("commit") /\ UNCHANGED unitVars /\ v \in Units
      /\ UNCHANGED <<unit_job, next_job, completed_jobs>> /\ Call(<<JobCall("maybe_start", id)>>)
  BY CallType DEF ExpandCommit, UnitOps
<1>2. IF id \in DOMAIN jobs THEN UpdateJob(id, job) ELSE UNCHANGED jobs
  BY DEF ExpandCommit
<1>3. \/ Resting(u) /\ Quiet(Top, u, OtherIds(u))
      \/ AtWork(u) /\ Work(Top, u) /\ QuietBeneath(1, u)
  BY <1>1, AtRest DEF LoneInv
<1>4. SameUnit(u) /\ OwnJob(u) /\ OwnUnit(u)
  BY <1>1 DEF LoneInv, unitVars, SameUnit, Unreaped
<1>5. CASE Resting(u) /\ Quiet(Top, u, OtherIds(u))
  <2>1. v # u /\ id \in OtherIds(u) /\ \A w \in Top.waiting : w.unit # u
    BY <1>1, <1>5 DEF Quiet, Calling, JobFrames
  <2>2. \A w \in left : w.unit # u
    BY <1>1, <2>1, UnrelatedUnit
  <2>3. id \notin JobsOf(u)
    BY <2>1 DEF OtherIds
  <2>4. id \in DOMAIN jobs => job.unit = jobs[id].unit /\ job.waiting = left
    BY DEF TypeOK, JobsTypeOK, Job
  <2> HIDE DEF job, left, id
  <2>5. SameJob(u) /\ NoWaiter(u)' /\ next_job' \in {next_job, next_job + 1}
    <3>1. CASE id \in DOMAIN jobs
      BY <1>1, <1>2, <1>4, <2>2, <2>3, <2>4, <3>1, UpdateOther
    <3>2. CASE id \notin DOMAIN jobs
      BY <1>1, <1>2, <1>4, <3>2, SameTable DEF engineVars
    <3> QED BY <3>1, <3>2
  <2>6. id \in OtherIds(u)'
    BY <2>1, <2>5, OthersKept DEF SameJob
  <2>7. Quiet(JobCall("maybe_start", id), u, OtherIds(u)')
    BY <2>6, QuietFrames
  <2> DEFINE f == JobCall("maybe_start", id)
  <2>8. Call(<<f>>) /\ Quiet(f, u, OtherIds(u)')
    BY <1>1, <2>7 DEF id
  <2> HIDE DEF f
  <2> QED BY <1>1, <1>4, <1>5, <2>5, <2>8, Elsewhere
<1>6. CASE AtWork(u) /\ Work(Top, u) /\ QuietBeneath(1, u)
  <2>1. v = u /\ Top.waiting = {} /\ Fresh(u, "Start", id) /\ Down(u) /\ Childless(u)
    BY <1>1, <1>6 DEF Work, Calling
  <2>2. waiting = {}
    BY <2>1, UnrelatedUnit
  <2>3. left = {} /\ ~sync_failed
    BY <2>2
  <2>4. id = unit_job[u] /\ id # 0 /\ id \in DOMAIN jobs /\ jobs[id] \in Job /\ jobs[id].unit = u
    BY <2>1, IndexedOwn DEF Fresh, JobsOf
  <2>5. /\ job.unit = u /\ job.waiting = {} /\ job.kind = "Start" /\ ~job.started /\ ~job.failed
    <3> HIDE DEF left, sync_failed
    <3> QED BY <2>1, <2>3, <2>4 DEF Job, Fresh
  <2> HIDE DEF job, left
  <2>6. UpdateJob(unit_job[u], job)
    BY <1>2, <2>4
  <2>7. /\ unit_job'[u] = id /\ jobs'[id] = job /\ OwnJob(u)' /\ OtherIds(u) \subseteq OtherIds(u)'
    BY <1>1, <1>4, <2>4, <2>5, <2>6, UpdateOwn
  <2>8. PICK f : f = JobCall("maybe_start", id)
    OBVIOUS
  <2>9. f.op = "maybe_start" /\ f.id = id /\ Call(<<f>>)
    BY <1>1, <2>8 DEF JobCall, Frm
  <2>10. PICK i : i = id
    OBVIOUS
  <2>11. Fresh(u, "Start", i)'
    BY <2>4, <2>5, <2>7, <2>10 DEF Fresh
  <2>12. Down(u)' /\ Childless(u)'
    BY <1>4, <2>1 DEF SameUnit, Down, Childless
  <2>13. Work(f, u)'
    BY <2>9, <2>10, <2>11, <2>12 DEF Work
  <2>14. \A x \in Beneath(1) : Quiet(x, u, OtherIds(u)')
    BY <1>6, <2>7, RestKept
  <2>15. OwnUnit(u)'
    BY <1>4, SameUnitKept
  <2> QED BY <1>1, <2>7, <2>9, <2>13, <2>14, <2>15, WorksOn DEF LoneInv
<1> QED BY <1>3, <1>5, <1>6

\* The job table, the units and the stack as they are.
LEMMA LoneUnchanged ==
  ASSUME NEW u, LoneInv(u), UNCHANGED <<engineVars, units, armed, procs, stack>>
  PROVE  LoneInv(u)'
<1>1. OwnJob(u)'
  BY DEF LoneInv, OwnJob, JobsOf, engineVars
<1>2. OwnUnit(u)'
  BY DEF LoneInv, OwnUnit, Unreaped
<1>3. OtherIds(u)' = OtherIds(u) /\ Beneath(0)' = Beneath(0) /\ Beneath(1)' = Beneath(1)
      /\ Beneath(2)' = Beneath(2)
  BY DEF OtherIds, JobsOf, engineVars, Beneath
<1>4. QuietBeneath(0, u)' = QuietBeneath(0, u) /\ QuietBeneath(1, u)' = QuietBeneath(1, u)
      /\ QuietBeneath(2, u)' = QuietBeneath(2, u)
  BY <1>3 DEF QuietBeneath
<1>5. \A f : Work(f, u) => Work(f, u)'
  BY DEF Work, engineVars, Fresh, Down, Childless, Unreaped, PendingStop, PendingStart, Underway,
         unit_operational, Upcoming
<1>6. Settled(u) => Settled(u)'
  BY DEF Settled, engineVars, PendingStop, PendingStart
<1>7. Phase(u)'
  <2>1. CASE Resting(u)
    BY <1>4, <1>6, <2>1 DEF Phase, Resting
  <2>2. CASE AtWork(u)
    <3>1. PICK f : f = Top
      OBVIOUS
    <3>2. Work(f, u)' /\ f = Top'
      BY <1>5, <2>2, <3>1 DEF AtWork, Top
    <3>3. Work(Top, u)'
      BY <3>2
    <3> QED BY <1>4, <2>2, <3>3 DEF Phase, AtWork
  <2>3. CASE Released(u)
    <3>1. PICK f : f = stack[2]
      OBVIOUS
    <3>2. Work(f, u)' /\ f = stack'[2]
      BY <1>5, <2>3, <3>1 DEF Released
    <3>3. Work(stack[2], u)'
      BY <3>2
    <3> QED BY <1>4, <2>3, <3>3 DEF Phase, Released
  <2> QED BY <2>1, <2>2, <2>3 DEF LoneInv, Phase
<1> QED BY <1>1, <1>2, <1>7 DEF LoneInv

\* maybe_start_job of u's job starts it, or fails it over the start limit.
LEMMA MaybeStartLone ==
  ASSUME TypeOK, IndexInv, NEW u \in Units, LoneInv(u), MaybeStartJob
  PROVE  LoneInv(u)'
<1> DEFINE id == Top.id
           v == jobs[id].unit
<1>1. Calling("maybe_start")
  BY DEF MaybeStartJob
<1>2. \/ Resting(u) /\ Quiet(Top, u, OtherIds(u))
      \/ AtWork(u) /\ Work(Top, u) /\ QuietBeneath(1, u)
  BY <1>1, AtRest DEF LoneInv
<1>3. OwnJob(u) /\ OwnUnit(u)
  BY DEF LoneInv
<1>4. CASE Panic
  <2>1. UNCHANGED <<engineVars, units, armed, procs, stack>>
    BY <1>4 DEF Panic, engineVars
  <2> QED BY <2>1, LoneUnchanged
<1>5. CASE Resting(u) /\ Quiet(Top, u, OtherIds(u)) /\ id \in DOMAIN jobs
  <2>1. id \in OtherIds(u) /\ id \notin JobsOf(u) /\ v # u /\ v \in Units /\ jobs[id] \in Job
    BY <1>1, <1>5, OtherJob DEF Quiet, Calling, JobFrames, OtherIds, TypeOK, JobsTypeOK, Job
  <2> HIDE DEF id, v
  <2>2. UNCHANGED engineVars => SameJob(u) /\ NoWaiter(u)' /\ next_job' \in {next_job, next_job + 1}
    BY <1>3, SameTable
  <2>3. UNCHANGED outside /\ units'[u] = units[u] => SameUnit(u)
    BY DEF outside, SameUnit, Unreaped
  <2>4. SameJob(u) /\ next_job' \in {next_job, next_job + 1} => id \in OtherIds(u)'
    BY <2>1, OthersKept DEF SameJob
  <2>5. CASE Call(<<Finish(id, FALSE)>>) /\ UNCHANGED <<engineVars, units, outside>>
    <3> DEFINE f == Finish(id, FALSE)
    <3>1. Call(<<f>>) /\ Quiet(f, u, OtherIds(u)')
      BY <2>2, <2>4, <2>5, QuietFrames
    <3> HIDE DEF f
    <3> QED BY <1>1, <1>5, <2>2, <2>3, <2>5, <3>1, Elsewhere
  <2>6. CASE stack' = Return /\ UNCHANGED <<engineVars, units, outside>>
    BY <1>1, <1>5, <2>2, <2>3, <2>6, Elsewhere
  <2>7. ASSUME NEW count, NEW hit,
               units' = [units EXCEPT ![v].start_window = count],
               UpdateJob(id, [jobs[id] EXCEPT !.started = TRUE, !.failed = hit]),
               Call(<<IF hit THEN Finish(id, FALSE) ELSE UnitCall("do_start", v)>>),
               UNCHANGED <<unit_job, next_job, completed_jobs, outside>>
        PROVE  LoneInv(u)'
    <3> DEFINE job == [jobs[id] EXCEPT !.started = TRUE, !.failed = hit]
    <3>1. job.unit = jobs[id].unit /\ job.waiting = jobs[id].waiting
      BY <2>1 DEF Job
    <3>2. UpdateJob(id, job)
      BY <2>7
    <3> HIDE DEF job
    <3>3. SameJob(u) /\ NoWaiter(u)' /\ next_job' \in {next_job, next_job + 1}
      BY <1>3, <2>1, <2>7, <3>1, <3>2, UpdateOther DEF OwnJob
    <3>4. SameUnit(u)
      BY <2>1, <2>3, <2>7 DEF TypeOK
    <3>5. Quiet(Finish(id, FALSE), u, OtherIds(u)') /\ Quiet(UnitCall("do_start", v), u, OtherIds(u)')
      BY <2>1, <2>4, <3>3, QuietFrames DEF JobFrames
    <3> DEFINE f == Finish(id, FALSE)
               g == UnitCall("do_start", v)
    <3>6. Call(<<f>>) \/ Call(<<g>>)
      BY <2>7
    <3> HIDE DEF f, g
    <3> QED BY <1>1, <1>5, <3>3, <3>4, <3>5, <3>6, Elsewhere DEF f, g
  <2> QED BY <1>4, <1>5, <2>5, <2>6, <2>7 DEF MaybeStartJob, id, v
<1>6. CASE AtWork(u) /\ Work(Top, u) /\ QuietBeneath(1, u)
  <2>1. Fresh(u, "Start", id) /\ Down(u) /\ Childless(u)
    BY <1>1, <1>6 DEF Work, Calling
  <2>2. /\ id = unit_job[u] /\ id # 0 /\ id \in DOMAIN jobs /\ jobs[id] \in Job /\ v = u
        /\ jobs[id].waiting = {} /\ ~jobs[id].started /\ ~jobs[id].failed /\ units[u].loaded
        /\ jobs[id].kind = "Start"
    BY <1>3, <2>1, IndexedOwn DEF Fresh, JobsOf, Down, OwnJob
  <2>3. PICK count, hit :
          /\ units' = [units EXCEPT ![u].start_window = count]
          /\ UpdateJob(id, [jobs[id] EXCEPT !.started = TRUE, !.failed = hit])
          /\ Call(<<IF hit THEN Finish(id, FALSE) ELSE UnitCall("do_start", u)>>)
          /\ UNCHANGED <<unit_job, next_job, completed_jobs, outside>>
    <3>1. \E recent \in RecentStarts(units[u]) :
            LET hit == recent >= StartLimit IN
            /\ units' = [units EXCEPT ![u].start_window = IF hit THEN recent ELSE recent + 1]
            /\ UpdateJob(id, [jobs[id] EXCEPT !.started = TRUE, !.failed = hit])
            /\ Call(<<IF hit THEN Finish(id, FALSE) ELSE UnitCall("do_start", u)>>)
            /\ UNCHANGED <<unit_job, next_job, completed_jobs, outside>>
      <4> HIDE DEF id
      <4> QED BY <2>2 DEF MaybeStartJob, id
    <3> HIDE DEF id, v
    <3>2. PICK recent \in RecentStarts(units[u]) :
            LET hit == recent >= StartLimit IN
            /\ units' = [units EXCEPT ![u].start_window = IF hit THEN recent ELSE recent + 1]
            /\ UpdateJob(id, [jobs[id] EXCEPT !.started = TRUE, !.failed = hit])
            /\ Call(<<IF hit THEN Finish(id, FALSE) ELSE UnitCall("do_start", u)>>)
            /\ UNCHANGED <<unit_job, next_job, completed_jobs, outside>>
      BY <3>1
    <3>3. CASE recent >= StartLimit
      <4>1. /\ units' = [units EXCEPT ![u].start_window = recent]
            /\ UpdateJob(id, [jobs[id] EXCEPT !.started = TRUE, !.failed = TRUE])
            /\ Call(<<Finish(id, FALSE)>>)
            /\ UNCHANGED <<unit_job, next_job, completed_jobs, outside>>
        BY <3>2, <3>3 DEF UpdateJob
      <4> QED BY <4>1
    <3>4. CASE ~(recent >= StartLimit)
      <4>0. (recent >= StartLimit) = FALSE
        BY <3>4
      <4>1. /\ units' = [units EXCEPT ![u].start_window = recent + 1]
            /\ UpdateJob(id, [jobs[id] EXCEPT !.started = TRUE, !.failed = FALSE])
            /\ Call(<<UnitCall("do_start", u)>>)
            /\ UNCHANGED <<unit_job, next_job, completed_jobs, outside>>
        BY <3>2, <3>4, <4>0, Zenon DEF UpdateJob
      <4> QED BY <4>1
    <3> QED BY <3>3, <3>4
  <2> DEFINE job == [jobs[id] EXCEPT !.started = TRUE, !.failed = hit]
  <2>4. job.unit = u /\ job.waiting = {} /\ job.kind = "Start" /\ job.started /\ job.failed = hit
    BY <2>2 DEF Job
  <2>5. UpdateJob(unit_job[u], job)
    BY <2>2, <2>3
  <2> HIDE DEF job, id
  <2>6. /\ unit_job'[u] = id /\ jobs'[id] = job /\ OwnJob(u)' /\ OtherIds(u) \subseteq OtherIds(u)'
    BY <1>3, <2>2, <2>3, <2>4, <2>5, UpdateOwn
  <2>7. /\ units'[u].active = units[u].active /\ units'[u].sub = units[u].sub
        /\ units'[u].loaded = units[u].loaded /\ units'[u].group_pid = units[u].group_pid
        /\ units'[u].control_pid = units[u].control_pid
        /\ units'[u].control_command = units[u].control_command
    BY <2>3 DEF TypeOK, UnitRec
  <2>8. OwnUnit(u)' /\ Down(u)' /\ Childless(u)'
    BY <1>3, <2>1, <2>3, <2>7 DEF OwnUnit, outside, Unreaped, Down, Childless
  <2>9. ~PendingStop(u)' /\ (PendingStart(u)' => jobs'[unit_job'[u]] = job)
    BY <2>4, <2>6 DEF PendingStop, PendingStart
  <2>10. \A x \in Beneath(1) : Quiet(x, u, OtherIds(u)')
    BY <1>6, <2>6, RestKept
  <2>11. CASE hit
    <3>1. PICK f : f = Finish(id, FALSE)
      OBVIOUS
    <3>2. f.op = "finish" /\ f.id = id /\ Call(<<f>>)
      BY <2>3, <2>11, <3>1 DEF Finish, Frm
    <3>3. Work(f, u)'
      BY <2>1, <2>2, <2>6, <2>7, <2>9, <3>2 DEF Work, Down
    <3> QED BY <1>1, <2>6, <2>8, <2>10, <3>2, <3>3, WorksOn DEF LoneInv
  <2>12. CASE ~hit
    <3>1. PICK f : f = UnitCall("do_start", u)
      OBVIOUS
    <3>2. f.op = "do_start" /\ f.unit = u /\ Call(<<f>>)
      BY <2>3, <2>12, <3>1 DEF UnitCall, Frm
    <3>3. Underway(u)'
      BY <2>4, <2>9, <2>12 DEF Underway
    <3>4. PendingStart(u)'
      BY <2>2, <2>4, <2>6 DEF PendingStart
    <3>5. Work(f, u)'
      BY <2>8, <2>9, <3>2, <3>3, <3>4 DEF Work
    <3> QED BY <1>1, <2>6, <2>8, <2>10, <3>2, <3>5, WorksOn DEF LoneInv
  <2> QED BY <2>11, <2>12
<1>7. id \notin DOMAIN jobs => Panic
  BY DEF MaybeStartJob
<1> QED BY <1>2, <1>4, <1>5, <1>6, <1>7

\* enqueue_stop_job: a new Stop job.
LEMMA EnqueueStopLone ==
  ASSUME TypeOK, IndexInv, NEW u \in Units, Unrelated(u), LoneInv(u), EnqueueStopJob
  PROVE  LoneInv(u)'
<1> DEFINE v == Top.unit
<1>1. Calling("enqueue_stop") /\ v \in Units /\ UNCHANGED units /\ UNCHANGED outside
  BY CallType DEF EnqueueStopJob, UnitOps
<1>2. \/ Resting(u) /\ Quiet(Top, u, OtherIds(u))
      \/ AtWork(u) /\ Work(Top, u) /\ QuietBeneath(1, u)
  BY <1>1, AtRest DEF LoneInv
<1>3. OwnJob(u) /\ OwnUnit(u) /\ SameUnit(u)
  BY <1>1 DEF LoneInv, outside, SameUnit, Unreaped
<1>4. PICK id : id = next_job + 1
  OBVIOUS
<1>5. /\ NewJob(v, "Stop", Top.irreversible, Top.ok, FALSE, FALSE)
      /\ Call(<<Loop("stop_deps", v, id, Dependents(v), {})>>)
  BY <1>4 DEF EnqueueStopJob
<1>6. CASE Resting(u) /\ Quiet(Top, u, OtherIds(u))
  <2>1. v # u
    BY <1>1, <1>6 DEF Quiet, Calling
  <2>2. SameJob(u) /\ NoWaiter(u)' /\ next_job' \in {next_job, next_job + 1} /\ id \in OtherIds(u)'
    BY <1>1, <1>3, <1>4, <1>5, <2>1, NewOther
  <2>3. u \notin Dependents(v)
    BY <1>1, UnrelatedUnit
  <2> DEFINE f == Loop("stop_deps", v, id, Dependents(v), {})
  <2>4. Quiet(f, u, OtherIds(u)') /\ Call(<<f>>)
    <3> HIDE DEF v
    <3> QED BY <1>5, <2>1, <2>2, <2>3, QuietFrames
  <2> HIDE DEF f
  <2> QED BY <1>1, <1>3, <1>6, <2>2, <2>4, Elsewhere
<1>7. CASE AtWork(u) /\ Work(Top, u) /\ QuietBeneath(1, u)
  <2>1. v = u /\ unit_job[u] = 0 /\ unit_operational(u) /\ units[u].loaded
    BY <1>1, <1>7 DEF Work, Calling
  <2>2. /\ unit_job'[u] = id /\ id # 0 /\ OwnJob(u)' /\ OtherIds(u) \subseteq OtherIds(u)'
        /\ jobs'[id].kind = "Stop" /\ ~jobs'[id].started /\ ~jobs'[id].failed
    BY <1>3, <1>4, <1>5, <2>1, NewOwn
  <2>3. \A x \in Beneath(1) : Quiet(x, u, OtherIds(u)')
    BY <1>7, <2>2, RestKept
  <2>4. Dependents(u) = {}
    BY UnrelatedUnit
  <2>5. PICK f : f = Loop("stop_deps", u, id, {}, {})
    OBVIOUS
  <2>6. f.op = "stop_deps" /\ f.unit = u /\ f.id = id /\ f.todo = {} /\ Call(<<f>>)
    BY <1>5, <2>1, <2>4, <2>5 DEF Loop, Frm
  <2>7. Fresh(u, "Stop", id)'
    BY <2>2 DEF Fresh
  <2>8. unit_operational(u)' /\ units'[u].loaded
    BY <1>1, <2>1 DEF unit_operational
  <2>9. Work(f, u)'
    BY <2>6, <2>7, <2>8 DEF Work
  <2>10. OwnUnit(u)'
    BY <1>3, SameUnitKept
  <2> QED BY <1>1, <2>2, <2>3, <2>6, <2>9, <2>10, WorksOn DEF LoneInv
<1> QED BY <1>2, <1>6, <1>7

\* Nothing that requires u is stopped with it, nor u with another.
LEMMA StopDependentsLone ==
  ASSUME TypeOK, IndexInv, NEW u \in Units, LoneInv(u), StopDependents
  PROVE  LoneInv(u)'
<1>1. Calling("stop_deps") /\ UNCHANGED engineVars /\ UNCHANGED unitVars
  BY DEF StopDependents
<1>2. \/ Resting(u) /\ Quiet(Top, u, OtherIds(u))
      \/ AtWork(u) /\ Work(Top, u) /\ QuietBeneath(1, u)
  BY <1>1, AtRest DEF LoneInv
<1>3. /\ SameJob(u) /\ NoWaiter(u)' /\ next_job' \in {next_job, next_job + 1} /\ SameUnit(u)
      /\ OtherIds(u)' = OtherIds(u)
  BY <1>1, SameTable DEF LoneInv, unitVars, SameUnit, Unreaped, engineVars, OtherIds, JobsOf
<1>4. OwnJob(u)' /\ OwnUnit(u)'
  BY <1>3, SameJobKept, SameUnitKept DEF LoneInv
<1> DEFINE v == Top.unit
           id == Top.id
<1>5. CASE Resting(u) /\ Quiet(Top, u, OtherIds(u))
  <2>1. v # u /\ id \in OtherIds(u)' /\ u \notin Top.todo
    BY <1>1, <1>3, <1>5 DEF Quiet, Calling, JobFrames
  <2>2. \A todo : u \notin todo => Quiet(Loop("stop_deps", v, id, todo, {}), u, OtherIds(u)')
    BY <2>1, QuietFrames
  <2>3. CASE Call(<<JobCall("maybe_stop", id)>>)
    <3> DEFINE f == JobCall("maybe_stop", id)
    <3>1. Quiet(f, u, OtherIds(u)') /\ Call(<<f>>)
      BY <2>1, <2>3, QuietFrames
    <3> HIDE DEF f
    <3> QED BY <1>1, <1>3, <1>5, <3>1, Elsewhere
  <2>4. ASSUME NEW d \in Top.todo,
               Call(IF unit_operational(d) /\ unit_job[d] = 0
                    THEN <<EnqueueStop(d, FALSE, FALSE), Loop("stop_deps", v, id, Top.todo \ {d}, {})>>
                    ELSE <<Loop("stop_deps", v, id, Top.todo \ {d}, {})>>)
        PROVE  LoneInv(u)'
    <3> DEFINE f == EnqueueStop(d, FALSE, FALSE)
               g == Loop("stop_deps", v, id, Top.todo \ {d}, {})
    <3>1. Quiet(f, u, OtherIds(u)') /\ Quiet(g, u, OtherIds(u)') /\ (Call(<<f, g>>) \/ Call(<<g>>))
      BY <2>1, <2>2, <2>4, QuietFrames
    <3> HIDE DEF f, g
    <3> QED BY <1>1, <1>3, <1>5, <3>1, Elsewhere
  <2> QED BY <2>3, <2>4 DEF StopDependents
<1>6. CASE AtWork(u) /\ Work(Top, u) /\ QuietBeneath(1, u)
  <2>1. /\ Top.todo = {} /\ Fresh(u, "Stop", id) /\ unit_operational(u) /\ units[u].loaded
    BY <1>1, <1>6 DEF Work, Calling
  <2>2. \A x \in Beneath(1) : Quiet(x, u, OtherIds(u)')
    BY <1>3, <1>6, RestKept
  <2>3. PICK f : f = JobCall("maybe_stop", id)
    OBVIOUS
  <2>4. f.op = "maybe_stop" /\ f.id = id /\ Call(<<f>>)
    BY <2>1, <2>3 DEF JobCall, Frm, StopDependents
  <2>5. Work(f, u)
    BY <2>1, <2>4 DEF Work
  <2> QED BY <1>1, <1>3, <1>4, <2>2, <2>4, <2>5, WorkKept, WorksOn DEF LoneInv
<1> QED BY <1>2, <1>5, <1>6

\* The loops over a unit's waiters go on quietly.
LEMMA QuietRest ==
  ASSUME NEW u, NEW ids, NEW f, NEW left, Quiet(f, u, ids), f.unit # u,
         f.op \notin JobFrames, f \in Frame
  PROVE  Quiet([f EXCEPT !.ids = left], u, ids)
<1> DEFINE g == [f EXCEPT !.ids = left]
<1>1. g.unit = f.unit /\ g.op = f.op /\ g.todo = f.todo /\ g.waiting = f.waiting
  BY DEF Frame
<1> HIDE DEF g
<1>2. Quiet(g, u, ids)
  BY <1>1 DEF Quiet
<1> QED BY <1>2 DEF g

\* One waiter of another unit's end: it waits for that unit, and is not u's.
LEMMA WaiterLone ==
  ASSUME TypeOK, IndexInv, NEW u \in Units, OwnJob(u), NEW v, NEW id \in Waiters(v),
         UNCHANGED <<unit_job, next_job>>,
         \/ UpdateJob(id, [jobs[id] EXCEPT !.failed = TRUE])
         \/ DropWait(id, v)
  PROVE  /\ SameJob(u) /\ NoWaiter(u)' /\ next_job' \in {next_job, next_job + 1}
         /\ id \in OtherIds(u)'
<1>1. id \in DOMAIN jobs /\ id \notin JobsOf(u) /\ jobs[id] \in Job /\ jobs[id].unit # u
  BY DEF Waiters, OwnJob, TypeOK, JobsTypeOK, JobsOf
<1>2. \A w \in jobs[id].waiting : w.unit # u
  BY <1>1 DEF OwnJob
<1>3. ASSUME NEW job, UpdateJob(id, job), job.unit = jobs[id].unit, job.waiting \subseteq jobs[id].waiting
      PROVE  SameJob(u) /\ NoWaiter(u)' /\ next_job' \in {next_job, next_job + 1}
  BY <1>1, <1>2, <1>3, UpdateOther
<1>4. SameJob(u) /\ NoWaiter(u)' /\ next_job' \in {next_job, next_job + 1}
  <2>1. CASE UpdateJob(id, [jobs[id] EXCEPT !.failed = TRUE])
    <3> DEFINE job == [jobs[id] EXCEPT !.failed = TRUE]
    <3>1. job.unit = jobs[id].unit /\ job.waiting = jobs[id].waiting /\ UpdateJob(id, job)
      BY <1>1, <2>1 DEF Job
    <3> HIDE DEF job
    <3> QED BY <1>3, <3>1
  <2>2. CASE DropWait(id, v)
    <3> DEFINE left == {w \in jobs[id].waiting : w.unit # v}
               job == [jobs[id] EXCEPT !.waiting = left]
    <3>1. job.unit = jobs[id].unit /\ job.waiting = left /\ UpdateJob(id, job)
      BY <1>1, <2>2 DEF Job, DropWait
    <3>2. left \subseteq jobs[id].waiting
      OBVIOUS
    <3> HIDE DEF job, left
    <3> QED BY <1>3, <3>1, <3>2
  <2> QED BY <2>1, <2>2
<1>5. id \in OtherIds(u)'
  BY <1>1, <1>4, OtherJob, OthersKept DEF SameJob
<1> QED BY <1>4, <1>5

\* on_job_completed: nothing waits for u, and u's job waits for nothing.
LEMMA OnJobCompletedLone ==
  ASSUME TypeOK, IndexInv, NEW u \in Units, LoneInv(u), OnJobCompleted
  PROVE  LoneInv(u)'
<1>1. /\ Calling("completed") /\ UNCHANGED unitVars /\ Top \in Frame
      /\ UNCHANGED <<unit_job, next_job, completed_jobs>>
  BY CallType DEF OnJobCompleted, Calling
<1>2. \/ Resting(u) /\ Quiet(Top, u, OtherIds(u))
      \/ Released(u) /\ Top.unit = u /\ Top.ids = {}
  BY <1>1, AtRest DEF LoneInv, Work, Calling
<1>3. SameUnit(u) /\ OwnJob(u) /\ OwnUnit(u)
  BY <1>1 DEF LoneInv, unitVars, SameUnit, Unreaped
<1>4. UNCHANGED jobs => SameJob(u) /\ NoWaiter(u)' /\ next_job' \in {next_job, next_job + 1}
  BY <1>1, <1>3, SameTable DEF engineVars
<1>5. CASE stack' = Return /\ UNCHANGED jobs
  <2>1. CASE Resting(u)
    BY <1>1, <1>3, <1>4, <1>5, <2>1, Elsewhere
  <2>2. CASE Released(u)
    <3>1. PICK f : f = stack[2]
      OBVIOUS
    <3>2. Work(f, u)'
      BY <1>3, <1>4, <1>5, <2>2, <3>1, WorkKept DEF Released
    <3>3. /\ Len(stack') = Len(stack) - 1 /\ DOMAIN stack' = 1 .. Len(stack') /\ Len(stack) \in Nat
          /\ DOMAIN stack = 1 .. Len(stack)
          /\ \A k \in 1 .. Len(stack') : stack'[k] = stack[k + 1]
      <4>1. stack \in Seq(Frame) /\ stack # <<>>
        BY <1>1 DEF TypeOK, Calling
      <4> QED BY <1>5, <4>1 DEF Return
    <3>4. stack' # <<>> /\ Top' = f /\ Beneath(1)' \subseteq Beneath(2)
      <4>1. Len(stack) >= 2 /\ 1 \in 1 .. Len(stack') /\ 1 + 1 = 2
        BY <2>2, <3>3 DEF Released
      <4>2. stack' # <<>> /\ Top' = f
        BY <3>1, <3>3, <4>1 DEF Top
      <4>3. ASSUME NEW k \in DOMAIN stack', k > 1
            PROVE  stack'[k] \in Beneath(2)
        <5>1. k + 1 \in DOMAIN stack /\ k + 1 > 2 /\ stack'[k] = stack[k + 1]
          BY <3>3, <4>3
        <5> QED BY <5>1 DEF Beneath
      <4> QED BY <4>2, <4>3 DEF Beneath
    <3>5. OtherIds(u)' = OtherIds(u)
      BY <1>1, <1>5 DEF OtherIds, JobsOf
    <3>6. QuietBeneath(1, u)'
      BY <2>2, <3>4, <3>5 DEF Released, QuietBeneath
    <3>7. Work(Top, u)'
      BY <3>2, <3>4
    <3>8. OwnJob(u)' /\ OwnUnit(u)'
      BY <1>3, <1>4, <1>5, SameJobKept, SameUnitKept
    <3> QED BY <3>4, <3>6, <3>7, <3>8 DEF LoneInv, Phase, AtWork
  <2> QED BY <1>2, <2>1, <2>2
<1>6. ASSUME NEW id \in Top.ids,
             \/ /\ Call(<<[Top EXCEPT !.ids = @ \ {id}]>>)
                /\ UNCHANGED jobs
             \/ /\ id \in Waiters(Top.unit)
                /\ UpdateJob(id, [jobs[id] EXCEPT !.failed = TRUE])
                /\ Call(<<[Top EXCEPT !.ids = @ \ {id}]>>)
             \/ /\ id \in Waiters(Top.unit)
                /\ DropWait(id, Top.unit)
                /\ Call(<<JobCall("advance", id), [Top EXCEPT !.ids = @ \ {id}]>>)
      PROVE  LoneInv(u)'
  <2> DEFINE left == Top.ids \ {id}
             rest == [Top EXCEPT !.ids = left]
             f == JobCall("advance", id)
  <2>1. Resting(u) /\ Quiet(Top, u, OtherIds(u)) /\ Top.unit # u
    BY <1>1, <1>2, <1>6 DEF Quiet, Calling
  <2>2. Quiet(rest, u, OtherIds(u))
    <3> HIDE DEF left
    <3> QED BY <1>1, <2>1, QuietRest DEF JobFrames, Calling
  <2>3. \/ Call(<<rest>>) /\ UNCHANGED jobs
        \/ /\ id \in Waiters(Top.unit)
           /\ UpdateJob(id, [jobs[id] EXCEPT !.failed = TRUE]) \/ DropWait(id, Top.unit)
           /\ Call(<<rest>>) \/ Call(<<f, rest>>)
    BY <1>6
  <2>4. SameJob(u) /\ NoWaiter(u)' /\ next_job' \in {next_job, next_job + 1}
        /\ (UNCHANGED jobs \/ id \in OtherIds(u)')
    BY <1>1, <1>3, <1>4, <2>3, WaiterLone
  <2>5. PICK g : g = rest
    OBVIOUS
  <2> HIDE DEF rest
  <2>6. OtherIds(u)' = OtherIds(u)
    BY <1>1, <2>4 DEF SameJob, OtherIds
  <2>7. Quiet(g, u, OtherIds(u)')
    BY <2>2, <2>5, <2>6
  <2>8. Call(<<g>>) \/ (Call(<<f, g>>) /\ Quiet(f, u, OtherIds(u)'))
    <3>1. id \in OtherIds(u)' => Quiet(f, u, OtherIds(u)')
      BY QuietFrames
    <3> HIDE DEF f
    <3>2. CASE Call(<<rest>>)
      BY <2>5, <3>2
    <3>3. CASE id \in Waiters(Top.unit) /\ Call(<<f, rest>>)
      <4>1. id \in OtherIds(u)
        <5>1. id \in DOMAIN jobs /\ jobs[id].unit # u
          BY <1>3, <3>3 DEF Waiters, OwnJob, JobsOf
        <5> QED BY <5>1, OtherJob
      <4> QED BY <2>5, <2>6, <3>1, <3>3, <4>1
    <3> QED BY <2>3, <3>2, <3>3
  <2> HIDE DEF f
  <2> QED BY <1>1, <1>3, <2>1, <2>4, <2>7, <2>8, Elsewhere
<1> QED BY <1>5, <1>6 DEF OnJobCompleted

\* poke_failed, likewise.
LEMMA PokeFailedLone ==
  ASSUME TypeOK, IndexInv, NEW u \in Units, LoneInv(u), PokeFailed
  PROVE  LoneInv(u)'
<1>1. /\ Calling("poke") /\ UNCHANGED unitVars /\ Top \in Frame
      /\ UNCHANGED <<unit_job, next_job, completed_jobs>>
  BY CallType DEF PokeFailed, Calling
<1>2. Resting(u) /\ Quiet(Top, u, OtherIds(u))
  BY <1>1, AtRest DEF LoneInv, Work, Calling
<1>3. SameUnit(u) /\ OwnJob(u)
  BY <1>1 DEF LoneInv, unitVars, SameUnit, Unreaped
<1>4. UNCHANGED jobs => SameJob(u) /\ NoWaiter(u)' /\ next_job' \in {next_job, next_job + 1}
  BY <1>1, <1>3, SameTable DEF engineVars
<1>5. CASE stack' = Return /\ UNCHANGED jobs
  BY <1>1, <1>2, <1>3, <1>4, <1>5, Elsewhere
<1>6. ASSUME NEW id \in Top.ids,
             \/ /\ Call(<<[Top EXCEPT !.ids = @ \ {id}]>>)
                /\ UNCHANGED jobs
             \/ /\ id \in Waiters(Top.unit)
                /\ UpdateJob(id, [jobs[id] EXCEPT !.failed = TRUE])
                /\ Call(<<Finish(id, FALSE), [Top EXCEPT !.ids = @ \ {id}]>>)
             \/ /\ id \in Waiters(Top.unit)
                /\ DropWait(id, Top.unit)
                /\ Call(<<JobCall("advance", id), [Top EXCEPT !.ids = @ \ {id}]>>)
      PROVE  LoneInv(u)'
  <2> DEFINE left == Top.ids \ {id}
             rest == [Top EXCEPT !.ids = left]
             f == JobCall("advance", id)
             h == Finish(id, FALSE)
  <2>1. Top.unit # u
    BY <1>1, <1>2, <1>6 DEF Quiet, Calling
  <2>2. Quiet(rest, u, OtherIds(u))
    <3> HIDE DEF left
    <3> QED BY <1>1, <1>2, <2>1, QuietRest DEF JobFrames, Calling
  <2>3. \/ Call(<<rest>>) /\ UNCHANGED jobs
        \/ /\ id \in Waiters(Top.unit)
           /\ UpdateJob(id, [jobs[id] EXCEPT !.failed = TRUE]) \/ DropWait(id, Top.unit)
           /\ Call(<<h, rest>>) \/ Call(<<f, rest>>)
    BY <1>6
  <2>4. SameJob(u) /\ NoWaiter(u)' /\ next_job' \in {next_job, next_job + 1}
    BY <1>1, <1>3, <1>4, <2>3, WaiterLone
  <2>5. PICK g : g = rest
    OBVIOUS
  <2> HIDE DEF rest
  <2>6. OtherIds(u)' = OtherIds(u)
    BY <1>1, <2>4 DEF SameJob, OtherIds
  <2>7. Quiet(g, u, OtherIds(u)')
    BY <2>2, <2>5, <2>6
  <2>8. \/ Call(<<g>>)
        \/ Call(<<f, g>>) /\ Quiet(f, u, OtherIds(u)')
        \/ Call(<<h, g>>) /\ Quiet(h, u, OtherIds(u)')
    <3>1. id \in OtherIds(u)' => Quiet(f, u, OtherIds(u)') /\ Quiet(h, u, OtherIds(u)')
      BY QuietFrames
    <3> HIDE DEF f, h
    <3>2. CASE Call(<<rest>>)
      BY <2>5, <3>2
    <3>3. CASE id \in Waiters(Top.unit) /\ (Call(<<f, rest>>) \/ Call(<<h, rest>>))
      <4>1. id \in OtherIds(u)
        <5>1. id \in DOMAIN jobs /\ jobs[id].unit # u
          BY <1>3, <3>3 DEF Waiters, OwnJob, JobsOf
        <5> QED BY <5>1, OtherJob
      <4> QED BY <2>5, <2>6, <3>1, <3>3, <4>1
    <3> QED BY <2>3, <3>2, <3>3
  <2> HIDE DEF f, h
  <2> QED BY <1>1, <1>2, <1>3, <2>4, <2>7, <2>8, Elsewhere
<1> QED BY <1>5, <1>6 DEF PokeFailed

\* One or two calls, written in two parts.
LEMMA ConcatTwo ==
  ASSUME NEW f, NEW g
  PROVE  <<f>> \o <<>> = <<f>> /\ <<f>> \o <<g>> = <<f, g>>
<1> DEFINE S == {f, g}
           a == <<f>>
           b == <<g>>
           c == <<f, g>>
<1>1. a \in Seq(S) /\ Len(a) = 1 /\ a[1] = f
  OBVIOUS
<1>2. b \in Seq(S) /\ Len(b) = 1 /\ b[1] = g
  OBVIOUS
<1>3. c \in Seq(S) /\ Len(c) = 2 /\ c[1] = f /\ c[2] = g
  OBVIOUS
<1> HIDE DEF S, a, b, c
<1>4. a \o <<>> = a
  BY <1>1, ConcatEmptySeq
<1>5. /\ a \o b \in Seq(S) /\ Len(a \o b) = 2
      /\ \A k \in 1 .. 2 : (a \o b)[k] = IF k <= 1 THEN a[k] ELSE b[k - 1]
  <2>1. \A k \in 1 .. (Len(a) + Len(b)) : (a \o b)[k] = IF k <= Len(a) THEN a[k] ELSE b[k - Len(a)]
    BY <1>1, <1>2, ConcatProperties
  <2>2. Len(a) + Len(b) = 2
    BY <1>1, <1>2
  <2> QED BY <1>1, <1>2, <2>1, <2>2, ConcatProperties
<1>6. \A k \in 1 .. 2 : (a \o b)[k] = c[k]
  <2>1. 1 \in 1 .. 2 /\ 2 \in 1 .. 2 /\ 2 - 1 = 1
    OBVIOUS
  <2>2. \A k \in 1 .. 2 : k = 1 \/ k = 2
    OBVIOUS
  <2> QED BY <1>1, <1>2, <1>3, <1>5, <2>1, <2>2
<1>7. a \o b = c
  BY <1>3, <1>5, <1>6, SeqEqual
<1> QED BY <1>4, <1>7 DEF a, b, c

\* The end of a job, of another unit or of u.
LEMMA FinishJobLone ==
  ASSUME TypeOK, IndexInv, NEW u \in Units, LoneInv(u), FinishJob
  PROVE  LoneInv(u)'
<1> DEFINE id == Top.id
           ok == Top.ok
           v == jobs[id].unit
           again == ok /\ jobs[id].kind = "Stop" /\ jobs[id].start_after_stop
           f == Completed(v, ok)
           g == UnitCall("enqueue_start", v)
<1>1. Calling("finish") /\ UNCHANGED units /\ UNCHANGED outside
  BY DEF FinishJob
<1>2. \/ Resting(u) /\ Quiet(Top, u, OtherIds(u))
      \/ AtWork(u) /\ Work(Top, u) /\ QuietBeneath(1, u)
  BY <1>1, AtRest DEF LoneInv
<1>3. OwnJob(u) /\ OwnUnit(u) /\ SameUnit(u)
  BY <1>1 DEF LoneInv, outside, SameUnit, Unreaped
<1>4. OwnUnit(u)'
  BY <1>3, SameUnitKept
<1>5. \/ id \notin DOMAIN jobs /\ stack' = Return /\ UNCHANGED engineVars
      \/ /\ id \in DOMAIN jobs /\ RemoveJob(id, ok)
         /\ Call(<<f>> \o (IF again THEN <<g>> ELSE <<>>))
  BY DEF FinishJob
<1>6. \/ id \notin DOMAIN jobs /\ stack' = Return /\ UNCHANGED engineVars
      \/ /\ id \in DOMAIN jobs /\ RemoveJob(id, ok)
         /\ \/ ~again /\ Call(<<f>>)
            \/ again /\ Call(<<f, g>>)
  <2> HIDE DEF f, g, again, id, ok
  <2> QED BY <1>5, ConcatTwo
<1>7. CASE Resting(u) /\ Quiet(Top, u, OtherIds(u))
  <2>1. CASE id \notin DOMAIN jobs /\ stack' = Return /\ UNCHANGED engineVars
    BY <1>1, <1>3, <1>7, <2>1, SameTable, Elsewhere
  <2>2. CASE id \in DOMAIN jobs /\ RemoveJob(id, ok) /\ (Call(<<f>>) \/ Call(<<f, g>>))
    <3>1. id \in OtherIds(u) /\ v # u
      BY <1>1, <1>7, <2>2, OtherJob DEF Quiet, Calling, JobFrames
    <3>2. SameJob(u) /\ NoWaiter(u)' /\ next_job' \in {next_job, next_job + 1}
      BY <1>3, <2>2, <3>1, RemoveOther
    <3>3. Quiet(f, u, OtherIds(u)') /\ Quiet(g, u, OtherIds(u)')
      BY <3>1, QuietFrames DEF JobFrames
    <3> HIDE DEF f, g
    <3> QED BY <1>1, <1>3, <1>7, <2>2, <3>2, <3>3, Elsewhere
  <2> QED BY <1>6, <2>1, <2>2
<1>8. CASE AtWork(u) /\ Work(Top, u) /\ QuietBeneath(1, u)
  <2>1. /\ id # 0 /\ id = unit_job[u]
        /\ units[u].active # "deactivating"
        /\ Staged(u) => units[u].active # "activating"
        /\ PendingStop(u) => ok /\ units[u].active \in {"inactive", "failed"} /\ units[u].loaded
    BY <1>1, <1>8 DEF Work, Calling
  <2>2. id \in DOMAIN jobs /\ v = u
    BY <2>1, IndexedOwn DEF JobsOf
  <2>3. RemoveJob(unit_job[u], ok)
    BY <1>6, <2>1, <2>2
  <2>4. /\ unit_job'[u] = 0 /\ OwnJob(u)' /\ OtherIds(u) \subseteq OtherIds(u)'
        /\ ~PendingStart(u)' /\ ~PendingStop(u)'
    BY <1>3, <2>1, <2>3, RemoveOwn
  <2>5. \A x \in Beneath(1) : Quiet(x, u, OtherIds(u)')
    BY <1>8, <2>4, RestKept
  <2>6. /\ Quiet(f, u, OtherIds(u)')
        /\ f.op = "completed" /\ f.unit = u /\ f.ids = {}
    BY <1>3, <2>2, QuietEnds
  <2>7. g.op = "enqueue_start" /\ g.unit = u
    BY <2>2 DEF UnitCall, Frm
  <2>8. CASE ~again /\ Call(<<f>>)
    <3> HIDE DEF f, g, again
    <3>1. Settled(u)'
      BY <1>1, <2>1, <2>4 DEF Settled
    <3> QED BY <1>1, <1>4, <2>4, <2>5, <2>6, <2>8, <3>1, RestsAgain DEF LoneInv
  <2>9. CASE again /\ Call(<<f, g>>)
    <3>1. PendingStop(u)
      BY <2>1, <2>9 DEF PendingStop
    <3>2. Down(u) /\ Childless(u)
      BY <1>3, <2>1, <3>1 DEF Down, Childless, OwnUnit
    <3>3. Down(u)' /\ Childless(u)'
      BY <1>3, <3>2 DEF SameUnit, Down, Childless
    <3>4. PICK x : x = g
      OBVIOUS
    <3> HIDE DEF f, g, again
    <3>5. Work(x, u)'
      BY <2>4, <2>7, <3>3, <3>4 DEF Work
    <3> QED BY <1>1, <1>4, <2>4, <2>5, <2>6, <2>7, <2>9, <3>4, <3>5, ReleasedNext DEF LoneInv
  <2> QED BY <1>6, <2>2, <2>8, <2>9
<1> QED BY <1>2, <1>7, <1>8

-----------------------------------------------------------------------------
(* Starting and stopping the unit.                                         *)

\* complete_start_job, and the call finalize_stop makes: the end of a job or nothing.
LEMMA MaybeFinish ==
  ASSUME TypeOK, NEW op, Calling(op), NEW v, NEW pending \in BOOLEAN,
         Call(IF pending THEN <<Finish(unit_job[v], TRUE)>> ELSE <<>>)
  PROVE  \/ pending /\ Call(<<Finish(unit_job[v], TRUE)>>)
         \/ ~pending /\ stack' = Return
<1>1. CASE pending
  BY <1>1
<1>2. CASE ~pending
  <2>1. Return \in Seq(Frame)
    BY CallType
  <2>2. <<>> \o Return = Return
    BY <2>1, ConcatEmptySeq
  <2> QED BY <1>2, <2>2 DEF Call
<1> QED BY <1>1, <1>2

\* do_start, of another unit or of u.
LEMMA DoStartLone ==
  ASSUME TypeOK, IndexInv, NEW u \in Units, LoneInv(u), DoStart
  PROVE  LoneInv(u)'
<1> DEFINE v == Top.unit
           cmd == IF ExecCount[v]["StartPre"] > 0 THEN "StartPre" ELSE "Start"
           jid == unit_job[v]
           rec == [Set(units[v], "activating", "start-pre") EXCEPT
                     !.main_pid = NoPid, !.group_pid = NoPid, !.control_pid = NoPid,
                     !.control_command = NoCommand, !.cmd_index = 0]
<1>1. Calling("do_start") /\ v \in Units /\ UNCHANGED engineVars /\ UNCHANGED outside
  BY CallType DEF DoStart, UnitOps
<1>2. \/ Resting(u) /\ Quiet(Top, u, OtherIds(u))
      \/ AtWork(u) /\ Work(Top, u) /\ QuietBeneath(1, u)
  BY <1>1, AtRest DEF LoneInv
<1>3. SameJob(u) /\ NoWaiter(u)' /\ next_job' \in {next_job, next_job + 1}
      /\ OtherIds(u)' = OtherIds(u) /\ OwnJob(u) /\ OwnUnit(u)
  BY <1>1, SameTable DEF LoneInv, engineVars, OtherIds, JobsOf
<1>4. OwnJob(u)'
  BY <1>3, SameJobKept
<1>5. \/ ~units[v].loaded /\ stack' = Return /\ UNCHANGED units
      \/ /\ units[v].loaded /\ v \in Targets
         /\ units' = [units EXCEPT ![v] = Set(units[v], "active", "dead")]
         /\ \/ PendingStart(v) /\ Call(<<Finish(jid, TRUE)>>)
            \/ ~PendingStart(v) /\ stack' = Return
      \/ /\ units[v].loaded /\ v \notin Targets
         /\ units' = [units EXCEPT ![v] = rec]
         /\ Call(<<Spawn(v, cmd, 0)>>)
  <2>1. PendingStart(v) \in BOOLEAN
    BY DEF PendingStart
  <2>2. Call(CompleteStart(v)) => \/ PendingStart(v) /\ Call(<<Finish(jid, TRUE)>>)
                                  \/ ~PendingStart(v) /\ stack' = Return
    <3> DEFINE pending == PendingStart(v)
    <3> HIDE DEF pending
    <3> QED BY <1>1, <2>1, MaybeFinish DEF CompleteStart, pending
  <2> QED BY <2>2 DEF DoStart
<1> HIDE DEF v
<1>6. CASE Resting(u) /\ Quiet(Top, u, OtherIds(u))
  <2>1. v # u
    BY <1>1, <1>6 DEF Quiet, Calling, v
  <2>2. SameUnit(u)
    <3>1. units'[u] = units[u]
      BY <1>5, <2>1 DEF TypeOK
    <3> QED BY <1>1, <3>1 DEF SameUnit, outside, Unreaped
  <2>3. Quiet(Finish(jid, TRUE), u, OtherIds(u)') /\ Quiet(Spawn(v, cmd, 0), u, OtherIds(u)')
    BY <1>1, <1>3, <2>1, OtherJob, QuietFrames
  <2> DEFINE f == Finish(jid, TRUE)
             g == Spawn(v, cmd, 0)
  <2>4. stack' = Return \/ Call(<<f>>) \/ Call(<<g>>)
    BY <1>5
  <2> HIDE DEF f, g
  <2> QED BY <1>1, <1>3, <1>6, <2>2, <2>3, <2>4, Elsewhere DEF f, g
<1>7. CASE AtWork(u) /\ Work(Top, u) /\ QuietBeneath(1, u)
  <2>1. /\ v = u /\ ~PendingStop(u) /\ Underway(u) /\ Down(u) /\ Childless(u) /\ units[u].loaded
        /\ Staged(u) => PendingStart(u)
    BY <1>1, <1>7 DEF Work, Calling, v, Down
  <2>2. \A x \in Beneath(1) : Quiet(x, u, OtherIds(u)')
    BY <1>3, <1>7, RestKept
  <2>3. ~PendingStop(u)' /\ Underway(u)' /\ unit_job'[u] = unit_job[u]
        /\ PendingStart(u)' = PendingStart(u)
    <3>1. PendingStart(u)' = PendingStart(u) /\ PendingStop(u)' = PendingStop(u)
      BY <1>3, SameJobKept
    <3>2. PendingStart(u) => jobs'[unit_job'[u]] = jobs[unit_job[u]]
      BY <1>3, SameJobKept DEF SameJob, PendingStart
    <3> QED BY <1>3, <2>1, <3>1, <3>2 DEF SameJob, Underway
  <2>4. CASE /\ u \in Targets
             /\ units' = [units EXCEPT ![u] = Set(units[u], "active", "dead")]
             /\ \/ PendingStart(u) /\ Call(<<Finish(unit_job[u], TRUE)>>)
                \/ ~PendingStart(u) /\ stack' = Return
    <3>1. /\ units'[u].active = "active" /\ units'[u].sub = "dead" /\ units'[u].loaded
          /\ units'[u].control_command = units[u].control_command /\ ~Staged(u)
      BY <2>1, <2>4 DEF Set, TypeOK, UnitRec, Staged, Plain
    <3>2. OwnUnit(u)'
      BY <1>1, <1>3, <3>1 DEF OwnUnit, outside, Unreaped
    <3>3. CASE PendingStart(u) /\ Call(<<Finish(unit_job[u], TRUE)>>)
      <4>1. PICK f : f = Finish(unit_job[u], TRUE)
        OBVIOUS
      <4>2. f.op = "finish" /\ f.id = unit_job[u] /\ f.id # 0 /\ Call(<<f>>)
        BY <3>3, <4>1 DEF Finish, Frm, PendingStart
      <4>3. Work(f, u)'
        BY <2>3, <3>1, <4>2 DEF Work
      <4> QED BY <1>1, <1>4, <2>2, <3>2, <4>2, <4>3, WorksOn DEF LoneInv
    <3>4. CASE ~PendingStart(u) /\ stack' = Return
      <4>1. Settled(u)'
        BY <2>3, <3>1, <3>4 DEF Settled
      <4> QED BY <1>1, <1>4, <2>2, <3>2, <3>4, <4>1, RestsAgain DEF LoneInv
    <3> QED BY <2>4, <3>3, <3>4
  <2>5. CASE u \notin Targets /\ units' = [units EXCEPT ![u] = rec] /\ Call(<<Spawn(u, cmd, 0)>>)
    <3>1. /\ units'[u].active = "activating" /\ units'[u].sub = "start-pre" /\ units'[u].loaded
          /\ units'[u].control_command = "none"
      BY <2>1, <2>5 DEF Set, TypeOK, UnitRec, NoCommand
    <3>2. OwnUnit(u)' /\ Childless(u)'
      BY <1>1, <1>3, <2>1, <3>1 DEF OwnUnit, outside, Unreaped, Childless
    <3>3. PICK f : f = Spawn(u, cmd, 0)
      OBVIOUS
    <3>4. f.op = "spawn" /\ f.unit = u /\ f.id = 0 /\ f.cmd = cmd /\ Call(<<f>>)
      BY <2>5, <3>3 DEF Spawn, Frm
    <3>5. Upcoming(f, u)
      BY <2>1, <3>4 DEF Upcoming
    <3>6. Work(f, u)'
      BY <2>1, <2>3, <2>5, <3>1, <3>2, <3>4, <3>5 DEF Work, Upcoming, StartStates
    <3> QED BY <1>1, <1>4, <2>2, <3>2, <3>4, <3>6, WorksOn DEF LoneInv
  <2> QED BY <1>5, <2>1, <2>4, <2>5
<1> QED BY <1>2, <1>6, <1>7

\* finalize_stop, of another unit or of u.
LEMMA FinalizeStopLone ==
  ASSUME TypeOK, IndexInv, NEW u \in Units, LoneInv(u), FinalizeStop
  PROVE  LoneInv(u)'
<1> DEFINE v == Top.unit
           jid == unit_job[v]
           rec == [Set(units[v], "inactive", "dead") EXCEPT
                     !.main_pid = NoPid, !.group_pid = NoPid, !.cgroup = FALSE,
                     !.control_pid = NoPid, !.control_command = NoCommand,
                     !.cmd_index = 0]
<1>1. Calling("finalize") /\ v \in Units /\ UNCHANGED engineVars /\ UNCHANGED outside
  BY CallType DEF FinalizeStop, UnitOps
<1>2. \/ Resting(u) /\ Quiet(Top, u, OtherIds(u))
      \/ AtWork(u) /\ Work(Top, u) /\ QuietBeneath(1, u)
  BY <1>1, AtRest DEF LoneInv
<1>3. SameJob(u) /\ NoWaiter(u)' /\ next_job' \in {next_job, next_job + 1}
      /\ OtherIds(u)' = OtherIds(u) /\ OwnJob(u) /\ OwnUnit(u)
  BY <1>1, SameTable DEF LoneInv, engineVars, OtherIds, JobsOf
<1>4. OwnJob(u)'
  BY <1>3, SameJobKept
<1>5. /\ units' = [units EXCEPT ![v] = rec]
      /\ \/ PendingStop(v) /\ Call(<<Finish(jid, TRUE)>>)
         \/ ~PendingStop(v) /\ stack' = Return
  <2>1. PendingStop(v) \in BOOLEAN
    BY DEF PendingStop
  <2>2. Call(IF PendingStop(v) THEN <<Finish(jid, TRUE)>> ELSE <<>>)
    BY DEF FinalizeStop
  <2>3. \/ PendingStop(v) /\ Call(<<Finish(jid, TRUE)>>)
        \/ ~PendingStop(v) /\ stack' = Return
    <3> DEFINE pending == PendingStop(v)
    <3> HIDE DEF pending
    <3> QED BY <1>1, <2>1, <2>2, MaybeFinish DEF pending
  <2> QED BY <2>3 DEF FinalizeStop
<1> HIDE DEF v
<1>6. CASE Resting(u) /\ Quiet(Top, u, OtherIds(u))
  <2>1. v # u
    BY <1>1, <1>6 DEF Quiet, Calling, v
  <2>2. SameUnit(u)
    <3>1. units'[u] = units[u]
      BY <1>5, <2>1 DEF TypeOK
    <3> QED BY <1>1, <3>1 DEF SameUnit, outside, Unreaped
  <2> DEFINE f == Finish(jid, TRUE)
  <2>3. Quiet(f, u, OtherIds(u)') /\ (stack' = Return \/ Call(<<f>>))
    BY <1>1, <1>3, <1>5, <2>1, OtherJob, QuietFrames
  <2> HIDE DEF f
  <2> QED BY <1>1, <1>3, <1>6, <2>2, <2>3, Elsewhere
<1>7. CASE AtWork(u) /\ Work(Top, u) /\ QuietBeneath(1, u)
  <2>1. v = u /\ ~PendingStart(u) /\ Childless(u) /\ units[u].loaded
    BY <1>1, <1>7 DEF Work, Calling, v
  <2>2. \A x \in Beneath(1) : Quiet(x, u, OtherIds(u)')
    BY <1>3, <1>7, RestKept
  <2>3. ~PendingStart(u)' /\ PendingStop(u)' = PendingStop(u) /\ unit_job'[u] = unit_job[u]
    BY <1>3, <2>1, SameJobKept DEF SameJob
  <2>4. /\ units'[u].active = "inactive" /\ units'[u].sub = "dead" /\ units'[u].loaded
        /\ units'[u].control_command = "none"
    BY <1>5, <2>1 DEF Set, TypeOK, UnitRec, NoCommand
  <2>5. OwnUnit(u)'
    BY <1>1, <1>3, <2>1, <2>4 DEF OwnUnit, outside, Unreaped, Childless
  <2>6. CASE PendingStop(u) /\ Call(<<Finish(unit_job[u], TRUE)>>)
    <3>1. PICK f : f = Finish(unit_job[u], TRUE)
      OBVIOUS
    <3>2. f.op = "finish" /\ f.id = unit_job[u] /\ f.id # 0 /\ f.ok /\ Call(<<f>>)
      BY <2>6, <3>1 DEF Finish, Frm, PendingStop
    <3>3. Work(f, u)'
      BY <2>3, <2>4, <3>2 DEF Work
    <3> QED BY <1>1, <1>4, <2>2, <2>5, <3>2, <3>3, WorksOn DEF LoneInv
  <2>7. CASE ~PendingStop(u) /\ stack' = Return
    <3>1. Settled(u)'
      BY <2>3, <2>4, <2>7 DEF Settled
    <3> QED BY <1>1, <1>4, <2>2, <2>5, <2>7, <3>1, RestsAgain DEF LoneInv
  <2> QED BY <1>5, <2>1, <2>6, <2>7
<1> QED BY <1>2, <1>6, <1>7

\* A signal ends no process by itself.
LEMMA SignalledStay ==
  ASSUME TypeOK, NEW u \in Units, NEW P, NEW st \in {"termed", "killed"}, procs' = Signalled(P, st)
  PROVE  Unreaped(u)' = Unreaped(u)
<1>1. ASSUME NEW p \in Pids
      PROVE  procs'[p].unit = procs[p].unit /\ (procs'[p].st = "free" <=> procs[p].st = "free")
  <2>1. procs[p] \in Proc /\ procs'[p] = IF p \in P /\ procs[p].st \in {"running", "termed"}
                                          THEN [procs[p] EXCEPT !.st = st] ELSE procs[p]
    BY DEF TypeOK, Signalled
  <2> QED BY <2>1 DEF Proc
<1> QED BY <1>1 DEF Unreaped

\* maybe_stop_job of u's job: what runs is signalled, or the stop is done.
LEMMA MaybeStopLone ==
  ASSUME TypeOK, IndexInv, NEW u \in Units, Standalone(u), LoneInv(u), MaybeStopJob
  PROVE  LoneInv(u)'
<1> DEFINE id == Top.id
           v == jobs[id].unit
           job == [jobs[id] EXCEPT !.started = TRUE]
<1>1. Calling("maybe_stop")
  BY DEF MaybeStopJob
<1>2. \/ Resting(u) /\ Quiet(Top, u, OtherIds(u))
      \/ AtWork(u) /\ Work(Top, u) /\ QuietBeneath(1, u)
  BY <1>1, AtRest DEF LoneInv
<1>3. OwnJob(u) /\ OwnUnit(u)
  BY DEF LoneInv
<1>4. CASE Panic
  <2>1. UNCHANGED <<engineVars, units, armed, procs, stack>>
    BY <1>4 DEF Panic, engineVars
  <2> QED BY <2>1, LoneUnchanged
<1>5. CASE Resting(u) /\ Quiet(Top, u, OtherIds(u)) /\ id \in DOMAIN jobs
  <2>1. id \in OtherIds(u) /\ id \notin JobsOf(u) /\ v # u /\ v \in Units /\ jobs[id] \in Job
    BY <1>1, <1>5, OtherJob DEF Quiet, Calling, JobFrames, OtherIds, TypeOK, JobsTypeOK, Job
  <2>2. job.unit = v /\ job.waiting = jobs[id].waiting
    BY <2>1 DEF Job
  <2> HIDE DEF id, v, job
  <2>3. UNCHANGED engineVars => SameJob(u) /\ NoWaiter(u)' /\ next_job' \in {next_job, next_job + 1}
    BY <1>3, SameTable
  <2>4. UNCHANGED outside /\ UNCHANGED units => SameUnit(u)
    BY DEF outside, SameUnit, Unreaped
  <2>5. SameJob(u) /\ next_job' \in {next_job, next_job + 1} => id \in OtherIds(u)'
    BY <2>1, OthersKept DEF SameJob
  <2>6. CASE Call(<<Finish(id, TRUE)>>) /\ UNCHANGED <<engineVars, units, outside>>
    <3> DEFINE f == Finish(id, TRUE)
    <3>1. Call(<<f>>) /\ Quiet(f, u, OtherIds(u)')
      BY <2>3, <2>5, <2>6, QuietFrames
    <3> HIDE DEF f
    <3> QED BY <1>1, <1>5, <2>3, <2>4, <2>6, <3>1, Elsewhere
  <2>7. CASE stack' = Return /\ UNCHANGED <<engineVars, units, outside>>
    BY <1>1, <1>5, <2>3, <2>4, <2>7, Elsewhere
  <2>8. CASE /\ unit_job' = [unit_job EXCEPT ![v] = id] /\ UpdateJob(id, job) /\ DoStop(v)
             /\ UNCHANGED <<next_job, completed_jobs, notify, shutting_down, status>>
    <3>1. unit_job'[u] = unit_job[u]
      BY <2>1, <2>8 DEF TypeOK, JobsTypeOK
    <3>2. SameJob(u) /\ NoWaiter(u)' /\ next_job' \in {next_job, next_job + 1}
      BY <1>3, <2>1, <2>2, <2>8, <3>1, UpdateOther DEF OwnJob, v
    <3>3. units'[u] = units[u]
      BY <2>1, <2>8 DEF DoStop, TypeOK
    <3>4. Unreaped(u)' = Unreaped(u)
      <4>1. procs' = Signalled(Tree(v), "termed") \/ UNCHANGED procs
        BY <2>8 DEF DoStop
      <4> QED BY <4>1, SignalledStay DEF Unreaped
    <3>5. \A kind : <<u, kind>> \in armed' => <<u, kind>> \in armed
      BY <2>1, <2>8 DEF DoStop, ArmStop
    <3>6. SameUnit(u)
      BY <3>3, <3>4, <3>5 DEF SameUnit
    <3> DEFINE f == UnitCall("finalize", v)
               g == Spawn(v, "Stop", 0)
    <3>7. Quiet(f, u, OtherIds(u)') /\ Quiet(g, u, OtherIds(u)')
      BY <2>1, QuietFrames DEF JobFrames
    <3>8. stack' = Return \/ Call(<<f>>) \/ Call(<<g>>)
      BY <2>8 DEF DoStop
    <3> HIDE DEF f, g
    <3> QED BY <1>1, <1>5, <3>2, <3>6, <3>7, <3>8, Elsewhere
  <2> QED BY <1>4, <1>5, <2>6, <2>7, <2>8 DEF MaybeStopJob, id, v, job
<1>6. CASE AtWork(u) /\ Work(Top, u) /\ QuietBeneath(1, u)
  <2>1. Fresh(u, "Stop", id) /\ unit_operational(u) /\ units[u].loaded
    BY <1>1, <1>6 DEF Work, Calling
  <2>2. /\ id = unit_job[u] /\ id # 0 /\ id \in DOMAIN jobs /\ jobs[id] \in Job /\ v = u
        /\ jobs[id].waiting = {} /\ ~jobs[id].started /\ jobs[id].kind = "Stop"
    BY <1>3, <2>1, IndexedOwn DEF Fresh, JobsOf, OwnJob
  <2>3. job.unit = u /\ job.waiting = {} /\ job.kind = "Stop" /\ job.started
    BY <2>2 DEF Job
  <2> HIDE DEF id, v, job
  <2>4. /\ unit_job' = [unit_job EXCEPT ![u] = id] /\ UpdateJob(id, job) /\ DoStop(u)
        /\ UNCHANGED <<next_job, completed_jobs, notify, shutting_down, status>>
    BY <2>1, <2>2 DEF MaybeStopJob, id, v, job
  <2>5. unit_job'[u] = unit_job[u] /\ UpdateJob(unit_job[u], job)
    BY <2>2, <2>4 DEF TypeOK, JobsTypeOK
  <2>6. /\ unit_job'[u] = id /\ jobs'[id] = job /\ OwnJob(u)' /\ OtherIds(u) \subseteq OtherIds(u)'
    BY <1>3, <2>2, <2>3, <2>4, <2>5, UpdateOwn
  <2>7. \A x \in Beneath(1) : Quiet(x, u, OtherIds(u)')
    BY <1>6, <2>6, RestKept
  <2>8. ~PendingStart(u)' /\ jobs'[unit_job'[u]].started
    BY <2>3, <2>6 DEF PendingStart
  <2>9. /\ units'[u].active = "deactivating" /\ units'[u].sub \in {"stop", "stop-sigterm"}
        /\ units'[u].loaded /\ units'[u].control_command = units[u].control_command
        /\ units'[u].group_pid = units[u].group_pid
    <3>1. PICK sub \in {"stop", "stop-sigterm"} :
            units' = [units EXCEPT ![u] = Set(units[u], "deactivating", sub)]
      BY <2>4 DEF DoStop
    <3>2. units \in [Units -> UnitRec]
      BY DEF TypeOK
    <3> QED BY <2>1, <3>1, <3>2 DEF Set, UnitRec
  <2>10. Unreaped(u)' = Unreaped(u)
    <3>1. procs' = Signalled(Tree(u), "termed") \/ UNCHANGED procs
      BY <2>4 DEF DoStop
    <3> QED BY <3>1, SignalledStay DEF Unreaped
  <2>11. \A kind : <<u, kind>> \in armed' => \/ <<u, kind>> \in armed
                                             \/ kind = "StopTimeout" /\ u \in StopTimeouts
    BY <2>4 DEF DoStop, ArmStop
  <2>12. OwnUnit(u)'
    BY <1>3, <2>9, <2>10, <2>11 DEF OwnUnit
  <2>13. CASE stack' = Return
    <3>1. Settled(u)'
      <4>1. PendingStop(u)'
        BY <2>2, <2>3, <2>6 DEF PendingStop
      <4> QED BY <2>8, <2>9, <4>1 DEF Settled
    <3> QED BY <1>1, <2>6, <2>7, <2>12, <2>13, <3>1, RestsAgain DEF LoneInv
  <2>14. CASE ~(u \notin Targets /\ unit_has_processes(u))
    <3>1. ExecCount[u]["Stop"] = 0
      BY DEF Standalone
    <3>2. PICK f : f = UnitCall("finalize", u)
      OBVIOUS
    <3>3. f.op = "finalize" /\ f.unit = u /\ Call(<<f>>)
      BY <2>4, <2>14, <3>1, <3>2 DEF DoStop, UnitCall, Frm
    <3>4. Childless(u)
      <4>1. Staged(u) => u \notin Targets
        BY DEF Staged, Plain
      <4>2. Staged(u) => units[u].group_pid = NoPid
        BY <2>14, <4>1 DEF unit_has_processes
      <4> QED BY <1>3, <4>2, UnitsAssumption DEF Childless, OwnUnit, Unreaped
    <3>5. Childless(u)'
      BY <2>10, <3>4 DEF Childless
    <3>6. Work(f, u)'
      BY <2>8, <2>9, <3>3, <3>5 DEF Work
    <3> QED BY <1>1, <2>6, <2>7, <2>12, <3>3, <3>6, WorksOn DEF LoneInv
  <2> QED BY <2>4, <2>13, <2>14 DEF DoStop
<1>7. id \notin DOMAIN jobs => Panic
  BY DEF MaybeStopJob
<1> QED BY <1>2, <1>4, <1>5, <1>6, <1>7

\* u's start ended, or failed: the call that ends its job, if it has one.
LEMMA StartEnds ==
  ASSUME TypeOK, IndexInv, NEW op, Calling(op), NEW u \in Units, Unrelated(u), OwnJob(u),
         UNCHANGED engineVars, ~PendingStop(u), units'[u].active # "deactivating",
         Staged(u) => units'[u].active # "activating",
         \A f \in Beneath(1) : Quiet(f, u, OtherIds(u)'),
         Call(CompleteStart(u)) \/ Call(FailCalls(u))
  PROVE  Phase(u)'
<1>1. SameJob(u)
  BY SameTable
<1>2. /\ ~PendingStop(u)' /\ PendingStart(u)' = PendingStart(u) /\ unit_job'[u] = unit_job[u]
  BY <1>1, SameJobKept DEF SameJob
<1>3. ASSUME PendingStart(u), NEW ok,
             \/ Call(<<Finish(unit_job[u], ok)>>)
             \/ \E g : Call(<<Finish(unit_job[u], ok), g>>) /\ Quiet(g, u, OtherIds(u)')
      PROVE  Phase(u)'
  <2>1. PICK f : f = Finish(unit_job[u], ok)
    OBVIOUS
  <2>2. f.op = "finish" /\ f.id = unit_job[u] /\ f.id # 0
    BY <1>3, <2>1 DEF Finish, Frm, PendingStart
  <2>3. Work(f, u)'
    BY <1>2, <2>2 DEF Work
  <2> QED BY <1>3, <2>1, <2>3, WorksOn
<1>4. ~PendingStart(u) => Settled(u)'
  BY <1>2 DEF Settled
<1>5. PICK g : g = Loop("on_failure", u, 0, {}, {})
  OBVIOUS
<1>6. OnFailure[u] = {} /\ Quiet(g, u, OtherIds(u)') /\ Quiet(Poke(u), u, OtherIds(u)')
  BY <1>5, UnrelatedUnit, QuietFrames, QuietEnds
<1>7. CASE Call(CompleteStart(u))
  <2> DEFINE pending == PendingStart(u)
  <2>1. pending \in BOOLEAN
    BY DEF PendingStart
  <2>2. Call(IF pending THEN <<Finish(unit_job[u], TRUE)>> ELSE <<>>)
    BY <1>7 DEF CompleteStart
  <2> HIDE DEF pending
  <2>3. \/ pending /\ Call(<<Finish(unit_job[u], TRUE)>>)
        \/ ~pending /\ stack' = Return
    BY <2>1, <2>2, MaybeFinish
  <2> QED BY <1>3, <1>4, <2>3, RestsAgain DEF pending
<1>8. CASE Call(FailCalls(u))
  <2>1. CASE PendingStart(u)
    <3>1. Call(<<Finish(unit_job[u], FALSE), g>>)
      BY <1>5, <1>6, <1>8, <2>1 DEF FailCalls
    <3> QED BY <1>3, <1>6, <2>1, <3>1
  <2>2. CASE ~PendingStart(u)
    <3> DEFINE h == Poke(u)
    <3>1. Call(<<h, g>>) /\ Quiet(h, u, OtherIds(u)')
      BY <1>5, <1>6, <1>8, <2>2 DEF FailCalls
    <3> HIDE DEF h
    <3> QED BY <1>4, <1>6, <2>2, <3>1, RestsAgain
  <2> QED BY <2>1, <2>2
<1> QED BY <1>7, <1>8

\* ... the same at the end of an event.
LEMMA StartEnded ==
  ASSUME TypeOK, IndexInv, stack = <<>>, NEW u \in Units, Unrelated(u), OwnJob(u),
         UNCHANGED engineVars, ~PendingStop(u), units'[u].active # "deactivating",
         Staged(u) => units'[u].active # "activating",
         stack' = CompleteStart(u) \/ stack' = FailCalls(u)
  PROVE  Phase(u)'
<1>1. SameJob(u)
  BY SameTable
<1>2. /\ ~PendingStop(u)' /\ PendingStart(u)' = PendingStart(u) /\ unit_job'[u] = unit_job[u]
  BY <1>1, SameJobKept DEF SameJob
<1>3. ASSUME PendingStart(u), NEW ok,
             \/ stack' = <<Finish(unit_job[u], ok)>>
             \/ \E g : stack' = <<Finish(unit_job[u], ok), g>> /\ Quiet(g, u, OtherIds(u)')
      PROVE  Phase(u)'
  <2>1. PICK f : f = Finish(unit_job[u], ok)
    OBVIOUS
  <2>2. f.op = "finish" /\ f.id = unit_job[u] /\ f.id # 0
    BY <1>3, <2>1 DEF Finish, Frm, PendingStart
  <2>3. Work(f, u)'
    BY <1>2, <2>2 DEF Work
  <2> QED BY <1>3, <2>1, <2>3, AfterEvent
<1>4. ~PendingStart(u) => Settled(u)'
  BY <1>2 DEF Settled
<1>5. PICK g : g = Loop("on_failure", u, 0, {}, {})
  OBVIOUS
<1>6. OnFailure[u] = {} /\ Quiet(g, u, OtherIds(u)') /\ Quiet(Poke(u), u, OtherIds(u)')
  BY <1>5, UnrelatedUnit, QuietFrames, QuietEnds
<1>7. CASE stack' = CompleteStart(u)
  <2>1. CASE PendingStart(u)
    BY <1>3, <1>7, <2>1 DEF CompleteStart
  <2>2. CASE ~PendingStart(u)
    <3>1. stack' = <<>>
      BY <1>7, <2>2 DEF CompleteStart
    <3> QED BY <1>4, <2>2, <3>1, AfterEvent
  <2> QED BY <2>1, <2>2
<1>8. CASE stack' = FailCalls(u)
  <2>1. CASE PendingStart(u)
    <3>1. stack' = <<Finish(unit_job[u], FALSE), g>>
      BY <1>5, <1>6, <1>8, <2>1 DEF FailCalls
    <3> QED BY <1>3, <1>6, <2>1, <3>1
  <2>2. CASE ~PendingStart(u)
    <3> DEFINE h == Poke(u)
    <3>1. stack' = <<h, g>> /\ Quiet(h, u, OtherIds(u)')
      BY <1>5, <1>6, <1>8, <2>2 DEF FailCalls
    <3> HIDE DEF h
    <3> QED BY <1>4, <1>6, <2>2, <3>1, AfterEvent
  <2> QED BY <2>1, <2>2
<1> QED BY <1>7, <1>8

\* The calls that end another unit's start do nothing to u.
LEMMA OtherEnds ==
  ASSUME TypeOK, IndexInv, NEW u \in Units, Unrelated(u), NEW v \in Units, v # u
  PROVE  /\ \A ok : Quiet(Finish(unit_job[v], ok), u, OtherIds(u)) /\ Quiet(Poke(v), u, OtherIds(u))
         /\ Quiet(Loop("on_failure", v, 0, OnFailure[v], {}), u, OtherIds(u))
         /\ \/ CompleteStart(v) = <<>>
            \/ CompleteStart(v) = <<Finish(unit_job[v], TRUE)>>
         /\ \E f : /\ FailCalls(v) = <<f, Loop("on_failure", v, 0, OnFailure[v], {})>>
                   /\ Quiet(f, u, OtherIds(u))
<1>1. \A ok : Quiet(Finish(unit_job[v], ok), u, OtherIds(u))
  BY OtherJob, QuietFrames
<1>2. Quiet(Poke(v), u, OtherIds(u))
  BY QuietFrames
<1>3. Quiet(Loop("on_failure", v, 0, OnFailure[v], {}), u, OtherIds(u))
  BY UnrelatedUnit, QuietFrames
<1>4. \/ CompleteStart(v) = <<>>
      \/ CompleteStart(v) = <<Finish(unit_job[v], TRUE)>>
  BY DEF CompleteStart
<1>5. \E f : /\ FailCalls(v) = <<f, Loop("on_failure", v, 0, OnFailure[v], {})>>
             /\ Quiet(f, u, OtherIds(u))
  <2>1. CASE PendingStart(v)
    BY <1>1, <2>1 DEF FailCalls
  <2>2. CASE ~PendingStart(v)
    BY <1>2, <2>2 DEF FailCalls
  <2> QED BY <2>1, <2>2
<1> QED BY <1>1, <1>2, <1>3, <1>4, <1>5

-----------------------------------------------------------------------------
(* The processes of a start.                                               *)

\* The process of another unit.
LEMMA OtherChild ==
  ASSUME TypeOK, NEW u \in Units, NEW v \in Units, v # u, NEW p \in Pids, procs[p].st = "free",
         procs' = [procs EXCEPT ![p] = [st |-> "running", unit |-> v]]
  PROVE  Unreaped(u)' = Unreaped(u)
BY DEF Unreaped, TypeOK

\* The process of u.
LEMMA OwnChild ==
  ASSUME TypeOK, NEW u \in Units, NEW p \in Pids, procs[p].st = "free",
         procs' = [procs EXCEPT ![p] = [st |-> "running", unit |-> u]]
  PROVE  Unreaped(u)' = Unreaped(u) \cup {p}
BY DEF Unreaped, TypeOK

\* What spawn_control can come to.
LEMMA SpawnWays ==
  ASSUME SpawnControl
  PROVE  LET v == Top.unit
             cmd == Top.cmd IN
         \/ ExecCount[v][cmd] <= Top.id /\ StageDone(units[v], v, cmd)
         \/ /\ v \in IgnoreFailure /\ cmd # "Stop"
            /\ StageDone([units[v] EXCEPT !.cgroup = UseCgroup], v, cmd)
         \/ /\ ExecCount[v][cmd] > Top.id
            /\ \E p \in Pids : procs[p].st = "free" /\ Spawned(v, cmd, p)
         \/ /\ \E r \in {units[v], [units[v] EXCEPT !.cgroup = UseCgroup]} :
                 units' = [units EXCEPT ![v] = Set(r, "failed", "failed")]
            /\ Call(FailCalls(v))
            /\ UNCHANGED <<armed, procs>>
<1> DEFINE v == Top.unit
           cmd == Top.cmd
           rec == [units[v] EXCEPT !.cgroup = UseCgroup]
           free == {p \in Pids : procs[p].st = "free"}
           new == CHOOSE p \in free : TRUE
           ignored == v \in IgnoreFailure /\ cmd # "Stop"
<1>1. free # {} => new \in free
  OBVIOUS
<1>2. \/ ExecCount[v][cmd] <= Top.id /\ StageDone(units[v], v, cmd)
      \/ ExecCount[v][cmd] > Top.id /\ free # {} /\ Spawned(v, cmd, new)
      \/ /\ ExecCount[v][cmd] > Top.id
         /\ IF ignored THEN StageDone(rec, v, cmd)
            ELSE /\ units' = [units EXCEPT ![v] = Set(rec, "failed", "failed")]
                 /\ Call(FailCalls(v))
                 /\ UNCHANGED <<armed, procs>>
      \/ /\ MarkFailed(v)
         /\ Call(FailCalls(v))
         /\ UNCHANGED <<armed, procs>>
  BY DEF SpawnControl
<1>3. MarkFailed(v) => units' = [units EXCEPT ![v] = Set(units[v], "failed", "failed")]
  BY DEF MarkFailed
<1> HIDE DEF new, v, cmd
<1> QED BY <1>1, <1>2, <1>3 DEF v, cmd

\* spawn_control for another unit.
LEMMA SpawnElsewhere ==
  ASSUME TypeOK, IndexInv, NEW u \in Units, Unrelated(u), LoneInv(u), Resting(u),
         Quiet(Top, u, OtherIds(u)), SpawnControl
  PROVE  LoneInv(u)'
<1> DEFINE v == Top.unit
           cmd == Top.cmd
           rec == [units[v] EXCEPT !.cgroup = UseCgroup]
<1>1. Calling("spawn") /\ v \in Units /\ UNCHANGED engineVars
  BY CallType DEF SpawnControl, UnitOps
<1>2. v # u
  BY <1>1 DEF Quiet, Calling
<1>3. SameJob(u) /\ NoWaiter(u)' /\ next_job' \in {next_job, next_job + 1}
      /\ OtherIds(u)' = OtherIds(u)
  BY <1>1, SameTable DEF LoneInv, engineVars, OtherIds, JobsOf
<1>4. \/ StageDone(units[v], v, cmd)
      \/ StageDone(rec, v, cmd)
      \/ \E p \in Pids : procs[p].st = "free" /\ Spawned(v, cmd, p)
      \/ /\ \E r \in {units[v], rec} : units' = [units EXCEPT ![v] = Set(r, "failed", "failed")]
         /\ Call(FailCalls(v))
         /\ UNCHANGED <<armed, procs>>
  BY SpawnWays
<1> HIDE DEF v, cmd
<1>5. units'[u] = units[u]
  BY <1>2, <1>4 DEF StageDone, Spawned, TypeOK
<1>6. Unreaped(u)' = Unreaped(u)
  <2>1. ASSUME NEW p \in Pids, procs[p].st = "free", Spawned(v, cmd, p)
        PROVE  Unreaped(u)' = Unreaped(u)
    BY <1>1, <1>2, <2>1, OtherChild DEF Spawned
  <2>2. CASE UNCHANGED procs
    BY <2>2 DEF Unreaped
  <2> QED BY <1>4, <2>1, <2>2 DEF StageDone
<1>7. \A kind : <<u, kind>> \in armed' => <<u, kind>> \in armed
  <2>1. armed' = armed \/ armed' = ArmStart(v)
    BY <1>4 DEF StageDone, Spawned
  <2> QED BY <1>2, <2>1 DEF ArmStart
<1>8. SameUnit(u)
  BY <1>5, <1>6, <1>7 DEF SameUnit
<1>9. ASSUME NEW f, NEW g,
             \/ Call(<<>>)
             \/ Call(<<f>>) /\ Quiet(f, u, OtherIds(u))
             \/ Call(<<f, g>>) /\ Quiet(f, u, OtherIds(u)) /\ Quiet(g, u, OtherIds(u))
      PROVE  LoneInv(u)'
  <2>1. Call(<<>>) => stack' = Return
    BY <1>1, CallType, ConcatEmptySeq DEF Call
  <2> DEFINE K == OtherIds(u)'
  <2>2. \/ stack' = Return
        \/ Call(<<f>>) /\ Quiet(f, u, K)
        \/ Call(<<f, g>>) /\ Quiet(f, u, K) /\ Quiet(g, u, K)
    BY <1>3, <1>9, <2>1
  <2> QED BY <1>1, <1>3, <1>8, <2>2, Elsewhere
<1>10. CASE Call(CompleteStart(v))
  BY <1>1, <1>2, <1>9, <1>10, OtherEnds
<1>11. CASE Call(FailCalls(v))
  <2> DEFINE g == Loop("on_failure", v, 0, OnFailure[v], {})
  <2>1. \E f : Call(<<f, g>>) /\ Quiet(f, u, OtherIds(u)) /\ Quiet(g, u, OtherIds(u))
    BY <1>1, <1>2, <1>11, OtherEnds
  <2> HIDE DEF g
  <2> QED BY <1>9, <2>1
<1>12. CASE stack' = Return
  BY <1>1, <1>3, <1>8, <1>12, Elsewhere
<1>13. ASSUME NEW f, Call(<<f>>), f \in {Spawn(v, "Start", 0), UnitCall("finalize", v)}
       PROVE  LoneInv(u)'
  <2>1. Quiet(f, u, OtherIds(u))
    BY <1>2, <1>13, QuietFrames DEF JobFrames
  <2> QED BY <1>9, <1>13, <2>1
<1>14. ASSUME NEW r, StageDone(r, v, cmd)
       PROVE  LoneInv(u)'
  <2>1. \/ Call(<<Spawn(v, "Start", 0)>>)
        \/ Call(CompleteStart(v))
        \/ Call(<<UnitCall("finalize", v)>>)
        \/ Call(<<>>)
    <3>1. CASE cmd = "StartPre"
      BY <1>14, <3>1 DEF StageDone
    <3>2. CASE cmd = "Start"
      BY <1>14, <3>2 DEF StageDone
    <3>3. CASE cmd = "Stop"
      BY <1>14, <3>3 DEF StageDone
    <3>4. CASE cmd \notin {"StartPre", "Start", "Stop"}
      BY <1>14, <3>4 DEF StageDone
    <3> QED BY <3>1, <3>2, <3>3, <3>4
  <2> QED BY <1>9, <1>10, <1>13, <2>1
<1>15. ASSUME NEW p, Spawned(v, cmd, p)
       PROVE  LoneInv(u)'
  BY <1>10, <1>12, <1>15 DEF Spawned
<1> QED BY <1>4, <1>11, <1>14, <1>15

\* spawn_control for u: the process exists, the start is over, or it failed.
LEMMA SpawnOwn ==
  ASSUME TypeOK, IndexInv, NEW u \in Units, Standalone(u), LoneInv(u), Work(Top, u),
         QuietBeneath(1, u), SpawnControl
  PROVE  LoneInv(u)'
<1> DEFINE cmd == Top.cmd
           id == Top.id
<1>1. Calling("spawn") /\ Top.unit = u /\ UNCHANGED engineVars
  BY DEF SpawnControl, Work, Calling
<1>2. /\ u \notin Targets /\ ~PendingStop(u) /\ Underway(u) /\ Childless(u)
      /\ units[u].loaded /\ units[u].active # "deactivating"
      /\ Plain(u) \/ (PendingStart(u) => units[u].active \in StartStates(u))
      /\ Staged(u) => \/ units[u].active = "active"
                      \/ units[u].active = "activating" /\ PendingStart(u)
      /\ Upcoming(Top, u)
  BY <1>1 DEF Work, Calling
<1>3. OwnJob(u) /\ OwnUnit(u) /\ Unrelated(u) /\ (ExecCount[u]["StartPost"] > 0 => u \notin IgnoreFailure)
  BY DEF LoneInv, Standalone
<1>4. SameJob(u) /\ NoWaiter(u)' /\ OtherIds(u)' = OtherIds(u)
  BY <1>1, <1>3, SameTable DEF engineVars, OtherIds, JobsOf
<1>5. \A x \in Beneath(1) : Quiet(x, u, OtherIds(u)')
  BY <1>4, RestKept
<1>6. OwnJob(u)'
  BY <1>3, <1>4, SameJobKept
<1>7. /\ ~PendingStop(u)' /\ PendingStart(u)' = PendingStart(u) /\ Underway(u)'
  <2>1. PendingStart(u)' = PendingStart(u) /\ PendingStop(u)' = PendingStop(u)
    BY <1>4, SameJobKept
  <2>2. PendingStart(u) => jobs'[unit_job'[u]] = jobs[unit_job[u]]
    BY <1>4, SameJobKept DEF SameJob, PendingStart
  <2> QED BY <1>2, <2>1, <2>2 DEF Underway
<1>8. units[u] \in UnitRec /\ units \in [Units -> UnitRec]
  BY DEF TypeOK
\* A process that fails to exist, or a stage without a command
<1>9. ASSUME NEW r \in {units[u], [units[u] EXCEPT !.cgroup = UseCgroup]}, NEW active, NEW sub,
             active \notin {"activating", "deactivating"}, sub # "auto-restart",
             units' = [units EXCEPT ![u] = Set(r, active, sub)],
             Call(CompleteStart(u)) \/ Call(FailCalls(u)), UNCHANGED <<armed, procs>>
      PROVE  LoneInv(u)'
  <2>1. /\ units'[u].active = active /\ units'[u].sub = sub /\ units'[u].loaded
        /\ units'[u].control_command = units[u].control_command
    BY <1>2, <1>8, <1>9 DEF Set, UnitRec
  <2>2. OwnUnit(u)'
    BY <1>2, <1>3, <1>9, <2>1 DEF OwnUnit, Unreaped, Childless
  <2>3. Phase(u)'
    BY <1>1, <1>2, <1>3, <1>5, <1>9, <2>1, StartEnds
  <2> QED BY <1>6, <2>2, <2>3 DEF LoneInv
<1>10. ASSUME NEW r \in {units[u], [units[u] EXCEPT !.cgroup = UseCgroup]}, cmd = "Start",
              StageDone(r, u, cmd)
       PROVE  LoneInv(u)'
  <2>1. /\ units' = [units EXCEPT ![u] = Ended(r, u)] /\ Call(CompleteStart(u))
        /\ UNCHANGED <<armed, procs>>
    BY <1>10 DEF StageDone
  <2>2. \E active \in {"active", "inactive"}, sub \in {"exited", "dead"} : Ended(r, u) = Set(r, active, sub)
    BY DEF Ended
  <2>3. PICK active \in {"active", "inactive"}, sub \in {"exited", "dead"} :
          units' = [units EXCEPT ![u] = Set(r, active, sub)]
    BY <2>1, <2>2
  <2> QED BY <1>9, <1>10, <2>1, <2>3
<1>11. CASE ExecCount[u][cmd] <= id /\ StageDone(units[u], u, cmd)
  <2>1. cmd = "Start"
    <3>1. ExecCount[u]["StartPre"] \in Nat /\ ExecCount[u]["StartPost"] \in Nat
      BY ConfigAssumption DEF ControlCommand
    <3>2. ~(cmd = "StartPre") /\ ~(cmd = "StartPost")
      BY <1>2, <1>11, <3>1 DEF Upcoming
    <3> QED BY <1>2, <3>2 DEF Upcoming
  <2> QED BY <1>10, <1>11, <2>1
<1>12. CASE /\ u \in IgnoreFailure /\ cmd # "Stop"
            /\ StageDone([units[u] EXCEPT !.cgroup = UseCgroup], u, cmd)
  <2> DEFINE r == [units[u] EXCEPT !.cgroup = UseCgroup]
  <2>1. cmd \in {"StartPre", "Start"}
    BY <1>2, <1>3, <1>12 DEF Upcoming
  <2>2. CASE cmd = "StartPre"
    <3>1. /\ units' = [units EXCEPT ![u] = r] /\ UNCHANGED <<armed, procs>>
          /\ Call(<<Spawn(u, "Start", 0)>>)
      BY <1>12, <2>2 DEF StageDone
    <3>2. /\ units'[u].active = units[u].active /\ units'[u].loaded
          /\ units'[u].sub = units[u].sub
          /\ units'[u].control_command = units[u].control_command
      BY <1>2, <1>8, <3>1 DEF UnitRec
    <3>3. OwnUnit(u)' /\ Childless(u)'
      BY <1>2, <1>3, <3>1, <3>2 DEF OwnUnit, Unreaped, Childless
    <3>4. PICK f : f = Spawn(u, "Start", 0)
      OBVIOUS
    <3>5. f.op = "spawn" /\ f.unit = u /\ f.cmd = "Start" /\ Call(<<f>>)
      BY <3>1, <3>4 DEF Spawn, Frm
    <3>6. Work(f, u)'
      BY <1>2, <1>7, <3>2, <3>3, <3>5 DEF Work, Upcoming
    <3> QED BY <1>1, <1>5, <1>6, <3>3, <3>5, <3>6, WorksOn DEF LoneInv
  <2>3. CASE cmd = "Start"
    BY <1>10, <1>12, <2>3
  <2> QED BY <2>1, <2>2, <2>3
<1>13. ASSUME NEW p \in Pids, procs[p].st = "free", Spawned(u, cmd, p)
       PROVE  LoneInv(u)'
  <2> DEFINE r == [units[u] EXCEPT !.group_pid = p, !.cgroup = UseCgroup]
  <2>1. Unreaped(u)' = Unreaped(u) \cup {p}
    BY <1>13, OwnChild DEF Spawned
  <2>2. Staged(u) => Unreaped(u)' = {p}
    BY <1>2, <2>1 DEF Childless
  <2>3. CASE ActiveAtOnce(u, cmd)
    <3>1. /\ units' = [units EXCEPT ![u] = [Set(r, "active", "running") EXCEPT
                        !.main_pid = p, !.control_pid = NoPid, !.control_command = NoCommand]]
          /\ Call(CompleteStart(u)) /\ UNCHANGED armed
      BY <1>13, <2>3 DEF Spawned
    <3>2. /\ units'[u].active = "active" /\ units'[u].sub = "running" /\ units'[u].loaded
          /\ units'[u].control_command = "none" /\ units'[u].group_pid = p
      BY <1>2, <1>8, <3>1 DEF Set, UnitRec, NoCommand
    <3>3. OwnUnit(u)'
      BY <1>2, <1>3, <2>2, <3>1, <3>2 DEF OwnUnit
    <3>4. Phase(u)'
      BY <1>1, <1>2, <1>3, <1>5, <3>1, <3>2, StartEnds
    <3> QED BY <1>6, <3>3, <3>4 DEF LoneInv
  <2>4. CASE ~ActiveAtOnce(u, cmd)
    <3>0. stack' = Return /\ armed' = ArmStart(u)
      BY <1>13, <2>4 DEF Spawned
    <3>1. ~Plain(u)
      <4>1. ServiceType[u] = "simple" /\ ExecCount[u]["StartPre"] = 0 => cmd = "Start"
        BY <1>2 DEF Upcoming
      <4> QED BY <1>2, <2>4, <4>1 DEF Plain, ActiveAtOnce
    <3>3. /\ units'[u].active = units[u].active /\ units'[u].loaded
          /\ units'[u].sub \in {units[u].sub, "start"} /\ units'[u].group_pid = p
          /\ units'[u].control_command \in {"none", cmd}
          /\ ServiceType[u] # "notify" => units'[u].control_pid = p
      <4>1. CASE cmd = "Start" /\ ServiceType[u] = "notify"
        <5>1. units' = [units EXCEPT ![u] = [r EXCEPT !.main_pid = p, !.control_pid = NoPid,
                                                      !.control_command = NoCommand]]
          BY <1>13, <2>4, <4>1 DEF Spawned
        <5> QED BY <1>2, <1>8, <4>1, <5>1 DEF UnitRec, NoCommand
      <4>2. CASE ~(cmd = "Start" /\ ServiceType[u] = "notify")
        <5>1. PICK sub \in {units[u].sub, "start"} :
                units' = [units EXCEPT ![u] = [r EXCEPT !.control_pid = p, !.control_command = cmd,
                                                        !.sub = sub]]
          <6>1. units' = [units EXCEPT ![u] = [r EXCEPT !.control_pid = p, !.control_command = cmd,
                            !.sub = IF cmd = "Start" /\ ServiceType[u] = "oneshot" THEN "start" ELSE @]]
            BY <1>13, <2>4, <4>2 DEF Spawned
          <6>2. r.sub = units[u].sub
            BY <1>8 DEF UnitRec
          <6> QED BY <6>1, <6>2
        <5> QED BY <1>2, <1>8, <5>1 DEF UnitRec
      <4> QED BY <4>1, <4>2
    <3>4. Settled(u)'
      BY <1>2, <1>7, <3>1, <3>3 DEF Settled, Underway
    <3>5. OwnUnit(u)'
      <4>1. cmd = "StartPost" => ServiceType[u] = "oneshot"
        BY <1>2 DEF Upcoming
      <4>2. \A kind : <<u, kind>> \in armed' => \/ <<u, kind>> \in armed
                                                \/ kind = "StartTimeout" /\ u \in StartTimeouts
        BY <3>0 DEF ArmStart
      <4>3. Staged(u) => \A x \in Unreaped(u)' : x = units'[u].group_pid /\ x = units'[u].control_pid
        BY <2>2, <3>3 DEF Staged
      <4>4. Staged(u) => units'[u].active \in {"active", "activating"}
        BY <1>2, <3>3
      <4>5. units'[u].sub = "auto-restart" => units'[u].active = "activating" /\ ~Staged(u)
        BY <1>3, <3>3 DEF OwnUnit
      <4>6. units'[u].control_command = "StartPost" => ServiceType[u] = "oneshot"
        BY <3>3, <4>1
      <4>7. /\ <<u, "StartTimeout">> \in armed' => u \in StartTimeouts
            /\ <<u, "StopTimeout">> \in armed' => u \in StopTimeouts
        BY <1>3, <4>2 DEF OwnUnit
      <4> QED BY <1>2, <3>3, <4>3, <4>4, <4>5, <4>6, <4>7 DEF OwnUnit
    <3> QED BY <1>1, <1>5, <1>6, <3>0, <3>4, <3>5, RestsAgain DEF LoneInv
  <2> QED BY <2>3, <2>4
<1>14. CASE /\ \E r \in {units[u], [units[u] EXCEPT !.cgroup = UseCgroup]} :
                  units' = [units EXCEPT ![u] = Set(r, "failed", "failed")]
            /\ Call(FailCalls(u))
            /\ UNCHANGED <<armed, procs>>
  <2>1. PICK r \in {units[u], [units[u] EXCEPT !.cgroup = UseCgroup]} :
          units' = [units EXCEPT ![u] = Set(r, "failed", "failed")]
    BY <1>14
  <2>2. "failed" \notin {"activating", "deactivating"} /\ "failed" # "auto-restart"
    OBVIOUS
  <2> QED BY <1>9, <1>14, <2>1, <2>2
<1> QED BY <1>1, <1>11, <1>12, <1>13, <1>14, SpawnWays

\* spawn_control, of another unit or of u.
LEMMA SpawnLone ==
  ASSUME TypeOK, IndexInv, NEW u \in Units, Standalone(u), LoneInv(u), SpawnControl
  PROVE  LoneInv(u)'
<1>1. Calling("spawn") /\ Unrelated(u)
  BY DEF SpawnControl, Standalone
<1>2. \/ Resting(u) /\ Quiet(Top, u, OtherIds(u))
      \/ AtWork(u) /\ Work(Top, u) /\ QuietBeneath(1, u)
  BY <1>1, AtRest DEF LoneInv
<1> QED BY <1>1, <1>2, SpawnElsewhere, SpawnOwn

-----------------------------------------------------------------------------
(* Requests and events.                                                    *)

\* Between events u rests.
LEMMA LoneRests ==
  ASSUME NEW u, LoneInv(u), stack = <<>>
  PROVE  Settled(u) /\ OwnJob(u) /\ OwnUnit(u)
<1>1. ~AtWork(u) /\ ~Released(u)
  BY DEF AtWork, Released
<1> QED BY <1>1 DEF LoneInv, Phase, Resting

\* An event that leaves u alone, and makes no call that concerns it.
LEMMA EventElsewhere ==
  ASSUME TypeOK, IndexInv, NEW u \in Units, LoneInv(u), stack = <<>>, SameJob(u), SameUnit(u),
         NoWaiter(u)',
         \/ stack' = <<>>
         \/ \E f : stack' = <<f>> /\ Quiet(f, u, OtherIds(u)')
         \/ \E f, g : stack' = <<f, g>> /\ Quiet(f, u, OtherIds(u)') /\ Quiet(g, u, OtherIds(u)')
  PROVE  LoneInv(u)'
<1>1. OwnJob(u)' /\ OwnUnit(u)' /\ Settled(u)'
  BY LoneRests, SameJobKept, SameUnitKept DEF SameUnit
<1> QED BY <1>1, AfterEvent DEF LoneInv

\* Requests about u and about other units.
LEMMA RequestPlain ==
  ASSUME TypeOK, IndexInv, NEW u \in Units, LoneInv(u), NEW v \in Units,
         RequestStart(v) \/ RequestStop(v) \/ RequestIsolate(v) \/ RequestKill(v)
  PROVE  LoneInv(u)'
<1>1. stack = <<>>
  BY DEF RequestStart, RequestStop, RequestIsolate, RequestKill, Request, Quiescent
<1>2. UNCHANGED engineVars
  BY DEF RequestStart, RequestStop, RequestIsolate, RequestKill, Panic, engineVars
<1>3. SameJob(u) /\ NoWaiter(u)'
  BY <1>1, <1>2, LoneRests, SameTable
<1>4. SameUnit(u)
  <2>1. UNCHANGED units /\ UNCHANGED armed
    BY DEF RequestStart, RequestStop, RequestIsolate, RequestKill, Panic, outside
  <2>2. UNCHANGED procs \/ \E st \in {"termed", "killed"} : procs' = Signalled(Tree(v), st)
    BY DEF RequestStart, RequestStop, RequestIsolate, RequestKill, Panic, outside
  <2>3. Unreaped(u)' = Unreaped(u)
    BY <2>2, SignalledStay DEF Unreaped
  <2> QED BY <2>1, <2>3 DEF SameUnit
<1>5. Quiet(UnitCall("start", v), u, OtherIds(u)')
  BY QuietFrames DEF JobFrames
<1>6. \A irr : Quiet(Stop(v, irr), u, OtherIds(u)')
  BY QuietFrames
<1>7. \A todo : Quiet(Loop("stop_all", NoUnit, 0, todo, {}), u, OtherIds(u)')
  BY QuietFrames
<1>8. CASE RequestStart(v)
  <2> DEFINE f == UnitCall("start", v)
  <2>1. stack' = <<f>>
    BY <1>8 DEF RequestStart
  <2> HIDE DEF f
  <2> QED BY <1>1, <1>3, <1>4, <1>5, <2>1, EventElsewhere DEF f
<1>9. CASE RequestStop(v)
  <2>1. PICK irr : stack' = <<Stop(v, irr)>>
    BY <1>9 DEF RequestStop
  <2> DEFINE f == Stop(v, irr)
  <2>2. stack' = <<f>> /\ Quiet(f, u, OtherIds(u)')
    BY <1>6, <2>1
  <2> HIDE DEF f
  <2> QED BY <1>1, <1>3, <1>4, <2>2, EventElsewhere
<1>10. CASE RequestIsolate(v)
  <2>1. PICK todo : stack' = <<Loop("stop_all", NoUnit, 0, todo, {}), UnitCall("start", v)>>
    BY <1>10 DEF RequestIsolate
  <2> DEFINE f == Loop("stop_all", NoUnit, 0, todo, {})
             g == UnitCall("start", v)
  <2>2. stack' = <<f, g>> /\ Quiet(f, u, OtherIds(u)') /\ Quiet(g, u, OtherIds(u)')
    BY <1>5, <1>7, <2>1
  <2> HIDE DEF f, g
  <2> QED BY <1>1, <1>3, <1>4, <2>2, EventElsewhere
<1>11. CASE RequestKill(v)
  <2>1. stack' = <<>>
    BY <1>1, <1>11 DEF RequestKill, Panic
  <2> QED BY <1>1, <1>3, <1>4, <2>1, EventElsewhere
<1> QED BY <1>8, <1>9, <1>10, <1>11

\* restart drops a pending start of u, and stops it to start it again.
LEMMA RestartLone ==
  ASSUME TypeOK, IndexInv, NEW u \in Units, LoneInv(u), NEW v \in Units, RequestRestart(v)
  PROVE  LoneInv(u)'
<1> DEFINE jid == unit_job[v]
<1>1. stack = <<>> /\ UNCHANGED <<units, outside, next_job>> /\ units[v].loaded
  BY DEF RequestRestart, Request, Quiescent, engineVars
<1>2. Settled(u) /\ OwnJob(u) /\ OwnUnit(u)
  BY <1>1, LoneRests
<1>3. SameUnit(u)
  BY <1>1 DEF outside, SameUnit, Unreaped
<1>4. OwnUnit(u)'
  BY <1>2, <1>3, SameUnitKept
<1>5. CASE stack' = <<UnitCall("start", v)>> /\ UNCHANGED engineVars
  <2> DEFINE f == UnitCall("start", v)
  <2>1. stack' = <<f>> /\ Quiet(f, u, OtherIds(u)')
    BY <1>5, QuietFrames DEF JobFrames
  <2> HIDE DEF f
  <2> QED BY <1>1, <1>2, <1>3, <1>5, <2>1, SameTable, EventElsewhere
<1> DEFINE f == EnqueueStop(v, TRUE, FALSE)
           g == Process
<1>6. Quiet(g, u, OtherIds(u)')
  BY QuietFrames
<1>7. CASE stack' = <<f, g>> /\ unit_operational(v) /\ UNCHANGED engineVars /\ ~PendingStart(v)
  <2>1. SameJob(u) /\ NoWaiter(u)' /\ OtherIds(u)' = OtherIds(u)
    BY <1>2, <1>7, SameTable DEF engineVars, OtherIds, JobsOf
  <2>2. CASE v # u
    <3>1. Quiet(f, u, OtherIds(u)')
      BY <2>2, QuietFrames
    <3> HIDE DEF f, g
    <3> QED BY <1>1, <1>3, <1>6, <1>7, <2>1, <3>1, EventElsewhere
  <2>3. CASE v = u
    <3>1. unit_job[u] = 0
      BY <1>2, <1>7, <2>3, IndexedOwn DEF Settled, unit_operational
    <3>2. f.op = "enqueue_stop" /\ f.unit = u
      BY <2>3 DEF EnqueueStop, Frm
    <3> HIDE DEF f, g
    <3>3. Work(f, u)
      BY <1>1, <1>7, <2>3, <3>1, <3>2 DEF Work
    <3>4. Work(f, u)'
      BY <1>3, <2>1, <3>3, WorkKept
    <3>5. OwnJob(u)'
      BY <1>2, <2>1, SameJobKept
    <3> QED BY <1>1, <1>4, <1>6, <1>7, <3>4, <3>5, AfterEvent DEF LoneInv
  <2> QED BY <2>2, <2>3
<1>8. CASE /\ stack' = <<f, g>> /\ unit_operational(v) /\ PendingStart(v)
           /\ jobs' = [i \in DOMAIN jobs \ {jid} |-> jobs[i]]
           /\ unit_job' = [unit_job EXCEPT ![v] = 0]
  <2>1. jid \in DOMAIN jobs /\ jobs[jid].unit = v
    BY <1>8 DEF IndexInv, JobIndex, PendingStart
  <2>2. DOMAIN jobs' = DOMAIN jobs \ {jid} /\ \A i \in DOMAIN jobs' : jobs'[i] = jobs[i]
    BY <1>8
  <2>3. unit_job'[u] = IF v = u THEN 0 ELSE unit_job[u]
    BY <1>8 DEF TypeOK, JobsTypeOK
  <2>4. CASE v # u
    <3>1. JobsOf(u)' = JobsOf(u)
      BY <2>1, <2>2, <2>4 DEF JobsOf
    <3>2. SameJob(u) /\ NoWaiter(u)'
      BY <1>2, <2>1, <2>2, <2>3, <2>4, <3>1 DEF SameJob, NoWaiter, OwnJob, JobsOf
    <3>3. Quiet(f, u, OtherIds(u)')
      BY <2>4, QuietFrames
    <3> HIDE DEF f, g
    <3> QED BY <1>1, <1>3, <1>6, <1>8, <3>2, <3>3, EventElsewhere
  <2>5. CASE v = u
    <3>1. JobsOf(u) = {jid}
      BY <1>2, <2>1, <2>5, OnlyJob DEF JobsOf
    <3>2. JobsOf(u)' = {}
      BY <2>2, <2>5, <3>1 DEF JobsOf
    <3>3. OwnJob(u)'
      BY <1>2, <2>2, <3>2 DEF OwnJob
    <3>4. f.op = "enqueue_stop" /\ f.unit = u
      BY <2>5 DEF EnqueueStop, Frm
    <3>5. unit_operational(u)' /\ units'[u].loaded /\ unit_job'[u] = 0
      BY <1>1, <1>8, <2>3, <2>5 DEF unit_operational
    <3> HIDE DEF f, g
    <3>6. Work(f, u)'
      BY <3>4, <3>5 DEF Work
    <3> QED BY <1>1, <1>4, <1>6, <1>8, <3>3, <3>6, AfterEvent DEF LoneInv
  <2> QED BY <2>4, <2>5
<1> QED BY <1>5, <1>7, <1>8 DEF RequestRestart, engineVars

\* reset-failed.
LEMMA ResetFailedLone ==
  ASSUME TypeOK, IndexInv, NEW u \in Units, LoneInv(u), NEW v \in Units, RequestResetFailed(v)
  PROVE  LoneInv(u)'
<1>1. /\ stack = <<>> /\ stack' = <<>> /\ UNCHANGED engineVars /\ UNCHANGED outside
      /\ units[v].active = "failed" /\ units' = [units EXCEPT ![v] = Set(units[v], "inactive", "dead")]
  BY DEF RequestResetFailed, Request, Quiescent
<1>2. Settled(u) /\ OwnJob(u) /\ OwnUnit(u) /\ SameJob(u) /\ NoWaiter(u)'
  BY <1>1, LoneRests, SameTable
<1>3. CASE v # u
  <2>1. SameUnit(u)
    BY <1>1, <1>3 DEF SameUnit, outside, Unreaped, TypeOK
  <2> QED BY <1>1, <1>2, <2>1, EventElsewhere
<1>4. CASE v = u
  <2>1. /\ units'[u].active = "inactive" /\ units'[u].sub = "dead"
        /\ units'[u].loaded = units[u].loaded
        /\ units'[u].control_command = units[u].control_command
    BY <1>1, <1>4 DEF Set, TypeOK, UnitRec
  <2>2. OwnUnit(u)'
    BY <1>1, <1>2, <1>4, <2>1 DEF OwnUnit, outside, Unreaped
  <2>3. PendingStart(u)' = PendingStart(u) /\ PendingStop(u)' = PendingStop(u)
    BY <1>2, SameJobKept
  <2>4. PendingStart(u) => /\ jobs'[unit_job'[u]] = jobs[unit_job[u]]
                           /\ "failed" \in StartStates(u)
    BY <1>1, <1>2, <1>4, SameJobKept DEF SameJob, PendingStart, Settled
  <2>5. "failed" \in StartStates(u) => "inactive" \in StartStates(u)
    BY DEF StartStates
  <2>6. ~PendingStop(u)
    BY <1>1, <1>2, <1>4 DEF Settled
  <2>7. Settled(u)'
    BY <1>2, <2>1, <2>3, <2>4, <2>5, <2>6 DEF Settled, PendingStart
  <2>8. OwnJob(u)'
    BY <1>2, SameJobKept
  <2> QED BY <1>1, <2>2, <2>7, <2>8, AfterEvent DEF LoneInv
<1> QED BY <1>3, <1>4

\* Shutdown: the timers are gone, and every unit is to be stopped.
LEMMA ShutdownLone ==
  ASSUME TypeOK, IndexInv, NEW u \in Units, LoneInv(u), Shutdown
  PROVE  LoneInv(u)'
<1>1. stack = <<>> /\ UNCHANGED engineVars /\ armed' = {} /\ UNCHANGED <<units, procs>>
  BY DEF Shutdown, Request, Quiescent
<1>2. SameUnit(u)
  BY <1>1 DEF SameUnit, Unreaped
<1>3. PICK todo : stack' = <<Loop("stop_all", NoUnit, 0, todo, {}), Process>>
  BY DEF Shutdown
<1> DEFINE f == Loop("stop_all", NoUnit, 0, todo, {})
           g == Process
<1>4. stack' = <<f, g>> /\ Quiet(f, u, OtherIds(u)') /\ Quiet(g, u, OtherIds(u)')
  BY <1>3, QuietFrames
<1> HIDE DEF f, g
<1> QED BY <1>1, <1>2, <1>4, LoneRests, SameTable, EventElsewhere

\* Every request of a client.
LEMMA RequestLone ==
  ASSUME TypeOK, IndexInv, NEW u \in Units, OrdinaryRequests, LoneInv(u), RequestNext
  PROVE  LoneInv(u)'
<1>1. ASSUME NEW v \in Units PROVE ~RequestStartIgnore(v) /\ ~RequestReload(v)
  BY DEF OrdinaryRequests, RequestStartIgnore, RequestReload, Request
<1>2. ~DaemonReload
  BY DEF OrdinaryRequests, DaemonReload, Request
<1> QED BY <1>1, <1>2, RequestPlain, RestartLone, ResetFailedLone, ShutdownLone DEF RequestNext

\* An event about another unit: it makes the calls that end a start or a stop of it,
\* or none.
LEMMA EventOther ==
  ASSUME TypeOK, IndexInv, NEW u \in Units, Unrelated(u), LoneInv(u), stack = <<>>,
         NEW v \in Units, v # u, UNCHANGED engineVars, SameUnit(u),
         \/ stack' = <<>> \/ stack' = CompleteStart(v) \/ stack' = FailCalls(v)
         \/ \E g : Quiet(g, u, OtherIds(u)) /\ stack' = <<g>>
         \/ \E g, h : Quiet(g, u, OtherIds(u)) /\ Quiet(h, u, OtherIds(u)) /\ stack' = <<g, h>>
  PROVE  LoneInv(u)'
<1>1. SameJob(u) /\ NoWaiter(u)' /\ OtherIds(u)' = OtherIds(u)
  BY LoneRests, SameTable DEF engineVars, OtherIds, JobsOf
<1> DEFINE c == Finish(unit_job[v], TRUE)
           h == Loop("on_failure", v, 0, OnFailure[v], {})
<1>2. Quiet(c, u, OtherIds(u)) /\ Quiet(h, u, OtherIds(u))
  BY OtherEnds
<1>3. CASE stack' = CompleteStart(v)
  <2>1. stack' = <<>> \/ stack' = <<c>>
    BY <1>3, OtherEnds
  <2> HIDE DEF c, h
  <2> QED BY <1>1, <1>2, <2>1, EventElsewhere
<1>4. CASE stack' = FailCalls(v)
  <2>1. PICK f : stack' = <<f, h>> /\ Quiet(f, u, OtherIds(u))
    BY <1>4, OtherEnds
  <2> HIDE DEF c, h
  <2> QED BY <1>1, <1>2, <2>1, EventElsewhere
<1> HIDE DEF c, h
<1> QED BY <1>1, <1>3, <1>4, EventElsewhere

\* The start or stop timeout, or the restart delay, of a unit.
LEMMA FireTimerLone ==
  ASSUME TypeOK, IndexInv, NEW u \in Units, Standalone(u), LoneInv(u),
         NEW v \in Units, NEW kind \in TimerKinds, FireTimer(v, kind)
  PROVE  LoneInv(u)'
<1>1. /\ stack = <<>> /\ UNCHANGED engineVars /\ Unrelated(u)
      /\ <<v, kind>> \in armed /\ armed' = armed \ {<<v, kind>>}
  BY DEF FireTimer, Quiescent, Standalone
<1>2. Settled(u) /\ OwnJob(u) /\ OwnUnit(u)
  BY <1>1, LoneRests
<1>3. SameJob(u) /\ NoWaiter(u)'
  BY <1>1, <1>2, SameTable
<1>4. OwnJob(u)'
  BY <1>2, <1>3, SameJobKept
<1>5. UNCHANGED procs \/ \E st \in {"killed"} : procs' = Signalled(Tree(v), st)
  BY DEF FireTimer
<1>6. Unreaped(u)' = Unreaped(u)
  BY <1>5, SignalledStay DEF Unreaped
<1> DEFINE restart == UnitCall("do_start", v)
           final == UnitCall("finalize", v)
<1>7. \/ /\ kind = "RestartDelay" /\ units[v].sub = "auto-restart"
         /\ stack' = <<restart, Process>> /\ UNCHANGED units
      \/ /\ kind = "StartTimeout" /\ units[v].active = "activating"
         /\ units' = [units EXCEPT ![v] = Set(units[v], "failed", "failed")]
         /\ stack' = FailCalls(v)
      \/ /\ kind = "StopTimeout" /\ units[v].active = "deactivating"
         /\ stack' = <<final>> /\ UNCHANGED units
      \/ stack' = <<>> /\ UNCHANGED units
  BY <1>1 DEF FireTimer, MarkFailed
<1>8. Quiet(Process, u, OtherIds(u)) /\ Quiet(Process, u, OtherIds(u)')
  BY QuietFrames
<1>9. CASE v # u
  <2>1. Quiet(restart, u, OtherIds(u)) /\ Quiet(final, u, OtherIds(u))
    BY <1>9, QuietFrames DEF JobFrames
  <2>2. units'[u] = units[u]
    BY <1>7, <1>9 DEF TypeOK
  <2>3. SameUnit(u)
    BY <1>1, <1>6, <2>2 DEF SameUnit
  <2> HIDE DEF restart, final
  <2> QED BY <1>1, <1>7, <1>8, <1>9, <2>1, <2>3, EventOther
<1>10. CASE v = u /\ UNCHANGED units
  <2>1. SameUnit(u)
    BY <1>1, <1>6, <1>10 DEF SameUnit
  <2>2. OwnUnit(u)'
    BY <1>2, <2>1, SameUnitKept
  <2>3. units[u].active # "inactive" => units[u].loaded
    BY <1>2 DEF OwnUnit
  <2>4. CASE /\ kind = "RestartDelay" /\ units[u].sub = "auto-restart"
             /\ stack' = <<restart, Process>>
    <3>1. units[u].active = "activating" /\ ~Staged(u)
      BY <1>2, <2>4 DEF OwnUnit
    <3>2. ~PendingStop(u) /\ Underway(u) /\ Down(u) /\ Childless(u)
      BY <1>2, <2>3, <3>1 DEF Settled, Underway, Down, Childless
    <3>3. PICK f : f = restart
      OBVIOUS
    <3>4. f.op = "do_start" /\ f.unit = u
      BY <1>10, <3>3 DEF UnitCall, Frm
    <3>5. Work(f, u)
      BY <3>1, <3>2, <3>4 DEF Work
    <3>6. Work(f, u)'
      BY <1>3, <2>1, <3>5, WorkKept
    <3>7. Phase(u)'
      BY <1>1, <1>8, <2>4, <3>3, <3>6, AfterEvent
    <3> QED BY <1>4, <2>2, <3>7 DEF LoneInv
  <2>5. CASE /\ kind = "StopTimeout" /\ units[u].active = "deactivating" /\ stack' = <<final>>
    <3>1. ~Staged(u)
      BY <1>1, <1>2, <1>10, <2>5 DEF Standalone, OwnUnit
    <3>2. ~PendingStart(u) /\ Childless(u) /\ units[u].loaded
      BY <1>2, <2>3, <2>5, <3>1, IndexedOwn DEF Settled, Childless
    <3>3. PICK f : f = final
      OBVIOUS
    <3>4. f.op = "finalize" /\ f.unit = u
      BY <1>10, <3>3 DEF UnitCall, Frm
    <3>5. Work(f, u)
      BY <3>2, <3>4 DEF Work
    <3>6. Work(f, u)'
      BY <1>3, <2>1, <3>5, WorkKept
    <3>7. Phase(u)'
      BY <1>1, <2>5, <3>3, <3>6, AfterEvent
    <3> QED BY <1>4, <2>2, <3>7 DEF LoneInv
  <2>6. CASE stack' = <<>>
    BY <1>1, <1>3, <2>1, <2>6, EventElsewhere
  <2>7. CASE stack' = FailCalls(u) /\ kind = "StartTimeout" /\ units[u].active = "activating"
             /\ units' = [units EXCEPT ![v] = Set(units[v], "failed", "failed")]
    <3>1. units'[u].active = "failed"
      BY <1>10, <2>7 DEF TypeOK, Set, UnitRec
    <3> QED BY <1>10, <2>7, <3>1
  <2> QED BY <1>7, <1>10, <2>4, <2>5, <2>6, <2>7
<1>11. CASE /\ v = u /\ kind = "StartTimeout" /\ units[v].active = "activating"
            /\ units' = [units EXCEPT ![v] = Set(units[v], "failed", "failed")]
            /\ stack' = FailCalls(v)
  <2>1. ~Staged(u) /\ units[u].loaded
    BY <1>1, <1>2, <1>11 DEF Standalone, OwnUnit
  <2>2. ~PendingStop(u)
    BY <1>2, <1>11 DEF Settled
  <2>3. /\ units'[u].active = "failed" /\ units'[u].sub = "failed" /\ units'[u].loaded
        /\ units'[u].control_command = units[u].control_command
    BY <1>11, <2>1 DEF TypeOK, Set, UnitRec
  <2>4. OwnUnit(u)'
    BY <1>1, <1>2, <1>6, <2>1, <2>3 DEF OwnUnit
  <2>5. Phase(u)'
    BY <1>1, <1>2, <1>11, <2>2, <2>3, StartEnded
  <2> QED BY <1>4, <2>4, <2>5 DEF LoneInv
<1> QED BY <1>7, <1>9, <1>10, <1>11

-----------------------------------------------------------------------------
(* The exit of a child of one unit.                                        *)

\* What a reaped child leaves of the processes of each unit.
LEMMA ReapedChildren ==
  ASSUME TypeOK, NEW p \in Pids, NEW v \in Units, procs[p].unit = v, NEW exit, NEW ps,
         ps = [procs EXCEPT ![p] = [st |-> "free", unit |-> NoUnit]],
         \/ ControlExit(v, ps, exit)
         \/ \E d \in Pids \ {p} : ForkedDaemon(v, ps, d)
         \/ MainExit(v, ps, exit)
  PROVE  /\ \A u \in Units : u # v => Unreaped(u)' = Unreaped(u)
         /\ ControlExit(v, ps, exit) \/ MainExit(v, ps, exit) => Unreaped(v)' = Unreaped(v) \ {p}
<1>1. /\ procs \in [Pids -> Proc] /\ ps[p].st = "free" /\ NoUnit \notin Units /\ ps[p].unit = NoUnit
      /\ \A q \in Pids : q # p => ps[q] = procs[q]
  BY UnitsAssumption DEF TypeOK
<1>2. \A u \in Units : {q \in Pids : ps[q].unit = u /\ ps[q].st # "free"} = Unreaped(u) \ {p}
  BY <1>1 DEF Unreaped
<1>3. \A u \in Units : u # v => p \notin Unreaped(u)
  BY DEF Unreaped
<1>4. CASE ControlExit(v, ps, exit)
  <2>1. procs' = ps
    BY <1>4 DEF ControlExit
  <2> QED BY <1>2, <1>3, <2>1 DEF Unreaped
<1>5. CASE MainExit(v, ps, exit)
  <2> DEFINE S == Swept(v, ps)
  <2>1. procs' = [q \in Pids |-> IF q \in S /\ ps[q].st \in Alive
                                          THEN [ps[q] EXCEPT !.st = "killed"] ELSE ps[q]]
    BY <1>5 DEF MainExit
  <2> HIDE DEF S
  <2>2. \A q \in Pids : q # p => ps[q] \in [st : ProcState, unit : Units \cup {NoUnit}]
    BY <1>1 DEF Proc
  <2>3. \A q \in Pids : /\ procs'[q].unit = ps[q].unit
                        /\ procs'[q].st # "free" <=> ps[q].st # "free"
    <3>1. TAKE q \in Pids
    <3>2. CASE q \in S /\ ps[q].st \in Alive
      <4>1. q # p
        BY <1>1, <3>2 DEF Alive
      <4>2. procs'[q] = [ps[q] EXCEPT !.st = "killed"]
        BY <2>1, <3>2
      <4> QED BY <2>2, <3>2, <4>1, <4>2 DEF Alive
    <3>3. CASE ~(q \in S /\ ps[q].st \in Alive)
      BY <2>1, <3>3
    <3> QED BY <3>2, <3>3
  <2> QED BY <1>2, <1>3, <2>3 DEF Unreaped
<1>6. ASSUME NEW d \in Pids \ {p}, ForkedDaemon(v, ps, d)
      PROVE  \A u \in Units : u # v => Unreaped(u)' = Unreaped(u)
  <2>1. procs' = [ps EXCEPT ![d] = [st |-> "running", unit |-> v]] /\ procs[d].st = "free"
    BY <1>1, <1>6 DEF ForkedDaemon
  <2>2. ASSUME NEW u \in Units, u # v PROVE Unreaped(u)' = Unreaped(u)
    <3>1. \A q \in Pids : procs'[q].unit = u /\ procs'[q].st # "free"
                          <=> procs[q].unit = u /\ procs[q].st # "free"
      <4>1. TAKE q \in Pids
      <4>2. CASE q = d
        BY <1>1, <2>1, <2>2, <4>2
      <4>3. CASE q = p /\ q # d
        BY <1>1, <2>1, <2>2, <4>3
      <4>4. CASE q # p /\ q # d
        BY <1>1, <2>1, <4>4
      <4> QED BY <4>2, <4>3, <4>4
    <3> QED BY <3>1 DEF Unreaped
  <2> QED BY <2>2
<1>7. CASE ~ControlExit(v, ps, exit) /\ ~MainExit(v, ps, exit)
  BY <1>6, <1>7
<1> QED BY <1>4, <1>5, <1>7

\* The child of another unit.
LEMMA ReapOther ==
  ASSUME TypeOK, IndexInv, NEW u \in Units, Unrelated(u), LoneInv(u), stack = <<>>,
         NEW p \in Pids, NEW v \in Units, v # u, procs[p].unit = v, NEW exit, NEW ps,
         ps = [procs EXCEPT ![p] = [st |-> "free", unit |-> NoUnit]], UNCHANGED engineVars,
         \/ ControlExit(v, ps, exit)
         \/ \E d \in Pids \ {p} : ForkedDaemon(v, ps, d)
         \/ MainExit(v, ps, exit)
  PROVE  LoneInv(u)'
<1>1. Unreaped(u)' = Unreaped(u)
  BY ReapedChildren
<1>2. \E r : units' = [units EXCEPT ![v] = r]
  <2>1. CASE ControlExit(v, ps, exit)
    BY <2>1 DEF ControlExit
  <2>2. CASE \E d \in Pids \ {p} : ForkedDaemon(v, ps, d)
    BY <2>2 DEF ForkedDaemon
  <2>3. CASE MainExit(v, ps, exit)
    BY <2>3 DEF MainExit, HandleActiveExit
  <2> QED BY <2>1, <2>2, <2>3
<1>3. armed' \subseteq armed \cup {<<v, "RestartDelay">>}
  BY DEF ControlExit, ForkedDaemon, MainExit, HandleActiveExit
<1>4. SameUnit(u)
  <2>1. units'[u] = units[u]
    BY <1>2 DEF TypeOK
  <2>2. \A kind \in TimerKinds : <<u, kind>> \in armed' => <<u, kind>> \in armed
    BY <1>3
  <2> QED BY <1>1, <2>1, <2>2 DEF SameUnit
<1> DEFINE next == units[v].cmd_index + 1
           final == UnitCall("finalize", v)
           h == Loop("on_failure", v, 0, OnFailure[v], {})
<1>5. Quiet(final, u, OtherIds(u))
  BY QuietFrames DEF JobFrames
<1>6. /\ Quiet(Spawn(v, "Start", 0), u, OtherIds(u)) /\ Quiet(Spawn(v, "StartPost", 0), u, OtherIds(u))
      /\ Quiet(Spawn(v, "Start", next), u, OtherIds(u))
      /\ Quiet(Poke(v), u, OtherIds(u)) /\ Quiet(h, u, OtherIds(u))
  BY QuietFrames, OtherEnds
<1>7. \/ stack' = <<>> \/ stack' = <<final>>
      \/ stack' = <<Spawn(v, "Start", 0)>> \/ stack' = <<Spawn(v, "Start", next)>>
      \/ stack' = <<Spawn(v, "StartPost", 0)>> \/ stack' = FailCalls(v)
      \/ stack' = CompleteStart(v) \/ stack' = <<Poke(v)>> \/ stack' = <<Poke(v), h>>
  BY DEF ControlExit, ForkedDaemon, MainExit, HandleActiveExit
<1>8. \/ stack' = <<>> \/ stack' = CompleteStart(v) \/ stack' = FailCalls(v)
      \/ \E g : Quiet(g, u, OtherIds(u)) /\ stack' = <<g>>
      \/ \E g, k : Quiet(g, u, OtherIds(u)) /\ Quiet(k, u, OtherIds(u)) /\ stack' = <<g, k>>
  <2> HIDE DEF final, h, next
  <2> QED BY <1>5, <1>6, <1>7
<1> QED BY <1>4, <1>8, EventOther

\* The record of a unit whose child was reaped.
LEMMA OwnRecord ==
  ASSUME TypeOK, NEW u \in Units, OwnUnit(u), u \notin Targets, NEW r \in UnitRec,
         units' = [units EXCEPT ![u] = r], r.loaded,
         r.control_command \in {"none", units[u].control_command},
         r.sub = "auto-restart" => r.active = "activating" /\ ~Staged(u),
         Staged(u) => Unreaped(u)' = {},
         armed' \subseteq armed \cup {<<u, "RestartDelay">>}
  PROVE  OwnUnit(u)'
<1>1. units'[u] = r
  BY DEF TypeOK
<1>2. r.control_command = "StartPost" => ServiceType[u] = "oneshot"
  BY DEF OwnUnit
<1>3. /\ <<u, "StartTimeout">> \in armed' => u \in StartTimeouts
      /\ <<u, "StopTimeout">> \in armed' => u \in StopTimeouts
  BY DEF OwnUnit
<1> QED BY <1>1, <1>2, <1>3 DEF OwnUnit

\* What main_exit and handle_control_exit make of the record.
LEMMA GoneRecord ==
  ASSUME NEW u \in Units, NEW rec \in UnitRec
  PROVE  /\ MainGone(rec) \in UnitRec /\ ControlGone(rec) \in UnitRec
         /\ MainGone(rec).loaded = rec.loaded /\ MainGone(rec).active = rec.active
         /\ MainGone(rec).sub = rec.sub /\ MainGone(rec).control_command = rec.control_command
         /\ ControlGone(rec).loaded = rec.loaded /\ ControlGone(rec).active = rec.active
         /\ ControlGone(rec).sub = rec.sub /\ ControlGone(rec).control_command = "none"
         /\ ControlGone(rec).cmd_index = rec.cmd_index
BY DEF MainGone, ControlGone, UnitRec, NoCommand

\* The record with another active and sub state, as set_active leaves it.
LEMMA SetFields ==
  ASSUME NEW rec \in UnitRec, NEW active \in ActiveState, NEW sub \in SubState
  PROVE  LET r == Set(rec, active, sub) IN
         /\ r \in UnitRec /\ r.active = active /\ r.sub = sub /\ r.loaded = rec.loaded
         /\ r.control_command = rec.control_command
BY DEF Set, UnitRec

\* The record of a service whose last command ended.
LEMMA EndedFields ==
  ASSUME NEW u, NEW rec \in UnitRec
  PROVE  LET r == Ended(rec, u) IN
         /\ r \in UnitRec /\ r.active \in {"active", "inactive"} /\ r.sub \in {"exited", "dead"}
         /\ r.loaded = rec.loaded /\ r.control_command = rec.control_command
<1>1. /\ "active" \in ActiveState /\ "inactive" \in ActiveState
      /\ "exited" \in SubState /\ "dead" \in SubState
  BY DEF ActiveState, SubState
<1>2. \/ Ended(rec, u) = Set(rec, "active", "exited")
      \/ Ended(rec, u) = Set(rec, "inactive", "dead")
  BY DEF Ended
<1> QED BY <1>1, <1>2, SetFields

\* The record with the next command to run.
LEMMA CountFields ==
  ASSUME NEW rec \in UnitRec, NEW n \in Nat, NEW r,
         r = [rec EXCEPT !.cmd_index = n] \/ r = [rec EXCEPT !.start_window = n]
  PROVE  /\ r \in UnitRec /\ r.active = rec.active /\ r.sub = rec.sub /\ r.loaded = rec.loaded
         /\ r.control_command = rec.control_command
BY DEF UnitRec

\* The exit of a child ends u's start, or changes nothing for its job.
LEMMA ReapedOwn ==
  ASSUME TypeOK, IndexInv, NEW u \in Units, Unrelated(u), LoneInv(u), stack = <<>>,
         u \notin Targets, UNCHANGED engineVars, NEW r \in UnitRec,
         units' = [units EXCEPT ![u] = r], r.loaded,
         r.control_command \in {"none", units[u].control_command},
         r.sub = "auto-restart" => r.active = "activating" /\ ~Staged(u),
         Staged(u) => Unreaped(u)' = {},
         armed' \subseteq armed \cup {<<u, "RestartDelay">>},
         \/ /\ units[u].active # "deactivating" /\ r.active \in {"active", "inactive", "failed"}
            /\ stack' = CompleteStart(u) \/ stack' = FailCalls(u)
         \/ /\ \/ r.active = units[u].active
               \/ /\ PendingStart(u) => r.active \in StartStates(u)
                  /\ r.active # "deactivating" /\ units[u].active # "deactivating" /\ ~Staged(u)
               \/ /\ r.active \in {"inactive", "failed"}
                  /\ units[u].active \in {"active", "inactive", "failed"}
            /\ \/ stack' = <<>> \/ stack' = <<Poke(u)>>
               \/ stack' = <<Poke(u), Loop("on_failure", u, 0, OnFailure[u], {})>>
  PROVE  LoneInv(u)'
<1>1. Settled(u) /\ OwnJob(u) /\ OwnUnit(u)
  BY LoneRests
<1>2. SameJob(u) /\ NoWaiter(u)'
  BY <1>1, SameTable
<1>3. OwnJob(u)' /\ OwnUnit(u)'
  BY <1>1, <1>2, SameJobKept, OwnRecord
<1>4. units'[u] = r
  BY DEF TypeOK
<1>5. CASE /\ units[u].active # "deactivating" /\ r.active \in {"active", "inactive", "failed"}
           /\ stack' = CompleteStart(u) \/ stack' = FailCalls(u)
  <2>1. ~PendingStop(u)
    BY <1>1, <1>5 DEF Settled
  <2>2. units'[u].active # "deactivating" /\ units'[u].active # "activating"
    BY <1>4, <1>5
  <2>3. Phase(u)'
    BY <1>1, <1>5, <2>1, <2>2, StartEnded
  <2> QED BY <1>3, <2>3 DEF LoneInv
<1>6. CASE /\ \/ r.active = units[u].active
              \/ /\ PendingStart(u) => r.active \in StartStates(u)
                 /\ r.active # "deactivating" /\ units[u].active # "deactivating" /\ ~Staged(u)
              \/ /\ r.active \in {"inactive", "failed"}
                 /\ units[u].active \in {"active", "inactive", "failed"}
           /\ \/ stack' = <<>> \/ stack' = <<Poke(u)>>
              \/ stack' = <<Poke(u), Loop("on_failure", u, 0, OnFailure[u], {})>>
  <2>1. PendingStart(u)' = PendingStart(u) /\ PendingStop(u)' = PendingStop(u)
    BY <1>2, SameJobKept
  <2>2. unit_job[u] # 0 => jobs'[unit_job'[u]] = jobs[unit_job[u]]
    BY <1>2, SameJobKept DEF SameJob
  <2>3. \/ r.active = units[u].active
        \/ /\ units[u].active # "deactivating" /\ r.active # "deactivating"
           /\ PendingStart(u) /\ units[u].active \in StartStates(u) => r.active \in StartStates(u)
           /\ Staged(u) => r.active # "activating"
    BY <1>6 DEF StartStates
  <2>4. Settled(u)'
    BY <1>1, <1>4, <2>1, <2>2, <2>3 DEF Settled, PendingStart, PendingStop
  <2> DEFINE f == Poke(u)
             g == Loop("on_failure", u, 0, {}, {})
  <2>5. Quiet(f, u, OtherIds(u)') /\ Quiet(g, u, OtherIds(u)')
    BY <1>1, QuietEnds, QuietFrames
  <2>6. stack' = <<>> \/ stack' = <<f>> \/ stack' = <<f, g>>
    BY <1>6, UnrelatedUnit
  <2> HIDE DEF f, g
  <2>7. Phase(u)'
    BY <2>4, <2>5, <2>6, AfterEvent
  <2> QED BY <1>3, <2>7 DEF LoneInv
<1> QED BY <1>5, <1>6

\* ... or leaves it to the end of the stop, or to the next command of the start.
LEMMA ReapedOn ==
  ASSUME TypeOK, IndexInv, NEW u \in Units, Unrelated(u), LoneInv(u), stack = <<>>,
         u \notin Targets, UNCHANGED engineVars, NEW r \in UnitRec,
         units' = [units EXCEPT ![u] = r], r.loaded, units[u].loaded,
         r.control_command \in {"none", units[u].control_command},
         r.sub = units[u].sub, r.active = units[u].active,
         Staged(u) => Unreaped(u)' = {} /\ Unreaped(u) # {},
         armed' = armed, NEW f, stack' = <<f>>,
         \/ f = UnitCall("finalize", u) /\ units[u].active = "deactivating"
         \/ /\ units[u].active # "deactivating"
            /\ \E cmd, idx : f = Spawn(u, cmd, idx) /\ Upcoming(f, u)
  PROVE  LoneInv(u)'
<1>1. Settled(u) /\ OwnJob(u) /\ OwnUnit(u)
  BY LoneRests
<1>2. SameJob(u) /\ NoWaiter(u)'
  BY <1>1, SameTable
<1>3. OwnJob(u)' /\ OwnUnit(u)'
  BY <1>1, <1>2, SameJobKept, OwnRecord DEF OwnUnit
<1>4. units'[u] = r
  BY DEF TypeOK
<1>5. PendingStart(u)' = PendingStart(u) /\ PendingStop(u)' = PendingStop(u)
  BY <1>2, SameJobKept
<1>6. unit_job[u] # 0 => jobs'[unit_job'[u]] = jobs[unit_job[u]]
  BY <1>2, SameJobKept DEF SameJob
<1>7. Childless(u)'
  BY DEF Childless
<1>8. CASE f = UnitCall("finalize", u) /\ units[u].active = "deactivating"
  <2>1. f.op = "finalize" /\ f.unit = u
    BY <1>8 DEF UnitCall, Frm
  <2>2. ~PendingStart(u)
    BY <1>1, <1>8, IndexedOwn DEF Settled
  <2>3. Work(f, u)'
    BY <1>4, <1>5, <1>7, <2>1, <2>2 DEF Work
  <2> QED BY <1>3, <2>3, AfterEvent DEF LoneInv
<1>9. CASE /\ units[u].active # "deactivating"
           /\ \E cmd, idx : f = Spawn(u, cmd, idx) /\ Upcoming(f, u)
  <2>1. f.op = "spawn" /\ f.unit = u /\ Upcoming(f, u)
    BY <1>9 DEF Spawn, Frm
  <2>2. ~PendingStop(u)
    BY <1>1, <1>9 DEF Settled
  <2>3. Underway(u)'
    BY <1>1, <1>5, <1>6 DEF Settled, Underway, PendingStart
  <2>4. PendingStart(u) => units[u].active \in StartStates(u)
    BY <1>1 DEF Settled
  <2>5. Staged(u) => \/ units[u].active = "active"
                     \/ units[u].active = "activating" /\ PendingStart(u)
    <3>1. Staged(u) => units[u].active \in {"active", "activating", "deactivating"}
      BY <1>1 DEF OwnUnit
    <3> QED BY <1>1, <1>9, <3>1 DEF Settled
  <2>6. Upcoming(f, u)'
    BY <2>1 DEF Upcoming
  <2>7. Work(f, u)'
    BY <1>4, <1>5, <1>7, <1>9, <2>1, <2>2, <2>3, <2>4, <2>5, <2>6 DEF Work
  <2> QED BY <1>3, <2>7, AfterEvent DEF LoneInv
<1> QED BY <1>8, <1>9

\* The exit of u's control process.
LEMMA ControlExitOwn ==
  ASSUME TypeOK, IndexInv, NEW u \in Units, Unrelated(u), LoneInv(u), stack = <<>>,
         u \notin Targets, UNCHANGED engineVars, units[u].loaded,
         Staged(u) => Unreaped(u)' = {} /\ Unreaped(u) # {},
         NEW exit, NEW ps, ControlExit(u, ps, exit)
  PROVE  LoneInv(u)'
<1> DEFINE old == units[u]
           ccmd == old.control_command
           rec == ControlGone(old)
           next == old.cmd_index + 1
           step == [rec EXCEPT !.cmd_index = next]
           last == [rec EXCEPT !.cmd_index = 0]
           done == [Ended(rec, u) EXCEPT !.cmd_index = 0]
           failed == Set(rec, "failed", "failed")
           ready == Set(rec, "active", "running")
           To(r, calls) == units' = [units EXCEPT ![u] = r] /\ stack' = calls
<1>1. Settled(u) /\ OwnUnit(u) /\ armed' = armed
  BY LoneRests DEF ControlExit
<1>2. old \in UnitRec /\ next \in Nat /\ 0 \in Nat
  BY DEF TypeOK, UnitRec
<1>3. /\ rec \in UnitRec /\ rec.loaded /\ rec.active = old.active /\ rec.sub = old.sub
      /\ rec.control_command = "none"
  BY <1>2, GoneRecord
<1> HIDE DEF rec, next
<1>4. /\ "failed" \in ActiveState /\ "failed" \in SubState
      /\ "active" \in ActiveState /\ "running" \in SubState
  BY DEF ActiveState, SubState
<1>5. \A r : r \in {step, last} =>
        /\ r \in UnitRec /\ r.loaded /\ r.active = old.active /\ r.sub = old.sub
        /\ r.control_command = "none"
  <2>1. ASSUME NEW r, r = step \/ r = last
        PROVE  /\ r \in UnitRec /\ r.loaded /\ r.active = old.active /\ r.sub = old.sub
               /\ r.control_command = "none"
    <3>1. PICK n \in Nat : r = [rec EXCEPT !.cmd_index = n]
      BY <1>2, <2>1
    <3> QED BY <1>3, <3>1, CountFields
  <2> QED BY <2>1
<1>6. /\ failed \in UnitRec /\ failed.loaded /\ failed.active = "failed" /\ failed.sub = "failed"
      /\ failed.control_command = "none"
      /\ ready \in UnitRec /\ ready.loaded /\ ready.active = "active" /\ ready.sub = "running"
      /\ ready.control_command = "none"
  BY <1>3, <1>4, SetFields
<1>7. /\ Ended(rec, u) \in UnitRec /\ Ended(rec, u).loaded
      /\ Ended(rec, u).active \in {"active", "inactive"} /\ Ended(rec, u).sub \in {"exited", "dead"}
      /\ Ended(rec, u).control_command = "none"
  BY <1>3, EndedFields
<1>8. /\ done \in UnitRec /\ done.loaded /\ done.active \in {"active", "inactive"}
      /\ done.sub \in {"exited", "dead"} /\ done.control_command = "none"
  BY <1>2, <1>7, CountFields
<1>9. \/ /\ ccmd = "Stop" /\ ~PendingStop(u)
         /\ To(rec, <<>>)
      \/ /\ old.active = "deactivating" \/ (ccmd = "Stop" /\ PendingStop(u))
         /\ To(rec, <<UnitCall("finalize", u)>>)
      \/ /\ old.active # "deactivating"
         /\ \/ To(rec, <<Spawn(u, "Start", 0)>>)
            \/ To(step, <<Spawn(u, "Start", next)>>)
            \/ /\ ServiceType[u] = "oneshot" /\ ExecCount[u]["StartPost"] > 0
               /\ To(last, <<Spawn(u, "StartPost", 0)>>)
            \/ \E r \in {done, failed, Ended(rec, u), ready} :
                 To(r, CompleteStart(u)) \/ To(r, FailCalls(u))
            \/ To(rec, <<>>)
  BY DEF ControlExit, rec, next
<1> HIDE DEF step, last, done, failed, ready
<1>10. CASE To(rec, <<>>)
  <2>1. rec.sub = "auto-restart" => rec.active = "activating" /\ ~Staged(u)
    BY <1>1, <1>3 DEF OwnUnit
  <2> QED BY <1>1, <1>3, <1>10, <2>1, ReapedOwn
<1>11. CASE /\ old.active = "deactivating" \/ (ccmd = "Stop" /\ PendingStop(u))
            /\ To(rec, <<UnitCall("finalize", u)>>)
  <2>1. old.active = "deactivating"
    BY <1>1, <1>11 DEF Settled
  <2> DEFINE f == UnitCall("finalize", u)
  <2>2. stack' = <<f>> /\ f = UnitCall("finalize", u)
    BY <1>11
  <2> HIDE DEF f
  <2> QED BY <1>1, <1>3, <1>11, <2>1, <2>2, ReapedOn
<1>12. CASE /\ old.active # "deactivating"
            /\ \/ To(rec, <<Spawn(u, "Start", 0)>>)
               \/ To(step, <<Spawn(u, "Start", next)>>)
               \/ /\ ServiceType[u] = "oneshot" /\ ExecCount[u]["StartPost"] > 0
                  /\ To(last, <<Spawn(u, "StartPost", 0)>>)
  <2>1. PICK r, cmd, idx : /\ To(r, <<Spawn(u, cmd, idx)>>) /\ Upcoming(Spawn(u, cmd, idx), u)
                           /\ r \in UnitRec /\ r.loaded /\ r.active = old.active /\ r.sub = old.sub
                           /\ r.control_command = "none"
    <3>1. Upcoming(Spawn(u, "Start", 0), u) /\ Upcoming(Spawn(u, "Start", next), u)
      BY DEF Upcoming, Spawn, Frm
    <3>2. ServiceType[u] = "oneshot" /\ ExecCount[u]["StartPost"] > 0
          => Upcoming(Spawn(u, "StartPost", 0), u)
      BY DEF Upcoming, Spawn, Frm
    <3> QED BY <1>3, <1>5, <1>12, <3>1, <3>2
  <2> DEFINE f == Spawn(u, cmd, idx)
  <2>2. stack' = <<f>> /\ f = Spawn(u, cmd, idx) /\ Upcoming(f, u)
    BY <2>1
  <2> HIDE DEF f
  <2> QED BY <1>1, <1>12, <2>1, <2>2, ReapedOn
<1>13. CASE /\ old.active # "deactivating"
            /\ \E r \in {done, failed, Ended(rec, u), ready} :
                 To(r, CompleteStart(u)) \/ To(r, FailCalls(u))
  <2>1. PICK r \in {done, failed, Ended(rec, u), ready} :
          To(r, CompleteStart(u)) \/ To(r, FailCalls(u))
    BY <1>13
  <2>2. /\ r \in UnitRec /\ r.loaded /\ r.active \in {"active", "inactive", "failed"}
        /\ r.sub # "auto-restart" /\ r.control_command = "none"
    BY <1>6, <1>7, <1>8
  <2> QED BY <1>1, <1>13, <2>1, <2>2, ReapedOwn
<1> QED BY <1>9, <1>10, <1>11, <1>12, <1>13

\* The daemon that a Type=forking service leaves.
LEMMA ForkedOwn ==
  ASSUME TypeOK, IndexInv, NEW u \in Units, Unrelated(u), LoneInv(u), stack = <<>>,
         u \notin Targets, UNCHANGED engineVars, units[u].loaded,
         NEW ps, NEW d, ForkedDaemon(u, ps, d)
  PROVE  LoneInv(u)'
<1> DEFINE rec == ControlGone(units[u])
           set == Set(rec, "active", "running")
           r == [set EXCEPT !.main_pid = d]
<1>1. /\ units' = [units EXCEPT ![u] = r] /\ stack' = CompleteStart(u) /\ armed' = armed
      /\ units[u].active # "deactivating" /\ ServiceType[u] = "forking" /\ ps[d].st = "free"
  BY DEF ForkedDaemon
<1>2. Settled(u) /\ OwnJob(u) /\ OwnUnit(u)
  BY LoneRests
<1>3. rec \in UnitRec /\ rec.loaded /\ rec.control_command = "none"
  <2>1. units[u] \in UnitRec
    BY DEF TypeOK
  <2> QED BY <2>1, GoneRecord
<1> HIDE DEF rec
<1>4. set.active = "active" /\ set.sub = "running" /\ set.loaded /\ set.control_command = "none"
  BY <1>3 DEF Set, UnitRec
<1>5. set \in UnitRec
  BY <1>3, SetType DEF ActiveState, SubState
<1> HIDE DEF set
<1>6. r.active = "active" /\ r.sub = "running" /\ r.loaded /\ r.control_command = "none"
  BY <1>4, <1>5 DEF UnitRec
<1> HIDE DEF r
<1>7. units'[u] = r
  BY <1>1 DEF TypeOK
<1>8. OwnUnit(u)'
  BY <1>1, <1>2, <1>6, <1>7 DEF OwnUnit, Staged
<1>9. OwnJob(u)'
  BY <1>2, SameTable, SameJobKept
<1>10. ~PendingStop(u)
  BY <1>1, <1>2 DEF Settled
<1>11. Phase(u)'
  BY <1>1, <1>2, <1>6, <1>7, <1>10, StartEnded
<1> QED BY <1>8, <1>9, <1>11 DEF LoneInv

\* The exit of u's main process, or of one left behind.
LEMMA MainExitOwn ==
  ASSUME TypeOK, IndexInv, NEW u \in Units, Standalone(u), LoneInv(u), stack = <<>>,
         u \notin Targets, UNCHANGED engineVars, units[u].loaded,
         Staged(u) => Unreaped(u)' = {} /\ Unreaped(u) # {},
         Staged(u) => units[u].active # "activating",
         NEW exit, NEW ps, MainExit(u, ps, exit)
  PROVE  LoneInv(u)'
<1> DEFINE old == units[u]
           rec == MainGone(old)
           dead == Set(rec, "inactive", "dead")
           failed == Set(rec, "failed", "failed")
           again == Set(rec, "activating", "auto-restart")
           on == Loop("on_failure", u, 0, OnFailure[u], {})
           To(r, calls) == units' = [units EXCEPT ![u] = r] /\ stack' = calls
<1>1. Settled(u) /\ OwnUnit(u) /\ Unrelated(u)
  BY LoneRests DEF Standalone
<1>2. old \in UnitRec
  BY DEF TypeOK
<1>3. /\ rec \in UnitRec /\ rec.loaded /\ rec.active = old.active /\ rec.sub = old.sub
      /\ rec.control_command = old.control_command
      /\ rec.start_window \in Nat
  <2>1. rec \in UnitRec
    BY <1>2, GoneRecord
  <2>2. rec.start_window \in Nat
    BY <2>1 DEF UnitRec
  <2> HIDE DEF rec
  <2> QED BY <1>2, <2>1, <2>2, GoneRecord DEF rec
<1>4. \A n \in RecentStarts(rec) : n \in Nat /\ n + 1 \in Nat
  BY <1>3 DEF RecentStarts
<1> HIDE DEF rec
<1>5. /\ "failed" \in ActiveState /\ "failed" \in SubState
      /\ "inactive" \in ActiveState /\ "dead" \in SubState
      /\ "activating" \in ActiveState /\ "auto-restart" \in SubState
  BY DEF ActiveState, SubState
<1>6. /\ dead \in UnitRec /\ dead.loaded /\ dead.active = "inactive" /\ dead.sub = "dead"
      /\ dead.control_command = old.control_command
      /\ failed \in UnitRec /\ failed.loaded /\ failed.active = "failed" /\ failed.sub = "failed"
      /\ failed.control_command = old.control_command
      /\ again \in UnitRec /\ again.loaded /\ again.active = "activating"
      /\ again.sub = "auto-restart" /\ again.control_command = old.control_command
  <2>1. ASSUME NEW active \in ActiveState, NEW sub \in SubState, NEW r, r = Set(rec, active, sub)
        PROVE  /\ r \in UnitRec /\ r.loaded /\ r.active = active /\ r.sub = sub
               /\ r.control_command = old.control_command
    BY <1>3, <2>1, SetFields
  <2>2. dead = Set(rec, "inactive", "dead") /\ failed = Set(rec, "failed", "failed")
        /\ again = Set(rec, "activating", "auto-restart")
    OBVIOUS
  <2> HIDE DEF dead, failed, again
  <2> QED BY <1>5, <2>1, <2>2
<1>7. /\ Ended(rec, u) \in UnitRec /\ Ended(rec, u).loaded
      /\ Ended(rec, u).active \in {"active", "inactive"} /\ Ended(rec, u).sub \in {"exited", "dead"}
      /\ Ended(rec, u).control_command = old.control_command
  BY <1>3, EndedFields
<1>8. \/ /\ old.active = "deactivating" /\ armed' = armed
         /\ To(rec, <<UnitCall("finalize", u)>>)
      \/ /\ old.active = "activating" /\ armed' = armed
         /\ To(dead, <<>>) \/ To(failed, FailCalls(u))
      \/ /\ old.active \in {"active", "inactive", "failed"}
         /\ \/ \E n \in RecentStarts(rec) :
                 /\ armed' = armed
                 /\ To([failed EXCEPT !.start_window = n], <<Poke(u)>>)
            \/ \E n \in RecentStarts(rec) :
                 /\ Policy(u, exit) /\ armed' = armed \cup {<<u, "RestartDelay">>}
                 /\ To([again EXCEPT !.start_window = n + 1], <<>>)
            \/ armed' = armed /\ To(Ended(rec, u), CompleteStart(u))
            \/ armed' = armed /\ To(failed, <<Poke(u), on>>)
  BY DEF MainExit, HandleActiveExit, rec
<1> HIDE DEF dead, failed, again
<1>9. CASE old.active = "deactivating" /\ armed' = armed /\ To(rec, <<UnitCall("finalize", u)>>)
  <2> DEFINE f == UnitCall("finalize", u)
  <2>1. stack' = <<f>> /\ f = UnitCall("finalize", u)
    BY <1>9
  <2> HIDE DEF f
  <2> QED BY <1>1, <1>3, <1>9, <2>1, ReapedOn
<1>10. CASE old.active = "activating" /\ armed' = armed /\ To(dead, <<>>)
  <2>1. ~Staged(u)
    BY <1>10
  <2>2. PendingStart(u) => ServiceType[u] \in {"notify", "forking"}
    BY <1>1, <2>1, ConfigAssumption DEF Settled, Staged, Plain, ServiceTypes
  <2>3. PendingStart(u) => dead.active \in StartStates(u)
    BY <1>6, <2>2 DEF StartStates
  <2> QED BY <1>1, <1>6, <1>10, <2>1, <2>3, ReapedOwn
<1>11. CASE old.active = "activating" /\ armed' = armed /\ To(failed, FailCalls(u))
  BY <1>1, <1>6, <1>11, ReapedOwn
<1>12. ASSUME old.active \in {"active", "inactive", "failed"}, NEW n \in RecentStarts(rec),
              armed' = armed, To([failed EXCEPT !.start_window = n], <<Poke(u)>>)
       PROVE  LoneInv(u)'
  <2> DEFINE r == [failed EXCEPT !.start_window = n]
  <2>1. r \in UnitRec /\ r.loaded /\ r.active = "failed" /\ r.sub = "failed"
        /\ r.control_command = old.control_command
    BY <1>4, <1>6, CountFields
  <2>2. To(r, <<Poke(u)>>)
    BY <1>12
  <2> HIDE DEF r
  <2> QED BY <1>1, <1>12, <2>1, <2>2, ReapedOwn
<1>13. ASSUME old.active \in {"active", "inactive", "failed"}, NEW n \in RecentStarts(rec),
              Policy(u, exit), armed' = armed \cup {<<u, "RestartDelay">>},
              To([again EXCEPT !.start_window = n + 1], <<>>)
       PROVE  LoneInv(u)'
  <2> DEFINE r == [again EXCEPT !.start_window = n + 1]
  <2>1. r \in UnitRec /\ r.loaded /\ r.active = "activating" /\ r.sub = "auto-restart"
        /\ r.control_command = old.control_command
    BY <1>4, <1>6, CountFields
  <2>2. ~Staged(u)
    BY <1>13 DEF Policy, Standalone
  <2>3. "activating" \in StartStates(u)
    BY DEF StartStates
  <2>4. To(r, <<>>)
    BY <1>13
  <2> HIDE DEF r
  <2> QED BY <1>1, <1>13, <2>1, <2>2, <2>3, <2>4, ReapedOwn
<1>14. CASE /\ old.active \in {"active", "inactive", "failed"} /\ armed' = armed
            /\ To(Ended(rec, u), CompleteStart(u))
  BY <1>1, <1>7, <1>14, ReapedOwn
<1>15. CASE /\ old.active \in {"active", "inactive", "failed"} /\ armed' = armed
            /\ To(failed, <<Poke(u), on>>)
  BY <1>1, <1>6, <1>15, ReapedOwn
<1> QED BY <1>8, <1>9, <1>10, <1>11, <1>12, <1>13, <1>14, <1>15

\* The main loop reaps a child.
LEMMA ReapLone ==
  ASSUME TypeOK, IndexInv, NEW u \in Units, Standalone(u), LoneInv(u), NEW p \in Pids, Reap(p)
  PROVE  LoneInv(u)'
<1> DEFINE v == procs[p].unit
           exit == procs[p].st
           ps == [procs EXCEPT ![p] = [st |-> "free", unit |-> NoUnit]]
<1>1. stack = <<>> /\ exit \in Exits /\ v \in Units /\ Unrelated(u)
  BY DEF Reap, Quiescent, TypeOK, Proc, Exits, Standalone
<1>2. CASE Panic
  BY <1>2, LoneUnchanged DEF Panic, engineVars
<1>3. CASE /\ units[v].loaded /\ UNCHANGED engineVars
           /\ \/ units[v].control_pid = p /\ ControlExit(v, ps, exit)
              \/ \E d \in Pids \ {p} : ForkedDaemon(v, ps, d)
              \/ units[v].control_pid # p /\ MainExit(v, ps, exit)
  <2> HIDE DEF v, exit
  <2>0. procs[p].unit = v /\ procs[p].st = exit
    BY DEF v, exit
  <2>1. CASE v # u
    <3>1. PICK x : x = ps
      OBVIOUS
    <3> HIDE DEF ps
    <3>2. \/ ControlExit(v, x, exit)
          \/ \E d \in Pids \ {p} : ForkedDaemon(v, x, d)
          \/ MainExit(v, x, exit)
      BY <1>3, <3>1
    <3>3. x = [procs EXCEPT ![p] = [st |-> "free", unit |-> NoUnit]]
      BY <3>1 DEF ps
    <3> QED BY <1>1, <1>3, <2>0, <2>1, <3>2, <3>3, ReapOther
  <2>2. CASE v = u
    <3>1. OwnUnit(u)
      BY <1>1, LoneRests
    <3>2. p \in Unreaped(u)
      BY <1>1, <2>0, <2>2 DEF Unreaped, Exits
    <3>3. u \notin Targets
      BY <3>1, <3>2 DEF OwnUnit
    <3>4. Staged(u) => Unreaped(u) = {p}
      BY <3>1, <3>2 DEF OwnUnit
    <3>5. Staged(u) /\ units[u].active = "activating" => units[u].control_pid = p
      BY <3>1, <3>2 DEF OwnUnit
    <3>6. PICK x : x = ps
      OBVIOUS
    <3>7. x = [procs EXCEPT ![p] = [st |-> "free", unit |-> NoUnit]]
      BY <3>6 DEF ps
    <3> HIDE DEF ps
    <3>8. ControlExit(u, x, exit) \/ MainExit(u, x, exit) => Unreaped(u)' = Unreaped(u) \ {p}
      BY <2>0, <2>2, <3>7, ReapedChildren
    <3>9. ControlExit(u, x, exit) \/ MainExit(u, x, exit)
          => (Staged(u) => Unreaped(u)' = {} /\ Unreaped(u) # {})
      BY <3>4, <3>8
    <3>10. CASE ControlExit(u, x, exit)
      BY <1>1, <1>3, <2>2, <3>3, <3>9, <3>10, ControlExitOwn
    <3>11. CASE units[u].control_pid # p /\ MainExit(u, x, exit)
      BY <1>1, <1>3, <2>2, <3>3, <3>5, <3>9, <3>11, MainExitOwn
    <3>12. ASSUME NEW d, ForkedDaemon(u, x, d)
           PROVE  LoneInv(u)'
      BY <1>1, <1>3, <2>2, <3>3, <3>12, ForkedOwn
    <3> QED BY <1>3, <2>2, <3>6, <3>10, <3>11, <3>12
  <2> QED BY <2>1, <2>2
<1>4. \/ Panic
      \/ /\ units[v].loaded /\ UNCHANGED engineVars
         /\ \/ units[v].control_pid = p /\ ControlExit(v, ps, exit)
            \/ \E d \in Pids \ {p} : ForkedDaemon(v, ps, d)
            \/ units[v].control_pid # p /\ MainExit(v, ps, exit)
  BY DEF Reap
<1> QED BY <1>2, <1>3, <1>4

\* READY=1 is handled.
LEMMA HandleNotifyLone ==
  ASSUME TypeOK, IndexInv, NEW u \in Units, Unrelated(u), LoneInv(u), NEW m \in notify, HandleNotify(m)
  PROVE  LoneInv(u)'
<1>1. stack = <<>> /\ UNCHANGED engineVars /\ UNCHANGED <<armed, procs>>
  BY DEF HandleNotify, Quiescent
<1>2. Settled(u) /\ OwnJob(u) /\ OwnUnit(u)
  BY <1>1, LoneRests
<1>3. CASE UNCHANGED <<units, stack>>
  <2>1. SameUnit(u)
    BY <1>1, <1>3 DEF SameUnit, Unreaped
  <2> QED BY <1>1, <1>2, <1>3, <2>1, SameTable, EventElsewhere
<1>4. ASSUME NEW v \in Candidates, units[v].active = "activating",
             units' = [units EXCEPT ![v] = Set(units[v], "active", "running")],
             stack' = CompleteStart(v)
      PROVE  LoneInv(u)'
  <2>1. v \in Units /\ v \notin Targets /\ units[v].loaded /\ ServiceType[v] = "notify"
    BY <1>4 DEF Candidates
  <2>2. CASE v # u
    <3>1. SameUnit(u)
      BY <1>1, <1>4, <2>2 DEF SameUnit, Unreaped, TypeOK
    <3> QED BY <1>1, <1>4, <2>1, <2>2, <3>1, EventOther
  <2>3. CASE v = u
    <3>1. /\ units'[u].active = "active" /\ units'[u].sub = "running" /\ units'[u].loaded
          /\ units'[u].control_command = units[u].control_command
      BY <1>4, <2>1, <2>3 DEF TypeOK, Set, UnitRec
    <3>2. ~Staged(u)
      BY <2>1, <2>3 DEF Staged
    <3>3. OwnUnit(u)'
      BY <1>1, <1>2, <2>1, <2>3, <3>1, <3>2 DEF OwnUnit, Unreaped
    <3>4. OwnJob(u)'
      BY <1>1, <1>2, SameTable, SameJobKept
    <3>5. ~PendingStop(u)
      BY <1>2, <1>4, <2>3 DEF Settled
    <3>6. Phase(u)'
      BY <1>1, <1>2, <1>4, <2>3, <3>1, <3>5, StartEnded
    <3> QED BY <3>3, <3>4, <3>6 DEF LoneInv
  <2> QED BY <2>2, <2>3
<1>5. ReadyTargets(m) \subseteq Candidates
  BY DEF ReadyTargets
<1>6. \/ UNCHANGED <<units, stack>>
      \/ \E v \in Candidates : /\ units[v].active = "activating"
                               /\ units' = [units EXCEPT ![v] = Set(units[v], "active", "running")]
                               /\ stack' = CompleteStart(v)
  BY <1>5 DEF HandleNotify
<1> QED BY <1>3, <1>4, <1>6

\* Every event of the loop.
LEMMA EventLone ==
  ASSUME TypeOK, IndexInv, NEW u \in Units, Standalone(u), LoneInv(u), EventNext
  PROVE  LoneInv(u)'
<1>1. Unrelated(u)
  BY DEF Standalone
<1>2. ASSUME NEW p \in Pids, NEW exit \in Exits, ChildExits(p, exit)
      PROVE  LoneInv(u)'
  <2>1. /\ stack = <<>> /\ stack' = <<>> /\ UNCHANGED engineVars /\ UNCHANGED <<units, armed>>
        /\ procs[p].st # "free" /\ exit # "free" /\ procs' = [procs EXCEPT ![p].st = exit]
    BY <1>2 DEF ChildExits, Quiescent, Alive, Exits
  <2>2. \A q \in Pids : /\ procs'[q].unit = procs[q].unit
                        /\ procs'[q].st # "free" <=> procs[q].st # "free"
    BY <2>1 DEF TypeOK, Proc
  <2>3. SameUnit(u)
    BY <2>1, <2>2 DEF SameUnit, Unreaped
  <2> QED BY <2>1, <2>3, LoneRests, SameTable, EventElsewhere
<1>3. ASSUME NEW p, NEW mainpid, SendReady(p, mainpid)
      PROVE  LoneInv(u)'
  BY <1>3, LoneUnchanged DEF SendReady, engineVars
<1>4. ASSUME Tick
      PROVE  LoneInv(u)'
  <2> DEFINE f == Process
  <2>1. stack = <<>> /\ stack' = <<f>> /\ UNCHANGED engineVars /\ UNCHANGED <<units, armed, procs>>
    BY <1>4 DEF Tick, Quiescent, outside
  <2>2. Quiet(f, u, OtherIds(u)')
    BY QuietFrames
  <2> HIDE DEF f
  <2>3. SameUnit(u)
    BY <2>1 DEF SameUnit, Unreaped
  <2> QED BY <2>1, <2>2, <2>3, LoneRests, SameTable, EventElsewhere
<1>5. ASSUME Exit
      PROVE  LoneInv(u)'
  BY <1>5, LoneUnchanged DEF Exit, engineVars
<1> QED BY <1>1, <1>2, <1>3, <1>4, <1>5, FireTimerLone, ReapLone, HandleNotifyLone DEF EventNext

-----------------------------------------------------------------------------
(* The theorems about units that stand alone.                              *)

LoneUnits == \A u \in Units : Standalone(u) => LoneInv(u)

\* No unit has a job or a process when the manager starts.
LEMMA InitLone ==
  ASSUME Init, NEW u \in Units
  PROVE  LoneInv(u)
<1>1. /\ stack = <<>> /\ DOMAIN jobs = {} /\ unit_job[u] = 0 /\ armed = {}
      /\ units[u].active = "inactive" /\ units[u].sub = "dead" /\ units[u].control_command = "none"
      /\ \A p \in Pids : procs[p].st = "free"
  BY DEF Init, Idle, NewUnit, NoCommand
<1>2. OwnJob(u)
  BY <1>1 DEF OwnJob, JobsOf
<1>3. Unreaped(u) = {}
  BY <1>1 DEF Unreaped
<1>4. OwnUnit(u)
  BY <1>1, <1>3 DEF OwnUnit
<1>5. Settled(u)
  BY <1>1 DEF Settled, PendingStart, PendingStop
<1>6. Beneath(0) = {}
  BY <1>1 DEF Beneath
<1> QED BY <1>2, <1>4, <1>5, <1>6 DEF LoneInv, Phase, Resting, QuietBeneath

\* Every step of the manager.
LEMMA NextLone ==
  ASSUME TypeOK, IndexInv, OrdinaryRequests, LoneUnits, [Next]_managerVars
  PROVE  LoneUnits'
<1> SUFFICES ASSUME NEW u \in Units, Standalone(u), LoneInv(u)
             PROVE  LoneInv(u)'
  BY DEF LoneUnits, Standalone, Unrelated, Staged, Plain
<1>1. Unrelated(u)
  BY DEF Standalone
<1>2. CASE RequestNext
  BY <1>2, RequestLone
<1>3. CASE EventNext
  BY <1>3, EventLone
<1>4. CASE EngineNext
  BY <1>1, <1>4, ProcessJobsLone, TryAdvanceLone, StartUnitLone, SetExitedLone, StopUnitLone,
     StopAllLone, FireOnFailureLone, EnqueueStartLone, ExpandConflictsLone, ExpandOpenLone,
     ExpandCommitLone, MaybeStartLone, EnqueueStopLone, StopDependentsLone, OnJobCompletedLone,
     PokeFailedLone, FinishJobLone DEF EngineNext
<1>5. CASE ServiceNext
  BY <1>5, DoStartLone, SpawnLone, MaybeStopLone, FinalizeStopLone DEF ServiceNext
<1>6. CASE UNCHANGED managerVars
  BY <1>6, LoneUnchanged DEF managerVars, vars, engineVars
<1> QED BY <1>2, <1>3, <1>4, <1>5, <1>6 DEF Next, CallNext

\* Through any interleaving of events, requests and the calls they make, for itself
\* and for other units, a standalone unit has one job at most, and that job is in the
\* hands of one call or waits for an event that ends it.
THEOREM StandaloneInvariant ==
  ASSUME OrdinaryRequests
  PROVE  Spec => []LoneUnits
<1>1. Spec => [](TypeOK /\ IndexInv)
  BY TypeCorrect, InitIndex, NextIndex, PTL DEF Spec
<1>2. Init => LoneUnits
  BY InitLone DEF LoneUnits
<1>3. TypeOK /\ IndexInv /\ LoneUnits /\ [Next]_managerVars => LoneUnits'
  BY NextLone
<1> QED BY <1>1, <1>2, <1>3, PTL DEF Spec

\* Between events, a unit's only job is its current one, it is started, and the unit
\* is on its way to what it asked for.
JobUnderway(u) ==
  Quiescent =>
    \A id \in JobsOf(u) :
      /\ id = unit_job[u] /\ jobs[id].started
      /\ jobs[id].kind = "Start" => units[u].active \in StartStates(u)
      /\ jobs[id].kind = "Stop" => units[u].active = "deactivating"

\* Where u rests, its job is started and an event will end it.
LEMMA LoneUnderway ==
  ASSUME TypeOK, IndexInv, NEW u \in Units, LoneInv(u)
  PROVE  JobUnderway(u)
<1> SUFFICES ASSUME stack = <<>>, NEW id \in JobsOf(u)
             PROVE  /\ id = unit_job[u] /\ jobs[id].started
                    /\ jobs[id].kind = "Start" => units[u].active \in StartStates(u)
                    /\ jobs[id].kind = "Stop" => units[u].active = "deactivating"
  BY DEF JobUnderway, Quiescent
<1>1. Settled(u) /\ OwnJob(u)
  BY LoneRests
<1>2. id = unit_job[u] /\ unit_job[u] # 0
  BY <1>1, IndexedOwn DEF OwnJob
<1>3. PendingStart(u) \/ PendingStop(u)
  BY <1>2, IndexedOwn
<1> QED BY <1>1, <1>2, <1>3 DEF Settled, PendingStart, PendingStop

\* Between events no job of a standalone unit is orphaned or waits for nothing,
\* whatever the other units are and do.
THEOREM StandaloneUnderway ==
  ASSUME OrdinaryRequests
  PROVE  Spec => [](\A u \in Units : Standalone(u) => JobUnderway(u))
<1>1. TypeOK /\ IndexInv /\ LoneUnits => \A u \in Units : Standalone(u) => JobUnderway(u)
  BY LoneUnderway DEF LoneUnits
<1>2. Spec => [](TypeOK /\ IndexInv)
  BY TypeCorrect, InitIndex, NextIndex, PTL DEF Spec
<1> QED BY <1>1, <1>2, StandaloneInvariant, PTL

\* Where every unit is standalone, the job table keeps no job that nothing will end.
THEOREM StandaloneJobsFinish ==
  ASSUME OrdinaryRequests, \A u \in Units : Standalone(u)
  PROVE  Spec => []JobsFinish
<1> DEFINE Each == \A u \in Units : Standalone(u) => JobUnderway(u)
<1>1. TypeOK /\ Each => JobsFinish
  <2> SUFFICES ASSUME TypeOK, Each, Quiescent, NEW id \in DOMAIN jobs
               PROVE  LET u == jobs[id].unit IN
                      /\ unit_job[u] = id
                      /\ jobs[id].started =>
                           units[u].active \in IF jobs[id].kind = "Start" THEN StartStates(u)
                                                                          ELSE {"deactivating"}
    BY DEF JobsFinish, NoOrphanJob, JobsProgress
  <2> DEFINE u == jobs[id].unit
  <2>1. u \in Units /\ id \in JobsOf(u) /\ jobs[id].kind \in {"Start", "Stop"}
    BY DEF TypeOK, JobsTypeOK, Job, JobsOf
  <2> HIDE DEF u
  <2>2. JobUnderway(u)
    BY <2>1
  <2>3. /\ unit_job[u] = id
        /\ jobs[id].kind = "Start" => units[u].active \in StartStates(u)
        /\ jobs[id].kind = "Stop" => units[u].active = "deactivating"
    BY <2>1, <2>2 DEF JobUnderway
  <2> QED BY <2>1, <2>3 DEF u
<1>2. Spec => []TypeOK
  BY TypeCorrect
<1>3. Spec => []Each
  BY StandaloneUnderway
<1> QED BY <1>1, <1>2, <1>3, PTL

\* Only finish_job gives a job the result `done'.
LEMMA DoneByFinish ==
  ASSUME TypeOK, [Next]_managerVars, NEW id \in DOMAIN jobs, id \notin DOMAIN completed_jobs,
         id \in DOMAIN completed_jobs', completed_jobs'[id]
  PROVE  Calling("finish") /\ Top.id = id
<1>1. completed_jobs' # completed_jobs
  OBVIOUS
<1>2. ASSUME NEW jid, RemoveJob(jid, FALSE) PROVE FALSE
  <2>1. completed_jobs' = [i \in DOMAIN completed_jobs \cup {jid} |->
                             IF i = jid THEN FALSE ELSE completed_jobs[i]]
    BY <1>2 DEF RemoveJob
  <2> QED BY <2>1
<1>3. CASE RequestNext
  BY <1>1, <1>3
     DEF RequestNext, RequestStart, RequestStop, RequestRestart, RequestIsolate, RequestKill,
         RequestResetFailed, RequestReload, RequestStartIgnore, Shutdown, DaemonReload, Panic,
         engineVars
<1>4. CASE EventNext
  BY <1>1, <1>4
     DEF EventNext, FireTimer, ChildExits, Reap, SendReady, HandleNotify, Tick, Exit, Panic,
         engineVars
<1>5. CASE ServiceNext
  BY <1>1, <1>5 DEF ServiceNext, DoStart, SpawnControl, MaybeStopJob, FinalizeStop, Panic, engineVars
<1>6. CASE UNCHANGED managerVars
  BY <1>1, <1>6 DEF managerVars, vars
<1>7. CASE EngineNext
  <2>1. CASE ProcessJobs \/ TryAdvanceJob \/ SetExited \/ StopAll \/ FireOnFailure
    BY <1>1, <2>1 DEF ProcessJobs, TryAdvanceJob, SetExited, StopAll, FireOnFailure, Panic, engineVars
  <2>2. CASE StartUnit
    BY <1>1, <1>2, <2>2 DEF StartUnit, engineVars
  <2>3. CASE StopUnit
    BY <1>1, <1>2, <2>3 DEF StopUnit, engineVars
  <2>4. CASE EnqueueStart \/ ExpandConflicts \/ ExpandOpen \/ ExpandCommit
    BY <1>1, <2>4 DEF EnqueueStart, ExpandConflicts, ExpandOpen, ExpandCommit, NewJob, Panic, engineVars
  <2>5. CASE MaybeStartJob \/ EnqueueStopJob \/ StopDependents
    BY <1>1, <2>5 DEF MaybeStartJob, EnqueueStopJob, StopDependents, NewJob, Panic, engineVars
  <2>6. CASE OnJobCompleted \/ PokeFailed
    BY <1>1, <2>6 DEF OnJobCompleted, PokeFailed, engineVars
  <2>7. CASE FinishJob
    <3>1. RemoveJob(Top.id, Top.ok) /\ Calling("finish")
      BY <1>1, <2>7 DEF FinishJob, engineVars
    <3>2. DOMAIN completed_jobs' = DOMAIN completed_jobs \cup {Top.id}
      BY <3>1 DEF RemoveJob
    <3> QED BY <3>1, <3>2
  <2> QED BY <1>7, <2>1, <2>2, <2>3, <2>4, <2>5, <2>6, <2>7 DEF EngineNext
<1> QED BY <1>3, <1>4, <1>5, <1>6, <1>7 DEF Next, CallNext

\* finish_job is called for a Stop job of u when the unit is stopped.
LEMMA LoneStopped ==
  ASSUME TypeOK, IndexInv, NEW u \in Units, LoneInv(u), Calling("finish"),
         Top.id \in JobsOf(u), jobs[Top.id].kind = "Stop"
  PROVE  units[u].active \in {"inactive", "failed"}
<1>1. ~Quiet(Top, u, OtherIds(u)) /\ stack # <<>> /\ Top.op = "finish"
  BY DEF Quiet, JobFrames, OtherIds, Calling
<1>2. AtWork(u)
  BY <1>1, AtRest DEF LoneInv
<1>3. Top.id = unit_job[u] /\ unit_job[u] # 0
  BY IndexedOwn DEF LoneInv, OwnJob
<1>4. PendingStop(u)
  BY <1>3 DEF PendingStop
<1> QED BY <1>1, <1>2, <1>4 DEF AtWork, Work

\* A Stop job that is reported done left its unit stopped.
StoppedWhenDone(u) ==
  \A id \in JobsOf(u) :
    /\ jobs[id].kind = "Stop"
    /\ id \in DOMAIN completed_jobs'
    /\ completed_jobs'[id]
    => units[u].active \in {"inactive", "failed"}

\* finish_job reports a Stop job of a standalone unit done only once the unit is
\* stopped, whatever the other units are and do.
THEOREM StandaloneStops ==
  ASSUME OrdinaryRequests
  PROVE  Spec => [][\A u \in Units : Standalone(u) => StoppedWhenDone(u)]_managerVars
<1> DEFINE Stopped == \A u \in Units : Standalone(u) => StoppedWhenDone(u)
<1>1. TypeOK /\ IndexInv /\ LoneUnits /\ LedgerInv /\ [Next]_managerVars => [Stopped]_managerVars
  <2> SUFFICES ASSUME TypeOK, IndexInv, LoneUnits, LedgerInv, [Next]_managerVars,
                      NEW u \in Units, Standalone(u), NEW id \in JobsOf(u),
                      jobs[id].kind = "Stop", id \in DOMAIN completed_jobs', completed_jobs'[id]
               PROVE  units[u].active \in {"inactive", "failed"}
    BY DEF StoppedWhenDone
  <2>1. id \in DOMAIN jobs /\ LoneInv(u)
    BY DEF JobsOf, LoneUnits
  <2>2. id \notin DOMAIN completed_jobs
    BY <2>1 DEF LedgerInv, Ledger!Disjoint
  <2>3. Calling("finish") /\ Top.id = id
    BY <2>1, <2>2, DoneByFinish
  <2> QED BY <2>1, <2>3, LoneStopped
<1>2. Spec => [](TypeOK /\ IndexInv)
  BY TypeCorrect, InitIndex, NextIndex, PTL DEF Spec
<1>3. Spec => []LedgerInv
  BY LedgerRefinement, LedgerInvariant, PTL DEF JobsLedger
<1>4. Spec => []LoneUnits
  BY StandaloneInvariant
<1>5. Spec => [][Stopped]_managerVars
  <2> HIDE DEF Stopped
  <2> QED BY <1>1, <1>2, <1>3, <1>4, PTL DEF Spec
<1> QED BY <1>5

\* Where every unit is standalone, a Stop job that a client sees done means that the
\* service has stopped.
THEOREM StandaloneStopMeansStopped ==
  ASSUME OrdinaryRequests, \A u \in Units : Standalone(u)
  PROVE  Spec => StopMeansStopped
<1> DEFINE Each == \A u \in Units : Standalone(u) => StoppedWhenDone(u)
           Stopped == \A id \in DOMAIN jobs :
                        /\ jobs[id].kind = "Stop"
                        /\ id \in DOMAIN completed_jobs'
                        /\ completed_jobs'[id]
                        => units[jobs[id].unit].active \in {"inactive", "failed"}
<1>1. TypeOK /\ [Each]_managerVars => [Stopped]_managerVars
  <2> SUFFICES ASSUME TypeOK, Each, NEW id \in DOMAIN jobs, jobs[id].kind = "Stop",
                      id \in DOMAIN completed_jobs', completed_jobs'[id]
               PROVE  units[jobs[id].unit].active \in {"inactive", "failed"}
    OBVIOUS
  <2>1. jobs[id].unit \in Units /\ id \in JobsOf(jobs[id].unit)
    BY DEF TypeOK, JobsTypeOK, Job, JobsOf
  <2> QED BY <2>1 DEF StoppedWhenDone
<1>2. Spec => []TypeOK
  BY TypeCorrect
<1>3. Spec => [][Each]_managerVars
  BY StandaloneStops
<1>4. Spec => [][Stopped]_managerVars
  <2> HIDE DEF Each, Stopped
  <2> QED BY <1>1, <1>2, <1>3, PTL
<1> QED BY <1>4 DEF StopMeansStopped

\* A Type=notify service that is not started by a target and does not outlive its
\* processes
Notifier(u) == ServiceType[u] = "notify" /\ u \notin Targets \cup RemainAfterExit

\* What makes such a unit active, by a datagram and nothing else.
LEMMA NotifierReady ==
  ASSUME TypeOK, IndexInv, NEW u \in Units, LoneInv(u), Notifier(u), [Next]_managerVars,
         units[u].active = "activating", units'[u].active = "active"
  PROVE  \E m \in notify \ notify' : \/ m.unit = u
                                     \/ m.pid = NoPid
                                     \/ m.unit \notin Candidates
                                     \/ procs[m.pid].unit # m.unit
<1>0. units \in [Units -> UnitRec]
  BY DEF TypeOK
<1>1. \A r : units' = [units EXCEPT ![u] = r] => r.active = "active"
  BY <1>0
<1>2. ASSUME NEW v, NEW r, units' = [units EXCEPT ![v] = r]
      PROVE  v = u /\ r.active = "active"
  BY <1>0, <1>2
<1>3. ASSUME NEW v, NEW r \in UnitRec, NEW active, active # "active", NEW sub,
             units' = [units EXCEPT ![v] = Set(r, active, sub)]
      PROVE  FALSE
  <2>1. Set(r, active, sub).active = active
    BY DEF Set, UnitRec
  <2> QED BY <1>2, <1>3, <2>1
<1>4. ASSUME NEW v, NEW r \in UnitRec, units' = [units EXCEPT ![v] = Ended(r, v)]
      PROVE  FALSE
  <2>1. v = u
    BY <1>2, <1>4
  <2>2. Ended(r, v) = Set(r, "inactive", "dead")
    BY <2>1 DEF Ended, Notifier
  <2> QED BY <1>3, <1>4, <2>2
<1>5. ASSUME NEW v, NEW r, units' = [units EXCEPT ![v] = r], r.active = units[v].active
      PROVE  FALSE
  BY <1>2, <1>5
<1>6. CASE UNCHANGED units
  BY <1>6
<1>7. ~SetExited
  <2> SUFFICES ASSUME SetExited PROVE FALSE
    OBVIOUS
  <2>1. Calling("set_exited") /\ Top.unit = u
    BY <1>2 DEF SetExited
  <2>2. AtWork(u)
    BY <2>1, AtRest DEF LoneInv, Quiet, Calling
  <2> QED BY <2>1, <2>2 DEF AtWork, Work, Calling
<1>8. CASE EngineNext
  <2>1. CASE \/ ProcessJobs \/ TryAdvanceJob \/ StopUnit \/ StopAll \/ ExpandConflicts
             \/ ExpandOpen \/ ExpandCommit \/ EnqueueStopJob \/ StopDependents
             \/ FinishJob \/ OnJobCompleted \/ PokeFailed \/ FireOnFailure
    BY <1>6, <2>1 DEF ProcessJobs, TryAdvanceJob, StopUnit, StopAll, ExpandConflicts, ExpandOpen,
       ExpandCommit, EnqueueStopJob, StopDependents, FinishJob, OnJobCompleted, PokeFailed,
       FireOnFailure, unitVars
  <2>2. CASE StartUnit
    <3>1. NewUnit(TRUE).active = "inactive"
      BY DEF NewUnit
    <3> QED BY <1>2, <1>6, <2>2, <3>1 DEF StartUnit
  <2>3. CASE EnqueueStart
    <3>1. UNCHANGED units \/ MarkFailed(Top.unit)
      BY <2>3 DEF EnqueueStart
    <3>2. Top.unit \in Units
      BY <2>3, CallType DEF EnqueueStart, UnitOps
    <3> QED BY <1>0, <1>3, <1>6, <3>1, <3>2 DEF MarkFailed
  <2>4. CASE MaybeStartJob
    <3>1. \/ UNCHANGED units
          \/ \E v, n : units' = [units EXCEPT ![v] = [units[v] EXCEPT !.start_window = n]]
      <4>1. \/ UNCHANGED units
            \/ \E n : units' = [units EXCEPT ![jobs[Top.id].unit].start_window = n]
        BY <2>4 DEF MaybeStartJob, Panic
      <4>2. \A v, n : [units EXCEPT ![v].start_window = n]
                         = [units EXCEPT ![v] = [units[v] EXCEPT !.start_window = n]]
        OBVIOUS
      <4> QED BY <4>1, <4>2
    <3>2. ASSUME NEW v, NEW n, units' = [units EXCEPT ![v] = [units[v] EXCEPT !.start_window = n]]
          PROVE  FALSE
      <4>1. v = u
        BY <1>2, <3>2
      <4>2. [units[u] EXCEPT !.start_window = n].active = units[u].active
        BY <1>0 DEF UnitRec
      <4> QED BY <1>5, <3>2, <4>1, <4>2
    <3> QED BY <1>6, <3>1, <3>2
  <2> QED BY <1>7, <1>8, <2>1, <2>2, <2>3, <2>4 DEF EngineNext
<1>9. CASE DoStart
  <2>1. CASE UNCHANGED units
    BY <1>6, <2>1
  <2> DEFINE v == Top.unit
  <2>2. CASE v \in Targets /\ \E r : units' = [units EXCEPT ![v] = r]
    BY <1>2, <2>2 DEF Notifier
  <2>3. CASE \E r : units' = [units EXCEPT ![v] = r] /\ r.active = "activating"
    BY <1>2, <2>3
  <2>4. Set(units[v], "activating", "start-pre").active = "activating"
    <3>1. v \in Units
      BY <1>9, CallType DEF DoStart, UnitOps
    <3> QED BY <1>0, <3>1 DEF Set, UnitRec
  <2> DEFINE r == [Set(units[v], "activating", "start-pre") EXCEPT
                     !.main_pid = NoPid, !.group_pid = NoPid, !.control_pid = NoPid,
                     !.control_command = NoCommand, !.cmd_index = 0]
  <2>5. r.active = "activating"
    <3>1. v \in Units
      BY <1>9, CallType DEF DoStart, UnitOps
    <3>2. Set(units[v], "activating", "start-pre") \in UnitRec
      BY <1>0, <3>1, SetFields DEF ActiveState, SubState
    <3> HIDE DEF v
    <3> QED BY <2>4, <3>2 DEF UnitRec
  <2>6. \/ UNCHANGED units
        \/ v \in Targets /\ \E x : units' = [units EXCEPT ![v] = x]
        \/ units' = [units EXCEPT ![v] = r]
    BY <1>9 DEF DoStart
  <2> HIDE DEF r
  <2> QED BY <2>1, <2>2, <2>3, <2>5, <2>6
<1>10. CASE SpawnControl
  <2> DEFINE v == Top.unit
             cmd == Top.cmd
             rec == [units[v] EXCEPT !.cgroup = UseCgroup]
  <2>1. v \in Units
    BY <1>10, CallType DEF SpawnControl, UnitOps
  <2>2. rec \in UnitRec /\ rec.active = units[v].active /\ units[v] \in UnitRec
    <3>1. UseCgroup \in BOOLEAN
      BY ConfigAssumption
    <3>2. ASSUME NEW r \in UnitRec
          PROVE  /\ [r EXCEPT !.cgroup = UseCgroup] \in UnitRec
                 /\ [r EXCEPT !.cgroup = UseCgroup].active = r.active
      BY <3>1 DEF UnitRec
    <3>3. units[v] \in UnitRec
      <4> HIDE DEF v
      <4> QED BY <1>0, <2>1
    <3> HIDE DEF v
    <3> QED BY <3>2, <3>3
  <2>3. \/ StageDone(units[v], v, cmd) \/ StageDone(rec, v, cmd)
        \/ \E p \in Pids : procs[p].st = "free" /\ Spawned(v, cmd, p)
        \/ /\ \E r \in {units[v], rec} : units' = [units EXCEPT ![v] = Set(r, "failed", "failed")]
           /\ Call(FailCalls(v))
           /\ UNCHANGED <<armed, procs>>
    BY <1>10, SpawnWays
  <2> HIDE DEF v, cmd, rec
  <2>4. ASSUME NEW r \in {units[v], rec}, StageDone(r, v, cmd)
        PROVE  FALSE
    <3>1. r \in UnitRec /\ r.active = units[v].active
      BY <2>2
    <3>2. units' = [units EXCEPT ![v] = Ended(r, v)] \/ units' = [units EXCEPT ![v] = r]
      BY <2>4 DEF StageDone
    <3> QED BY <1>4, <1>5, <3>1, <3>2
  <2>5. ASSUME NEW p \in Pids, Spawned(v, cmd, p)
        PROVE  FALSE
    <3>1. v = u
      BY <1>2, <2>5 DEF Spawned
    <3>2. ~ActiveAtOnce(v, cmd)
      BY <3>1 DEF ActiveAtOnce, Notifier
    <3>3. \E r : units' = [units EXCEPT ![v] = r] /\ r.active = units[v].active
      <4> DEFINE g == [units[v] EXCEPT !.group_pid = p, !.cgroup = UseCgroup]
                 main == [g EXCEPT !.main_pid = p, !.control_pid = NoPid,
                                   !.control_command = NoCommand]
                 control(s) == [g EXCEPT !.control_pid = p, !.control_command = cmd, !.sub = s]
      <4>1. g \in UnitRec /\ g.active = units[v].active
        BY <2>2, ConfigAssumption DEF UnitRec
      <4>2. units' = [units EXCEPT ![v] = main] \/ \E s : units' = [units EXCEPT ![v] = control(s)]
        BY <2>5, <3>2 DEF Spawned
      <4> HIDE DEF g
      <4>3. main.active = g.active /\ \A s : control(s).active = g.active
        BY <4>1 DEF UnitRec
      <4> HIDE DEF main, control
      <4> QED BY <4>1, <4>2, <4>3
    <3> QED BY <1>5, <3>3
  <2>6. ASSUME NEW r \in {units[v], rec}, units' = [units EXCEPT ![v] = Set(r, "failed", "failed")]
        PROVE  FALSE
    BY <1>3, <2>2, <2>6
  <2> QED BY <2>3, <2>4, <2>5, <2>6
<1>11. CASE MaybeStopJob
  <2>1. UNCHANGED units \/ \E v \in Units : DoStop(v)
    <3>1. UNCHANGED units \/ (Top.id \in DOMAIN jobs /\ DoStop(jobs[Top.id].unit))
      BY <1>11 DEF MaybeStopJob, Panic
    <3> QED BY <3>1 DEF TypeOK, JobsTypeOK, Job
  <2>2. ASSUME NEW v \in Units, DoStop(v) PROVE FALSE
    BY <1>0, <1>3, <2>2 DEF DoStop
  <2> QED BY <1>6, <2>1, <2>2
<1>12. CASE FinalizeStop
  <2> DEFINE v == Top.unit
             set == Set(units[v], "inactive", "dead")
             r == [set EXCEPT !.main_pid = NoPid, !.group_pid = NoPid, !.cgroup = FALSE,
                              !.control_pid = NoPid, !.control_command = NoCommand, !.cmd_index = 0]
  <2>1. v \in Units
    BY <1>12, CallType DEF FinalizeStop, UnitOps
  <2>2. set \in UnitRec /\ set.active = "inactive"
    BY <1>0, <2>1, SetFields DEF ActiveState, SubState
  <2>3. units' = [units EXCEPT ![v] = r]
    BY <1>12 DEF FinalizeStop
  <2> HIDE DEF set
  <2>4. r.active = "inactive"
    BY <2>2 DEF UnitRec
  <2> HIDE DEF r
  <2> QED BY <1>2, <2>3, <2>4
<1>13. CASE RequestNext
  <2>1. CASE \E v \in Units : RequestResetFailed(v)
    <3>1. PICK v \in Units : units' = [units EXCEPT ![v] = Set(units[v], "inactive", "dead")]
      BY <2>1 DEF RequestResetFailed
    <3> QED BY <1>0, <1>3, <3>1
  <2>2. CASE DaemonReload
    <3>1. \/ units'[u] = NewUnit(FALSE)
          \/ units'[u] = [units[u] EXCEPT !.cmd_index = 0, !.start_window = 0]
      BY <2>2 DEF DaemonReload
    <3>2. \A r \in UnitRec : [r EXCEPT !.cmd_index = 0, !.start_window = 0].active = r.active
      BY DEF UnitRec
    <3>3. units[u] \in UnitRec
      BY <1>0
    <3>4. NewUnit(FALSE).active = "inactive"
      BY DEF NewUnit
    <3>5. units'[u].active \in {"inactive", units[u].active}
      BY <3>1, <3>2, <3>3, <3>4
    <3> QED BY <3>5
  <2>3. CASE \/ \E v \in Units : \/ RequestStart(v) \/ RequestStop(v) \/ RequestRestart(v)
                                   \/ RequestIsolate(v) \/ RequestKill(v) \/ RequestReload(v)
                                   \/ RequestStartIgnore(v)
             \/ Shutdown
    BY <1>6, <2>3 DEF RequestStart, RequestStop, RequestRestart, RequestIsolate, RequestKill,
       RequestReload, RequestStartIgnore, Shutdown, Panic
  <2> QED BY <1>13, <2>1, <2>2, <2>3 DEF RequestNext
<1>14. ASSUME NEW v \in Units, NEW kind, FireTimer(v, kind)
       PROVE  FALSE
  <2>1. UNCHANGED units \/ MarkFailed(v)
    BY <1>14 DEF FireTimer
  <2> QED BY <1>0, <1>3, <1>6, <2>1 DEF MarkFailed
<1>15. ASSUME NEW p \in Pids, Reap(p)
       PROVE  FALSE
  <2> DEFINE v == procs[p].unit
             ps == [procs EXCEPT ![p] = [st |-> "free", unit |-> NoUnit]]
  <2>1. v \in Units
    BY <1>15 DEF Reap, TypeOK, Proc, Exits
  <2>2. \/ UNCHANGED units \/ \E exit : ControlExit(v, ps, exit) \/ MainExit(v, ps, exit)
        \/ \E d : ForkedDaemon(v, ps, d)
    BY <1>15 DEF Reap, Panic
  <2> HIDE DEF v, ps
  <2>3. units[v] \in UnitRec
    BY <1>0, <2>1
  <2>4. ASSUME NEW exit, ControlExit(v, ps, exit)
        PROVE  FALSE
    <3> DEFINE rec == ControlGone(units[v])
               next == units[v].cmd_index + 1
    <3>1. rec \in UnitRec /\ rec.active = units[v].active /\ next \in Nat /\ 0 \in Nat
      BY <2>3, GoneRecord DEF UnitRec
    <3> HIDE DEF rec, next
    <3>2. \A n \in Nat : /\ [rec EXCEPT !.cmd_index = n].active = units[v].active
      BY <3>1 DEF UnitRec
    <3>3. Ended(rec, v) \in UnitRec
      BY <3>1, EndedFields
    <3>4. \/ ServiceType[v] \in {"oneshot", "forking"}
          \/ units' = [units EXCEPT ![v] = rec]
          \/ units' = [units EXCEPT ![v] = Set(rec, "failed", "failed")]
          \/ units' = [units EXCEPT ![v] = Ended(rec, v)]
      BY <2>4 DEF ControlExit, rec, next
    <3>5. CASE ServiceType[v] \in {"oneshot", "forking"}
      <4>1. \E r : units' = [units EXCEPT ![v] = r]
        BY <2>4 DEF ControlExit
      <4> QED BY <1>2, <3>5, <4>1 DEF Notifier
    <3> QED BY <1>3, <1>4, <1>5, <3>1, <3>4, <3>5
  <2>5. ASSUME NEW exit, MainExit(v, ps, exit)
        PROVE  FALSE
    <3> DEFINE rec == MainGone(units[v])
    <3>1. rec \in UnitRec /\ rec.active = units[v].active
      BY <2>3, GoneRecord
    <3>2. CASE \E r : r.active # "active" /\ units' = [units EXCEPT ![v] = r]
      BY <1>2, <3>2
    <3>3. CASE units[v].active \in {"active", "inactive", "failed"}
      <4>1. \E r : units' = [units EXCEPT ![v] = r]
        BY <2>5 DEF MainExit, HandleActiveExit
      <4> QED BY <1>2, <3>3, <4>1
    <3> HIDE DEF rec
    <3>4. \/ units' = [units EXCEPT ![v] = rec]
          \/ units' = [units EXCEPT ![v] = Set(rec, "inactive", "dead")]
          \/ units' = [units EXCEPT ![v] = Set(rec, "failed", "failed")]
          \/ units[v].active \in {"active", "inactive", "failed"}
      BY <2>5 DEF MainExit, rec
    <3> QED BY <1>3, <1>5, <3>1, <3>3, <3>4
  <2>6. ASSUME NEW d, ForkedDaemon(v, ps, d)
        PROVE  FALSE
    <3>1. ServiceType[v] = "forking" /\ \E r : units' = [units EXCEPT ![v] = r]
      BY <2>6 DEF ForkedDaemon
    <3> QED BY <1>2, <3>1 DEF Notifier
  <2> QED BY <1>6, <2>2, <2>4, <2>5, <2>6
<1>16. ASSUME NEW m \in notify, HandleNotify(m)
       PROVE  \E d \in notify \ notify' : \/ d.unit = u
                                          \/ d.pid = NoPid
                                          \/ d.unit \notin Candidates
                                          \/ procs[d.pid].unit # d.unit
  <2>1. m \in notify \ notify'
    BY <1>16 DEF HandleNotify
  <2>2. PICK v \in ReadyTargets(m) : \E r : units' = [units EXCEPT ![v] = r]
    BY <1>6, <1>16 DEF HandleNotify
  <2>3. u \in ReadyTargets(m)
    BY <1>2, <2>2
  <2>4. ASSUME m.pid # NoPid, m.unit \in Candidates, procs[m.pid].unit = m.unit
        PROVE  m.unit = u
    <3>1. m.unit \in {w \in Candidates : m.pid # NoPid /\ procs[m.pid].unit = w}
      BY <2>4
    <3>2. u \in {w \in Candidates : m.pid # NoPid /\ procs[m.pid].unit = w}
      BY <2>3, <3>1 DEF ReadyTargets
    <3> QED BY <2>4, <3>2
  <2> QED BY <2>1, <2>4
<1>17. CASE EventNext
  <2>1. CASE \/ \E p \in Pids, exit \in Exits : ChildExits(p, exit)
             \/ \E p \in Pids : \E mainpid \in {p, NoPid} : SendReady(p, mainpid)
             \/ Tick \/ Exit
    BY <1>6, <2>1 DEF ChildExits, SendReady, Tick, Exit
  <2> QED BY <1>14, <1>15, <1>16, <1>17, <2>1 DEF EventNext
<1>18. CASE UNCHANGED managerVars
  BY <1>6, <1>18 DEF managerVars, vars
<1> QED BY <1>8, <1>9, <1>10, <1>11, <1>12, <1>13, <1>17, <1>18 DEF Next, CallNext, ServiceNext

\* Where the notify services are standalone, handle_notify makes none active by the
\* READY=1 of another service's process, and no other event makes one active.
THEOREM NotifiersReady ==
  ASSUME OrdinaryRequests,
         \A u \in Units : ServiceType[u] = "notify" => Standalone(u) /\ Notifier(u)
  PROVE  Spec => ReadyIsOwn
<1> DEFINE Own == \A u \in Units :
                    /\ ServiceType[u] = "notify"
                    /\ units[u].active = "activating" /\ units'[u].active = "active"
                    => \E m \in notify \ notify' :
                         \/ m.unit = u
                         \/ m.pid = NoPid
                         \/ m.unit \notin Candidates
                         \/ procs[m.pid].unit # m.unit
<1>1. TypeOK /\ IndexInv /\ LoneUnits /\ [Next]_managerVars => [Own]_managerVars
  BY NotifierReady DEF LoneUnits
<1>2. Spec => [](TypeOK /\ IndexInv)
  BY TypeCorrect, InitIndex, NextIndex, PTL DEF Spec
<1>3. Spec => []LoneUnits
  BY StandaloneInvariant
<1>4. Spec => [][Own]_managerVars
  <2> HIDE DEF Own
  <2> QED BY <1>1, <1>2, <1>3, PTL DEF Spec
<1> QED BY <1>4 DEF ReadyIsOwn

-----------------------------------------------------------------------------
(* Units in a transient state: what takes such a unit on, whatever the others*)
(* are and do.                                                             *)

\* A unit whose stop runs no command, whose ExecStartPost= is reported when it cannot
\* run, and that is not restarted where a reload or a shutdown empties the wheel
Steady(u) ==
  /\ ExecCount[u]["Stop"] = 0
  /\ ExecCount[u]["StartPost"] > 0 => u \notin IgnoreFailure
  /\ Requests \cap {"daemon-reload", "shutdown"} # {} => Restart[u] = "no"

\* The calls that take a unit through a start or out of a stop are made last and
\* run at once
StepOps == {"do_start", "spawn", "finalize"}
Ready(f) ==
  /\ f.op = "do_start" => units[f.unit].loaded
  /\ f.op = "spawn" =>
       \/ f.cmd \in {"StartPre", "Start", "Reload"}
       \/ f.cmd = "StartPost" /\ f.id = 0 /\ ExecCount[f.unit]["StartPost"] > 0
DirectCalls ==
  /\ \A f \in Beneath(1) : f.op \notin StepOps
  /\ stack # <<>> /\ Steady(Top.unit) => Ready(Top)

\* The call that is made next is the one that takes u on
Due(u) ==
  /\ stack # <<>> /\ Top.unit = u
  /\ \/ Top.op \in {"do_start", "finalize"}
     \/ Top.op = "spawn" /\ Top.cmd # "Reload"

\* A child whose exit ends a start, unlike that of an ExecReload=
Attended(u) ==
  \E p \in Unreaped(u) : p = units[u].control_pid => units[u].control_command # "Reload"

Moving(u) ==
  /\ units[u].sub = "auto-restart" => units[u].loaded /\ Restart[u] # "no"
  /\ units[u].control_command # "Stop"
  /\ units[u].active = "activating" /\ units[u].sub = "auto-restart" =>
       \/ <<u, "RestartDelay">> \in armed
       \/ stack # <<>> /\ Top.unit = u /\ Top.op = "do_start"
  /\ units[u].active = "activating" /\ units[u].sub # "auto-restart" => Due(u) \/ Attended(u)
  /\ units[u].active = "deactivating" => Due(u) \/ Unreaped(u) # {}

MoveInv == DirectCalls /\ \A u \in Units : Steady(u) => Moving(u)

\* What a step leaves of a unit that it does not take on, or that it stops
Still(u) ==
  /\ units'[u].active = units[u].active /\ units'[u].sub = units[u].sub
  /\ units'[u].loaded = units[u].loaded /\ units'[u].control_pid = units[u].control_pid
  /\ units'[u].control_command = units[u].control_command
Halted(u) ==
  /\ units'[u].active \notin {"activating", "deactivating"} /\ units'[u].sub # "auto-restart"
  /\ units'[u].control_command \in {"none", units[u].control_command}

\* Such a unit goes on moving, if its children and its restart are left alone.
LEMMA MovesOn ==
  ASSUME NEW u \in Units, Moving(u), ~Due(u), Still(u) \/ Halted(u),
         Unreaped(u) \subseteq Unreaped(u)',
         Restart[u] # "no" => (<<u, "RestartDelay">> \in armed => <<u, "RestartDelay">> \in armed')
  PROVE  Moving(u)'
<1>1. CASE Halted(u)
  BY <1>1 DEF Moving, Halted
<1>2. CASE Still(u)
  <2>1. Attended(u) => Attended(u)'
    BY <1>2 DEF Still, Attended
  <2>2. stack # <<>> /\ Top.unit = u => Top.op # "do_start"
    BY DEF Due
  <2>3. /\ units'[u].sub = "auto-restart" => units'[u].loaded /\ Restart[u] # "no"
        /\ units'[u].control_command # "Stop"
    BY <1>2 DEF Still, Moving
  <2>4. units'[u].active = "activating" /\ units'[u].sub = "auto-restart" =>
          <<u, "RestartDelay">> \in armed'
    BY <1>2, <2>2, <2>3 DEF Still, Moving
  <2>5. units'[u].active = "activating" /\ units'[u].sub # "auto-restart" => Attended(u)'
    BY <1>2, <2>1 DEF Still, Moving
  <2>6. units'[u].active = "deactivating" => Unreaped(u)' # {}
    BY <1>2 DEF Still, Moving
  <2> QED BY <2>3, <2>4, <2>5, <2>6 DEF Moving
<1> QED BY <1>1, <1>2

\* A step that sets the record of one unit.
LEMMA StillElse ==
  ASSUME TypeOK, NEW u \in Units, NEW v, NEW r, units' = [units EXCEPT ![v] = r], v # u
  PROVE  Still(u)
BY DEF TypeOK, Still

\* Nothing about the units changes.
LEMMA StillSame ==
  ASSUME NEW u, UNCHANGED units
  PROVE  Still(u)
BY DEF Still

\* set_active to a state that is not transient.
LEMMA HaltedSet ==
  ASSUME TypeOK, NEW u \in Units, NEW r \in UnitRec, NEW active \in ActiveState,
         NEW sub \in SubState, units' = [units EXCEPT ![u] = Set(r, active, sub)],
         active \notin {"activating", "deactivating"}, sub # "auto-restart",
         r.control_command \in {"none", units[u].control_command}
  PROVE  Halted(u)
<1>1. units'[u] = Set(r, active, sub)
  BY DEF TypeOK
<1> QED BY <1>1, SetFields DEF Halted

\* No step call is left behind by a return.
LEMMA DirectReturn ==
  ASSUME TypeOK, DirectCalls, NEW op, Calling(op), stack' = Return
  PROVE  DirectCalls'
<1>1. Beneath(0)' \subseteq Beneath(1)
  BY BeneathReturn
<1>2. \A f \in Beneath(0)' : f.op \notin StepOps
  BY <1>1 DEF DirectCalls
<1>3. Beneath(1)' \subseteq Beneath(0)'
  <2>1. \A j \in DOMAIN stack' : j > 1 => j > 0
    <3>1. stack \in Seq(Frame) /\ stack # <<>>
      BY DEF TypeOK, Calling
    <3>2. stack' \in Seq(Frame)
      BY <3>1 DEF Return
    <3> QED BY <3>2
  <2> QED BY <2>1 DEF Beneath
<1>4. stack' # <<>> => Top' \in Beneath(0)'
  <2>1. stack' \in Seq(Frame)
    BY DEF TypeOK, Calling, Return
  <2>2. stack' # <<>> => 1 \in DOMAIN stack' /\ Top' = stack'[1] /\ 1 > 0
    BY <2>1 DEF Top
  <2> QED BY <2>2 DEF Beneath
<1>5. stack' # <<>> => Top'.op \notin StepOps
  BY <1>2, <1>4
<1>6. stack' # <<>> => Ready(Top)'
  BY <1>5 DEF Ready, StepOps
<1> QED BY <1>2, <1>3, <1>6 DEF DirectCalls

\* One call, which may be a step.
LEMMA DirectOne ==
  ASSUME TypeOK, DirectCalls, NEW op, Calling(op), NEW f, Call(<<f>>),
         f.op \in StepOps /\ Steady(f.unit) => Ready(f)'
  PROVE  DirectCalls' /\ stack' # <<>> /\ Top' = f
<1>1. Beneath(1)' \subseteq Beneath(1) /\ stack' # <<>> /\ Top' = f
  BY BeneathOne
<1>2. Steady(f.unit) => Ready(f)'
  BY DEF Ready, StepOps
<1> QED BY <1>1, <1>2 DEF DirectCalls, Ready

\* ... and two, of which the first may be a step.
LEMMA DirectTwo ==
  ASSUME TypeOK, DirectCalls, NEW op, Calling(op), NEW f, NEW g, Call(<<f, g>>),
         f.op \in StepOps /\ Steady(f.unit) => Ready(f)', g.op \notin StepOps
  PROVE  DirectCalls' /\ stack' # <<>> /\ Top' = f
<1>1. Beneath(1)' \subseteq Beneath(1) \cup {g} /\ stack' # <<>> /\ Top' = f
  BY BeneathTwo
<1>2. Steady(f.unit) => Ready(f)'
  BY DEF Ready, StepOps
<1> QED BY <1>1, <1>2 DEF DirectCalls, Ready

\* A call that is none of the steps.
Light(f) == f.op \notin StepOps

\* Which calls are light whatever they are about.
LEMMA LightOps ==
  ASSUME NEW u, NEW id, NEW ok, NEW after, NEW todo, NEW waiting
  PROVE  /\ \A op \in {"advance", "maybe_start", "maybe_stop", "process"} :
              Light(JobCall(op, id))
         /\ \A op \in {"set_exited", "enqueue_start", "start"} : Light(UnitCall(op, u))
         /\ \A op \in {"stop_all", "stop_deps", "on_failure", "conflicts", "open", "commit"} :
              Light(Loop(op, u, id, todo, waiting))
         /\ Light(Finish(id, ok)) /\ Light(Stop(u, ok)) /\ Light(EnqueueStop(u, after, ok))
         /\ Light(Process) /\ Light(Completed(u, ok)) /\ Light(Poke(u))
BY DEF Light, StepOps, UnitCall, JobCall, Finish, Loop, Stop, EnqueueStop, Process, Completed,
       Poke, Frm

\* A call that makes none but light ones: it returns, makes them in its place, or goes
\* on to the next job, or on with the unit it loaded.
MakesLight ==
  \/ stack' = Return
  \/ \E f : Call(<<f>>) /\ Light(f)
  \/ \E f, g : Call(<<f, g>>) /\ Light(f) /\ Light(g)
  \/ \E f, g, h : Call(<<f, g, h>>) /\ Light(f) /\ Light(g) /\ Light(h)
  \/ \E f : Light(f) /\ stack' = <<f>> \o stack
  \/ UNCHANGED stack

\* What is beneath a call that is put before the stack.
LEMMA PushedCall ==
  ASSUME TypeOK, NEW op, Calling(op), NEW f, stack' = <<f>> \o stack
  PROVE  /\ Beneath(1)' \subseteq Beneath(1) \cup {Top} /\ stack' # <<>> /\ Top' = f
         /\ Pending \subseteq Pending' /\ f \in Pending'
<1>1. stack \in Seq(Frame) /\ stack # <<>>
  BY DEF TypeOK, Calling
<1>2. stack \in Seq(Frame \cup {f}) /\ <<f>> \in Seq(Frame \cup {f})
  BY <1>1
<1>3. /\ stack' \in Seq(Frame \cup {f}) /\ Len(stack') = Len(stack) + 1 /\ stack'[1] = f
      /\ \A k \in DOMAIN stack' : k > 1 => k - 1 \in DOMAIN stack /\ stack'[k] = stack[k - 1]
      /\ \A k \in DOMAIN stack : k + 1 \in DOMAIN stack' /\ stack'[k + 1] = stack[k]
  BY <1>1, <1>2
<1>4. \A k \in DOMAIN stack' : k > 1 => stack'[k] \in Beneath(1) \cup {Top}
  <2> SUFFICES ASSUME NEW k \in DOMAIN stack', k > 1
               PROVE  stack'[k] \in Beneath(1) \cup {Top}
    OBVIOUS
  <2>1. CASE k - 1 = 1
    BY <1>1, <1>3, <2>1 DEF Top
  <2>2. CASE k - 1 > 1
    BY <1>3, <2>2 DEF Beneath
  <2>3. k - 1 >= 1
    BY <1>3
  <2> QED BY <1>3, <2>1, <2>2, <2>3
<1>5. stack' # <<>> /\ Top' = f /\ 1 \in DOMAIN stack'
  BY <1>2, <1>3 DEF Top
<1>6. ASSUME NEW g \in Pending PROVE g \in Pending'
  <2>1. PICK k \in DOMAIN stack : g = stack[k]
    BY DEF Pending
  <2>2. k + 1 \in DOMAIN stack' /\ stack'[k + 1] = g
    BY <1>3, <2>1
  <2> QED BY <2>2 DEF Pending
<1>7. f \in Pending'
  BY <1>3, <1>5 DEF Pending
<1> QED BY <1>4, <1>5, <1>6, <1>7 DEF Beneath

\* Such a call leaves no step call behind.
LEMMA LightCalls ==
  ASSUME TypeOK, DirectCalls, NEW op, Calling(op), op \notin StepOps, MakesLight
  PROVE  DirectCalls'
<1>1. CASE stack' = Return
  BY <1>1, DirectReturn
<1>2. ASSUME NEW f, Call(<<f>>), Light(f) PROVE DirectCalls'
  BY <1>2, DirectOne DEF Light
<1>3. ASSUME NEW f, NEW g, Call(<<f, g>>), Light(f), Light(g) PROVE DirectCalls'
  BY <1>3, DirectTwo DEF Light
<1>4. ASSUME NEW f, NEW g, NEW h, Call(<<f, g, h>>), Light(f), Light(g), Light(h)
      PROVE  DirectCalls'
  <2>1. Beneath(0)' \subseteq Beneath(1) \cup {f, g, h} /\ stack'[1] = f
    BY <1>4, BeneathThree
  <2>2. Beneath(1)' \subseteq Beneath(0)'
    <3> DEFINE frames == <<f, g, h>>
               S == {f, g, h}
    <3>1. frames \in Seq(S) /\ Call(frames)
      BY <1>4
    <3> HIDE DEF frames, S
    <3>2. DOMAIN stack' = 1 .. (Len(frames) + Len(stack) - 1)
      BY <3>1, StackAfter
    <3>3. \A j \in DOMAIN stack' : j > 1 => j > 0
      BY <3>2
    <3> QED BY <3>3 DEF Beneath
  <2>3. \A x \in Beneath(1)' : x.op \notin StepOps
    BY <1>4, <2>1, <2>2 DEF DirectCalls, Light
  <2>4. Top' = f
    BY <2>1 DEF Top
  <2>5. Ready(Top)'
    BY <1>4, <2>4 DEF Light, Ready, StepOps
  <2> QED BY <2>3, <2>5 DEF DirectCalls
<1>5. ASSUME NEW f, Light(f), stack' = <<f>> \o stack
      PROVE  DirectCalls'
  <2>1. Beneath(1)' \subseteq Beneath(1) \cup {Top} /\ Top' = f
    BY <1>5, PushedCall
  <2>2. \A x \in Beneath(1)' : x.op \notin StepOps
    BY <2>1 DEF DirectCalls, Calling
  <2> QED BY <1>5, <2>1, <2>2 DEF DirectCalls, Light, Ready, StepOps
<1>6. CASE UNCHANGED stack
  <2>1. Beneath(1)' = Beneath(1) /\ Top' = Top
    BY <1>6 DEF Beneath, Top
  <2> QED BY <2>1 DEF DirectCalls, Ready, Calling, StepOps
<1> QED BY <1>1, <1>2, <1>3, <1>4, <1>5, <1>6 DEF MakesLight

\* The job engine makes light calls only, but for the start of a unit.
LEMMA EngineLight ==
  ASSUME TypeOK, EngineNext, ~MaybeStartJob
  PROVE  MakesLight
<1>1. CASE ProcessJobs
  <2>1. \A id : Light(JobCall("advance", id))
    BY LightOps
  <2> QED BY <1>1, <2>1 DEF ProcessJobs, MakesLight
<1>2. CASE TryAdvanceJob
  <2>1. Calling("advance") /\ (stack' = Return \/ \E f : Call(<<f>>) /\ Light(f))
    BY <1>2, LightOps DEF TryAdvanceJob
  <2> QED BY <2>1 DEF MakesLight
<1>3. CASE StartUnit
  <2>1. /\ \A u : Light(UnitCall("set_exited", u)) /\ Light(UnitCall("enqueue_start", u))
        /\ \A u, ok : Light(Completed(u, ok))
        /\ Light(Process)
    BY LightOps
  <2> QED BY <1>3, <2>1 DEF StartUnit, MakesLight
<1>4. CASE SetExited
  BY <1>4 DEF SetExited, MakesLight
<1>5. CASE StopUnit
  <2> DEFINE f == Completed(Top.unit, FALSE)
             g == EnqueueStop(Top.unit, FALSE, Top.irreversible)
             h == Process
  <2>1. Light(f) /\ Light(g) /\ Light(h)
    BY LightOps
  <2>2. Calling("stop") /\ \/ stack' = Return \/ Call(<<g, h>>) \/ Call(<<f>> \o <<g, h>>)
    BY <1>5 DEF StopUnit
  <2> HIDE DEF f, g, h
  <2>3. <<f>> \o <<g, h>> = <<f, g, h>>
    BY ConcatThree
  <2> QED BY <2>1, <2>2, <2>3 DEF MakesLight
<1>6. CASE StopAll
  <2>1. /\ \A u : Light(Stop(u, FALSE))
        /\ \A todo : Light(Loop("stop_all", NoUnit, 0, todo, {}))
    BY LightOps
  <2> QED BY <1>6, <2>1 DEF StopAll, MakesLight
<1>7. CASE EnqueueStart
  <2>1. \/ \E f : Call(<<f>>) /\ Light(f)
        \/ \E f, g : Call(<<f, g>>) /\ Light(f) /\ Light(g)
    <3>1. /\ \A id, ok : Light(Finish(id, ok))
          /\ \A u, id, todo, waiting : Light(Loop("conflicts", u, id, todo, waiting))
          /\ \A u, id, todo, waiting : Light(Loop("on_failure", u, id, todo, waiting))
      BY LightOps
    <3> QED BY <1>7, <3>1 DEF EnqueueStart
  <2> QED BY <2>1 DEF MakesLight
<1>8. CASE ExpandConflicts
  <2>1. Calling("conflicts") /\ \/ \E f : Call(<<f>>) /\ Light(f)
                                \/ \E f, g : Call(<<f, g>>) /\ Light(f) /\ Light(g)
    <3>1. /\ \A u, id, todo, waiting : Light(Loop("conflicts", u, id, todo, waiting))
          /\ \A u, id, todo, waiting : Light(Loop("open", u, id, todo, waiting))
          /\ \A u : Light(EnqueueStop(u, FALSE, FALSE))
      BY LightOps
    <3> QED BY <1>8, <3>1 DEF ExpandConflicts
  <2> QED BY <2>1 DEF MakesLight
<1>9. CASE ExpandOpen
  <2>1. Calling("open") /\ \/ \E f : Call(<<f>>) /\ Light(f)
                           \/ \E f, g : Call(<<f, g>>) /\ Light(f) /\ Light(g)
    <3>1. /\ \A u, id, todo, waiting : Light(Loop("open", u, id, todo, waiting))
          /\ \A u, id, todo, waiting : Light(Loop("commit", u, id, todo, waiting))
          /\ \A u : Light(UnitCall("enqueue_start", u))
          /\ \A id : Light(JobCall("maybe_start", id))
      BY LightOps
    <3> QED BY <1>9, <3>1 DEF ExpandOpen
  <2> QED BY <2>1 DEF MakesLight
<1>10. CASE ExpandCommit
  <2>1. Calling("commit") /\ \E f : Call(<<f>>) /\ Light(f)
    BY <1>10, LightOps DEF ExpandCommit
  <2> QED BY <2>1 DEF MakesLight
<1>11. CASE EnqueueStopJob
  <2>1. Calling("enqueue_stop") /\ \E f : Call(<<f>>) /\ Light(f)
    BY <1>11, LightOps DEF EnqueueStopJob
  <2> QED BY <2>1 DEF MakesLight
<1>12. CASE StopDependents
  <2>1. Calling("stop_deps") /\ \/ \E f : Call(<<f>>) /\ Light(f)
                                \/ \E f, g : Call(<<f, g>>) /\ Light(f) /\ Light(g)
    <3>1. /\ \A u, id, todo, waiting : Light(Loop("stop_deps", u, id, todo, waiting))
          /\ \A u : Light(EnqueueStop(u, FALSE, FALSE))
          /\ \A id : Light(JobCall("maybe_stop", id))
      BY LightOps
    <3> QED BY <1>12, <3>1 DEF StopDependents
  <2> QED BY <2>1 DEF MakesLight
<1>13. CASE FinishJob
  <2>1. Calling("finish")
    BY <1>13 DEF FinishJob
  <2>2. ASSUME NEW u, NEW ok, NEW frames, frames \in {<<UnitCall("enqueue_start", u)>>, <<>>},
               Call(<<Completed(u, ok)>> \o frames)
        PROVE  MakesLight
    <3> DEFINE f == Completed(u, ok)
               g == UnitCall("enqueue_start", u)
    <3>1. Light(f) /\ Light(g)
      BY LightOps
    <3> HIDE DEF f, g
    <3>2. <<f>> \o <<>> = <<f>> /\ <<f>> \o <<g>> = <<f, g>>
      BY ConcatTwo
    <3>3. Call(<<f>>) \/ Call(<<f, g>>)
      BY <2>2, <3>2 DEF f, g
    <3> QED BY <2>1, <3>1, <3>3 DEF MakesLight
  <2>3. CASE stack' = Return
    BY <2>3 DEF MakesLight
  <2> QED BY <1>13, <2>2, <2>3 DEF FinishJob
<1>14. CASE OnJobCompleted \/ PokeFailed
  <2>1. PICK op \in {"completed", "poke"} : Calling(op)
    BY <1>14 DEF OnJobCompleted, PokeFailed
  <2>2. ASSUME NEW id, NEW f, f = [Top EXCEPT !.ids = @ \ {id}]
        PROVE  Light(f) /\ Light(JobCall("advance", id)) /\ Light(Finish(id, FALSE))
    <3>1. Top \in Frame /\ Top.op = op
      BY <2>1, CallType
    <3>2. f.op = op
      BY <2>2, <3>1 DEF Frame
    <3>3. Light(f)
      BY <2>1, <3>2 DEF Light, StepOps
    <3> QED BY <3>3, LightOps
  <2>3. CASE stack' = Return
    BY <2>3 DEF MakesLight
  <2>4. ASSUME NEW id, NEW f, f = [Top EXCEPT !.ids = @ \ {id}],
               \/ Call(<<f>>)
               \/ Call(<<JobCall("advance", id), f>>)
               \/ Call(<<Finish(id, FALSE), f>>)
        PROVE  MakesLight
    BY <2>2, <2>4 DEF MakesLight
  <2> QED BY <1>14, <2>3, <2>4 DEF OnJobCompleted, PokeFailed
<1>15. CASE FireOnFailure
  <2>1. Calling("on_failure") /\ \/ \E f : Call(<<f>>) /\ Light(f)
                                 \/ \E f, g : Call(<<f, g>>) /\ Light(f) /\ Light(g)
    <3>1. /\ \A u : Light(UnitCall("start", u)) /\ Light(Process)
          /\ \A u, todo : Light(Loop("on_failure", u, 0, todo, {}))
      BY LightOps
    <3> QED BY <1>15, <3>1 DEF FireOnFailure
  <2> QED BY <2>1 DEF MakesLight
<1> QED BY <1>1, <1>2, <1>3, <1>4, <1>5, <1>6, <1>7, <1>8, <1>9, <1>10, <1>11, <1>12, <1>13,
           <1>14, <1>15 DEF EngineNext

\* So it leaves no step call behind.
LEMMA EngineDirect ==
  ASSUME TypeOK, DirectCalls, EngineNext, ~MaybeStartJob
  PROVE  DirectCalls'
<1>1. MakesLight
  BY EngineLight
<1>2. \E op : op \notin StepOps /\ Calling(op)
  BY DEF EngineNext, ProcessJobs, TryAdvanceJob, StartUnit, SetExited, StopUnit, StopAll,
     EnqueueStart, ExpandConflicts, ExpandOpen, ExpandCommit, EnqueueStopJob, StopDependents,
     FinishJob, OnJobCompleted, PokeFailed, FireOnFailure, StepOps
<1> QED BY <1>1, <1>2, LightCalls

\* A step that changes no process and no timer, and what it sets of one unit.
LEMMA QuietMoves ==
  ASSUME TypeOK, NEW u \in Units, Moving(u), ~Due(u), UNCHANGED <<armed, procs>>,
         \/ UNCHANGED units
         \/ \E v : \E r : /\ units' = [units EXCEPT ![v] = r]
                          /\ v = u => Still(u) \/ Halted(u)
  PROVE  Moving(u)'
<1>1. Unreaped(u)' = Unreaped(u)
  BY DEF Unreaped
<1>2. Still(u) \/ Halted(u)
  BY StillElse, StillSame
<1> QED BY <1>1, <1>2, MovesOn

\* A call that is not a step is not what takes a unit on.
LEMMA NotDue ==
  ASSUME NEW u, NEW op, Calling(op), op \notin StepOps
  PROVE  ~Due(u)
BY DEF Calling, Due, StepOps

\* The job engine takes no unit through a start, and starts one that is loaded.
LEMMA EngineMoves ==
  ASSUME TypeOK, DirectCalls, EngineNext
  PROVE  DirectCalls' /\ \A u \in Units : Moving(u) => Moving(u)'
<1>1. CASE \/ ProcessJobs \/ TryAdvanceJob \/ StopUnit \/ StopAll \/ ExpandConflicts
           \/ ExpandOpen \/ ExpandCommit \/ EnqueueStopJob \/ StopDependents
           \/ FinishJob \/ OnJobCompleted \/ PokeFailed \/ FireOnFailure
  <2>1. DirectCalls'
    <3>1. ~MaybeStartJob
      BY <1>1 DEF ProcessJobs, TryAdvanceJob, StopUnit, StopAll, ExpandConflicts, ExpandOpen,
         ExpandCommit, EnqueueStopJob, StopDependents, FinishJob, OnJobCompleted, PokeFailed,
         FireOnFailure, MaybeStartJob, Calling
    <3> QED BY <3>1, EngineDirect
  <2>2. UNCHANGED <<units, armed, procs>>
    BY <1>1 DEF ProcessJobs, TryAdvanceJob, StopUnit, StopAll, ExpandConflicts, ExpandOpen,
       ExpandCommit, EnqueueStopJob, StopDependents, FinishJob, OnJobCompleted, PokeFailed,
       FireOnFailure, unitVars, outside
  <2>3. \A u : ~Due(u)
    BY <1>1 DEF ProcessJobs, TryAdvanceJob, StopUnit, StopAll, ExpandConflicts, ExpandOpen,
       ExpandCommit, EnqueueStopJob, StopDependents, FinishJob, OnJobCompleted, PokeFailed,
       FireOnFailure, Calling, Due
  <2> QED BY <2>1, <2>2, <2>3, QuietMoves
<1>2. CASE StartUnit
  <2>1. Calling("start") /\ UNCHANGED <<armed, procs>>
    BY <1>2 DEF StartUnit, outside
  <2>2. ~MaybeStartJob
    BY <2>1 DEF MaybeStartJob, Calling
  <2>3. NewUnit(TRUE).active = "inactive" /\ NewUnit(TRUE).sub = "dead"
        /\ NewUnit(TRUE).control_command = "none"
    BY DEF NewUnit, NoCommand
  <2>4. UNCHANGED units \/ units' = [units EXCEPT ![Top.unit] = NewUnit(TRUE)]
    BY <1>2 DEF StartUnit
  <2>5. ASSUME NEW u \in Units, Moving(u) PROVE Moving(u)'
    <3>1. ~Due(u)
      BY <2>1, NotDue DEF StepOps
    <3>2. units' = [units EXCEPT ![u] = NewUnit(TRUE)] => Halted(u)
      BY <2>3 DEF TypeOK, Halted
    <3> QED BY <2>1, <2>4, <2>5, <3>1, <3>2, QuietMoves
  <2> QED BY <1>2, <2>2, <2>5, EngineDirect
<1>3. CASE SetExited
  <2>1. Calling("set_exited") /\ UNCHANGED <<armed, procs>>
    BY <1>3 DEF SetExited, outside
  <2>2. ~MaybeStartJob
    BY <2>1 DEF MaybeStartJob, Calling
  <2>3. units' = [units EXCEPT ![Top.unit] = Set(units[Top.unit], "active", "exited")]
    BY <1>3 DEF SetExited
  <2>4. ASSUME NEW u \in Units, Moving(u) PROVE Moving(u)'
    <3>1. ~Due(u)
      BY <2>1, NotDue DEF StepOps
    <3>2. Top.unit = u => Halted(u)
      BY <2>3, HaltedSet DEF TypeOK, ActiveState, SubState
    <3> QED BY <2>1, <2>3, <2>4, <3>1, <3>2, QuietMoves
  <2> QED BY <1>3, <2>2, <2>4, EngineDirect
<1>4. CASE EnqueueStart
  <2>1. Calling("enqueue_start") /\ UNCHANGED <<armed, procs>>
    BY <1>4 DEF EnqueueStart, outside
  <2>2. ~MaybeStartJob
    BY <2>1 DEF MaybeStartJob, Calling
  <2>3. UNCHANGED units \/ MarkFailed(Top.unit)
    BY <1>4 DEF EnqueueStart
  <2>4. ASSUME NEW u \in Units, Moving(u) PROVE Moving(u)'
    <3>1. ~Due(u)
      BY <2>1, NotDue DEF StepOps
    <3>2. MarkFailed(Top.unit) => units' = [units EXCEPT ![Top.unit] = Set(units[Top.unit], "failed", "failed")]
      BY DEF MarkFailed
    <3>3. MarkFailed(Top.unit) /\ Top.unit = u => Halted(u)
      BY <3>2, HaltedSet DEF TypeOK, ActiveState, SubState
    <3> QED BY <2>1, <2>3, <2>4, <3>1, <3>2, <3>3, QuietMoves
  <2> QED BY <1>4, <2>2, <2>4, EngineDirect
<1>5. CASE MaybeStartJob
  <2>1. Calling("maybe_start") /\ UNCHANGED <<armed, procs>>
    BY <1>5 DEF MaybeStartJob, Panic, outside
  <2>2. \/ UNCHANGED <<units, stack>>
        \/ UNCHANGED units /\ (stack' = Return \/ \E f : Call(<<f>>) /\ Light(f))
        \/ \E v, n : /\ units' = [units EXCEPT ![v] = [units[v] EXCEPT !.start_window = n]]
                     /\ \/ \E f : Call(<<f>>) /\ Light(f)
                        \/ units[v].loaded /\ v \in Units /\ Call(<<UnitCall("do_start", v)>>)
    <3>1. \A id, ok : Light(Finish(id, ok))
      BY LightOps
    <3>2. Top.id \in DOMAIN jobs => jobs[Top.id].unit \in Units
      BY DEF TypeOK, JobsTypeOK, Job
    <3> QED BY <1>5, <3>1, <3>2 DEF MaybeStartJob, Panic
  <2>3. ASSUME NEW v, NEW n, units' = [units EXCEPT ![v] = [units[v] EXCEPT !.start_window = n]],
               NEW u \in Units, v = u
        PROVE  Still(u)
    BY <2>3 DEF TypeOK, UnitRec, Still
  <2>4. ASSUME NEW u \in Units, Moving(u) PROVE Moving(u)'
    <3>1. ~Due(u)
      BY <2>1, NotDue DEF StepOps
    <3>2. UNCHANGED units \/ \E v : \E r : /\ units' = [units EXCEPT ![v] = r]
                                           /\ v = u => Still(u)
      BY <2>2, <2>3
    <3> QED BY <2>1, <2>4, <3>1, <3>2, QuietMoves
  <2>5. CASE UNCHANGED stack
    <3>1. Beneath(1)' = Beneath(1) /\ Top' = Top
      BY <2>5 DEF Beneath, Top
    <3>2. Top.op \notin StepOps
      BY <2>1 DEF Calling, StepOps
    <3>3. Ready(Top)'
      BY <3>1, <3>2 DEF Ready, StepOps
    <3> QED BY <2>4, <3>1, <3>3 DEF DirectCalls
  <2>6. CASE stack' = Return \/ \E f : Call(<<f>>) /\ Light(f)
    <3>1. CASE stack' = Return
      BY <2>1, <2>4, <3>1, DirectReturn
    <3>2. ASSUME NEW f, Call(<<f>>), Light(f)
          PROVE  DirectCalls'
      BY <2>1, <3>2, DirectOne DEF Light
    <3> QED BY <2>4, <2>6, <3>1, <3>2
  <2>7. ASSUME NEW v \in Units, NEW n, units[v].loaded,
               units' = [units EXCEPT ![v] = [units[v] EXCEPT !.start_window = n]],
               Call(<<UnitCall("do_start", v)>>)
        PROVE  DirectCalls'
    <3> DEFINE f == UnitCall("do_start", v)
    <3>1. f.op = "do_start" /\ f.unit = v
      BY DEF UnitCall, Frm
    <3>2. units'[v].loaded
      BY <2>3, <2>7 DEF Still
    <3> HIDE DEF f
    <3>3. Ready(f)'
      BY <3>1, <3>2 DEF Ready
    <3> QED BY <2>1, <2>7, <3>3, DirectOne DEF f
  <2> QED BY <2>2, <2>4, <2>5, <2>6, <2>7
<1> QED BY <1>1, <1>2, <1>3, <1>4, <1>5 DEF EngineNext

\* A unit that is called active, inactive or failed waits for nothing.
LEMMA HaltedMoves ==
  ASSUME NEW u \in Units, Moving(u), Halted(u)
  PROVE  Moving(u)'
BY DEF Moving, Halted

\* The call that ends a job, or none.
LEMMA FinishDirect ==
  ASSUME TypeOK, DirectCalls, NEW op, Calling(op), NEW u, NEW frames,
         frames \in {<<Finish(unit_job[u], TRUE)>>, <<>>}, Call(frames)
  PROVE  DirectCalls'
<1>1. CASE frames = <<>>
  <2>1. stack' = Return
    <3>1. Return \in Seq(Frame)
      BY CallType
    <3> QED BY <1>1, <3>1 DEF Call
  <2> QED BY <2>1, DirectReturn
<1>2. CASE frames = <<Finish(unit_job[u], TRUE)>>
  <2> DEFINE f == Finish(unit_job[u], TRUE)
  <2>1. Light(f) /\ Call(<<f>>)
    BY <1>2, LightOps
  <2> HIDE DEF f
  <2> QED BY <2>1, DirectOne DEF Light
<1> QED BY <1>1, <1>2

\* do_start: a target is active at once, a service has its first command to run.
LEMMA DoStartMoves ==
  ASSUME TypeOK, MoveInv, DoStart
  PROVE  MoveInv'
<1> DEFINE rec == Set(units[Top.unit], "activating", "start-pre")
           next == [rec EXCEPT !.main_pid = NoPid, !.group_pid = NoPid, !.control_pid = NoPid,
                               !.control_command = NoCommand, !.cmd_index = 0]
           cmd == IF ExecCount[Top.unit]["StartPre"] > 0 THEN "StartPre" ELSE "Start"
<1>0. PICK v, r, f : v = Top.unit /\ r = next /\ f = Spawn(v, cmd, 0)
  OBVIOUS
<1>1. /\ Calling("do_start") /\ stack # <<>> /\ v \in Units /\ Top.op = "do_start"
      /\ UNCHANGED <<armed, procs>>
  BY <1>0, CallType DEF DoStart, UnitOps, outside, Calling
<1>2. DirectCalls
  BY DEF MoveInv
<1>3. Steady(v) => units[v].loaded
  BY <1>0, <1>1, <1>2 DEF DirectCalls, Ready
<1>4. units[v] \in UnitRec
  BY <1>1 DEF TypeOK
<1>5. f.op = "spawn" /\ f.unit = v /\ f.cmd \in {"StartPre", "Start"}
  BY <1>0 DEF Spawn, Frm
<1>6. r.active = "activating" /\ r.sub = "start-pre" /\ r.control_command = "none"
  <2>1. rec \in UnitRec /\ rec.active = "activating" /\ rec.sub = "start-pre"
    BY <1>0, <1>4, SetFields DEF ActiveState, SubState
  <2> HIDE DEF rec
  <2> QED BY <1>0, <2>1 DEF UnitRec, NoCommand
<1>7. \/ ~units[v].loaded /\ stack' = Return /\ UNCHANGED units
      \/ /\ units[v].loaded /\ Call(CompleteStart(v))
         /\ units' = [units EXCEPT ![v] = Set(units[v], "active", "dead")]
      \/ units[v].loaded /\ units' = [units EXCEPT ![v] = r] /\ Call(<<f>>)
  BY <1>0 DEF DoStart
<1> HIDE DEF next, cmd
<1>8. ASSUME NEW u \in Units, u # v, Moving(u)
      PROVE  Moving(u)'
  <2>1. ~Due(u)
    BY <1>0, <1>8 DEF Due
  <2>2. UNCHANGED units \/ \E x : units' = [units EXCEPT ![v] = x]
    BY <1>7
  <2> QED BY <1>1, <1>8, <2>1, <2>2, QuietMoves
<1>9. CASE ~units[v].loaded /\ stack' = Return /\ UNCHANGED units
  <2>1. DirectCalls'
    BY <1>1, <1>2, <1>9, DirectReturn
  <2> QED BY <1>3, <1>8, <1>9, <2>1 DEF MoveInv
<1>10. CASE /\ units[v].loaded /\ Call(CompleteStart(v))
            /\ units' = [units EXCEPT ![v] = Set(units[v], "active", "dead")]
  <2>1. CompleteStart(v) \in {<<Finish(unit_job[v], TRUE)>>, <<>>}
    BY DEF CompleteStart
  <2>2. DirectCalls'
    BY <1>1, <1>2, <1>10, <2>1, FinishDirect
  <2>3. Halted(v)
    BY <1>1, <1>4, <1>10, HaltedSet DEF ActiveState, SubState
  <2> QED BY <1>1, <1>8, <2>2, <2>3, HaltedMoves DEF MoveInv
<1>11. CASE units[v].loaded /\ units' = [units EXCEPT ![v] = r] /\ Call(<<f>>)
  <2>1. Ready(f)'
    BY <1>5 DEF Ready
  <2>2. DirectCalls' /\ stack' # <<>> /\ Top' = f
    BY <1>1, <1>2, <1>11, <2>1, DirectOne
  <2>3. units'[v] = r
    BY <1>1, <1>11 DEF TypeOK
  <2>4. Due(v)'
    BY <1>5, <2>2 DEF Due
  <2>5. Moving(v)'
    BY <1>6, <2>3, <2>4 DEF Moving
  <2> QED BY <1>8, <2>2, <2>5 DEF MoveInv
<1> QED BY <1>7, <1>9, <1>10, <1>11

\* finalize_stop: the unit is inactive.
LEMMA FinalizeMoves ==
  ASSUME TypeOK, MoveInv, FinalizeStop
  PROVE  MoveInv'
<1> DEFINE v == Top.unit
           rec == Set(units[v], "inactive", "dead")
           r == [rec EXCEPT !.main_pid = NoPid, !.group_pid = NoPid, !.cgroup = FALSE,
                            !.control_pid = NoPid, !.control_command = NoCommand, !.cmd_index = 0]
           frames == IF PendingStop(v) THEN <<Finish(unit_job[v], TRUE)>> ELSE <<>>
<1>1. Calling("finalize") /\ v \in Units /\ UNCHANGED <<armed, procs>>
  BY CallType DEF FinalizeStop, UnitOps, outside
<1>2. units[v] \in UnitRec
  <2> HIDE DEF v
  <2> QED BY <1>1 DEF TypeOK
<1>3. r.active = "inactive" /\ r.sub = "dead" /\ r.control_command = "none"
  <2>1. rec \in UnitRec /\ rec.active = "inactive" /\ rec.sub = "dead"
    BY <1>2, SetFields DEF ActiveState, SubState
  <2> HIDE DEF rec
  <2> QED BY <2>1 DEF UnitRec, NoCommand
<1>4. units' = [units EXCEPT ![v] = r] /\ Call(frames)
  BY DEF FinalizeStop
<1>5. frames \in {<<Finish(unit_job[v], TRUE)>>, <<>>}
  OBVIOUS
<1> HIDE DEF r, v, frames
<1>6. DirectCalls'
  BY <1>1, <1>4, <1>5, FinishDirect DEF MoveInv
<1>7. Halted(v)
  BY <1>1, <1>3, <1>4 DEF TypeOK, Halted
<1>8. ASSUME NEW u \in Units, Moving(u) PROVE Moving(u)'
  <2>1. CASE u = v
    BY <1>7, <1>8, <2>1, HaltedMoves
  <2>2. CASE u # v
    <3>1. ~Due(u)
      BY <2>2 DEF Due, v
    <3> QED BY <1>1, <1>4, <1>8, <2>2, <3>1, QuietMoves
  <2> QED BY <2>1, <2>2
<1> QED BY <1>6, <1>8 DEF MoveInv

\* do_stop: a unit whose processes are signalled still has one, and one without is
\* finalized next.
LEMMA DoStopMoves ==
  ASSUME TypeOK, NoStalePid, MoveInv, Calling("maybe_stop"), NEW v \in Units, DoStop(v)
  PROVE  MoveInv'
<1>1. units[v] \in UnitRec /\ DirectCalls
  BY DEF TypeOK, MoveInv
<1>2. \A u : ~Due(u)
  BY NotDue DEF StepOps
<1>3. ASSUME NEW sub \in SubState, sub \in {"stop", "stop-sigterm"},
             units' = [units EXCEPT ![v] = Set(units[v], "deactivating", sub)]
      PROVE  /\ units'[v].active = "deactivating" /\ units'[v].sub = sub
             /\ units'[v].control_command = units[v].control_command
  <2>1. units'[v] = Set(units[v], "deactivating", sub)
    BY <1>3 DEF TypeOK
  <2>2. "deactivating" \in ActiveState
    BY DEF ActiveState
  <2>3. Set(units[v], "deactivating", sub).active = "deactivating"
    BY <1>1, <1>3, <2>2, SetFields
  <2> QED BY <1>1, <1>3, <2>1, <2>2, <2>3, SetFields
<1>4. CASE v \notin Targets /\ unit_has_processes(v)
  <2>1. /\ units' = [units EXCEPT ![v] = Set(units[v], "deactivating", "stop-sigterm")]
        /\ procs' = Signalled(Tree(v), "termed") /\ armed' = ArmStop(v) /\ stack' = Return
    BY <1>4 DEF DoStop
  <2>2. DirectCalls'
    BY <1>1, <2>1, DirectReturn
  <2>3. \A u \in Units : Unreaped(u)' = Unreaped(u)
    BY <2>1, SignalledStay
  <2>4. armed \subseteq armed'
    BY <2>1 DEF ArmStop
  <2>5. Unreaped(v) # {}
    <3>1. \A p \in Pids : procs[p].unit = v /\ procs[p].st # "free" => p \in Unreaped(v)
      BY DEF Unreaped
    <3>2. \A p \in {units[v].main_pid, units[v].group_pid} \ {NoPid} : p \in Pids /\ p \in Unreaped(v)
      BY <1>1, <3>1 DEF NoStalePid, UnitRec
    <3>3. \A p \in Pids : procs[p].unit = v /\ procs[p].st \in Alive => p \in Unreaped(v)
      BY <3>1 DEF Alive
    <3> QED BY <1>4, <3>2, <3>3 DEF unit_has_processes
  <2>6. ASSUME NEW u \in Units, Moving(u) PROVE Moving(u)'
    <3>1. CASE u # v
      <4>1. Still(u)
        BY <2>1, <3>1, StillElse
      <4> QED BY <1>2, <2>3, <2>4, <2>6, <3>1, <4>1, MovesOn
    <3>2. CASE u = v
      <4>1. /\ units'[u].active = "deactivating" /\ units'[u].sub = "stop-sigterm"
            /\ units'[u].control_command = units[u].control_command
        BY <1>3, <2>1, <3>2 DEF SubState
      <4> QED BY <2>3, <2>5, <2>6, <3>2, <4>1 DEF Moving
    <3> QED BY <3>1, <3>2
  <2> QED BY <2>2, <2>6 DEF MoveInv
<1>5. CASE ~(v \notin Targets /\ unit_has_processes(v))
  <2> DEFINE f == IF v \in Targets \/ ExecCount[v]["Stop"] = 0
                  THEN UnitCall("finalize", v) ELSE Spawn(v, "Stop", 0)
  <2>1. /\ units' = [units EXCEPT ![v] = Set(units[v], "deactivating", "stop")]
        /\ UNCHANGED <<armed, procs>> /\ Call(<<f>>)
    BY <1>5 DEF DoStop
  <2>2. f.unit = v /\ (Steady(v) => f.op = "finalize")
    BY DEF Steady, UnitCall, Spawn, Frm
  <2> HIDE DEF f
  <2>3. Steady(f.unit) => Ready(f)'
    BY <2>2 DEF Ready
  <2>4. DirectCalls' /\ stack' # <<>> /\ Top' = f
    BY <1>1, <2>1, <2>3, DirectOne
  <2>5. ASSUME NEW u \in Units, Steady(u), Moving(u) PROVE Moving(u)'
    <3>1. CASE u # v
      BY <1>2, <2>1, <2>5, <3>1, QuietMoves
    <3>2. CASE u = v
      <4>1. /\ units'[u].active = "deactivating" /\ units'[u].sub = "stop"
            /\ units'[u].control_command = units[u].control_command
        BY <1>3, <2>1, <3>2 DEF SubState
      <4>2. Due(u)'
        BY <2>2, <2>4, <2>5, <3>2 DEF Due
      <4> QED BY <2>5, <4>1, <4>2 DEF Moving
    <3> QED BY <3>1, <3>2
  <2> QED BY <2>4, <2>5 DEF MoveInv
<1> QED BY <1>4, <1>5

\* maybe_stop_job: the job ends, or the unit is stopped.
LEMMA MaybeStopMoves ==
  ASSUME TypeOK, NoStalePid, MoveInv, MaybeStopJob
  PROVE  MoveInv'
<1>1. Calling("maybe_stop") /\ DirectCalls
  BY DEF MaybeStopJob, MoveInv
<1>2. \A u : ~Due(u)
  BY <1>1, NotDue DEF StepOps
<1>3. \A u \in Units : UNCHANGED <<units, armed, procs>> /\ Moving(u) => Moving(u)'
  BY <1>2, QuietMoves
<1>4. \/ UNCHANGED <<units, armed, procs, stack>>
      \/ UNCHANGED <<units, armed, procs>> /\ (stack' = Return \/ Call(<<Finish(Top.id, TRUE)>>))
      \/ Top.id \in DOMAIN jobs /\ DoStop(jobs[Top.id].unit)
  BY DEF MaybeStopJob, Panic, outside
<1>5. CASE UNCHANGED <<units, armed, procs, stack>>
  <2>1. Beneath(1)' = Beneath(1) /\ Top' = Top
    BY <1>5 DEF Beneath, Top
  <2>2. Top.op \notin StepOps
    BY <1>1 DEF Calling, StepOps
  <2>3. Ready(Top)'
    BY <2>1, <2>2 DEF Ready, StepOps
  <2>4. DirectCalls'
    BY <1>1, <2>1, <2>3 DEF DirectCalls
  <2> QED BY <1>3, <1>5, <2>4 DEF MoveInv
<1>6. CASE UNCHANGED <<units, armed, procs>> /\ (stack' = Return \/ Call(<<Finish(Top.id, TRUE)>>))
  <2>1. Light(Finish(Top.id, TRUE))
    BY LightOps
  <2>2. DirectCalls'
    BY <1>1, <1>6, <2>1, DirectReturn, DirectOne DEF Light
  <2> QED BY <1>3, <1>6, <2>2 DEF MoveInv
<1>7. CASE Top.id \in DOMAIN jobs /\ DoStop(jobs[Top.id].unit)
  <2>1. jobs[Top.id].unit \in Units
    BY <1>7 DEF TypeOK, JobsTypeOK, Job
  <2> QED BY <1>1, <1>7, <2>1, DoStopMoves
<1> QED BY <1>4, <1>5, <1>6, <1>7

\* The calls a failed command makes.
LEMMA FailDirect ==
  ASSUME TypeOK, DirectCalls, NEW op, Calling(op), NEW v, Call(FailCalls(v))
  PROVE  DirectCalls'
<1> DEFINE f == IF PendingStart(v) THEN Finish(unit_job[v], FALSE) ELSE Poke(v)
           g == Loop("on_failure", v, 0, OnFailure[v], {})
<1>1. Light(f) /\ Light(g) /\ Call(<<f, g>>)
  <2>1. Light(Finish(unit_job[v], FALSE)) /\ Light(Poke(v)) /\ Light(g)
    BY LightOps
  <2> QED BY <2>1 DEF FailCalls
<1> HIDE DEF f, g
<1> QED BY <1>1, DirectTwo DEF Light

\* stage_done: the next stage is started, the start is over, or a reload.
LEMMA StageMoves ==
  ASSUME TypeOK, MoveInv, Calling("spawn"), NEW rec \in UnitRec, NEW v, NEW cmd,
         v = Top.unit, cmd = Top.cmd, StageDone(rec, v, cmd),
         rec.active = units[v].active, rec.sub = units[v].sub, rec.loaded = units[v].loaded,
         rec.control_pid = units[v].control_pid, rec.control_command = units[v].control_command,
         Steady(v) => cmd \in {"StartPre", "Start", "Reload"}
  PROVE  MoveInv'
<1>1. v \in Units /\ UNCHANGED <<armed, procs>> /\ DirectCalls /\ Top.op = "spawn" /\ stack # <<>>
  BY CallType DEF StageDone, MoveInv, UnitOps, Calling
<1>2. \A u \in Units : Steady(u) => Moving(u)
  BY DEF MoveInv
<1>3. ASSUME NEW u \in Units, u # v, Moving(u)
      PROVE  Moving(u)'
  <2>1. ~Due(u)
    BY <1>3 DEF Due
  <2>2. \E x : units' = [units EXCEPT ![v] = x]
    BY DEF StageDone
  <2> QED BY <1>1, <1>3, <2>1, <2>2, QuietMoves
<1>4. ASSUME cmd # "Start"
      PROVE  Still(v)
  <2>1. units' = [units EXCEPT ![v] = rec]
    BY <1>4 DEF StageDone
  <2> QED BY <1>1, <2>1 DEF TypeOK, Still
<1>5. CASE cmd = "StartPre"
  <2> DEFINE f == Spawn(v, "Start", 0)
  <2>1. f.op = "spawn" /\ f.unit = v /\ f.cmd = "Start"
    BY DEF Spawn, Frm
  <2>2. Call(<<f>>)
    BY <1>5 DEF StageDone
  <2> HIDE DEF f
  <2>3. Ready(f)'
    BY <2>1 DEF Ready
  <2>4. DirectCalls' /\ stack' # <<>> /\ Top' = f
    BY <1>1, <2>2, <2>3, DirectOne
  <2>5. Due(v)'
    BY <2>1, <2>4 DEF Due
  <2>6. ASSUME Moving(v) PROVE Moving(v)'
    <3>1. Still(v)
      BY <1>4, <1>5
    <3>2. units[v].active = "activating" /\ units[v].sub = "auto-restart" =>
            <<v, "RestartDelay">> \in armed'
      BY <1>1, <2>6 DEF Moving
    <3> QED BY <2>5, <2>6, <3>1, <3>2 DEF Moving, Still
  <2> QED BY <1>2, <1>3, <2>4, <2>6 DEF MoveInv
<1>6. CASE cmd = "Start"
  <2>1. units' = [units EXCEPT ![v] = Ended(rec, v)] /\ Call(CompleteStart(v))
    BY <1>6 DEF StageDone
  <2>2. CompleteStart(v) \in {<<Finish(unit_job[v], TRUE)>>, <<>>}
    BY DEF CompleteStart
  <2>3. DirectCalls'
    BY <1>1, <2>1, <2>2, FinishDirect
  <2>4. units'[v] = Ended(rec, v)
    BY <1>1, <2>1 DEF TypeOK
  <2>5. Halted(v)
    BY <2>4, EndedFields DEF Halted
  <2> QED BY <1>1, <1>2, <1>3, <2>3, <2>5, HaltedMoves DEF MoveInv
<1>7. CASE cmd = "Stop"
  <2> DEFINE f == UnitCall("finalize", v)
  <2>1. f.op = "finalize" /\ Call(<<f>>)
    BY <1>7 DEF StageDone, UnitCall, Frm
  <2> HIDE DEF f
  <2>2. Ready(f)'
    BY <2>1 DEF Ready
  <2>3. DirectCalls'
    BY <1>1, <2>1, <2>2, DirectOne
  <2>4. ~Steady(v)
    BY <1>7
  <2> QED BY <1>2, <1>3, <2>3, <2>4 DEF MoveInv
<1>8. CASE cmd \notin {"StartPre", "Start", "Stop"}
  <2>1. Call(<<>>)
    BY <1>8 DEF StageDone
  <2>2. stack' = Return
    <3>1. Return \in Seq(Frame)
      BY CallType
    <3> QED BY <2>1, <3>1 DEF Call
  <2>3. DirectCalls'
    BY <1>1, <2>2, DirectReturn
  <2>4. ASSUME Steady(v) PROVE Moving(v)'
    <3>1. ~Due(v)
      BY <1>1, <1>8, <2>4 DEF Due
    <3>2. Unreaped(v)' = Unreaped(v)
      BY <1>1 DEF Unreaped
    <3> QED BY <1>1, <1>2, <1>4, <1>8, <2>4, <3>1, <3>2, MovesOn
  <2> QED BY <1>2, <1>3, <2>3, <2>4 DEF MoveInv
<1> QED BY <1>5, <1>6, <1>7, <1>8

\* A child is spawned: the unit has it to wait for, or is active.
LEMMA SpawnedMoves ==
  ASSUME TypeOK, MoveInv, Calling("spawn"), NEW v, NEW cmd, v = Top.unit, cmd = Top.cmd,
         NEW p \in Pids, procs[p].st = "free", Spawned(v, cmd, p),
         Steady(v) => cmd \in {"StartPre", "Start", "Reload", "StartPost"}
  PROVE  MoveInv'
<1> DEFINE rec == [units[v] EXCEPT !.group_pid = p, !.cgroup = UseCgroup]
           active == [Set(rec, "active", "running") EXCEPT
                        !.main_pid = p, !.control_pid = NoPid, !.control_command = NoCommand]
           main == [rec EXCEPT !.main_pid = p, !.control_pid = NoPid,
                               !.control_command = NoCommand]
           control == [rec EXCEPT !.control_pid = p, !.control_command = cmd,
                         !.sub = IF cmd = "Start" /\ ServiceType[v] = "oneshot"
                                 THEN "start" ELSE @]
<1>1. /\ v \in Units /\ units[v] \in UnitRec /\ DirectCalls
      /\ Top.op = "spawn" /\ stack # <<>>
      /\ cmd \in ControlCommand \cup {NoCommand}
  <2>1. v \in Units /\ Top \in Frame
    BY CallType DEF UnitOps
  <2> QED BY <2>1 DEF TypeOK, MoveInv, Calling, Frame
<1>2. \A u \in Units : Steady(u) => Moving(u)
  BY DEF MoveInv
<1>3. /\ \A u \in Units : u # v => Unreaped(u)' = Unreaped(u)
      /\ p \in Unreaped(v)' /\ Unreaped(v) \subseteq Unreaped(v)' /\ p \notin Unreaped(v)
  <2>1. /\ procs' = [procs EXCEPT ![p] = [st |-> "running", unit |-> v]]
        /\ procs \in [Pids -> Proc]
    BY DEF Spawned, TypeOK
  <2>2. procs'[p].st = "running" /\ procs'[p].unit = v
    BY <2>1
  <2>3. \A q \in Pids \ {p} : procs'[q] = procs[q]
    BY <2>1
  <2> QED BY <2>2, <2>3 DEF Unreaped
<1>4. armed \subseteq armed'
  BY DEF Spawned, ArmStart
<1>5. ASSUME NEW u \in Units, u # v, Moving(u)
      PROVE  Moving(u)'
  <2>1. ~Due(u)
    BY <1>5 DEF Due
  <2>2. Still(u)
    <3>1. \E x : units' = [units EXCEPT ![v] = x]
      BY DEF Spawned
    <3> QED BY <1>5, <3>1, StillElse
  <2> QED BY <1>3, <1>4, <1>5, <2>1, <2>2, MovesOn
<1>6. \/ /\ units' = [units EXCEPT ![v] = active] /\ Call(CompleteStart(v))
      \/ units' = [units EXCEPT ![v] = main] /\ stack' = Return
      \/ units' = [units EXCEPT ![v] = control] /\ stack' = Return
  BY DEF Spawned
<1>7. /\ active.active = "active" /\ active.sub = "running"
      /\ active.control_command = "none"
      /\ main.active = units[v].active /\ main.sub = units[v].sub
      /\ main.loaded = units[v].loaded /\ main.control_pid = NoPid
      /\ main.control_command = "none"
      /\ control.active = units[v].active /\ control.sub \in {units[v].sub, "start"}
      /\ control.loaded = units[v].loaded /\ control.control_pid = p
      /\ control.control_command = cmd
  BY <1>1 DEF UnitRec, NoCommand, Set
<1> HIDE DEF active, main, control
<1>8. CASE units' = [units EXCEPT ![v] = active] /\ Call(CompleteStart(v))
  <2>1. CompleteStart(v) \in {<<Finish(unit_job[v], TRUE)>>, <<>>}
    BY DEF CompleteStart
  <2>2. DirectCalls'
    BY <1>1, <1>8, <2>1, FinishDirect
  <2>3. Halted(v)
    BY <1>1, <1>7, <1>8 DEF TypeOK, Halted
  <2> QED BY <1>1, <1>2, <1>5, <2>2, <2>3, HaltedMoves DEF MoveInv
<1>9. CASE stack' = Return
  <2>1. DirectCalls'
    BY <1>1, <1>9, DirectReturn
  <2>2. ASSUME Steady(v), Moving(v),
               \/ units' = [units EXCEPT ![v] = main]
               \/ units' = [units EXCEPT ![v] = control]
        PROVE  Moving(v)'
    <3>1. \/ units'[v] = main
          \/ units'[v] = control
      BY <1>1, <2>2 DEF TypeOK
    <3>2. /\ units'[v].active = units[v].active /\ units'[v].sub \in {units[v].sub, "start"}
          /\ units'[v].loaded = units[v].loaded
          /\ \/ units'[v].control_pid = NoPid /\ units'[v].control_command = "none"
             \/ units'[v].control_pid = p /\ units'[v].control_command = cmd
      BY <1>7, <3>1
    <3>3. units'[v].control_command # "Stop"
      BY <2>2, <3>2
    <3>4. units'[v].sub = "auto-restart" => units[v].sub = "auto-restart"
      BY <3>2
    <3>5. units'[v].active = "activating" /\ units'[v].sub = "auto-restart" =>
            <<v, "RestartDelay">> \in armed'
      BY <1>1, <1>4, <2>2, <3>2, <3>4 DEF Moving
    <3>6. ASSUME units'[v].active = "activating", units'[v].sub # "auto-restart"
          PROVE  Attended(v)'
      <4>1. CASE units'[v].control_pid = NoPid
        BY <1>3, <4>1, UnitsAssumption DEF Attended
      <4>2. CASE units'[v].control_pid = p /\ cmd # "Reload"
        BY <1>3, <3>2, <4>2, UnitsAssumption DEF Attended
      <4>3. CASE units'[v].control_pid = p /\ cmd = "Reload"
        <5>1. units'[v].sub = units[v].sub
          <6>1. control.sub = units[v].sub
            BY <1>1, <4>3 DEF UnitRec, control
          <6> QED BY <1>7, <3>1, <6>1
        <5>2. ~Due(v)
          BY <1>1, <4>3 DEF Due
        <5>3. Attended(v)
          BY <2>2, <3>2, <3>6, <5>1, <5>2 DEF Moving
        <5>4. PICK q \in Unreaped(v) : TRUE
          BY <5>3 DEF Attended
        <5>5. q # p /\ q \in Unreaped(v)'
          BY <1>3, <5>4
        <5> QED BY <4>3, <5>5 DEF Attended
      <4> QED BY <3>2, <4>1, <4>2, <4>3
    <3>7. units'[v].active = "deactivating" => Unreaped(v)' # {}
      BY <1>3
    <3>8. units'[v].sub = "auto-restart" => units'[v].loaded /\ Restart[v] # "no"
      BY <2>2, <3>2, <3>4 DEF Moving
    <3> QED BY <3>3, <3>5, <3>6, <3>7, <3>8 DEF Moving
  <2>3. CASE \/ units' = [units EXCEPT ![v] = main]
             \/ units' = [units EXCEPT ![v] = control]
    BY <1>2, <1>5, <2>1, <2>2, <2>3, <1>1 DEF MoveInv
  <2>4. CASE units' = [units EXCEPT ![v] = active]
    <3>1. Halted(v)
      BY <1>1, <1>7, <2>4 DEF TypeOK, Halted
    <3> QED BY <1>1, <1>2, <1>5, <2>1, <3>1, HaltedMoves DEF MoveInv
  <2> QED BY <1>6, <2>3, <2>4
<1> QED BY <1>6, <1>8, <1>9

\* spawn_control, whichever way it goes.
LEMMA SpawnMoves ==
  ASSUME TypeOK, MoveInv, SpawnControl
  PROVE  MoveInv'
<1>0. PICK v, cmd, rec : /\ v = Top.unit /\ cmd = Top.cmd
                         /\ rec = [units[v] EXCEPT !.cgroup = UseCgroup]
  OBVIOUS
<1>1. Calling("spawn") /\ v \in Units /\ DirectCalls /\ Top.op = "spawn" /\ stack # <<>>
  BY <1>0, CallType DEF SpawnControl, UnitOps, MoveInv, Calling
<1>2. units[v] \in UnitRec
  BY <1>1 DEF TypeOK
<1>3. /\ rec \in UnitRec /\ rec.active = units[v].active /\ rec.sub = units[v].sub
      /\ rec.loaded = units[v].loaded /\ rec.control_pid = units[v].control_pid
      /\ rec.control_command = units[v].control_command
  BY <1>0, <1>2, ConfigAssumption DEF UnitRec
<1>4. Steady(v) => \/ cmd \in {"StartPre", "Start", "Reload"}
                   \/ cmd = "StartPost" /\ Top.id = 0 /\ ExecCount[v]["StartPost"] > 0
  BY <1>0, <1>1 DEF DirectCalls, Ready
<1>5. CASE ExecCount[v][cmd] <= Top.id /\ StageDone(units[v], v, cmd)
  <2>1. Steady(v) => cmd \in {"StartPre", "Start", "Reload"}
    <3>1. ExecCount[v]["StartPost"] \in Nat
      BY <1>1, ConfigAssumption DEF ControlCommand
    <3> QED BY <1>4, <1>5, <3>1
  <2> QED BY <1>0, <1>1, <1>2, <1>5, <2>1, StageMoves
<1>6. CASE v \in IgnoreFailure /\ cmd # "Stop" /\ StageDone(rec, v, cmd)
  <2>1. Steady(v) => cmd \in {"StartPre", "Start", "Reload"}
    BY <1>4, <1>6 DEF Steady
  <2> QED BY <1>0, <1>1, <1>3, <1>6, <2>1, StageMoves
<1>7. ASSUME NEW p \in Pids, procs[p].st = "free", Spawned(v, cmd, p)
      PROVE  MoveInv'
  BY <1>0, <1>1, <1>4, <1>7, SpawnedMoves
<1>8. ASSUME NEW r \in {units[v], rec}, units' = [units EXCEPT ![v] = Set(r, "failed", "failed")],
             Call(FailCalls(v)), UNCHANGED <<armed, procs>>
      PROVE  MoveInv'
  <2>1. DirectCalls'
    BY <1>1, <1>8, FailDirect
  <2>2. Halted(v)
    BY <1>1, <1>2, <1>3, <1>8, HaltedSet DEF ActiveState, SubState
  <2>3. ASSUME NEW u \in Units, Moving(u) PROVE Moving(u)'
    <3>1. u # v => ~Due(u)
      BY <1>0 DEF Due
    <3> QED BY <1>8, <2>2, <2>3, <3>1, HaltedMoves, QuietMoves
  <2> QED BY <2>1, <2>3 DEF MoveInv
<1>9. \/ ExecCount[v][cmd] <= Top.id /\ StageDone(units[v], v, cmd)
      \/ v \in IgnoreFailure /\ cmd # "Stop" /\ StageDone(rec, v, cmd)
      \/ \E p \in Pids : procs[p].st = "free" /\ Spawned(v, cmd, p)
      \/ /\ \E r \in {units[v], rec} : units' = [units EXCEPT ![v] = Set(r, "failed", "failed")]
         /\ Call(FailCalls(v)) /\ UNCHANGED <<armed, procs>>
  BY <1>0, SpawnWays
<1> QED BY <1>5, <1>6, <1>7, <1>8, <1>9

\* The calls of an event: one, which may be a step, and one that is not.
LEMMA DirectEvent ==
  ASSUME \/ stack' = <<>>
         \/ \E f : /\ stack' = <<f>> \/ \E g : stack' = <<f, g>> /\ Light(g)
                   /\ f.op \in StepOps /\ Steady(f.unit) => Ready(f)'
  PROVE  DirectCalls'
<1>1. CASE stack' = <<>>
  BY <1>1 DEF DirectCalls, Beneath
<1>2. ASSUME NEW f, f.op \in StepOps /\ Steady(f.unit) => Ready(f)',
             stack' = <<f>> \/ \E g : stack' = <<f, g>> /\ Light(g)
      PROVE  DirectCalls'
  <2>1. Top' = f
    BY <1>2 DEF Top
  <2>2. Steady(f.unit) => Ready(f)'
    BY <1>2 DEF Ready, StepOps
  <2>3. \A x \in Beneath(1)' : x.op \notin StepOps
    <3>1. CASE stack' = <<f>>
      BY <3>1 DEF Beneath
    <3>2. ASSUME NEW g, stack' = <<f, g>>, Light(g)
          PROVE  \A x \in Beneath(1)' : x.op \notin StepOps
      <4>1. \A k \in DOMAIN stack' : k > 1 => stack'[k] = g
        BY <3>2
      <4> QED BY <3>2, <4>1 DEF Beneath, Light
    <3> QED BY <1>2, <3>1, <3>2
  <2> QED BY <2>1, <2>2, <2>3 DEF DirectCalls
<1> QED BY <1>1, <1>2

\* Between events no call takes a unit on.
LEMMA EventMoves ==
  ASSUME TypeOK, NEW u \in Units, Moving(u), Quiescent, Still(u) \/ Halted(u),
         Unreaped(u) \subseteq Unreaped(u)',
         Restart[u] # "no" => (<<u, "RestartDelay">> \in armed => <<u, "RestartDelay">> \in armed')
  PROVE  Moving(u)'
BY MovesOn DEF Due, Quiescent

\* What a client asks for.
LEMMA RequestMoves ==
  ASSUME TypeOK, MoveInv, RequestNext
  PROVE  MoveInv'
<1>1. Quiescent /\ stack = <<>> /\ \A u \in Units : Steady(u) => Moving(u)
  BY DEF RequestNext, RequestStart, RequestStop, RequestRestart, RequestStartIgnore, RequestReload,
         RequestIsolate, RequestResetFailed, RequestKill, DaemonReload, Shutdown, Request,
         Quiescent, MoveInv
<1>2. CASE \E v \in Units : \/ RequestStart(v) \/ RequestStop(v) \/ RequestRestart(v)
                            \/ RequestStartIgnore(v) \/ RequestReload(v) \/ RequestIsolate(v)
  <2>1. UNCHANGED <<units, armed, procs>>
    BY <1>2 DEF RequestStart, RequestStop, RequestRestart, RequestStartIgnore, RequestReload,
                RequestIsolate, outside
  <2>2. \A u \in Units : Moving(u) => Moving(u)'
    BY <1>1, <2>1, QuietMoves DEF Due
  <2>3. PICK v \in Units : \/ RequestStart(v) \/ RequestStop(v) \/ RequestRestart(v)
                           \/ RequestStartIgnore(v) \/ RequestReload(v) \/ RequestIsolate(v)
    BY <1>2
  <2>4. /\ Light(UnitCall("start", v)) /\ Light(Process) /\ Light(EnqueueStop(v, TRUE, FALSE))
        /\ \A b : Light(Stop(v, b)) /\ \A id : Light(JobCall("maybe_start", id))
        /\ \A todo : Light(Loop("stop_all", NoUnit, 0, todo, {}))
    BY LightOps
  <2>5. \/ \E f : Light(f) /\ (stack' = <<f>> \/ \E g : stack' = <<f, g>> /\ Light(g))
        \/ stack' = <<Spawn(v, "Reload", 0)>>
    <3>1. CASE RequestStart(v)
      BY <2>4, <3>1 DEF RequestStart
    <3>2. CASE RequestStop(v)
      BY <2>4, <3>2 DEF RequestStop
    <3>3. CASE RequestRestart(v)
      BY <2>4, <3>3 DEF RequestRestart
    <3>4. CASE RequestStartIgnore(v)
      BY <2>4, <3>4 DEF RequestStartIgnore
    <3>5. CASE RequestReload(v)
      BY <3>5 DEF RequestReload
    <3>6. CASE RequestIsolate(v)
      BY <2>4, <3>6 DEF RequestIsolate
    <3> QED BY <2>3, <3>1, <3>2, <3>3, <3>4, <3>5, <3>6
  <2>6. ASSUME NEW f, f = Spawn(v, "Reload", 0)
        PROVE  Ready(f)'
    BY <2>6 DEF Ready, Spawn, Frm
  <2>7. DirectCalls'
    <3>1. ASSUME NEW f, Light(f), stack' = <<f>> \/ \E g : stack' = <<f, g>> /\ Light(g)
          PROVE  DirectCalls'
      BY <3>1, DirectEvent DEF Light
    <3>2. ASSUME NEW f, f = Spawn(v, "Reload", 0), stack' = <<f>>
          PROVE  DirectCalls'
      BY <2>6, <3>2, DirectEvent
    <3> QED BY <2>5, <3>1, <3>2
  <2> QED BY <1>1, <2>2, <2>7 DEF MoveInv
<1>3. CASE \E v \in Units : RequestResetFailed(v)
  <2>1. PICK v \in Units : RequestResetFailed(v)
    BY <1>3
  <2>2. /\ units' = [units EXCEPT ![v] = Set(units[v], "inactive", "dead")]
        /\ UNCHANGED <<armed, procs>> /\ stack' = <<>>
    BY <1>1, <2>1 DEF RequestResetFailed, outside
  <2>3. Halted(v)
    BY <2>2, HaltedSet DEF TypeOK, ActiveState, SubState
  <2>4. \A u \in Units : Moving(u) => Moving(u)'
    BY <1>1, <2>2, <2>3, QuietMoves DEF Due
  <2> QED BY <1>1, <2>2, <2>4, DirectEvent DEF MoveInv
<1>4. CASE \E v \in Units : RequestKill(v)
  <2>1. PICK v \in Units : RequestKill(v)
    BY <1>4
  <2>2. UNCHANGED <<units, armed>> /\ stack' = <<>>
    BY <1>1, <2>1 DEF RequestKill, Panic
  <2>3. UNCHANGED procs \/ \E st \in {"termed", "killed"} : procs' = Signalled(Tree(v), st)
    BY <2>1 DEF RequestKill, Panic
  <2>4. \A u \in Units : Unreaped(u)' = Unreaped(u)
    <3>1. UNCHANGED procs => \A u \in Units : Unreaped(u)' = Unreaped(u)
      BY DEF Unreaped
    <3> QED BY <2>3, <3>1, SignalledStay
  <2>5. \A u \in Units : Moving(u) => Moving(u)'
    BY <1>1, <2>2, <2>4, StillSame, EventMoves
  <2> QED BY <1>1, <2>2, <2>5, DirectEvent DEF MoveInv
<1>5. CASE DaemonReload
  <2>1. UNCHANGED procs /\ stack' = <<>> /\ "daemon-reload" \in Requests
    BY <1>1, <1>5 DEF DaemonReload, Request
  <2>2. \A u \in Units : Unreaped(u)' = Unreaped(u)
    BY <2>1 DEF Unreaped
  <2>3. ASSUME NEW u \in Units, Steady(u), Moving(u) PROVE Moving(u)'
    <3>1. Restart[u] = "no"
      BY <2>1, <2>3 DEF Steady
    <3>2. \/ units'[u] \in {NewUnit(FALSE), NewUnit(TRUE)}
          \/ units'[u] = [units[u] EXCEPT !.cmd_index = 0, !.start_window = 0]
      BY <1>5 DEF DaemonReload
    <3>3. CASE units'[u] \in {NewUnit(FALSE), NewUnit(TRUE)}
      <4>1. Halted(u)
        BY <3>3 DEF NewUnit, NoCommand, Halted
      <4> QED BY <2>3, <4>1, HaltedMoves
    <3>4. CASE units'[u] = [units[u] EXCEPT !.cmd_index = 0, !.start_window = 0]
      <4>1. Still(u)
        BY <3>4 DEF TypeOK, UnitRec, Still
      <4> QED BY <1>1, <2>2, <2>3, <3>1, <4>1, EventMoves
    <3> QED BY <3>2, <3>3, <3>4
  <2> QED BY <1>1, <2>1, <2>3, DirectEvent DEF MoveInv
<1>6. CASE Shutdown
  <2> DEFINE f == Loop("stop_all", NoUnit, 0, {u \in Units : units[u].active # "inactive"}, {})
  <2>1. UNCHANGED <<units, procs>> /\ stack' = <<f, Process>> /\ "shutdown" \in Requests
    BY <1>6 DEF Shutdown, Request
  <2>2. Light(f) /\ Light(Process)
    BY LightOps
  <2> HIDE DEF f
  <2>3. DirectCalls'
    BY <2>1, <2>2, DirectEvent DEF Light
  <2>4. \A u \in Units : Unreaped(u)' = Unreaped(u)
    BY <2>1 DEF Unreaped
  <2>5. \A u \in Units : Steady(u) => Restart[u] = "no"
    BY <2>1 DEF Steady
  <2>6. \A u \in Units : Steady(u) /\ Moving(u) => Moving(u)'
    BY <1>1, <2>1, <2>4, <2>5, StillSame, EventMoves
  <2> QED BY <1>1, <2>3, <2>6 DEF MoveInv
<1> QED BY <1>2, <1>3, <1>4, <1>5, <1>6 DEF RequestNext

\* The calls that an event which ends a start makes.
LEMMA EndDirect ==
  ASSUME NEW v, \/ stack' = CompleteStart(v) \/ stack' = FailCalls(v) \/ stack' = <<Poke(v)>>
                \/ stack' = <<Poke(v), Loop("on_failure", v, 0, OnFailure[v], {})>>
  PROVE  DirectCalls'
<1>1. \/ stack' = <<>>
      \/ \E f : Light(f) /\ (stack' = <<f>> \/ \E g : stack' = <<f, g>> /\ Light(g))
  <2>1. /\ \A ok : Light(Finish(unit_job[v], ok))
        /\ Light(Poke(v)) /\ Light(Loop("on_failure", v, 0, OnFailure[v], {}))
    BY LightOps
  <2> DEFINE f == IF PendingStart(v) THEN Finish(unit_job[v], FALSE) ELSE Poke(v)
             g == Loop("on_failure", v, 0, OnFailure[v], {})
             e == Finish(unit_job[v], TRUE)
  <2>2. Light(f) /\ Light(g) /\ Light(e) /\ Light(Poke(v))
    BY <2>1
  <2>3. \/ stack' = <<e>> \/ stack' = <<>> \/ stack' = <<f, g>> \/ stack' = <<Poke(v)>>
        \/ stack' = <<Poke(v), g>>
    BY DEF CompleteStart, FailCalls
  <2> HIDE DEF e, f, g
  <2> QED BY <2>2, <2>3
<1> QED BY <1>1, DirectEvent DEF Light

\* A timer of a unit fires.
LEMMA FireMoves ==
  ASSUME TypeOK, MoveInv, NEW v \in Units, NEW kind \in TimerKinds, FireTimer(v, kind)
  PROVE  MoveInv'
<1>1. /\ Quiescent /\ stack = <<>> /\ armed' = armed \ {<<v, kind>>}
      /\ \A u \in Units : Steady(u) => Moving(u)
  BY DEF FireTimer, Quiescent, MoveInv
<1>2. UNCHANGED procs \/ procs' = Signalled(Tree(v), "killed")
  BY DEF FireTimer
<1>3. \A u \in Units : Unreaped(u)' = Unreaped(u)
  <2>1. UNCHANGED procs => \A u \in Units : Unreaped(u)' = Unreaped(u)
    BY DEF Unreaped
  <2> QED BY <1>2, <2>1, SignalledStay
<1>4. \A u : u # v \/ kind # "RestartDelay" =>
        (<<u, "RestartDelay">> \in armed => <<u, "RestartDelay">> \in armed')
  BY <1>1
<1>5. UNCHANGED units \/ MarkFailed(v)
  BY DEF FireTimer
<1>6. ASSUME NEW u \in Units, u # v, Moving(u)
      PROVE  Moving(u)'
  <2>1. Still(u)
    BY <1>5, <1>6, StillElse, StillSame DEF MarkFailed
  <2> QED BY <1>1, <1>3, <1>4, <1>6, <2>1, EventMoves
<1>7. CASE kind = "RestartDelay" /\ units[v].sub = "auto-restart"
  <2> DEFINE f == UnitCall("do_start", v)
  <2>1. f.op = "do_start" /\ f.unit = v
    BY DEF UnitCall, Frm
  <2>2. stack' = <<f, Process>> /\ UNCHANGED units
    BY <1>7 DEF FireTimer
  <2> HIDE DEF f
  <2>3. Light(Process)
    BY LightOps
  <2>4. Steady(v) => Ready(f)'
    BY <1>1, <1>7, <2>1, <2>2 DEF Ready, Moving
  <2>5. DirectCalls'
    BY <2>1, <2>2, <2>3, <2>4, DirectEvent
  <2>6. stack' # <<>> /\ Top' = f
    BY <2>2 DEF Top
  <2>7. Due(v)'
    BY <2>1, <2>6 DEF Due
  <2>8. Moving(v) => Moving(v)'
    BY <1>7, <2>1, <2>2, <2>6, <2>7 DEF Moving
  <2> QED BY <1>1, <1>6, <2>5, <2>8 DEF MoveInv
<1>8. CASE kind = "StartTimeout" /\ units[v].active = "activating"
  <2>1. stack' = FailCalls(v) /\ units' = [units EXCEPT ![v] = Set(units[v], "failed", "failed")]
    BY <1>8 DEF FireTimer, MarkFailed
  <2>2. DirectCalls'
    BY <2>1, EndDirect
  <2>3. Halted(v)
    BY <2>1, HaltedSet DEF TypeOK, ActiveState, SubState
  <2> QED BY <1>1, <1>6, <2>2, <2>3, HaltedMoves DEF MoveInv
<1>9. CASE kind = "StopTimeout" /\ units[v].active = "deactivating"
  <2> DEFINE f == UnitCall("finalize", v)
  <2>1. f.op = "finalize" /\ f.unit = v
    BY DEF UnitCall, Frm
  <2>2. stack' = <<f>> /\ UNCHANGED units
    BY <1>9 DEF FireTimer
  <2> HIDE DEF f
  <2>3. Ready(f)'
    BY <2>1 DEF Ready
  <2>4. DirectCalls'
    BY <2>2, <2>3, DirectEvent
  <2>5. stack' # <<>> /\ Top' = f
    BY <2>2 DEF Top
  <2>6. Due(v)'
    BY <2>1, <2>5 DEF Due
  <2>7. Moving(v) => Moving(v)'
    BY <1>9, <2>2, <2>6 DEF Moving
  <2> QED BY <1>1, <1>6, <2>4, <2>7 DEF MoveInv
<1>10. CASE /\ UNCHANGED <<units, procs, stack>>
            /\ ~(kind = "RestartDelay" /\ units[v].sub = "auto-restart")
  <2>1. stack' = <<>>
    BY <1>1, <1>10
  <2>2. DirectCalls'
    BY <2>1, DirectEvent
  <2>3. ASSUME Moving(v) PROVE Moving(v)'
    <3>1. CASE kind # "RestartDelay"
      BY <1>1, <1>3, <1>4, <1>10, <2>3, <3>1, StillSame, EventMoves
    <3>2. CASE units[v].sub # "auto-restart"
      <4>1. ~Due(v)
        BY <1>1 DEF Due
      <4>2. Attended(v) => Attended(v)'
        BY <1>3, <1>10 DEF Attended
      <4> QED BY <1>3, <1>10, <2>3, <3>2, <4>1, <4>2 DEF Moving
    <3> QED BY <1>10, <3>1, <3>2
  <2> QED BY <1>1, <1>6, <2>2, <2>3 DEF MoveInv
<1> QED BY <1>7, <1>8, <1>9, <1>10 DEF FireTimer

\* The events that reap no child.
LEMMA QuietEventMoves ==
  ASSUME TypeOK, MoveInv, EventNext, \A u \in Units, kind \in TimerKinds : ~FireTimer(u, kind),
         \A p \in Pids : ~Reap(p)
  PROVE  MoveInv'
<1>1. \/ \E p \in Pids, exit \in Exits : ChildExits(p, exit)
      \/ \E p \in Pids : \E mainpid \in {p, NoPid} : SendReady(p, mainpid)
      \/ \E m \in notify : HandleNotify(m)
      \/ Tick \/ Exit
  BY DEF EventNext
<1>2. Quiescent /\ stack = <<>> /\ UNCHANGED armed
  BY <1>1 DEF ChildExits, SendReady, HandleNotify, Tick, Exit, Quiescent, outside
<1>3. \A u \in Units : Steady(u) => Moving(u)
  BY DEF MoveInv
<1>4. \A u \in Units : Unreaped(u)' = Unreaped(u)
  <2>1. CASE UNCHANGED procs
    BY <2>1 DEF Unreaped
  <2>2. ASSUME NEW p \in Pids, NEW exit \in Exits, ChildExits(p, exit)
        PROVE  \A u \in Units : Unreaped(u)' = Unreaped(u)
    <3>1. /\ procs' = [procs EXCEPT ![p].st = exit] /\ procs \in [Pids -> Proc]
          /\ procs[p].st \in Alive
      BY <2>2 DEF ChildExits, TypeOK
    <3>2. \A q \in Pids : /\ procs'[q].unit = procs[q].unit
                          /\ procs'[q].st # "free" <=> procs[q].st # "free"
      <4>1. exit # "free" /\ procs[p].st # "free"
        BY <3>1 DEF Exits, Alive
      <4>2. procs'[p].unit = procs[p].unit /\ procs'[p].st = exit
        BY <3>1 DEF Proc
      <4> QED BY <3>1, <4>1, <4>2
    <3> QED BY <3>2 DEF Unreaped
  <2> QED BY <1>1, <2>1, <2>2 DEF SendReady, HandleNotify, Tick, Exit, outside
<1>5. \/ UNCHANGED units /\ (stack' = <<>> \/ stack' = <<Process>>)
      \/ \E v \in Units : /\ units' = [units EXCEPT ![v] = Set(units[v], "active", "running")]
                          /\ stack' = CompleteStart(v)
  <2>1. ASSUME NEW m \in notify, HandleNotify(m)
        PROVE  \/ UNCHANGED units /\ stack' = <<>>
               \/ \E v \in Units : /\ units' = [units EXCEPT ![v] = Set(units[v], "active", "running")]
                                   /\ stack' = CompleteStart(v)
    <3>1. ReadyTargets(m) \subseteq Units
      BY DEF ReadyTargets, Candidates
    <3> QED BY <1>2, <2>1, <3>1 DEF HandleNotify
  <2> QED BY <1>1, <1>2, <2>1 DEF ChildExits, SendReady, Tick, Exit
<1>6. CASE UNCHANGED units /\ (stack' = <<>> \/ stack' = <<Process>>)
  <2>1. Light(Process)
    BY LightOps
  <2>2. DirectCalls'
    BY <1>6, <2>1, DirectEvent DEF Light
  <2>3. \A u \in Units : Moving(u) => Moving(u)'
    BY <1>2, <1>4, <1>6, StillSame, EventMoves
  <2> QED BY <1>3, <2>2, <2>3 DEF MoveInv
<1>7. ASSUME NEW v \in Units, units' = [units EXCEPT ![v] = Set(units[v], "active", "running")],
             stack' = CompleteStart(v)
      PROVE  MoveInv'
  <2>1. DirectCalls'
    BY <1>7, EndDirect
  <2>2. Halted(v)
    BY <1>7, HaltedSet DEF TypeOK, ActiveState, SubState
  <2>3. ASSUME NEW u \in Units, Moving(u) PROVE Moving(u)'
    <3>1. Still(u) \/ Halted(u)
      BY <1>7, <2>2, StillElse
    <3> QED BY <1>2, <1>4, <2>3, <3>1, EventMoves
  <2> QED BY <1>3, <2>1, <2>3 DEF MoveInv
<1> QED BY <1>5, <1>6, <1>7

\* The exit of a child starts the next command of its unit.
LEMMA NextStage ==
  ASSUME TypeOK, NEW v \in Units, Moving(v), stack = <<>>, NEW r, units' = [units EXCEPT ![v] = r],
         r.active = units[v].active, r.sub = units[v].sub, r.loaded = units[v].loaded,
         r.control_command \in {"none", units[v].control_command}, UNCHANGED armed,
         NEW f, stack' = <<f>>, f.unit = v,
         f.op = "finalize" \/ (f.op = "spawn" /\ f.cmd # "Reload")
  PROVE  Moving(v)'
<1>1. Due(v)'
  <2>1. stack' # <<>> /\ Top' = f
    BY DEF Top
  <2> QED BY <2>1 DEF Due
<1>2. units'[v] = r
  BY DEF TypeOK
<1>3. units[v].active = "activating" /\ units[v].sub = "auto-restart" =>
        <<v, "RestartDelay">> \in armed'
  BY DEF Moving
<1> QED BY <1>1, <1>2, <1>3 DEF Moving

\* handle_control_exit.
LEMMA ControlMoves ==
  ASSUME TypeOK, MoveInv, Quiescent, NEW p \in Pids, NEW v \in Units, procs[p].unit = v,
         units[v].control_pid = p, NEW exit, NEW ps,
         ps = [procs EXCEPT ![p] = [st |-> "free", unit |-> NoUnit]], ControlExit(v, ps, exit)
  PROVE  DirectCalls' /\ (Steady(v) => Moving(v)')
<1> DEFINE rec == ControlGone(units[v])
           next == units[v].cmd_index + 1
           counted == [rec EXCEPT !.cmd_index = next]
           reset == [rec EXCEPT !.cmd_index = 0]
           finalize == UnitCall("finalize", v)
           start == Spawn(v, "Start", 0)
           again == Spawn(v, "Start", next)
           post == Spawn(v, "StartPost", 0)
           end == Ended(rec, v)
           ended == [end EXCEPT !.cmd_index = 0]
           failed == Set(rec, "failed", "failed")
           running == Set(rec, "active", "running")
           To(r, calls) == units' = [units EXCEPT ![v] = r] /\ stack' = calls
           On(r) == /\ r.active = units[v].active /\ r.sub = units[v].sub
                    /\ r.loaded = units[v].loaded /\ r.control_command = "none"
           Over(r) == /\ r.active \notin {"activating", "deactivating"} /\ r.sub # "auto-restart"
                      /\ r.control_command = "none"
<1>1. units[v] \in UnitRec /\ stack = <<>> /\ UNCHANGED armed
  BY DEF TypeOK, ControlExit, Quiescent
<1>2. Steady(v) => Moving(v)
  BY DEF MoveInv
<1>3. Unreaped(v)' = Unreaped(v) \ {p}
  BY ReapedChildren
<1>4. /\ rec \in UnitRec /\ On(rec) /\ On(counted) /\ On(reset)
      /\ Over(end) /\ Over(ended) /\ Over(failed) /\ Over(running)
  <2>1. rec \in UnitRec /\ On(rec)
    BY <1>1, GoneRecord
  <2>2. next \in Nat
    BY <1>1 DEF UnitRec
  <2> HIDE DEF rec, next
  <2>3. On(counted) /\ On(reset)
    BY <2>1, <2>2, CountFields
  <2>4. end \in UnitRec /\ Over(end)
    BY <2>1, EndedFields
  <2>5. Over(failed) /\ Over(running)
    BY <2>1, SetFields DEF ActiveState, SubState
  <2> HIDE DEF end
  <2>6. Over(ended)
    BY <2>4, CountFields
  <2> QED BY <2>1, <2>3, <2>4, <2>5, <2>6
<1>5. /\ finalize.op = "finalize" /\ finalize.unit = v
      /\ start.op = "spawn" /\ start.unit = v /\ start.cmd = "Start"
      /\ again.op = "spawn" /\ again.unit = v /\ again.cmd = "Start"
      /\ post.op = "spawn" /\ post.unit = v /\ post.cmd = "StartPost" /\ post.id = 0
  BY DEF UnitCall, Spawn, Frm
<1>6. \/ units[v].control_command = "Stop" /\ To(rec, <<>>)
      \/ To(rec, <<finalize>>)
      \/ To(rec, <<start>>)
      \/ To(counted, <<again>>)
      \/ ExecCount[v]["StartPost"] > 0 /\ To(reset, <<post>>)
      \/ To(ended, CompleteStart(v))
      \/ To(failed, FailCalls(v))
      \/ To(end, CompleteStart(v))
      \/ /\ units[v].active # "deactivating" /\ units[v].control_command = "Reload"
         /\ To(rec, <<>>)
      \/ To(running, CompleteStart(v))
  BY DEF ControlExit
<1> HIDE DEF rec, next, counted, reset, finalize, start, again, post, end, ended, failed, running
<1>7. ASSUME NEW r, Over(r), units' = [units EXCEPT ![v] = r]
      PROVE  Steady(v) => Moving(v)'
  <2>1. units'[v] = r
    BY <1>7 DEF TypeOK
  <2>2. Halted(v)
    BY <1>7, <2>1 DEF Halted
  <2> QED BY <1>2, <2>2, HaltedMoves
<1>8. ASSUME NEW r, Over(r), To(r, CompleteStart(v))
      PROVE  DirectCalls' /\ (Steady(v) => Moving(v)')
  BY <1>7, <1>8, EndDirect
<1>9. CASE To(failed, FailCalls(v))
  <2>1. DirectCalls'
    BY <1>9, EndDirect
  <2> QED BY <1>4, <1>7, <1>9, <2>1
<1>10. ASSUME NEW r, On(r), NEW f, To(r, <<f>>), f.unit = v,
              \/ f.op = "finalize"
              \/ f.op = "spawn" /\ f.cmd = "Start"
              \/ f.op = "spawn" /\ f.cmd = "StartPost" /\ f.id = 0 /\ ExecCount[v]["StartPost"] > 0
       PROVE  DirectCalls' /\ (Steady(v) => Moving(v)')
  <2>1. Ready(f)'
    BY <1>10 DEF Ready
  <2>2. DirectCalls'
    BY <1>10, <2>1, DirectEvent
  <2> QED BY <1>1, <1>2, <1>10, <2>2, NextStage
<1>11. CASE /\ \/ units[v].control_command = "Stop"
               \/ units[v].active # "deactivating" /\ units[v].control_command = "Reload"
            /\ To(rec, <<>>)
  <2>1. DirectCalls'
    BY <1>11, DirectEvent
  <2>2. ASSUME Moving(v), units[v].active # "deactivating", units[v].control_command = "Reload"
        PROVE  Moving(v)'
    <3>1. units'[v] = rec
      BY <1>11 DEF TypeOK
    <3>2. units'[v].control_pid = NoPid
      BY <1>1, <3>1 DEF rec, ControlGone, UnitRec
    <3>3. ~Due(v)
      BY <1>1 DEF Due
    <3>4. ASSUME Attended(v) PROVE Attended(v)'
      <4>1. PICK q \in Unreaped(v) : q = units[v].control_pid => units[v].control_command # "Reload"
        BY <3>4 DEF Attended
      <4>2. q # p /\ q \in Unreaped(v)'
        BY <1>3, <2>2, <4>1
      <4>3. q # NoPid
        BY <4>1, UnitsAssumption DEF Unreaped
      <4> QED BY <3>2, <4>2, <4>3 DEF Attended
    <3>5. units[v].active = "activating" /\ units[v].sub = "auto-restart" =>
            <<v, "RestartDelay">> \in armed'
      BY <1>1, <2>2 DEF Moving
    <3> QED BY <1>4, <2>2, <3>1, <3>3, <3>4, <3>5 DEF Moving
  <2>3. Moving(v) => units[v].control_command # "Stop"
    BY DEF Moving
  <2> QED BY <1>2, <1>11, <2>1, <2>2, <2>3
<1> QED BY <1>4, <1>5, <1>6, <1>8, <1>9, <1>10, <1>11

\* main_exit, and the restart of what ran.
LEMMA MainMoves ==
  ASSUME TypeOK, MoveInv, Quiescent, NEW p \in Pids, NEW v \in Units, procs[p].unit = v,
         units[v].loaded, NEW exit, NEW ps,
         ps = [procs EXCEPT ![p] = [st |-> "free", unit |-> NoUnit]], MainExit(v, ps, exit)
  PROVE  DirectCalls' /\ (Steady(v) => Moving(v)')
<1> DEFINE rec == MainGone(units[v])
           finalize == UnitCall("finalize", v)
           dead == Set(rec, "inactive", "dead")
           failed == Set(rec, "failed", "failed")
           waiting == Set(rec, "activating", "auto-restart")
           end == Ended(rec, v)
           Over(r) == /\ r.active \notin {"activating", "deactivating"} /\ r.sub # "auto-restart"
                      /\ r.control_command = units[v].control_command
<1>1. units[v] \in UnitRec /\ stack = <<>> /\ armed \subseteq armed'
  BY DEF TypeOK, MainExit, HandleActiveExit, Quiescent
<1>2. Steady(v) => Moving(v)
  BY DEF MoveInv
<1>3. /\ rec \in UnitRec /\ rec.active = units[v].active /\ rec.sub = units[v].sub
      /\ rec.loaded = units[v].loaded /\ rec.control_command = units[v].control_command
  BY <1>1, GoneRecord
<1>4. /\ \/ UNCHANGED armed
         \/ /\ \E n \in Nat : units' = [units EXCEPT ![v] = [waiting EXCEPT !.start_window = n]]
            /\ armed' = armed \cup {<<v, "RestartDelay">>} /\ stack' = <<>> /\ Policy(v, exit)
      /\ \/ units' = [units EXCEPT ![v] = rec] /\ stack' = <<finalize>>
         \/ units' = [units EXCEPT ![v] = dead] /\ stack' = <<>>
         \/ /\ units' = [units EXCEPT ![v] = failed]
            /\ \/ stack' = FailCalls(v)
               \/ stack' = <<Poke(v), Loop("on_failure", v, 0, OnFailure[v], {})>>
         \/ /\ \E n \in Nat : units' = [units EXCEPT ![v] = [failed EXCEPT !.start_window = n]]
            /\ stack' = <<Poke(v)>>
         \/ units' = [units EXCEPT ![v] = end] /\ stack' = CompleteStart(v)
         \/ /\ \E n \in Nat : units' = [units EXCEPT ![v] = [waiting EXCEPT !.start_window = n]]
            /\ armed' = armed \cup {<<v, "RestartDelay">>} /\ stack' = <<>> /\ Policy(v, exit)
  <2>1. \A recent \in RecentStarts(rec) : recent \in Nat /\ recent + 1 \in Nat
    BY <1>3 DEF RecentStarts, UnitRec
  <2> HIDE DEF rec
  <2>2. CASE units[v].active \notin {"active", "inactive", "failed"}
    BY <2>2 DEF MainExit, rec
  <2>3. CASE HandleActiveExit(v, rec, exit)
    <3>1. CASE ~Policy(v, exit)
      BY <2>3, <3>1 DEF HandleActiveExit
    <3>2. CASE Policy(v, exit)
      BY <2>1, <2>3, <3>2 DEF HandleActiveExit
    <3> QED BY <3>1, <3>2
  <2> QED BY <2>2, <2>3 DEF MainExit, rec
<1>5. finalize.op = "finalize" /\ finalize.unit = v
  BY DEF UnitCall, Frm
<1> HIDE DEF rec, finalize
<1>6. Over(dead) /\ Over(failed) /\ Over(end) /\ failed \in UnitRec
  BY <1>3, SetFields, EndedFields DEF ActiveState, SubState
<1>7. /\ waiting \in UnitRec /\ waiting.active = "activating" /\ waiting.sub = "auto-restart"
      /\ waiting.loaded = units[v].loaded
      /\ waiting.control_command = units[v].control_command
  <2>1. "activating" \in ActiveState /\ "auto-restart" \in SubState
    BY DEF ActiveState, SubState
  <2> QED BY <1>3, <2>1, SetFields
<1> HIDE DEF dead, failed, waiting, end
<1>8. ASSUME NEW r, Over(r), units' = [units EXCEPT ![v] = r]
      PROVE  Steady(v) => Moving(v)'
  <2>1. units'[v] = r
    BY <1>8 DEF TypeOK
  <2>2. Halted(v)
    BY <1>8, <2>1 DEF Halted
  <2> QED BY <1>2, <2>2, HaltedMoves
<1>9. CASE units' = [units EXCEPT ![v] = rec] /\ stack' = <<finalize>> /\ UNCHANGED armed
  <2>1. Ready(finalize)'
    BY <1>5 DEF Ready
  <2>2. DirectCalls'
    BY <1>9, <2>1, DirectEvent
  <2> QED BY <1>1, <1>2, <1>3, <1>5, <1>9, <2>2, NextStage
<1>10. CASE units' = [units EXCEPT ![v] = dead] /\ stack' = <<>>
  BY <1>6, <1>8, <1>10, DirectEvent
<1>11. CASE /\ units' = [units EXCEPT ![v] = failed]
            /\ \/ stack' = FailCalls(v)
               \/ stack' = <<Poke(v), Loop("on_failure", v, 0, OnFailure[v], {})>>
  BY <1>6, <1>8, <1>11, EndDirect
<1>12. ASSUME NEW n \in Nat, units' = [units EXCEPT ![v] = [failed EXCEPT !.start_window = n]],
              stack' = <<Poke(v)>>
       PROVE  DirectCalls' /\ (Steady(v) => Moving(v)')
  <2>1. Over([failed EXCEPT !.start_window = n])
    BY <1>6, CountFields
  <2> QED BY <1>8, <1>12, <2>1, EndDirect
<1>13. CASE units' = [units EXCEPT ![v] = end] /\ stack' = CompleteStart(v)
  BY <1>6, <1>8, <1>13, EndDirect
<1>14. ASSUME NEW n \in Nat, units' = [units EXCEPT ![v] = [waiting EXCEPT !.start_window = n]],
              armed' = armed \cup {<<v, "RestartDelay">>}, stack' = <<>>, Policy(v, exit)
       PROVE  DirectCalls' /\ (Steady(v) => Moving(v)')
  <2> DEFINE r == [waiting EXCEPT !.start_window = n]
  <2>1. /\ r.active = "activating" /\ r.sub = "auto-restart"
        /\ r.loaded = units[v].loaded /\ r.control_command = units[v].control_command
    <3>1. /\ r.active = waiting.active /\ r.sub = waiting.sub /\ r.loaded = waiting.loaded
          /\ r.control_command = waiting.control_command
      BY <1>7 DEF UnitRec
    <3> HIDE DEF r
    <3> QED BY <1>7, <3>1
  <2>2. units'[v] = r
    BY <1>14 DEF TypeOK
  <2> HIDE DEF r
  <2>3. Restart[v] # "no"
    BY <1>14 DEF Policy
  <2>4. DirectCalls'
    BY <1>14, DirectEvent
  <2> QED BY <1>2, <1>14, <2>1, <2>2, <2>3, <2>4 DEF Moving
<1>15. \/ units' = [units EXCEPT ![v] = rec] /\ stack' = <<finalize>> /\ UNCHANGED armed
       \/ units' = [units EXCEPT ![v] = dead] /\ stack' = <<>>
       \/ /\ units' = [units EXCEPT ![v] = failed]
          /\ \/ stack' = FailCalls(v)
             \/ stack' = <<Poke(v), Loop("on_failure", v, 0, OnFailure[v], {})>>
       \/ /\ \E n \in Nat : units' = [units EXCEPT ![v] = [failed EXCEPT !.start_window = n]]
          /\ stack' = <<Poke(v)>>
       \/ units' = [units EXCEPT ![v] = end] /\ stack' = CompleteStart(v)
       \/ /\ \E n \in Nat : units' = [units EXCEPT ![v] = [waiting EXCEPT !.start_window = n]]
          /\ armed' = armed \cup {<<v, "RestartDelay">>} /\ stack' = <<>> /\ Policy(v, exit)
  BY <1>4
<1> QED BY <1>9, <1>10, <1>11, <1>12, <1>13, <1>14, <1>15

\* A child is reaped.
LEMMA ReapMoves ==
  ASSUME TypeOK, MoveInv, NEW p \in Pids, Reap(p)
  PROVE  MoveInv'
<1>0. PICK v, exit, ps : /\ v = procs[p].unit /\ exit = procs[p].st
                         /\ ps = [procs EXCEPT ![p] = [st |-> "free", unit |-> NoUnit]]
  OBVIOUS
<1>1. /\ Quiescent /\ stack = <<>> /\ v \in Units
      /\ \A u \in Units : Steady(u) => Moving(u)
  <2>1. procs[p] \in Proc /\ procs[p].st # "free"
    BY DEF TypeOK, Reap, Exits
  <2> QED BY <1>0, <2>1 DEF Reap, Quiescent, MoveInv, Proc
<1>2. CASE Panic
  <2>1. UNCHANGED <<units, armed, procs, stack>>
    BY <1>2 DEF Panic
  <2>2. \A u \in Units : Moving(u) => Moving(u)'
    BY <1>1, <2>1, QuietMoves DEF Due
  <2>3. DirectCalls'
    BY <1>1, <2>1, DirectEvent
  <2> QED BY <1>1, <2>2, <2>3 DEF MoveInv
<1>3. CASE /\ units[v].loaded
           /\ \/ units[v].control_pid = p /\ ControlExit(v, ps, exit)
              \/ \E d \in Pids \ {p} : ForkedDaemon(v, ps, d)
              \/ MainExit(v, ps, exit)
  <2>1. \A u \in Units : u # v => Unreaped(u)' = Unreaped(u)
    BY <1>0, <1>1, <1>3, ReapedChildren
  <2>2. /\ \E r : units' = [units EXCEPT ![v] = r]
        /\ armed \subseteq armed'
    BY <1>3 DEF ControlExit, ForkedDaemon, MainExit, HandleActiveExit
  <2>3. ASSUME NEW u \in Units, u # v, Moving(u) PROVE Moving(u)'
    <3>1. Still(u)
      BY <2>2, <2>3, StillElse
    <3> QED BY <1>1, <2>1, <2>2, <2>3, <3>1, EventMoves
  <2>4. DirectCalls' /\ (Steady(v) => Moving(v)')
    <3>1. CASE units[v].control_pid = p /\ ControlExit(v, ps, exit)
      BY <1>0, <1>1, <3>1, ControlMoves
    <3>2. CASE MainExit(v, ps, exit)
      BY <1>0, <1>1, <1>3, <3>2, MainMoves
    <3>3. CASE \E d \in Pids \ {p} : ForkedDaemon(v, ps, d)
      <4>1. PICK d \in Pids \ {p} : ForkedDaemon(v, ps, d)
        BY <3>3
      <4> DEFINE gone == ControlGone(units[v])
                 run == Set(gone, "active", "running")
                 r == [run EXCEPT !.main_pid = d]
      <4>2. units' = [units EXCEPT ![v] = r] /\ stack' = CompleteStart(v)
        BY <4>1 DEF ForkedDaemon
      <4>3. gone \in UnitRec /\ gone.control_command = "none"
        <5>1. units[v] \in UnitRec
          BY <1>1 DEF TypeOK
        <5> QED BY <1>1, <5>1, GoneRecord
      <4> HIDE DEF gone
      <4>4. /\ run \in UnitRec /\ run.active = "active" /\ run.sub = "running"
            /\ run.control_command = "none"
        BY <4>3, SetFields DEF ActiveState, SubState
      <4> HIDE DEF run
      <4>5. /\ r.active = "active" /\ r.sub = "running"
            /\ r.control_command = "none"
        BY <4>4 DEF UnitRec
      <4>6. units'[v] = r
        BY <1>1, <4>2 DEF TypeOK
      <4> HIDE DEF r
      <4>7. Halted(v)
        BY <4>5, <4>6 DEF Halted
      <4>8. DirectCalls'
        BY <4>2, EndDirect
      <4> QED BY <1>1, <4>7, <4>8, HaltedMoves
    <3> QED BY <1>3, <3>1, <3>2, <3>3
  <2> QED BY <1>1, <2>3, <2>4 DEF MoveInv
<1> QED BY <1>0, <1>2, <1>3 DEF Reap

\* At the start no unit is on its way anywhere.
LEMMA InitMoves == Init => MoveInv
<1> SUFFICES ASSUME Init PROVE MoveInv
  OBVIOUS
<1>1. stack = <<>> /\ Beneath(1) = {}
  BY DEF Init, Idle, Beneath
<1>2. \A u \in Units : units[u].active = "inactive" /\ units[u].sub = "dead"
                       /\ units[u].control_command = "none"
  BY DEF Init, NewUnit, NoCommand
<1> QED BY <1>1, <1>2 DEF MoveInv, DirectCalls, Moving

\* Every step keeps them moving.
LEMMA NextMoves ==
  ASSUME TypeOK, NoStalePid, MoveInv, [Next]_managerVars
  PROVE  MoveInv'
<1>1. CASE RequestNext
  BY <1>1, RequestMoves
<1>2. CASE EventNext
  <2>1. ASSUME NEW u \in Units, NEW kind \in TimerKinds, FireTimer(u, kind)
        PROVE  MoveInv'
    BY <2>1, FireMoves
  <2>2. ASSUME NEW p \in Pids, Reap(p) PROVE MoveInv'
    BY <2>2, ReapMoves
  <2> QED BY <1>2, <2>1, <2>2, QuietEventMoves
<1>3. CASE EngineNext
  BY <1>3, EngineMoves DEF MoveInv
<1>4. CASE ServiceNext
  BY <1>4, DoStartMoves, SpawnMoves, MaybeStopMoves, FinalizeMoves DEF ServiceNext
<1>5. CASE UNCHANGED managerVars
  <2>1. UNCHANGED <<units, armed, procs, stack>>
    BY <1>5 DEF managerVars, vars
  <2> QED BY <2>1 DEF MoveInv, DirectCalls, Beneath, Top, Ready, Moving, Due, Attended, Unreaped
<1> QED BY <1>1, <1>2, <1>3, <1>4, <1>5 DEF Next, CallNext

\* Between events, a unit without an ExecStop= that is starting or stopping has a
\* child whose exit goes on with it or a restart that is armed: whatever depends on it,
\* whoever starts, stops, kills or restarts it meanwhile, whichever of its commands
\* cannot be spawned.  An ignored ExecStartPost= and a reload or shutdown beside a
\* Restart= are excepted.
THEOREM SteadyMoves == Spec => [](Quiescent => \A u \in Units : Steady(u) => NotStuck(u))
<1>1. TypeOK /\ NoStalePid /\ MoveInv /\ [Next]_managerVars => MoveInv'
  BY NextMoves
<1>2. Spec => []MoveInv
  BY <1>1, InitMoves, TypeCorrect, NoStalePidCorrect, PTL DEF Spec
<1>3. MoveInv => (Quiescent => \A u \in Units : Steady(u) => NotStuck(u))
  BY DEF MoveInv, Moving, Due, Attended, Quiescent, NotStuck
<1> QED BY <1>2, <1>3, PTL

\* Where every unit is such a unit, none is stuck in a transient state.
THEOREM NoStuckUnitCorrect ==
  ASSUME \A u \in Units : Steady(u)
  PROVE  Spec => []NoStuckUnit
<1>1. (Quiescent => \A u \in Units : Steady(u) => NotStuck(u)) => NoStuckUnit
  BY DEF NoStuckUnit
<1> QED BY <1>1, SteadyMoves, PTL
-----------------------------------------------------------------------------
(* What a shutdown leaves running.                                         *)

\* A unit whose stop reaches all of its processes: a stop timeout gives a process up
\* before it has ended, and the unit's next process is safe from the late exit of
\* that one only in a cgroup and without a restart
Tidy(u) ==
  /\ Standalone(u) /\ (Plain(u) \/ Staged(u))
  /\ u \in StopTimeouts => UseCgroup /\ Restart[u] = "no"

\* The processes that a stop of u still has to end
Watched(u) ==
  IF u \in StopTimeouts THEN {p \in Unreaped(u) : procs[p].st \in {"running", "termed"}}
                        ELSE Unreaped(u)

\* The one process of a plain service is the one it has on record, which is there
\* while the service is active or stops; a start finds none, a finished stop left none
Accounted(u) ==
  /\ \A p \in Watched(u) : /\ p = units[u].main_pid /\ p = units[u].group_pid
                           /\ units[u].active \in {"active", "deactivating"}
                           /\ units[u].cgroup = UseCgroup
  /\ units[u].control_pid = NoPid
  /\ stack # <<>> /\ Top.unit = u =>
       /\ Top.op = "spawn" => units[u].active = "activating" /\ Top.cmd = "Start"
       /\ Top.op = "finalize" => Watched(u) = {}

\* Nothing takes u up again
Sinking(u) ==
  /\ <<u, "RestartDelay">> \notin armed
  /\ PendingStart(u) => jobs[unit_job[u]].started
  /\ stack # <<>> /\ Top.unit = u => Top.op \notin {"do_start", "spawn"}

\* A call that is still to be made will stop u
Halting(f, u) ==
  \/ f.op \in {"stop", "enqueue_stop", "stop_deps"} /\ f.unit = u
  \/ f.op = "stop_all" /\ u \in f.todo
Sought(u) ==
  \/ \E f \in Pending : Halting(f, u)
  \/ stack # <<>> /\ Top.op = "maybe_stop" /\ Top.id = unit_job[u]

Ending(u) ==
  /\ shutting_down =>
       Sinking(u) /\ (Watched(u) = {} \/ units[u].active = "deactivating" \/ Sought(u))
  /\ status = "exited" => Watched(u) = {}

EndInv(u) == (Plain(u) /\ u \notin Targets => Accounted(u)) /\ Ending(u)
EndUnits == \A u \in Units : Tidy(u) => EndInv(u)

-----------------------------------------------------------------------------
(* What the steps of the manager leave of its jobs and its calls.          *)

\* The jobs that stay in the table are the same jobs, and stay started
Lasting ==
  \A id \in DOMAIN jobs \cap DOMAIN jobs' :
    /\ jobs'[id].unit = jobs[id].unit /\ jobs'[id].kind = jobs[id].kind
    /\ jobs[id].started => jobs'[id].started

\* The primitives of the job table leave them so.
LEMMA LastingTable ==
  ASSUME TypeOK, IndexInv,
         \/ UNCHANGED jobs
         \/ \E id, ok : RemoveJob(id, ok)
         \/ \E u, kind, irreversible, after, failed, expanding :
              NewJob(u, kind, irreversible, after, failed, expanding)
         \/ \E id, job : /\ UpdateJob(id, job)
                         /\ id \in DOMAIN jobs =>
                              /\ job.unit = jobs[id].unit /\ job.kind = jobs[id].kind
                              /\ jobs[id].started => job.started
  PROVE  Lasting
<1>1. CASE UNCHANGED jobs
  BY <1>1 DEF Lasting
<1>2. CASE \E id, ok : RemoveJob(id, ok)
  BY <1>2 DEF RemoveJob, Lasting
<1>3. CASE \E u, kind, irreversible, after, failed, expanding :
             NewJob(u, kind, irreversible, after, failed, expanding)
  <2>1. next_job + 1 \notin DOMAIN jobs
    BY DEF TypeOK, JobsTypeOK, IndexInv
  <2>2. \A i \in DOMAIN jobs : jobs'[i] = jobs[i]
    BY <1>3, <2>1 DEF NewJob
  <2> QED BY <2>2 DEF Lasting
<1>4. ASSUME NEW id, NEW job, UpdateJob(id, job),
             id \in DOMAIN jobs => /\ job.unit = jobs[id].unit /\ job.kind = jobs[id].kind
                                   /\ jobs[id].started => job.started
      PROVE  Lasting
  BY <1>4 DEF UpdateJob, Lasting
<1> QED BY <1>1, <1>2, <1>3, <1>4

\* So does every call.
LEMMA CallLasting ==
  ASSUME TypeOK, IndexInv, CallNext
  PROVE  Lasting
<1>1. \A id \in DOMAIN jobs : jobs[id] \in Job
  BY DEF TypeOK, JobsTypeOK
<1>2. ASSUME NEW id, NEW job, UpdateJob(id, job),
             id \in DOMAIN jobs =>
               \E failed, waiting, expanding, irreversible :
                 \E started \in {jobs[id].started, TRUE} :
                   job = [jobs[id] EXCEPT !.failed = failed, !.waiting = waiting,
                                          !.expanding = expanding, !.started = started,
                                          !.irreversible = irreversible]
      PROVE  Lasting
  <2>1. id \in DOMAIN jobs => /\ job.unit = jobs[id].unit /\ job.kind = jobs[id].kind
                              /\ jobs[id].started => job.started
    BY <1>1, <1>2 DEF Job
  <2> QED BY <1>2, <2>1, LastingTable
<1>3. CASE ProcessJobs \/ TryAdvanceJob \/ SetExited \/ StopAll \/ ExpandConflicts
           \/ StopDependents \/ FireOnFailure \/ DoStart \/ SpawnControl \/ FinalizeStop
  BY <1>3, LastingTable DEF ProcessJobs, TryAdvanceJob, SetExited, StopAll, ExpandConflicts,
     StopDependents, FireOnFailure, DoStart, SpawnControl, FinalizeStop, engineVars
<1>4. CASE StartUnit \/ FinishJob
  BY <1>4, LastingTable DEF StartUnit, FinishJob, engineVars
<1>5. CASE EnqueueStart
  BY <1>5, LastingTable DEF EnqueueStart
<1>6. CASE EnqueueStopJob
  BY <1>6, LastingTable DEF EnqueueStopJob
<1>7. CASE StopUnit
  <2> DEFINE jid == unit_job[Top.unit]
             irreversible == jobs[jid].irreversible \/ Top.irreversible
             job == [jobs[jid] EXCEPT !.irreversible = irreversible]
  <2>1. jid \in DOMAIN jobs => /\ job.unit = jobs[jid].unit /\ job.kind = jobs[jid].kind
                               /\ jobs[jid].started => job.started
    BY <1>1 DEF Job
  <2>2. UpdateJob(jid, job) \/ RemoveJob(jid, FALSE) \/ UNCHANGED jobs
    BY <1>7 DEF StopUnit, engineVars
  <2> HIDE DEF jid, job
  <2> QED BY <2>1, <2>2, LastingTable
<1>8. CASE ExpandOpen
  <2>1. \/ UNCHANGED jobs
        \/ jobs' = [i \in DOMAIN jobs |->
                      IF i = Top.id THEN [jobs[i] EXCEPT !.failed = TRUE] ELSE jobs[i]]
    BY <1>8 DEF ExpandOpen, engineVars
  <2> QED BY <1>1, <2>1 DEF Lasting, Job
<1>9. CASE ExpandCommit
  <2>1. \/ UNCHANGED jobs
        \/ \E failed, waiting :
             UpdateJob(Top.id, [jobs[Top.id] EXCEPT !.failed = failed, !.waiting = waiting,
                                                    !.expanding = FALSE])
    BY <1>9 DEF ExpandCommit
  <2>2. \A failed, waiting : Top.id \in DOMAIN jobs =>
          LET job == [jobs[Top.id] EXCEPT !.failed = failed, !.waiting = waiting,
                                          !.expanding = FALSE] IN
          /\ job.unit = jobs[Top.id].unit /\ job.kind = jobs[Top.id].kind
          /\ jobs[Top.id].started => job.started
    BY <1>1 DEF Job
  <2> QED BY <2>1, <2>2, LastingTable
<1>10. CASE MaybeStartJob \/ MaybeStopJob
  <2>1. \/ UNCHANGED jobs
        \/ /\ Top.id \in DOMAIN jobs
           /\ \/ \E hit : UpdateJob(Top.id, [jobs[Top.id] EXCEPT !.started = TRUE, !.failed = hit])
              \/ UpdateJob(Top.id, [jobs[Top.id] EXCEPT !.started = TRUE])
    BY <1>10 DEF MaybeStartJob, MaybeStopJob, Panic, engineVars
  <2>2. ASSUME Top.id \in DOMAIN jobs, NEW job,
               \/ \E hit : job = [jobs[Top.id] EXCEPT !.started = TRUE, !.failed = hit]
               \/ job = [jobs[Top.id] EXCEPT !.started = TRUE]
        PROVE  job.unit = jobs[Top.id].unit /\ job.kind = jobs[Top.id].kind /\ job.started
    BY <1>1, <2>2 DEF Job
  <2>3. UNCHANGED jobs \/ \E job : /\ UpdateJob(Top.id, job)
                                   /\ job.unit = jobs[Top.id].unit
                                   /\ job.kind = jobs[Top.id].kind /\ job.started
    BY <2>1, <2>2
  <2> QED BY <2>3, LastingTable
<1>11. CASE OnJobCompleted \/ PokeFailed
  <2>1. UNCHANGED jobs \/ \E id \in Waiters(Top.unit) :
           UpdateJob(id, [jobs[id] EXCEPT !.failed = TRUE]) \/ DropWait(id, Top.unit)
    BY <1>11 DEF OnJobCompleted, PokeFailed
  <2>2. ASSUME NEW id \in Waiters(Top.unit),
               UpdateJob(id, [jobs[id] EXCEPT !.failed = TRUE]) \/ DropWait(id, Top.unit)
        PROVE  \E job : /\ UpdateJob(id, job) /\ job.unit = jobs[id].unit
                        /\ job.kind = jobs[id].kind /\ job.started = jobs[id].started
    <3>1. jobs[id] \in Job
      BY <1>1 DEF Waiters
    <3> QED BY <2>2, <3>1 DEF DropWait, Job
  <2> QED BY <2>1, <2>2, LastingTable
<1> QED BY <1>3, <1>4, <1>5, <1>6, <1>7, <1>8, <1>9, <1>10, <1>11
        DEF CallNext, EngineNext, ServiceNext

\* Once shutdown has begun, u has no Start job that is still to be started.
LEMMA StartedStays ==
  ASSUME TypeOK, IndexInv, IndexInv', NEW u \in Units, OwnJob(u), ShutdownInv, shutting_down,
         CallNext, Sinking(u)
  PROVE  PendingStart(u)' => jobs'[unit_job'[u]].started
<1> SUFFICES ASSUME PendingStart(u)' PROVE jobs'[unit_job'[u]].started
  OBVIOUS
<1> DEFINE id == unit_job'[u]
<1>1. id # 0 /\ id \in DOMAIN jobs' /\ jobs'[id].unit = u /\ jobs'[id].kind = "Start"
  BY DEF PendingStart, IndexInv, JobIndex
<1> HIDE DEF id
<1>2. id \in DOMAIN jobs
  BY <1>1, CallShutdown
<1>3. /\ jobs[id].unit = u /\ jobs[id].kind = "Start"
      /\ jobs[id].started => jobs'[id].started
  BY <1>1, <1>2, CallLasting DEF Lasting
<1>4. id = unit_job[u] /\ PendingStart(u)
  BY <1>1, <1>2, <1>3 DEF OwnJob, JobsOf, PendingStart
<1>5. jobs'[id].started
  BY <1>3, <1>4 DEF Sinking
<1> QED BY <1>5 DEF id

\* The calls of a job are kept, but for the one that is made.
LEMMA LightPending ==
  ASSUME TypeOK, NEW op, Calling(op), MakesLight
  PROVE  \A f \in Pending : f # Top => f \in Pending'
<1>1. CASE stack' = Return
  BY <1>1, Returned
<1>2. ASSUME NEW f, Call(<<f>>)
      PROVE  \A g \in Pending : g # Top => g \in Pending'
  BY <1>2, OneCall
<1>3. ASSUME NEW f, NEW g, Call(<<f, g>>)
      PROVE  \A h \in Pending : h # Top => h \in Pending'
  BY <1>3, TwoCalls
<1>4. ASSUME NEW f, NEW g, NEW h, Call(<<f, g, h>>)
      PROVE  \A i \in Pending : i # Top => i \in Pending'
  <2> DEFINE frames == <<f, g, h>>
             S == {f, g, h}
  <2>1. frames \in Seq(S) /\ Call(frames)
    BY <1>4
  <2> HIDE DEF frames, S
  <2> QED BY <2>1, CallsMade
<1>5. ASSUME NEW f, stack' = <<f>> \o stack
      PROVE  \A g \in Pending : g # Top => g \in Pending'
  BY <1>5, PushedCall
<1>6. CASE UNCHANGED stack
  BY <1>6 DEF Pending
<1> QED BY <1>1, <1>2, <1>3, <1>4, <1>5, <1>6 DEF MakesLight

\* The call that is made after a light one is no step of u, unless it was one already.
LEMMA LightTop ==
  ASSUME TypeOK, DirectCalls, NEW op, Calling(op), op \notin StepOps, MakesLight
  PROVE  stack' # <<>> => Top'.op \notin StepOps
<1>1. CASE stack' = Return
  <2>1. Beneath(0)' \subseteq Beneath(1)
    BY <1>1, BeneathReturn
  <2>2. stack' \in Seq(Frame)
    BY <1>1, CallType
  <2>3. stack' # <<>> => Top' \in Beneath(0)'
    <3>1. stack' # <<>> => 1 \in DOMAIN stack' /\ Top' = stack'[1] /\ 1 > 0
      BY <2>2 DEF Top
    <3> QED BY <3>1 DEF Beneath
  <2> QED BY <2>1, <2>3 DEF DirectCalls
<1>2. ASSUME NEW f, Light(f), Call(<<f>>)
      PROVE  Top'.op \notin StepOps
  BY <1>2, BeneathOne DEF Light
<1>3. ASSUME NEW f, NEW g, Light(f), Call(<<f, g>>)
      PROVE  Top'.op \notin StepOps
  BY <1>3, BeneathTwo DEF Light
<1>4. ASSUME NEW f, NEW g, NEW h, Light(f), Call(<<f, g, h>>)
      PROVE  Top'.op \notin StepOps
  <2>1. stack'[1] = f
    BY <1>4, BeneathThree
  <2> QED BY <1>4, <2>1 DEF Light, Top
<1>5. ASSUME NEW f, Light(f), stack' = <<f>> \o stack
      PROVE  Top'.op \notin StepOps
  BY <1>5, PushedCall DEF Light
<1>6. CASE UNCHANGED stack
  <2>1. Top' = Top
    BY <1>6 DEF Top
  <2> QED BY <2>1 DEF Calling
<1> QED BY <1>1, <1>2, <1>3, <1>4, <1>5, <1>6 DEF MakesLight

-----------------------------------------------------------------------------
(* What a step leaves of what a stop still has to end.                     *)

\* The step gives u no process, and brings none of its own back
Fewer(u) ==
  \A p \in Pids : procs'[p].unit = u /\ procs'[p].st # "free" =>
    /\ procs[p].unit = u /\ procs[p].st # "free"
    /\ procs'[p].st \in {"running", "termed"} => procs[p].st \in {"running", "termed"}

LEMMA FewerWatched ==
  ASSUME NEW u, Fewer(u)
  PROVE  Watched(u)' \subseteq Watched(u)
BY DEF Fewer, Watched, Unreaped

\* The processes stay as they are, or some of them are signalled.
LEMMA SignalledFewer ==
  ASSUME TypeOK, NEW u \in Units,
         \/ UNCHANGED procs
         \/ \E P : \E st \in {"termed", "killed"} : procs' = Signalled(P, st)
  PROVE  Fewer(u)
<1>1. CASE UNCHANGED procs
  BY <1>1 DEF Fewer
<1>2. ASSUME NEW P, NEW st \in {"termed", "killed"}, procs' = Signalled(P, st)
      PROVE  Fewer(u)
  <2>1. ASSUME NEW p \in Pids
        PROVE  \/ procs'[p] = procs[p]
               \/ /\ procs'[p].unit = procs[p].unit /\ procs[p].st \in {"running", "termed"}
    <3>1. procs[p] \in Proc /\ procs'[p] = IF p \in P /\ procs[p].st \in {"running", "termed"}
                                            THEN [procs[p] EXCEPT !.st = st] ELSE procs[p]
      BY <1>2 DEF TypeOK, Signalled
    <3> QED BY <3>1 DEF Proc
  <2> QED BY <2>1 DEF Fewer
<1> QED BY <1>1, <1>2

\* A unit that a stop has something to end of is loaded, and active, on its way up or
\* already stopping.
LEMMA Watching ==
  ASSUME NEW u \in Units, Tidy(u), OwnUnit(u), Plain(u) /\ u \notin Targets => Accounted(u),
         Watched(u) # {}
  PROVE  /\ u \notin Targets /\ units[u].loaded
         /\ units[u].active \in {"active", "deactivating"} \/ unit_operational(u)
<1>1. PICK p : p \in Watched(u)
  OBVIOUS
<1>2. p \in Unreaped(u)
  BY <1>1 DEF Watched
<1>3. u \notin Targets
  BY <1>2 DEF OwnUnit
<1>4. units[u].active \in {"active", "activating", "deactivating"}
  <2>1. CASE Plain(u)
    BY <1>1, <1>3, <2>1 DEF Accounted
  <2>2. CASE Staged(u)
    BY <1>2, <2>2 DEF OwnUnit
  <2> QED BY <2>1, <2>2 DEF Tidy
<1>5. units[u].loaded
  BY <1>4 DEF OwnUnit
<1> QED BY <1>3, <1>4, <1>5 DEF unit_operational

\* A step that keeps to u's record, or after which nothing is left to end.
LEMMA AccountedStays ==
  ASSUME NEW u, Accounted(u), Fewer(u), units'[u].control_pid = NoPid,
         \/ Watched(u)' = {}
         \/ /\ units'[u].main_pid = units[u].main_pid
            /\ units'[u].group_pid = units[u].group_pid /\ units'[u].cgroup = units[u].cgroup
            /\ units'[u].active \in {units[u].active, "active", "deactivating"},
         stack' # <<>> /\ Top'.unit = u =>
           /\ Top'.op # "spawn"
           /\ Top'.op = "finalize" => Watched(u)' = {}
  PROVE  Accounted(u)'
<1>1. Watched(u)' \subseteq Watched(u)
  BY FewerWatched
<1>2. \A p \in Watched(u)' : /\ p = units'[u].main_pid /\ p = units'[u].group_pid
                             /\ units'[u].active \in {"active", "deactivating"}
                             /\ units'[u].cgroup = UseCgroup
  BY <1>1 DEF Accounted
<1> QED BY <1>2 DEF Accounted

\* The record u has is the one it had.
LEMMA AccountedKept ==
  ASSUME NEW u, Accounted(u), Fewer(u), units'[u] = units[u],
         stack' # <<>> /\ Top'.unit = u =>
           /\ Top'.op # "spawn"
           /\ Top'.op = "finalize" => Watched(u)' = {}
  PROVE  Accounted(u)'
<1>1. units[u].control_pid = NoPid
  BY DEF Accounted
<1> QED BY <1>1, AccountedStays

\* In shutdown, what was to be ended is stopping, or a call will stop it.
LEMMA EndingStays ==
  ASSUME NEW u, Ending(u), Fewer(u), shutting_down' => shutting_down /\ Sinking(u)',
         status' = "exited" => status = "exited" \/ Watched(u) = {},
         shutting_down => \/ units'[u].active \in {units[u].active, "deactivating"}
                          \/ Watched(u) = {} \/ Watched(u)' = {},
         shutting_down /\ Sought(u) => \/ Sought(u)' \/ units'[u].active = "deactivating"
                                       \/ Watched(u) = {} \/ units[u].active = "deactivating"
  PROVE  Ending(u)'
<1>1. Watched(u)' \subseteq Watched(u)
  BY FewerWatched
<1>2. status' = "exited" => Watched(u)' = {}
  BY <1>1 DEF Ending
<1>3. ASSUME shutting_down'
      PROVE  Watched(u)' = {} \/ units'[u].active = "deactivating" \/ Sought(u)'
  <2>1. Watched(u) = {} \/ units[u].active = "deactivating" \/ Sought(u)
    BY <1>3 DEF Ending
  <2> QED BY <1>1, <1>3, <2>1
<1> QED BY <1>2, <1>3 DEF Ending

\* What set_active leaves of a record.
LEMMA SetKeeps ==
  ASSUME NEW rec \in UnitRec, NEW active \in ActiveState, NEW sub \in SubState
  PROVE  LET r == Set(rec, active, sub) IN
         /\ r.active = active /\ r.main_pid = rec.main_pid /\ r.group_pid = rec.group_pid
         /\ r.control_pid = rec.control_pid /\ r.cgroup = rec.cgroup
BY DEF Set, UnitRec

-----------------------------------------------------------------------------
(* The calls of the job engine.                                            *)

\* A call that is to stop u and is made next.
LEMMA StopIsMade ==
  ASSUME TypeOK, IndexInv, NEW u \in Units, Tidy(u), LoneInv(u), NEW op, Calling(op),
         CallNext, Halting(Top, u), unit_operational(u), units'[u].active # "deactivating"
  PROVE  Sought(u)'
<1>1. \A f : Halting(f, u) /\ f \in Pending' => Sought(u)'
  <2> SUFFICES ASSUME NEW f, Halting(f, u), f \in Pending' PROVE Sought(u)'
    OBVIOUS
  <2>1. Halting(f, u)'
    BY DEF Halting
  <2> QED BY <2>1 DEF Sought
<1>2. Calling(Top.op) /\ (op \in {"stop", "enqueue_stop", "stop_deps"} => Top.unit = u)
  BY DEF Calling, Halting
<1>3. CASE op = "stop"
  <2> DEFINE f == EnqueueStop(u, FALSE, Top.irreversible)
             g == Completed(u, FALSE)
  <2>1. StopUnit /\ Top.unit = u
    BY <1>2, <1>3 DEF CallNext, EngineNext, ServiceNext, Calling, ProcessJobs, TryAdvanceJob, StartUnit,
       SetExited, StopAll, EnqueueStart, ExpandConflicts, ExpandOpen, ExpandCommit,
       MaybeStartJob, EnqueueStopJob, StopDependents, FinishJob, OnJobCompleted, PokeFailed,
       FireOnFailure, DoStart, SpawnControl, MaybeStopJob, FinalizeStop
  <2>2. Settled(u)
    BY <1>2, <1>3, AtRest DEF LoneInv, Work, Calling, Resting
  <2>3. units'[u].active = units[u].active
    BY <2>1 DEF StopUnit
  <2>4. ~PendingStop(u)
    BY <2>2, <2>3 DEF Settled
  <2>5. Call(<<g, f, Process>>) \/ Call(<<f, Process>>)
    <3>1. \/ Call(<<g>> \o <<f, Process>>) \/ Call(<<f, Process>>)
      BY <2>1, <2>4 DEF StopUnit
    <3>2. <<g>> \o <<f, Process>> = <<g, f, Process>>
      BY ConcatThree
    <3> QED BY <3>1, <3>2
  <2>6. Halting(f, u)
    BY DEF Halting, EnqueueStop, Frm
  <2> HIDE DEF f, g
  <2>7. f \in Pending'
    <3>1. CASE Call(<<f, Process>>)
      BY <1>2, <3>1, TwoCalls
    <3>2. CASE Call(<<g, f, Process>>)
      <4> DEFINE frames == <<g, f, Process>>
                 S == {g, f, Process}
      <4>1. frames \in Seq(S) /\ Call(frames) /\ 2 \in DOMAIN frames /\ frames[2] = f
        BY <3>2
      <4> HIDE DEF frames, S
      <4> QED BY <1>2, <4>1, CallsMade
    <3> QED BY <2>5, <3>1, <3>2
  <2> QED BY <1>1, <2>6, <2>7
<1>4. CASE op = "stop_all"
  <2>1. StopAll /\ u \in Top.todo
    BY <1>2, <1>4 DEF Halting, CallNext, EngineNext, ServiceNext, Calling, ProcessJobs, TryAdvanceJob,
       StartUnit, SetExited, StopUnit, EnqueueStart, ExpandConflicts, ExpandOpen, ExpandCommit,
       MaybeStartJob, EnqueueStopJob, StopDependents, FinishJob, OnJobCompleted, PokeFailed,
       FireOnFailure, DoStart, SpawnControl, MaybeStopJob, FinalizeStop
  <2>2. PICK v \in Top.todo : Call(<<Stop(v, FALSE), Loop("stop_all", NoUnit, 0, Top.todo \ {v}, {})>>)
    BY <2>1 DEF StopAll
  <2> DEFINE f == Stop(v, FALSE)
             g == Loop("stop_all", NoUnit, 0, Top.todo \ {v}, {})
  <2>3. Halting(f, u) \/ Halting(g, u)
    BY <2>1 DEF Halting, Stop, Loop, Frm
  <2>4. Call(<<f, g>>)
    BY <2>2
  <2> HIDE DEF f, g
  <2>5. f \in Pending' /\ g \in Pending'
    BY <1>2, <2>4, TwoCalls
  <2> QED BY <1>1, <2>3, <2>5
<1>5. CASE op = "enqueue_stop"
  <2> DEFINE f == Loop("stop_deps", u, next_job + 1, Dependents(u), {})
  <2>1. EnqueueStopJob /\ Top.unit = u
    BY <1>2, <1>5 DEF CallNext, EngineNext, ServiceNext, Calling, ProcessJobs, TryAdvanceJob,
       StartUnit, SetExited, StopUnit, StopAll, EnqueueStart, ExpandConflicts, ExpandOpen,
       ExpandCommit, MaybeStartJob, StopDependents, FinishJob, OnJobCompleted, PokeFailed,
       FireOnFailure, DoStart, SpawnControl, MaybeStopJob, FinalizeStop
  <2>2. Call(<<f>>)
    BY <2>1 DEF EnqueueStopJob
  <2>3. Halting(f, u)
    BY DEF Halting, Loop, Frm
  <2> HIDE DEF f
  <2> QED BY <1>1, <1>2, <2>2, <2>3, OneCall
<1>6. CASE op = "stop_deps"
  <2>1. StopDependents /\ Top.unit = u
    BY <1>2, <1>6 DEF CallNext, EngineNext, ServiceNext, Calling, ProcessJobs, TryAdvanceJob,
       StartUnit, SetExited, StopUnit, StopAll, EnqueueStart, ExpandConflicts, ExpandOpen,
       ExpandCommit, MaybeStartJob, EnqueueStopJob, FinishJob, OnJobCompleted, PokeFailed,
       FireOnFailure, DoStart, SpawnControl, MaybeStopJob, FinalizeStop
  <2>2. Top.todo = {} /\ Fresh(u, "Stop", Top.id)
    BY <1>2, <1>6, <2>1, AtRest DEF LoneInv, Quiet, Work, Calling
  <2> DEFINE f == JobCall("maybe_stop", Top.id)
  <2>3. Call(<<f>>) /\ UNCHANGED unit_job
    BY <2>1, <2>2 DEF StopDependents, engineVars
  <2>4. f.op = "maybe_stop" /\ f.id = unit_job[u]
    BY <2>2 DEF Fresh, JobCall, Frm
  <2> HIDE DEF f
  <2>5. stack' # <<>> /\ Top' = f
    BY <1>2, <2>3, BeneathOne
  <2> QED BY <2>3, <2>4, <2>5 DEF Sought
<1> QED BY <1>3, <1>4, <1>5, <1>6 DEF Halting, Calling

\* What the job engine changes of the units.
LEMMA EngineUnits ==
  ASSUME TypeOK, EngineNext
  PROVE  /\ stack # <<>> /\ status = "running" /\ UNCHANGED <<procs, armed, shutting_down>>
         /\ status' # "exited"
         /\ \/ UNCHANGED units
            \/ /\ StartUnit /\ ~units[Top.unit].loaded
               /\ units' = [units EXCEPT ![Top.unit] = NewUnit(TRUE)]
            \/ Top.op = "set_exited" /\ units' = [units EXCEPT ![Top.unit] = Set(@, "active", "exited")]
            \/ Top.op = "enqueue_start" /\ units' = [units EXCEPT ![Top.unit] = Set(@, "failed", "failed")]
            \/ \E v : \E n \in Nat : units' = [units EXCEPT ![v].start_window = n]
<1>1. CASE ProcessJobs \/ TryAdvanceJob \/ StopUnit \/ StopAll \/ ExpandConflicts
           \/ ExpandOpen \/ ExpandCommit \/ EnqueueStopJob \/ StopDependents \/ FinishJob
           \/ OnJobCompleted \/ PokeFailed \/ FireOnFailure
  BY <1>1 DEF ProcessJobs, TryAdvanceJob, StopUnit, StopAll, ExpandConflicts, ExpandOpen,
     ExpandCommit, EnqueueStopJob, StopDependents, FinishJob, OnJobCompleted, PokeFailed,
     FireOnFailure, Calling, unitVars, outside
<1>2. CASE StartUnit
  BY <1>2 DEF StartUnit, Calling, outside
<1>3. CASE SetExited \/ EnqueueStart
  BY <1>3 DEF SetExited, EnqueueStart, MarkFailed, Calling, outside
<1>4. CASE MaybeStartJob
  <2>1. CASE Panic
    BY <1>4, <2>1 DEF MaybeStartJob, Panic, Calling
  <2>2. CASE ~Panic
    <3> DEFINE v == jobs[Top.id].unit
    <3>1. Top.id \in DOMAIN jobs
      BY <1>4, <2>2 DEF MaybeStartJob
    <3>2. units[v] \in UnitRec
      BY <3>1 DEF TypeOK, JobsTypeOK, Job
    <3>3. \A recent \in RecentStarts(units[v]) : recent \in Nat /\ recent + 1 \in Nat
      BY <3>2 DEF RecentStarts, UnitRec
    <3>4. \/ UNCHANGED units
          \/ \E recent \in RecentStarts(units[v]) :
               units' = [units EXCEPT ![v].start_window = IF recent >= StartLimit THEN recent ELSE recent + 1]
      BY <1>4, <2>2 DEF MaybeStartJob
    <3>5. Calling("maybe_start") /\ UNCHANGED <<procs, armed, shutting_down, status>>
      BY <1>4, <2>2 DEF MaybeStartJob, outside
    <3> HIDE DEF v
    <3> QED BY <3>3, <3>4, <3>5 DEF Calling
  <2> QED BY <2>1, <2>2
<1> QED BY <1>1, <1>2, <1>3, <1>4 DEF EngineNext

\* It leaves u's processes on record, and in shutdown its state.
LEMMA EngineRecord ==
  ASSUME TypeOK, NEW u \in Units, Tidy(u), LoneInv(u), EndInv(u), ShutdownInv, EngineNext
  PROVE  /\ Fewer(u)
         /\ shutting_down => units'[u].active = units[u].active
         /\ Plain(u) /\ u \notin Targets =>
              /\ units'[u].control_pid = NoPid
              /\ \/ Watched(u)' = {}
                 \/ /\ units'[u].main_pid = units[u].main_pid
                    /\ units'[u].group_pid = units[u].group_pid /\ units'[u].cgroup = units[u].cgroup
                    /\ units'[u].active \in {units[u].active, "active", "deactivating"}
<1>1. Fewer(u) /\ units[u] \in UnitRec /\ Calling(Top.op) /\ OwnUnit(u)
  BY EngineUnits, SignalledFewer DEF TypeOK, Calling, LoneInv
<1>2. Watched(u)' \subseteq Watched(u)
  BY <1>1, FewerWatched
<1>3. shutting_down => Top.op \notin {"set_exited", "enqueue_start"}
  BY <1>1, TopHarmless DEF Harmless
<1>4. Plain(u) /\ u \notin Targets => units[u].control_pid = NoPid
  BY DEF EndInv, Accounted
<1>5. Plain(u) /\ u \notin Targets /\ units[u].active \notin {"active", "deactivating"} => Watched(u) = {}
  BY DEF EndInv, Accounted
<1>6. CASE units'[u] = units[u]
  BY <1>1, <1>4, <1>6
<1>7. CASE Top.unit = u /\ ~units[u].loaded /\ units' = [units EXCEPT ![u] = NewUnit(TRUE)]
  <2>1. units'[u].active = "inactive" /\ units'[u].control_pid = NoPid
    BY <1>7 DEF TypeOK, NewUnit
  <2>2. units[u].active = "inactive"
    BY <1>1, <1>7 DEF OwnUnit
  <2> QED BY <1>1, <1>2, <1>5, <2>1, <2>2
<1>8. CASE Top.op = "set_exited" /\ units' = [units EXCEPT ![u] = Set(@, "active", "exited")]
  <2>1. units'[u] = Set(units[u], "active", "exited")
    BY <1>8 DEF TypeOK
  <2>2. /\ units'[u].active = "active" /\ units'[u].main_pid = units[u].main_pid
        /\ units'[u].group_pid = units[u].group_pid /\ units'[u].cgroup = units[u].cgroup
        /\ units'[u].control_pid = units[u].control_pid
    BY <1>1, <2>1, SetKeeps DEF ActiveState, SubState
  <2> QED BY <1>1, <1>3, <1>4, <1>8, <2>2
<1>9. CASE /\ Top.op = "enqueue_start" /\ Top.unit = u
           /\ units' = [units EXCEPT ![u] = Set(@, "failed", "failed")]
  <2>1. units'[u] = Set(units[u], "failed", "failed")
    BY <1>9 DEF TypeOK
  <2>2. units'[u].control_pid = units[u].control_pid
    BY <1>1, <2>1, SetKeeps DEF ActiveState, SubState
  <2>3. Down(u)
    BY <1>1, <1>9, AtRest DEF LoneInv, Quiet, Work, Calling
  <2>4. Plain(u) => units[u].active \notin {"active", "deactivating"}
    BY <2>3 DEF Down
  <2> QED BY <1>1, <1>2, <1>3, <1>4, <1>5, <1>9, <2>2, <2>4
<1>10. ASSUME NEW v, NEW n \in Nat, units' = [units EXCEPT ![v].start_window = n]
       PROVE  /\ units'[u].active = units[u].active /\ units'[u].main_pid = units[u].main_pid
              /\ units'[u].group_pid = units[u].group_pid /\ units'[u].cgroup = units[u].cgroup
              /\ units'[u].control_pid = units[u].control_pid
  <2>1. CASE v # u
    BY <1>10, <2>1 DEF TypeOK
  <2>2. CASE v = u
    <3>1. units'[u] = [units[u] EXCEPT !.start_window = n]
      BY <1>10, <2>2 DEF TypeOK
    <3> QED BY <1>1, <3>1 DEF UnitRec
  <2> QED BY <2>1, <2>2
<1>11. CASE \E v : \E n \in Nat : units' = [units EXCEPT ![v].start_window = n]
  <2>1. /\ units'[u].active = units[u].active /\ units'[u].main_pid = units[u].main_pid
        /\ units'[u].group_pid = units[u].group_pid /\ units'[u].cgroup = units[u].cgroup
        /\ units'[u].control_pid = units[u].control_pid
    BY <1>10, <1>11
  <2> QED BY <1>1, <1>4, <2>1
<1>12. \/ units'[u] = units[u]
       \/ Top.unit = u /\ ~units[u].loaded /\ units' = [units EXCEPT ![u] = NewUnit(TRUE)]
       \/ Top.op = "set_exited" /\ units' = [units EXCEPT ![u] = Set(@, "active", "exited")]
       \/ /\ Top.op = "enqueue_start" /\ Top.unit = u
          /\ units' = [units EXCEPT ![u] = Set(@, "failed", "failed")]
       \/ \E v : \E n \in Nat : units' = [units EXCEPT ![v].start_window = n]
  <2>1. ASSUME NEW v, NEW r, v # u, units' = [units EXCEPT ![v] = r]
        PROVE  units'[u] = units[u]
    BY <2>1 DEF TypeOK
  <2>2. CASE Top.unit # u
    BY <2>1, <2>2, EngineUnits
  <2>3. CASE Top.unit = u
    BY <2>3, EngineUnits
  <2> QED BY <2>2, <2>3
<1> QED BY <1>6, <1>7, <1>8, <1>9, <1>11, <1>12

\* A Start job of u that shutdown finds is started, so nobody starts u.
LEMMA NotStarted ==
  ASSUME TypeOK, NEW u \in Units, LoneInv(u), Sinking(u), MaybeStartJob, ~MakesLight,
         Top.id \in JobsOf(u)
  PROVE  FALSE
<1>1. Calling("maybe_start") /\ Top.op = "maybe_start"
  BY DEF MaybeStartJob, Calling
<1>2. Top.id \notin OtherIds(u)
  BY DEF OtherIds
<1>3. Fresh(u, "Start", Top.id)
  BY <1>1, <1>2, AtRest DEF LoneInv, Quiet, Work, JobFrames
<1> QED BY <1>3 DEF Sinking, Fresh, PendingStart

\* The call that maybe_start_job makes, if it is not a light one.
LEMMA StartCall ==
  ASSUME TypeOK, MaybeStartJob, ~MakesLight
  PROVE  /\ Top.id \in DOMAIN jobs /\ Calling("maybe_start")
         /\ \E f : Call(<<f>>) /\ f.op = "do_start" /\ f.unit = jobs[Top.id].unit
<1>1. Calling("maybe_start")
  BY DEF MaybeStartJob
<1>2. Light(Finish(Top.id, FALSE))
  BY LightOps
<1>3. UnitCall("do_start", jobs[Top.id].unit).op = "do_start"
      /\ UnitCall("do_start", jobs[Top.id].unit).unit = jobs[Top.id].unit
  BY DEF UnitCall, Frm
<1>4. stack' # Return /\ ~UNCHANGED stack /\ ~Call(<<Finish(Top.id, FALSE)>>)
  BY <1>2 DEF MakesLight
<1>5. Top.id \in DOMAIN jobs /\ Call(<<UnitCall("do_start", jobs[Top.id].unit)>>)
  BY <1>4 DEF MaybeStartJob, Panic
<1> QED BY <1>1, <1>3, <1>5

\* What the job engine calls next, of u.
LEMMA EngineTop ==
  ASSUME TypeOK, NEW u \in Units, DirectCalls, EngineNext, LoneInv(u),
         stack' # <<>>, Top'.unit = u
  PROVE  /\ Top'.op \notin {"spawn", "finalize"}
         /\ Sinking(u) => Top'.op # "do_start"
<1>1. CASE MaybeStartJob /\ ~MakesLight
  <2>1. PICK f : Call(<<f>>) /\ f.op = "do_start" /\ f.unit = jobs[Top.id].unit
    BY <1>1, StartCall
  <2>2. Top' = f
    BY <1>1, <2>1, StartCall, BeneathOne
  <2>3. Sinking(u) => Top.id \notin JobsOf(u)
    BY <1>1, NotStarted
  <2>4. Top.id \in JobsOf(u)
    BY <1>1, <2>1, <2>2, StartCall DEF JobsOf
  <2> QED BY <2>1, <2>2, <2>3, <2>4
<1>2. CASE MakesLight
  <2>1. Top.op \notin StepOps /\ Calling(Top.op)
    BY EngineUnits DEF EngineNext, Calling, ProcessJobs, TryAdvanceJob, StartUnit, SetExited, StopUnit, StopAll,
       EnqueueStart, ExpandConflicts, ExpandOpen, ExpandCommit, MaybeStartJob, EnqueueStopJob,
       StopDependents, FinishJob, OnJobCompleted, PokeFailed, FireOnFailure, StepOps
  <2> QED BY <1>2, <2>1, LightTop DEF StepOps
<1> QED BY <1>1, <1>2, EngineLight

\* A call that will stop u is kept by the others.
LEMMA EngineSought ==
  ASSUME TypeOK, IndexInv, NEW u \in Units, Tidy(u), LoneInv(u), CallNext, EngineNext,
         Sought(u), unit_operational(u), units'[u].active # "deactivating"
  PROVE  Sought(u)'
<1>1. Calling(Top.op) /\ Top.op # "maybe_stop"
  BY EngineUnits DEF EngineNext, Calling, ProcessJobs, TryAdvanceJob, StartUnit, SetExited, StopUnit, StopAll,
     EnqueueStart, ExpandConflicts, ExpandOpen, ExpandCommit, MaybeStartJob, EnqueueStopJob,
     StopDependents, FinishJob, OnJobCompleted, PokeFailed, FireOnFailure
<1>2. PICK f \in Pending : Halting(f, u)
  BY <1>1 DEF Sought
<1>3. CASE f = Top
  BY <1>1, <1>2, <1>3, StopIsMade
<1>4. CASE f # Top
  <2>1. f \in Pending'
    <3>1. CASE MakesLight
      BY <1>1, <1>2, <1>4, <3>1, LightPending
    <3>2. CASE MaybeStartJob /\ ~MakesLight
      BY <1>1, <1>2, <1>4, <3>2, StartCall, OneCall
    <3> QED BY <3>1, <3>2, EngineLight
  <2>2. Halting(f, u)'
    BY <1>2 DEF Halting
  <2> QED BY <2>1, <2>2 DEF Sought
<1> QED BY <1>3, <1>4

-----------------------------------------------------------------------------
(* Starting and stopping: the calls that go on with a unit at once.        *)

\* Which call is made next, after one that makes at most two.
LEMMA NextTop ==
  ASSUME TypeOK, DirectCalls, NEW op, Calling(op), NEW F,
         \/ stack' = Return \/ Call(<<>>)
         \/ \E f \in F : Call(<<f>>)
         \/ \E f \in F : \E g : Call(<<f, g>>)
  PROVE  /\ \A h \in Pending : h # Top => h \in Pending'
         /\ stack' # <<>> => Top'.op \notin StepOps \/ Top' \in F
<1>1. CASE stack' = Return \/ Call(<<>>)
  <2>1. stack' = Return
    <3>1. Return \in Seq(Frame)
      BY CallType
    <3> QED BY <1>1, <3>1 DEF Call
  <2>2. MakesLight
    BY <2>1 DEF MakesLight
  <2>3. Beneath(0)' \subseteq Beneath(1)
    BY <2>1, BeneathReturn
  <2>4. stack' \in Seq(Frame)
    BY <2>1, CallType
  <2>5. stack' # <<>> => 1 \in DOMAIN stack' /\ Top' = stack'[1] /\ 1 > 0
    BY <2>4 DEF Top
  <2>6. stack' # <<>> => Top' \in Beneath(0)'
    BY <2>5 DEF Beneath
  <2> QED BY <2>1, <2>3, <2>6, Returned DEF DirectCalls
<1>2. ASSUME NEW f \in F, Call(<<f>>)
      PROVE  (\A h \in Pending : h # Top => h \in Pending') /\ Top' \in F
  BY <1>2, OneCall, BeneathOne
<1>3. ASSUME NEW f \in F, NEW g, Call(<<f, g>>)
      PROVE  (\A h \in Pending : h # Top => h \in Pending') /\ Top' \in F
  BY <1>3, TwoCalls, BeneathTwo
<1> QED BY <1>1, <1>2, <1>3

\* Nothing happens, or the manager panics.
LEMMA NothingEnds ==
  ASSUME NEW u, EndInv(u), UNCHANGED <<units, jobs, unit_job, armed, procs, stack, shutting_down>>,
         status' \in {status, "panicked"}
  PROVE  EndInv(u)'
<1>1. Watched(u)' = Watched(u) /\ Pending' = Pending /\ Top' = Top /\ PendingStart(u)' = PendingStart(u)
  BY DEF Watched, Unreaped, Pending, Top, PendingStart
<1>2. Sought(u)' = Sought(u)
  BY <1>1 DEF Sought, Halting
<1>3. Sinking(u)' = Sinking(u)
  BY <1>1 DEF Sinking
<1>4. Accounted(u) => Accounted(u)'
  BY <1>1 DEF Accounted
<1>5. Ending(u)'
  BY <1>1, <1>2, <1>3 DEF EndInv, Ending
<1> QED BY <1>4, <1>5 DEF EndInv

\* A call that takes up nothing of u.
LEMMA SinkingStays ==
  ASSUME TypeOK, IndexInv, IndexInv', NEW u \in Units, OwnJob(u), ShutdownInv, shutting_down,
         CallNext, Sinking(u), <<u, "RestartDelay">> \in armed' => <<u, "RestartDelay">> \in armed,
         stack' # <<>> /\ Top'.unit = u => Top'.op \notin {"do_start", "spawn"}
  PROVE  Sinking(u)'
<1>1. PendingStart(u)' => jobs'[unit_job'[u]].started
  BY StartedStays
<1> QED BY <1>1 DEF Sinking

\* Every call of the job engine.
LEMMA EngineEnds ==
  ASSUME TypeOK, IndexInv, IndexInv', NEW u \in Units, Tidy(u), LoneInv(u), EndInv(u), ShutdownInv,
         DirectCalls, CallNext, EngineNext
  PROVE  EndInv(u)'
<1>1. /\ UNCHANGED <<procs, armed, shutting_down>> /\ status' # "exited"
      /\ OwnJob(u) /\ OwnUnit(u)
  BY EngineUnits DEF LoneInv
<1>2. /\ Fewer(u)
      /\ shutting_down => units'[u].active = units[u].active
      /\ Plain(u) /\ u \notin Targets =>
           /\ units'[u].control_pid = NoPid
           /\ \/ Watched(u)' = {}
              \/ /\ units'[u].main_pid = units[u].main_pid
                 /\ units'[u].group_pid = units[u].group_pid /\ units'[u].cgroup = units[u].cgroup
                 /\ units'[u].active \in {units[u].active, "active", "deactivating"}
  BY EngineRecord
<1>3. stack' # <<>> /\ Top'.unit = u =>
        /\ Top'.op \notin {"spawn", "finalize"}
        /\ Sinking(u) => Top'.op # "do_start"
  BY EngineTop DEF LoneInv
<1>4. Plain(u) /\ u \notin Targets => Accounted(u)'
  BY <1>2, <1>3, AccountedStays DEF EndInv
<1>5. shutting_down => Sinking(u)'
  BY <1>1, <1>3, SinkingStays DEF EndInv, Ending
<1>6. shutting_down /\ Sought(u) => \/ Sought(u)' \/ units'[u].active = "deactivating"
                                    \/ Watched(u) = {} \/ units[u].active = "deactivating"
  <2>1. Watched(u) # {} /\ units[u].active # "deactivating" => unit_operational(u)
    BY <1>1, Watching DEF EndInv, unit_operational
  <2> QED BY <2>1, EngineSought
<1>7. Ending(u)'
  BY <1>1, <1>2, <1>5, <1>6, EndingStays DEF EndInv
<1> QED BY <1>4, <1>7 DEF EndInv

\* A call that goes on with another unit.
LEMMA ServiceElse ==
  ASSUME TypeOK, IndexInv, IndexInv', NEW u \in Units, Tidy(u), LoneInv(u), EndInv(u), ShutdownInv,
         CallNext, NEW op \in StepOps \cup {"maybe_stop"}, Calling(op),
         op = "maybe_stop" => Top.id \in DOMAIN jobs \ JobsOf(u),
         units'[u] = units[u], Fewer(u), UNCHANGED shutting_down, status' # "exited",
         <<u, "RestartDelay">> \in armed' => <<u, "RestartDelay">> \in armed,
         op = "maybe_stop" => unit_job'[u] = unit_job[u],
         \A h \in Pending : h # Top => h \in Pending',
         stack' # <<>> /\ Top'.unit = u => Top'.op \notin StepOps
  PROVE  EndInv(u)'
<1>1. OwnJob(u) /\ Top.op = op
  BY DEF LoneInv, Calling
<1>2. Plain(u) /\ u \notin Targets => Accounted(u)'
  BY AccountedKept DEF EndInv, StepOps
<1>3. shutting_down => Sinking(u)'
  BY <1>1, SinkingStays DEF EndInv, Ending, StepOps
<1>4. op = "maybe_stop" => Top.id # unit_job[u]
  <2>1. unit_job[u] # 0 => unit_job[u] \in JobsOf(u)
    BY DEF IndexInv, JobIndex, JobsOf
  <2>2. 0 \notin DOMAIN jobs
    BY DEF TypeOK, JobsTypeOK
  <2> QED BY <2>1, <2>2
<1>5. Sought(u) => Sought(u)'
  <2>1. ASSUME NEW f \in Pending, Halting(f, u)
        PROVE  Sought(u)'
    <3>1. f # Top
      BY <1>1, <2>1 DEF Halting, StepOps
    <3>2. f \in Pending' /\ Halting(f, u)'
      BY <2>1, <3>1 DEF Halting
    <3> QED BY <3>2 DEF Sought
  <2> QED BY <1>1, <1>4, <2>1 DEF Sought
<1>6. Ending(u)'
  BY <1>3, <1>5, EndingStays DEF EndInv
<1> QED BY <1>2, <1>6 DEF EndInv

\* do_start.
LEMMA DoStartEnds ==
  ASSUME TypeOK, IndexInv, IndexInv', NEW u \in Units, Tidy(u), LoneInv(u), EndInv(u), ShutdownInv,
         DirectCalls, CallNext, DoStart
  PROVE  EndInv(u)'
<1> DEFINE v == Top.unit
           f == Spawn(v, IF ExecCount[v]["StartPre"] > 0 THEN "StartPre" ELSE "Start", 0)
           g == Finish(unit_job[v], TRUE)
           F == {f, g}
<1>1. /\ Calling("do_start") /\ v \in Units /\ UNCHANGED <<procs, armed, shutting_down, status>>
      /\ status = "running" /\ stack # <<>> /\ Top.op = "do_start"
  BY CallType DEF DoStart, UnitOps, outside, Calling
<1>2. \/ stack' = Return \/ Call(<<>>) \/ Call(<<f>>) \/ Call(<<g>>)
  BY DEF DoStart, CompleteStart
<1>3. f.unit = v /\ f.op = "spawn" /\ g.op = "finish"
  BY DEF Spawn, Finish, Frm
<1>4. \E r : units' = [units EXCEPT ![v] = r] \/ UNCHANGED units
  BY DEF DoStart
<1>5. Fewer(u)
  BY <1>1, SignalledFewer
<1>6. f \in F /\ g \in F /\ (\A h \in F : h = f \/ h = g)
  OBVIOUS
<1>7. CASE v # u
  <2>1. units'[u] = units[u]
    BY <1>4, <1>7 DEF TypeOK
  <2> HIDE DEF v, f, g, F
  <2>2. /\ \A h \in Pending : h # Top => h \in Pending'
        /\ stack' # <<>> => Top'.op \notin StepOps \/ Top' \in F
    BY <1>1, <1>2, <1>6, NextTop
  <2>3. stack' # <<>> /\ Top'.unit = u => Top'.op \notin StepOps
    BY <1>3, <1>6, <1>7, <2>2 DEF StepOps
  <2>4. "do_start" \in StepOps
    BY DEF StepOps
  <2> QED BY <1>1, <1>5, <2>1, <2>2, <2>3, <2>4, ServiceElse
<1>8. CASE v = u
  <2>1. ~shutting_down
    BY <1>1, <1>8 DEF EndInv, Ending, Sinking
  <2>2. Ending(u)'
    BY <1>1, <2>1 DEF Ending
  <2>3. ASSUME Plain(u), u \notin Targets
        PROVE  Accounted(u)'
    <3>1. CASE UNCHANGED units /\ stack' = Return
      <4> HIDE DEF v, f, g, F
      <4>1. stack' # <<>> => Top'.op \notin StepOps
        <5> DEFINE E == {}
        <5>1. \A h : h \notin E
          OBVIOUS
        <5> HIDE DEF E
        <5>2. stack' # <<>> => Top'.op \notin StepOps \/ Top' \in E
          BY <1>1, <3>1, NextTop
        <5> QED BY <5>1, <5>2
      <4> QED BY <1>5, <2>3, <3>1, <4>1, AccountedKept DEF EndInv, StepOps
    <3>2. CASE ~(UNCHANGED units /\ stack' = Return)
      <4>1. Down(u)
        BY <1>1, <1>8, AtRest DEF LoneInv, Quiet, Work
      <4>2. units[u].active \notin {"active", "deactivating"}
        BY <2>3, <4>1 DEF Down
      <4>3. Watched(u) = {}
        BY <2>3, <4>2 DEF EndInv, Accounted
      <4>4. Watched(u)' = {}
        BY <1>5, <4>3, FewerWatched
      <4> DEFINE r == [Set(units[u], "activating", "start-pre") EXCEPT
                         !.main_pid = NoPid, !.group_pid = NoPid, !.control_pid = NoPid,
                         !.control_command = NoCommand, !.cmd_index = 0]
      <4>5. units' = [units EXCEPT ![u] = r] /\ Call(<<f>>)
        BY <1>8, <2>3, <3>2 DEF DoStart
      <4>6. units[u] \in UnitRec
        BY DEF TypeOK
      <4>7. r.control_pid = NoPid /\ r.active = "activating"
        BY <4>6 DEF Set, UnitRec
      <4>8. units'[u].control_pid = NoPid /\ units'[u].active = "activating"
        BY <4>5, <4>7 DEF TypeOK
      <4>9. f.cmd = "Start" /\ f.op = "spawn"
        BY <1>8, <2>3 DEF Plain, Spawn, Frm
      <4> HIDE DEF f, g, F, v, r
      <4>10. Top' = f
        BY <1>1, <4>5, BeneathOne
      <4> QED BY <4>4, <4>8, <4>9, <4>10 DEF Accounted
    <3> QED BY <3>1, <3>2
  <2> QED BY <2>2, <2>3 DEF EndInv
<1> QED BY <1>7, <1>8

\* finalize_stop: the stop has nothing left to end.
LEMMA FinalizeEnds ==
  ASSUME TypeOK, IndexInv, IndexInv', NEW u \in Units, Tidy(u), LoneInv(u), EndInv(u), ShutdownInv,
         DirectCalls, CallNext, FinalizeStop
  PROVE  EndInv(u)'
<1> DEFINE v == Top.unit
           g == Finish(unit_job[v], TRUE)
           F == {g}
<1>1. /\ Calling("finalize") /\ v \in Units /\ UNCHANGED <<procs, armed, shutting_down, status>>
      /\ status = "running" /\ stack # <<>> /\ Top.op = "finalize"
  BY CallType DEF FinalizeStop, UnitOps, outside, Calling
<1>2. Call(<<>>) \/ Call(<<g>>)
  BY DEF FinalizeStop
<1>3. g.op = "finish" /\ g \in F /\ \A h \in F : h = g
  BY DEF Finish, Frm
<1>4. Fewer(u)
  BY <1>1, SignalledFewer
<1>5. /\ \A h \in Pending : h # Top => h \in Pending'
      /\ stack' # <<>> => Top'.op \notin StepOps
  <2> HIDE DEF v, g, F
  <2>1. /\ \A h \in Pending : h # Top => h \in Pending'
        /\ stack' # <<>> => Top'.op \notin StepOps \/ Top' \in F
    BY <1>1, <1>2, <1>3, NextTop
  <2> QED BY <1>3, <2>1 DEF StepOps
<1>6. CASE v # u
  <2>1. units'[u] = units[u]
    BY <1>6 DEF FinalizeStop, TypeOK
  <2>2. "finalize" \in StepOps
    BY DEF StepOps
  <2> HIDE DEF v, g, F
  <2> QED BY <1>1, <1>4, <1>5, <2>1, <2>2, ServiceElse
<1>7. CASE v = u
  <2>1. Watched(u) = {}
    <3>1. CASE u \in Targets
      BY <3>1 DEF LoneInv, OwnUnit, Watched
    <3>2. CASE Plain(u) /\ u \notin Targets
      BY <1>1, <1>7, <3>2 DEF EndInv, Accounted
    <3>3. CASE Staged(u)
      <4>1. Childless(u)
        BY <1>1, <1>7, AtRest DEF LoneInv, Quiet, Work
      <4> QED BY <3>3, <4>1 DEF Childless, Watched
    <3> QED BY <3>1, <3>2, <3>3 DEF Tidy
  <2>2. Watched(u)' = {}
    BY <1>4, <2>1, FewerWatched
  <2> DEFINE rec == Set(units[u], "inactive", "dead")
             r == [rec EXCEPT !.main_pid = NoPid, !.group_pid = NoPid, !.cgroup = FALSE,
                              !.control_pid = NoPid, !.control_command = NoCommand, !.cmd_index = 0]
  <2>3. units'[u].control_pid = NoPid
    <3>1. units' = [units EXCEPT ![u] = r] /\ units[u] \in UnitRec
      BY <1>7 DEF FinalizeStop, TypeOK
    <3>2. r.control_pid = NoPid
      BY <3>1 DEF Set, UnitRec
    <3> HIDE DEF r
    <3> QED BY <3>1, <3>2 DEF TypeOK
  <2> HIDE DEF rec, r, v, g, F
  <2>4. Plain(u) /\ u \notin Targets => Accounted(u)'
    BY <1>4, <1>5, <2>2, <2>3, AccountedStays DEF EndInv, StepOps
  <2>5. shutting_down => Sinking(u)'
    BY <1>1, <1>5, SinkingStays DEF EndInv, Ending, StepOps, LoneInv
  <2>6. Ending(u)'
    BY <1>1, <1>4, <2>1, <2>5, EndingStays DEF EndInv
  <2> QED BY <2>4, <2>6 DEF EndInv
<1> QED BY <1>6, <1>7

\* do_stop of u: it is stopping then, and its processes are signalled, or there are none.
LEMMA DoStopEnds ==
  ASSUME TypeOK, IndexInv, IndexInv', NEW u \in Units, Tidy(u), LoneInv(u), EndInv(u), ShutdownInv,
         DirectCalls, CallNext, Calling("maybe_stop"), DoStop(u), UNCHANGED <<shutting_down, status>>
  PROVE  EndInv(u)'
<1> DEFINE f == UnitCall("finalize", u)
           has == u \notin Targets /\ unit_has_processes(u)
           sub == IF has THEN "stop-sigterm" ELSE "stop"
<1>1. ExecCount[u]["Stop"] = 0 /\ OwnJob(u) /\ OwnUnit(u) /\ status = "running"
  BY DEF Tidy, Standalone, LoneInv, Calling
<1>2. f.unit = u /\ f.op = "finalize"
  BY DEF UnitCall, Frm
<1>3. /\ units' = [units EXCEPT ![u] = Set(@, "deactivating", sub)]
      /\ IF has THEN procs' = Signalled(Tree(u), "termed") /\ armed' = ArmStop(u) /\ stack' = Return
                ELSE Call(<<f>>) /\ UNCHANGED <<procs, armed>>
  BY <1>1 DEF DoStop
<1>4. /\ units'[u].active = "deactivating" /\ units'[u].main_pid = units[u].main_pid
      /\ units'[u].group_pid = units[u].group_pid /\ units'[u].cgroup = units[u].cgroup
      /\ units'[u].control_pid = units[u].control_pid
  <2>1. units[u] \in UnitRec /\ sub \in SubState /\ "deactivating" \in ActiveState
    BY DEF TypeOK, SubState, ActiveState
  <2> HIDE DEF sub
  <2>2. units'[u] = Set(units[u], "deactivating", sub)
    BY <1>3 DEF TypeOK
  <2> QED BY <2>1, <2>2, SetKeeps
<1>5. Fewer(u)
  BY <1>3, SignalledFewer
<1>6. <<u, "RestartDelay">> \in armed' => <<u, "RestartDelay">> \in armed
  BY <1>3 DEF ArmStop
<1>7. /\ stack' # <<>> => Top'.op \notin {"do_start", "spawn"}
      /\ has => (stack' # <<>> => Top'.op # "finalize")
  <2>1. CASE has
    <3> DEFINE E == {}
    <3>1. \A h : h \notin E
      OBVIOUS
    <3> HIDE DEF E
    <3>2. stack' # <<>> => Top'.op \notin StepOps \/ Top' \in E
      BY <1>3, <2>1, NextTop
    <3> QED BY <3>1, <3>2 DEF StepOps
  <2>2. CASE ~has
    <3> HIDE DEF f
    <3>1. Top' = f
      BY <1>3, <2>2, BeneathOne
    <3> QED BY <1>2, <2>2, <3>1
  <2> QED BY <2>1, <2>2
<1>8. Plain(u) /\ u \notin Targets /\ ~has => Watched(u) = {}
  <2> SUFFICES ASSUME Plain(u), u \notin Targets, ~has, NEW p \in Watched(u) PROVE FALSE
    OBVIOUS
  <2>1. p = units[u].main_pid
    BY DEF EndInv, Accounted
  <2>2. p \in Pids
    BY DEF Watched, Unreaped
  <2> QED BY <2>1, <2>2, UnitsAssumption DEF unit_has_processes
<1> HIDE DEF f, has, sub
<1>9. Watched(u)' \subseteq Watched(u)
  BY <1>5, FewerWatched
<1>10. Plain(u) /\ u \notin Targets => Accounted(u)'
  <2>1. Plain(u) /\ u \notin Targets => units'[u].control_pid = NoPid
    BY <1>4 DEF EndInv, Accounted
  <2> QED BY <1>4, <1>5, <1>7, <1>8, <1>9, <2>1, AccountedStays DEF EndInv
<1>11. shutting_down => Sinking(u)'
  BY <1>1, <1>6, <1>7, SinkingStays DEF EndInv, Ending
<1>12. Ending(u)'
  BY <1>1, <1>4, <1>5, <1>11, EndingStays DEF EndInv
<1> QED BY <1>10, <1>12 DEF EndInv

\* maybe_stop_job.
LEMMA MaybeStopEnds ==
  ASSUME TypeOK, IndexInv, IndexInv', NEW u \in Units, Tidy(u), LoneInv(u), EndInv(u), ShutdownInv,
         DirectCalls, CallNext, MaybeStopJob
  PROVE  EndInv(u)'
<1> DEFINE id == Top.id
           v == jobs[id].unit
           g == Finish(id, TRUE)
           f == IF v \in Targets \/ ExecCount[v]["Stop"] = 0
                THEN UnitCall("finalize", v) ELSE Spawn(v, "Stop", 0)
           F == {f, g}
<1>1. Calling("maybe_stop") /\ status = "running" /\ stack # <<>> /\ Top.op = "maybe_stop"
  BY DEF MaybeStopJob, Calling
<1>2. CASE id \notin DOMAIN jobs
  BY <1>2, NothingEnds DEF MaybeStopJob, Panic
<1>3. CASE id \in DOMAIN jobs /\ v # u
  <2>1. v \in Units /\ id \notin JobsOf(u)
    BY <1>3 DEF TypeOK, JobsTypeOK, Job, JobsOf
  <2>2. \/ units' = units
        \/ \E r : units' = [units EXCEPT ![v] = r]
    BY <1>3 DEF MaybeStopJob, DoStop, Panic
  <2>3. units'[u] = units[u]
    BY <1>3, <2>2 DEF TypeOK
  <2>4. /\ UNCHANGED procs \/ procs' = Signalled(Tree(v), "termed")
        /\ UNCHANGED armed \/ armed' = ArmStop(v)
        /\ UNCHANGED unit_job \/ unit_job' = [unit_job EXCEPT ![v] = id]
        /\ UNCHANGED <<shutting_down, status>>
    BY <1>3 DEF MaybeStopJob, DoStop, engineVars, outside
  <2>5. unit_job'[u] = unit_job[u]
    BY <1>3, <2>4 DEF TypeOK, JobsTypeOK
  <2>6. <<u, "RestartDelay">> \in armed' => <<u, "RestartDelay">> \in armed
    BY <1>3, <2>4 DEF ArmStop
  <2>7. Fewer(u)
    BY <2>4, SignalledFewer
  <2>8. stack' = Return \/ Call(<<f>>) \/ Call(<<g>>)
    BY <1>3 DEF MaybeStopJob, DoStop
  <2>9. f.unit = v /\ g.op = "finish" /\ f \in F /\ g \in F /\ \A h \in F : h = f \/ h = g
    BY DEF UnitCall, Spawn, Finish, Frm
  <2> HIDE DEF f, g, F, v, id
  <2>10. /\ \A h \in Pending : h # Top => h \in Pending'
         /\ stack' # <<>> => Top'.op \notin StepOps \/ Top' \in F
    BY <1>1, <2>8, <2>9, NextTop
  <2>11. stack' # <<>> /\ Top'.unit = u => Top'.op \notin StepOps
    BY <1>3, <2>9, <2>10 DEF StepOps
  <2>12. status' # "exited"
    BY <1>1, <2>4
  <2>13. Top.id \in DOMAIN jobs \ JobsOf(u)
    BY <1>3, <2>1 DEF id
  <2> QED BY <1>1, <2>3, <2>4, <2>5, <2>6, <2>7, <2>10, <2>11, <2>12, <2>13, ServiceElse
<1>4. CASE id \in DOMAIN jobs /\ v = u
  <2>1. id \notin OtherIds(u)
    BY <1>4 DEF OtherIds, JobsOf
  <2>2. Fresh(u, "Stop", id) /\ unit_operational(u)
    BY <1>1, <2>1, AtRest DEF LoneInv, Quiet, Work, JobFrames
  <2>3. ~jobs[id].started
    BY <2>2 DEF Fresh
  <2>4. DoStop(u) /\ UNCHANGED <<shutting_down, status>>
    BY <1>4, <2>2, <2>3 DEF MaybeStopJob
  <2> QED BY <1>1, <2>4, DoStopEnds
<1> QED BY <1>2, <1>3, <1>4

\* A new child.
LEMMA ChildFewer ==
  ASSUME TypeOK, NEW u \in Units, NEW v \in Units, NEW p \in Pids, procs[p].st = "free",
         procs' = [procs EXCEPT ![p] = [st |-> "running", unit |-> v]]
  PROVE  /\ v # u => Fewer(u)
         /\ Watched(u) = {} => Watched(u)' \subseteq {p}
<1>1. procs'[p].unit = v /\ \A q \in Pids : q # p => procs'[q] = procs[q]
  BY DEF TypeOK
<1>2. v # u => Fewer(u)
  BY <1>1 DEF Fewer
<1>3. \A q \in Watched(u)' : q # p => q \in Watched(u)
  BY <1>1 DEF Watched, Unreaped
<1> QED BY <1>2, <1>3

\* spawn_control for another unit.
LEMMA SpawnElseEnds ==
  ASSUME TypeOK, IndexInv, IndexInv', NEW u \in Units, Tidy(u), LoneInv(u), EndInv(u), ShutdownInv,
         DirectCalls, CallNext, SpawnControl, Top.unit # u
  PROVE  EndInv(u)'
<1> DEFINE v == Top.unit
           cmd == Top.cmd
           f1 == Finish(unit_job[v], TRUE)
           f2 == Finish(unit_job[v], FALSE)
           f3 == Poke(v)
           f4 == Spawn(v, "Start", 0)
           f5 == UnitCall("finalize", v)
           g == Loop("on_failure", v, 0, OnFailure[v], {})
           F == {f1, f2, f3, f4, f5}
<1>1. /\ Calling("spawn") /\ v \in Units /\ UNCHANGED <<shutting_down, status>>
      /\ status = "running" /\ stack # <<>> /\ Top.op = "spawn"
  BY CallType DEF SpawnControl, UnitOps, Calling
<1>2. /\ f1.op = "finish" /\ f2.op = "finish" /\ f3.op = "poke" /\ f4.unit = v /\ f5.unit = v
      /\ f1 \in F /\ f2 \in F /\ f3 \in F /\ f4 \in F /\ f5 \in F
      /\ \A h \in F : h \in {f1, f2, f3, f4, f5}
  BY DEF Finish, Poke, Spawn, UnitCall, Frm
<1>3. /\ CompleteStart(v) = <<f1>> \/ CompleteStart(v) = <<>>
      /\ FailCalls(v) = <<f2, g>> \/ FailCalls(v) = <<f3, g>>
  BY DEF CompleteStart, FailCalls
<1>4. ASSUME NEW rec, StageDone(rec, v, cmd)
      PROVE  /\ \E r : units' = [units EXCEPT ![v] = r]
             /\ Call(<<>>) \/ (\E f \in F : Call(<<f>>))
             /\ UNCHANGED <<armed, procs>>
  <2>1. Call(<<f4>>) \/ Call(CompleteStart(v)) \/ Call(<<f5>>) \/ Call(<<>>)
    BY <1>4 DEF StageDone
  <2>2. (\E r : units' = [units EXCEPT ![v] = r]) /\ UNCHANGED <<armed, procs>>
    BY <1>4 DEF StageDone
  <2> HIDE DEF f1, f2, f3, f4, f5, g, F, v, cmd
  <2> QED BY <1>2, <1>3, <2>1, <2>2
<1>5. ASSUME NEW p \in Pids, procs[p].st = "free", Spawned(v, cmd, p)
      PROVE  /\ \E r : units' = [units EXCEPT ![v] = r]
             /\ stack' = Return \/ Call(<<>>) \/ (\E f \in F : Call(<<f>>))
             /\ UNCHANGED armed \/ armed' = ArmStart(v)
             /\ procs' = [procs EXCEPT ![p] = [st |-> "running", unit |-> v]]
  <2>1. Call(CompleteStart(v)) \/ stack' = Return
    BY <1>5 DEF Spawned
  <2>2. /\ \E r : units' = [units EXCEPT ![v] = r]
        /\ UNCHANGED armed \/ armed' = ArmStart(v)
        /\ procs' = [procs EXCEPT ![p] = [st |-> "running", unit |-> v]]
    BY <1>5 DEF Spawned
  <2> HIDE DEF f1, f2, f3, f4, f5, g, F, v, cmd
  <2> QED BY <1>2, <1>3, <2>1, <2>2
<1>6. /\ \E r : units' = [units EXCEPT ![v] = r]
      /\ \/ stack' = Return \/ Call(<<>>)
         \/ \E f \in F : Call(<<f>>)
         \/ \E f \in F : \E h : Call(<<f, h>>)
      /\ UNCHANGED armed \/ armed' = ArmStart(v)
      /\ \/ UNCHANGED procs
         \/ \E p \in Pids : /\ procs[p].st = "free"
                            /\ procs' = [procs EXCEPT ![p] = [st |-> "running", unit |-> v]]
  <2>1. CASE \E rec : StageDone(rec, v, cmd)
    BY <1>4, <2>1
  <2>2. CASE \E p \in Pids : procs[p].st = "free" /\ Spawned(v, cmd, p)
    BY <1>5, <2>2
  <2>3. CASE /\ \E r : units' = [units EXCEPT ![v] = r]
             /\ Call(FailCalls(v)) /\ UNCHANGED <<armed, procs>>
    <3> HIDE DEF f1, f2, f3, f4, f5, g, F, v, cmd
    <3> QED BY <1>2, <1>3, <2>3
  <2>4. \/ \E rec : StageDone(rec, v, cmd)
        \/ \E p \in Pids : procs[p].st = "free" /\ Spawned(v, cmd, p)
        \/ /\ \E r : units' = [units EXCEPT ![v] = r]
           /\ Call(FailCalls(v)) /\ UNCHANGED <<armed, procs>>
    BY SpawnWays
  <2> QED BY <2>1, <2>2, <2>3, <2>4
<1> HIDE DEF f1, f2, f3, f4, f5, g, F
<1>7. units'[u] = units[u]
  BY <1>6 DEF TypeOK
<1>8. Fewer(u)
  BY <1>1, <1>6, SignalledFewer, ChildFewer
<1>9. <<u, "RestartDelay">> \in armed' => <<u, "RestartDelay">> \in armed
  BY <1>6 DEF ArmStart
<1>10. /\ \A h \in Pending : h # Top => h \in Pending'
       /\ stack' # <<>> => Top'.op \notin StepOps \/ Top' \in F
  BY <1>1, <1>6, NextTop
<1>11. stack' # <<>> /\ Top'.unit = u => Top'.op \notin StepOps
  BY <1>2, <1>10 DEF StepOps
<1>12. "spawn" \in StepOps
  BY DEF StepOps
<1> HIDE DEF v, cmd
<1> QED BY <1>1, <1>7, <1>8, <1>9, <1>10, <1>11, <1>12, ServiceElse

\* The one command of a plain service: its process is the main process at once.
LEMMA PlainSpawned ==
  ASSUME TypeOK, NEW u \in Units, EndInv(u), Plain(u), u \notin Targets, SpawnControl,
         DirectCalls, Top.unit = u
  PROVE  Accounted(u)'
<1> DEFINE f1 == Finish(unit_job[u], TRUE)
           f2 == Finish(unit_job[u], FALSE)
           f3 == Poke(u)
           g == Loop("on_failure", u, 0, OnFailure[u], {})
           F == {f1, f2, f3}
<1>1. /\ Calling("spawn") /\ stack # <<>> /\ Top.op = "spawn" /\ units[u] \in UnitRec
  BY DEF SpawnControl, Calling, TypeOK
<1>2. /\ units[u].active = "activating" /\ Top.cmd = "Start" /\ Accounted(u)
      /\ units[u].control_pid = NoPid /\ ServiceType[u] = "simple"
  BY <1>1 DEF EndInv, Accounted, Plain
<1>3. Watched(u) = {}
  BY <1>2 DEF Accounted
<1>4. /\ f1.op = "finish" /\ f2.op = "finish" /\ f3.op = "poke"
      /\ f1 \in F /\ f2 \in F /\ f3 \in F /\ \A h \in F : h \in {f1, f2, f3}
      /\ CompleteStart(u) = <<f1>> \/ CompleteStart(u) = <<>>
      /\ FailCalls(u) = <<f2, g>> \/ FailCalls(u) = <<f3, g>>
  BY DEF Finish, Poke, Frm, CompleteStart, FailCalls
<1>5. ASSUME Call(CompleteStart(u)) \/ Call(FailCalls(u))
      PROVE  stack' # <<>> => Top'.op \notin StepOps
  <2> HIDE DEF f1, f2, f3, g, F
  <2>1. stack' # <<>> => Top'.op \notin StepOps \/ Top' \in F
    BY <1>1, <1>4, <1>5, NextTop
  <2> QED BY <1>4, <2>1 DEF StepOps
<1> HIDE DEF f1, f2, f3, g, F
<1>6. ASSUME NEW r \in UnitRec, r.control_pid = NoPid, UNCHANGED procs,
             \/ units' = [units EXCEPT ![u] = Ended(r, u)] /\ Call(CompleteStart(u))
             \/ units' = [units EXCEPT ![u] = Set(r, "failed", "failed")] /\ Call(FailCalls(u))
      PROVE  Accounted(u)'
  <2>1. Watched(u)' = {}
    BY <1>3, <1>6 DEF Watched, Unreaped
  <2>2. Ended(r, u).control_pid = NoPid /\ Set(r, "failed", "failed").control_pid = NoPid
    BY <1>6, SetKeeps DEF Ended, ActiveState, SubState
  <2>3. units'[u] = Ended(r, u) \/ units'[u] = Set(r, "failed", "failed")
    BY <1>6 DEF TypeOK
  <2>4. Fewer(u)
    BY <1>6, SignalledFewer
  <2> QED BY <1>2, <1>5, <1>6, <2>1, <2>2, <2>3, <2>4, AccountedStays DEF StepOps
<1>7. ASSUME NEW r \in UnitRec, r.control_pid = NoPid, StageDone(r, u, "Start")
      PROVE  Accounted(u)'
  BY <1>6, <1>7 DEF StageDone
<1>8. ASSUME NEW p \in Pids, procs[p].st = "free", Spawned(u, "Start", p)
      PROVE  Accounted(u)'
  <2> DEFINE rec == [units[u] EXCEPT !.group_pid = p, !.cgroup = UseCgroup]
             r == [Set(rec, "active", "running") EXCEPT
                     !.main_pid = p, !.control_pid = NoPid, !.control_command = NoCommand]
  <2>1. /\ procs' = [procs EXCEPT ![p] = [st |-> "running", unit |-> u]]
        /\ units' = [units EXCEPT ![u] = r] /\ Call(CompleteStart(u))
    BY <1>2, <1>8 DEF Spawned, ActiveAtOnce
  <2>2. /\ r.active = "active" /\ r.main_pid = p /\ r.group_pid = p /\ r.cgroup = UseCgroup
        /\ r.control_pid = NoPid
    BY <1>1 DEF Set, UnitRec
  <2> HIDE DEF rec, r
  <2>3. units'[u] = r
    BY <2>1 DEF TypeOK
  <2>4. Watched(u)' \subseteq {p}
    BY <1>3, <1>8, <2>1, ChildFewer
  <2> QED BY <1>5, <2>1, <2>2, <2>3, <2>4 DEF Accounted, StepOps
<1>9. /\ [units[u] EXCEPT !.cgroup = UseCgroup] \in UnitRec
      /\ [units[u] EXCEPT !.cgroup = UseCgroup].control_pid = NoPid
  BY <1>1, <1>2, ConfigAssumption DEF UnitRec
<1>10. \/ \E r \in UnitRec : r.control_pid = NoPid /\ StageDone(r, u, "Start")
       \/ \E p \in Pids : procs[p].st = "free" /\ Spawned(u, "Start", p)
       \/ \E r \in UnitRec : /\ r.control_pid = NoPid /\ UNCHANGED procs
                             /\ units' = [units EXCEPT ![u] = Set(r, "failed", "failed")]
                             /\ Call(FailCalls(u))
  BY <1>1, <1>2, <1>9, SpawnWays
<1> QED BY <1>6, <1>7, <1>8, <1>10

\* spawn_control.
LEMMA SpawnEnds ==
  ASSUME TypeOK, IndexInv, IndexInv', NEW u \in Units, Tidy(u), LoneInv(u), EndInv(u), ShutdownInv,
         DirectCalls, CallNext, SpawnControl
  PROVE  EndInv(u)'
<1>1. CASE Top.unit # u
  BY <1>1, SpawnElseEnds
<1>2. CASE Top.unit = u
  <2>1. /\ stack # <<>> /\ Top.op = "spawn" /\ status = "running"
        /\ UNCHANGED <<shutting_down, status>>
    BY DEF SpawnControl, Calling
  <2>2. ~shutting_down
    BY <1>2, <2>1 DEF EndInv, Ending, Sinking
  <2>3. Ending(u)'
    BY <2>1, <2>2 DEF Ending
  <2> QED BY <1>2, <2>3, PlainSpawned DEF EndInv
<1> QED BY <1>1, <1>2

\* Every call.
LEMMA CallEnds ==
  ASSUME TypeOK, IndexInv, IndexInv', NEW u \in Units, Tidy(u), LoneInv(u), EndInv(u), ShutdownInv,
         DirectCalls, CallNext
  PROVE  EndInv(u)'
<1>1. CASE EngineNext
  BY <1>1, EngineEnds
<1>2. CASE ServiceNext
  BY <1>2, DoStartEnds, SpawnEnds, MaybeStopEnds, FinalizeEnds DEF ServiceNext
<1> QED BY <1>1, <1>2 DEF CallNext

-----------------------------------------------------------------------------
(* Requests and events.                                                    *)

\* What an event may make of u: nothing, or nothing is left to end.
LEMMA EventEnds ==
  ASSUME NEW u \in Units, EndInv(u), stack = <<>>, Fewer(u),
         UNCHANGED <<jobs, unit_job, shutting_down, status>>,
         \/ units'[u] = units[u]
         \/ /\ Watched(u)' = {}
            /\ Plain(u) /\ u \notin Targets => units'[u].control_pid = units[u].control_pid,
         <<u, "RestartDelay">> \in armed' => <<u, "RestartDelay">> \in armed \/ ~shutting_down,
         stack' # <<>> /\ Top'.unit = u =>
           /\ Top'.op = "spawn" => Staged(u) /\ ~shutting_down
           /\ Top'.op = "do_start" => ~shutting_down
           /\ Top'.op = "finalize" => Watched(u)' = {}
  PROVE  EndInv(u)'
<1>1. Plain(u) /\ u \notin Targets => Accounted(u)'
  <2> SUFFICES ASSUME Plain(u), u \notin Targets PROVE Accounted(u)'
    OBVIOUS
  <2>1. Accounted(u) /\ units[u].control_pid = NoPid
    BY DEF EndInv, Accounted
  <2>2. stack' # <<>> /\ Top'.unit = u =>
          /\ Top'.op # "spawn"
          /\ Top'.op = "finalize" => Watched(u)' = {}
    BY DEF Staged
  <2> QED BY <2>1, <2>2, AccountedStays
<1>2. ~Sought(u)
  BY DEF Sought, Pending
<1>3. PendingStart(u)' = PendingStart(u)
  BY DEF PendingStart
<1>4. shutting_down => Sinking(u)'
  BY <1>3 DEF EndInv, Ending, Sinking
<1>5. Ending(u)'
  BY <1>2, <1>4, EndingStays DEF EndInv, Ending
<1> QED BY <1>1, <1>5 DEF EndInv

\* The requests, without those the theorem excepts.
LEMMA RequestEnds ==
  ASSUME TypeOK, IndexInv, NEW u \in Units, Tidy(u), LoneInv(u), EndInv(u), OrdinaryRequests,
         "restart" \notin Requests, RequestNext
  PROVE  EndInv(u)'
<1>1. \/ Shutdown
      \/ \E v \in Units : RequestStart(v) \/ RequestStop(v) \/ RequestIsolate(v)
                          \/ RequestResetFailed(v) \/ RequestKill(v)
  BY DEF OrdinaryRequests, RequestNext, Request, RequestRestart, RequestStartIgnore, RequestReload,
         DaemonReload
<1>2. stack = <<>> /\ status = "running"
  BY <1>1 DEF RequestStart, RequestStop, RequestIsolate, RequestResetFailed, RequestKill, Shutdown,
     Request, Quiescent
<1>3. Settled(u) /\ OwnUnit(u)
  BY <1>2, LoneRests
<1>4. Plain(u) /\ u \notin Targets => Accounted(u)
  BY DEF EndInv
<1>5. ASSUME NEW v \in Units, RequestStart(v) \/ RequestStop(v) \/ RequestIsolate(v)
      PROVE  EndInv(u)'
  <2>1. /\ UNCHANGED <<units, procs, armed, jobs, unit_job, shutting_down, status>>
        /\ stack' # <<>> /\ Top'.op \in {"start", "stop", "stop_all"}
    <3>1. CASE RequestStart(v)
      BY <3>1 DEF RequestStart, engineVars, outside, UnitCall, Frm, Top
    <3>2. CASE RequestStop(v)
      BY <3>2 DEF RequestStop, engineVars, outside, Stop, Frm, Top
    <3>3. CASE RequestIsolate(v)
      BY <3>3 DEF RequestIsolate, engineVars, outside, Loop, Frm, Top
    <3> QED BY <1>5, <3>1, <3>2, <3>3
  <2>2. Fewer(u)
    BY <2>1, SignalledFewer
  <2> QED BY <1>2, <2>1, <2>2, EventEnds
<1>6. ASSUME NEW v \in Units, RequestResetFailed(v)
      PROVE  EndInv(u)'
  <2>1. /\ UNCHANGED <<procs, armed, jobs, unit_job, shutting_down, status, stack>>
        /\ units[v].active = "failed"
        /\ units' = [units EXCEPT ![v] = Set(@, "inactive", "dead")]
    BY <1>6 DEF RequestResetFailed, engineVars, outside
  <2>2. Fewer(u)
    BY <2>1, SignalledFewer
  <2>3. CASE v # u
    <3>1. units'[u] = units[u]
      BY <2>1, <2>3 DEF TypeOK
    <3> QED BY <1>2, <2>1, <2>2, <3>1, EventEnds
  <2>4. CASE v = u
    <3>1. Watched(u) = {}
      BY <1>3, <1>4, <2>1, <2>4, Watching DEF unit_operational
    <3>2. Watched(u)' = {}
      BY <2>2, <3>1, FewerWatched
    <3>3. units'[u].control_pid = units[u].control_pid
      <4>1. units[u] \in UnitRec /\ units'[u] = Set(units[u], "inactive", "dead")
        BY <2>1, <2>4 DEF TypeOK
      <4> QED BY <4>1, SetKeeps DEF ActiveState, SubState
    <3> QED BY <1>2, <2>1, <2>2, <3>2, <3>3, EventEnds
  <2> QED BY <2>3, <2>4
<1>7. ASSUME NEW v \in Units, RequestKill(v)
      PROVE  EndInv(u)'
  <2>1. CASE Panic
    BY <2>1, NothingEnds DEF Panic
  <2>2. CASE ~Panic
    <3>1. /\ \E st \in {"termed", "killed"} : procs' = Signalled(Tree(v), st)
          /\ UNCHANGED <<units, armed, jobs, unit_job, shutting_down, status, stack>>
      BY <1>7, <2>2 DEF RequestKill, engineVars
    <3>2. Fewer(u)
      BY <3>1, SignalledFewer
    <3> QED BY <1>2, <3>1, <3>2, EventEnds
  <2> QED BY <2>1, <2>2
<1>8. CASE Shutdown
  <2>1. UNCHANGED <<units, procs, jobs, unit_job, status>> /\ armed' = {}
    BY <1>8 DEF Shutdown, engineVars
  <2>2. PICK f : /\ stack' = <<f, Process>> /\ f.op = "stop_all"
                 /\ units[u].active # "inactive" => u \in f.todo
    <3> DEFINE f == Loop("stop_all", NoUnit, 0, {v \in Units : units[v].active # "inactive"}, {})
    <3>1. /\ stack' = <<f, Process>> /\ f.op = "stop_all"
          /\ units[u].active # "inactive" => u \in f.todo
      BY <1>8 DEF Shutdown, Loop, Frm
    <3> HIDE DEF f
    <3> QED BY <3>1
  <2>3. Fewer(u)
    BY <2>1, SignalledFewer
  <2>4. Top' = f /\ f \in Pending' /\ stack' # <<>>
    <3>1. 1 \in DOMAIN stack' /\ stack'[1] = f
      BY <2>2
    <3> QED BY <2>2, <3>1 DEF Top, Pending
  <2>5. Watched(u)' = Watched(u) /\ PendingStart(u)' = PendingStart(u)
    BY <2>1 DEF Watched, Unreaped, PendingStart
  <2>6. Plain(u) /\ u \notin Targets => Accounted(u)'
    BY <1>4, <2>1, <2>2, <2>3, <2>4, AccountedKept
  <2>7. Sinking(u)'
    BY <1>3, <2>1, <2>2, <2>4, <2>5 DEF Sinking, Settled
  <2>8. Watched(u)' # {} => Sought(u)'
    <3>1. Watched(u)' # {} => units[u].active # "inactive"
      BY <1>3, <1>4, <2>5, Watching DEF unit_operational
    <3>2. ASSUME u \in f.todo PROVE Sought(u)'
      <4>1. Halting(f, u)'
        BY <2>2, <3>2 DEF Halting
      <4> QED BY <2>4, <4>1 DEF Sought
    <3> QED BY <2>2, <3>1, <3>2
  <2>9. Ending(u)'
    BY <1>2, <2>1, <2>7, <2>8 DEF Ending
  <2> QED BY <2>6, <2>9 DEF EndInv
<1> QED BY <1>1, <1>5, <1>6, <1>7, <1>8

\* Events that reap nothing.
LEMMA OtherEventEnds ==
  ASSUME TypeOK, IndexInv, NEW u \in Units, Tidy(u), LoneInv(u), EndInv(u),
         \/ \E p \in Pids, exit \in Exits : ChildExits(p, exit)
         \/ \E p \in Pids : \E mainpid \in {p, NoPid} : SendReady(p, mainpid)
         \/ \E m \in notify : HandleNotify(m)
         \/ Tick \/ Exit
  PROVE  EndInv(u)'
<1>1. stack = <<>> /\ status = "running"
  BY DEF ChildExits, SendReady, HandleNotify, Tick, Exit, Quiescent
<1>2. Settled(u)
  BY <1>1, LoneRests
<1>3. ASSUME NEW p \in Pids, NEW exit \in Exits, ChildExits(p, exit)
      PROVE  EndInv(u)'
  <2>1. /\ procs' = [procs EXCEPT ![p].st = exit] /\ procs[p].st \in Alive
        /\ UNCHANGED <<units, armed, jobs, unit_job, shutting_down, status, stack>>
    BY <1>3 DEF ChildExits, engineVars
  <2>2. Fewer(u)
    <3>1. \A q \in Pids : /\ procs'[q].unit = procs[q].unit
                          /\ q # p => procs'[q].st = procs[q].st
      BY <2>1 DEF TypeOK, Proc
    <3>2. procs'[p].st \notin {"running", "termed"} /\ procs[p].st # "free"
      BY <2>1 DEF TypeOK, Proc, Exits, Alive
    <3> QED BY <3>1, <3>2 DEF Fewer
  <2> QED BY <1>1, <2>1, <2>2, EventEnds
<1>4. ASSUME NEW m \in notify, HandleNotify(m)
      PROVE  EndInv(u)'
  <2>1. UNCHANGED <<armed, procs, jobs, unit_job, shutting_down, status>>
    BY <1>4 DEF HandleNotify, engineVars
  <2>2. \/ UNCHANGED <<units, stack>>
        \/ \E v \in ReadyTargets(m) :
             /\ units' = [units EXCEPT ![v] = Set(@, "active", "running")]
             /\ stack' = CompleteStart(v)
    BY <1>4 DEF HandleNotify
  <2>3. u \notin ReadyTargets(m)
    BY DEF ReadyTargets, Candidates, Tidy, Plain, Staged
  <2>4. units'[u] = units[u]
    BY <2>2, <2>3 DEF TypeOK
  <2>5. stack' # <<>> => Top'.op = "finish"
    BY <1>1, <2>2 DEF CompleteStart, Finish, Frm, Top
  <2>6. Fewer(u)
    BY <2>1, SignalledFewer
  <2> QED BY <1>1, <2>1, <2>4, <2>5, <2>6, EventEnds
<1>5. ASSUME Tick \/ \E p \in Pids : \E mainpid \in {p, NoPid} : SendReady(p, mainpid)
      PROVE  EndInv(u)'
  <2>1. /\ UNCHANGED <<units, procs, armed, jobs, unit_job, shutting_down, status>>
        /\ stack' = <<>> \/ stack' = <<Process>>
    BY <1>1, <1>5 DEF Tick, SendReady, engineVars, outside
  <2>2. stack' # <<>> => Top'.op = "process"
    BY <2>1 DEF Process, JobCall, Frm, Top
  <2>3. Fewer(u)
    BY <2>1, SignalledFewer
  <2> QED BY <1>1, <2>1, <2>2, <2>3, EventEnds
<1>6. CASE Exit
  <2>1. /\ UNCHANGED <<units, procs, armed, jobs, unit_job, shutting_down, stack>>
        /\ shutting_down /\ DOMAIN jobs = {} /\ status' = "exited"
    BY <1>6 DEF Exit, engineVars
  <2>2. ~PendingStop(u)
    BY <2>1 DEF PendingStop, IndexInv, JobIndex
  <2>3. units[u].active # "deactivating" /\ ~Sought(u)
    BY <1>1, <1>2, <2>2 DEF Settled, Sought, Pending
  <2>4. Watched(u) = {}
    BY <2>1, <2>3 DEF EndInv, Ending
  <2>5. Fewer(u)
    BY <2>1, SignalledFewer
  <2>6. Watched(u)' = {} /\ PendingStart(u)' = PendingStart(u)
    BY <2>1, <2>4 DEF Watched, Unreaped, PendingStart
  <2>7. Plain(u) /\ u \notin Targets => Accounted(u)'
    BY <1>1, <2>1, <2>5, AccountedKept DEF EndInv
  <2>8. Sinking(u)'
    BY <1>1, <2>1, <2>6 DEF EndInv, Ending, Sinking
  <2> QED BY <2>6, <2>7, <2>8 DEF EndInv, Ending
<1> QED BY <1>3, <1>4, <1>5, <1>6

\* A timer.
LEMMA FireTimerEnds ==
  ASSUME TypeOK, NEW u \in Units, Tidy(u), LoneInv(u), EndInv(u),
         NEW v \in Units, NEW kind \in TimerKinds, FireTimer(v, kind)
  PROVE  EndInv(u)'
<1>1. /\ stack = <<>> /\ UNCHANGED <<jobs, unit_job, shutting_down, status>>
      /\ <<v, kind>> \in armed /\ armed' = armed \ {<<v, kind>>}
      /\ UNCHANGED procs \/ procs' = Signalled(Tree(v), "killed")
  BY DEF FireTimer, Quiescent, engineVars
<1>2. Fewer(u) /\ OwnUnit(u) /\ units[u] \in UnitRec
  BY <1>1, SignalledFewer DEF LoneInv, TypeOK
<1>3. Watched(u)' \subseteq Watched(u)
  BY <1>2, FewerWatched
<1>4. UNCHANGED units \/ units' = [units EXCEPT ![v] = Set(@, "failed", "failed")]
  BY DEF FireTimer, MarkFailed
<1>5. /\ stack' = FailCalls(v) => stack' # <<>> /\ Top'.op \in {"finish", "poke"}
      /\ stack' = <<UnitCall("do_start", v), Process>> =>
           stack' # <<>> /\ Top'.op = "do_start" /\ Top'.unit = v
      /\ stack' = <<UnitCall("finalize", v)>> =>
           stack' # <<>> /\ Top'.op = "finalize" /\ Top'.unit = v
  BY DEF FailCalls, Finish, Poke, UnitCall, Frm, Top
<1>6. CASE v # u
  <2>1. units'[u] = units[u]
    BY <1>4, <1>6 DEF TypeOK
  <2>2. stack' # <<>> /\ Top'.unit = u => Top'.op \notin StepOps
    BY <1>1, <1>5, <1>6 DEF FireTimer, StepOps
  <2> QED BY <1>1, <1>2, <2>1, <2>2, EventEnds DEF StepOps
<1>7. CASE v = u /\ kind = "RestartDelay" /\ units[u].sub = "auto-restart"
  <2>1. UNCHANGED units /\ Top'.op = "do_start"
    BY <1>5, <1>7 DEF FireTimer
  <2>2. ~shutting_down
    BY <1>1, <1>7 DEF EndInv, Ending, Sinking
  <2> QED BY <1>1, <1>2, <2>1, <2>2, EventEnds
<1>8. CASE v = u /\ kind = "StartTimeout" /\ units[u].active = "activating"
  <2>1. ~Staged(u)
    BY <1>1, <1>2, <1>8 DEF OwnUnit, Tidy, Standalone
  <2>2. Watched(u) = {}
    <3>1. CASE u \in Targets
      BY <1>2, <3>1 DEF OwnUnit, Watched
    <3>2. CASE u \notin Targets
      BY <1>8, <2>1, <3>2 DEF Tidy, EndInv, Accounted
    <3> QED BY <3>1, <3>2
  <2>3. /\ stack' = FailCalls(u) /\ units' = [units EXCEPT ![u] = Set(@, "failed", "failed")]
    BY <1>8 DEF FireTimer, MarkFailed
  <2>4. units'[u].control_pid = units[u].control_pid
    <3>1. units'[u] = Set(units[u], "failed", "failed")
      BY <2>3 DEF TypeOK
    <3> QED BY <1>2, <3>1, SetKeeps DEF ActiveState, SubState
  <2>5. Top'.op \in {"finish", "poke"}
    BY <1>5, <1>8, <2>3
  <2>6. Watched(u)' = {}
    BY <1>3, <2>2
  <2> QED BY <1>1, <1>2, <2>4, <2>5, <2>6, EventEnds
<1>9. CASE v = u /\ kind = "StopTimeout" /\ units[u].active = "deactivating"
  <2>1. UNCHANGED units /\ procs' = Signalled(Tree(u), "killed") /\ Top'.op = "finalize"
    BY <1>5, <1>9 DEF FireTimer
  <2>2. u \in StopTimeouts /\ UseCgroup /\ Plain(u)
    BY <1>1, <1>2, <1>9 DEF OwnUnit, Tidy, Standalone
  <2>3. Watched(u)' = {}
    <3> SUFFICES ASSUME NEW p \in Watched(u)' PROVE FALSE
      OBVIOUS
    <3>1. p \in Watched(u) /\ p \in Pids /\ procs'[p].st \in {"running", "termed"}
      BY <1>3, <2>2 DEF Watched, Unreaped
    <3>2. u \notin Targets
      BY <1>2, <3>1 DEF OwnUnit, Watched
    <3>3. units[u].cgroup
      BY <2>2, <3>1, <3>2 DEF EndInv, Accounted
    <3>4. procs[p].unit = u /\ procs[p].st \in {"running", "termed"}
      BY <2>2, <3>1 DEF Watched, Unreaped
    <3>5. p \in Tree(u)
      BY <3>1, <3>3, <3>4 DEF Tree, Alive
    <3>6. procs'[p] = [procs[p] EXCEPT !.st = "killed"]
      BY <2>1, <3>1, <3>4, <3>5 DEF Signalled
    <3>7. procs'[p].st = "killed"
      BY <3>1, <3>6 DEF TypeOK, Proc
    <3> QED BY <3>1, <3>7
  <2> QED BY <1>1, <1>2, <2>1, <2>3, EventEnds
<1>10. CASE UNCHANGED <<units, procs, stack>>
  BY <1>1, <1>2, <1>10, EventEnds
<1> QED BY <1>6, <1>7, <1>8, <1>9, <1>10 DEF FireTimer

\* What reaping a child leaves of the others.
LEMMA ReapFewer ==
  ASSUME TypeOK, NEW p \in Pids, NEW v \in Units, procs[p].unit = v, NEW exit, NEW ps,
         ps = [procs EXCEPT ![p] = [st |-> "free", unit |-> NoUnit]],
         NEW u \in Units,
         \/ ControlExit(v, ps, exit)
         \/ u # v /\ \E d \in Pids \ {p} : ForkedDaemon(v, ps, d)
         \/ MainExit(v, ps, exit)
  PROVE  Fewer(u)
<1>1. /\ procs \in [Pids -> Proc] /\ ps[p] = [st |-> "free", unit |-> NoUnit]
      /\ NoUnit \notin Units
      /\ \A q \in Pids : q # p => ps[q] = procs[q]
  BY UnitsAssumption DEF TypeOK
<1>2. CASE ControlExit(v, ps, exit)
  <2>1. procs' = ps
    BY <1>2 DEF ControlExit
  <2> QED BY <1>1, <2>1 DEF Fewer
<1>3. CASE MainExit(v, ps, exit)
  <2> DEFINE S == Swept(v, ps)
  <2>1. procs' = [q \in Pids |-> IF q \in S /\ ps[q].st \in Alive
                                          THEN [ps[q] EXCEPT !.st = "killed"] ELSE ps[q]]
    BY <1>3 DEF MainExit
  <2> HIDE DEF S
  <2>2. ASSUME NEW q \in Pids
        PROVE  \/ procs'[q] = ps[q]
               \/ /\ q # p /\ procs'[q].unit = procs[q].unit /\ procs'[q].st = "killed"
                  /\ procs[q].st # "free"
    <3>1. CASE q \in S /\ ps[q].st \in Alive
      <4>1. q # p
        BY <1>1, <3>1 DEF Alive
      <4>2. procs'[q] = [procs[q] EXCEPT !.st = "killed"] /\ procs[q].st # "free"
        BY <1>1, <2>1, <3>1, <4>1 DEF Alive
      <4> QED BY <1>1, <4>1, <4>2 DEF Proc
    <3>2. CASE ~(q \in S /\ ps[q].st \in Alive)
      BY <2>1, <3>2
    <3> QED BY <3>1, <3>2
  <2> QED BY <1>1, <2>2 DEF Fewer
<1>4. ASSUME u # v, NEW d \in Pids \ {p}, ForkedDaemon(v, ps, d)
      PROVE  Fewer(u)
  <2>1. procs' = [ps EXCEPT ![d] = [st |-> "running", unit |-> v]]
    BY <1>4 DEF ForkedDaemon
  <2>2. /\ procs'[d].unit = v
        /\ \A q \in Pids : q # d => procs'[q] = ps[q]
    BY <1>1, <2>1
  <2> QED BY <1>1, <1>4, <2>2 DEF Fewer
<1> QED BY <1>2, <1>3, <1>4

\* The exit of the process of a plain service: it was the only one, or the others are
\* swept away with it.
LEMMA MainEnds ==
  ASSUME TypeOK, NEW u \in Units, Tidy(u), EndInv(u), Plain(u), u \notin Targets, stack = <<>>,
         NEW p \in Pids, procs[p].unit = u, procs[p].st # "free", NEW exit, NEW ps,
         ps = [procs EXCEPT ![p] = [st |-> "free", unit |-> NoUnit]],
         MainExit(u, ps, exit), UNCHANGED engineVars, UNCHANGED <<shutting_down, status>>
  PROVE  EndInv(u)'
<1>1. /\ Fewer(u) /\ Unreaped(u)' = Unreaped(u) \ {p} /\ p \in Unreaped(u)
      /\ Accounted(u) /\ ServiceType[u] = "simple"
  BY ReapFewer, ReapedChildren DEF Unreaped, EndInv, Plain
<1>2. Watched(u)' \subseteq Watched(u)
  BY <1>1, FewerWatched
<1>3. Watched(u)' = {}
  <2>1. CASE u \notin StopTimeouts
    BY <1>1, <2>1 DEF Accounted, Watched
  <2>2. CASE u \in StopTimeouts
    <3> SUFFICES ASSUME NEW q \in Watched(u)' PROVE FALSE
      OBVIOUS
    <3>1. /\ q \in Pids /\ q # p /\ procs'[q].st \in {"running", "termed"}
          /\ q = units[u].group_pid /\ units[u].active \in {"active", "deactivating"}
          /\ units[u].cgroup /\ procs[q].unit = u /\ procs[q].st \in {"running", "termed"}
      BY <1>1, <1>2, <2>2 DEF Accounted, Watched, Unreaped, Tidy
    <3>2. ps[q] = procs[q]
      BY <3>1 DEF TypeOK
    <3>3. q \in Swept(u, ps)
      BY <1>1, <3>1, <3>2 DEF Swept
    <3>4. procs'[q] = [ps[q] EXCEPT !.st = "killed"]
      BY <3>1, <3>2, <3>3 DEF MainExit, Alive
    <3>5. procs'[q].st = "killed"
      BY <3>1, <3>2, <3>4 DEF TypeOK, Proc
    <3> QED BY <3>1, <3>5
  <2> QED BY <2>1, <2>2
<1> DEFINE rec == MainGone(units[u])
<1>4. rec \in UnitRec /\ rec.control_pid = units[u].control_pid
  <2>1. units[u] \in UnitRec
    BY DEF TypeOK
  <2> QED BY <2>1, GoneRecord DEF MainGone, UnitRec
<1>5. shutting_down /\ u \notin StopTimeouts => units[u].active = "deactivating"
  BY <1>1 DEF EndInv, Ending, Watched, Sought, Pending
<1>6. u \in StopTimeouts => Restart[u] = "no"
  BY DEF Tidy
<1>7. units[u].active = "deactivating" \/ ~Policy(u, exit) => UNCHANGED armed
  BY DEF MainExit, HandleActiveExit
<1>8. <<u, "RestartDelay">> \in armed' => <<u, "RestartDelay">> \in armed \/ ~shutting_down
  BY <1>5, <1>6, <1>7 DEF Policy
<1>9. \/ stack' = <<UnitCall("finalize", u)>> \/ stack' = <<>> \/ stack' = FailCalls(u)
      \/ stack' = CompleteStart(u) \/ stack' = <<Poke(u)>>
      \/ stack' = <<Poke(u), Loop("on_failure", u, 0, OnFailure[u], {})>>
  BY DEF MainExit, HandleActiveExit
<1>10. stack' # <<>> => Top'.op \in {"finalize", "finish", "poke"}
  BY <1>9 DEF FailCalls, CompleteStart, Finish, Poke, UnitCall, Frm, Top
<1>11. \E r : /\ units' = [units EXCEPT ![u] = r]
              /\ \/ r = rec
                 \/ \E active \in ActiveState : \E sub \in SubState :
                      \/ r = Set(rec, active, sub)
                      \/ \E n : r = [Set(rec, active, sub) EXCEPT !.start_window = n]
  <2>1. /\ {"inactive", "failed", "activating", "active"} \subseteq ActiveState
        /\ {"dead", "failed", "auto-restart", "exited"} \subseteq SubState
    BY DEF ActiveState, SubState
  <2>2. Ended(rec, u) = Set(rec, "active", "exited") \/ Ended(rec, u) = Set(rec, "inactive", "dead")
    BY DEF Ended
  <2>3. \/ units' = [units EXCEPT ![u] = rec]
        \/ units' = [units EXCEPT ![u] = Ended(rec, u)]
        \/ units' = [units EXCEPT ![u] = Set(rec, "inactive", "dead")]
        \/ units' = [units EXCEPT ![u] = Set(rec, "failed", "failed")]
        \/ \E n : units' = [units EXCEPT ![u] = [Set(rec, "failed", "failed") EXCEPT !.start_window = n]]
        \/ \E n : units' = [units EXCEPT ![u] = [Set(rec, "activating", "auto-restart") EXCEPT !.start_window = n]]
    BY DEF MainExit, HandleActiveExit
  <2> DEFINE Shape(r) ==
             \/ r = rec
             \/ \E active \in ActiveState : \E sub \in SubState :
                  \/ r = Set(rec, active, sub)
                  \/ \E n : r = [Set(rec, active, sub) EXCEPT !.start_window = n]
  <2> HIDE DEF rec
  <2>4. Shape(rec)
    OBVIOUS
  <2>5. \A active \in ActiveState : \A sub \in SubState :
          /\ Shape(Set(rec, active, sub))
          /\ \A n : Shape([Set(rec, active, sub) EXCEPT !.start_window = n])
    OBVIOUS
  <2>6. /\ Shape(Set(rec, "active", "exited")) /\ Shape(Set(rec, "inactive", "dead"))
        /\ Shape(Set(rec, "failed", "failed"))
        /\ \A n : /\ Shape([Set(rec, "failed", "failed") EXCEPT !.start_window = n])
                 /\ Shape([Set(rec, "activating", "auto-restart") EXCEPT !.start_window = n])
    <3> HIDE DEF Shape
    <3> QED BY <2>1, <2>5
  <2>7. Shape(Ended(rec, u))
    <3> HIDE DEF Shape
    <3> QED BY <2>2, <2>6
  <2>8. \E r : units' = [units EXCEPT ![u] = r] /\ Shape(r)
    <3> HIDE DEF Shape
    <3> QED BY <2>3, <2>4, <2>6, <2>7
  <2> QED BY <2>8
<1>12. units'[u].control_pid = units[u].control_pid
  <2> HIDE DEF rec
  <2>1. ASSUME NEW active \in ActiveState, NEW sub \in SubState, NEW r, NEW n,
               r = Set(rec, active, sub) \/ r = [Set(rec, active, sub) EXCEPT !.start_window = n]
        PROVE  r.control_pid = units[u].control_pid
    <3> DEFINE s == Set(rec, active, sub)
    <3>1. s \in UnitRec /\ s.control_pid = units[u].control_pid
      BY <1>4, SetFields, SetKeeps
    <3>2. r = s \/ r = [s EXCEPT !.start_window = n]
      BY <2>1
    <3> HIDE DEF s
    <3> QED BY <3>1, <3>2 DEF UnitRec
  <2>2. PICK r : /\ units' = [units EXCEPT ![u] = r]
                 /\ \/ r = rec
                    \/ \E active \in ActiveState : \E sub \in SubState :
                         \/ r = Set(rec, active, sub)
                         \/ \E n : r = [Set(rec, active, sub) EXCEPT !.start_window = n]
    BY <1>11
  <2>3. r.control_pid = units[u].control_pid
    BY <1>4, <2>1, <2>2
  <2>4. units'[u] = r
    BY <2>2 DEF TypeOK
  <2> QED BY <2>3, <2>4
<1> HIDE DEF rec
<1> QED BY <1>1, <1>3, <1>8, <1>10, <1>12, EventEnds DEF engineVars

\* The exit of the only process of a unit with a starting phase.
LEMMA StagedEnds ==
  ASSUME TypeOK, NEW u \in Units, Tidy(u), LoneInv(u), EndInv(u), Staged(u), stack = <<>>,
         NEW p \in Pids, procs[p].unit = u, procs[p].st # "free", NEW exit, NEW ps,
         ps = [procs EXCEPT ![p] = [st |-> "free", unit |-> NoUnit]],
         ControlExit(u, ps, exit) \/ MainExit(u, ps, exit),
         UNCHANGED engineVars, UNCHANGED <<shutting_down, status>>
  PROVE  EndInv(u)'
<1>1. /\ Fewer(u) /\ Unreaped(u)' = Unreaped(u) \ {p} /\ p \in Unreaped(u)
  BY ReapFewer, ReapedChildren DEF Unreaped
<1>2. Watched(u)' = {}
  BY <1>1 DEF LoneInv, OwnUnit, Watched
<1>3. /\ u \notin StopTimeouts /\ ~Plain(u) /\ Restart[u] = "no"
  BY DEF Tidy, Standalone, Staged
<1>4. shutting_down => units[u].active = "deactivating"
  BY <1>1, <1>3 DEF EndInv, Ending, Watched, Sought, Pending
<1>5. UNCHANGED armed
  BY <1>3 DEF ControlExit, MainExit, HandleActiveExit, Policy
<1>6. units[u].active = "deactivating" => stack' = <<>> \/ stack' = <<UnitCall("finalize", u)>>
  BY DEF ControlExit, MainExit
<1>7. shutting_down => (stack' # <<>> => Top'.op = "finalize")
  BY <1>4, <1>6 DEF UnitCall, Frm, Top
<1> QED BY <1>1, <1>2, <1>3, <1>5, <1>7, EventEnds DEF engineVars

\* reap of one child.
LEMMA ReapEnds ==
  ASSUME TypeOK, NEW u \in Units, Tidy(u), LoneInv(u), EndInv(u), NEW p \in Pids, Reap(p)
  PROVE  EndInv(u)'
<1> DEFINE v == procs[p].unit
           exit == procs[p].st
           ps == [procs EXCEPT ![p] = [st |-> "free", unit |-> NoUnit]]
<1>1. /\ stack = <<>> /\ exit \in Exits /\ exit # "free" /\ v \in Units
  BY DEF Reap, Quiescent, Exits, TypeOK, Proc
<1>2. CASE Panic
  BY <1>2, NothingEnds DEF Panic
<1>3. ASSUME ~Panic
      PROVE  /\ IF units[v].control_pid = p
                THEN \/ ControlExit(v, ps, exit)
                     \/ \E d \in Pids \ {p} : ForkedDaemon(v, ps, d)
                ELSE MainExit(v, ps, exit)
             /\ UNCHANGED engineVars /\ UNCHANGED <<shutting_down, status>>
  BY <1>3 DEF Reap
<1>4. CASE ~Panic /\ v # u
  <2> DEFINE final == UnitCall("finalize", v)
             next == units[v].cmd_index + 1
             h == Loop("on_failure", v, 0, OnFailure[v], {})
  <2>1. \/ ControlExit(v, ps, exit)
        \/ \E d \in Pids \ {p} : ForkedDaemon(v, ps, d)
        \/ MainExit(v, ps, exit)
    BY <1>3, <1>4
  <2>2. \E r : units' = [units EXCEPT ![v] = r]
    <3>1. CASE ControlExit(v, ps, exit)
      BY <3>1 DEF ControlExit
    <3>2. CASE \E d \in Pids \ {p} : ForkedDaemon(v, ps, d)
      BY <3>2 DEF ForkedDaemon
    <3>3. CASE MainExit(v, ps, exit)
      BY <3>3 DEF MainExit, HandleActiveExit
    <3> QED BY <2>1, <3>1, <3>2, <3>3
  <2>3. armed' \subseteq armed \cup {<<v, "RestartDelay">>}
    BY <2>1 DEF ControlExit, ForkedDaemon, MainExit, HandleActiveExit
  <2>4. \/ stack' = <<>> \/ stack' = <<final>>
        \/ stack' = <<Spawn(v, "Start", 0)>> \/ stack' = <<Spawn(v, "Start", next)>>
        \/ stack' = <<Spawn(v, "StartPost", 0)>> \/ stack' = FailCalls(v)
        \/ stack' = CompleteStart(v) \/ stack' = <<Poke(v)>> \/ stack' = <<Poke(v), h>>
    BY <2>1 DEF ControlExit, ForkedDaemon, MainExit, HandleActiveExit
  <2>5. stack' # <<>> => Top'.unit = v \/ Top'.op \in {"finish", "poke"}
    BY <2>4 DEF UnitCall, Spawn, FailCalls, CompleteStart, Finish, Poke, Frm, Top
  <2> HIDE DEF ps, exit, final, next, h
  <2>6. Fewer(u)
    BY <1>1, <1>4, <2>1, ReapFewer DEF ps
  <2>7. units'[u] = units[u]
    BY <1>4, <2>2 DEF TypeOK
  <2>8. <<u, "RestartDelay">> \in armed' => <<u, "RestartDelay">> \in armed
    BY <1>4, <2>3
  <2> QED BY <1>1, <1>3, <1>4, <2>5, <2>6, <2>7, <2>8, EventEnds DEF engineVars
<1>5. CASE ~Panic /\ v = u
  <2>1. u \notin Targets
    BY <1>1, <1>5 DEF LoneInv, OwnUnit, Unreaped
  <2>2. CASE Plain(u)
    <3>1. units[u].control_pid # p
      BY <2>1, <2>2, UnitsAssumption DEF EndInv, Accounted
    <3>2. MainExit(u, ps, exit) /\ UNCHANGED engineVars /\ UNCHANGED <<shutting_down, status>>
      BY <1>3, <1>5, <3>1
    <3> HIDE DEF ps, exit
    <3> QED BY <1>1, <1>5, <2>1, <2>2, <3>2, MainEnds DEF ps, exit
  <2>3. CASE Staged(u)
    <3>1. \A d : ~ForkedDaemon(u, ps, d)
      BY <2>3 DEF ForkedDaemon, Staged
    <3>2. ControlExit(u, ps, exit) \/ MainExit(u, ps, exit)
      BY <1>3, <1>5, <3>1
    <3>3. UNCHANGED engineVars /\ UNCHANGED <<shutting_down, status>>
      BY <1>3, <1>5
    <3> HIDE DEF ps, exit
    <3> QED BY <1>1, <1>5, <2>3, <3>2, <3>3, StagedEnds DEF ps, exit
  <2> QED BY <2>2, <2>3 DEF Tidy
<1> QED BY <1>2, <1>4, <1>5

-----------------------------------------------------------------------------
(* The theorem about the end of a shutdown.                                *)

\* No unit has a process or is stopped when the manager starts.
LEMMA InitEnd ==
  ASSUME Init, NEW u \in Units
  PROVE  EndInv(u)
<1>1. /\ stack = <<>> /\ ~shutting_down /\ status = "running"
      /\ units[u].control_pid = NoPid
      /\ \A p \in Pids : procs[p].st = "free"
  BY DEF Init, Idle, NewUnit
<1>2. Watched(u) = {}
  BY <1>1 DEF Watched, Unreaped
<1> QED BY <1>1, <1>2 DEF EndInv, Accounted, Ending

\* Every step of the manager.
LEMMA NextEnd ==
  ASSUME TypeOK, IndexInv, IndexInv', OrdinaryRequests, "restart" \notin Requests,
         LoneUnits, DirectCalls, ShutdownInv, EndUnits, [Next]_managerVars
  PROVE  EndUnits'
<1> SUFFICES ASSUME NEW u \in Units, Tidy(u), EndInv(u)
             PROVE  EndInv(u)'
  BY DEF EndUnits, Tidy, Standalone, Unrelated, Staged, Plain
<1>1. LoneInv(u)
  BY DEF LoneUnits, Tidy
<1>2. CASE RequestNext
  BY <1>1, <1>2, RequestEnds
<1>3. CASE EventNext
  <2>1. ASSUME NEW v \in Units, NEW kind \in TimerKinds, FireTimer(v, kind)
        PROVE  EndInv(u)'
    BY <1>1, <2>1, FireTimerEnds
  <2>2. ASSUME NEW p \in Pids, Reap(p)
        PROVE  EndInv(u)'
    BY <1>1, <2>2, ReapEnds
  <2> QED BY <1>1, <1>3, <2>1, <2>2, OtherEventEnds DEF EventNext
<1>4. CASE CallNext
  BY <1>1, <1>4, CallEnds
<1>5. CASE UNCHANGED managerVars
  <2>1. /\ UNCHANGED <<units, jobs, unit_job, armed, procs, stack, shutting_down>>
        /\ status' = status
    BY <1>5 DEF managerVars, vars
  <2> QED BY <2>1, NothingEnds
<1> QED BY <1>2, <1>3, <1>4, <1>5 DEF Next

\* A unit whose stop reaches all of its processes has left none of them running, or
\* only asked to end, when the manager exits: a stop that is still to be made, or one
\* under way, ends each of them first, and once shutdown has begun nothing starts the
\* unit again.  The other units may be anything.
THEOREM TidyUnitsEnd ==
  ASSUME OrdinaryRequests, "restart" \notin Requests
  PROVE  Spec => [](status = "exited" =>
                      \A p \in Pids : procs[p].unit \in Units /\ Tidy(procs[p].unit) =>
                                        procs[p].st \notin {"running", "termed"})
<1> DEFINE Gone == status = "exited" =>
                      \A p \in Pids : procs[p].unit \in Units /\ Tidy(procs[p].unit) =>
                                        procs[p].st \notin {"running", "termed"}
<1>1. Requests \cap {"restart", "start-ignore-dependencies"} = {}
  BY DEF OrdinaryRequests
<1>2. Spec => [](TypeOK /\ IndexInv)
  BY TypeCorrect, InitIndex, NextIndex, PTL DEF Spec
<1>3. Spec => []LoneUnits
  BY StandaloneInvariant
<1>4. Spec => []MoveInv
  <2>1. TypeOK /\ NoStalePid /\ MoveInv /\ [Next]_managerVars => MoveInv'
    BY NextMoves
  <2> QED BY <2>1, InitMoves, TypeCorrect, NoStalePidCorrect, PTL DEF Spec
<1>5. Spec => []ShutdownInv
  <2>1. /\ Init => ShutdownInv
        /\ TypeOK /\ ShutdownInv /\ [Next]_managerVars => ShutdownInv'
    BY <1>1, NextShutdown
  <2> QED BY <2>1, TypeCorrect, PTL DEF Spec
<1>6. Init => EndUnits
  BY InitEnd DEF EndUnits
<1>7. /\ TypeOK /\ IndexInv /\ IndexInv' /\ LoneUnits /\ MoveInv /\ ShutdownInv /\ EndUnits
      /\ [Next]_managerVars
      => EndUnits'
  BY NextEnd DEF MoveInv
<1>8. Spec => []EndUnits
  BY <1>2, <1>3, <1>4, <1>5, <1>6, <1>7, PTL DEF Spec
<1>9. EndUnits => Gone
  BY DEF EndUnits, EndInv, Ending, Watched, Unreaped
<1> QED BY <1>8, <1>9, PTL

\* Where every unit is such a unit, a finished shutdown leaves nothing running.
THEOREM NothingLeftRunningCorrect ==
  ASSUME OrdinaryRequests, "restart" \notin Requests, \A u \in Units : Tidy(u)
  PROVE  Spec => []NothingLeftRunning
<1> DEFINE Gone == status = "exited" =>
                      \A p \in Pids : procs[p].unit \in Units /\ Tidy(procs[p].unit) =>
                                        procs[p].st \notin {"running", "termed"}
<1>1. TypeOK /\ Gone => NothingLeftRunning
  <2> SUFFICES ASSUME TypeOK, Gone, status = "exited", NEW p \in Pids,
                      procs[p].st \in {"running", "termed"}
               PROVE  FALSE
    BY DEF NothingLeftRunning
  <2>1. procs[p] \in Proc
    BY DEF TypeOK
  <2>2. procs[p].unit \in Units
    BY <2>1 DEF Proc
  <2> QED BY <2>2
<1> QED BY <1>1, TypeCorrect, TidyUnitsEnd, PTL
=============================================================================
