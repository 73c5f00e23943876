----------------------------- MODULE TimerWheel -----------------------------
(***************************************************************************)
(* The manager's timer wheel (manager/timer.rs) driven by the event loop   *)
(* of Manager::run: a heap of (when, id) slots beside a map from id to the *)
(* live entry.  Cancelling removes the entry and leaves its slot, so the   *)
(* heap holds stale slots that next_deadline and pop_due have to skip.     *)
(*                                                                         *)
(* Time is a natural number.  One turn of the loop is: tick (pop_due, then *)
(* fire the popped batch one entry at a time), ask for the next deadline,  *)
(* sleep in poll(2), run the handlers that became ready.                   *)
(***************************************************************************)
EXTENDS Naturals, Sequences, FiniteSets

CONSTANTS
  Services,   \* units with StartTimeout, StopTimeout and RestartDelay entries
  Timers,     \* .timer units, with calendar and monotonic entries
  MaxPoll,    \* MAX_POLL_MS, the cap on one poll
  MaxTime,    \* bound: the clock stops here
  MaxIds,     \* bound: entries scheduled between two resets of the wheel
  None        \* no deadline

ASSUME TimerWheelAssumption ==
  /\ MaxPoll \in Nat \ {0}
  /\ MaxTime \in Nat
  /\ MaxIds \in Nat
  /\ Services \cap Timers = {}
  /\ None \notin Nat

VARIABLES
  heap,           \* set of <<when, id>>: BinaryHeap<Reverse<(Instant, u64)>>
  entries,        \* id -> [when, kind, unit]
  next_id,
  now,
  batch,          \* what pop_due returned and tick has not fired yet
  deadline,       \* what next_deadline last returned
  pc,             \* where the event loop is
  todo,           \* timer units still to be re-armed
  shutting_down

vars == <<heap, entries, next_id, now, batch, deadline, pc, todo, shutting_down>>
wheel == <<heap, entries, next_id>>

TimeoutKinds == {"StartTimeout", "StopTimeout"}
ServiceTimerKinds == {"CalendarElapse", "MonotonicElapse"}
TimerKind == TimeoutKinds \cup ServiceTimerKinds \cup {"RestartDelay"}
Units == Services \cup Timers
TimerEntry == [when : Nat, kind : TimerKind, unit : Units]

TypeOK ==
  /\ heap \subseteq Nat \X Nat
  /\ DOMAIN entries \subseteq Nat
  /\ \A i \in DOMAIN entries : entries[i] \in TimerEntry
  /\ next_id \in Nat
  /\ now \in Nat
  /\ DOMAIN batch \subseteq Nat
  /\ \A i \in DOMAIN batch : batch[i] \in TimerEntry
  /\ deadline \in Nat \cup {None}
  /\ pc \in {"tick", "fire", "sleep", "handle"}
  /\ todo \subseteq Timers
  /\ shutting_down \in BOOLEAN

-----------------------------------------------------------------------------
(* The operations of the wheel, as functions of its contents.              *)

\* schedule, of each of `new` in turn, on the entries that `kept` leaves
Schedule(kept, new) ==
  LET ids == next_id + 1 .. next_id + Len(new) IN
  /\ next_id + Len(new) <= MaxIds
  /\ next_id' = next_id + Len(new)
  /\ heap' = heap \cup {<<new[i - next_id].when, i>> : i \in ids}
  /\ entries' = [i \in kept \cup ids |->
                   IF i \in ids THEN new[i - next_id] ELSE entries[i]]

Entry(when, kind, unit) == [when |-> when, kind |-> kind, unit |-> unit]

\* The ids that survive cancel_by_unit and cancel_by_kind
KeptByUnit(u) == {i \in DOMAIN entries : entries[i].unit # u}

\* Mutant: nothing is cancelled
KeptByKindAll(u, k) == DOMAIN entries

KeptByKind(u, k) ==
  {i \in DOMAIN entries : ~(entries[i].unit = u /\ entries[i].kind = k)}

\* Mutant: strict, a slot is not before itself
BeforeStrict(when, id, when2, id2) == when < when2

\* The order of the heap: by deadline, then by id
Before(when, id, when2, id2) ==
  \/ when < when2
  \/ /\ when = when2
     /\ id <= id2

\* The slots next_deadline leaves: stale ones ahead of the first live one go
PrunedHeap ==
  {s \in heap : \E t \in heap : /\ t[2] \in DOMAIN entries
                                /\ Before(t[1], t[2], s[1], s[2])}

\* next_deadline: the time of the first live slot
NextDeadline ==
  IF PrunedHeap = {} THEN None
  ELSE (CHOOSE s \in PrunedHeap : \A t \in PrunedHeap : s[1] <= t[1])[1]

\* Mutants: one too early, one too late
DueIdsEarly == {s[2] : s \in {t \in heap : t[1] <= now + 1}} \cap DOMAIN entries
DueIdsLate == {s[2] : s \in {t \in heap : t[1] < now}} \cap DOMAIN entries

DueIds == {s[2] : s \in {t \in heap : t[1] <= now}} \cap DOMAIN entries

has_service_timers ==
  \E i \in DOMAIN entries : entries[i].kind \in ServiceTimerKinds

-----------------------------------------------------------------------------
Init ==
  /\ heap = {}
  /\ entries = [i \in {} |-> i]
  /\ next_id = 0
  /\ now = 0
  /\ batch = [i \in {} |-> i]
  /\ deadline = None
  /\ pc = "tick"
  /\ todo = {}
  /\ shutting_down = FALSE

\* tick, first half: take every due entry out of the wheel
PopDue ==
  /\ pc = "tick"
  /\ todo = {}
  /\ heap' = {s \in heap : s[1] > now}
  /\ batch' = [i \in DueIds |-> entries[i]]
  /\ entries' = [i \in DOMAIN entries \ DueIds |-> entries[i]]
  /\ pc' = "fire"
  /\ UNCHANGED <<next_id, now, deadline, todo, shutting_down>>

\* What a handler may do to the wheel.  arm_start_timeout, arm_stop_timeout:
ArmTimeout(u, k) ==
  \E when \in now .. MaxTime : Schedule(KeptByKind(u, k), <<Entry(when, k, u)>>)

\* handle_active_exit schedules a restart without cancelling an older one
ArmRestart(u) ==
  \E when \in now .. MaxTime :
    Schedule(DOMAIN entries, <<Entry(when, "RestartDelay", u)>>)

\* Mutant: also while shutting down
NextElapseAlways(u, kind, earliest) ==
  {<<>>} \cup {<<Entry(when, kind, u)>> : when \in earliest .. MaxTime}

\* rearm_timer: drop the unit's deadlines; unless shutting down, arm the next
\* calendar elapse (at least one second ahead) and the next monotonic one, if
\* the unit has them
NextElapse(u, kind, earliest) ==
  {<<>>} \cup (IF shutting_down THEN {}
              ELSE {<<Entry(when, kind, u)>> : when \in earliest .. MaxTime})

RearmTimer(u) ==
  \E calendar \in NextElapse(u, "CalendarElapse", now + 1),
     monotonic \in NextElapse(u, "MonotonicElapse", now) :
    Schedule(KeptByUnit(u), calendar \o monotonic)

Effect ==
  \/ \E u \in Services, k \in TimeoutKinds : ArmTimeout(u, k)
  \/ \E u \in Services : ArmRestart(u)
  \/ \E u \in Timers : RearmTimer(u)
  \/ UNCHANGED wheel

\* tick, second half: fire one popped entry, earliest first
Fire ==
  /\ pc = "fire"
  /\ \E i \in DOMAIN batch :
       /\ \A j \in DOMAIN batch : Before(batch[i].when, i, batch[j].when, j)
       /\ batch' = [j \in DOMAIN batch \ {i} |-> batch[j]]
       /\ IF batch[i].unit \in Timers THEN RearmTimer(batch[i].unit) ELSE Effect
  /\ UNCHANGED <<now, deadline, pc, todo, shutting_down>>

\* The batch is done: the loop asks how long it may sleep
Deadline ==
  /\ pc = "fire"
  /\ DOMAIN batch = {}
  /\ heap' = PrunedHeap
  /\ deadline' = NextDeadline
  /\ pc' = "sleep"
  /\ UNCHANGED <<entries, next_id, now, batch, todo, shutting_down>>

\* Mutant: polls for the full interval
WakeByPoll == now + MaxPoll

\* poll returns at the latest when its timeout does
WakeBy == IF deadline = None \/ deadline > now + MaxPoll THEN now + MaxPoll
          ELSE IF deadline > now THEN deadline ELSE now

Wake ==
  /\ pc = "sleep"
  /\ \E t \in now .. WakeBy : t <= MaxTime /\ now' = t
  /\ pc' = "handle"
  /\ UNCHANGED <<heap, entries, next_id, batch, deadline, todo, shutting_down>>

\* The ready handlers: requests, notifications, reaped children.  One that
\* starts or ends a unit goes on to timer_dep_check, over every timer unit.
Handle ==
  /\ pc = "handle"
  /\ todo = {}
  /\ Effect
  /\ pc' \in {"handle", "tick"}
  /\ todo' \in {{}, Timers}
  /\ UNCHANGED <<now, batch, deadline, shutting_down>>

\* timer_dep_check and rearm_all_timers, one timer unit at a time
Rearm ==
  /\ \E u \in todo : RearmTimer(u) /\ todo' = todo \ {u}
  /\ UNCHANGED <<now, batch, deadline, pc, shutting_down>>

\* Mutant: the heap keeps its slots
ResetEntries ==
  /\ entries' = [i \in {} |-> i]
  /\ next_id' = 0
  /\ UNCHANGED heap

Reset ==
  /\ heap' = {}
  /\ entries' = [i \in {} |-> i]
  /\ next_id' = 0

\* load_all, through rearm_all_timers, starts from an empty wheel
Reload ==
  /\ pc = "handle"
  /\ todo = {}
  /\ Reset
  /\ todo' = Timers
  /\ UNCHANGED <<now, batch, deadline, pc, shutting_down>>

\* Manager::shutdown empties the wheel before it stops the units
Shutdown ==
  /\ pc = "handle"
  /\ todo = {}
  /\ ~shutting_down
  /\ shutting_down' = TRUE
  /\ Reset
  /\ UNCHANGED <<now, batch, deadline, pc, todo>>

Next ==
  PopDue \/ Fire \/ Deadline \/ Wake \/ Handle \/ Rearm \/ Reload \/ Shutdown

Spec == Init /\ [][Next]_vars

(***************************************************************************)
(* The loop never stops turning, a turn handles finitely many events, and   *)
(* the clock advances: a poll that keeps returning early cannot hold it.   *)
(***************************************************************************)
Fairness ==
  /\ WF_vars(PopDue) /\ WF_vars(Fire) /\ WF_vars(Deadline) /\ WF_vars(Rearm)
  /\ WF_vars(Wake)
  /\ SF_vars(Handle /\ pc' = "tick")
  /\ SF_vars(Wake /\ now' > now)

FairSpec == Spec /\ Fairness

-----------------------------------------------------------------------------
(* Every live entry still has its slot in the heap.  Cancelling touches    *)
(* only the map and next_deadline only the heap; an entry without a slot   *)
(* would never fire: a start or stop that can hang for ever.               *)
HeapBacksEntries ==
  \A i \in DOMAIN entries : <<entries[i].when, i>> \in heap

(* Slots and entries are numbered by next_id, also across a reset of the   *)
(* wheel, so schedule never reuses the id of a slot that is still there    *)
(* and revives a stale slot for another deadline.                          *)
FreshIds ==
  /\ \A s \in heap : s[2] <= next_id
  /\ \A i \in DOMAIN entries : i <= next_id
  /\ \A s, t \in heap : s[2] = t[2] => s = t

(* Every kind but RestartDelay has at most one live deadline per unit,     *)
(* what arm_start_timeout, arm_stop_timeout and rearm_timer promise: a     *)
(* start timeout left over from an earlier start would shorten a later one.*)
OneDeadlinePerKind ==
  \A i, j \in DOMAIN entries :
    /\ entries[i].unit = entries[j].unit
    /\ entries[i].kind = entries[j].kind
    /\ entries[i].kind # "RestartDelay"
    => i = j

(* The two tables of the wheel, taken together, lose no deadline, revive    *)
(* none and hold none twice.                                               *)
WheelConsistent == HeapBacksEntries /\ FreshIds /\ OneDeadlinePerKind

(* The loop never sleeps past a deadline, whatever was cancelled, re-armed *)
(* or left stale in the heap before it went to sleep.                      *)
NeverOverdue ==
  \A i \in DOMAIN entries : entries[i].when >= now

(* No timer fires early: what pop_due returned was due.                    *)
BatchDue ==
  \A i \in DOMAIN batch : batch[i].when <= now

(* Once shutdown has begun no service timer is armed again, also not by an *)
(* entry popped earlier that fires now: idle() would never become true.    *)
NoServiceTimersInShutdown == shutting_down => ~has_service_timers

(* Every deadline that the bounded clock can reach is fired, cancelled or  *)
(* dropped by a reset: none stays in the wheel for ever.                   *)
DeadlinesServed ==
  \A i \in 1 .. MaxIds : i \in DOMAIN entries ~> i \notin DOMAIN entries
=============================================================================
