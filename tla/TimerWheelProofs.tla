-------------------------- MODULE TimerWheelProofs --------------------------
(***************************************************************************)
(* The timer wheel, for every number of units and entries: every deadline  *)
(* is backed by a slot, none fires early and none is slept past.           *)
(***************************************************************************)
EXTENDS TimerWheel, SequenceTheorems, WellFoundedInduction, NaturalsInduction, TLAPS

\* What the wheel itself keeps, whoever calls it
WheelInv ==
  /\ HeapBacksEntries
  /\ FreshIds
  /\ OneDeadlinePerKind
  /\ NeverOverdue
  /\ NoServiceTimersInShutdown

\* While the loop sleeps, next_deadline's answer is not later than any entry
SleepInv ==
  pc = "sleep" => \A i \in DOMAIN entries : deadline # None /\ deadline <= entries[i].when

WheelType ==
  /\ heap \subseteq Nat \X Nat
  /\ DOMAIN entries \subseteq Nat
  /\ \A i \in DOMAIN entries : entries[i] \in TimerEntry
  /\ next_id \in Nat

\* Entries that a caller may schedule once it has cancelled all but `kept'
Fits(kept, new) ==
  /\ kept \subseteq DOMAIN entries
  /\ new \in Seq(TimerEntry)
  /\ \A j \in 1 .. Len(new) :
       /\ new[j].when >= now
       /\ shutting_down => new[j].kind \notin ServiceTimerKinds
       /\ \A i \in kept : /\ entries[i].unit = new[j].unit
                          /\ entries[i].kind = new[j].kind
                          => new[j].kind = "RestartDelay"
  /\ \A j, k \in 1 .. Len(new) :
       /\ new[j].unit = new[k].unit /\ new[j].kind = new[k].kind
       /\ new[j].kind # "RestartDelay"
       => j = k

-----------------------------------------------------------------------------
(* schedule.                                                               *)

\* schedule puts an entry and its heap slot in together.
LEMMA ScheduleStep ==
  ASSUME TypeOK, WheelInv, NEW kept, NEW new, Fits(kept, new), Schedule(kept, new),
         UNCHANGED <<now, shutting_down>>
  PROVE  WheelType' /\ WheelInv'
<1> DEFINE n == Len(new)
           ids == next_id + 1 .. next_id + n
           e(i) == new[i - next_id]
<1>1. next_id \in Nat /\ n \in Nat /\ next_id' = next_id + n
  BY DEF TypeOK, Fits, Schedule
<1>2. \A i \in ids : i \in Nat /\ i - next_id \in 1 .. n /\ i > next_id
  BY <1>1
<1>3. \A i \in ids : e(i) \in TimerEntry
  BY <1>2, ElementOfSeq DEF Fits
<1>4. /\ DOMAIN entries' = kept \cup ids
      /\ \A i \in ids : entries'[i] = e(i)
      /\ \A i \in kept \ ids : entries'[i] = entries[i]
  BY DEF Schedule
<1>5. heap' = heap \cup {<<e(i).when, i>> : i \in ids}
  BY DEF Schedule
<1>6. kept \subseteq DOMAIN entries /\ kept \cap ids = {}
  BY <1>1, <1>2 DEF Fits, WheelInv, FreshIds, TypeOK
<1> HIDE DEF e, ids
<1>7. WheelType'
  <2>1. heap' \subseteq Nat \X Nat
    BY <1>2, <1>3, <1>5 DEF TypeOK, TimerEntry
  <2>2. DOMAIN entries' \subseteq Nat /\ \A i \in DOMAIN entries' : entries'[i] \in TimerEntry
    BY <1>2, <1>3, <1>4, <1>6 DEF TypeOK
  <2> QED BY <1>1, <2>1, <2>2 DEF WheelType
<1>8. HeapBacksEntries'
  BY <1>4, <1>5, <1>6 DEF HeapBacksEntries, WheelInv
<1>9. FreshIds'
  <2>1. \A i \in ids : i <= next_id' /\ i > next_id
    BY <1>1 DEF ids
  <2>2. \A s \in heap' : s \in heap \/ (s[2] \in ids /\ s = <<e(s[2]).when, s[2]>>)
    BY <1>5
  <2>3. \A s \in heap : s[2] \in Nat /\ s[2] <= next_id
    BY DEF WheelInv, FreshIds, TypeOK
  <2>4. \A s \in heap' : s[2] <= next_id'
    BY <1>1, <2>1, <2>2, <2>3
  <2>5. \A i \in DOMAIN entries' : i <= next_id'
    BY <1>1, <1>4, <1>6, <2>1 DEF WheelInv, FreshIds, TypeOK
  <2>6. \A s, t \in heap' : s[2] = t[2] => s = t
    BY <1>1, <1>2, <2>1, <2>2, <2>3 DEF WheelInv, FreshIds
  <2> QED BY <2>4, <2>5, <2>6 DEF FreshIds
<1>10. NeverOverdue'
  <2>1. \A i \in ids : e(i).when >= now
    BY <1>2 DEF Fits, e
  <2> QED BY <1>4, <1>6, <2>1 DEF NeverOverdue, WheelInv
<1>11. NoServiceTimersInShutdown'
  <2>1. shutting_down => \A i \in ids : e(i).kind \notin ServiceTimerKinds
    BY <1>2 DEF Fits, e
  <2> QED BY <1>4, <1>6, <2>1 DEF NoServiceTimersInShutdown, WheelInv, has_service_timers
<1>12. OneDeadlinePerKind'
  <2> SUFFICES ASSUME NEW i \in DOMAIN entries', NEW j \in DOMAIN entries',
                      entries'[i].unit = entries'[j].unit,
                      entries'[i].kind = entries'[j].kind,
                      entries'[i].kind # "RestartDelay"
               PROVE  i = j
    BY DEF OneDeadlinePerKind
  <2>1. CASE i \in kept /\ j \in kept
    BY <1>4, <1>6, <2>1 DEF WheelInv, OneDeadlinePerKind
  <2>2. \A k \in ids, l \in kept : ~ /\ entries'[k].unit = entries'[l].unit
                                     /\ entries'[k].kind = entries'[l].kind
                                     /\ entries'[k].kind # "RestartDelay"
    BY <1>2, <1>4, <1>6 DEF Fits, e
  <2>3. CASE i \in ids /\ j \in ids
    <3>1. i - next_id \in 1 .. n /\ j - next_id \in 1 .. n /\ i \in Nat /\ j \in Nat
      BY <1>2, <2>3
    <3>2. i - next_id = j - next_id
      BY <1>4, <2>3, <3>1 DEF Fits, e
    <3> QED BY <1>1, <3>1, <3>2
  <2> QED BY <1>4, <2>1, <2>2, <2>3
<1> QED BY <1>7, <1>8, <1>9, <1>10, <1>11, <1>12 DEF WheelInv

\* arm_start_timeout, arm_stop_timeout and the restart delay.
LEMMA ArmStep ==
  ASSUME TypeOK, WheelInv, NEW u \in Services,
         \/ \E k \in TimeoutKinds : ArmTimeout(u, k)
         \/ ArmRestart(u),
         UNCHANGED <<now, shutting_down>>
  PROVE  WheelType' /\ WheelInv'
<1>1. ASSUME NEW k \in TimeoutKinds \cup {"RestartDelay"}, NEW when \in now .. MaxTime,
             NEW kept, kept = KeptByKind(u, k) \/ (k = "RestartDelay" /\ kept = DOMAIN entries),
             Schedule(kept, <<Entry(when, k, u)>>)
      PROVE  WheelType' /\ WheelInv'
  <2> DEFINE new == <<Entry(when, k, u)>>
  <2>1. Entry(when, k, u) \in TimerEntry /\ when >= now
    BY TimerWheelAssumption DEF Entry, TimerEntry, TimerKind, TypeOK, Units
  <2>2. new \in Seq(TimerEntry) /\ Len(new) = 1 /\ new[1] = Entry(when, k, u)
    BY <2>1
  <2>3. k \notin ServiceTimerKinds
    BY DEF TimeoutKinds, ServiceTimerKinds
  <2>4. \A i \in kept : entries[i].unit = u /\ entries[i].kind = k => k = "RestartDelay"
    BY <1>1 DEF KeptByKind
  <2>5. kept \subseteq DOMAIN entries
    BY <1>1 DEF KeptByKind
  <2> HIDE DEF new
  <2>6. Fits(kept, new)
    BY <2>1, <2>2, <2>3, <2>4, <2>5 DEF Fits, Entry
  <2> QED BY <1>1, <2>6, ScheduleStep DEF new
<1> QED BY <1>1 DEF ArmTimeout, ArmRestart

\* A computed elapse is a deadline of the model or none.
LEMMA ElapseType ==
  ASSUME TypeOK, NEW u \in Timers, NEW kind \in ServiceTimerKinds, NEW earliest \in Nat,
         earliest >= now, NEW s \in NextElapse(u, kind, earliest)
  PROVE  /\ s \in Seq(TimerEntry) /\ Len(s) \in {0, 1}
         /\ \A j \in 1 .. Len(s) : /\ s[j].when >= now /\ ~shutting_down
                                   /\ s[j].unit = u /\ s[j].kind = kind
<1>1. CASE s = <<>>
  BY <1>1
<1>2. ASSUME ~shutting_down, NEW when \in earliest .. MaxTime, s = <<Entry(when, kind, u)>>
      PROVE  /\ s \in Seq(TimerEntry) /\ Len(s) \in {0, 1}
             /\ \A j \in 1 .. Len(s) : /\ s[j].when >= now /\ ~shutting_down
                                       /\ s[j].unit = u /\ s[j].kind = kind
  <2>1. Entry(when, kind, u) \in TimerEntry /\ when >= now
    BY TimerWheelAssumption
       DEF Entry, TimerEntry, TimerKind, ServiceTimerKinds, TypeOK, Units
  <2>2. Len(s) = 1 /\ s[1] = Entry(when, kind, u)
    BY <1>2
  <2>3. s \in Seq(TimerEntry)
    BY <1>2, <2>1
  <2> QED BY <1>2, <2>1, <2>2, <2>3 DEF Entry
<1> QED BY <1>1, <1>2 DEF NextElapse

\* rearm_timer replaces all deadlines of a timer unit.
LEMMA RearmStep ==
  ASSUME TypeOK, WheelInv, NEW u \in Timers, RearmTimer(u), UNCHANGED <<now, shutting_down>>
  PROVE  WheelType' /\ WheelInv'
<1>1. PICK calendar \in NextElapse(u, "CalendarElapse", now + 1),
           monotonic \in NextElapse(u, "MonotonicElapse", now) :
        Schedule(KeptByUnit(u), calendar \o monotonic)
  BY DEF RearmTimer
<1> DEFINE new == calendar \o monotonic
<1>2. /\ calendar \in Seq(TimerEntry) /\ Len(calendar) \in {0, 1}
      /\ \A j \in 1 .. Len(calendar) : /\ calendar[j].when >= now /\ ~shutting_down
                                       /\ calendar[j].unit = u
                                       /\ calendar[j].kind = "CalendarElapse"
  BY ElapseType DEF TypeOK, ServiceTimerKinds
<1>3. /\ monotonic \in Seq(TimerEntry) /\ Len(monotonic) \in {0, 1}
      /\ \A j \in 1 .. Len(monotonic) : /\ monotonic[j].when >= now /\ ~shutting_down
                                        /\ monotonic[j].unit = u
                                        /\ monotonic[j].kind = "MonotonicElapse"
  BY ElapseType DEF TypeOK, ServiceTimerKinds
<1>4. /\ new \in Seq(TimerEntry)
      /\ Len(new) = Len(calendar) + Len(monotonic)
      /\ \A j \in 1 .. Len(new) : new[j] = IF j <= Len(calendar) THEN calendar[j]
                                          ELSE monotonic[j - Len(calendar)]
  BY <1>2, <1>3, ConcatProperties
<1>5. \A i \in KeptByUnit(u) : i \in DOMAIN entries /\ entries[i].unit # u
  BY DEF KeptByUnit
<1> HIDE DEF new
<1>6. \A j \in 1 .. Len(new) :
        /\ new[j].when >= now /\ ~shutting_down /\ new[j].unit = u
        /\ new[j].kind = IF j <= Len(calendar) THEN "CalendarElapse" ELSE "MonotonicElapse"
  <2> SUFFICES ASSUME NEW j \in 1 .. Len(new)
               PROVE  /\ new[j].when >= now /\ ~shutting_down /\ new[j].unit = u
                      /\ new[j].kind = IF j <= Len(calendar) THEN "CalendarElapse"
                                       ELSE "MonotonicElapse"
    OBVIOUS
  <2>1. CASE j <= Len(calendar)
    BY <1>2, <1>4, <2>1
  <2>2. CASE ~(j <= Len(calendar))
    <3>1. j - Len(calendar) \in 1 .. Len(monotonic)
      BY <1>2, <1>3, <1>4, <2>2
    <3> QED BY <1>3, <1>4, <2>2, <3>1
  <2> QED BY <2>1, <2>2
<1>7. \A j, k \in 1 .. Len(new) : new[j].kind = new[k].kind => j = k
  <2>1. Len(new) \in {0, 1, 2} /\ (Len(new) = 2 => Len(calendar) = 1)
    BY <1>2, <1>3, <1>4
  <2>2. CASE Len(new) = 2
    <3>1. new[1].kind = "CalendarElapse" /\ new[2].kind = "MonotonicElapse"
      <4>1. Len(calendar) = 1 /\ 1 \in 1 .. Len(new) /\ 2 \in 1 .. Len(new)
        BY <2>1, <2>2
      <4>2. 1 <= Len(calendar) /\ ~(2 <= Len(calendar))
        BY <4>1
      <4> QED BY <1>6, <4>1, <4>2
    <3>2. 1 .. Len(new) = {1, 2}
      BY <2>2
    <3> QED BY <3>1, <3>2
  <2>3. CASE Len(new) \in {0, 1}
    BY <2>3
  <2> QED BY <2>1, <2>2, <2>3
<1>8. Fits(KeptByUnit(u), new)
  BY <1>4, <1>5, <1>6, <1>7 DEF Fits
<1> QED BY <1>1, <1>8, ScheduleStep DEF new

\* Whatever a handler arms or cancels keeps the wheel consistent.
LEMMA EffectStep ==
  ASSUME TypeOK, WheelInv, Effect, UNCHANGED <<now, shutting_down>>
  PROVE  WheelType' /\ WheelInv'
<1>1. CASE UNCHANGED wheel
  BY <1>1 DEF wheel, TypeOK, WheelType, WheelInv, HeapBacksEntries, FreshIds,
              OneDeadlinePerKind, NeverOverdue, NoServiceTimersInShutdown, has_service_timers
<1> QED BY <1>1, ArmStep, RearmStep DEF Effect

-----------------------------------------------------------------------------
(* The loop.                                                               *)

\* The inductive invariant: re-arming is over before entries are popped, so
\* that nothing is scheduled between next_deadline and the sleep.
LoopInv ==
  /\ TypeOK
  /\ WheelInv
  /\ SleepInv
  /\ BatchDue
  /\ pc \in {"fire", "sleep"} => todo = {}

\* A non-empty set of times has an earliest one.
LEMMA Earliest ==
  ASSUME NEW T \in SUBSET Nat, T # {}
  PROVE  \E x \in T : \A y \in T : x <= y
<1>1. \E x \in T : \A y \in T : ~(<<y, x>> \in OpToRel(<, Nat))
  BY NatLessThanWellFounded, WFMin
<1>2. PICK x \in T : \A y \in T : ~(<<y, x>> \in OpToRel(<, Nat))
  BY <1>1
<1>3. \A y \in T : ~(y < x)
  BY <1>2 DEF OpToRel
<1> QED BY <1>3

\* next_deadline answers with the time of a slot and with no later time than
\* that of any live entry.
LEMMA DeadlineEarliest ==
  ASSUME TypeOK, HeapBacksEntries
  PROVE  /\ NextDeadline \in Nat \cup {None}
         /\ \A i \in DOMAIN entries : /\ NextDeadline # None
                                      /\ NextDeadline <= entries[i].when
         /\ \A i \in DOMAIN entries : <<entries[i].when, i>> \in PrunedHeap
<1>1. PrunedHeap \subseteq Nat \X Nat
  BY DEF PrunedHeap, TypeOK
<1>2. ASSUME NEW i \in DOMAIN entries
      PROVE  <<entries[i].when, i>> \in PrunedHeap
  <2> DEFINE s == <<entries[i].when, i>>
  <2>1. s \in heap /\ s[1] \in Nat /\ s[2] \in Nat /\ s[2] = i
    BY DEF HeapBacksEntries, TypeOK, TimerEntry
  <2>2. Before(s[1], s[2], s[1], s[2])
    BY <2>1 DEF Before
  <2> HIDE DEF s
  <2>3. s \in PrunedHeap
    BY <2>1, <2>2 DEF PrunedHeap
  <2> QED BY <2>3 DEF s
<1>3. CASE PrunedHeap = {}
  BY <1>2, <1>3 DEF NextDeadline
<1>4. CASE PrunedHeap # {}
  <2> DEFINE T == {s[1] : s \in PrunedHeap}
             First(s) == \A t \in PrunedHeap : s[1] <= t[1]
  <2>1. T \in SUBSET Nat /\ T # {}
    BY <1>1, <1>4
  <2>2. \E x \in T : \A y \in T : x <= y
    <3> HIDE DEF T
    <3> QED BY <2>1, Earliest
  <2>3. \E s \in PrunedHeap : First(s)
    BY <2>2
  <2>4. PICK s \in PrunedHeap : First(s) /\ NextDeadline = s[1]
    BY <1>4, <2>3 DEF NextDeadline
  <2>5. NextDeadline \in Nat /\ NextDeadline # None
    BY <1>1, <2>4, TimerWheelAssumption
  <2>6. \A i \in DOMAIN entries : NextDeadline <= entries[i].when
    BY <1>2, <2>4
  <2> QED BY <1>2, <2>5, <2>6
<1> QED BY <1>3, <1>4

\* pop_due removes exactly the entries whose deadline has come.
LEMMA PopDueStep ==
  ASSUME LoopInv, PopDue
  PROVE  LoopInv'
<1>1. /\ heap' = {s \in heap : s[1] > now}
      /\ batch' = [i \in DueIds |-> entries[i]]
      /\ entries' = [i \in DOMAIN entries \ DueIds |-> entries[i]]
      /\ pc' = "fire" /\ todo' = {}
      /\ UNCHANGED <<next_id, now, deadline, shutting_down>>
  BY DEF PopDue
<1>2. DueIds \subseteq DOMAIN entries
  BY DEF DueIds
<1>3. \A i \in DOMAIN entries' : i \in DOMAIN entries \ DueIds /\ entries'[i] = entries[i]
  BY <1>1
<1>4. \A i \in DOMAIN batch' : i \in DueIds /\ batch'[i] = entries[i]
  BY <1>1
<1>5. TypeOK'
  BY <1>1, <1>2, <1>3, <1>4 DEF LoopInv, TypeOK
<1>6. HeapBacksEntries'
  <2> SUFFICES ASSUME NEW i \in DOMAIN entries'
               PROVE  <<entries'[i].when, i>> \in heap'
    BY DEF HeapBacksEntries
  <2> DEFINE s == <<entries[i].when, i>>
  <2>1. s \in heap /\ s[1] = entries[i].when /\ s[2] = i
    BY <1>3 DEF LoopInv, WheelInv, HeapBacksEntries
  <2>2. ~(s[1] <= now)
    <3> SUFFICES ASSUME s[1] <= now PROVE i \in DueIds
      BY <1>3
    <3> HIDE DEF s
    <3> QED BY <1>3, <2>1 DEF DueIds
  <2>3. s[1] > now
    BY <1>3, <2>1, <2>2 DEF LoopInv, TypeOK, TimerEntry
  <2> QED BY <1>1, <1>3, <2>1, <2>3
<1>7. BatchDue'
  <2> SUFFICES ASSUME NEW i \in DueIds
               PROVE  entries[i].when <= now
    BY <1>1, <1>4 DEF BatchDue
  <2>1. PICK s \in heap : s[1] <= now /\ s[2] = i
    BY DEF DueIds
  <2>2. <<entries[i].when, i>> \in heap
    BY <1>2 DEF LoopInv, WheelInv, HeapBacksEntries
  <2>3. s = <<entries[i].when, i>>
    BY <2>1, <2>2 DEF LoopInv, WheelInv, FreshIds
  <2> QED BY <2>1, <2>3
<1>8. WheelInv'
  <2>1. FreshIds'
    BY <1>1, <1>3 DEF LoopInv, WheelInv, FreshIds
  <2>2. OneDeadlinePerKind' /\ NeverOverdue' /\ NoServiceTimersInShutdown'
    BY <1>1, <1>3 DEF LoopInv, WheelInv, OneDeadlinePerKind, NeverOverdue,
                      NoServiceTimersInShutdown, has_service_timers
  <2> QED BY <1>6, <2>1, <2>2 DEF WheelInv
<1> QED BY <1>1, <1>5, <1>7, <1>8 DEF LoopInv, SleepInv

\* Taking the next timer of a batch keeps the wheel consistent.
LEMMA FireStep ==
  ASSUME LoopInv, Fire
  PROVE  LoopInv'
<1>1. PICK i \in DOMAIN batch :
        /\ batch' = [j \in DOMAIN batch \ {i} |-> batch[j]]
        /\ IF batch[i].unit \in Timers THEN RearmTimer(batch[i].unit) ELSE Effect
  BY DEF Fire
<1>2. pc = "fire" /\ UNCHANGED <<now, deadline, pc, todo, shutting_down>>
  BY DEF Fire
<1>3. WheelType' /\ WheelInv'
  BY <1>1, <1>2, RearmStep, EffectStep DEF LoopInv
<1>4. DOMAIN batch' \subseteq DOMAIN batch /\ \A j \in DOMAIN batch' : batch'[j] = batch[j]
  BY <1>1
<1>5. TypeOK'
  BY <1>2, <1>3, <1>4 DEF LoopInv, TypeOK, WheelType
<1> QED BY <1>2, <1>3, <1>4, <1>5 DEF LoopInv, SleepInv, BatchDue

\* Pruning stale slots before the sleep drops no slot of a live entry.
LEMMA DeadlineStep ==
  ASSUME LoopInv, Deadline
  PROVE  LoopInv'
<1>1. /\ heap' = PrunedHeap /\ deadline' = NextDeadline /\ pc = "fire" /\ pc' = "sleep"
      /\ UNCHANGED <<entries, next_id, now, batch, todo, shutting_down>>
  BY DEF Deadline
<1>2. PrunedHeap \subseteq heap
  BY DEF PrunedHeap
<1>3. /\ NextDeadline \in Nat \cup {None}
      /\ \A i \in DOMAIN entries : NextDeadline # None /\ NextDeadline <= entries[i].when
      /\ \A i \in DOMAIN entries : <<entries[i].when, i>> \in PrunedHeap
  BY DeadlineEarliest DEF LoopInv, WheelInv
<1>4. TypeOK'
  BY <1>1, <1>2, <1>3 DEF LoopInv, TypeOK
<1>5. SleepInv'
  BY <1>1, <1>3 DEF SleepInv
<1>6. HeapBacksEntries'
  BY <1>1, <1>3 DEF HeapBacksEntries
<1>7. WheelInv'
  BY <1>1, <1>2, <1>6 DEF LoopInv, WheelInv, FreshIds, OneDeadlinePerKind, NeverOverdue,
                          NoServiceTimersInShutdown, has_service_timers
<1> QED BY <1>1, <1>4, <1>5, <1>7 DEF LoopInv, BatchDue

\* The clock passes no deadline while the loop sleeps.
LEMMA WakeStep ==
  ASSUME LoopInv, Wake
  PROVE  LoopInv'
<1>1. /\ pc = "sleep" /\ pc' = "handle" /\ now' \in now .. WakeBy
      /\ UNCHANGED <<heap, entries, next_id, batch, deadline, todo, shutting_down>>
  BY DEF Wake
<1>2. now \in Nat /\ now' \in Nat /\ now <= now' /\ now' <= WakeBy /\ WakeBy \in Nat
  <2>1. WakeBy \in Nat
    BY TimerWheelAssumption DEF WakeBy, LoopInv, TypeOK
  <2> QED BY <1>1, <2>1 DEF LoopInv, TypeOK
<1>3. TypeOK'
  BY <1>1, <1>2 DEF LoopInv, TypeOK
<1>4. NeverOverdue'
  <2> SUFFICES ASSUME NEW i \in DOMAIN entries
               PROVE  entries[i].when >= now'
    BY <1>1 DEF NeverOverdue
  <2>1. deadline # None /\ deadline <= entries[i].when /\ entries[i].when >= now
    BY <1>1 DEF LoopInv, SleepInv, WheelInv, NeverOverdue
  <2>2. deadline \in Nat /\ entries[i].when \in Nat
    BY <2>1 DEF LoopInv, TypeOK, TimerEntry
  <2>3. WakeBy <= entries[i].when
    BY <1>2, <2>1, <2>2, TimerWheelAssumption DEF WakeBy
  <2> QED BY <1>2, <2>1, <2>2, <2>3
<1>5. BatchDue'
  <2>1. \A i \in DOMAIN batch : batch[i].when \in Nat /\ batch[i].when <= now
    BY DEF LoopInv, BatchDue, TypeOK, TimerEntry
  <2> QED BY <1>1, <1>2, <2>1 DEF BatchDue
<1>6. WheelInv'
  BY <1>1, <1>4 DEF LoopInv, WheelInv, HeapBacksEntries, FreshIds, OneDeadlinePerKind,
                    NoServiceTimersInShutdown, has_service_timers
<1> QED BY <1>1, <1>3, <1>5, <1>6 DEF LoopInv, SleepInv

\* load_all and shutdown start from an empty wheel.
LEMMA ResetStep ==
  ASSUME LoopInv, Reset, pc' = "handle", todo' \subseteq Timers,
         shutting_down' \in BOOLEAN, UNCHANGED <<now, batch, deadline>>
  PROVE  LoopInv'
<1>1. DOMAIN entries' = {} /\ heap' = {} /\ next_id' = 0
  BY DEF Reset
<1>2. TypeOK'
  BY <1>1 DEF LoopInv, TypeOK
<1> QED BY <1>1, <1>2 DEF LoopInv, WheelInv, HeapBacksEntries, FreshIds, OneDeadlinePerKind,
           NeverOverdue, NoServiceTimersInShutdown, has_service_timers, SleepInv, BatchDue

\* An event handled between sleeps keeps the wheel consistent.
LEMMA HandleStep ==
  ASSUME LoopInv, Handle \/ Rearm \/ Reload \/ Shutdown
  PROVE  LoopInv'
<1>1. CASE Handle
  <2>1. /\ Effect /\ pc' \in {"handle", "tick"} /\ todo' \subseteq Timers
        /\ UNCHANGED <<now, batch, deadline, shutting_down>>
    BY <1>1 DEF Handle
  <2>2. WheelType' /\ WheelInv'
    BY <2>1, EffectStep DEF LoopInv
  <2>3. TypeOK'
    BY <2>1, <2>2 DEF LoopInv, TypeOK, WheelType
  <2> QED BY <2>1, <2>2, <2>3 DEF LoopInv, SleepInv, BatchDue
<1>2. CASE Rearm
  <2>1. PICK u \in todo : RearmTimer(u) /\ todo' = todo \ {u}
    BY <1>2 DEF Rearm
  <2>2. UNCHANGED <<now, batch, deadline, pc, shutting_down>> /\ u \in Timers
    BY <1>2 DEF Rearm, LoopInv, TypeOK
  <2>3. pc \notin {"fire", "sleep"}
    BY <2>1 DEF LoopInv
  <2>4. WheelType' /\ WheelInv'
    BY <2>1, <2>2, RearmStep DEF LoopInv
  <2>5. TypeOK'
    BY <2>1, <2>2, <2>4 DEF LoopInv, TypeOK, WheelType
  <2> QED BY <2>1, <2>2, <2>3, <2>4, <2>5 DEF LoopInv, SleepInv, BatchDue
<1>3. CASE Reload
  BY <1>3, ResetStep DEF Reload, LoopInv, TypeOK
<1>4. CASE Shutdown
  BY <1>4, ResetStep DEF Shutdown, LoopInv, TypeOK
<1> QED BY <1>1, <1>2, <1>3, <1>4

\* The inductive invariant of the loop holds in every reachable state.
LEMMA LoopInvariant == Spec => []LoopInv
<1>1. Init => LoopInv
  <2> SUFFICES ASSUME Init PROVE LoopInv
    OBVIOUS
  <2>1. /\ DOMAIN entries = {} /\ DOMAIN batch = {} /\ heap = {} /\ next_id = 0
        /\ pc = "tick" /\ todo = {} /\ now = 0 /\ deadline = None
        /\ shutting_down = FALSE
    BY DEF Init
  <2>2. TypeOK
    BY <2>1 DEF TypeOK
  <2> QED BY <2>1, <2>2
          DEF LoopInv, WheelInv, HeapBacksEntries, FreshIds, OneDeadlinePerKind, NeverOverdue,
              NoServiceTimersInShutdown, has_service_timers, SleepInv, BatchDue
<1>2. LoopInv /\ [Next]_vars => LoopInv'
  <2> SUFFICES ASSUME LoopInv, [Next]_vars PROVE LoopInv'
    OBVIOUS
  <2>1. CASE Next
    BY <2>1, PopDueStep, FireStep, DeadlineStep, WakeStep, HandleStep DEF Next
  <2>2. CASE UNCHANGED vars
    BY <2>2 DEF vars, LoopInv, TypeOK, WheelInv, HeapBacksEntries, FreshIds,
                OneDeadlinePerKind, NeverOverdue, NoServiceTimersInShutdown,
                has_service_timers, SleepInv, BatchDue
  <2> QED BY <2>1, <2>2
<1> QED BY <1>1, <1>2, PTL DEF Spec

\* Whatever was cancelled, re-armed or left stale in the heap: the event loop
\* never sleeps past the deadline of a live entry.
THEOREM NeverOverdueCorrect == Spec => []NeverOverdue
<1>1. LoopInv => NeverOverdue
  BY DEF LoopInv, WheelInv
<1> QED BY <1>1, LoopInvariant, PTL

\* No live entry ever loses its slot in the heap, so none is forgotten.
THEOREM HeapBacksEntriesCorrect == Spec => []HeapBacksEntries
<1>1. LoopInv => HeapBacksEntries
  BY DEF LoopInv, WheelInv
<1> QED BY <1>1, LoopInvariant, PTL

\* No entry fires early: a stale slot never stands in for another deadline.
THEOREM BatchDueCorrect == Spec => []BatchDue
<1>1. LoopInv => BatchDue
  BY DEF LoopInv
<1> QED BY <1>1, LoopInvariant, PTL

\* A unit never has two live deadlines of a kind, restart delays apart.
THEOREM OneDeadlineCorrect == Spec => []OneDeadlinePerKind
<1>1. LoopInv => OneDeadlinePerKind
  BY DEF LoopInv, WheelInv
<1> QED BY <1>1, LoopInvariant, PTL

\* During shutdown no calendar or monotonic timer is ever armed.
THEOREM NoServiceTimersCorrect == Spec => []NoServiceTimersInShutdown
<1>1. LoopInv => NoServiceTimersInShutdown
  BY DEF LoopInv, WheelInv
<1> QED BY <1>1, LoopInvariant, PTL

\* The wheel and the loop keep their types, through resets as well.
THEOREM TimerWheelTypeCorrect == Spec => []TypeOK
<1>1. LoopInv => TypeOK
  BY DEF LoopInv
<1> QED BY <1>1, LoopInvariant, PTL

\* No id is reused while a slot of it is in the heap (schedule, reset).
THEOREM FreshIdsCorrect == Spec => []FreshIds
<1>1. LoopInv => FreshIds
  BY DEF LoopInv, WheelInv
<1> QED BY <1>1, LoopInvariant, PTL

\* Heap and map of the wheel agree in every reachable state: a live entry has
\* its slot, ids are not reused, and no kind of a unit is armed twice.
THEOREM WheelConsistentCorrect == Spec => []WheelConsistent
<1>1. LoopInv => WheelConsistent
  BY DEF LoopInv, WheelInv, WheelConsistent
<1> QED BY <1>1, LoopInvariant, PTL
=============================================================================
