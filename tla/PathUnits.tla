------------------------------ MODULE PathUnits ------------------------------
(***************************************************************************)
(* A .path unit and the unit it activates: every tick the manager looks at   *)
(* the watched paths while that unit is not up.                              *)
(***************************************************************************)
EXTENDS Naturals, Sequences, FiniteSets

CONSTANTS
  Watch,      \* per watched path its condition: "exists", "notempty", "glob" or "changed"
  MaxMtime    \* bound: changes of a path

ASSUME PathsAssumption == MaxMtime \in Nat

VARIABLES
  mtimes,      \* per path its modification time, 0 while it does not exist
  stamp,       \* per path the last modification time it was given
  path_unit,   \* is the .path unit active?
  target,      \* "inactive", "running" or "failed"
  path_state,  \* triggered, and per path the armed mtime, Unseen before the first
  fired        \* per path how often a change of it fired

pathsVars == <<mtimes, stamp, path_unit, target, path_state, fired>>

Paths == DOMAIN Watch
Changed == {p \in Paths : Watch[p] = "changed"}
Unseen == MaxMtime + 1
NewState == [triggered |-> FALSE, armed |-> [p \in Changed |-> Unseen]]

PathsInit ==
  /\ mtimes \in [Paths -> {0, 1}] /\ stamp = [p \in Paths |-> 1]
  /\ path_unit = FALSE /\ target = "inactive"
  /\ path_state = NewState
  /\ fired = [p \in Changed |-> 0]

-----------------------------------------------------------------------------
(* The conditions.                                                         *)

\* Mutant: the baseline stays the first one
ArmedFirst(old, now) == IF old = Unseen THEN now ELSE old

\* path_changed_triggered leaves the mtime it saw
Armed(old, now) == now

\* The first look records, a disappearance too; a new mtime fires
path_changed_triggered(old, now) == old # Unseen /\ now # 0 /\ now # old

\* The conditions that hold of what is there; a glob is about its directory's entries
Holds == {p \in Paths \ Changed : mtimes[p] # 0}

\* eval_path_triggers: PathChanged= is looked at only when nothing else
\* fires, and only up to the first path that does
Looks ==
  IF Holds # {} THEN {{}}
  ELSE {seen \in SUBSET Changed :
          LET hits == {p \in seen : path_changed_triggered(path_state.armed[p], mtimes[p])} IN
          \/ Cardinality(hits) = 1
          \/ hits = {} /\ seen = Changed}

-----------------------------------------------------------------------------

PathAppearsOrChanges(p) ==
  /\ stamp[p] < MaxMtime
  /\ stamp' = [stamp EXCEPT ![p] = @ + 1]
  /\ mtimes' = [mtimes EXCEPT ![p] = stamp[p] + 1]
  /\ UNCHANGED <<path_unit, target, path_state, fired>>

PathVanishes(p) ==
  /\ mtimes[p] # 0
  /\ mtimes' = [mtimes EXCEPT ![p] = 0]
  /\ UNCHANGED <<stamp, path_unit, target, path_state, fired>>

\* PathUnit::start; MakeDirectory= makes the directories that are not there,
\* except those of PathExists=
StartPath ==
  /\ ~path_unit
  /\ path_unit' = TRUE
  /\ \E made \in {{}, {p \in Changed : mtimes[p] = 0}} :
       /\ \A p \in made : stamp[p] < MaxMtime
       /\ stamp' = [p \in Paths |-> IF p \in made THEN stamp[p] + 1 ELSE stamp[p]]
       /\ mtimes' = [p \in Paths |-> IF p \in made THEN stamp[p] + 1 ELSE mtimes[p]]
  /\ UNCHANGED <<target, path_state, fired>>

StopPath ==
  /\ path_unit
  /\ path_unit' = FALSE
  /\ UNCHANGED <<mtimes, stamp, target, path_state, fired>>

\* Mutant: the unit that fired stays triggered
StaysTriggered(triggered) == triggered

\* Is the unit still triggered?  Never once the target is not up
Blocked(triggered) == FALSE

poll_paths ==
  /\ path_unit /\ target # "running"
  /\ ~Blocked(path_state.triggered)
  /\ \E seen \in Looks :
       LET armed == [p \in Changed |-> IF p \in seen THEN Armed(path_state.armed[p], mtimes[p])
                                       ELSE path_state.armed[p]]
           hits == {p \in seen : path_changed_triggered(path_state.armed[p], mtimes[p])}
           fires == Holds # {} \/ hits # {} IN
       /\ path_state' = [triggered |-> fires, armed |-> armed]
       /\ fired' = [p \in Changed |-> IF p \in hits THEN fired[p] + 1 ELSE fired[p]]
       /\ \/ target' = IF fires THEN "running" ELSE target
          \/ fires /\ target' = "failed"
  /\ UNCHANGED <<mtimes, stamp, path_unit>>

TargetStarts ==
  /\ target # "running"
  /\ target' = "running"
  /\ UNCHANGED <<mtimes, stamp, path_unit, path_state, fired>>

TargetEnds ==
  /\ target = "running"
  /\ target' \in {"inactive", "failed"}
  /\ UNCHANGED <<mtimes, stamp, path_unit, path_state, fired>>

\* load_all makes the unit anew: still active, without its path state
ReloadPath ==
  /\ path_state # NewState
  /\ path_state' = NewState
  /\ UNCHANGED <<mtimes, stamp, path_unit, target, fired>>

PathsNext ==
  \/ \E p \in Paths : PathAppearsOrChanges(p) \/ PathVanishes(p)
  \/ StartPath \/ StopPath \/ poll_paths \/ TargetStarts \/ TargetEnds \/ ReloadPath

-----------------------------------------------------------------------------
(* Properties.                                                             *)

\* "A new distinct mtime, never the same one": a watched path fires at most
\* once per change made to it, however often the target ends and the unit is
\* stopped, started or reloaded (path_changed_triggered re-records).
FiresOncePerChange == \A p \in Changed : fired[p] < stamp[p]

\* A change the unit has not fired for does so, unless it is taken back or
\* another condition fires first: a target that runs meanwhile, or that failed,
\* only delays it (poll_paths re-arms whenever the target is not up).
ChangeIsSeen ==
  \A p \in Changed :
    (path_unit /\ path_changed_triggered(path_state.armed[p], mtimes[p]))
      ~> (\/ ~path_unit \/ target = "running" \/ Holds # {}
          \/ ~path_changed_triggered(path_state.armed[p], mtimes[p]))
=============================================================================
