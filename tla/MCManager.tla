----------------------------- MODULE MCManager -----------------------------
(***************************************************************************)
(* Instances of Manager for TLC.  A configuration is a few units; what they *)
(* are and how they depend on each other is given by the definitions below. *)
(***************************************************************************)
EXTENDS ManagerProperties

CONSTANTS a, b, c, d, e, t, g

NoDeps == [u \in Units |-> {}]
Edge(x, y) == [u \in Units |-> IF u = x THEN {y} ELSE {}]
AB == Edge(a, b)
BA == Edge(b, a)
BC == Edge(b, c)
AC == Edge(a, c)
CA == Edge(c, a)

Pass == [u \in Units |-> {"pass"}]
AnyCondition(us) == [u \in Units |-> IF u \in us THEN {"pass", "skip", "assert"} ELSE {"pass"}]

AllType(type) == [u \in Units |-> type]
Simple == AllType("simple")
Notify == AllType("notify")
Oneshot == AllType("oneshot")

Commands(pre, start, post, stop, reload) ==
  [u \in Units |-> [k \in ControlCommand |->
     CASE k = "StartPre" -> pre [] k = "Start" -> start [] k = "StartPost" -> post
       [] k = "Stop" -> stop [] OTHER -> reload]]
StartOnly == Commands(0, 1, 0, 0, 0)
StartReload == Commands(0, 1, 0, 0, 1)
StartStop == Commands(0, 1, 0, 1, 0)
TwoStarts == Commands(1, 2, 0, 1, 0)
AllStages == Commands(1, 2, 1, 1, 0)

RestartNo == [u \in Units |-> "no"]

\* Services of every type, one of which has a unit file
OfEachType == [u \in Units |-> CASE u = a -> "simple" [] u = b -> "notify"
                                 [] u = d -> "forking" [] OTHER -> "oneshot"]
RestartByType == [u \in Units |-> CASE u \in {a, b} -> "on-failure"
                                    [] u = d -> "always" [] OTHER -> "no"]
StagesByType == [u \in Units |-> CASE u = c -> AllStages[u] [] u = e -> TwoStarts[u]
                                   [] OTHER -> StartOnly[u]]
\* ... and every call is about that one
Named == \A i \in DOMAIN stack' : stack'[i].unit = NoUnit \/ units[stack'[i].unit].loaded
OneServiceInit == Idle /\ \E s \in Units : units = [u \in Units |-> NewUnit(u = s)]
OneService == OneServiceInit /\ [][Next]_managerVars

\* Two sets of notify services: three with every kind of dependency, and a target
\* that wants two, one ordered after the other, with a fourth that requires one
Entangled == {a, b, c}
OfTarget == {d, e, t, g}
Joined(x, y) == [u \in Units |-> x[u] \cup y[u]]
TwoSetsRequires == Joined(AB, Edge(g, d))
TwoSetsWants == [u \in Units |-> IF u = t THEN {d, e} ELSE {}]
TwoSetsAfter == Edge(e, d)
TwoSetsConditions == AnyCondition(Entangled)
\* One of them has unit files.  Nobody reloads or restarts the target's units or
\* starts them over their dependencies.
TwoSetsInit ==
  Idle /\ \E us \in {Entangled, OfTarget} : units = [u \in Units |-> NewUnit(u \in us)]
TwoSets == TwoSetsInit /\ [][Next]_managerVars
TargetLoaded == ~units[a].loaded
OfOneSet ==
  /\ \A i \in DOMAIN stack' :
       stack'[i].unit \in {NoUnit} \cup (IF TargetLoaded THEN OfTarget ELSE Entangled)
  /\ TargetLoaded /\ requests' # requests => \E u \in Units : RequestStart(u) \/ RequestStop(u)

\* The Start job of one of the target's units goes to work only when every unit
\* it requires is active and no unit it is ordered after has a start pending
\* (expand_start_job, maybe_start_job), whatever is stopped or fails meanwhile.
TargetOrderHeld == [][TargetLoaded => \A id \in DOMAIN jobs : InOrder(id)]_managerVars
=============================================================================
